------------------------------ MODULE CklDaemon ------------------------------
(***************************************************************************)
(* The CKL daemon (ckl/ckl_daemon/ckl_daemon.c): one thread that loads the *)
(* radio configuration, programs the OVS flow table, then loops forever:   *)
(* wait for a broadcast frame or a timer, take the frame into the          *)
(* neighbour table, broadcast the local configuration, reload the          *)
(* configuration file when its stat changed, age neighbours out, rewrite   *)
(* peers.json, and program the flow table anew when something changed.     *)
(*                                                                         *)
(* The daemon shares three things with the rest of the container: the      *)
(* configuration file (replaced by the parameter service at any moment),   *)
(* the flow table (which the kernel applies to traffic at any moment) and  *)
(* peers.json (read by the topology reporter at any moment).  So every     *)
(* access to one of the three is a step of its own; pc says where the      *)
(* thread is.  Commands to OVS, the status file and the process itself can *)
(* fail, as Env allows.                                                    *)
(***************************************************************************)
EXTENDS PeerPolicy

CONSTANTS
  LocalConfigs,          \* what the configuration file may hold
  Refused,               \* a file content config_read_all refuses
  Frames,                \* the frames neighbours may broadcast
  BROADCAST_INTERVAL,    \* the two timers of the loop, in ticks
  CONFIG_CHECK_INTERVAL,
  Stamps, NoStat,        \* stat results (mtime and size), and "never read"
  Absent, Torn,          \* peers.json: no such file, cut short
  Env,                   \* what the environment may do, a subset of Hazards
  MaxFaults              \* bound on the failures of a behaviour

Hazards == {"ovs",            \* an ovs-ofctl command fails
            "status",         \* peers.json cannot be opened or completed
            "stop",           \* the process ends and is started again
            "startup_write",  \* the file is replaced between load and stat
            "same_stamp"}     \* two replacements within one mtime granule

ASSUME CklAssumption ==
  /\ LocalConfigs \subseteq RadioConfig
  /\ Refused \notin RadioConfig
  /\ Frames \subseteq Broadcast
  /\ BROADCAST_INTERVAL \in Nat \ {0}
  /\ CONFIG_CHECK_INTERVAL \in Nat \ {0}
  /\ NoStat \notin Stamps
  /\ Absent # Torn /\ {Absent, Torn} \cap Status = {}
  /\ Env \subseteq Hazards
  /\ MaxFaults \in Nat

VARIABLES
  pc,             \* the step the thread takes next
  cursor,         \* how far the rebuilding of the flow table has come
  ret,            \* where write_peer_status returns to
  local,          \* local_cfg
  cfgStat,        \* cfg_stat
  neighbors,
  changed,
  policyApplied,  \* policy_applied
  txIn, cfgIn,    \* ticks until next_tx_ms and next_cfg_check_ms
  probe,          \* the configuration this node broadcast last
  cfgFile,        \* the configuration file: content and stat
  baseFlows,      \* the flow table: groups of base flows and
  peerFlows,      \* whitelist flows
  peersJson,      \* the status file
  faults,         \* failures so far
  failed          \* history: the last run of ovs_apply_policy failed

control  == <<pc, cursor, ret>>
settings == <<local, cfgStat, policyApplied>>
timers   == <<txIn, cfgIn>>
table    == <<baseFlows, peerFlows>>
history  == <<faults, failed>>
vars == <<control, settings, neighbors, changed, timers, probe, cfgFile,
          table, peersJson, history>>

-----------------------------------------------------------------------------
MayFail(kind) == /\ kind \in Env
                 /\ faults < MaxFaults
                 /\ faults' = faults + 1

(* The process is gone: nothing of it remains but what it left outside. *)
Exit ==
  /\ pc' = "off" /\ cursor' = 0 /\ ret' = "open"
  /\ cfgStat' = NoStat /\ policyApplied' = FALSE
  /\ neighbors' = EmptyTable /\ changed' = FALSE
  /\ txIn' = 0 /\ cfgIn' = 0 /\ failed' = FALSE

Init ==
  /\ pc = "off" /\ cursor = 0 /\ ret = "open"
  /\ local \in LocalConfigs
  /\ cfgStat = NoStat /\ policyApplied = FALSE
  /\ neighbors = EmptyTable /\ changed = FALSE
  /\ txIn = 0 /\ cfgIn = 0
  /\ probe = local
  /\ cfgFile \in [content : LocalConfigs \cup {Refused}, stamp : Stamps]
  /\ baseFlows = {} /\ peerFlows = {}
  /\ peersJson = Absent
  /\ faults = 0 /\ failed = FALSE

-----------------------------------------------------------------------------
(* Start-up.                                                               *)

Start ==
  /\ pc = "off"
  /\ pc' = "load"
  /\ UNCHANGED <<cursor, ret, settings, neighbors, changed, timers, probe,
                 cfgFile, table, peersJson, history>>

LoadConfig ==
  /\ pc = "load"
  /\ cfgFile.content # Refused
  /\ local' = cfgFile.content
  /\ pc' = "stat"
  /\ UNCHANGED <<cursor, ret, cfgStat, policyApplied, neighbors, changed,
                 timers, probe, cfgFile, table, peersJson, history>>

LoadRefused ==
  /\ pc = "load"
  /\ cfgFile.content = Refused
  /\ Exit
  /\ UNCHANGED <<local, probe, cfgFile, table, peersJson, faults>>

ReadConfigStat ==
  /\ pc = "stat"
  /\ cfgStat' = cfgFile.stamp
  /\ pc' = "apply"
  /\ UNCHANGED <<cursor, ret, local, policyApplied, neighbors, changed, timers,
                 probe, cfgFile, table, peersJson, history>>

(* open_ckl_socket, then the first deadlines: the first probe is due now.  *)
OpenSocket ==
  /\ pc = "open"
  /\ pc' = "poll"
  /\ txIn' = 0
  /\ cfgIn' = CONFIG_CHECK_INTERVAL
  /\ UNCHANGED <<cursor, ret, settings, neighbors, changed, probe, cfgFile,
                 table, peersJson, history>>

-----------------------------------------------------------------------------
(* One round of the loop: poll and receive_probe, the probe, the check of  *)
(* the configuration file, and the decision to program the flow table.     *)

PollTimeout ==
  /\ pc = "poll"
  /\ txIn = 0 \/ cfgIn = 0
  /\ pc' = "tx"
  /\ changed' = FALSE
  /\ UNCHANGED <<cursor, ret, settings, neighbors, timers, probe, cfgFile,
                 table, peersJson, history>>

(* poll returned a frame; the round goes on with the probe. *)
FrameArrives ==
  /\ pc = "poll"
  /\ pc' = "tx"
  /\ UNCHANGED <<cursor, ret, settings, timers, probe, cfgFile, table,
                 peersJson, history>>

(* A frame that is outgoing, malformed, of another type, or that carries   *)
(* the node's own number is dropped.                                       *)
IgnoreFrame ==
  /\ FrameArrives
  /\ changed' = FALSE
  /\ UNCHANGED neighbors

RefreshNeighbor(f, i) ==
  /\ FrameArrives
  /\ f.cfg.node # local.node
  /\ FindNeighbor(neighbors, i, f.cfg.node)
  /\ changed' = NeighborDiffers(neighbors[i], f)
  /\ neighbors' = Refreshed(neighbors, i, f)

AddNeighbor(f, i) ==
  /\ FrameArrives
  /\ f.cfg.node # local.node
  /\ Unknown(neighbors, f.cfg.node)
  /\ AllocNeighbor(neighbors, i)
  /\ changed' = TRUE
  /\ neighbors' = Added(neighbors, i, f)

(* The table is full: the frame is ignored. *)
TableFull(f) ==
  /\ FrameArrives
  /\ f.cfg.node # local.node
  /\ Unknown(neighbors, f.cfg.node)
  /\ Used(neighbors) = Slots
  /\ changed' = FALSE
  /\ UNCHANGED neighbors

ReceiveProbe ==
  \/ IgnoreFrame
  \/ \E f \in Frames :
       \/ \E i \in Slots : RefreshNeighbor(f, i) \/ AddNeighbor(f, i)
       \/ TableFull(f)

SendProbe ==
  /\ pc = "tx"
  /\ txIn = 0
  /\ probe' = local
  /\ txIn' = BROADCAST_INTERVAL
  /\ pc' = "check"
  /\ UNCHANGED <<cursor, ret, settings, neighbors, changed, cfgIn, cfgFile,
                 table, peersJson, history>>

ProbeNotDue ==
  /\ pc = "tx"
  /\ txIn > 0
  /\ pc' = "check"
  /\ UNCHANGED <<cursor, ret, settings, neighbors, changed, timers, probe,
                 cfgFile, table, peersJson, history>>

CheckNotDue ==
  /\ pc = "check"
  /\ cfgIn > 0
  /\ pc' = "decide"
  /\ UNCHANGED <<cursor, ret, settings, neighbors, changed, timers, probe,
                 cfgFile, table, peersJson, history>>

(* config_stat_changed: the new stat is kept before the file is read. *)
ConfigStatChanged ==
  /\ pc = "check"
  /\ cfgIn = 0
  /\ cfgIn' = CONFIG_CHECK_INTERVAL
  /\ cfgStat' = cfgFile.stamp
  /\ pc' = IF cfgFile.stamp = cfgStat THEN "prune" ELSE "reload"
  /\ UNCHANGED <<cursor, ret, local, policyApplied, neighbors, changed, txIn,
                 probe, cfgFile, table, peersJson, history>>

(* An error the reload could make: it takes the file over only when the    *)
(* subnet parameters change.                                               *)
AdoptsOnNewSubnet(content) ==
  /\ content # Refused
  /\ ~SameSubnetParams(local, content)

Adopts(content) == content # Refused

(* load_config again; a refused file leaves the old configuration in place. *)
ReloadConfig ==
  /\ pc = "reload"
  /\ pc' = "prune"
  /\ IF Adopts(cfgFile.content)
     THEN local' = cfgFile.content /\ changed' = TRUE
     ELSE UNCHANGED <<local, changed>>
  /\ UNCHANGED <<cursor, ret, cfgStat, policyApplied, neighbors, timers, probe,
                 cfgFile, table, peersJson, history>>

(* prune_neighbors and update_peer_reachability, then write_peer_status. *)
PruneNeighbors ==
  /\ pc = "prune"
  /\ neighbors' = UpdatePeerReachability(local, Pruned(neighbors))
  /\ changed' = (changed \/ SomeAgedOut(neighbors))
  /\ pc' = "trunc"
  /\ ret' = "decide"
  /\ UNCHANGED <<cursor, settings, timers, probe, cfgFile, table, peersJson,
                 history>>

Decide ==
  /\ pc = "decide"
  /\ pc' = IF changed \/ ~policyApplied THEN "apply" ELSE "poll"
  /\ changed' = FALSE
  /\ UNCHANGED <<cursor, ret, settings, neighbors, timers, probe, cfgFile,
                 table, peersJson, history>>

-----------------------------------------------------------------------------
(* ovs_apply_policy: recompute reachability, clear the table, add the base *)
(* flows group by group, then the flows of each reachable neighbour.  The  *)
(* first command that fails ends it, and leaves the table as it is.        *)

(* An error ovs_apply_policy could make: it relies on old verdicts. *)
NotReclassified == neighbors

Reclassified == UpdatePeerReachability(local, neighbors)

ClearFlows ==
  /\ pc = "apply"
  /\ neighbors' = Reclassified
  /\ baseFlows' = {}
  /\ peerFlows' = {}
  /\ pc' = "base"
  /\ cursor' = 1
  /\ UNCHANGED <<ret, settings, changed, timers, probe, cfgFile, peersJson,
                 history>>

AddBaseFlows ==
  /\ pc = "base"
  /\ baseFlows' = baseFlows \cup {BaseGroups[cursor]}
  /\ IF cursor < 3
     THEN cursor' = cursor + 1 /\ UNCHANGED pc
     ELSE cursor' = 1 /\ pc' = "peers"
  /\ UNCHANGED <<ret, settings, neighbors, changed, timers, probe, cfgFile,
                 peerFlows, peersJson, history>>

AddPeerWhitelist ==
  /\ pc = "peers"
  /\ cursor \in Slots
  /\ cursor' = cursor + 1
  /\ peerFlows' = IF cursor \in Reachable(neighbors)
                  THEN peerFlows \cup PeerFlows(local, neighbors[cursor].cfg)
                  ELSE peerFlows
  /\ UNCHANGED <<pc, ret, settings, neighbors, changed, timers, probe, cfgFile,
                 baseFlows, peersJson, history>>

(* All flows are in place: policy_applied is set and the status written.   *)
PolicyApplied ==
  /\ pc = "peers"
  /\ cursor \notin Slots
  /\ cursor' = 0
  /\ policyApplied' = TRUE
  /\ failed' = FALSE
  /\ pc' = "trunc"
  /\ ret' = IF policyApplied THEN "poll" ELSE "open"
  /\ UNCHANGED <<local, cfgStat, neighbors, changed, timers, probe, cfgFile,
                 table, peersJson, faults>>

(* A failure ends the process during start-up; in the loop it is ignored.  *)
ApplyFails ==
  /\ MayFail("ovs")
  /\ IF policyApplied
     THEN /\ pc' = "poll" /\ cursor' = 0 /\ failed' = TRUE
          /\ UNCHANGED <<ret, cfgStat, policyApplied, changed, timers>>
     ELSE Exit
  /\ UNCHANGED <<local, probe, cfgFile, peersJson>>

ClearFlowsFails ==
  /\ pc = "apply"
  /\ ApplyFails
  /\ policyApplied => neighbors' = Reclassified
  /\ UNCHANGED table

AddBaseFlowsFails ==
  /\ pc = "base"
  /\ ApplyFails
  /\ policyApplied => UNCHANGED neighbors
  /\ UNCHANGED table

AddPeerWhitelistFails ==
  /\ pc = "peers"
  /\ cursor \in Reachable(neighbors)
  /\ ApplyFails
  /\ policyApplied => UNCHANGED neighbors
  /\ \E k \in 0 .. 3 :
       peerFlows' = peerFlows \cup
                    FirstPeerFlows(local, neighbors[cursor].cfg, k)
  /\ UNCHANGED baseFlows

-----------------------------------------------------------------------------
(* write_peer_status: fopen truncates the file, fclose completes it.  Its  *)
(* result is ignored.                                                      *)

TruncateStatus ==
  /\ pc = "trunc"
  /\ peersJson' = Torn
  /\ pc' = "write"
  /\ UNCHANGED <<cursor, ret, settings, neighbors, changed, timers, probe,
                 cfgFile, table, history>>

WriteStatus ==
  /\ pc = "write"
  /\ peersJson' = StatusOf(local, neighbors)
  /\ pc' = ret
  /\ UNCHANGED <<cursor, ret, settings, neighbors, changed, timers, probe,
                 cfgFile, table, history>>

StatusFails ==
  /\ pc \in {"trunc", "write"}
  /\ MayFail("status")
  /\ pc' = ret
  /\ UNCHANGED <<cursor, ret, settings, neighbors, changed, timers, probe,
                 cfgFile, table, peersJson, failed>>

-----------------------------------------------------------------------------
(* The environment.                                                        *)

(* SIGTERM, SIGKILL or the end of the container. *)
Stop ==
  /\ pc # "off"
  /\ MayFail("stop")
  /\ Exit
  /\ UNCHANGED <<local, probe, cfgFile, table, peersJson>>

(* The parameter service replaces the file (os.replace, so never torn).  A *)
(* replacement has a stat nobody has seen before, unless two fall into one *)
(* granule of mtime.                                                       *)
ReplaceConfig(content) ==
  /\ pc = "stat" => "startup_write" \in Env
  /\ \E s \in Stamps :
       /\ \/ s \notin {cfgFile.stamp, cfgStat}
          \/ "same_stamp" \in Env /\ s = cfgFile.stamp
       /\ cfgFile' = [content |-> content, stamp |-> s]
  /\ UNCHANGED <<control, settings, neighbors, changed, timers, probe, table,
                 peersJson, history>>

(* An error a timer could make: it runs below zero. *)
SoonerUnbounded(t) == t - 1

Sooner(t) == IF t > 0 THEN t - 1 ELSE 0

Tick ==
  /\ neighbors' = Aged(neighbors)
  /\ txIn' = Sooner(txIn)
  /\ cfgIn' = Sooner(cfgIn)
  /\ UNCHANGED <<control, settings, changed, probe, cfgFile, table, peersJson,
                 history>>

-----------------------------------------------------------------------------

Apply == ClearFlows \/ AddBaseFlows \/ AddPeerWhitelist \/ PolicyApplied

Round ==
  \/ PollTimeout \/ SendProbe \/ ProbeNotDue
  \/ CheckNotDue \/ ConfigStatChanged \/ ReloadConfig \/ PruneNeighbors
  \/ Decide

(* What the thread does when nothing fails. *)
Run ==
  \/ Start \/ LoadConfig \/ LoadRefused \/ ReadConfigStat \/ OpenSocket
  \/ Round \/ Apply
  \/ TruncateStatus \/ WriteStatus

Failures ==
  \/ ClearFlowsFails \/ AddBaseFlowsFails \/ AddPeerWhitelistFails
  \/ StatusFails \/ Stop

Environment ==
  \/ \E c \in LocalConfigs \cup {Refused} : ReplaceConfig(c)
  \/ Tick

Next == Run \/ ReceiveProbe \/ Failures \/ Environment

Spec == Init /\ [][Next]_vars

(* The thread runs whenever it is not waiting in poll, and time passes.    *)
FairSpec == Spec /\ WF_vars(Run) /\ WF_vars(Tick)

-----------------------------------------------------------------------------
(* Properties.                                                             *)

Locations == {"off", "load", "stat", "apply", "base", "peers", "open", "poll",
              "tx", "check", "reload", "prune", "decide", "trunc", "write"}

(* Every variable keeps its type; the cursor stays within the flow groups  *)
(* and the slots, the timers within their intervals.                       *)
TypeOK ==
  /\ pc \in Locations
  /\ cursor \in Nat
  /\ pc = "base" => cursor \in 1 .. 3
  /\ pc = "peers" => cursor \in 1 .. NEIGHBOR_MAX + 1
  /\ ret \in {"open", "poll", "decide"}
  /\ local \in RadioConfig
  /\ cfgStat \in Stamps \cup {NoStat}
  /\ policyApplied \in BOOLEAN
  /\ neighbors \in Table
  /\ changed \in BOOLEAN
  /\ txIn \in 0 .. BROADCAST_INTERVAL
  /\ cfgIn \in 0 .. CONFIG_CHECK_INTERVAL
  /\ probe \in RadioConfig
  /\ cfgFile \in [content : LocalConfigs \cup {Refused}, stamp : Stamps]
  /\ baseFlows \subseteq BaseFlow
  /\ peerFlows \subseteq Flow
  /\ peersJson \in Status \cup {Absent, Torn}
  /\ faults \in 0 .. MaxFaults
  /\ failed \in BOOLEAN

(* The neighbour table is keyed by node number: however frames, changes of *)
(* configuration and ageing interleave, no node ever occupies two slots,   *)
(* which would count its master flag twice (find_neighbor,                 *)
(* alloc_neighbor, prune_neighbors).                                       *)
OneSlotPerNode == KeyedByNode(neighbors)

(* Whenever the daemon goes back to waiting, and its last attempt to       *)
(* program OVS did not fail, the flow table holds all base flows and       *)
(* exactly the whitelist that the reference rule derives from the current  *)
(* configuration and the current neighbours: main never forgets to set     *)
(* "changed" when something the policy depends on has changed.             *)
FlowsInSync ==
  pc = "poll" /\ ~failed =>
    /\ baseFlows = FirstGroups(3)
    /\ peerFlows = Whitelist(local, neighbors)

(* A complete peers.json is consistent in itself: a peer is reported       *)
(* reachable exactly when the rule admits it, given the local              *)
(* configuration and the other peers of the same file.  Entries that were  *)
(* just received and not yet classified are never written                  *)
(* (write_peer_status after update_peer_reachability).                     *)
StatusSound ==
  peersJson \notin {Absent, Torn} =>
    Consistent(peersJson)

(* When the daemon waits and nothing failed, peers.json is complete and    *)
(* tells exactly which traffic the flow table admits.                      *)
StatusMatchesFlows ==
  pc = "poll" /\ ~failed /\ "status" \notin Env =>
    /\ peersJson \notin {Absent, Torn}
    /\ peerFlows =
         UNION {PeerFlows(peersJson.local, peersJson.peers[i].cfg) :
                  i \in ReportedReachable(peersJson)}

(* At no moment of a reprogramming, and whatever command fails, is a flow  *)
(* added that the rule does not admit under the configuration and the      *)
(* neighbours of that moment (ovs_apply_policy recomputes reachability     *)
(* before it touches the table).                                           *)
OnlyAdmittedAdded ==
  [][peerFlows' \ peerFlows \subseteq Whitelist(local, neighbors)]_vars

(* The stat kept in cfg_stat vouches for the configuration in force: while *)
(* the file shows that stat, it holds that configuration, or one that was  *)
(* refused.  So no change is ever taken for an old one, whenever it falls  *)
(* between two steps of the loop (config_stat_changed before load_config). *)
StatVouches ==
  /\ pc \notin {"off", "load", "stat", "reload"}
  /\ cfgStat = cfgFile.stamp
  /\ {"startup_write", "same_stamp"} \cap Env = {}
  => cfgFile.content \in {local, Refused}

(* A configuration that stays in the file is adopted and broadcast for     *)
(* good, however writes, reloads and refused contents interleaved before.  *)
ConfigTakesEffect ==
  \A c \in LocalConfigs :
    <>[](cfgFile.content = c /\ pc # "off") => <>[](local = c /\ probe = c)

(* Failures of OVS are finitely many; afterwards the daemon gets the flow  *)
(* table right again.                                                      *)
FlowsHeal ==
  []<>(\/ pc = "off"
       \/ /\ pc = "poll"
          /\ baseFlows = FirstGroups(3)
          /\ peerFlows = Whitelist(local, neighbors))

(* Whoever falls silent leaves the table, whatever the frames of others do *)
(* to the rounds of poll, and so makes room for the next (prune_neighbors  *)
(* in every check, its "changed" or not).                                  *)
SilentForgotten ==
  \A n \in Nodes :
    []<>(\A i \in Used(neighbors) :
           neighbors[i].cfg.node = n => neighbors[i].age = 0)

(* The daemon implements the abstract radio: whatever frames, reloads,     *)
(* failures and restarts do to the thread, a peers.json that is not being  *)
(* rewritten holds the picture the membership rule gives of the            *)
(* configuration and of the table of the moment it was written; frames and *)
(* ageing change the table one radio at a time (update_neighbor,           *)
(* prune_neighbors, write_peer_status).                                    *)
AbstractRadio ==
  INSTANCE Radio
    WITH heard  <- HeardFrom(neighbors),
         status <- IF peersJson \in {Absent, Torn} THEN peersJson
                   ELSE PictureIn(peersJson)

ImplementsRadio == AbstractRadio!Spec

=============================================================================
