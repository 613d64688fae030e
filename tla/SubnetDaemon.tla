---------------------------- MODULE SubnetDaemon ----------------------------
(***************************************************************************)
(* The XTL and ZZW daemons.  xtl/subnet_daemon/subnet_daemon.c and         *)
(* zzw/subnet_daemon/subnet_daemon.c are one program: they differ in five  *)
(* #defines that name the device, its configuration file and its radio     *)
(* type.  The policy is that of CKL; the loop around it is another one:    *)
(*                                                                         *)
(*   - a failure of ovs_apply_policy is ignored, at start-up too;          *)
(*   - the round decides at its top, before it waits in poll (at most      *)
(*     50 ms), whether the probe and the check are due;                    *)
(*   - a changed stat is remembered only once the file behind it has been  *)
(*     accepted, so a refused file is read again in every check;           *)
(*   - write_peer_status classifies the neighbours itself, and is called   *)
(*     after ovs_apply_policy whether that succeeded or not.               *)
(***************************************************************************)
EXTENDS PeerPolicy

CONSTANTS
  LocalConfigs,          \* what the configuration file may hold
  Refused,               \* a file content load_config refuses
  Frames,                \* the frames neighbours may broadcast
  BROADCAST_INTERVAL,    \* the two intervals of the loop, in ticks
  CONFIG_CHECK_INTERVAL,
  Stamps, NoStat,        \* stat results (mtime and size), and "never read"
  Absent, Torn,          \* peers.json: no such file, cut short
  Env,                   \* what the environment may do, a subset of Hazards
  MaxFaults              \* bound on the failures of a behaviour

Hazards == {"ovs",            \* an ovs-ofctl command fails
            "status",         \* peers.json cannot be opened or completed
            "stop",           \* the process ends and is started again
            "startup_write"}  \* the file is replaced between load and stat

ASSUME SubnetAssumption ==
  /\ LocalConfigs \subseteq RadioConfig
  /\ Refused \notin RadioConfig
  /\ Frames \subseteq Broadcast
  /\ BROADCAST_INTERVAL \in Nat \ {0}
  /\ CONFIG_CHECK_INTERVAL \in Nat \ {0}
  /\ NoStat \notin Stamps
  /\ Absent # Torn /\ {Absent, Torn} \cap Status = {}
  /\ Env \subseteq Hazards
  /\ MaxFaults \in Nat

VARIABLES
  pc,           \* the step the thread takes next
  cursor,       \* how far the rebuilding of the flow table has come
  ret,          \* where write_peer_status returns to
  local,        \* local_cfg
  lastStat,     \* last_stat
  currentStat,  \* current_stat
  neighbors,
  changed,
  due,          \* which of "tx" and "cfg" this round has found due
  txIn, cfgIn,  \* ticks until they are due
  probe,        \* the configuration this node broadcast last
  cfgFile,      \* the configuration file: content and stat
  baseFlows,    \* the flow table: groups of base flows and
  peerFlows,    \* whitelist flows
  peersJson,    \* the status file
  faults,       \* failures so far
  failed        \* history: the last run of ovs_apply_policy failed

control == <<pc, cursor, ret>>
stats   == <<lastStat, currentStat>>
timers  == <<due, txIn, cfgIn>>
table   == <<baseFlows, peerFlows>>
history == <<faults, failed>>
vars == <<control, local, stats, neighbors, changed, timers, probe, cfgFile,
          table, peersJson, history>>

MayFail(kind) == /\ kind \in Env
                 /\ faults < MaxFaults
                 /\ faults' = faults + 1

(* The process is gone: nothing of it remains but what it left outside. *)
Exit ==
  /\ pc' = "off" /\ cursor' = 0 /\ ret' = "top"
  /\ lastStat' = NoStat /\ currentStat' = NoStat
  /\ neighbors' = EmptyTable /\ changed' = FALSE
  /\ due' = {} /\ txIn' = 0 /\ cfgIn' = 0 /\ failed' = FALSE

Init ==
  /\ pc = "off" /\ cursor = 0 /\ ret = "top"
  /\ local \in LocalConfigs
  /\ lastStat = NoStat /\ currentStat = NoStat
  /\ neighbors = EmptyTable /\ changed = FALSE
  /\ due = {} /\ txIn = 0 /\ cfgIn = 0
  /\ probe = local
  /\ cfgFile \in [content : LocalConfigs \cup {Refused}, stamp : Stamps]
  /\ baseFlows = {} /\ peerFlows = {}
  /\ peersJson = Absent
  /\ faults = 0 /\ failed = FALSE

-----------------------------------------------------------------------------
(* Start-up: load, stat, socket, first policy, first status.               *)

Start ==
  /\ pc = "off"
  /\ pc' = "load"
  /\ UNCHANGED <<cursor, ret, local, stats, neighbors, changed, timers, probe,
                 cfgFile, table, peersJson, history>>

LoadConfig ==
  /\ pc = "load"
  /\ cfgFile.content # Refused
  /\ local' = cfgFile.content
  /\ pc' = "stat"
  /\ UNCHANGED <<cursor, ret, stats, neighbors, changed, timers, probe,
                 cfgFile, table, peersJson, history>>

LoadRefused ==
  /\ pc = "load"
  /\ cfgFile.content = Refused
  /\ Exit
  /\ UNCHANGED <<local, probe, cfgFile, table, peersJson, faults>>

(* read_config_stat and open_radio_socket; both timers are due at once. *)
ReadConfigStat ==
  /\ pc = "stat"
  /\ lastStat' = cfgFile.stamp
  /\ txIn' = 0 /\ cfgIn' = 0
  /\ pc' = "apply"
  /\ UNCHANGED <<cursor, ret, local, currentStat, neighbors, changed, due,
                 probe, cfgFile, table, peersJson, history>>

-----------------------------------------------------------------------------
(* One round of the loop.                                                  *)

(* An error the test could make: one thing is done per round. *)
DueOneOnly == IF txIn = 0 THEN {"tx"}
              ELSE IF cfgIn = 0 THEN {"cfg"} ELSE {}

DueNow == (IF txIn = 0 THEN {"tx"} ELSE {})
            \cup (IF cfgIn = 0 THEN {"cfg"} ELSE {})

(* now_ms is taken here: what is due is due in this round, and the next    *)
(* deadline counts from here.                                              *)
BeginRound ==
  /\ pc = "top"
  /\ due' = DueNow
  /\ txIn' = IF txIn = 0 THEN BROADCAST_INTERVAL ELSE txIn
  /\ cfgIn' = IF cfgIn = 0 THEN CONFIG_CHECK_INTERVAL ELSE cfgIn
  /\ changed' = FALSE
  /\ pc' = "poll"
  /\ UNCHANGED <<cursor, ret, local, stats, neighbors, probe, cfgFile, table,
                 peersJson, history>>

(* poll returns, with or without a frame. *)
PollReturns ==
  /\ pc = "poll"
  /\ pc' = "tx"
  /\ UNCHANGED <<cursor, ret, local, stats, timers, probe, cfgFile, table,
                 peersJson, history>>

PollTimeout == PollReturns /\ UNCHANGED <<neighbors, changed>>

(* A frame that is outgoing, malformed, of another type, or that carries   *)
(* the node's own number is dropped.                                       *)
IgnoreFrame ==
  /\ PollReturns
  /\ UNCHANGED <<neighbors, changed>>

RefreshNeighbor(f, i) ==
  /\ PollReturns
  /\ f.cfg.node # local.node
  /\ FindNeighbor(neighbors, i, f.cfg.node)
  /\ changed' = NeighborDiffers(neighbors[i], f)
  /\ neighbors' = Refreshed(neighbors, i, f)

AddNeighbor(f, i) ==
  /\ PollReturns
  /\ f.cfg.node # local.node
  /\ Unknown(neighbors, f.cfg.node)
  /\ AllocNeighbor(neighbors, i)
  /\ changed' = TRUE
  /\ neighbors' = Added(neighbors, i, f)

(* The table is full: the frame is ignored. *)
TableFull(f) ==
  /\ PollReturns
  /\ f.cfg.node # local.node
  /\ Unknown(neighbors, f.cfg.node)
  /\ Used(neighbors) = Slots
  /\ UNCHANGED <<neighbors, changed>>

ReceiveProbe ==
  \/ IgnoreFrame
  \/ \E f \in Frames :
       \/ \E i \in Slots : RefreshNeighbor(f, i) \/ AddNeighbor(f, i)
       \/ TableFull(f)

SendProbe ==
  /\ pc = "tx"
  /\ "tx" \in due
  /\ probe' = local
  /\ pc' = "check"
  /\ UNCHANGED <<cursor, ret, local, stats, neighbors, changed, timers,
                 cfgFile, table, peersJson, history>>

ProbeNotDue ==
  /\ pc = "tx"
  /\ "tx" \notin due
  /\ pc' = "check"
  /\ UNCHANGED <<cursor, ret, local, stats, neighbors, changed, timers, probe,
                 cfgFile, table, peersJson, history>>

CheckNotDue ==
  /\ pc = "check"
  /\ "cfg" \notin due
  /\ pc' = "decide"
  /\ UNCHANGED <<cursor, ret, local, stats, neighbors, changed, timers, probe,
                 cfgFile, table, peersJson, history>>

StatConfig ==
  /\ pc = "check"
  /\ "cfg" \in due
  /\ currentStat' = cfgFile.stamp
  /\ pc' = IF cfgFile.stamp = lastStat THEN "prune" ELSE "reload"
  /\ UNCHANGED <<cursor, ret, local, lastStat, neighbors, changed, timers,
                 probe, cfgFile, table, peersJson, history>>

(* The file is accepted: now its stat is remembered, the stat taken before *)
(* the file was read.                                                      *)
ReloadAccepted ==
  /\ pc = "reload"
  /\ cfgFile.content # Refused
  /\ local' = cfgFile.content
  /\ lastStat' = currentStat
  /\ changed' = TRUE
  /\ pc' = "prune"
  /\ UNCHANGED <<cursor, ret, currentStat, neighbors, timers, probe, cfgFile,
                 table, peersJson, history>>

(* An error it could make: the stat is remembered although the file was    *)
(* refused.                                                                *)
RefusedRemembered ==
  /\ pc = "reload"
  /\ cfgFile.content = Refused
  /\ lastStat' = currentStat
  /\ pc' = "prune"
  /\ UNCHANGED <<cursor, ret, local, currentStat, neighbors, changed, timers,
                 probe, cfgFile, table, peersJson, history>>

ReloadRefused ==
  /\ pc = "reload"
  /\ cfgFile.content = Refused
  /\ pc' = "prune"
  /\ UNCHANGED <<cursor, ret, local, stats, neighbors, changed, timers, probe,
                 cfgFile, table, peersJson, history>>

PruneNeighbors ==
  /\ pc = "prune"
  /\ neighbors' = Pruned(neighbors)
  /\ changed' = (changed \/ SomeAgedOut(neighbors))
  /\ pc' = "trunc"
  /\ ret' = "decide"
  /\ UNCHANGED <<cursor, local, stats, timers, probe, cfgFile, table,
                 peersJson, history>>

Decide ==
  /\ pc = "decide"
  /\ pc' = IF changed THEN "apply" ELSE "top"
  /\ UNCHANGED <<cursor, ret, local, stats, neighbors, changed, timers, probe,
                 cfgFile, table, peersJson, history>>

-----------------------------------------------------------------------------
(* ovs_apply_policy.  Its result is ignored: write_peer_status follows.    *)

(* An error the two could make: a peer once admitted stays admitted. *)
NeverTakenBack ==
  [i \in Slots |-> IF i \in Used(neighbors) /\ neighbors[i].reachable
                   THEN neighbors[i]
                   ELSE UpdatePeerReachability(local, neighbors)[i]]

Reclassified == UpdatePeerReachability(local, neighbors)

ClearFlows ==
  /\ pc = "apply"
  /\ neighbors' = Reclassified
  /\ baseFlows' = {} /\ peerFlows' = {}
  /\ pc' = "base" /\ cursor' = 1
  /\ UNCHANGED <<ret, local, stats, changed, timers, probe, cfgFile, peersJson,
                 history>>

AddBaseFlows ==
  /\ pc = "base"
  /\ baseFlows' = baseFlows \cup {BaseGroups[cursor]}
  /\ IF cursor < 3
     THEN cursor' = cursor + 1 /\ UNCHANGED pc
     ELSE cursor' = 1 /\ pc' = "peers"
  /\ UNCHANGED <<ret, local, stats, neighbors, changed, timers, probe, cfgFile,
                 peerFlows, peersJson, history>>

AddPeerWhitelist ==
  /\ pc = "peers"
  /\ cursor \in Slots
  /\ cursor' = cursor + 1
  /\ peerFlows' = IF cursor \in Reachable(neighbors)
                  THEN peerFlows \cup PeerFlows(local, neighbors[cursor].cfg)
                  ELSE peerFlows
  /\ UNCHANGED <<pc, ret, local, stats, neighbors, changed, timers, probe,
                 cfgFile, baseFlows, peersJson, history>>

PolicyApplied ==
  /\ pc = "peers"
  /\ cursor \notin Slots
  /\ cursor' = 0
  /\ failed' = FALSE
  /\ pc' = "trunc" /\ ret' = "top"
  /\ UNCHANGED <<local, stats, neighbors, changed, timers, probe, cfgFile,
                 table, peersJson, faults>>

ApplyFails ==
  /\ MayFail("ovs")
  /\ cursor' = 0
  /\ failed' = TRUE
  /\ pc' = "trunc" /\ ret' = "top"
  /\ UNCHANGED <<local, stats, changed, timers, probe, cfgFile, peersJson>>

ClearFlowsFails ==
  /\ pc = "apply"
  /\ ApplyFails
  /\ neighbors' = Reclassified
  /\ UNCHANGED table

AddBaseFlowsFails ==
  /\ pc = "base"
  /\ ApplyFails
  /\ UNCHANGED <<neighbors, table>>

AddPeerWhitelistFails ==
  /\ pc = "peers"
  /\ cursor \in Reachable(neighbors)
  /\ ApplyFails
  /\ \E k \in 0 .. 3 :
       peerFlows' = peerFlows \cup
                    FirstPeerFlows(local, neighbors[cursor].cfg, k)
  /\ UNCHANGED <<neighbors, baseFlows>>

-----------------------------------------------------------------------------
(* write_peer_status: classify, open and truncate, complete.               *)

TruncateStatus ==
  /\ pc = "trunc"
  /\ neighbors' = Reclassified
  /\ peersJson' = Torn
  /\ pc' = "write"
  /\ UNCHANGED <<cursor, ret, local, stats, changed, timers, probe, cfgFile,
                 table, history>>

WriteStatus ==
  /\ pc = "write"
  /\ peersJson' = StatusOf(local, neighbors)
  /\ pc' = ret
  /\ UNCHANGED <<cursor, ret, local, stats, neighbors, changed, timers, probe,
                 cfgFile, table, history>>

(* fopen fails after the classification, or the file stays cut short. *)
StatusFails ==
  /\ pc \in {"trunc", "write"}
  /\ MayFail("status")
  /\ neighbors' = Reclassified
  /\ pc' = ret
  /\ UNCHANGED <<cursor, ret, local, stats, changed, timers, probe, cfgFile,
                 table, peersJson, failed>>

-----------------------------------------------------------------------------
(* The environment.                                                        *)

Stop ==
  /\ pc # "off"
  /\ MayFail("stop")
  /\ Exit
  /\ UNCHANGED <<local, probe, cfgFile, table, peersJson>>

(* The file is replaced as a whole; the stat of the new one is new. *)
ReplaceConfig(content) ==
  /\ pc = "stat" => "startup_write" \in Env
  /\ \E s \in Stamps \ {cfgFile.stamp, lastStat, currentStat} :
       cfgFile' = [content |-> content, stamp |-> s]
  /\ UNCHANGED <<control, local, stats, neighbors, changed, timers, probe,
                 table, peersJson, history>>

(* An error a timer could make: it runs below zero. *)
SoonerUnbounded(t) == t - 1

Sooner(t) == IF t > 0 THEN t - 1 ELSE 0

Tick ==
  /\ neighbors' = Aged(neighbors)
  /\ txIn' = Sooner(txIn)
  /\ cfgIn' = Sooner(cfgIn)
  /\ UNCHANGED <<control, local, stats, changed, due, probe, cfgFile, table,
                 peersJson, history>>

-----------------------------------------------------------------------------

Apply == ClearFlows \/ AddBaseFlows \/ AddPeerWhitelist \/ PolicyApplied

Round ==
  \/ BeginRound \/ PollTimeout \/ SendProbe \/ ProbeNotDue
  \/ CheckNotDue \/ StatConfig \/ ReloadAccepted \/ ReloadRefused
  \/ PruneNeighbors \/ Decide

(* What the thread does when nothing fails and no frame comes. *)
Run ==
  \/ Start \/ LoadConfig \/ LoadRefused \/ ReadConfigStat
  \/ Round \/ Apply
  \/ TruncateStatus \/ WriteStatus

Failures ==
  \/ ClearFlowsFails \/ AddBaseFlowsFails \/ AddPeerWhitelistFails
  \/ StatusFails \/ Stop

Environment ==
  \/ \E c \in LocalConfigs \cup {Refused} : ReplaceConfig(c)
  \/ Tick

Next == Run \/ ReceiveProbe \/ Failures \/ Environment

Spec == Init /\ [][Next]_vars

(* The thread never waits for longer than poll does, and time passes.      *)
FairSpec == Spec /\ WF_vars(Run \/ ReceiveProbe) /\ WF_vars(Tick)

-----------------------------------------------------------------------------
(* Properties.                                                             *)

Locations == {"off", "load", "stat", "apply", "base", "peers", "top", "poll",
              "tx", "check", "reload", "prune", "decide", "trunc", "write"}

(* Every variable keeps its type; the cursor stays within the flow groups  *)
(* and the slots, the timers within their intervals.                       *)
TypeOK ==
  /\ pc \in Locations
  /\ cursor \in Nat
  /\ pc = "base" => cursor \in 1 .. 3
  /\ pc = "peers" => cursor \in 1 .. NEIGHBOR_MAX + 1
  /\ ret \in {"top", "decide"}
  /\ local \in RadioConfig
  /\ lastStat \in Stamps \cup {NoStat}
  /\ currentStat \in Stamps \cup {NoStat}
  /\ neighbors \in Table
  /\ changed \in BOOLEAN
  /\ due \subseteq {"tx", "cfg"}
  /\ txIn \in 0 .. BROADCAST_INTERVAL
  /\ cfgIn \in 0 .. CONFIG_CHECK_INTERVAL
  /\ probe \in RadioConfig
  /\ cfgFile \in [content : LocalConfigs \cup {Refused}, stamp : Stamps]
  /\ baseFlows \subseteq BaseFlow
  /\ peerFlows \subseteq Flow
  /\ peersJson \in Status \cup {Absent, Torn}
  /\ faults \in 0 .. MaxFaults
  /\ failed \in BOOLEAN

(* No node ever occupies two slots of the neighbour table, which would     *)
(* count its master flag twice (find_neighbor, alloc_neighbor,             *)
(* prune_neighbors).                                                       *)
OneSlotPerNode == KeyedByNode(neighbors)

(* At the top of the loop, unless the last ovs_apply_policy failed, the    *)
(* flow table holds all base flows and exactly the whitelist the reference *)
(* rule derives from the current configuration and neighbours.             *)
FlowsInSync ==
  pc = "top" /\ ~failed =>
    /\ baseFlows = FirstGroups(3)
    /\ peerFlows = Whitelist(local, neighbors)

(* A complete peers.json is consistent in itself: a peer is reported       *)
(* reachable exactly when the rule admits it, given the rest of the file   *)
(* (write_peer_status classifies before it writes).                        *)
StatusSound == peersJson \notin {Absent, Torn} => Consistent(peersJson)

(* At the top of the loop, when nothing failed, peers.json is complete and *)
(* tells exactly which traffic the flow table admits.                      *)
StatusMatchesFlows ==
  pc = "top" /\ ~failed /\ "status" \notin Env =>
    /\ peersJson \notin {Absent, Torn}
    /\ peerFlows =
         UNION {PeerFlows(peersJson.local, peersJson.peers[i].cfg) :
                  i \in ReportedReachable(peersJson)}

(* At no moment of a reprogramming, and whatever command fails, is a flow  *)
(* added that the rule does not admit at that moment (ovs_apply_policy     *)
(* recomputes reachability before it touches the table).                   *)
OnlyAdmittedAdded ==
  [][peerFlows' \ peerFlows \subseteq Whitelist(local, neighbors)]_vars

(* The remembered stat vouches for the configuration in force: as long as  *)
(* the file shows it, the file holds that configuration.  So no change is  *)
(* ever taken for an old one, whenever it falls between two steps of       *)
(* run_daemon after start-up.                                              *)
StatVouches ==
  /\ pc \notin {"off", "load", "stat"}
  /\ lastStat = cfgFile.stamp
  /\ "startup_write" \notin Env
  => local = cfgFile.content

(* A configuration that stays in the file is adopted and broadcast for     *)
(* good, however writes, reloads and refused contents interleaved before.  *)
ConfigTakesEffect ==
  \A c \in LocalConfigs :
    <>[](cfgFile.content = c /\ pc # "off") => <>[](local = c /\ probe = c)

(* Whoever falls silent leaves the table, whatever the frames of others do *)
(* to the rounds of poll, and so makes room for the next (prune_neighbors  *)
(* in every check, its "changed" or not).                                  *)
SilentForgotten ==
  \A n \in Nodes :
    []<>(\A i \in Used(neighbors) :
           neighbors[i].cfg.node = n => neighbors[i].age = 0)

(* The daemon implements the abstract radio: whatever frames, reloads,     *)
(* failures and restarts do to the thread, a peers.json that is not being  *)
(* rewritten holds the picture the membership rule gives of the            *)
(* configuration and of the table of the moment it was written; frames and *)
(* ageing change the table one radio at a time (update_neighbor,           *)
(* prune_neighbors, write_peer_status).                                    *)
AbstractRadio ==
  INSTANCE Radio
    WITH heard  <- HeardFrom(neighbors),
         status <- IF peersJson \in {Absent, Torn} THEN peersJson
                   ELSE PictureIn(peersJson)

ImplementsRadio == AbstractRadio!Spec

=============================================================================
