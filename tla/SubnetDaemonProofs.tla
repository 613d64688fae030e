-------------------------- MODULE SubnetDaemonProofs --------------------------
(***************************************************************************)
(* Proofs about SubnetDaemon, for every table size, every set of nodes,    *)
(* configurations and frames, every time-out and every choice of failures. *)
(* The lemmas about the policy are those of PeerPolicyProofs.              *)
(***************************************************************************)
EXTENDS SubnetDaemon, PeerPolicyProofs

-----------------------------------------------------------------------------
(* Type correctness.                                                       *)

(* Taking a frame in keeps the table's type. *)
LEMMA ReceiveTable ==
  ASSUME neighbors \in Table, NEW f \in Frames, NEW i \in Slots,
         RefreshNeighbor(f, i) \/ AddNeighbor(f, i)
  PROVE  /\ neighbors' \in Table
         /\ \A j \in Slots : j # i => neighbors'[j] = neighbors[j]
         /\ i \in Used(neighbors')
         /\ neighbors'[i].cfg = f.cfg
<1>1. f \in Broadcast
  BY SubnetAssumption
<1>2. \/ i \in Used(neighbors) /\ neighbors' = Refreshed(neighbors, i, f)
      \/ neighbors' = Added(neighbors, i, f)
  BY DEF RefreshNeighbor, AddNeighbor, FindNeighbor, Holds
<1>. QED  BY <1>1, <1>2, FrameEntry

(* Leaving the process respects the types. *)
LEMMA ExitType ==
  ASSUME Exit
  PROVE  /\ pc' = "off" /\ cursor' = 0 /\ ret' = "top"
         /\ lastStat' \in Stamps \cup {NoStat}
         /\ currentStat' \in Stamps \cup {NoStat}
         /\ changed' \in BOOLEAN /\ failed' \in BOOLEAN
         /\ neighbors' \in Table
         /\ due' \subseteq {"tx", "cfg"}
         /\ txIn' \in 0 .. BROADCAST_INTERVAL
         /\ cfgIn' \in 0 .. CONFIG_CHECK_INTERVAL
<1>1. neighbors' \in Table
  BY DEF Exit, EmptyTable, Table, TableEntry
<1>2. /\ txIn' \in 0 .. BROADCAST_INTERVAL
      /\ cfgIn' \in 0 .. CONFIG_CHECK_INTERVAL
  BY SubnetAssumption DEF Exit
<1>3. /\ due' \subseteq {"tx", "cfg"}
      /\ changed' \in BOOLEAN /\ failed' \in BOOLEAN
  BY DEF Exit
<1>. QED  BY <1>1, <1>2, <1>3 DEF Exit

(* The initial state is well typed. *)
LEMMA TypeInit == Init => TypeOK
<1> SUFFICES ASSUME Init PROVE TypeOK
  OBVIOUS
<1>1. neighbors \in Table
  BY DEF Init, EmptyTable, Table, TableEntry
<1>2. /\ pc \in Locations /\ cursor \in Nat /\ pc = "off"
      /\ ret \in {"top", "decide"}
  BY DEF Init, Locations
<1>3. local \in RadioConfig /\ probe \in RadioConfig
  BY SubnetAssumption DEF Init
<1>4. /\ lastStat \in Stamps \cup {NoStat}
      /\ currentStat \in Stamps \cup {NoStat}
      /\ changed \in BOOLEAN /\ failed \in BOOLEAN
      /\ due \subseteq {"tx", "cfg"}
  BY DEF Init
<1>5. /\ txIn \in 0 .. BROADCAST_INTERVAL
      /\ cfgIn \in 0 .. CONFIG_CHECK_INTERVAL
      /\ faults \in 0 .. MaxFaults
  BY SubnetAssumption DEF Init
<1>. QED  BY <1>1, <1>2, <1>3, <1>4, <1>5 DEF Init, TypeOK

(* The steps of a round keep the types. *)
LEMMA TypeRound ==
  ASSUME TypeOK, \/ Start \/ LoadConfig \/ ReadConfigStat \/ Round
  PROVE  TypeOK'
<1> USE SubnetAssumption
<1>1. CASE Start \/ LoadConfig \/ ReadConfigStat
  <2>1. CASE Start
    BY <2>1 DEF TypeOK, Locations, Start, stats, timers,
       table, history
  <2>2. CASE LoadConfig
    BY <2>2 DEF TypeOK, Locations, LoadConfig, stats, timers,
       table, history
  <2>3. CASE ReadConfigStat
    BY <2>3 DEF TypeOK, Locations, ReadConfigStat, stats, timers,
       table, history
  <2>. QED  BY <1>1, <2>1, <2>2, <2>3
<1>2. CASE PollTimeout \/ SendProbe \/ ProbeNotDue \/ CheckNotDue \/ Decide
  <2>1. CASE PollTimeout
    BY <2>1 DEF TypeOK, Locations, PollTimeout, PollReturns, stats, timers,
       table, history
  <2>2. CASE SendProbe
    BY <2>2 DEF TypeOK, Locations, SendProbe, stats, timers,
       table, history
  <2>3. CASE ProbeNotDue
    BY <2>3 DEF TypeOK, Locations, ProbeNotDue, stats, timers,
       table, history
  <2>4. CASE CheckNotDue
    BY <2>4 DEF TypeOK, Locations, CheckNotDue, stats, timers,
       table, history
  <2>5. CASE Decide
    BY <2>5 DEF TypeOK, Locations, Decide, stats, timers,
       table, history
  <2>. QED  BY <1>2, <2>1, <2>2, <2>3, <2>4, <2>5
<1>3. CASE BeginRound \/ StatConfig \/ ReloadAccepted \/ ReloadRefused
  <2>1. CASE BeginRound
    <3>1. /\ due' \subseteq {"tx", "cfg"}
          /\ txIn' \in 0 .. BROADCAST_INTERVAL
          /\ cfgIn' \in 0 .. CONFIG_CHECK_INTERVAL
      BY <2>1 DEF BeginRound, DueNow, TypeOK
    <3>2. pc' = "poll" /\ changed' = FALSE
      BY <2>1 DEF BeginRound
    <3>. QED
      BY <2>1, <3>1, <3>2 DEF TypeOK, Locations, BeginRound, stats, table,
         history
  <2>2. CASE StatConfig
    BY <2>2 DEF TypeOK, Locations, StatConfig, stats, timers,
       table, history
  <2>3. CASE ReloadAccepted
    BY <2>3 DEF TypeOK, Locations, ReloadAccepted, stats, timers,
       table, history
  <2>4. CASE ReloadRefused
    BY <2>4 DEF TypeOK, Locations, ReloadRefused, stats, timers,
       table, history
  <2>. QED  BY <1>3, <2>1, <2>2, <2>3, <2>4
<1>4. CASE PruneNeighbors
  <2>1. neighbors' \in Table /\ changed' \in BOOLEAN
    BY <1>4, TableSteps DEF PruneNeighbors, TypeOK, SomeAgedOut
  <2>. QED
    BY <1>4, <2>1 DEF TypeOK, Locations, PruneNeighbors, stats, timers, table,
       history
<1>. QED  BY <1>1, <1>2, <1>3, <1>4 DEF Round

(* Programming the flow table and writing the status keep the types. *)
LEMMA TypeApply ==
  ASSUME TypeOK, Apply \/ TruncateStatus \/ WriteStatus
  PROVE  TypeOK'
<1>0. neighbors \in Table /\ local \in RadioConfig
  BY DEF TypeOK
<1>1. Reclassified \in Table
  BY <1>0, UpdateClassifies DEF Reclassified
<1>2. CASE ClearFlows
  BY <1>1, <1>2 DEF TypeOK, Locations, ClearFlows, stats, timers, history
<1>3. CASE AddBaseFlows
  <2>1. baseFlows' \subseteq BaseFlow
    BY <1>3, FlowTypes DEF TypeOK, AddBaseFlows
  <2>2. /\ pc' \in {"base", "peers"} /\ cursor' \in Nat
        /\ pc' = "base" => cursor' \in 1 .. 3
        /\ pc' = "peers" => cursor' \in 1 .. NEIGHBOR_MAX + 1
    BY <1>3, PolicyAssumption DEF TypeOK, AddBaseFlows
  <2>. QED
    BY <1>3, <2>1, <2>2 DEF TypeOK, Locations, AddBaseFlows, stats, timers,
       history
<1>4. CASE AddPeerWhitelist
  <2>1. ASSUME cursor \in Reachable(neighbors)
        PROVE  neighbors[cursor].cfg \in RadioConfig
    BY <1>0, <2>1, UsedFinite DEF Reachable, Used, Table, TableEntry, Neighbor
  <2>2. peerFlows' \subseteq Flow
    BY <1>4, <2>1, FlowTypes DEF TypeOK, AddPeerWhitelist, PeerFlows
  <2>3. cursor' \in 1 .. NEIGHBOR_MAX + 1
    BY <1>4, PolicyAssumption DEF TypeOK, AddPeerWhitelist, Slots
  <2>. QED
    BY <1>4, <2>2, <2>3 DEF TypeOK, Locations, AddPeerWhitelist, stats, timers,
       history
<1>5. CASE PolicyApplied
  BY <1>5 DEF TypeOK, Locations, PolicyApplied, stats, timers, table, history
<1>6. CASE TruncateStatus
  BY <1>1, <1>6 DEF TypeOK, Locations, TruncateStatus, stats, timers, table,
     history
<1>7. CASE WriteStatus
  <2>1. peersJson' \in Status
    BY <1>0, <1>7, StatusType DEF WriteStatus
  <2>. QED
    BY <1>7, <2>1 DEF TypeOK, Locations, WriteStatus, stats, timers, table,
       history
<1>. QED  BY <1>2, <1>3, <1>4, <1>5, <1>6, <1>7 DEF Apply

(* Failures keep the types. *)
LEMMA TypeFailures ==
  ASSUME TypeOK, Failures \/ LoadRefused
  PROVE  TypeOK'
<1>0. neighbors \in Table /\ local \in RadioConfig
  BY DEF TypeOK
<1>1. Reclassified \in Table
  BY <1>0, UpdateClassifies DEF Reclassified
<1>2. CASE LoadRefused \/ Stop
  <2>1. /\ Exit
        /\ UNCHANGED <<local, probe, cfgFile, table, peersJson>>
        /\ faults' \in 0 .. MaxFaults
    BY <1>2, SubnetAssumption DEF LoadRefused, Stop, MayFail, TypeOK
  <2>. QED  BY <2>1, ExitType DEF TypeOK, Locations, table
<1>3. CASE ClearFlowsFails \/ AddBaseFlowsFails \/ AddPeerWhitelistFails
  <2>1. ApplyFails
    BY <1>3 DEF ClearFlowsFails, AddBaseFlowsFails, AddPeerWhitelistFails
  <2>2. /\ neighbors' \in Table /\ baseFlows' = baseFlows
    BY <1>0, <1>1, <1>3 DEF ClearFlowsFails, AddBaseFlowsFails,
       AddPeerWhitelistFails, table
  <2>3. peerFlows' \subseteq Flow
    <3>1. CASE AddPeerWhitelistFails
      <4>1. neighbors[cursor].cfg \in RadioConfig
        BY <1>0, <3>1, UsedFinite DEF AddPeerWhitelistFails, Reachable, Used,
           Table, TableEntry, Neighbor
      <4>2. PICK k \in 0 .. 3 :
              peerFlows' = peerFlows \cup
                           FirstPeerFlows(local, neighbors[cursor].cfg, k)
        BY <3>1 DEF AddPeerWhitelistFails
      <4>. QED  BY <4>1, <4>2, FlowTypes DEF TypeOK
    <3>. QED
      BY <1>3, <3>1 DEF ClearFlowsFails, AddBaseFlowsFails, table, TypeOK
  <2>. QED
    BY <2>1, <2>2, <2>3, SubnetAssumption DEF TypeOK, Locations, ApplyFails,
       MayFail, stats, timers
<1>4. CASE StatusFails
  BY <1>1, <1>4, SubnetAssumption DEF TypeOK, Locations, StatusFails, MayFail,
     stats, timers, table
<1>. QED  BY <1>2, <1>3, <1>4 DEF Failures

(* Every state is well typed, in every behaviour of the daemon, whatever   *)
(* the failures and the interleaving.                                      *)
THEOREM TypeCorrect == Spec => []TypeOK
<1>1. TypeOK /\ [Next]_vars => TypeOK'
  <2> SUFFICES ASSUME TypeOK, [Next]_vars
               PROVE  TypeOK'
    OBVIOUS
  <2>1. CASE Run
    BY <2>1, TypeRound, TypeApply, TypeFailures DEF Run
  <2>2. CASE Failures
    BY <2>2, TypeFailures
  <2>3. CASE ReceiveProbe
    <3>1. neighbors' \in Table /\ changed' \in BOOLEAN
      BY <2>3, ReceiveTable DEF ReceiveProbe, IgnoreFrame, TableFull,
         RefreshNeighbor, NeighborDiffers, AddNeighbor, TypeOK
    <3>2. PollReturns
      BY <2>3 DEF ReceiveProbe, IgnoreFrame, TableFull, RefreshNeighbor,
         AddNeighbor
    <3>. QED
      BY <3>1, <3>2 DEF TypeOK, Locations, PollReturns, stats, timers, table,
         history
  <2>4. CASE \E c \in LocalConfigs \cup {Refused} : ReplaceConfig(c)
    BY <2>4 DEF TypeOK, ReplaceConfig, control, stats, timers, table, history
  <2>5. CASE Tick
    <3>1. neighbors' \in Table
      BY <2>5, TableSteps DEF Tick, TypeOK
    <3>2. /\ txIn' \in 0 .. BROADCAST_INTERVAL
          /\ cfgIn' \in 0 .. CONFIG_CHECK_INTERVAL
      BY <2>5, SubnetAssumption DEF Tick, Sooner, TypeOK
    <3>. QED
      BY <2>5, <3>1, <3>2 DEF TypeOK, Tick, control, stats, table, history
  <2>6. CASE UNCHANGED vars
    BY <2>6 DEF TypeOK, vars, control, stats, timers, table, history
  <2>. QED  BY <2>1, <2>2, <2>3, <2>4, <2>5, <2>6 DEF Next, Environment
<1>. QED  BY TypeInit, <1>1, PTL DEF Spec

-----------------------------------------------------------------------------
(* The neighbour table.                                                    *)

(* Only a frame brings a node, or a new configuration of one, in. *)
LEMMA NoFrameShrinks ==
  ASSUME TypeOK, [Next]_vars, ~ReceiveProbe
  PROVE  Shrinks(neighbors, neighbors')
<1>1. neighbors \in Table /\ local \in RadioConfig
  BY DEF TypeOK
<1>2. UNCHANGED neighbors => Shrinks(neighbors, neighbors')
  BY DEF Shrinks
<1>3. Exit => Shrinks(neighbors, neighbors')
  BY DEF Exit, EmptyTable, Shrinks, Used
<1>4. neighbors' = Reclassified => Shrinks(neighbors, neighbors')
  BY <1>1, UpdateClassifies DEF SameView, Shrinks, Reclassified
<1>5. neighbors' = Aged(neighbors) => Shrinks(neighbors, neighbors')
  BY <1>1, AgedKeeps DEF SameView, Shrinks
<1>6. neighbors' = Pruned(neighbors) => Shrinks(neighbors, neighbors')
  BY <1>1, PrunedShrinks
<1>7. \/ UNCHANGED neighbors
      \/ Exit
      \/ neighbors' = Reclassified
      \/ neighbors' = Aged(neighbors)
      \/ neighbors' = Pruned(neighbors)
  <2>1. CASE Run
    BY <2>1 DEF Run, Round, Apply, Start, LoadConfig, LoadRefused,
       ReadConfigStat, BeginRound, PollTimeout, SendProbe, ProbeNotDue,
       CheckNotDue, StatConfig, ReloadAccepted, ReloadRefused, PruneNeighbors,
       Decide, ClearFlows, AddBaseFlows, AddPeerWhitelist, PolicyApplied,
       TruncateStatus, WriteStatus
  <2>2. CASE Failures
    BY <2>2 DEF Failures, ClearFlowsFails, AddBaseFlowsFails,
       AddPeerWhitelistFails, StatusFails, Stop
  <2>3. CASE Environment
    BY <2>3 DEF Environment, ReplaceConfig, Tick
  <2>4. CASE UNCHANGED vars
    BY <2>4 DEF vars
  <2>. QED  BY <2>1, <2>2, <2>3, <2>4 DEF Next
<1>. QED  BY <1>2, <1>3, <1>4, <1>5, <1>6, <1>7

(* No node ever occupies two slots of the neighbour table. *)
THEOREM SlotsUnique == Spec => []OneSlotPerNode
<1>1. Init => OneSlotPerNode
  BY DEF Init, OneSlotPerNode, KeyedByNode, EmptyTable, Used
<1>2. TypeOK /\ OneSlotPerNode /\ [Next]_vars => OneSlotPerNode'
  <2> SUFFICES ASSUME TypeOK, OneSlotPerNode, [Next]_vars
               PROVE  OneSlotPerNode'
    OBVIOUS
  <2>1. CASE ~ReceiveProbe
    <3>1. Shrinks(neighbors, neighbors')
      BY <2>1, NoFrameShrinks
    <3>. QED  BY <3>1, ShrinksKeyed DEF OneSlotPerNode
  <2>2. CASE ReceiveProbe
    <3>1. CASE UNCHANGED neighbors
      BY <3>1 DEF OneSlotPerNode, KeyedByNode
    <3>2. ASSUME NEW f \in Frames, NEW s \in Slots,
                 RefreshNeighbor(f, s) \/ AddNeighbor(f, s)
          PROVE  OneSlotPerNode'
      <4>1. f \in Broadcast
        BY SubnetAssumption
      <4>2. \/ /\ FindNeighbor(neighbors, s, f.cfg.node)
               /\ neighbors' = Refreshed(neighbors, s, f)
            \/ /\ Unknown(neighbors, f.cfg.node)
               /\ neighbors' = Added(neighbors, s, f)
        BY <3>2 DEF RefreshNeighbor, AddNeighbor
      <4>. QED  BY <4>1, <4>2, FrameKeyed DEF TypeOK, OneSlotPerNode
    <3>. QED
      BY <2>2, <3>1, <3>2 DEF ReceiveProbe, IgnoreFrame, TableFull
  <2>. QED  BY <2>1, <2>2
<1>. QED  BY <1>1, <1>2, TypeCorrect, PTL DEF Spec

-----------------------------------------------------------------------------
(* The flow table and the status file.                                     *)

Settled ==
  /\ baseFlows = FirstGroups(3)
  /\ peerFlows = Whitelist(local, neighbors)

(* The part of a round that can still notice a change. *)
InRound ==
  \/ pc \in {"poll", "tx", "check", "reload", "prune", "decide"}
  \/ pc \in {"trunc", "write"} /\ ret = "decide"

(* The daemon waits for its next round, or ends one with the status file. *)
Idle == pc = "top" \/ (pc \in {"trunc", "write"} /\ ret = "top")

FlowsSoFar == FlowsBefore(local, neighbors, cursor)

(* The inductive invariant: unless the last attempt failed, the table is   *)
(* right while the daemon idles, and in a round that has not noticed a     *)
(* change; ovs_apply_policy establishes it slot by slot from an empty one. *)
PolicyInv ==
  /\ Idle /\ ~failed => Settled
  /\ InRound /\ ~failed /\ ~changed => Settled
  /\ pc = "poll" => ~changed
  /\ pc = "base" => baseFlows = FirstGroups(cursor - 1) /\ peerFlows = {}
  /\ pc = "peers" => baseFlows = FirstGroups(3) /\ peerFlows = FlowsSoFar
  /\ pc \in {"base", "peers", "write"} => Classified(local, neighbors)

(* Steps that leave the table, the configuration and the view alone leave  *)
(* everything the invariant says of them alone.                            *)
LEMMA ViewKeeps ==
  ASSUME TypeOK,
         UNCHANGED <<local, baseFlows, peerFlows>>,
         SameView(neighbors, neighbors')
  PROVE  Settled' <=> Settled
<1>1. Whitelist(local, neighbors) = Whitelist(local, neighbors')
  BY ViewDecides
<1>. QED  BY <1>1 DEF Settled

(* A new classification keeps the view.                                    *)
LEMMA ReclassifiedView ==
  ASSUME TypeOK, UNCHANGED local, neighbors' = Reclassified
  PROVE  /\ SameView(neighbors, neighbors')
         /\ Classified(local, neighbors)'
<1>1. neighbors \in Table /\ local \in RadioConfig
  BY DEF TypeOK
<1>. QED  BY <1>1, UpdateClassifies DEF Reclassified, Classified

(* Steps that keep the table, the configuration and the neighbours. *)
LEMMA PolicyQuiet ==
  ASSUME TypeOK,
         UNCHANGED <<local, baseFlows, peerFlows, neighbors>>
  PROVE  /\ Settled' <=> Settled
         /\ Classified(local, neighbors)' <=> Classified(local, neighbors)
BY ViewKeeps DEF SameView

(* A frame that changes the view is noticed: it sets changed. *)
LEMMA FrameNoticed ==
  ASSUME TypeOK, ReceiveProbe
  PROVE  changed' \/ SameView(neighbors, neighbors')
<1>0. neighbors \in Table
  BY DEF TypeOK
<1>1. CASE UNCHANGED neighbors
  BY <1>1 DEF SameView
<1>2. ASSUME NEW f \in Frames, NEW i \in Slots, RefreshNeighbor(f, i)
      PROVE  changed' \/ SameView(neighbors, neighbors')
  <2>1. /\ \A j \in Slots : j # i => neighbors'[j] = neighbors[j]
        /\ i \in Used(neighbors') /\ neighbors'[i].cfg = f.cfg
    BY <1>0, <1>2, ReceiveTable
  <2>2. i \in Used(neighbors)
    BY <1>2 DEF RefreshNeighbor, FindNeighbor, Holds
  <2>3. changed' \/ neighbors[i].cfg = f.cfg
    BY <1>2 DEF RefreshNeighbor, NeighborDiffers
  <2>4. Used(neighbors') = Used(neighbors)
    BY <2>1, <2>2 DEF Used
  <2>. QED  BY <2>1, <2>3, <2>4, UsedFinite DEF SameView
<1>. QED
  BY <1>1, <1>2 DEF ReceiveProbe, IgnoreFrame, TableFull, AddNeighbor

(* Adding the flows of the slot under the cursor. *)
LEMMA OneMoreSlot ==
  ASSUME TypeOK, PolicyInv, AddPeerWhitelist
  PROVE  peerFlows' = FlowsSoFar'
<1>1. /\ peerFlows = FlowsSoFar
      /\ cursor \in Slots /\ cursor' = cursor + 1
      /\ UNCHANGED <<local, neighbors>>
      /\ peerFlows' = IF cursor \in Reachable(neighbors)
                      THEN peerFlows \cup PeerFlows(local, neighbors[cursor].cfg)
                      ELSE peerFlows
  BY DEF PolicyInv, AddPeerWhitelist
<1>. QED  BY <1>1, FlowsBySlot DEF FlowsSoFar

LEMMA PolicyInit == Init => PolicyInv
BY DEF Init, PolicyInv, Idle, InRound

LEMMA PolicyStep == TypeOK /\ PolicyInv /\ [Next]_vars => PolicyInv'
<1> SUFFICES ASSUME TypeOK, PolicyInv, [Next]_vars
             PROVE  PolicyInv'
  OBVIOUS
<1>0. /\ neighbors \in Table /\ local \in RadioConfig
      /\ pc \in Locations /\ cursor \in Nat
      /\ ret \in {"top", "decide"}
  BY DEF TypeOK
<1>1. CASE Exit \/ Start \/ LoadConfig \/ ReadConfigStat
  BY <1>1 DEF Exit, Start, LoadConfig, ReadConfigStat, PolicyInv, Idle, InRound
<1>2. CASE \/ BeginRound \/ PollTimeout \/ SendProbe \/ ProbeNotDue
           \/ CheckNotDue \/ StatConfig \/ ReloadRefused
  <2>1. UNCHANGED <<local, baseFlows, peerFlows, neighbors, failed>>
    BY <1>2 DEF BeginRound, PollTimeout, PollReturns, SendProbe, ProbeNotDue,
       CheckNotDue, StatConfig, ReloadRefused, table, history
  <2>2. Settled' <=> Settled
    BY <2>1, PolicyQuiet
  <2>3. \/ pc = "top" /\ pc' = "poll" /\ ~changed'
        \/ /\ pc \in {"poll", "tx", "check", "reload"}
           /\ pc' \in {"tx", "check", "decide", "reload", "prune"}
           /\ changed' = changed
    BY <1>2 DEF BeginRound, PollTimeout, PollReturns, SendProbe, ProbeNotDue,
       CheckNotDue, StatConfig, ReloadRefused
  <2>. QED  BY <2>1, <2>2, <2>3 DEF PolicyInv, Idle, InRound
<1>3. CASE ReloadAccepted
  BY <1>3 DEF ReloadAccepted, PolicyInv, Idle, InRound
<1>4. CASE PruneNeighbors
  <2>1. /\ UNCHANGED <<local, baseFlows, peerFlows, failed>>
        /\ pc = "prune" /\ pc' = "trunc" /\ ret' = "decide"
        /\ neighbors' = Pruned(neighbors)
        /\ changed' = (changed \/ AgedOut(neighbors) # {})
    BY <1>4 DEF PruneNeighbors, SomeAgedOut, table, history
  <2>2. ~changed' /\ ~failed' => Settled'
    <3> SUFFICES ASSUME ~changed', ~failed'
                 PROVE  Settled'
      OBVIOUS
    <3>1. AgedOut(neighbors) = {} /\ ~changed /\ ~failed
      BY <2>1
    <3>2. neighbors' = neighbors
      BY <1>0, <2>1, <3>1, PrunedShrinks
    <3>3. Settled
      BY <2>1, <3>1 DEF PolicyInv, InRound
    <3>. QED  BY <2>1, <3>2, <3>3, PolicyQuiet
  <2>. QED  BY <2>1, <2>2 DEF PolicyInv, Idle, InRound
<1>5. CASE Decide
  <2>1. /\ UNCHANGED <<local, baseFlows, peerFlows, neighbors, failed>>
        /\ pc = "decide"
        /\ pc' = "apply" \/ (pc' = "top" /\ ~changed)
    BY <1>5 DEF Decide, table, history
  <2>2. Settled' <=> Settled
    BY <2>1, PolicyQuiet
  <2>. QED  BY <2>1, <2>2 DEF PolicyInv, Idle, InRound
<1>6. CASE ClearFlows
  <2>1. /\ UNCHANGED local
        /\ neighbors' = Reclassified
        /\ baseFlows' = {} /\ peerFlows' = {}
        /\ pc' = "base" /\ cursor' = 1
    BY <1>6 DEF ClearFlows
  <2>2. Classified(local, neighbors)'
    BY <2>1, ReclassifiedView
  <2>3. baseFlows' = FirstGroups(cursor' - 1)
    BY <2>1 DEF FirstGroups
  <2>. QED  BY <2>1, <2>2, <2>3 DEF PolicyInv, Idle, InRound
<1>7. CASE AddBaseFlows
  <2>1. /\ UNCHANGED <<local, peerFlows, neighbors>>
        /\ pc = "base" /\ cursor \in 1 .. 3
        /\ baseFlows' = baseFlows \cup {BaseGroups[cursor]}
        /\ \/ cursor < 3 /\ cursor' = cursor + 1 /\ pc' = "base"
           \/ cursor = 3 /\ cursor' = 1 /\ pc' = "peers"
    BY <1>7 DEF AddBaseFlows, TypeOK
  <2>2. /\ baseFlows = FirstGroups(cursor - 1) /\ peerFlows = {}
        /\ Classified(local, neighbors)
    BY <2>1 DEF PolicyInv
  <2>3. baseFlows' = FirstGroups(cursor)
    BY <2>1, <2>2, FlowTypes
  <2>4. Classified(local, neighbors)'
    BY <2>1, <2>2 DEF Classified
  <2>5. CASE cursor < 3
    <3>1. baseFlows' = FirstGroups(cursor' - 1)
      BY <2>1, <2>3, <2>5
    <3>. QED  BY <2>1, <2>2, <2>4, <2>5, <3>1 DEF PolicyInv, Idle, InRound
  <2>6. CASE cursor = 3
    <3>1. FlowsSoFar' = {}
      BY <2>1, <2>6, FlowsBySlot DEF FlowsSoFar
    <3>. QED
      BY <2>1, <2>2, <2>3, <2>4, <2>6, <3>1 DEF PolicyInv, Idle, InRound
  <2>. QED  BY <2>1, <2>5, <2>6
<1>8. CASE AddPeerWhitelist
  <2>1. UNCHANGED <<local, baseFlows, neighbors, pc>> /\ pc = "peers"
    BY <1>8 DEF AddPeerWhitelist
  <2>2. peerFlows' = FlowsSoFar'
    BY <1>8, OneMoreSlot
  <2>3. Classified(local, neighbors)'
    BY <2>1 DEF PolicyInv, Classified
  <2>. QED  BY <2>1, <2>2, <2>3 DEF PolicyInv, Idle, InRound
<1>9. CASE PolicyApplied
  <2>1. /\ UNCHANGED <<local, baseFlows, peerFlows, neighbors>>
        /\ pc = "peers" /\ cursor \notin Slots
        /\ pc' = "trunc" /\ ret' = "top"
    BY <1>9 DEF PolicyApplied, table
  <2>2. cursor = NEIGHBOR_MAX + 1
    BY <2>1, PolicyAssumption DEF TypeOK, Slots
  <2>3. FlowsSoFar = Whitelist(local, neighbors)
    BY <2>1, <2>2, FlowsBySlot DEF FlowsSoFar, PolicyInv
  <2>4. Settled
    BY <2>1, <2>3 DEF PolicyInv, Settled
  <2>5. Settled'
    BY <2>1, <2>4, PolicyQuiet
  <2>. QED  BY <2>1, <2>5 DEF PolicyInv, Idle, InRound
<1>10. CASE TruncateStatus \/ StatusFails
  <2>1. /\ UNCHANGED <<local, baseFlows, peerFlows, changed, failed, ret>>
        /\ neighbors' = Reclassified
        /\ pc \in {"trunc", "write"}
        /\ pc' = "write" \/ pc' = ret
    BY <1>10 DEF TruncateStatus, StatusFails, table, history
  <2>2. SameView(neighbors, neighbors') /\ Classified(local, neighbors)'
    BY <2>1, ReclassifiedView
  <2>3. Settled' <=> Settled
    BY <2>1, <2>2, ViewKeeps
  <2>. QED  BY <1>0, <2>1, <2>2, <2>3 DEF PolicyInv, Idle, InRound
<1>11. CASE WriteStatus
  <2>1. /\ UNCHANGED <<local, baseFlows, peerFlows, neighbors, changed,
                       failed, ret>>
        /\ pc = "write" /\ pc' = ret
    BY <1>11 DEF WriteStatus, table, history
  <2>2. Settled' <=> Settled
    BY <2>1, PolicyQuiet
  <2>. QED  BY <1>0, <2>1, <2>2 DEF PolicyInv, Idle, InRound
<1>12. CASE ReceiveProbe
  <2>1. /\ pc = "poll" /\ pc' = "tx" /\ ~changed
        /\ UNCHANGED <<local, baseFlows, peerFlows, failed>>
    BY <1>12 DEF ReceiveProbe, IgnoreFrame, RefreshNeighbor, AddNeighbor,
       TableFull, PollReturns, table, history, PolicyInv
  <2>2. changed' \/ SameView(neighbors, neighbors')
    BY <1>12, FrameNoticed
  <2>3. ~failed' /\ ~changed' => Settled'
    BY <2>1, <2>2, ViewKeeps DEF PolicyInv, InRound
  <2>. QED  BY <2>1, <2>3 DEF PolicyInv, Idle, InRound
<1>13. CASE ClearFlowsFails \/ AddBaseFlowsFails \/ AddPeerWhitelistFails
  <2>1. pc' = "trunc" /\ ret' = "top" /\ failed'
    BY <1>13 DEF ClearFlowsFails, AddBaseFlowsFails, AddPeerWhitelistFails,
       ApplyFails
  <2>. QED  BY <2>1 DEF PolicyInv, Idle, InRound
<1>14. CASE \E c \in LocalConfigs \cup {Refused} : ReplaceConfig(c)
  <2>1. UNCHANGED <<local, baseFlows, peerFlows, neighbors, changed, failed,
                    pc, ret, cursor>>
    BY <1>14 DEF ReplaceConfig, control, table, history
  <2>2. /\ Settled' <=> Settled
        /\ Classified(local, neighbors)' <=> Classified(local, neighbors)
        /\ FlowsSoFar' = FlowsSoFar
    BY <2>1, PolicyQuiet DEF FlowsSoFar
  <2>. QED  BY <2>1, <2>2 DEF PolicyInv, Idle, InRound
<1>15. CASE Tick
  <2>1. /\ UNCHANGED <<local, baseFlows, peerFlows, changed, failed, pc, ret,
                       cursor>>
        /\ neighbors' = Aged(neighbors)
    BY <1>15 DEF Tick, control, table, history
  <2>2. /\ SameView(neighbors, neighbors')
        /\ Classified(local, neighbors) => Classified(local, neighbors)'
        /\ FlowsSoFar' = FlowsSoFar
    BY <1>0, <2>1, AgedKeeps, AgedQuiet DEF FlowsSoFar, Classified
  <2>3. Settled' <=> Settled
    BY <2>1, <2>2, ViewKeeps
  <2>. QED  BY <2>1, <2>2, <2>3 DEF PolicyInv, Idle, InRound
<1>16. CASE UNCHANGED vars
  <2>1. UNCHANGED <<local, baseFlows, peerFlows, neighbors, changed, failed,
                    pc, ret, cursor>>
    BY <1>16 DEF vars, control, table, history
  <2>2. /\ Settled' <=> Settled
        /\ Classified(local, neighbors)' <=> Classified(local, neighbors)
        /\ FlowsSoFar' = FlowsSoFar
    BY <2>1, PolicyQuiet DEF FlowsSoFar
  <2>. QED  BY <2>1, <2>2 DEF PolicyInv, Idle, InRound
<1>17. LoadRefused \/ Stop => Exit
  BY DEF LoadRefused, Stop
<1>. QED
  BY <1>1, <1>2, <1>3, <1>4, <1>5, <1>6, <1>7, <1>8, <1>9, <1>10, <1>11,
     <1>12, <1>13, <1>14, <1>15, <1>16, <1>17
  DEF Next, Run, Round, Apply, Failures, Environment

LEMMA PolicyInvariant == Spec => []PolicyInv
BY PolicyInit, PolicyStep, TypeCorrect, PTL DEF Spec

(* At the top of the loop, unless the last attempt to program OVS failed,  *)
(* the flow table holds all base flows and exactly the whitelist of the    *)
(* reference rule.                                                         *)
THEOREM FlowTableInSync == Spec => []FlowsInSync
<1>1. PolicyInv => FlowsInSync
  BY DEF PolicyInv, FlowsInSync, Settled, Idle
<1>. QED  BY <1>1, PolicyInvariant, PTL

(* No flow is ever added that the rule does not admit at that moment.      *)
THEOREM NothingElseAdded == Spec => OnlyAdmittedAdded
<1> DEFINE Adds == peerFlows' \ peerFlows \subseteq Whitelist(local, neighbors)
<1>1. TypeOK /\ PolicyInv /\ [Next]_vars => [Adds]_vars
  <2> SUFFICES ASSUME TypeOK, PolicyInv, [Next]_vars
               PROVE  Adds
    OBVIOUS
  <2>1. CASE AddPeerWhitelist \/ AddPeerWhitelistFails
    <3>1. Reachable(neighbors) = Admissible(local, neighbors)
      BY <2>1, ReachableAdmissible DEF PolicyInv, AddPeerWhitelist,
         AddPeerWhitelistFails
    <3>2. \A k \in 0 .. 4 : FirstPeerFlows(local, neighbors[cursor].cfg, k)
                             \subseteq PeerFlows(local, neighbors[cursor].cfg)
      BY DEF FirstPeerFlows, PeerFlows
    <3>3. \/ peerFlows' = peerFlows
          \/ /\ cursor \in Reachable(neighbors)
             /\ peerFlows' \ peerFlows
                  \subseteq PeerFlows(local, neighbors[cursor].cfg)
      <4>1. CASE AddPeerWhitelist
        BY <4>1 DEF AddPeerWhitelist
      <4>2. CASE AddPeerWhitelistFails
        <5>1. PICK k \in 0 .. 3 :
                peerFlows' = peerFlows \cup
                             FirstPeerFlows(local, neighbors[cursor].cfg, k)
          BY <4>2 DEF AddPeerWhitelistFails
        <5>2. FirstPeerFlows(local, neighbors[cursor].cfg, k)
                \subseteq PeerFlows(local, neighbors[cursor].cfg)
          BY <3>2
        <5>. QED  BY <4>2, <5>1, <5>2 DEF AddPeerWhitelistFails
      <4>. QED  BY <2>1, <4>1, <4>2
    <3>. QED  BY <3>1, <3>3 DEF Whitelist
  <2>2. CASE ~(AddPeerWhitelist \/ AddPeerWhitelistFails)
    <3>1. peerFlows' \subseteq peerFlows
      <4>1. CASE Run
        BY <2>2, <4>1 DEF Run, Round, Apply, Start, LoadConfig, LoadRefused,
           ReadConfigStat, BeginRound, PollTimeout, PollReturns, SendProbe,
           ProbeNotDue, CheckNotDue, StatConfig, ReloadAccepted,
           ReloadRefused, PruneNeighbors, Decide, ClearFlows, AddBaseFlows, PolicyApplied, TruncateStatus,
           WriteStatus, table
      <4>2. CASE ReceiveProbe
        BY <4>2 DEF ReceiveProbe, IgnoreFrame, RefreshNeighbor, AddNeighbor,
           TableFull, PollReturns, table
      <4>3. CASE Failures
        BY <2>2, <4>3 DEF Failures, ClearFlowsFails, AddBaseFlowsFails,
           StatusFails, Stop, table
      <4>4. CASE Environment
        BY <4>4 DEF Environment, ReplaceConfig, Tick, table
      <4>5. CASE UNCHANGED vars
        BY <4>5 DEF vars, table
      <4>. QED  BY <4>1, <4>2, <4>3, <4>4, <4>5 DEF Next
    <3>. QED  BY <3>1
  <2>. QED  BY <2>1, <2>2
<1>. QED
  BY <1>1, TypeCorrect, PolicyInvariant, PTL DEF Spec, OnlyAdmittedAdded

(* A peers.json that is not cut short is consistent in itself: a peer is   *)
(* reported reachable, with reason OK, exactly when the rule admits it     *)
(* given the rest of the file.                                             *)
THEOREM StatusFileSound == Spec => []StatusSound
<1>1. Init => StatusSound
  BY DEF Init, StatusSound
<1>2. TypeOK /\ PolicyInv /\ StatusSound /\ [Next]_vars => StatusSound'
  <2> SUFFICES ASSUME TypeOK, PolicyInv, StatusSound, [Next]_vars
               PROVE  StatusSound'
    OBVIOUS
  <2>1. CASE WriteStatus
    BY <2>1, StatusConsistent DEF WriteStatus, PolicyInv, StatusSound, TypeOK
  <2>2. CASE TruncateStatus
    BY <2>2 DEF TruncateStatus, StatusSound
  <2>3. CASE ~(WriteStatus \/ TruncateStatus)
    <3>1. UNCHANGED peersJson
      <4>1. CASE Run
        BY <2>3, <4>1 DEF Run, Round, Apply, Start, LoadConfig, LoadRefused,
           ReadConfigStat, BeginRound, PollTimeout, PollReturns, SendProbe,
           ProbeNotDue, CheckNotDue, StatConfig, ReloadAccepted,
           ReloadRefused, PruneNeighbors, Decide, ClearFlows, AddBaseFlows, AddPeerWhitelist, PolicyApplied
      <4>2. CASE ReceiveProbe
        BY <4>2 DEF ReceiveProbe, IgnoreFrame, RefreshNeighbor, AddNeighbor,
           TableFull, PollReturns
      <4>3. CASE Failures
        BY <4>3 DEF Failures, ClearFlowsFails, AddBaseFlowsFails,
           AddPeerWhitelistFails, ApplyFails, StatusFails, Stop
      <4>4. CASE Environment
        BY <4>4 DEF Environment, ReplaceConfig, Tick
      <4>5. CASE UNCHANGED vars
        BY <4>5 DEF vars
      <4>. QED  BY <4>1, <4>2, <4>3, <4>4, <4>5 DEF Next
    <3>. QED  BY <3>1 DEF StatusSound
  <2>. QED  BY <2>1, <2>2, <2>3
<1>. QED  BY <1>1, <1>2, TypeCorrect, PolicyInvariant, PTL DEF Spec

(* peers.json reports the table and the configuration of this moment. *)
Reported ==
  peersJson \notin {Absent, Torn} /\ Reports(peersJson, local, neighbors)

(* StatusMatchesFlows becomes inductive with the rest of the round: the    *)
(* file is rewritten in every check and after every attempt to program the *)
(* flow table, and in between only a step that sets changed touches what   *)
(* it reports.                                                             *)
StatusInv ==
  "status" \notin Env =>
    /\ pc = "top" => Reported
    /\ /\ pc \in {"poll", "tx", "check", "reload", "prune", "decide"}
       /\ ~changed
       => Reported

(* A step that leaves the file, the configuration and the view alone.      *)
LEMMA ReportedKept ==
  ASSUME UNCHANGED <<local, peersJson>>, SameView(neighbors, neighbors'),
         Reported
  PROVE  Reported'
BY ReportsView DEF Reported

LEMMA StatusStep ==
  TypeOK /\ PolicyInv /\ StatusInv /\ [Next]_vars => StatusInv'
<1> SUFFICES ASSUME TypeOK, PolicyInv, StatusInv, [Next]_vars,
                    "status" \notin Env
             PROVE  StatusInv'
  BY DEF StatusInv
<1>0. neighbors \in Table /\ local \in RadioConfig
  BY DEF TypeOK
<1>1. CASE Exit \/ Start \/ LoadConfig \/ ReadConfigStat
  BY <1>1 DEF Exit, Start, LoadConfig, ReadConfigStat, StatusInv
<1>2. CASE \/ BeginRound \/ PollTimeout \/ SendProbe \/ ProbeNotDue
           \/ CheckNotDue \/ StatConfig \/ ReloadRefused \/ Decide
  <2>1. UNCHANGED <<local, peersJson, neighbors>>
    BY <1>2 DEF BeginRound, PollTimeout, PollReturns, SendProbe, ProbeNotDue,
       CheckNotDue, StatConfig, ReloadRefused, Decide
  <2>2. Reported => Reported'
    BY <2>1, ReportedKept DEF SameView
  <2>3. \/ pc = "top" /\ pc' = "poll"
        \/ /\ pc \in {"poll", "tx", "check", "reload"}
           /\ pc' \in {"tx", "check", "decide", "reload", "prune"}
           /\ changed' = changed
        \/ pc = "decide" /\ (pc' = "apply" \/ (pc' = "top" /\ ~changed))
    BY <1>2 DEF BeginRound, PollTimeout, PollReturns, SendProbe, ProbeNotDue,
       CheckNotDue, StatConfig, ReloadRefused, Decide
  <2>. QED  BY <2>1, <2>2, <2>3 DEF StatusInv
<1>3. CASE ReloadAccepted
  BY <1>3 DEF ReloadAccepted, StatusInv
<1>4. CASE \/ PruneNeighbors \/ Apply \/ TruncateStatus
           \/ ClearFlowsFails \/ AddBaseFlowsFails \/ AddPeerWhitelistFails
  <2>1. pc' \in {"trunc", "base", "peers", "write"}
    BY <1>4 DEF PruneNeighbors, Apply, ClearFlows, AddBaseFlows,
       AddPeerWhitelist, PolicyApplied, TruncateStatus, ClearFlowsFails,
       AddBaseFlowsFails, AddPeerWhitelistFails, ApplyFails
  <2>. QED  BY <2>1 DEF StatusInv
<1>5. CASE WriteStatus
  <2>1. /\ UNCHANGED <<local, neighbors>>
        /\ peersJson' = StatusOf(local, neighbors)
    BY <1>5 DEF WriteStatus
  <2>2. peersJson' \notin {Absent, Torn}
    BY <1>0, <2>1, StatusType, SubnetAssumption
  <2>3. Reported'
    BY <1>0, <2>1, <2>2, StatusReports DEF Reported
  <2>. QED  BY <2>3 DEF StatusInv
<1>6. CASE StatusFails
  BY <1>6 DEF StatusFails, MayFail
<1>7. CASE ReceiveProbe
  <2>1. /\ pc = "poll" /\ pc' = "tx"
        /\ UNCHANGED <<local, peersJson>>
    BY <1>7 DEF ReceiveProbe, IgnoreFrame, RefreshNeighbor, AddNeighbor,
       TableFull, PollReturns
  <2>2. ~changed
    BY <2>1 DEF PolicyInv
  <2>3. changed' \/ SameView(neighbors, neighbors')
    BY <1>7, FrameNoticed
  <2>. QED  BY <2>1, <2>2, <2>3, ReportedKept DEF StatusInv
<1>8. CASE Environment \/ UNCHANGED vars
  <2>1. UNCHANGED <<local, peersJson, changed, pc>>
    BY <1>8 DEF Environment, Tick, ReplaceConfig, control, vars
  <2>2. UNCHANGED neighbors \/ neighbors' = Aged(neighbors)
    BY <1>8 DEF Environment, Tick, ReplaceConfig, vars
  <2>3. SameView(neighbors, neighbors')
    BY <1>0, <2>2, AgedKeeps DEF SameView
  <2>. QED  BY <2>1, <2>3, ReportedKept DEF StatusInv
<1>9. LoadRefused \/ Stop => Exit
  BY DEF LoadRefused, Stop
<1>. QED
  BY <1>1, <1>2, <1>3, <1>4, <1>5, <1>6, <1>7, <1>8, <1>9
  DEF Next, Run, Round, Failures

(* At the top of the loop, when nothing failed, peers.json is complete and *)
(* the traffic between the local node and the peers it reports reachable   *)
(* is exactly the traffic the flow table admits.                           *)
THEOREM StatusTellsFlows == Spec => []StatusMatchesFlows
<1>1. Init => StatusInv
  BY DEF Init, StatusInv
<1>2. PolicyInv /\ StatusSound /\ StatusInv => StatusMatchesFlows
  <2> SUFFICES ASSUME PolicyInv, StatusSound, StatusInv,
                      pc = "top", ~failed, "status" \notin Env
               PROVE  /\ peersJson \notin {Absent, Torn}
                      /\ peerFlows =
                           UNION {PeerFlows(peersJson.local,
                                            peersJson.peers[i].cfg) :
                                    i \in ReportedReachable(peersJson)}
    BY DEF StatusMatchesFlows
  <2>1. Reported /\ Settled
    BY DEF StatusInv, PolicyInv, Idle
  <2>2. Consistent(peersJson)
    BY <2>1 DEF StatusSound, Reported
  <2>. QED
    BY <2>1, <2>2, ReportedFlows DEF Reported, Settled
<1>. QED
  BY <1>1, <1>2, StatusStep, TypeCorrect, PolicyInvariant, StatusFileSound, PTL
  DEF Spec

-----------------------------------------------------------------------------
(* The configuration.                                                      *)

(* StatVouches is inductive once the time between the load and the stat of *)
(* start-up is added.                                                      *)
StatInv ==
  "startup_write" \notin Env =>
    /\ pc = "stat" => local = cfgFile.content
    /\ pc \notin {"off", "load", "stat"} /\ lastStat = cfgFile.stamp
         => local = cfgFile.content

(* While the file shows the remembered stat, it holds the configuration in *)
(* force: no change of the file is ever taken for an old one.              *)
THEOREM StatIsHonest == Spec => []StatVouches
<1>1. Init => StatInv
  BY DEF Init, StatInv
<1>2. TypeOK /\ StatInv /\ [Next]_vars => StatInv'
  <2> SUFFICES ASSUME TypeOK, StatInv, [Next]_vars
               PROVE  StatInv'
    OBVIOUS
  <2>1. CASE Exit \/ Start
    BY <2>1 DEF Exit, Start, StatInv
  <2>2. CASE LoadConfig \/ ReadConfigStat
    BY <2>2 DEF LoadConfig, ReadConfigStat, StatInv
  <2>3. CASE ReloadAccepted
    BY <2>3 DEF ReloadAccepted, StatInv
  <2>4. CASE \E c \in LocalConfigs \cup {Refused} : ReplaceConfig(c)
    <3>1. /\ pc = "stat" => "startup_write" \in Env
          /\ cfgFile'.stamp # lastStat
          /\ UNCHANGED <<pc, lastStat>>
      BY <2>4 DEF ReplaceConfig, control, stats
    <3>. QED  BY <3>1 DEF StatInv
  <2>5. CASE /\ UNCHANGED <<local, lastStat, cfgFile>>
             /\ \/ pc \in {"off", "load", "stat"} /\ pc' = pc
                \/ /\ pc \notin {"off", "load", "stat"}
                   /\ pc' # "stat"
    BY <2>5 DEF StatInv
  <2>6. \/ Exit \/ Start \/ LoadConfig \/ ReadConfigStat \/ ReloadAccepted
        \/ \E c \in LocalConfigs \cup {Refused} : ReplaceConfig(c)
        \/ /\ UNCHANGED <<local, lastStat, cfgFile>>
           /\ \/ pc \in {"off", "load", "stat"} /\ pc' = pc
              \/ /\ pc \notin {"off", "load", "stat"}
                 /\ pc' # "stat"
    <3> USE DEF stats
    <3>0. ret \in {"top", "decide"}
      BY DEF TypeOK
    <3>1. CASE Run
      BY <3>0, <3>1 DEF Run, Round, Apply, LoadRefused, BeginRound, PollTimeout,
         PollReturns, SendProbe, ProbeNotDue, CheckNotDue, StatConfig,
         ReloadRefused, PruneNeighbors, Decide, ClearFlows, AddBaseFlows,
         AddPeerWhitelist, PolicyApplied, TruncateStatus, WriteStatus
    <3>2. CASE ReceiveProbe
      BY <3>2 DEF ReceiveProbe, IgnoreFrame, RefreshNeighbor, AddNeighbor,
         TableFull, PollReturns
    <3>3. CASE Failures
      BY <3>0, <3>3 DEF Failures, ClearFlowsFails, AddBaseFlowsFails,
         AddPeerWhitelistFails, ApplyFails, StatusFails, Stop
    <3>4. CASE Tick \/ UNCHANGED vars
      BY <3>4 DEF Tick, vars, control
    <3>. QED  BY <3>1, <3>2, <3>3, <3>4 DEF Next, Environment
  <2>. QED  BY <2>1, <2>2, <2>3, <2>4, <2>5, <2>6
<1>3. StatInv => StatVouches
  BY DEF StatInv, StatVouches
<1>. QED  BY <1>1, <1>2, <1>3, TypeCorrect, PTL DEF Spec

-----------------------------------------------------------------------------
(* The abstract radio.                                                     *)

(* The file is completed only after it was truncated. *)
TornFirst == pc = "write" => peersJson = Torn

LEMMA TruncatedFirst == Spec => []TornFirst
<1>1. Init => TornFirst
  BY DEF Init, TornFirst
<1>2. TypeOK /\ TornFirst /\ [Next]_vars => TornFirst'
  <2> SUFFICES ASSUME TypeOK, TornFirst, [Next]_vars
               PROVE  TornFirst'
    OBVIOUS
  <2>0. ret # "write" /\ pc \in Locations
    BY DEF TypeOK
  <2>1. CASE Run
    BY <2>0, <2>1 DEF Run, Round, Apply, Start, LoadConfig, LoadRefused,
       ReadConfigStat, BeginRound, PollTimeout, PollReturns, SendProbe,
       ProbeNotDue, CheckNotDue, StatConfig, ReloadAccepted, ReloadRefused,
       PruneNeighbors, Decide, ClearFlows, AddBaseFlows, AddPeerWhitelist,
       PolicyApplied, TruncateStatus, WriteStatus, Exit, TornFirst
  <2>2. CASE ReceiveProbe
    BY <2>2 DEF ReceiveProbe, IgnoreFrame, RefreshNeighbor, AddNeighbor, TableFull,
       PollReturns, TornFirst
  <2>3. CASE Failures
    BY <2>0, <2>3 DEF Failures, ClearFlowsFails, AddBaseFlowsFails, AddPeerWhitelistFails,
       ApplyFails, StatusFails, Stop, Exit, TornFirst
  <2>4. CASE Environment
    BY <2>4 DEF Environment, ReplaceConfig, Tick, control, TornFirst
  <2>5. CASE UNCHANGED vars
    BY <2>5 DEF vars, control, TornFirst
  <2>. QED  BY <2>1, <2>2, <2>3, <2>4, <2>5 DEF Next
<1>. QED  BY <1>1, <1>2, TypeCorrect, PTL DEF Spec

(* The rule the abstract radio follows is that of Membership. *)
LEMMA SameRule ==
  /\ \A loc, h : AbstractRadio!Picture(loc, h) = Rule!Picture(loc, h)
  /\ \A c, h : AbstractRadio!Hearing(h, c) = Rule!Hearing(h, c)
  /\ AbstractRadio!RadioConfig = RadioConfig
<1>0. \A S : AbstractRadio!Cardinality(S) = Rule!Cardinality(S)
  BY DEF AbstractRadio!Cardinality, Rule!Cardinality
<1>1. \A loc, h : AbstractRadio!Matching(loc, h) = Rule!Matching(loc, h)
  BY DEF AbstractRadio!Matching, Rule!Matching
<1>2. \A loc, h : AbstractRadio!MasterCount(loc, h) = Rule!MasterCount(loc, h)
  BY <1>0, <1>1 DEF AbstractRadio!MasterCount, Rule!MasterCount
<1>3. \A loc, h : AbstractRadio!Admitted(loc, h) = Rule!Admitted(loc, h)
  BY <1>1, <1>2 DEF AbstractRadio!Admitted, Rule!Admitted
<1>4. \A loc, h, c : AbstractRadio!Reason(loc, h, c) = Rule!Reason(loc, h, c)
  BY <1>2 DEF AbstractRadio!Reason, Rule!Reason
<1>5. \A loc, h : AbstractRadio!Picture(loc, h) = Rule!Picture(loc, h)
  BY <1>3, <1>4 DEF AbstractRadio!Picture, Rule!Picture
<1>. QED
  BY <1>5 DEF AbstractRadio!Hearing, Rule!Hearing, AbstractRadio!RadioConfig,
     RadioConfig

(* The daemon implements the abstract radio: every step of the thread is   *)
(* one of the radio's, or none, whatever frames, reloads, failures of OVS  *)
(* and restarts do to it.                                                  *)
THEOREM RadioImplemented == Spec => ImplementsRadio
<1>1. Init => AbstractRadio!Init
  BY SubnetAssumption, SameRule DEF Init, AbstractRadio!Init, HeardFrom,
     EmptyTable, Used
<1>2. TypeOK /\ OneSlotPerNode /\ PolicyInv /\ TornFirst /\ [Next]_vars
        => [AbstractRadio!Next]_(AbstractRadio!vars)
  <2> SUFFICES ASSUME TypeOK, OneSlotPerNode, PolicyInv, TornFirst, [Next]_vars
               PROVE  [AbstractRadio!Next]_(AbstractRadio!vars)
    OBVIOUS
  <2>0. neighbors \in Table /\ local \in RadioConfig
    BY DEF TypeOK
  <2>1. UNCHANGED <<local, neighbors, peersJson>>
          => UNCHANGED AbstractRadio!vars
    BY DEF AbstractRadio!vars, HeardFrom, PictureIn
  <2>2. CASE ~ReceiveProbe /\ UNCHANGED <<local, peersJson>>
    <3>1. HeardFrom(neighbors') \subseteq HeardFrom(neighbors)
      BY <2>2, NoFrameShrinks, ShrinksHeard
    <3>2. AbstractRadio!Forget
      BY <2>2, <3>1 DEF AbstractRadio!Forget, PictureIn, HeardFrom
    <3>. QED  BY <3>2 DEF AbstractRadio!Next
  <2>3. CASE ReceiveProbe
    <3>1. UNCHANGED <<local, peersJson>>
      BY <2>3 DEF ReceiveProbe, IgnoreFrame, RefreshNeighbor, AddNeighbor,
         TableFull, PollReturns
    <3>2. CASE UNCHANGED neighbors
      BY <2>1, <3>1, <3>2
    <3>3. ASSUME NEW f \in Frames, NEW s \in Slots,
                 RefreshNeighbor(f, s) \/ AddNeighbor(f, s)
          PROVE  AbstractRadio!Next
      <4>1. f \in Broadcast /\ f.cfg \in RadioConfig
        BY SubnetAssumption DEF Broadcast
      <4>2. \/ /\ FindNeighbor(neighbors, s, f.cfg.node)
               /\ neighbors' = Refreshed(neighbors, s, f)
            \/ /\ Unknown(neighbors, f.cfg.node)
               /\ AllocNeighbor(neighbors, s)
               /\ neighbors' = Added(neighbors, s, f)
        BY <3>3 DEF RefreshNeighbor, AddNeighbor
      <4>3. HeardFrom(neighbors') = Rule!Hearing(HeardFrom(neighbors), f.cfg)
        BY <2>0, <4>1, <4>2, FrameHeard DEF OneSlotPerNode
      <4>4. AbstractRadio!Hear(f.cfg)
        BY <3>1, <3>3, <4>3, SameRule DEF AbstractRadio!Hear, PictureIn,
           HeardFrom, RefreshNeighbor, AddNeighbor
      <4>. QED  BY <4>1, <4>4, SameRule DEF AbstractRadio!Next
    <3>. QED
      BY <2>3, <3>2, <3>3 DEF ReceiveProbe, IgnoreFrame, TableFull
  <2>4. CASE LoadConfig \/ ReloadAccepted
    <3>1. UNCHANGED <<neighbors, peersJson>> /\ local' \in RadioConfig
      BY <2>0, <2>4, SubnetAssumption DEF LoadConfig, ReloadAccepted,
         TypeOK
    <3>2. AbstractRadio!Adopt
      BY <3>1, SameRule DEF AbstractRadio!Adopt, HeardFrom, PictureIn
    <3>. QED  BY <3>2 DEF AbstractRadio!Next
  <2>5. CASE TruncateStatus
    <3>1. AbstractRadio!Truncate
      <4>1. SameView(neighbors, neighbors')
        BY <2>0, <2>5, UpdateClassifies DEF TruncateStatus, Reclassified
      <4>. QED
        BY <2>5, <4>1 DEF TruncateStatus, AbstractRadio!Truncate, SameView,
           HeardFrom
    <3>. QED  BY <3>1 DEF AbstractRadio!Next
  <2>6. CASE WriteStatus
    <3>1. /\ pc = "write" /\ peersJson = Torn
          /\ peersJson' = StatusOf(local, neighbors)
          /\ UNCHANGED <<local, neighbors>>
      BY <2>6 DEF WriteStatus, TornFirst
    <3>2. PictureIn(peersJson') = Rule!Picture(local, HeardFrom(neighbors))
      BY <2>0, <3>1, PictureGiven DEF PolicyInv, OneSlotPerNode
    <3>3. peersJson' \notin {Absent, Torn}
      BY <2>0, <3>1, StatusType, SubnetAssumption
    <3>4. AbstractRadio!Write
      BY <3>1, <3>2, <3>3, SameRule DEF AbstractRadio!Write, HeardFrom
    <3>. QED  BY <3>4 DEF AbstractRadio!Next
  <2>7. \/ ReceiveProbe \/ LoadConfig \/ ReloadAccepted
        \/ TruncateStatus \/ WriteStatus
        \/ UNCHANGED <<local, peersJson>>
    <3>1. CASE Run
      BY <3>1 DEF Run, Round, Apply, Start, LoadConfig, LoadRefused,
       ReadConfigStat, BeginRound, PollTimeout, PollReturns, SendProbe,
       ProbeNotDue, CheckNotDue, StatConfig, ReloadAccepted, ReloadRefused,
       PruneNeighbors, Decide, ClearFlows, AddBaseFlows, AddPeerWhitelist,
       PolicyApplied, TruncateStatus, WriteStatus, Exit
    <3>2. CASE Failures
      BY <3>2 DEF Failures, ClearFlowsFails, AddBaseFlowsFails, AddPeerWhitelistFails,
       ApplyFails, StatusFails, Stop, Exit
    <3>3. CASE Environment \/ UNCHANGED vars
      BY <3>3 DEF Environment, ReplaceConfig, Tick, vars
    <3>. QED  BY <3>1, <3>2, <3>3 DEF Next
  <2>. QED  BY <2>2, <2>3, <2>4, <2>5, <2>6, <2>7
<1>. QED
  BY <1>1, <1>2, TypeCorrect, SlotsUnique, PolicyInvariant, TruncatedFirst, PTL
  DEF Spec, ImplementsRadio, AbstractRadio!Spec

=============================================================================
