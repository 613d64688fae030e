--------------------------- MODULE CklDaemonProofs ---------------------------
(***************************************************************************)
(* Proofs about CklDaemon, for every table size, every set of nodes,       *)
(* configurations and frames, every time-out and every choice of failures. *)
(***************************************************************************)
EXTENDS CklDaemon, PeerPolicyProofs
-----------------------------------------------------------------------------
(* Type correctness.                                                       *)

(* Taking a frame in keeps the table's type. *)
LEMMA ReceiveTable ==
  ASSUME neighbors \in Table, NEW f \in Frames, NEW i \in Slots,
         RefreshNeighbor(f, i) \/ AddNeighbor(f, i)
  PROVE  /\ neighbors' \in Table
         /\ \A j \in Slots : j # i => neighbors'[j] = neighbors[j]
         /\ i \in Used(neighbors')
         /\ neighbors'[i].cfg = f.cfg
<1>1. f \in Broadcast
  BY CklAssumption
<1>2. \/ i \in Used(neighbors) /\ neighbors' = Refreshed(neighbors, i, f)
      \/ neighbors' = Added(neighbors, i, f)
  BY DEF RefreshNeighbor, AddNeighbor, FindNeighbor, Holds
<1>. QED  BY <1>1, <1>2, FrameEntry

(* Leaving the process respects the types. *)
LEMMA ExitType ==
  ASSUME Exit
  PROVE  /\ pc' = "off" /\ cursor' = 0 /\ ret' = "open"
         /\ cfgStat' \in Stamps \cup {NoStat}
         /\ policyApplied' \in BOOLEAN /\ changed' \in BOOLEAN
         /\ failed' \in BOOLEAN
         /\ neighbors' \in Table
         /\ txIn' \in 0 .. BROADCAST_INTERVAL
         /\ cfgIn' \in 0 .. CONFIG_CHECK_INTERVAL
<1>1. neighbors' \in Table
  BY DEF Exit, EmptyTable, Table, TableEntry
<1>2. /\ txIn' \in 0 .. BROADCAST_INTERVAL
      /\ cfgIn' \in 0 .. CONFIG_CHECK_INTERVAL
  BY CklAssumption DEF Exit
<1>3. /\ policyApplied' \in BOOLEAN /\ changed' \in BOOLEAN
      /\ failed' \in BOOLEAN
  BY DEF Exit
<1>. QED  BY <1>1, <1>2, <1>3 DEF Exit

(* Every state is well typed, in every behaviour of the daemon, whatever   *)
(* the failures and the interleaving.                                      *)
THEOREM TypeCorrect == Spec => []TypeOK
<1>1. Init => TypeOK
  <2>1. EmptyTable \in Table
    BY DEF EmptyTable, Table, TableEntry
  <2> SUFFICES ASSUME Init PROVE TypeOK
    OBVIOUS
  <2>2. /\ pc \in Locations /\ cursor \in Nat /\ pc = "off"
        /\ ret \in {"open", "poll", "decide"}
    BY DEF Init, Locations
  <2>3. local \in RadioConfig /\ probe \in RadioConfig
    BY CklAssumption DEF Init
  <2>4. /\ cfgStat \in Stamps \cup {NoStat} /\ policyApplied \in BOOLEAN
        /\ changed \in BOOLEAN /\ failed \in BOOLEAN
    BY DEF Init
  <2>5. /\ txIn \in 0 .. BROADCAST_INTERVAL
        /\ cfgIn \in 0 .. CONFIG_CHECK_INTERVAL
        /\ faults \in 0 .. MaxFaults
    BY CklAssumption DEF Init
  <2>. QED
    BY <2>1, <2>2, <2>3, <2>4, <2>5 DEF Init, TypeOK
<1>2. TypeOK /\ [Next]_vars => TypeOK'
  <2> SUFFICES ASSUME TypeOK, [Next]_vars
               PROVE  TypeOK'
    OBVIOUS
  <2> USE CklAssumption
  <2>0. neighbors \in Table
    BY DEF TypeOK
  <2>1. CASE Start \/ LoadConfig \/ ReadConfigStat \/ OpenSocket
    <3>1. CASE Start
      BY <3>1 DEF TypeOK, Locations, Start, settings, timers,
         table, history
    <3>2. CASE LoadConfig
      BY <3>2 DEF TypeOK, Locations, LoadConfig, settings, timers,
         table, history
    <3>3. CASE ReadConfigStat
      BY <3>3 DEF TypeOK, Locations, ReadConfigStat, settings, timers,
         table, history
    <3>4. CASE OpenSocket
      BY <3>4 DEF TypeOK, Locations, OpenSocket, settings, timers,
         table, history
    <3>. QED  BY <2>1, <3>1, <3>2, <3>3, <3>4
  <2>2. CASE LoadRefused \/ Stop
    <3>1. /\ Exit
          /\ UNCHANGED <<local, probe, cfgFile, table, peersJson>>
          /\ faults' \in 0 .. MaxFaults
      BY <2>2 DEF LoadRefused, Stop, MayFail, TypeOK
    <3>. QED
      BY <3>1, ExitType DEF TypeOK, Locations, Table, table
  <2>3. CASE PollTimeout \/ SendProbe \/ ProbeNotDue \/ CheckNotDue \/ Decide
    <3>1. CASE PollTimeout
      BY <3>1 DEF TypeOK, Locations, PollTimeout, settings, timers,
         table, history
    <3>2. CASE SendProbe
      BY <3>2 DEF TypeOK, Locations, SendProbe, settings, timers,
         table, history
    <3>3. CASE ProbeNotDue
      BY <3>3 DEF TypeOK, Locations, ProbeNotDue, settings, timers,
         table, history
    <3>4. CASE CheckNotDue
      BY <3>4 DEF TypeOK, Locations, CheckNotDue, settings, timers,
         table, history
    <3>5. CASE Decide
      BY <3>5 DEF TypeOK, Locations, Decide, settings, timers,
         table, history
    <3>. QED  BY <2>3, <3>1, <3>2, <3>3, <3>4, <3>5
  <2>4. CASE ConfigStatChanged \/ ReloadConfig
    <3>1. CASE ConfigStatChanged
      BY <3>1 DEF TypeOK, Locations, ConfigStatChanged, settings, timers,
         table, history
    <3>2. CASE ReloadConfig
      BY <3>2 DEF TypeOK, Locations, ReloadConfig, Adopts, settings, timers,
         table, history
    <3>. QED  BY <2>4, <3>1, <3>2
  <2>5. CASE PruneNeighbors
    <3>1. neighbors' \in Table
      BY <2>0, <2>5, TableSteps, UpdateClassifies DEF PruneNeighbors, TypeOK
    <3>. QED
      BY <2>5, <3>1 DEF TypeOK, Locations, PruneNeighbors, settings, timers,
         table, history, Table
  <2>6. CASE ClearFlows
    <3>1. neighbors' \in Table
      BY <2>0, <2>6, UpdateClassifies DEF ClearFlows, Reclassified, TypeOK
    <3>. QED
      BY <2>6, <3>1 DEF TypeOK, Locations, ClearFlows, settings, timers,
         history, Table
  <2>7. CASE AddBaseFlows
    <3>1. baseFlows' \subseteq BaseFlow
      BY <2>7, FlowTypes DEF TypeOK, AddBaseFlows
    <3>2. /\ pc' \in {"base", "peers"} /\ cursor' \in Nat
          /\ pc' = "base" => cursor' \in 1 .. 3
          /\ pc' = "peers" => cursor' \in 1 .. NEIGHBOR_MAX + 1
      BY <2>7, PolicyAssumption DEF TypeOK, AddBaseFlows
    <3>. QED
      BY <2>7, <3>1, <3>2 DEF TypeOK, Locations, AddBaseFlows, settings,
         timers, history
  <2>8. CASE AddPeerWhitelist
    <3>1. ASSUME cursor \in Reachable(neighbors)
          PROVE  neighbors[cursor].cfg \in RadioConfig
      BY <2>0, <3>1, UsedFinite DEF Reachable, Used, Table, TableEntry, Neighbor
    <3>2. peerFlows' \subseteq Flow
      BY <2>8, <3>1, FlowTypes DEF TypeOK, AddPeerWhitelist, PeerFlows
    <3>3. cursor' \in 1 .. NEIGHBOR_MAX + 1
      BY <2>8, PolicyAssumption DEF TypeOK, AddPeerWhitelist, Slots
    <3>. QED
      BY <2>8, <3>2, <3>3 DEF TypeOK, Locations, AddPeerWhitelist, settings,
         timers, history
  <2>9. CASE PolicyApplied \/ TruncateStatus
    <3>1. CASE PolicyApplied
      BY <3>1 DEF TypeOK, Locations, PolicyApplied, settings, timers,
         table, history
    <3>2. CASE TruncateStatus
      BY <3>2 DEF TypeOK, Locations, TruncateStatus, settings, timers,
         table, history
    <3>. QED  BY <2>9, <3>1, <3>2
  <2>10. CASE WriteStatus
    <3>1. peersJson' \in Status
      BY <2>0, <2>10, StatusType DEF WriteStatus, TypeOK
    <3>. QED
      BY <2>10, <3>1 DEF TypeOK, Locations, WriteStatus, settings, timers,
         table, history
  <2>11. CASE ReceiveProbe
    <3>1. neighbors' \in Table /\ changed' \in BOOLEAN
      BY <2>0, <2>11, ReceiveTable DEF ReceiveProbe, IgnoreFrame, TableFull,
         RefreshNeighbor, NeighborDiffers, AddNeighbor
    <3>2. FrameArrives
      BY <2>11 DEF ReceiveProbe, IgnoreFrame, TableFull, RefreshNeighbor,
         AddNeighbor
    <3>. QED
      BY <3>1, <3>2 DEF TypeOK, Locations, FrameArrives, settings, timers,
         table, history, Table
  <2>12. CASE ClearFlowsFails \/ AddBaseFlowsFails \/ AddPeerWhitelistFails
    <3>1. ApplyFails
      BY <2>12 DEF ClearFlowsFails, AddBaseFlowsFails, AddPeerWhitelistFails
    <3>2. /\ faults' \in 0 .. MaxFaults
          /\ UNCHANGED <<local, probe, cfgFile, peersJson>>
      BY <3>1 DEF ApplyFails, MayFail, TypeOK
    <3>3. neighbors' \in Table
      BY <2>0, <2>12, <3>1, ExitType, UpdateClassifies DEF ClearFlowsFails,
         AddBaseFlowsFails, AddPeerWhitelistFails, ApplyFails, Reclassified,
         TypeOK
    <3>4. baseFlows' = baseFlows
      BY <2>12 DEF ClearFlowsFails, AddBaseFlowsFails, AddPeerWhitelistFails,
         table
    <3>5. peerFlows' \subseteq Flow
      <4>1. CASE AddPeerWhitelistFails
        <5>1. neighbors[cursor].cfg \in RadioConfig
          BY <2>0, <4>1, UsedFinite DEF AddPeerWhitelistFails, Reachable, Used,
             Table, TableEntry, Neighbor
        <5>2. PICK k \in 0 .. 3 :
                peerFlows' = peerFlows \cup
                             FirstPeerFlows(local, neighbors[cursor].cfg, k)
          BY <4>1 DEF AddPeerWhitelistFails
        <5>. QED  BY <5>1, <5>2, FlowTypes DEF TypeOK
      <4>. QED
        BY <2>12, <4>1 DEF ClearFlowsFails, AddBaseFlowsFails, table, TypeOK
    <3>6. /\ pc' \in {"off", "poll"} /\ cursor' = 0
          /\ ret' \in {"open", "poll", "decide"}
          /\ cfgStat' \in Stamps \cup {NoStat}
          /\ policyApplied' \in BOOLEAN /\ changed' \in BOOLEAN
          /\ failed' \in BOOLEAN
          /\ txIn' \in 0 .. BROADCAST_INTERVAL
          /\ cfgIn' \in 0 .. CONFIG_CHECK_INTERVAL
      <4>1. CASE policyApplied
        BY <3>1, <4>1 DEF ApplyFails, TypeOK, timers
      <4>2. CASE ~policyApplied
        BY <3>1, <4>2, ExitType DEF ApplyFails
      <4>. QED  BY <4>1, <4>2
    <3>. QED
      BY <3>2, <3>3, <3>4, <3>5, <3>6 DEF TypeOK, Locations, Table
  <2>13. CASE StatusFails
    BY <2>13 DEF TypeOK, Locations, StatusFails, MayFail, settings, timers,
       table
  <2>14. CASE \E c \in LocalConfigs \cup {Refused} : ReplaceConfig(c)
    BY <2>14 DEF TypeOK, ReplaceConfig, control, settings, timers, table,
       history
  <2>15. CASE Tick
    <3>1. neighbors' \in Table
      BY <2>0, <2>15, TableSteps DEF Tick
    <3>2. /\ txIn' \in 0 .. BROADCAST_INTERVAL
          /\ cfgIn' \in 0 .. CONFIG_CHECK_INTERVAL
      BY <2>15 DEF Tick, Sooner, TypeOK
    <3>. QED
      BY <2>15, <3>1, <3>2 DEF TypeOK, Tick, control, settings, table, history,
         Table
  <2>16. CASE UNCHANGED vars
    BY <2>16 DEF TypeOK, vars, control, settings, timers, table, history
  <2>. QED
    BY <2>1, <2>2, <2>3, <2>4, <2>5, <2>6, <2>7, <2>8, <2>9, <2>10, <2>11,
       <2>12, <2>13, <2>14, <2>15, <2>16
    DEF Next, Run, Round, Apply, Failures, Environment
<1>. QED  BY <1>1, <1>2, PTL DEF Spec

-----------------------------------------------------------------------------
(* Views of the neighbour table across steps.                              *)

(* Only a frame brings a node, or a new configuration of one, in. *)
LEMMA NoFrameShrinks ==
  ASSUME TypeOK, [Next]_vars, ~ReceiveProbe
  PROVE  Shrinks(neighbors, neighbors')
<1>1. neighbors \in Table /\ local \in RadioConfig
  BY DEF TypeOK
<1>2. UNCHANGED neighbors => Shrinks(neighbors, neighbors')
  BY DEF Shrinks
<1>3. Exit => Shrinks(neighbors, neighbors')
  BY DEF Exit, EmptyTable, Shrinks, Used
<1>4. neighbors' = UpdatePeerReachability(local, neighbors)
        => Shrinks(neighbors, neighbors')
  BY <1>1, UpdateClassifies DEF SameView, Shrinks
<1>5. neighbors' = Aged(neighbors) => Shrinks(neighbors, neighbors')
  BY <1>1, AgedKeeps DEF SameView, Shrinks
<1>6. PruneNeighbors => Shrinks(neighbors, neighbors')
  <2> DEFINE P == Pruned(neighbors)
             U == UpdatePeerReachability(local, P)
  <2>1. P \in Table /\ Shrinks(neighbors, P)
    BY <1>1, TableSteps, PrunedShrinks
  <2>2. SameView(P, U)
    BY <1>1, <2>1, UpdateClassifies
  <2>3. Shrinks(neighbors, U)
    <3> HIDE DEF P, U
    <3>. QED  BY <2>1, <2>2 DEF Shrinks, SameView
  <2>. QED  BY <2>3 DEF PruneNeighbors
<1>7. \/ UNCHANGED neighbors
      \/ Exit
      \/ neighbors' = UpdatePeerReachability(local, neighbors)
      \/ neighbors' = Aged(neighbors)
      \/ PruneNeighbors
  <2>1. CASE Run
    BY <2>1 DEF Run, Round, Apply, Start, LoadConfig, LoadRefused,
       ReadConfigStat, OpenSocket, PollTimeout, SendProbe, ProbeNotDue,
       CheckNotDue, ConfigStatChanged, ReloadConfig, Decide, ClearFlows,
       Reclassified,
       AddBaseFlows, AddPeerWhitelist, PolicyApplied, TruncateStatus,
       WriteStatus
  <2>2. CASE Failures
    BY <2>2 DEF Failures, ClearFlowsFails, AddBaseFlowsFails,
       AddPeerWhitelistFails, ApplyFails, Reclassified, StatusFails, Stop
  <2>3. CASE Environment
    BY <2>3 DEF Environment, ReplaceConfig, Tick
  <2>4. CASE UNCHANGED vars
    BY <2>4 DEF vars
  <2>. QED  BY <2>1, <2>2, <2>3, <2>4 DEF Next
<1>. QED  BY <1>2, <1>3, <1>4, <1>5, <1>6, <1>7

(* No node ever occupies two slots of the neighbour table. *)
THEOREM SlotsUnique == Spec => []OneSlotPerNode
<1>1. Init => OneSlotPerNode
  BY DEF Init, OneSlotPerNode, KeyedByNode, EmptyTable, Used
<1>2. TypeOK /\ OneSlotPerNode /\ [Next]_vars => OneSlotPerNode'
  <2> SUFFICES ASSUME TypeOK, OneSlotPerNode, [Next]_vars
               PROVE  OneSlotPerNode'
    OBVIOUS
  <2>1. CASE ~ReceiveProbe
    <3>1. Shrinks(neighbors, neighbors')
      BY <2>1, NoFrameShrinks
    <3>. QED  BY <3>1, ShrinksKeyed DEF OneSlotPerNode
  <2>2. CASE ReceiveProbe
    <3>1. CASE UNCHANGED neighbors
      BY <3>1 DEF OneSlotPerNode, KeyedByNode
    <3>2. ASSUME NEW f \in Frames, NEW s \in Slots,
                 RefreshNeighbor(f, s) \/ AddNeighbor(f, s)
          PROVE  OneSlotPerNode'
      <4>1. f \in Broadcast
        BY CklAssumption
      <4>2. \/ /\ FindNeighbor(neighbors, s, f.cfg.node)
               /\ neighbors' = Refreshed(neighbors, s, f)
            \/ /\ Unknown(neighbors, f.cfg.node)
               /\ neighbors' = Added(neighbors, s, f)
        BY <3>2 DEF RefreshNeighbor, AddNeighbor
      <4>. QED  BY <4>1, <4>2, FrameKeyed DEF TypeOK, OneSlotPerNode
    <3>. QED
      BY <2>2, <3>1, <3>2 DEF ReceiveProbe, IgnoreFrame, TableFull
  <2>. QED  BY <2>1, <2>2
<1>. QED  BY <1>1, <1>2, TypeCorrect, PTL DEF Spec

-----------------------------------------------------------------------------
(* The flow table and the status file.                                     *)

Settled ==
  /\ baseFlows = FirstGroups(3)
  /\ peerFlows = Whitelist(local, neighbors)

(* The part of a round that can still notice a change.                     *)
Checking ==
  \/ pc \in {"tx", "check", "reload", "prune", "decide"}
  \/ pc \in {"trunc", "write"} /\ ret = "decide"

(* The status file is about to be written after the table was programmed.  *)
Reporting == pc = "open" \/ (pc \in {"trunc", "write"} /\ ret # "decide")

(* The flows of the neighbours before the cursor. *)
FlowsSoFar == FlowsBefore(local, neighbors, cursor)

(* The inductive invariant: FlowsInSync holds while the daemon waits; it   *)
(* survives a round because a round that changes the policy's input sets   *)
(* changed; and it is established by ovs_apply_policy, which starts from   *)
(* an empty table and adds the flows of one slot after the other.          *)
PolicyInv ==
  /\ pc = "poll" /\ ~failed => Settled
  /\ Checking /\ ~failed /\ ~changed => Settled
  /\ Reporting => Settled
  /\ pc = "base" => baseFlows = FirstGroups(cursor - 1) /\ peerFlows = {}
  /\ pc = "peers" => baseFlows = FirstGroups(3) /\ peerFlows = FlowsSoFar
  /\ pc \in {"base", "peers", "trunc", "write"} => Classified(local, neighbors)

(* Steps that leave the table, the configuration and the view alone leave  *)
(* everything the invariant says of them alone.                            *)
LEMMA ViewKeeps ==
  ASSUME TypeOK,
         UNCHANGED <<local, baseFlows, peerFlows>>,
         SameView(neighbors, neighbors')
  PROVE  Settled' <=> Settled
<1>1. Whitelist(local, neighbors) = Whitelist(local, neighbors')
  BY ViewDecides
<1>. QED  BY <1>1 DEF Settled

(* A tick disturbs neither the flows so far nor the verdicts. *)
LEMMA TickKeeps ==
  ASSUME TypeOK, Tick
  PROVE  /\ SameView(neighbors, neighbors')
         /\ Classified(local, neighbors) => Classified(local, neighbors)'
         /\ FlowsSoFar' = FlowsSoFar
<1>1. /\ neighbors \in Table
      /\ neighbors' = Aged(neighbors)
      /\ UNCHANGED <<local, cursor>>
  BY DEF TypeOK, Tick, control, settings
<1>. QED  BY <1>1, AgedKeeps, AgedQuiet DEF FlowsSoFar, Classified

(* A frame that changes the view is noticed: it sets changed. *)
LEMMA FrameNoticed ==
  ASSUME TypeOK, ReceiveProbe
  PROVE  changed' \/ SameView(neighbors, neighbors')
<1>0. neighbors \in Table
  BY DEF TypeOK
<1>1. CASE UNCHANGED neighbors
  BY <1>1 DEF SameView
<1>2. ASSUME NEW f \in Frames, NEW i \in Slots, RefreshNeighbor(f, i)
      PROVE  changed' \/ SameView(neighbors, neighbors')
  <2>1. /\ \A j \in Slots : j # i => neighbors'[j] = neighbors[j]
        /\ i \in Used(neighbors') /\ neighbors'[i].cfg = f.cfg
    BY <1>0, <1>2, ReceiveTable
  <2>2. i \in Used(neighbors)
    BY <1>2 DEF RefreshNeighbor, FindNeighbor, Holds
  <2>3. changed' \/ neighbors[i].cfg = f.cfg
    BY <1>2 DEF RefreshNeighbor, NeighborDiffers
  <2>4. Used(neighbors') = Used(neighbors)
    BY <2>1, <2>2 DEF Used
  <2>. QED  BY <2>1, <2>3, <2>4, UsedFinite DEF SameView
<1>. QED
  BY <1>1, <1>2 DEF ReceiveProbe, IgnoreFrame, TableFull, AddNeighbor

(* Adding the flows of the slot under the cursor. *)
LEMMA OneMoreSlot ==
  ASSUME TypeOK, PolicyInv, AddPeerWhitelist
  PROVE  peerFlows' = FlowsSoFar'
<1>1. /\ peerFlows = FlowsSoFar
      /\ cursor \in Slots /\ cursor' = cursor + 1
      /\ UNCHANGED <<local, neighbors>>
      /\ peerFlows' = IF cursor \in Reachable(neighbors)
                      THEN peerFlows \cup PeerFlows(local, neighbors[cursor].cfg)
                      ELSE peerFlows
  BY DEF PolicyInv, AddPeerWhitelist, settings
<1>. QED  BY <1>1, FlowsBySlot DEF FlowsSoFar

LEMMA PolicyInit == Init => PolicyInv
BY DEF Init, PolicyInv, Checking, Reporting

(* Steps that keep the table, the configuration, the neighbours and their  *)
(* verdicts: what is left is where the thread stands.                      *)
LEMMA PolicyQuiet ==
  ASSUME TypeOK, PolicyInv,
         UNCHANGED <<local, baseFlows, peerFlows, neighbors>>
  PROVE  /\ Settled' <=> Settled
         /\ Classified(local, neighbors)' <=> Classified(local, neighbors)
  BY ViewKeeps DEF SameView

LEMMA PolicyStep == TypeOK /\ PolicyInv /\ [Next]_vars => PolicyInv'
<1> SUFFICES ASSUME TypeOK, PolicyInv, [Next]_vars
             PROVE  PolicyInv'
  OBVIOUS
<1>0. /\ neighbors \in Table /\ local \in RadioConfig
      /\ pc \in Locations /\ cursor \in Nat
  BY DEF TypeOK
<1>1. CASE Exit \/ Start \/ LoadConfig \/ ReadConfigStat
  BY <1>1 DEF Exit, Start, LoadConfig, ReadConfigStat, PolicyInv, Checking,
     Reporting
<1>2. CASE \/ OpenSocket \/ PollTimeout \/ SendProbe \/ ProbeNotDue
           \/ CheckNotDue \/ ConfigStatChanged
  <2>1. UNCHANGED <<local, baseFlows, peerFlows, neighbors, failed>>
    BY <1>2 DEF OpenSocket, PollTimeout, SendProbe, ProbeNotDue, CheckNotDue,
       ConfigStatChanged, settings, table, history
  <2>2. Settled' <=> Settled
    BY <2>1, PolicyQuiet
  <2>3. \/ pc = "open" /\ pc' = "poll"
        \/ pc = "poll" /\ pc' = "tx"
        \/ /\ pc \in {"tx", "check"}
           /\ pc' \in {"check", "decide", "reload", "prune"}
           /\ changed' = changed
    BY <1>2 DEF OpenSocket, PollTimeout, SendProbe, ProbeNotDue, CheckNotDue,
       ConfigStatChanged
  <2>. QED
    BY <2>1, <2>2, <2>3 DEF PolicyInv, Checking, Reporting
<1>3. CASE ReloadConfig
  <2>1. UNCHANGED <<baseFlows, peerFlows, neighbors, failed>>
    BY <1>3 DEF ReloadConfig, table, history
  <2>2. pc = "reload" /\ pc' = "prune"
    BY <1>3 DEF ReloadConfig
  <2>3. CASE cfgFile.content = Refused
    <3>1. UNCHANGED <<local, changed>>
      BY <1>3, <2>3 DEF ReloadConfig, Adopts
    <3>2. Settled' <=> Settled
      BY <2>1, <3>1, PolicyQuiet
    <3>. QED  BY <2>1, <2>2, <3>1, <3>2 DEF PolicyInv, Checking, Reporting
  <2>4. CASE cfgFile.content # Refused
    BY <1>3, <2>2, <2>4 DEF ReloadConfig, Adopts, PolicyInv, Checking, Reporting
  <2>. QED  BY <2>3, <2>4
<1>4. CASE PruneNeighbors
  <2>1. /\ UNCHANGED <<local, baseFlows, peerFlows, failed>>
        /\ pc = "prune" /\ pc' = "trunc" /\ ret' = "decide"
        /\ neighbors' = UpdatePeerReachability(local, Pruned(neighbors))
        /\ changed' = (changed \/ AgedOut(neighbors) # {})
    BY <1>4 DEF PruneNeighbors, SomeAgedOut, settings, table, history
  <2>2. /\ SameView(Pruned(neighbors), neighbors')
        /\ Classified(local, neighbors')
    BY <1>0, <2>1, TableSteps, UpdateClassifies
  <2>3. ~changed' /\ ~failed' => Settled'
    <3> SUFFICES ASSUME ~changed', ~failed'
                 PROVE  Settled'
      OBVIOUS
    <3>1. AgedOut(neighbors) = {} /\ ~changed /\ ~failed
      BY <2>1
    <3>2. SameView(neighbors, neighbors')
      BY <1>0, <2>2, <3>1, PrunedShrinks
    <3>3. Settled
      BY <2>1, <3>1 DEF PolicyInv, Checking
    <3>. QED  BY <2>1, <3>2, <3>3, ViewKeeps
  <2>4. Classified(local, neighbors)'
    BY <2>1, <2>2 DEF Classified
  <2>. QED  BY <2>1, <2>3, <2>4 DEF PolicyInv, Checking, Reporting
<1>5. CASE Decide
  <2>1. /\ UNCHANGED <<local, baseFlows, peerFlows, neighbors, failed>>
        /\ pc = "decide"
        /\ pc' = "apply" \/ (pc' = "poll" /\ ~changed)
    BY <1>5 DEF Decide, settings, table, history
  <2>2. Settled' <=> Settled
    BY <2>1, PolicyQuiet
  <2>. QED  BY <2>1, <2>2 DEF PolicyInv, Checking, Reporting
<1>6. CASE ClearFlows
  <2>1. /\ UNCHANGED local
        /\ neighbors' = UpdatePeerReachability(local, neighbors)
        /\ baseFlows' = {} /\ peerFlows' = {}
        /\ pc' = "base" /\ cursor' = 1
    BY <1>6 DEF ClearFlows, Reclassified, settings
  <2>2. Classified(local, neighbors)'
    BY <1>0, <2>1, UpdateClassifies DEF Classified
  <2>3. baseFlows' = FirstGroups(cursor' - 1)
    BY <2>1 DEF FirstGroups
  <2>. QED  BY <2>1, <2>2, <2>3 DEF PolicyInv, Checking, Reporting, FirstGroups
<1>7. CASE AddBaseFlows
  <2>1. /\ UNCHANGED <<local, peerFlows, neighbors>>
        /\ pc = "base" /\ cursor \in 1 .. 3
        /\ baseFlows' = baseFlows \cup {BaseGroups[cursor]}
        /\ \/ cursor < 3 /\ cursor' = cursor + 1 /\ pc' = "base"
           \/ cursor = 3 /\ cursor' = 1 /\ pc' = "peers"
    BY <1>7 DEF AddBaseFlows, TypeOK, settings
  <2>2. /\ baseFlows = FirstGroups(cursor - 1) /\ peerFlows = {}
        /\ Classified(local, neighbors)
    BY <2>1 DEF PolicyInv
  <2>3. baseFlows' = FirstGroups(cursor)
    BY <2>1, <2>2, FlowTypes
  <2>4. Classified(local, neighbors)'
    BY <2>1, <2>2, PolicyQuiet DEF Classified
  <2>5. CASE cursor < 3
    <3>1. baseFlows' = FirstGroups(cursor' - 1)
      BY <2>1, <2>3, <2>5
    <3>. QED
      BY <2>1, <2>2, <2>4, <2>5, <3>1 DEF PolicyInv, Checking, Reporting
  <2>6. CASE cursor = 3
    <3>2. FlowsSoFar' = {}
      BY <2>1, <2>6, FlowsBySlot DEF FlowsSoFar
    <3>. QED
      BY <2>1, <2>2, <2>3, <2>4, <2>6, <3>2 DEF PolicyInv, Checking, Reporting
  <2>. QED  BY <2>1, <2>5, <2>6
<1>8. CASE AddPeerWhitelist
  <2>1. /\ UNCHANGED <<local, baseFlows, neighbors, pc>> /\ pc = "peers"
    BY <1>8 DEF AddPeerWhitelist, settings
  <2>2. peerFlows' = FlowsSoFar'
    BY <1>8, OneMoreSlot
  <2>3. Classified(local, neighbors)'
    BY <2>1 DEF PolicyInv, Classified
  <2>. QED  BY <2>1, <2>2, <2>3 DEF PolicyInv, Checking, Reporting
<1>9. CASE PolicyApplied
  <2>1. /\ UNCHANGED <<local, baseFlows, peerFlows, neighbors>>
        /\ pc = "peers" /\ cursor \notin Slots
        /\ pc' = "trunc" /\ ret' # "decide"
    BY <1>9 DEF PolicyApplied, table
  <2>2. cursor = NEIGHBOR_MAX + 1
    BY <2>1, PolicyAssumption DEF TypeOK, Slots
  <2>4. FlowsSoFar = Whitelist(local, neighbors)
    BY <2>1, <2>2, FlowsBySlot DEF FlowsSoFar, PolicyInv
  <2>5. Settled
    BY <2>1, <2>4 DEF PolicyInv, Settled
  <2>6. Settled' /\ Classified(local, neighbors)'
    BY <2>1, <2>5, PolicyQuiet DEF PolicyInv
  <2>. QED  BY <2>1, <2>6 DEF PolicyInv, Checking, Reporting
<1>10. CASE TruncateStatus \/ WriteStatus \/ StatusFails
  <2>1. /\ UNCHANGED <<local, baseFlows, peerFlows, neighbors, changed,
                       failed, ret>>
        /\ pc \in {"trunc", "write"}
        /\ pc' = "write" \/ pc' = ret
        /\ ret \in {"open", "poll", "decide"}
    BY <1>10 DEF TruncateStatus, WriteStatus, StatusFails, settings, table,
       history, TypeOK
  <2>2. /\ Settled' <=> Settled
        /\ Classified(local, neighbors)'
    BY <2>1, PolicyQuiet DEF PolicyInv
  <2>. QED  BY <2>1, <2>2 DEF PolicyInv, Checking, Reporting
<1>11. CASE ReceiveProbe
  <2>1. /\ pc = "poll" /\ pc' = "tx"
        /\ UNCHANGED <<local, baseFlows, peerFlows, failed>>
    BY <1>11 DEF ReceiveProbe, IgnoreFrame, RefreshNeighbor, AddNeighbor,
       TableFull, FrameArrives, settings, table, history
  <2>2. changed' \/ SameView(neighbors, neighbors')
    BY <1>11, FrameNoticed
  <2>3. ~failed' /\ ~changed' => Settled'
    BY <2>1, <2>2, ViewKeeps DEF PolicyInv
  <2>. QED  BY <2>1, <2>3 DEF PolicyInv, Checking, Reporting
<1>12. CASE ClearFlowsFails \/ AddBaseFlowsFails \/ AddPeerWhitelistFails
  <2>1. ApplyFails
    BY <1>12 DEF ClearFlowsFails, AddBaseFlowsFails, AddPeerWhitelistFails
  <2>2. Exit \/ (pc' = "poll" /\ failed')
    BY <2>1 DEF ApplyFails
  <2>. QED  BY <1>1, <2>2 DEF PolicyInv, Checking, Reporting
<1>13. CASE \E c \in LocalConfigs \cup {Refused} : ReplaceConfig(c)
  <2>1. UNCHANGED <<local, baseFlows, peerFlows, neighbors, changed, failed,
                    pc, ret, cursor>>
    BY <1>13 DEF ReplaceConfig, control, settings, table, history
  <2>2. /\ Settled' <=> Settled
        /\ Classified(local, neighbors)' <=> Classified(local, neighbors)
    BY <2>1, PolicyQuiet
  <2>3. FlowsSoFar' = FlowsSoFar
    BY <2>1 DEF FlowsSoFar
  <2>. QED  BY <2>1, <2>2, <2>3 DEF PolicyInv, Checking, Reporting
<1>14. CASE Tick
  <2>1. UNCHANGED <<local, baseFlows, peerFlows, changed, failed, pc, ret,
                    cursor>>
    BY <1>14 DEF Tick, control, settings, table, history
  <2>2. /\ SameView(neighbors, neighbors')
        /\ Classified(local, neighbors) => Classified(local, neighbors)'
        /\ FlowsSoFar' = FlowsSoFar
    BY <1>14, TickKeeps
  <2>3. Settled' <=> Settled
    BY <2>1, <2>2, ViewKeeps
  <2>. QED  BY <2>1, <2>2, <2>3 DEF PolicyInv, Checking, Reporting
<1>15. CASE UNCHANGED vars
  <2>1. UNCHANGED <<local, baseFlows, peerFlows, neighbors, changed, failed,
                    pc, ret, cursor>>
    BY <1>15 DEF vars, control, settings, table, history
  <2>2. /\ Settled' <=> Settled
        /\ Classified(local, neighbors)' <=> Classified(local, neighbors)
    BY <2>1, PolicyQuiet
  <2>3. FlowsSoFar' = FlowsSoFar
    BY <2>1 DEF FlowsSoFar
  <2>. QED  BY <2>1, <2>2, <2>3 DEF PolicyInv, Checking, Reporting
<1>16. LoadRefused \/ Stop => Exit
  BY DEF LoadRefused, Stop
<1>. QED
  BY <1>1, <1>2, <1>3, <1>4, <1>5, <1>6, <1>7, <1>8, <1>9, <1>10, <1>11,
     <1>12, <1>13, <1>14, <1>15, <1>16
  DEF Next, Run, Round, Apply, Failures, Environment

LEMMA PolicyInvariant == Spec => []PolicyInv
BY PolicyInit, PolicyStep, TypeCorrect, PTL DEF Spec

(* Whenever the daemon waits and its last attempt to program OVS did not   *)
(* fail, the flow table holds all base flows and exactly the whitelist of  *)
(* the reference rule.                                                     *)
THEOREM FlowTableInSync == Spec => []FlowsInSync
<1>1. PolicyInv => FlowsInSync
  BY DEF PolicyInv, FlowsInSync, Settled
<1>. QED  BY <1>1, PolicyInvariant, PTL

(* No flow is ever added that the rule does not admit at that moment.      *)
THEOREM NothingElseAdded == Spec => OnlyAdmittedAdded
<1> DEFINE Adds == peerFlows' \ peerFlows \subseteq Whitelist(local, neighbors)
<1>1. TypeOK /\ PolicyInv /\ [Next]_vars => [Adds]_vars
  <2> SUFFICES ASSUME TypeOK, PolicyInv, [Next]_vars
               PROVE  Adds
    OBVIOUS
  <2>1. CASE AddPeerWhitelist \/ AddPeerWhitelistFails
    <3>1. Reachable(neighbors) = Admissible(local, neighbors)
      BY <2>1, ReachableAdmissible DEF PolicyInv, AddPeerWhitelist,
         AddPeerWhitelistFails
    <3>2. \A k \in 0 .. 4 : FirstPeerFlows(local, neighbors[cursor].cfg, k)
                             \subseteq PeerFlows(local, neighbors[cursor].cfg)
      BY DEF FirstPeerFlows, PeerFlows
    <3>3. \/ peerFlows' = peerFlows
          \/ /\ cursor \in Reachable(neighbors)
             /\ peerFlows' \ peerFlows
                  \subseteq PeerFlows(local, neighbors[cursor].cfg)
      <4>1. CASE AddPeerWhitelist
        BY <4>1 DEF AddPeerWhitelist
      <4>2. CASE AddPeerWhitelistFails
        <5>1. PICK k \in 0 .. 3 :
                peerFlows' = peerFlows \cup
                             FirstPeerFlows(local, neighbors[cursor].cfg, k)
          BY <4>2 DEF AddPeerWhitelistFails
        <5>2. FirstPeerFlows(local, neighbors[cursor].cfg, k)
                \subseteq PeerFlows(local, neighbors[cursor].cfg)
          BY <3>2
        <5>. QED  BY <4>2, <5>1, <5>2 DEF AddPeerWhitelistFails
      <4>. QED  BY <2>1, <4>1, <4>2
    <3>. QED  BY <3>1, <3>3 DEF Whitelist
  <2>2. CASE ~(AddPeerWhitelist \/ AddPeerWhitelistFails)
    <3>1. peerFlows' \subseteq peerFlows
      <4>1. CASE Run
        BY <2>2, <4>1 DEF Run, Round, Apply, Start, LoadConfig, LoadRefused,
           ReadConfigStat, OpenSocket, PollTimeout, SendProbe, ProbeNotDue,
           CheckNotDue, ConfigStatChanged, ReloadConfig, PruneNeighbors,
           Decide, ClearFlows, AddBaseFlows, PolicyApplied, TruncateStatus,
           WriteStatus, table
      <4>2. CASE ReceiveProbe
        BY <4>2 DEF ReceiveProbe, IgnoreFrame, RefreshNeighbor, AddNeighbor,
           TableFull, FrameArrives, table
      <4>3. CASE Failures
        BY <2>2, <4>3 DEF Failures, ClearFlowsFails, AddBaseFlowsFails,
           StatusFails, Stop, table
      <4>4. CASE Environment
        BY <4>4 DEF Environment, ReplaceConfig, Tick, table
      <4>5. CASE UNCHANGED vars
        BY <4>5 DEF vars, table
      <4>. QED  BY <4>1, <4>2, <4>3, <4>4, <4>5 DEF Next
    <3>. QED  BY <3>1
  <2>. QED  BY <2>1, <2>2
<1>. QED
  BY <1>1, TypeCorrect, PolicyInvariant, PTL DEF Spec, OnlyAdmittedAdded

(* A peers.json that is not cut short is consistent in itself: a peer is   *)
(* reported reachable, with reason OK, exactly when the rule admits it     *)
(* given the rest of the file.                                             *)
THEOREM StatusFileSound == Spec => []StatusSound
<1>1. Init => StatusSound
  BY DEF Init, StatusSound
<1>2. TypeOK /\ PolicyInv /\ StatusSound /\ [Next]_vars => StatusSound'
  <2> SUFFICES ASSUME TypeOK, PolicyInv, StatusSound, [Next]_vars
               PROVE  StatusSound'
    OBVIOUS
  <2>1. CASE WriteStatus
    BY <2>1, StatusConsistent DEF WriteStatus, PolicyInv, StatusSound, TypeOK
  <2>2. CASE TruncateStatus
    BY <2>2 DEF TruncateStatus, StatusSound
  <2>3. CASE ~(WriteStatus \/ TruncateStatus)
    <3>1. UNCHANGED peersJson
      <4>1. CASE Run
        BY <2>3, <4>1 DEF Run, Round, Apply, Start, LoadConfig, LoadRefused,
           ReadConfigStat, OpenSocket, PollTimeout, SendProbe, ProbeNotDue,
           CheckNotDue, ConfigStatChanged, ReloadConfig, PruneNeighbors,
           Decide, ClearFlows, AddBaseFlows, AddPeerWhitelist, PolicyApplied
      <4>2. CASE ReceiveProbe
        BY <4>2 DEF ReceiveProbe, IgnoreFrame, RefreshNeighbor, AddNeighbor,
           TableFull, FrameArrives
      <4>3. CASE Failures
        BY <4>3 DEF Failures, ClearFlowsFails, AddBaseFlowsFails,
           AddPeerWhitelistFails, ApplyFails, StatusFails, Stop
      <4>4. CASE Environment
        BY <4>4 DEF Environment, ReplaceConfig, Tick
      <4>5. CASE UNCHANGED vars
        BY <4>5 DEF vars
      <4>. QED  BY <4>1, <4>2, <4>3, <4>4, <4>5 DEF Next
    <3>. QED  BY <3>1 DEF StatusSound
  <2>. QED  BY <2>1, <2>2, <2>3
<1>. QED  BY <1>1, <1>2, TypeCorrect, PolicyInvariant, PTL DEF Spec

(* peers.json reports the table and the configuration of this moment. *)
Reported ==
  peersJson \notin {Absent, Torn} /\ Reports(peersJson, local, neighbors)

(* StatusMatchesFlows becomes inductive with the rest of the round: the    *)
(* file is rewritten in every check and after every programming, and in    *)
(* between only a step that sets changed touches what it reports.          *)
StatusInv ==
  "status" \notin Env =>
    /\ pc = "open" => Reported
    /\ pc = "poll" /\ ~failed => Reported
    /\ /\ pc \in {"tx", "check", "reload", "prune", "decide"}
       /\ ~failed /\ ~changed
       => Reported

(* A step that leaves the file, the configuration and the view alone.      *)
LEMMA ReportedKept ==
  ASSUME UNCHANGED <<local, peersJson>>, SameView(neighbors, neighbors'),
         Reported
  PROVE  Reported'
BY ReportsView DEF Reported

LEMMA StatusStep == TypeOK /\ StatusInv /\ [Next]_vars => StatusInv'
<1> SUFFICES ASSUME TypeOK, StatusInv, [Next]_vars, "status" \notin Env
             PROVE  StatusInv'
  BY DEF StatusInv
<1>0. neighbors \in Table /\ local \in RadioConfig
  BY DEF TypeOK
<1>1. CASE Exit \/ Start \/ LoadConfig \/ ReadConfigStat
  BY <1>1 DEF Exit, Start, LoadConfig, ReadConfigStat, StatusInv
<1>2. CASE \/ OpenSocket \/ PollTimeout \/ SendProbe \/ ProbeNotDue
           \/ CheckNotDue \/ ConfigStatChanged \/ Decide
  <2>1. UNCHANGED <<local, peersJson, neighbors, failed>>
    BY <1>2 DEF OpenSocket, PollTimeout, SendProbe, ProbeNotDue, CheckNotDue,
       ConfigStatChanged, Decide, settings, history
  <2>2. Reported => Reported'
    BY <2>1, ReportedKept DEF SameView
  <2>3. \/ pc = "open" /\ pc' = "poll"
        \/ pc = "poll" /\ pc' = "tx"
        \/ /\ pc \in {"tx", "check"}
           /\ pc' \in {"check", "decide", "reload", "prune"}
           /\ changed' = changed
        \/ pc = "decide" /\ (pc' = "apply" \/ (pc' = "poll" /\ ~changed))
    BY <1>2 DEF OpenSocket, PollTimeout, SendProbe, ProbeNotDue, CheckNotDue,
       ConfigStatChanged, Decide
  <2>. QED  BY <2>1, <2>2, <2>3 DEF StatusInv
<1>3. CASE ReloadConfig
  <2>1. /\ UNCHANGED <<peersJson, neighbors, failed>>
        /\ pc = "reload" /\ pc' = "prune"
        /\ changed' \/ (changed' = changed /\ local' = local)
    BY <1>3 DEF ReloadConfig, history
  <2>2. ~changed' /\ Reported => Reported'
    BY <2>1, ReportedKept DEF SameView
  <2>. QED  BY <2>1, <2>2 DEF StatusInv
<1>4. CASE PruneNeighbors \/ Apply \/ TruncateStatus
  <2>1. pc' \in {"trunc", "base", "peers", "write"}
    BY <1>4 DEF PruneNeighbors, Apply, ClearFlows, AddBaseFlows,
       AddPeerWhitelist, PolicyApplied, TruncateStatus
  <2>. QED  BY <2>1 DEF StatusInv
<1>5. CASE WriteStatus
  <2>1. /\ UNCHANGED <<local, neighbors>>
        /\ peersJson' = StatusOf(local, neighbors)
    BY <1>5 DEF WriteStatus, settings
  <2>2. peersJson' \notin {Absent, Torn}
    BY <1>0, <2>1, StatusType, CklAssumption
  <2>3. Reported'
    BY <1>0, <2>1, <2>2, StatusReports DEF Reported
  <2>. QED  BY <2>3 DEF StatusInv
<1>6. CASE StatusFails
  BY <1>6 DEF StatusFails, MayFail
<1>7. CASE ReceiveProbe
  <2>1. /\ pc = "poll" /\ pc' = "tx"
        /\ UNCHANGED <<local, peersJson, failed>>
    BY <1>7 DEF ReceiveProbe, IgnoreFrame, RefreshNeighbor, AddNeighbor,
       TableFull, FrameArrives, settings, history
  <2>2. changed' \/ SameView(neighbors, neighbors')
    BY <1>7, FrameNoticed
  <2>. QED  BY <2>1, <2>2, ReportedKept DEF StatusInv
<1>8. CASE ClearFlowsFails \/ AddBaseFlowsFails \/ AddPeerWhitelistFails
  <2>1. ApplyFails
    BY <1>8 DEF ClearFlowsFails, AddBaseFlowsFails, AddPeerWhitelistFails
  <2>2. Exit \/ (pc' = "poll" /\ failed')
    BY <2>1 DEF ApplyFails
  <2>. QED  BY <1>1, <2>2 DEF StatusInv
<1>9. CASE Environment \/ UNCHANGED vars
  <2>1. /\ UNCHANGED <<local, peersJson, changed, failed, pc>>
        /\ SameView(neighbors, neighbors')
    <3>1. CASE Tick
      BY <3>1, TickKeeps DEF Tick, control, settings, history
    <3>2. CASE \E c \in LocalConfigs \cup {Refused} : ReplaceConfig(c)
      BY <3>2 DEF ReplaceConfig, control, settings, history, SameView
    <3>3. CASE UNCHANGED vars
      BY <3>3 DEF vars, control, settings, history, SameView
    <3>. QED  BY <1>9, <3>1, <3>2, <3>3 DEF Environment
  <2>. QED  BY <2>1, ReportedKept DEF StatusInv
<1>10. LoadRefused \/ Stop => Exit
  BY DEF LoadRefused, Stop
<1>. QED
  BY <1>1, <1>2, <1>3, <1>4, <1>5, <1>6, <1>7, <1>8, <1>9, <1>10
  DEF Next, Run, Round, Failures

(* Whenever the daemon waits and nothing failed, peers.json is complete    *)
(* and the traffic between the local node and the peers it reports         *)
(* reachable is exactly the traffic the flow table admits.                 *)
THEOREM StatusTellsFlows == Spec => []StatusMatchesFlows
<1>1. Init => StatusInv
  BY DEF Init, StatusInv
<1>2. PolicyInv /\ StatusSound /\ StatusInv => StatusMatchesFlows
  <2> SUFFICES ASSUME PolicyInv, StatusSound, StatusInv,
                      pc = "poll", ~failed, "status" \notin Env
               PROVE  /\ peersJson \notin {Absent, Torn}
                      /\ peerFlows =
                           UNION {PeerFlows(peersJson.local,
                                            peersJson.peers[i].cfg) :
                                    i \in ReportedReachable(peersJson)}
    BY DEF StatusMatchesFlows
  <2>1. Reported /\ Settled
    BY DEF StatusInv, PolicyInv
  <2>2. Consistent(peersJson)
    BY <2>1 DEF StatusSound, Reported
  <2>. QED
    BY <2>1, <2>2, ReportedFlows DEF Reported, Settled
<1>. QED
  BY <1>1, <1>2, StatusStep, TypeCorrect, PolicyInvariant, StatusFileSound, PTL
  DEF Spec

-----------------------------------------------------------------------------
(* The configuration.                                                      *)

(* StatVouches is inductive once the time between the load and the stat of *)
(* start-up is added.                                                      *)
StatInv ==
  {"startup_write", "same_stamp"} \cap Env = {} =>
    /\ pc = "stat" => local = cfgFile.content
    /\ pc \notin {"off", "load", "stat", "reload"} /\ cfgStat = cfgFile.stamp
         => cfgFile.content \in {local, Refused}

(* While the file shows the remembered stat, it holds the configuration in *)
(* force, or one that was refused: no change is ever taken for an old one. *)
THEOREM StatIsHonest == Spec => []StatVouches
<1>1. Init => StatInv
  BY DEF Init, StatInv
<1>2. TypeOK /\ StatInv /\ [Next]_vars => StatInv'
  <2> SUFFICES ASSUME TypeOK, StatInv, [Next]_vars
               PROVE  StatInv'
    OBVIOUS
  <2>1. CASE Exit \/ Start
    BY <2>1 DEF Exit, Start, StatInv
  <2>2. CASE LoadConfig \/ ReadConfigStat
    BY <2>2 DEF LoadConfig, ReadConfigStat, StatInv
  <2>3. CASE ReloadConfig \/ ConfigStatChanged
    BY <2>3 DEF ReloadConfig, Adopts, ConfigStatChanged, StatInv
  <2>4. CASE \E c \in LocalConfigs \cup {Refused} : ReplaceConfig(c)
    <3>1. /\ pc = "stat" => "startup_write" \in Env
          /\ cfgFile'.stamp # cfgStat \/ "same_stamp" \in Env
          /\ UNCHANGED <<pc, cfgStat>>
      BY <2>4 DEF ReplaceConfig, control, settings
    <3>. QED  BY <3>1 DEF StatInv
  <2>5. CASE /\ UNCHANGED <<local, cfgStat, cfgFile>>
             /\ \/ pc \in {"off", "load", "stat"} /\ pc' = pc
                \/ /\ pc \notin {"off", "load", "stat", "reload"}
                   /\ pc' # "stat"
                \/ pc = "reload" /\ pc' = "reload"
    BY <2>5 DEF StatInv
  <2>6. \/ Exit \/ Start \/ LoadConfig \/ ReadConfigStat
        \/ ReloadConfig \/ ConfigStatChanged
        \/ \E c \in LocalConfigs \cup {Refused} : ReplaceConfig(c)
        \/ /\ UNCHANGED <<local, cfgStat, cfgFile>>
           /\ \/ pc \in {"off", "load", "stat"} /\ pc' = pc
              \/ /\ pc \notin {"off", "load", "stat", "reload"}
                 /\ pc' # "stat"
              \/ pc = "reload" /\ pc' = "reload"
    <3> USE DEF settings
    <3>0. ret \in {"open", "poll", "decide"}
      BY DEF TypeOK
    <3>1. CASE Run
      BY <3>0, <3>1 DEF Run, Round, Apply, LoadRefused, OpenSocket, PollTimeout,
         SendProbe, ProbeNotDue, CheckNotDue, PruneNeighbors, Decide,
         ClearFlows, AddBaseFlows, AddPeerWhitelist, PolicyApplied, TruncateStatus, WriteStatus
    <3>2. CASE ReceiveProbe
      BY <3>2 DEF ReceiveProbe, IgnoreFrame, RefreshNeighbor, AddNeighbor,
         TableFull, FrameArrives
    <3>3. CASE Failures
      BY <3>0, <3>3 DEF Failures, ClearFlowsFails, AddBaseFlowsFails,
         AddPeerWhitelistFails, ApplyFails, StatusFails, Stop
    <3>4. CASE Tick \/ UNCHANGED vars
      BY <3>4 DEF Tick, vars, control
    <3>. QED  BY <3>1, <3>2, <3>3, <3>4 DEF Next, Environment
  <2>. QED  BY <2>1, <2>2, <2>3, <2>4, <2>5, <2>6
<1>3. StatInv => StatVouches
  BY DEF StatInv, StatVouches
<1>. QED  BY <1>1, <1>2, <1>3, TypeCorrect, PTL DEF Spec

-----------------------------------------------------------------------------
(* The abstract radio.                                                     *)

(* The file is completed only after it was truncated. *)
TornFirst == pc = "write" => peersJson = Torn

LEMMA TruncatedFirst == Spec => []TornFirst
<1>1. Init => TornFirst
  BY DEF Init, TornFirst
<1>2. TypeOK /\ TornFirst /\ [Next]_vars => TornFirst'
  <2> SUFFICES ASSUME TypeOK, TornFirst, [Next]_vars
               PROVE  TornFirst'
    OBVIOUS
  <2>0. ret # "write" /\ pc \in Locations
    BY DEF TypeOK
  <2>1. CASE Run
    BY <2>0, <2>1 DEF Run, Round, Apply, Start, LoadConfig, LoadRefused,
       ReadConfigStat, OpenSocket, PollTimeout, SendProbe, ProbeNotDue,
       CheckNotDue, ConfigStatChanged, ReloadConfig, PruneNeighbors, Decide,
       ClearFlows, AddBaseFlows, AddPeerWhitelist, PolicyApplied,
       TruncateStatus, WriteStatus, Exit, settings, TornFirst
  <2>2. CASE ReceiveProbe
    BY <2>2 DEF ReceiveProbe, IgnoreFrame, RefreshNeighbor, AddNeighbor, TableFull,
       FrameArrives, TornFirst
  <2>3. CASE Failures
    BY <2>0, <2>3 DEF Failures, ClearFlowsFails, AddBaseFlowsFails, AddPeerWhitelistFails,
       ApplyFails, StatusFails, Stop, Exit, settings, TornFirst
  <2>4. CASE Environment
    BY <2>4 DEF Environment, ReplaceConfig, Tick, control, TornFirst
  <2>5. CASE UNCHANGED vars
    BY <2>5 DEF vars, control, TornFirst
  <2>. QED  BY <2>1, <2>2, <2>3, <2>4, <2>5 DEF Next
<1>. QED  BY <1>1, <1>2, TypeCorrect, PTL DEF Spec

(* The rule the abstract radio follows is that of Membership. *)
LEMMA SameRule ==
  /\ \A loc, h : AbstractRadio!Picture(loc, h) = Rule!Picture(loc, h)
  /\ \A c, h : AbstractRadio!Hearing(h, c) = Rule!Hearing(h, c)
  /\ AbstractRadio!RadioConfig = RadioConfig
<1>0. \A S : AbstractRadio!Cardinality(S) = Rule!Cardinality(S)
  BY DEF AbstractRadio!Cardinality, Rule!Cardinality
<1>1. \A loc, h : AbstractRadio!Matching(loc, h) = Rule!Matching(loc, h)
  BY DEF AbstractRadio!Matching, Rule!Matching
<1>2. \A loc, h : AbstractRadio!MasterCount(loc, h) = Rule!MasterCount(loc, h)
  BY <1>0, <1>1 DEF AbstractRadio!MasterCount, Rule!MasterCount
<1>3. \A loc, h : AbstractRadio!Admitted(loc, h) = Rule!Admitted(loc, h)
  BY <1>1, <1>2 DEF AbstractRadio!Admitted, Rule!Admitted
<1>4. \A loc, h, c : AbstractRadio!Reason(loc, h, c) = Rule!Reason(loc, h, c)
  BY <1>2 DEF AbstractRadio!Reason, Rule!Reason
<1>5. \A loc, h : AbstractRadio!Picture(loc, h) = Rule!Picture(loc, h)
  BY <1>3, <1>4 DEF AbstractRadio!Picture, Rule!Picture
<1>. QED
  BY <1>5 DEF AbstractRadio!Hearing, Rule!Hearing, AbstractRadio!RadioConfig,
     RadioConfig

(* The daemon implements the abstract radio: every step of the thread is   *)
(* one of the radio's, or none, whatever frames, reloads, failures of OVS  *)
(* and restarts do to it.                                                  *)
THEOREM RadioImplemented == Spec => ImplementsRadio
<1>1. Init => AbstractRadio!Init
  BY CklAssumption, SameRule DEF Init, AbstractRadio!Init, HeardFrom,
     EmptyTable, Used
<1>2. TypeOK /\ OneSlotPerNode /\ PolicyInv /\ TornFirst /\ [Next]_vars
        => [AbstractRadio!Next]_(AbstractRadio!vars)
  <2> SUFFICES ASSUME TypeOK, OneSlotPerNode, PolicyInv, TornFirst, [Next]_vars
               PROVE  [AbstractRadio!Next]_(AbstractRadio!vars)
    OBVIOUS
  <2>0. neighbors \in Table /\ local \in RadioConfig
    BY DEF TypeOK
  <2>1. UNCHANGED <<local, neighbors, peersJson>>
          => UNCHANGED AbstractRadio!vars
    BY DEF AbstractRadio!vars, HeardFrom, PictureIn
  <2>2. CASE ~ReceiveProbe /\ UNCHANGED <<local, peersJson>>
    <3>1. HeardFrom(neighbors') \subseteq HeardFrom(neighbors)
      BY <2>2, NoFrameShrinks, ShrinksHeard
    <3>2. AbstractRadio!Forget
      BY <2>2, <3>1 DEF AbstractRadio!Forget, PictureIn, HeardFrom
    <3>. QED  BY <3>2 DEF AbstractRadio!Next
  <2>3. CASE ReceiveProbe
    <3>1. UNCHANGED <<local, peersJson>>
      BY <2>3 DEF ReceiveProbe, IgnoreFrame, RefreshNeighbor, AddNeighbor,
         TableFull, FrameArrives, settings
    <3>2. CASE UNCHANGED neighbors
      BY <2>1, <3>1, <3>2
    <3>3. ASSUME NEW f \in Frames, NEW s \in Slots,
                 RefreshNeighbor(f, s) \/ AddNeighbor(f, s)
          PROVE  AbstractRadio!Next
      <4>1. f \in Broadcast /\ f.cfg \in RadioConfig
        BY CklAssumption DEF Broadcast
      <4>2. \/ /\ FindNeighbor(neighbors, s, f.cfg.node)
               /\ neighbors' = Refreshed(neighbors, s, f)
            \/ /\ Unknown(neighbors, f.cfg.node)
               /\ AllocNeighbor(neighbors, s)
               /\ neighbors' = Added(neighbors, s, f)
        BY <3>3 DEF RefreshNeighbor, AddNeighbor
      <4>3. HeardFrom(neighbors') = Rule!Hearing(HeardFrom(neighbors), f.cfg)
        BY <2>0, <4>1, <4>2, FrameHeard DEF OneSlotPerNode
      <4>4. AbstractRadio!Hear(f.cfg)
        BY <3>1, <3>3, <4>3, SameRule DEF AbstractRadio!Hear, PictureIn,
           HeardFrom, RefreshNeighbor, AddNeighbor
      <4>. QED  BY <4>1, <4>4, SameRule DEF AbstractRadio!Next
    <3>. QED
      BY <2>3, <3>2, <3>3 DEF ReceiveProbe, IgnoreFrame, TableFull
  <2>4. CASE LoadConfig \/ ReloadConfig
    <3>1. UNCHANGED <<neighbors, peersJson>> /\ local' \in RadioConfig
      BY <2>0, <2>4, CklAssumption DEF LoadConfig, ReloadConfig, Adopts, TypeOK
    <3>2. AbstractRadio!Adopt
      BY <3>1, SameRule DEF AbstractRadio!Adopt, HeardFrom, PictureIn
    <3>. QED  BY <3>2 DEF AbstractRadio!Next
  <2>5. CASE TruncateStatus
    <3>1. AbstractRadio!Truncate
      BY <2>5 DEF TruncateStatus, AbstractRadio!Truncate, settings, HeardFrom
    <3>. QED  BY <3>1 DEF AbstractRadio!Next
  <2>6. CASE WriteStatus
    <3>1. /\ pc = "write" /\ peersJson = Torn
          /\ peersJson' = StatusOf(local, neighbors)
          /\ UNCHANGED <<local, neighbors>>
      BY <2>6 DEF WriteStatus, settings, TornFirst
    <3>2. PictureIn(peersJson') = Rule!Picture(local, HeardFrom(neighbors))
      BY <2>0, <3>1, PictureGiven DEF PolicyInv, OneSlotPerNode
    <3>3. peersJson' \notin {Absent, Torn}
      BY <2>0, <3>1, StatusType, CklAssumption
    <3>4. AbstractRadio!Write
      BY <3>1, <3>2, <3>3, SameRule DEF AbstractRadio!Write, HeardFrom
    <3>. QED  BY <3>4 DEF AbstractRadio!Next
  <2>7. \/ ReceiveProbe \/ LoadConfig \/ ReloadConfig
        \/ TruncateStatus \/ WriteStatus
        \/ UNCHANGED <<local, peersJson>>
    <3>1. CASE Run
      BY <3>1 DEF Run, Round, Apply, Start, LoadConfig, LoadRefused,
       ReadConfigStat, OpenSocket, PollTimeout, SendProbe, ProbeNotDue,
       CheckNotDue, ConfigStatChanged, ReloadConfig, PruneNeighbors, Decide,
       ClearFlows, AddBaseFlows, AddPeerWhitelist, PolicyApplied,
       TruncateStatus, WriteStatus, Exit, settings
    <3>2. CASE Failures
      BY <3>2 DEF Failures, ClearFlowsFails, AddBaseFlowsFails, AddPeerWhitelistFails,
       ApplyFails, StatusFails, Stop, Exit, settings
    <3>3. CASE Environment \/ UNCHANGED vars
      BY <3>3 DEF Environment, ReplaceConfig, Tick, settings, vars
    <3>. QED  BY <3>1, <3>2, <3>3 DEF Next
  <2>. QED  BY <2>2, <2>3, <2>4, <2>5, <2>6, <2>7
<1>. QED
  BY <1>1, <1>2, TypeCorrect, SlotsUnique, PolicyInvariant, TruncatedFirst, PTL
  DEF Spec, ImplementsRadio, AbstractRadio!Spec

=============================================================================
