-------------------------- MODULE PeerPolicyProofs --------------------------
(***************************************************************************)
(* Lemmas about the operators of PeerPolicy, for every table size: the     *)
(* code's classification agrees with the reference rule, the table keeps   *)
(* its type and its key, and flows are accounted for slot by slot.         *)
(***************************************************************************)
EXTENDS PeerPolicy, FiniteSetTheorems, TLAPS

-----------------------------------------------------------------------------
(* The policy.                                                             *)

(* The table has finitely many used slots. *)
LEMMA UsedFinite ==
  ASSUME NEW nbrs
  PROVE  /\ Used(nbrs) \subseteq Slots
         /\ IsFiniteSet(Used(nbrs))
<1>1. IsFiniteSet(Slots)
  BY FS_Interval, PolicyAssumption DEF Slots
<1>2. Used(nbrs) \subseteq Slots
  BY DEF Used
<1>. QED  BY <1>1, <1>2, FS_Subset

(* count_matching_masters counts the masters of the reference rule's       *)
(* subnet: the local node when it is a master, and the matching masters    *)
(* among the neighbours.                                                   *)
LEMMA MastersCounted ==
  ASSUME NEW loc \in RadioConfig, NEW nbrs \in Table
  PROVE  /\ CountMatchingMasters(loc, nbrs)
              = Cardinality(SubnetMasters(loc, nbrs))
         /\ CountMatchingMasters(loc, nbrs) \in Nat
<1> DEFINE M == MatchingMasters(loc, nbrs)
<1>1. /\ IsFiniteSet(M) /\ 0 \notin M
      /\ Cardinality(M) \in Nat
  <2>1. M \subseteq Used(nbrs)
    BY DEF MatchingMasters
  <2>2. 0 \notin Slots
    BY DEF Slots
  <2>. QED  BY <2>1, <2>2, UsedFinite, FS_Subset, FS_CardinalityType
<1>2. SubnetMasters(loc, nbrs) = IF loc.prime THEN M \cup {0} ELSE M
  <2>1. 0 \notin Used(nbrs)
    BY UsedFinite DEF Slots
  <2>. QED
    BY <2>1 DEF SubnetMasters, InSubnet, MemberConfig, MatchingMasters,
                SameSubnetParams
<1>3. CASE loc.prime
  <2>1. Cardinality(M \cup {0}) = Cardinality(M) + 1
    BY <1>1, FS_AddElement
  <2>. QED
    BY <1>1, <1>2, <1>3, <2>1 DEF CountMatchingMasters
<1>4. CASE ~loc.prime
  BY <1>1, <1>2, <1>4 DEF CountMatchingMasters
<1>. QED  BY <1>3, <1>4

(* What update_peer_reachability may say of a neighbour. *)
ReasonGiven(loc, nbrs, i, r) ==
  LET same    == SameSubnetParams(loc, nbrs[i].cfg)
      masters == CountMatchingMasters(loc, nbrs)
  IN  \/ ~same /\ r = "PARAM_MISMATCH"
      \/ same /\ masters = 0 /\ r = "NO_MASTER"
      \/ same /\ masters > 1 /\ r = "MULTI_MASTER"
      \/ same /\ masters = 1 /\ r = "OK"

(* A neighbour's reason is OK exactly when the reference rule admits it.   *)
LEMMA ReasonCorrect ==
  ASSUME NEW loc \in RadioConfig, NEW nbrs \in Table, NEW i \in Used(nbrs)
  PROVE  /\ PeerReason(loc, nbrs, i) \in Reasons
         /\ PeerReason(loc, nbrs, i) = "OK" <=> i \in Admissible(loc, nbrs)
         /\ ReasonGiven(loc, nbrs, i, PeerReason(loc, nbrs, i))
<1> DEFINE same == SameSubnetParams(loc, nbrs[i].cfg)
           m == CountMatchingMasters(loc, nbrs)
<1>1. m \in Nat /\ m = Cardinality(SubnetMasters(loc, nbrs))
  BY MastersCounted
<1>2. i \in InSubnet(loc, nbrs) \ {0} <=> same
  <2>1. i # 0
    BY UsedFinite DEF Slots
  <2>. QED
    BY <2>1 DEF InSubnet, MemberConfig, SameSubnetParams
<1>3. i \in Admissible(loc, nbrs) <=> same /\ m = 1
  BY <1>1, <1>2 DEF Admissible
<1>4. \/ ~same /\ PeerReason(loc, nbrs, i) = "PARAM_MISMATCH"
      \/ same /\ m = 0 /\ PeerReason(loc, nbrs, i) = "NO_MASTER"
      \/ same /\ m > 1 /\ PeerReason(loc, nbrs, i) = "MULTI_MASTER"
      \/ same /\ m = 1 /\ PeerReason(loc, nbrs, i) = "OK"
  <2> HIDE DEF same, m
  <2>1. PeerReason(loc, nbrs, i) =
          CASE ~same           -> "PARAM_MISMATCH"
            [] same /\ m = 0 -> "NO_MASTER"
            [] same /\ m > 1 -> "MULTI_MASTER"
            [] same /\ m = 1 -> "OK"
    BY DEF PeerReason, same, m
  <2>. QED  BY <1>1, <2>1
<1>. QED  BY <1>3, <1>4 DEF Reasons, ReasonGiven

(* Two tables show the same view when the same slots are used with the     *)
(* same configurations; ages, addresses and verdicts are not part of it.   *)
SameView(n1, n2) ==
  /\ Used(n1) = Used(n2)
  /\ \A i \in Used(n1) : n1[i].cfg = n2[i].cfg

(* The rule depends on the view alone. *)
LEMMA ViewDecides ==
  ASSUME NEW loc, NEW n1, NEW n2, SameView(n1, n2)
  PROVE  /\ Admissible(loc, n1) = Admissible(loc, n2)
         /\ Whitelist(loc, n1) = Whitelist(loc, n2)
         /\ \A i \in Used(n1) : \A r :
              ReasonGiven(loc, n1, i, r) <=> ReasonGiven(loc, n2, i, r)
<1>1. 0 \notin Used(n1)
  BY UsedFinite DEF Slots
<1>2. \A i \in {0} \cup Used(n1) :
        MemberConfig(loc, n1, i) = MemberConfig(loc, n2, i)
  BY DEF MemberConfig, SameView
<1>3. InSubnet(loc, n1) = InSubnet(loc, n2)
  <2>1. Used(n1) = Used(n2)
    BY DEF SameView
  <2>2. \A i \in {0} \cup Used(n1) :
          MemberConfig(loc, n1, i).params = MemberConfig(loc, n2, i).params
    BY <1>2
  <2>. QED  BY <2>1, <2>2, Zenon DEF InSubnet
<1>4. SubnetMasters(loc, n1) = SubnetMasters(loc, n2)
  BY <1>2, <1>3 DEF SubnetMasters, InSubnet
<1>5. Admissible(loc, n1) = Admissible(loc, n2)
  BY <1>3, <1>4 DEF Admissible
<1>6. \A i \in Admissible(loc, n1) : i \in Used(n1)
  BY DEF Admissible, InSubnet
<1>7. \A i \in Admissible(loc, n1) :
        PeerFlows(loc, n1[i].cfg) = PeerFlows(loc, n2[i].cfg)
  BY <1>6 DEF SameView
<1>8. MatchingMasters(loc, n1) = MatchingMasters(loc, n2)
  BY DEF MatchingMasters, SameView
<1>9. CountMatchingMasters(loc, n1) = CountMatchingMasters(loc, n2)
  BY <1>8 DEF CountMatchingMasters
<1>10. \A i \in Used(n1) : \A r :
         ReasonGiven(loc, n1, i, r) <=> ReasonGiven(loc, n2, i, r)
  BY <1>9 DEF ReasonGiven, SameView
<1>. QED  BY <1>5, <1>7, <1>10 DEF Whitelist

(* What update_peer_reachability does to a table: it keeps the view and    *)
(* makes every verdict agree with the rule.                                *)
Classified(loc, nbrs) ==
  \A i \in Used(nbrs) :
    /\ nbrs[i].reachable <=> i \in Admissible(loc, nbrs)
    /\ nbrs[i].reason = "OK" <=> nbrs[i].reachable
    /\ ReasonGiven(loc, nbrs, i, nbrs[i].reason)

LEMMA UpdateClassifies ==
  ASSUME NEW loc \in RadioConfig, NEW nbrs \in Table
  PROVE  /\ UpdatePeerReachability(loc, nbrs) \in Table
         /\ SameView(nbrs, UpdatePeerReachability(loc, nbrs))
         /\ Classified(loc, UpdatePeerReachability(loc, nbrs))
<1> DEFINE u == UpdatePeerReachability(loc, nbrs)
           r(i) == PeerReason(loc, nbrs, i)
<1>1. ASSUME NEW i \in Used(nbrs)
      PROVE  /\ nbrs[i] \in Neighbor
             /\ u[i] = [nbrs[i] EXCEPT !.reachable = (r(i) = "OK"),
                                       !.reason = r(i)]
  BY <1>1, UsedFinite DEF UpdatePeerReachability, Used, Table, TableEntry
<1>2. ASSUME NEW i \in Slots, i \notin Used(nbrs)
      PROVE  u[i] = NoNeighbor
  BY <1>2 DEF UpdatePeerReachability
<1>3. ASSUME NEW i \in Used(nbrs)
      PROVE  /\ u[i] \in Neighbor
             /\ u[i].cfg = nbrs[i].cfg
             /\ u[i].reachable = (r(i) = "OK")
             /\ u[i].reason = r(i)
  <2>1. r(i) \in Reasons
    BY <1>3, ReasonCorrect
  <2> HIDE DEF r, u
  <2>. QED  BY <1>1, <1>3, <2>1 DEF Neighbor
<1>4. u \in Table
  <2>1. u = [i \in Slots |-> u[i]]
    BY DEF UpdatePeerReachability
  <2>2. \A i \in Slots : u[i] \in TableEntry
    BY <1>2, <1>3 DEF TableEntry
  <2> HIDE DEF u
  <2>. QED  BY <2>1, <2>2 DEF Table
<1>5. Used(u) = Used(nbrs)
  <2> HIDE DEF u
  <2>1. ASSUME NEW i \in Used(nbrs)
        PROVE  u[i] # NoNeighbor
    BY <1>3, <2>1, PolicyAssumption
  <2>. QED  BY <1>2, <2>1 DEF Used
<1>6. SameView(nbrs, u)
  <2> HIDE DEF u
  <2>. QED  BY <1>3, <1>5 DEF SameView
<1>7. /\ Admissible(loc, u) = Admissible(loc, nbrs)
      /\ \A i \in Used(nbrs) : \A x :
           ReasonGiven(loc, nbrs, i, x) <=> ReasonGiven(loc, u, i, x)
  BY <1>6, ViewDecides
<1>8. Classified(loc, u)
  <2> SUFFICES ASSUME NEW i \in Used(nbrs)
               PROVE  /\ u[i].reachable <=> i \in Admissible(loc, u)
                      /\ u[i].reason = "OK" <=> u[i].reachable
                      /\ ReasonGiven(loc, u, i, u[i].reason)
    BY <1>5 DEF Classified
  <2>1. /\ r(i) = "OK" <=> i \in Admissible(loc, nbrs)
        /\ ReasonGiven(loc, nbrs, i, r(i))
    BY ReasonCorrect
  <2> HIDE DEF u, r
  <2>. QED  BY <1>3, <1>7, <2>1
<1>. QED  BY <1>4, <1>6, <1>8

-----------------------------------------------------------------------------
(* The table.                                                              *)

(* The other ways the code changes the table keep its type. *)
LEMMA TableSteps ==
  ASSUME NEW nbrs \in Table
  PROVE  /\ EmptyTable \in Table
         /\ Pruned(nbrs) \in Table
         /\ Aged(nbrs) \in Table
<1>1. ASSUME NEW i \in Used(nbrs)
      PROVE  /\ nbrs[i] \in Neighbor
             /\ [nbrs[i] EXCEPT !.age = Older(@)] \in Neighbor
  <2>1. nbrs[i] \in Neighbor
    BY <1>1, UsedFinite DEF Used, Table, TableEntry
  <2>2. Older(nbrs[i].age) \in Nat
    BY <2>1 DEF Older, Neighbor
  <2>. QED  BY <2>1, <2>2 DEF Neighbor
<1>2. Aged(nbrs) \in Table
  BY <1>1 DEF Aged, Table, TableEntry
<1>3. EmptyTable \in Table /\ Pruned(nbrs) \in Table
  BY DEF EmptyTable, Pruned, Table, TableEntry
<1>. QED  BY <1>2, <1>3

(* A frame changes one slot, which then holds the frame's configuration. *)
LEMMA FrameEntry ==
  ASSUME NEW nbrs \in Table, NEW f \in Broadcast, NEW i \in Slots,
         NEW new,
         \/ i \in Used(nbrs) /\ new = Refreshed(nbrs, i, f)
         \/ new = Added(nbrs, i, f)
  PROVE  /\ new \in Table
         /\ \A j \in Slots : j # i => new[j] = nbrs[j]
         /\ i \in Used(new)
         /\ new[i].cfg = f.cfg
<1>1. f.cfg \in RadioConfig /\ f.mac \in Macs
  BY DEF Broadcast
<1>2. CASE i \in Used(nbrs) /\ new = Refreshed(nbrs, i, f)
  <2> DEFINE e == [nbrs[i] EXCEPT !.cfg = f.cfg, !.mac = f.mac, !.age = 0]
  <2>1. nbrs[i] \in Neighbor
    BY <1>2 DEF Used, Table, TableEntry
  <2>2. e \in Neighbor /\ e.cfg = f.cfg
    BY <1>1, <2>1 DEF Neighbor
  <2>3. new = [nbrs EXCEPT ![i] = e]
    BY <1>2 DEF Refreshed
  <2> HIDE DEF e
  <2>. QED  BY <2>2, <2>3, PolicyAssumption DEF Table, TableEntry, Used
<1>3. CASE new = Added(nbrs, i, f)
  <2> DEFINE e == [cfg |-> f.cfg, mac |-> f.mac, age |-> 0,
                   reachable |-> FALSE, reason |-> "OK"]
  <2>1. e \in Neighbor /\ e.cfg = f.cfg
    BY <1>1 DEF Neighbor, Reasons
  <2>2. new = [nbrs EXCEPT ![i] = e]
    BY <1>3 DEF Added
  <2> HIDE DEF e
  <2>. QED  BY <2>1, <2>2, PolicyAssumption DEF Table, TableEntry, Used
<1>. QED  BY <1>2, <1>3

(* The second table is the first with some slots freed. *)
Shrinks(n1, n2) ==
  /\ Used(n2) \subseteq Used(n1)
  /\ \A i \in Used(n2) : n2[i].cfg = n1[i].cfg

(* Ageing keeps the view and the verdicts. *)
LEMMA AgedKeeps ==
  ASSUME NEW nbrs \in Table
  PROVE  /\ SameView(nbrs, Aged(nbrs))
         /\ \A i \in Used(nbrs) : /\ Aged(nbrs)[i].reachable = nbrs[i].reachable
                                  /\ Aged(nbrs)[i].reason = nbrs[i].reason
<1> DEFINE a == Aged(nbrs)
<1>1. ASSUME NEW i \in Used(nbrs)
      PROVE  /\ a[i] # NoNeighbor
             /\ a[i].cfg = nbrs[i].cfg
             /\ a[i].reachable = nbrs[i].reachable
             /\ a[i].reason = nbrs[i].reason
  <2>1. nbrs[i] \in Neighbor /\ i \in Slots
    BY <1>1, UsedFinite DEF Used, Table, TableEntry
  <2>2. a[i] = [nbrs[i] EXCEPT !.age = Older(nbrs[i].age)]
    BY <1>1, <2>1 DEF Aged
  <2>3. Older(nbrs[i].age) \in Nat
    BY <2>1 DEF Older, Neighbor
  <2>4. a[i] \in Neighbor
    BY <2>1, <2>2, <2>3 DEF Neighbor
  <2>. QED  BY <2>1, <2>2, <2>4, PolicyAssumption DEF Neighbor
<1>2. Used(a) = Used(nbrs)
  <2>1. \A i \in Slots : i \notin Used(nbrs) => a[i] = NoNeighbor
    BY DEF Aged
  <2>. QED  BY <1>1, <2>1, Zenon DEF Used
<1>. QED  BY <1>1, <1>2 DEF SameView

(* Pruning frees the aged-out slots and nothing else. *)
LEMMA PrunedShrinks ==
  ASSUME NEW nbrs \in Table
  PROVE  /\ Shrinks(nbrs, Pruned(nbrs))
         /\ AgedOut(nbrs) = {} => Pruned(nbrs) = nbrs
<1>1. Used(Pruned(nbrs)) \subseteq Used(nbrs)
  BY DEF Pruned, Used
<1>2. \A i \in Used(Pruned(nbrs)) : Pruned(nbrs)[i].cfg = nbrs[i].cfg
  BY DEF Pruned, Used
<1>3. AgedOut(nbrs) = {} => Pruned(nbrs) = nbrs
  BY DEF Pruned, Table
<1>. QED  BY <1>1, <1>2, <1>3 DEF Shrinks

(* Freeing slots keeps the table keyed by node number. *)
LEMMA ShrinksKeyed ==
  ASSUME NEW n1, NEW n2, Shrinks(n1, n2), KeyedByNode(n1)
  PROVE  KeyedByNode(n2)
BY DEF Shrinks, KeyedByNode

(* So does a frame, which goes to the slot of its node or, when there is   *)
(* none, to a free slot.                                                   *)
LEMMA FrameKeyed ==
  ASSUME NEW nbrs \in Table, KeyedByNode(nbrs), NEW f \in Broadcast,
         NEW s \in Slots, NEW new,
         \/ /\ FindNeighbor(nbrs, s, f.cfg.node)
            /\ new = Refreshed(nbrs, s, f)
         \/ /\ Unknown(nbrs, f.cfg.node)
            /\ new = Added(nbrs, s, f)
  PROVE  KeyedByNode(new)
<1> SUFFICES ASSUME NEW i \in Used(new), NEW j \in Used(new),
                    new[i].cfg.node = new[j].cfg.node
             PROVE  i = j
  BY DEF KeyedByNode
<1>1. /\ \A k \in Slots : k # s => new[k] = nbrs[k]
      /\ new[s].cfg = f.cfg
  BY FrameEntry DEF FindNeighbor, Holds
<1>2. \A k \in Used(nbrs) : nbrs[k].cfg.node = f.cfg.node => k = s
  <2>1. CASE FindNeighbor(nbrs, s, f.cfg.node)
    BY <2>1 DEF FindNeighbor, Holds, KeyedByNode
  <2>2. CASE Unknown(nbrs, f.cfg.node)
    BY <2>2, UsedFinite DEF Unknown, Holds
  <2>. QED  BY <2>1, <2>2
<1>3. i \in Slots /\ j \in Slots
  BY UsedFinite
<1>4. \A k \in Used(new) : k # s => k \in Used(nbrs)
  BY <1>1, UsedFinite DEF Used
<1>. QED  BY <1>1, <1>2, <1>3, <1>4 DEF KeyedByNode

-----------------------------------------------------------------------------
(* Flows and the status file.                                              *)

(* When every verdict agrees with the rule, the reachable slots are the    *)
(* admissible ones.                                                        *)
LEMMA ReachableAdmissible ==
  ASSUME NEW loc, NEW nbrs, Classified(loc, nbrs)
  PROVE  Reachable(nbrs) = Admissible(loc, nbrs)
<1>1. Admissible(loc, nbrs) \subseteq Used(nbrs)
  BY DEF Admissible, InSubnet
<1>. QED  BY <1>1 DEF Reachable, Classified

(* The flows of the groups and of the peers are flows of the table. *)
LEMMA FlowTypes ==
  /\ \A k \in 0 .. 3 : FirstGroups(k) \subseteq BaseFlow
  /\ \A k \in 1 .. 3 : /\ BaseGroups[k] \in BaseFlow
                       /\ FirstGroups(k) = FirstGroups(k - 1) \cup {BaseGroups[k]}
  /\ \A loc, cfg \in RadioConfig : \A k \in 0 .. 4 :
       FirstPeerFlows(loc, cfg, k) \subseteq Flow
<1>1. \A k \in 1 .. 3 : BaseGroups[k] \in BaseFlow
  BY DEF BaseGroups, BaseFlow
<1>2. \A k \in 0 .. 3 : FirstGroups(k) \subseteq BaseFlow
  BY <1>1 DEF FirstGroups
<1>3. ASSUME NEW k \in 1 .. 3
      PROVE  FirstGroups(k) = FirstGroups(k - 1) \cup {BaseGroups[k]}
  <2>1. 1 .. k = (1 .. k - 1) \cup {k}
    OBVIOUS
  <2>. QED  BY <2>1, Zenon DEF FirstGroups
<1>4. ASSUME NEW loc \in RadioConfig, NEW cfg \in RadioConfig,
             NEW k \in 0 .. 4
      PROVE  FirstPeerFlows(loc, cfg, k) \subseteq Flow
  <2>1. loc.ip \in Ips /\ cfg.ip \in Ips
    BY DEF RadioConfig
  <2>2. \A f \in 1 .. k :
          Kinds[f] \in {"ip_out", "ip_in", "arp_out", "arp_in"}
    BY DEF Kinds
  <2>. QED  BY <2>1, <2>2 DEF FirstPeerFlows, Flow
<1>. QED  BY <1>1, <1>2, <1>3, <1>4

(* A status entry is well typed. *)
LEMMA StatusType ==
  ASSUME NEW loc \in RadioConfig, NEW nbrs \in Table
  PROVE  StatusOf(loc, nbrs) \in Status
<1>1. ASSUME NEW i \in Used(nbrs)
      PROVE  [cfg |-> nbrs[i].cfg, reachable |-> nbrs[i].reachable,
              reason |-> nbrs[i].reason] \in StatusEntry
  <2>1. nbrs[i] \in Neighbor
    BY <1>1, UsedFinite DEF Used, Table, TableEntry
  <2>. QED  BY <2>1 DEF Neighbor, StatusEntry, Verdict
<1>. QED  BY <1>1 DEF StatusOf, Status, StatusEntry

(* The flows of the neighbours before a slot. *)
FlowsBefore(loc, nbrs, c) ==
  UNION {PeerFlows(loc, nbrs[i].cfg) : i \in {j \in Reachable(nbrs) : j < c}}

(* Adding the flows of one more slot, from none to all. *)
LEMMA FlowsBySlot ==
  ASSUME NEW loc, NEW nbrs
  PROVE  /\ FlowsBefore(loc, nbrs, 1) = {}
         /\ \A c \in Slots :
              FlowsBefore(loc, nbrs, c + 1) =
                IF c \in Reachable(nbrs)
                THEN FlowsBefore(loc, nbrs, c) \cup PeerFlows(loc, nbrs[c].cfg)
                ELSE FlowsBefore(loc, nbrs, c)
         /\ Classified(loc, nbrs) =>
              FlowsBefore(loc, nbrs, NEIGHBOR_MAX + 1) = Whitelist(loc, nbrs)
<1> DEFINE R(c) == {j \in Reachable(nbrs) : j < c}
           F(i) == PeerFlows(loc, nbrs[i].cfg)
<1>1. Reachable(nbrs) \subseteq Slots
  BY UsedFinite DEF Reachable
<1>2. FlowsBefore(loc, nbrs, 1) = {}
  <2>1. R(1) = {}
    BY <1>1 DEF Slots
  <2>. QED  BY <2>1 DEF FlowsBefore
<1>3. ASSUME NEW c \in Slots
      PROVE  FlowsBefore(loc, nbrs, c + 1) =
               IF c \in Reachable(nbrs)
               THEN FlowsBefore(loc, nbrs, c) \cup F(c)
               ELSE FlowsBefore(loc, nbrs, c)
  <2>1. R(c + 1) = IF c \in Reachable(nbrs) THEN R(c) \cup {c} ELSE R(c)
    BY <1>1, <1>3 DEF Slots
  <2>2. \A k : FlowsBefore(loc, nbrs, k) = UNION {F(i) : i \in R(k)}
    BY DEF FlowsBefore
  <2> HIDE DEF R, F
  <2>3. UNION {F(i) : i \in R(c) \cup {c}}
          = (UNION {F(i) : i \in R(c)}) \cup F(c)
    OBVIOUS
  <2>4. CASE c \in Reachable(nbrs)
    BY <2>1, <2>2, <2>3, <2>4
  <2>5. CASE c \notin Reachable(nbrs)
    BY <2>1, <2>2, <2>5
  <2>. QED  BY <2>4, <2>5
<1>4. ASSUME Classified(loc, nbrs)
      PROVE  FlowsBefore(loc, nbrs, NEIGHBOR_MAX + 1) = Whitelist(loc, nbrs)
  <2>1. R(NEIGHBOR_MAX + 1) = Reachable(nbrs)
    BY <1>1, PolicyAssumption DEF Slots
  <2>2. Reachable(nbrs) = Admissible(loc, nbrs)
    BY <1>4, ReachableAdmissible
  <2>. QED  BY <2>1, <2>2 DEF FlowsBefore, Whitelist
<1>. QED  BY <1>2, <1>3, <1>4

(* Ageing disturbs neither the verdicts nor the flows they stand for. *)
LEMMA AgedQuiet ==
  ASSUME NEW loc, NEW nbrs \in Table, NEW c
  PROVE  /\ Classified(loc, nbrs) => Classified(loc, Aged(nbrs))
         /\ FlowsBefore(loc, Aged(nbrs), c) = FlowsBefore(loc, nbrs, c)
<1> DEFINE a == Aged(nbrs)
<1>1. /\ SameView(nbrs, a)
      /\ \A i \in Used(nbrs) : /\ a[i].reachable = nbrs[i].reachable
                               /\ a[i].reason = nbrs[i].reason
  BY AgedKeeps
<1> HIDE DEF a
<1>2. /\ Admissible(loc, nbrs) = Admissible(loc, a)
      /\ \A i \in Used(nbrs) : \A x :
           ReasonGiven(loc, nbrs, i, x) <=> ReasonGiven(loc, a, i, x)
  BY <1>1, ViewDecides
<1>3. Classified(loc, nbrs) => Classified(loc, a)
  BY <1>1, <1>2 DEF Classified, SameView
<1>4. Reachable(a) = Reachable(nbrs)
  BY <1>1 DEF Reachable, SameView
<1>5. \A i \in Reachable(nbrs) : a[i].cfg = nbrs[i].cfg
  BY <1>1 DEF Reachable, SameView
<1>6. FlowsBefore(loc, a, c) = FlowsBefore(loc, nbrs, c)
  BY <1>4, <1>5 DEF FlowsBefore
<1>. QED  BY <1>3, <1>6 DEF a

(* The peers of the status file are the neighbours, with their verdicts.   *)
LEMMA StatusView ==
  ASSUME NEW loc \in RadioConfig, NEW nbrs \in Table,
         NEW ps, ps = StatusOf(loc, nbrs).peers
  PROVE  /\ SameView(nbrs, ps)
         /\ Classified(loc, nbrs) => Classified(loc, ps)
<1>1. ps = [i \in Slots |->
              IF i \in Used(nbrs)
              THEN [cfg |-> nbrs[i].cfg, reachable |-> nbrs[i].reachable,
                    reason |-> nbrs[i].reason]
              ELSE NoNeighbor]
  BY DEF StatusOf
<1>2. ASSUME NEW i \in Used(nbrs)
      PROVE  /\ ps[i] # NoNeighbor
             /\ ps[i].cfg = nbrs[i].cfg
             /\ ps[i].reachable = nbrs[i].reachable
             /\ ps[i].reason = nbrs[i].reason
  <2>1. PICK c \in RadioConfig, b \in BOOLEAN, r \in Reasons :
          c = nbrs[i].cfg /\ b = nbrs[i].reachable /\ r = nbrs[i].reason
    <3>1. nbrs[i] \in Neighbor
      BY <1>2, UsedFinite DEF Used, Table, TableEntry
    <3>. QED  BY <3>1 DEF Neighbor
  <2>2. ps[i] = [cfg |-> c, reachable |-> b, reason |-> r]
    BY <1>1, <1>2, <2>1, UsedFinite
  <2>3. ps[i] \in Verdict
    BY <2>2 DEF Verdict
  <2>. QED  BY <2>1, <2>2, <2>3, PolicyAssumption
<1>3. Used(ps) = Used(nbrs)
  <2>1. \A i \in Slots : i \notin Used(nbrs) => ps[i] = NoNeighbor
    BY <1>1
  <2>. QED  BY <1>2, <2>1, Zenon DEF Used
<1>4. SameView(nbrs, ps)
  BY <1>2, <1>3 DEF SameView
<1>5. /\ Admissible(loc, nbrs) = Admissible(loc, ps)
      /\ \A i \in Used(nbrs) : \A x :
           ReasonGiven(loc, nbrs, i, x) <=> ReasonGiven(loc, ps, i, x)
  BY <1>4, ViewDecides
<1>. QED  BY <1>2, <1>3, <1>4, <1>5 DEF Classified

(* So a file written from a classified table is consistent in itself. *)
LEMMA StatusConsistent ==
  ASSUME NEW loc \in RadioConfig, NEW nbrs \in Table, Classified(loc, nbrs)
  PROVE  Consistent(StatusOf(loc, nbrs))
<1>1. StatusOf(loc, nbrs).local = loc
  BY DEF StatusOf
<1>2. Classified(loc, StatusOf(loc, nbrs).peers)
  BY StatusView
<1>. QED  BY <1>1, <1>2 DEF Consistent, Classified

(* A status file reports a table when it is complete in its local part and *)
(* shows the same view.                                                    *)
Reports(status, loc, nbrs) ==
  status.local = loc /\ SameView(nbrs, status.peers)

(* What write_peer_status writes reports the table it is written from.     *)
LEMMA StatusReports ==
  ASSUME NEW loc \in RadioConfig, NEW nbrs \in Table
  PROVE  Reports(StatusOf(loc, nbrs), loc, nbrs)
<1>1. StatusOf(loc, nbrs).local = loc
  BY DEF StatusOf
<1>2. SameView(nbrs, StatusOf(loc, nbrs).peers)
  BY StatusView
<1>. QED  BY <1>1, <1>2 DEF Reports

(* It goes on reporting a table that changes behind the view. *)
LEMMA ReportsView ==
  ASSUME NEW status, NEW loc, NEW n1, NEW n2,
         Reports(status, loc, n1), SameView(n1, n2)
  PROVE  Reports(status, loc, n2)
BY DEF Reports, SameView

(* The traffic between the local node and the peers that a consistent file *)
(* reports reachable is the whitelist of any table it reports.             *)
LEMMA ReportedFlows ==
  ASSUME NEW status, NEW loc, NEW nbrs,
         Reports(status, loc, nbrs), Consistent(status)
  PROVE  UNION {PeerFlows(status.local, status.peers[i].cfg) :
                  i \in ReportedReachable(status)} = Whitelist(loc, nbrs)
<1> DEFINE ps == status.peers
<1>1. Whitelist(loc, nbrs) = Whitelist(loc, ps)
  BY ViewDecides DEF Reports
<1>2. Admissible(loc, ps) \subseteq Used(ps)
  BY DEF Admissible, InSubnet
<1>3. ReportedReachable(status) = Admissible(loc, ps)
  BY <1>2 DEF ReportedReachable, Consistent, Reports
<1>. QED  BY <1>1, <1>3 DEF Whitelist, Reports

-----------------------------------------------------------------------------
(* The table and the file as the abstract radio sees them.                 *)

Rule == INSTANCE Membership

(* As many masters are heard as slots hold one: no node has two slots. *)
LEMMA HeardMasters ==
  ASSUME NEW loc, NEW nbrs, KeyedByNode(nbrs)
  PROVE  Rule!MasterCount(loc, HeardFrom(nbrs)) = CountMatchingMasters(loc, nbrs)
<1> DEFINE S == MatchingMasters(loc, nbrs)
           T == {c \in Rule!Matching(loc, HeardFrom(nbrs)) : c.prime}
           f == [i \in S |-> nbrs[i].cfg]
<1>1. IsFiniteSet(S)
  <2>1. S \subseteq Used(nbrs)
    BY DEF MatchingMasters
  <2>. QED  BY <2>1, UsedFinite, FS_Subset
<1>2. T = {nbrs[i].cfg : i \in S}
  BY DEF Rule!Matching, HeardFrom, MatchingMasters, SameSubnetParams
<1>3. \A i, j \in S : nbrs[i].cfg = nbrs[j].cfg => i = j
  BY DEF MatchingMasters, KeyedByNode
<1>4. f \in Bijection(S, T)
  <2>1. f \in [S -> T]
    BY <1>2
  <2>2. \A i, j \in S : f[i] = f[j] => i = j
    BY <1>3
  <2>3. \A c \in T : \E i \in S : f[i] = c
    BY <1>2
  <2> HIDE DEF f, S, T
  <2>. QED  BY <2>1, <2>2, <2>3 DEF Bijection, Injection, Surjection, IsInjective
<1>5. Cardinality(T) = Cardinality(S)
  <2> HIDE DEF f, S, T
  <2>. QED  BY <1>1, <1>4, FS_Bijection DEF ExistsBijection
<1>6. Rule!Cardinality(T) = Cardinality(T)
  <2> HIDE DEF T
  <2>. QED  BY DEF Rule!Cardinality, Cardinality
<1>. QED  BY <1>5, <1>6 DEF Rule!MasterCount, CountMatchingMasters

(* So a file written from a classified table is the picture that the       *)
(* membership rule gives of the radios heard.                              *)
LEMMA PictureGiven ==
  ASSUME NEW loc \in RadioConfig, NEW nbrs \in Table,
         KeyedByNode(nbrs), Classified(loc, nbrs)
  PROVE  PictureIn(StatusOf(loc, nbrs)) = Rule!Picture(loc, HeardFrom(nbrs))
<1> DEFINE ps == StatusOf(loc, nbrs).peers
           H == HeardFrom(nbrs)
           m == CountMatchingMasters(loc, nbrs)
           entry(c) == [cfg |-> c,
                        reachable |-> c \in Rule!Admitted(loc, H),
                        reason |-> Rule!Reason(loc, H, c)]
<1>1. m \in Nat /\ Rule!MasterCount(loc, H) = m
  BY MastersCounted, HeardMasters
<1>2. SameView(nbrs, ps)
  BY StatusView
<1>3. ASSUME NEW i \in Used(nbrs)
      PROVE  ps[i] = entry(nbrs[i].cfg)
  <2> DEFINE c == nbrs[i].cfg
  <2>1. /\ nbrs[i] \in Neighbor /\ i \in Slots
    BY <1>3, UsedFinite DEF Used, Table, TableEntry
  <2>2. ps[i] = [cfg |-> c, reachable |-> nbrs[i].reachable,
                 reason |-> nbrs[i].reason]
    BY <1>3, <2>1 DEF StatusOf
  <2>3. ReasonGiven(loc, nbrs, i, nbrs[i].reason)
        /\ (nbrs[i].reason = "OK" <=> nbrs[i].reachable)
    BY <1>3 DEF Classified
  <2>4. c \in H
    BY <1>3 DEF HeardFrom
  <2>5. nbrs[i].reason = Rule!Reason(loc, H, c)
    <3> HIDE DEF H, m
    <3>. QED  BY <1>1, <2>3 DEF ReasonGiven, SameSubnetParams, Rule!Reason, m
  <2>6. Rule!Reason(loc, H, c) = "OK" <=> c \in Rule!Admitted(loc, H)
    <3> HIDE DEF H, m
    <3>. QED  BY <1>1, <2>4 DEF Rule!Reason, Rule!Admitted, Rule!Matching
  <2>7. nbrs[i].reachable = (c \in Rule!Admitted(loc, H))
    <3>1. nbrs[i].reachable \in BOOLEAN
      BY <2>1 DEF Neighbor
    <3>2. nbrs[i].reachable <=> c \in Rule!Admitted(loc, H)
      <4> HIDE DEF H, c
      <4>. QED  BY <2>3, <2>5, <2>6
    <3> HIDE DEF H, c
    <3>. QED  BY <3>1, <3>2
  <2> HIDE DEF ps, H, c
  <2>. QED  BY <2>2, <2>5, <2>7 DEF c
<1>4. {ps[i] : i \in Used(ps)} = {entry(c) : c \in H}
  <2>1. Used(ps) = Used(nbrs)
    BY <1>2 DEF SameView
  <2>2. H = {nbrs[i].cfg : i \in Used(nbrs)}
    BY DEF HeardFrom
  <2> HIDE DEF ps, H, entry
  <2>. QED  BY <1>3, <2>1, <2>2
<1>5. StatusOf(loc, nbrs).local = loc
  BY DEF StatusOf
<1> HIDE DEF ps, H
<1>. QED  BY <1>4, <1>5 DEF PictureIn, Rule!Picture, ps, H

(* A table whose slots lose their entries has heard less. *)
LEMMA ShrinksHeard ==
  ASSUME NEW n1, NEW n2, Shrinks(n1, n2)
  PROVE  HeardFrom(n2) \subseteq HeardFrom(n1)
BY DEF Shrinks, HeardFrom

(* A frame replaces what was heard under its node number. *)
LEMMA FrameHeard ==
  ASSUME NEW nbrs \in Table, KeyedByNode(nbrs), NEW f \in Broadcast,
         NEW s \in Slots, NEW new,
         \/ /\ FindNeighbor(nbrs, s, f.cfg.node)
            /\ new = Refreshed(nbrs, s, f)
         \/ /\ Unknown(nbrs, f.cfg.node)
            /\ AllocNeighbor(nbrs, s)
            /\ new = Added(nbrs, s, f)
  PROVE  HeardFrom(new) = Rule!Hearing(HeardFrom(nbrs), f.cfg)
<1>1. /\ \A j \in Slots : j # s => new[j] = nbrs[j]
      /\ s \in Used(new) /\ new[s].cfg = f.cfg
  BY FrameEntry DEF FindNeighbor, Holds
<1>2. \A j \in Slots : j # s => (j \in Used(new) <=> j \in Used(nbrs))
  BY <1>1 DEF Used
<1>3. \A j \in Used(nbrs) : nbrs[j].cfg.node = f.cfg.node <=>
                              j = s
  BY DEF FindNeighbor, Unknown, AllocNeighbor, Holds, KeyedByNode, Used
<1>4. Used(new) \subseteq Slots /\ Used(nbrs) \subseteq Slots
  BY UsedFinite
<1>. QED  BY <1>1, <1>2, <1>3, <1>4 DEF HeardFrom, Rule!Hearing

=============================================================================
