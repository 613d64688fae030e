--------------------------- MODULE TopologyProofs ---------------------------
(***************************************************************************)
(* Proofs about Topology, for every finite set of radios, every choice of  *)
(* the radios whose tables are modelled and of the configurations they may *)
(* take, as long as no two radios can get the same node number.            *)
(***************************************************************************)
EXTENDS Topology, FiniteSetTheorems, TLAPS

(* No radio can take the number of another one. *)
LEMMA OwnNumbers ==
  ASSUME NEW r \in Radios, NEW s \in Radios, r # s,
         NEW c \in Configs(r), NEW d \in Configs(s)
  PROVE  c.node # d.node
BY TopologyAssumption DEF Configs

LEMMA ConfigsTyped ==
  ASSUME NEW r \in Radios
  PROVE  Configs(r) \subseteq RadioConfig /\ FirstConfig[r] \in Configs(r)
BY TopologyAssumption DEF Configs

LEMMA PictureTyped ==
  ASSUME NEW c \in RadioConfig, NEW h \in SUBSET RadioConfig
  PROVE  Picture(c, h) \in Pictures
<1> DEFINE entry(d) == [cfg |-> d, reachable |-> d \in Admitted(c, h),
                        reason |-> Reason(c, h, d)]
<1>1. \A d \in h : Reason(c, h, d) \in {"OK", "PARAM_MISMATCH", "NO_MASTER",
                                         "MULTI_MASTER"}
  BY DEF Reason
<1>2. \A d \in h : entry(d) \in [cfg : RadioConfig, reachable : BOOLEAN,
                                 reason : {"OK", "PARAM_MISMATCH",
                                           "NO_MASTER", "MULTI_MASTER"}]
  <2> TAKE d \in h
  <2>1. (d \in Admitted(c, h)) \in BOOLEAN
    OBVIOUS
  <2>. QED  BY <1>1, <2>1
<1>. QED  BY <1>2 DEF Picture, Pictures

-----------------------------------------------------------------------------
(* Types, and tables keyed by node number: no table holds two radios under *)
(* one number, or the radio itself, however losses, deaths, restarts and   *)
(* new configurations interleave.                                          *)
THEOREM TypeCorrect == Spec => []TypeOK
<1> USE TopologyAssumption
<1>1. Init => TypeOK
  BY ConfigsTyped DEF Init, TypeOK
<1>2. TypeOK /\ [Next]_vars => TypeOK'
  <2> SUFFICES ASSUME TypeOK, [Next]_vars
               PROVE  TypeOK'
    OBVIOUS
  <2>1. ASSUME NEW r \in Observed, NEW s \in Radios, Hear(r, s)
        PROVE  TypeOK'
    <3>1. cfg[s] \in Configs(s) /\ cfg[s] \in RadioConfig /\ s # r
      BY <2>1 DEF Hear, TypeOK
    <3>2. heard' = [heard EXCEPT ![r] = Hearing(heard[r], cfg[s])]
      BY <2>1 DEF Hear
    <3>3. heard' \in [Observed -> SUBSET RadioConfig]
      BY <3>1, <3>2 DEF TypeOK, Hearing
    <3>4. ASSUME NEW q \in Observed, NEW c \in heard'[q], NEW d \in heard'[q]
          PROVE  /\ c.node = d.node => c = d
                 /\ \E t \in Radios \ {q} : c \in Configs(t)
      <4>1. CASE q = r
        <5>1. heard'[q] = {h \in heard[r] : h.node # cfg[s].node} \cup {cfg[s]}
          BY <3>2, <4>1 DEF TypeOK, Hearing
        <5>. QED  BY <3>1, <4>1, <5>1 DEF TypeOK
      <4>2. CASE q # r
        <5>1. heard'[q] = heard[q]
          BY <3>2, <4>2 DEF TypeOK
        <5>. QED  BY <5>1 DEF TypeOK
      <4>. QED  BY <4>1, <4>2
    <3>. QED  BY <2>1, <3>3, <3>4 DEF Hear, TypeOK
  <2>2. ASSUME NEW r \in Observed, NEW x,
               \/ heard' = [heard EXCEPT ![r] = @ \ {x}]
               \/ heard' = [s \in Observed |-> IF s = r THEN {} ELSE heard[s]],
               UNCHANGED <<cfg, file>>, up' \subseteq Radios,
               changes' \in 0 .. MaxChanges
        PROVE  TypeOK'
    <3>1. heard' \in [Observed -> SUBSET RadioConfig]
      BY <2>2 DEF TypeOK
    <3>2. \A q \in Observed : heard'[q] \subseteq heard[q]
      BY <2>2 DEF TypeOK
    <3>. QED  BY <2>2, <3>1, <3>2 DEF TypeOK
  <2>3. ASSUME NEW r \in Observed, NEW c \in heard[r],
               AgeOut(r, c) \/ LoseTouch(r, c)
        PROVE  TypeOK'
    <3>1. /\ heard' = [heard EXCEPT ![r] = @ \ {c}]
          /\ UNCHANGED <<cfg, up, file>> /\ changes' \in 0 .. MaxChanges
      BY <2>3 DEF AgeOut, LoseTouch, Interfere, TypeOK
    <3>. QED  BY <2>2, <3>1 DEF TypeOK
  <2>4. ASSUME NEW r \in Observed, Truncate(r) \/ WriteStatus(r)
        PROVE  TypeOK'
    <3>1. CASE Truncate(r)
      BY <3>1 DEF Truncate, TypeOK, radio
    <3>2. CASE WriteStatus(r)
      <4>1. Picture(cfg[r], heard[r]) \in Pictures
        BY PictureTyped DEF TypeOK
      <4>. QED  BY <3>2, <4>1 DEF WriteStatus, TypeOK, radio
    <3>. QED  BY <2>4, <3>1, <3>2
  <2>5. ASSUME UNCHANGED <<radio, file, changes>>
        PROVE  TypeOK'
    BY <2>5 DEF TypeOK, radio
  <2>6. ASSUME NEW r \in Observed,
               \/ Report(r) \/ ReportFallback(r)
               \/ \E m \in net[r] : Deliver(r, m) \/ Lose(r, m)
        PROVE  TypeOK'
    BY <2>5, <2>6 DEF Report, ReportFallback, Send, Deliver, Lose
  <2>7. ASSUME NEW r \in Radios, NEW c \in NextConfigs[r], Reconfigure(r, c)
        PROVE  TypeOK'
    <3>1. cfg' = [cfg EXCEPT ![r] = c] /\ changes' \in 0 .. MaxChanges
      BY <2>7 DEF Reconfigure, Interfere, TypeOK
    <3>2. c \in Configs(r) /\ c \in RadioConfig
      BY DEF Configs
    <3>. QED  BY <2>7, <3>1, <3>2 DEF Reconfigure, TypeOK
  <2>8. ASSUME NEW r \in Radios, Die(r)
        PROVE  TypeOK'
    <3>1. /\ heard' = [s \in Observed |-> IF s = r THEN {} ELSE heard[s]]
          /\ up' \subseteq Radios /\ UNCHANGED <<cfg, file>>
          /\ changes' \in 0 .. MaxChanges
      BY <2>8 DEF Die, Interfere, TypeOK
    <3>2. /\ heard' \in [Observed -> SUBSET RadioConfig]
          /\ \A q \in Observed : heard'[q] \subseteq heard[q]
      BY <3>1 DEF TypeOK
    <3>. QED  BY <3>1, <3>2 DEF TypeOK
  <2>9. ASSUME NEW r \in Radios, Restart(r)
        PROVE  TypeOK'
    BY <2>9 DEF Restart, TypeOK
  <2>10. CASE UNCHANGED vars
    BY <2>5, <2>10 DEF vars
  <2>. QED
    BY <2>1, <2>3, <2>4, <2>6, <2>7, <2>8, <2>9, <2>10
    DEF Next, Environment
<1>. QED  BY <1>1, <1>2, PTL DEF Spec

-----------------------------------------------------------------------------
(* Informed radios.                                                        *)

(* The masters a radio counts are the masters of its subnet.  The local    *)
(* one is not in the table, and the others are told apart by their numbers.*)
LEMMA InformedCount ==
  ASSUME TypeOK, NEW r \in Observed, Informed(r)
  PROVE  MasterCount(cfg[r], heard[r])
           = Cardinality({s \in Subnet(r) : cfg[s].prime})
<1> DEFINE S == {s \in Subnet(r) : cfg[s].prime}
           O == S \ {r}
           T == {c \in Matching(cfg[r], heard[r]) : c.prime}
           f == [s \in O |-> cfg[s]]
<1>1. /\ r \in Radios /\ up \subseteq Radios /\ r \in up
      /\ heard[r] = {cfg[s] : s \in up \ {r}}
  BY TopologyAssumption DEF TypeOK, Informed, Others
<1>2. IsFiniteSet(S) /\ IsFiniteSet(O)
  <2>1. S \subseteq Radios /\ O \subseteq Radios
    BY <1>1 DEF Subnet
  <2>. QED  BY <2>1, FS_Subset, TopologyAssumption
<1>3. T = {cfg[s] : s \in O}
  BY <1>1 DEF Matching, Subnet
<1>4. \A s, t \in O : cfg[s] = cfg[t] => s = t
  <2>1. O \subseteq Radios
    BY <1>1 DEF Subnet
  <2>2. \A s, t \in Radios : s # t => cfg[s].node # cfg[t].node
    BY OwnNumbers DEF TypeOK
  <2>. QED  BY <2>1, <2>2
<1>5. f \in Bijection(O, T)
  <2>1. f \in [O -> T]
    BY <1>3
  <2>2. \A s, t \in O : f[s] = f[t] => s = t
    BY <1>4
  <2>3. \A c \in T : \E s \in O : f[s] = c
    BY <1>3
  <2> HIDE DEF f, O, T
  <2>. QED  BY <2>1, <2>2, <2>3 DEF Bijection, Injection, Surjection, IsInjective
<1>6. Cardinality(T) = Cardinality(O)
  <2> HIDE DEF f, O, T
  <2>. QED  BY <1>2, <1>5, FS_Bijection DEF ExistsBijection
<1>7. r \in S <=> cfg[r].prime
  BY <1>1 DEF Subnet
<1>8. Cardinality(S) = (IF r \in S THEN 1 ELSE 0) + Cardinality(O)
  <2>1. CASE r \in S
    <3>1. Cardinality(O) = Cardinality(S) - 1
      BY <1>2, <2>1, FS_RemoveElement
    <3>2. Cardinality(S) \in Nat
      BY <1>2, FS_CardinalityType
    <3> HIDE DEF S, O
    <3>. QED  BY <2>1, <3>1, <3>2
  <2>2. CASE r \notin S
    <3>1. O = S
      BY <2>2
    <3>2. Cardinality(S) \in Nat
      BY <1>2, FS_CardinalityType
    <3> HIDE DEF S, O
    <3>. QED  BY <2>2, <3>1, <3>2
  <2>. QED  BY <2>1, <2>2
<1>9. MasterCount(cfg[r], heard[r])
        = (IF cfg[r].prime THEN 1 ELSE 0) + Cardinality(T)
  BY DEF MasterCount
<1>10. MasterCount(cfg[r], heard[r]) = Cardinality(S)
  <2> HIDE DEF S, O, T
  <2>. QED  BY <1>6, <1>7, <1>8, <1>9
<1>. QED  BY <1>10

(* Radios that have heard all that run agree on who talks to whom.         *)
THEOREM RadiosAgree == Spec => []SubnetsAgree
<1>1. TypeOK => SubnetsAgree
  <2> SUFFICES ASSUME TypeOK, NEW r \in Observed, Informed(r)
               PROVE  Admitted(cfg[r], heard[r]) =
                        IF Cardinality({s \in Subnet(r) : cfg[s].prime}) = 1
                        THEN {cfg[s] : s \in Subnet(r) \ {r}}
                        ELSE {}
    BY DEF SubnetsAgree
  <2>1. MasterCount(cfg[r], heard[r])
          = Cardinality({s \in Subnet(r) : cfg[s].prime})
    BY InformedCount
  <2>2. Matching(cfg[r], heard[r]) = {cfg[s] : s \in Subnet(r) \ {r}}
    BY DEF Informed, Others, Matching, Subnet
  <2>. QED  BY <2>1, <2>2 DEF Admitted
<1>. QED  BY <1>1, TypeCorrect, PTL

=============================================================================
