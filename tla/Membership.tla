------------------------------ MODULE Membership ------------------------------
(***************************************************************************)
(* The rule of the radio network, free of tables and slots: which of the   *)
(* radios it has heard a radio exchanges business traffic with, and the    *)
(* picture of the neighbourhood that peers.json gives.  PeerPolicy holds   *)
(* the daemons' computation of the same rule.                              *)
(***************************************************************************)
EXTENDS Integers, FiniteSets

CONSTANTS Nodes, Ips, Params

RadioConfig == [node : Nodes, ip : Ips, params : Params, prime : BOOLEAN]

(* The radios whose parameters match, as far as they were heard. *)
Matching(local, heard) == {c \in heard : c.params = local.params}

(* An error the rule could have: the local radio does not count. *)
PeerMasterCount(local, heard) ==
  Cardinality({c \in Matching(local, heard) : c.prime})

(* The local radio is no member of heard: it counts by itself. *)
MasterCount(local, heard) ==
  (IF local.prime THEN 1 ELSE 0)
    + Cardinality({c \in Matching(local, heard) : c.prime})

(* A subnet is valid when it has exactly one master. *)
Admitted(local, heard) ==
  IF MasterCount(local, heard) = 1 THEN Matching(local, heard) ELSE {}

Reason(local, heard, c) ==
  IF c.params # local.params THEN "PARAM_MISMATCH"
  ELSE IF MasterCount(local, heard) = 0 THEN "NO_MASTER"
  ELSE IF MasterCount(local, heard) > 1 THEN "MULTI_MASTER"
  ELSE "OK"

Picture(local, heard) ==
  [local |-> local,
   peers |-> {[cfg       |-> c,
               reachable |-> c \in Admitted(local, heard),
               reason    |-> Reason(local, heard, c)] : c \in heard}]

(* An error the rule could have: the entry of the number stays as well. *)
HearingAlso(heard, c) == heard \cup {c}

(* A frame replaces what was heard under its node number. *)
Hearing(heard, c) == {h \in heard : h.node # c.node} \cup {c}

=============================================================================
