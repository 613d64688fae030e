-------------------------------- MODULE Radio --------------------------------
(***************************************************************************)
(* What a radio daemon promises about its picture of the neighbourhood,    *)
(* whatever happens to it: peers.json is being rewritten, or it holds the  *)
(* picture that the membership rule gives of the configuration and of the  *)
(* radios heard at the moment it was written.  CklDaemon and SubnetDaemon  *)
(* implement this specification.                                           *)
(***************************************************************************)
EXTENDS Membership

CONSTANTS Absent, Torn   \* no status file; one that is being rewritten

VARIABLES local,    \* the configuration in force
          heard,    \* the configurations of the radios heard
          status    \* peers.json

vars == <<local, heard, status>>

Init ==
  /\ local \in RadioConfig
  /\ heard = {}
  /\ status = Absent

Adopt ==
  /\ local' \in RadioConfig
  /\ UNCHANGED <<heard, status>>

(* A frame under the radio's own number is not heard. *)
Hear(c) ==
  /\ c.node # local.node
  /\ heard' = Hearing(heard, c)
  /\ UNCHANGED <<local, status>>

(* Ageing, or the end of the process: no radio is heard twice, and none    *)
(* that was not there comes up.                                            *)
Forget ==
  /\ heard' \subseteq heard
  /\ UNCHANGED <<local, status>>

Truncate ==
  /\ status' = Torn
  /\ UNCHANGED <<local, heard>>

Write ==
  /\ status = Torn
  /\ status' = Picture(local, heard)
  /\ UNCHANGED <<local, heard>>

Next ==
  \/ Adopt \/ Forget \/ Truncate \/ Write
  \/ \E c \in RadioConfig : Hear(c)

Spec == Init /\ [][Next]_vars

=============================================================================
