----------------------------- MODULE DurableParams -----------------------------
(***************************************************************************)
(* What a radio promises about its parameters, whatever happens to the     *)
(* process that keeps them: there is one set of parameters a restart would *)
(* restore ("stored"); an injection moves it, in one step, to the          *)
(* parameters it carries ("target"); what has been confirmed to the        *)
(* requester is what a restart would restore, until the next injection is  *)
(* taken up.                                                               *)
(***************************************************************************)
CONSTANTS Bodies,    \* sets of parameters
          NoBody     \* nothing is confirmed

VARIABLES stored, target, confirmed

vars == <<stored, target, confirmed>>

Init ==
  /\ stored \in Bodies
  /\ target = stored
  /\ confirmed = NoBody

(* An injection is taken up; only one is under way at a time. *)
Accept(b) ==
  /\ target = stored
  /\ target' = b
  /\ confirmed' = NoBody
  /\ UNCHANGED stored

Install ==
  /\ stored' = target
  /\ UNCHANGED <<target, confirmed>>

Confirm ==
  /\ stored = target
  /\ confirmed' = target
  /\ UNCHANGED <<stored, target>>

(* What was under way is forgotten. *)
Crash ==
  /\ target' = stored
  /\ UNCHANGED <<stored, confirmed>>

Next == (\E b \in Bodies : Accept(b)) \/ Install \/ Confirm \/ Crash

Spec == Init /\ [][Next]_vars

=============================================================================
