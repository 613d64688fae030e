---------------------------- MODULE MCCklDaemon -----------------------------
(* Small instances of CklDaemon for TLC. *)
EXTENDS CklDaemon, MCRadios

(* Only whether two stats are equal matters to the daemon. *)
StampSymmetry == Permutations(Stamps)

=============================================================================
