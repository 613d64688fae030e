--------------------------- MODULE MCSubnetDaemon ---------------------------
(* Small instances of SubnetDaemon for TLC. *)
EXTENDS SubnetDaemon, MCRadios

(* Only whether two stats are equal matters to the daemon. *)
StampSymmetry == Permutations(Stamps)

=============================================================================
