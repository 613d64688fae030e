------------------------------ MODULE MCRadios ------------------------------
(* Small sets of configurations and frames for the instances of the radio  *)
(* daemons.                                                                *)
EXTENDS PeerPolicy, TLC

CONSTANTS n1, n2, n3, a1, a2, a3, p, q, m1, m2

Cfg(n, a, par, master) == [node |-> n, ip |-> a, params |-> par,
                           prime |-> master]

Frame(n, a, par, master, mac) == [cfg |-> Cfg(n, a, par, master), mac |-> mac]

(* The local node as master and as slave. *)
RoleConfigs == {Cfg(n1, a1, p, TRUE), Cfg(n1, a1, p, FALSE)}

(* The local node changes its subnet, or its number to that of a peer. *)
MovingConfigs == {Cfg(n1, a1, p, TRUE), Cfg(n1, a1, q, FALSE),
                  Cfg(n2, a1, p, FALSE)}

(* The local node is master or, under the number of a peer, slave. *)
TakeoverConfigs == {Cfg(n1, a1, p, TRUE), Cfg(n2, a1, p, FALSE)}

(* One peer that changes its subnet, its role and its interface, and       *)
(* another one beside it.                                                  *)
RivalPeers == {Frame(n2, a2, p, TRUE, m1), Frame(n2, a2, q, FALSE, m2),
               Frame(n3, a3, p, FALSE, m1)}

(* A master and a slave of the subnet p that compete for one slot. *)
Contenders == {Frame(n2, a2, p, TRUE, m1), Frame(n3, a3, p, FALSE, m2)}

SlavePeer == {Frame(n2, a2, p, FALSE, m1)}

=============================================================================
