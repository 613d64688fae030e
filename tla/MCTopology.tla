----------------------------- MODULE MCTopology -----------------------------
(* A slave that may become a master, the master of its subnet, and a radio *)
(* outside that may join them as a master or change its number.            *)
EXTENDS Topology

CONSTANTS r1, r2, r3, n1, n2, n3, n4, a1, a2, a3, p1, p2

Conf(n, a, ps, prime) == [node |-> n, ip |-> a, params |-> ps, prime |-> prime]

MCFirstConfig ==
  r1 :> Conf(n1, a1, p1, FALSE) @@ r2 :> Conf(n2, a2, p1, TRUE)
                               @@ r3 :> Conf(n3, a3, p2, FALSE)

MCNextConfigs ==
  r1 :> {Conf(n1, a1, p1, TRUE)} @@ r2 :> {Conf(n2, a2, p1, FALSE)}
    @@ r3 :> {Conf(n3, a3, p1, TRUE), Conf(n4, a3, p2, FALSE)}

=============================================================================
