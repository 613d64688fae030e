----------------------------- MODULE PeerPolicy -----------------------------
(***************************************************************************)
(* The membership policy every radio daemon (ckl_daemon, xtl_daemon and    *)
(* zzw_daemon) applies to its neighbour table: how frames enter the table  *)
(* and leave it by age, which neighbours share the radio parameters of the *)
(* local node, how many masters that subnet has, which neighbours may      *)
(* exchange business traffic and why the others may not, the whitelist     *)
(* flows and the status file that follow.  The module has no variables: it *)
(* holds the pure part of the daemons, and beside it the reference rule    *)
(* (InSubnet, SubnetMasters, Admissible, Whitelist) they are checked       *)
(* against.                                                                *)
(*                                                                         *)
(* A radio configuration is a record [node, ip, params, prime]: "params"   *)
(* stands for the fields that must match (radioFreq, radioPower,           *)
(* workFreqMode and radioRate for CKL), "prime" for hostPrime == 1.        *)
(***************************************************************************)
EXTENDS Integers, FiniteSets

CONSTANTS
  Nodes,             \* node numbers
  Ips,               \* business addresses
  Params,            \* values of the radio parameters that have to match
  Macs,              \* source addresses of broadcast frames
  NEIGHBOR_MAX,      \* slots of the neighbour table
  NEIGHBOR_TIMEOUT,  \* ticks of silence an entry survives
  AgeCap,            \* ages are counted up to this bound
  NoNeighbor         \* the content of a free slot

RadioConfig == [node : Nodes, ip : Ips, params : Params, prime : BOOLEAN]

Slots == 1 .. NEIGHBOR_MAX

Reasons == {"OK", "PARAM_MISMATCH", "NO_MASTER", "MULTI_MASTER"}

(* A broadcast frame: the sender's configuration and source address. *)
Broadcast == [cfg : RadioConfig, mac : Macs]

(* The age of an entry is the time since last_seen; it replaces the stamp. *)
Neighbor == [cfg : RadioConfig, mac : Macs, age : Nat,
             reachable : BOOLEAN, reason : Reasons]

(* What peers.json says of one neighbour. *)
Verdict == [cfg : RadioConfig, reachable : BOOLEAN, reason : Reasons]

ASSUME PolicyAssumption ==
  /\ NEIGHBOR_MAX \in Nat \ {0}
  /\ NEIGHBOR_TIMEOUT \in Nat
  /\ AgeCap \in Nat /\ AgeCap > NEIGHBOR_TIMEOUT
  /\ NoNeighbor \notin Neighbor \cup Verdict

TableEntry == Neighbor \cup {NoNeighbor}

StatusEntry == Verdict \cup {NoNeighbor}

Table == [Slots -> TableEntry]

EmptyTable == [i \in Slots |-> NoNeighbor]

Used(nbrs) == {i \in Slots : nbrs[i] # NoNeighbor}

-----------------------------------------------------------------------------
(* Entering the table.  It is keyed by node number.                        *)

Holds(nbrs, i, node) == i \in Used(nbrs) /\ nbrs[i].cfg.node = node

(* find_neighbor: the first slot that holds the node. *)
FindNeighbor(nbrs, i, node) ==
  /\ Holds(nbrs, i, node)
  /\ \A j \in Slots : j < i => ~Holds(nbrs, j, node)

(* alloc_neighbor: the first free slot. *)
AllocNeighbor(nbrs, i) ==
  /\ i \notin Used(nbrs)
  /\ \A j \in Slots : j < i => j \in Used(nbrs)

(* An error the search could make: it ends at the first free slot. *)
UnknownBeforeGap(nbrs, node) ==
  \A i \in Slots : (\A j \in 1 .. i : j \in Used(nbrs)) => ~Holds(nbrs, i, node)

Unknown(nbrs, node) == \A i \in Slots : ~Holds(nbrs, i, node)

(* No node occupies two slots. *)
KeyedByNode(nbrs) ==
  \A i, j \in Used(nbrs) : nbrs[i].cfg.node = nbrs[j].cfg.node => i = j

NeighborDiffers(entry, f) == entry.cfg # f.cfg \/ entry.mac # f.mac

(* The entry takes the frame's configuration and address; young again. *)
Refreshed(nbrs, i, f) ==
  [nbrs EXCEPT ![i].cfg = f.cfg, ![i].mac = f.mac, ![i].age = 0]

(* A new entry: the slot is all zeroes, so not reachable, and reason OK. *)
Added(nbrs, i, f) ==
  [nbrs EXCEPT ![i] = [cfg |-> f.cfg, mac |-> f.mac, age |-> 0,
                       reachable |-> FALSE, reason |-> "OK"]]

-----------------------------------------------------------------------------
(* Ageing.                                                                 *)

Older(age) == IF age < AgeCap THEN age + 1 ELSE age

Aged(nbrs) ==
  [i \in Slots |-> IF i \in Used(nbrs)
                   THEN [nbrs[i] EXCEPT !.age = Older(@)]
                   ELSE NoNeighbor]

(* An error prune_neighbors could make: it frees reachable entries only. *)
AgedOutReachable(nbrs) ==
  {i \in Used(nbrs) : nbrs[i].reachable /\ nbrs[i].age > NEIGHBOR_TIMEOUT}

AgedOut(nbrs) ==
  {i \in Used(nbrs) : nbrs[i].age > NEIGHBOR_TIMEOUT}

(* An error prune_neighbors could make: it does not report what it dropped. *)
NoneAgedOut(nbrs) == FALSE

SomeAgedOut(nbrs) == AgedOut(nbrs) # {}

Pruned(nbrs) ==
  [i \in Slots |-> IF i \in AgedOut(nbrs) THEN NoNeighbor ELSE nbrs[i]]

-----------------------------------------------------------------------------
(* Reachability: the code's computation.                                   *)

SameSubnetParams(a, b) == a.params = b.params

MatchingMasters(loc, nbrs) ==
  {i \in Used(nbrs) : /\ SameSubnetParams(loc, nbrs[i].cfg)
                      /\ nbrs[i].cfg.prime}

(* An error the count could make: it forgets the local node. *)
CountPeerMasters(loc, nbrs) == Cardinality(MatchingMasters(loc, nbrs))

CountMatchingMasters(loc, nbrs) ==
  (IF loc.prime THEN 1 ELSE 0) + Cardinality(MatchingMasters(loc, nbrs))

PeerReason(loc, nbrs, i) ==
  LET same    == SameSubnetParams(loc, nbrs[i].cfg)
      masters == CountMatchingMasters(loc, nbrs)
  IN  CASE ~same               -> "PARAM_MISMATCH"
        [] same /\ masters = 0 -> "NO_MASTER"
        [] same /\ masters > 1 -> "MULTI_MASTER"
        [] same /\ masters = 1 -> "OK"

UpdatePeerReachability(loc, nbrs) ==
  [i \in Slots |->
     IF i \in Used(nbrs)
     THEN [nbrs[i] EXCEPT !.reachable = PeerReason(loc, nbrs, i) = "OK",
                          !.reason = PeerReason(loc, nbrs, i)]
     ELSE NoNeighbor]

(* The slots the daemons write whitelist flows for. *)
Reachable(nbrs) == {i \in Used(nbrs) : nbrs[i].reachable}

-----------------------------------------------------------------------------
(* The reference rule.  Member 0 is the local node, member i > 0 the       *)
(* neighbour in slot i.  The subnet is the set of nodes whose parameters   *)
(* match the local ones; it is valid when exactly one of them is a master; *)
(* business traffic is admitted between the local node and each neighbour  *)
(* of a valid subnet, and with nobody otherwise.                           *)

MemberConfig(loc, nbrs, i) == IF i = 0 THEN loc ELSE nbrs[i].cfg

InSubnet(loc, nbrs) ==
  {i \in {0} \cup Used(nbrs) : MemberConfig(loc, nbrs, i).params = loc.params}

SubnetMasters(loc, nbrs) ==
  {i \in InSubnet(loc, nbrs) : MemberConfig(loc, nbrs, i).prime}

Admissible(loc, nbrs) ==
  IF Cardinality(SubnetMasters(loc, nbrs)) = 1
  THEN InSubnet(loc, nbrs) \ {0}
  ELSE {}

-----------------------------------------------------------------------------
(* Flows.  The base flows come in the groups the daemons add one after the *)
(* other: the 0x88B5 management frames, the UDP and management-address     *)
(* flows, and the ARP and drop defaults.  Four flows admit the traffic     *)
(* between two business addresses.                                         *)

BaseGroups == <<"mgmt", "service", "default">>

BaseFlow == {"mgmt", "service", "default"}

Kinds == <<"ip_out", "ip_in", "arp_out", "arp_in">>

FirstGroups(k) == {BaseGroups[g] : g \in 1 .. k}

FirstPeerFlows(loc, cfg, k) == {<<Kinds[f], loc.ip, cfg.ip>> : f \in 1 .. k}

PeerFlows(loc, cfg) == FirstPeerFlows(loc, cfg, 4)

Flow == {"ip_out", "ip_in", "arp_out", "arp_in"} \X Ips \X Ips

(* The whitelist the reference rule asks for. *)
Whitelist(loc, nbrs) ==
  UNION {PeerFlows(loc, nbrs[i].cfg) : i \in Admissible(loc, nbrs)}

-----------------------------------------------------------------------------
(* peers.json holds the local configuration and one entry per neighbour.   *)

(* An error the writer could make: it forgets to ask for a single master. *)
StatusOfMatching(loc, nbrs) ==
  [local |-> loc,
   peers |-> [i \in Slots |->
                IF i \in Used(nbrs)
                THEN [cfg |-> nbrs[i].cfg,
                      reachable |-> SameSubnetParams(loc, nbrs[i].cfg),
                      reason |-> nbrs[i].reason]
                ELSE NoNeighbor]]

StatusOf(loc, nbrs) ==
  [local |-> loc,
   peers |-> [i \in Slots |->
                IF i \in Used(nbrs)
                THEN [cfg |-> nbrs[i].cfg, reachable |-> nbrs[i].reachable,
                      reason |-> nbrs[i].reason]
                ELSE NoNeighbor]]

Status == [local : RadioConfig, peers : [Slots -> StatusEntry]]

(* What such a file tells its readers. *)
ReportedReachable(status) ==
  {i \in Used(status.peers) : status.peers[i].reachable}

(* A file is consistent in itself when a peer is reported reachable, with  *)
(* reason OK, exactly if the rule admits it given the rest of the file.    *)
Consistent(status) ==
  \A i \in Used(status.peers) :
    /\ status.peers[i].reachable
         <=> i \in Admissible(status.local, status.peers)
    /\ status.peers[i].reason = "OK" <=> status.peers[i].reachable

-----------------------------------------------------------------------------
(* The table and the file as Radio, the abstract radio, sees them.         *)

HeardFrom(nbrs) == {nbrs[i].cfg : i \in Used(nbrs)}

PictureIn(status) ==
  [local |-> status.local,
   peers |-> {status.peers[i] : i \in Used(status.peers)}]

=============================================================================
