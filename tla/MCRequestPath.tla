---------------------------- MODULE MCRequestPath ----------------------------
(* The hosts of the NS and the calls of the runs. *)
EXTENDS RequestPath

CONSTANTS h1, h2, s1, s2

FactoryBodies == [d \in Devices |-> [dev |-> d, set |-> s2, ip |-> NsIp]]
TwoFields == [d \in Devices |-> 2]
ThreeFields == [d \in Devices |-> 3]

(* The record of a device, and what one finds who reads elsewhere. *)
Rec(d, s) == [fmt |-> 1, type |-> RADIO_TYPE[d], set |-> s]
Noise == [fmt |-> 0, type |-> 0, set |-> s2]

(* Records one after the other, as long as those of d. *)
Payload(d, rs) ==
  [i \in 1 .. SHORT_PARAM_LEN[d] * Len(rs) |->
     IF (i - 1) % SHORT_PARAM_LEN[d] = 0
     THEN rs[(i - 1) \div SHORT_PARAM_LEN[d] + 1] ELSE Noise]

Query(d, n) == [kind |-> "query", dev |-> d, via |-> "relay", parts |-> n]
Inject(d, rs) ==
  [kind |-> "inject", dev |-> d, via |-> "relay", payload |-> Payload(d, rs)]
Direct(c) == [c EXCEPT !.via = "device"]

(* Queries of both kinds to two devices; a good injection; one of another  *)
(* device's record, which the relay takes to that one; two the relay       *)
(* drops, for a marker and for the length; and one past the relay of which *)
(* the service refuses a record.                                           *)
PathCalls ==
  {Query("xtl", 0), Query("xtl", 2), Query("ckl", 0),
   Inject("xtl", <<Rec("xtl", s1)>>),
   Inject("xtl", <<Rec("zzw", s1)>>),
   Inject("xtl", <<Rec("xtl", s1), Rec("zzw", s1)>>),
   Inject("ckl", <<Rec("xtl", s1)>>),
   Direct(Inject("xtl", <<Rec("zzw", s2), Rec("xtl", s2)>>))}

(* What a single host asks of one device, again and again: fragments by    *)
(* way of the relay, the rest past it, with a record the service refuses.  *)
LateCalls ==
  {Query("xtl", 2), Direct(Query("xtl", 0)),
   Direct(Inject("xtl", <<Rec("xtl", s1)>>)),
   Direct(Inject("xtl", <<Noise>>))}

=============================================================================
