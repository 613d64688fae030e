----------------------------- MODULE RequestPath -----------------------------
(***************************************************************************)
(* The way of a request: the parameter client on a host of the NS          *)
(* (radio_param_client.py), the relay (relay.py) and the parameter         *)
(* services of the devices (radio_param_service.py).  A call of the client *)
(* is a process of its own: it binds the port answers come to, sends one   *)
(* datagram, counts what arrives, and ends when it has enough or its time  *)
(* is up.  Every hop is a UDP datagram, which may be lost, delayed and     *)
(* overtaken; a call may give up, or be killed, at any moment, and leave   *)
(* what it caused in the network.                                          *)
(*                                                                         *)
(* Plain answers and acknowledgements carry nothing that says which call   *)
(* they answer; fragments carry a transaction number taken from the clock. *)
(* "id", "seen", "stale" and "used" are history that no program reads.     *)
(***************************************************************************)
EXTENDS Integers, Sequences, FiniteSets

CONSTANTS
  Hosts,       \* addresses of the NS
  Allowed,     \* those the relay serves (allowedNsIps)
  NsIp,        \* the one it sends reports without an envelope to
  Reporters,   \* the devices that report their topology meanwhile
  Settings,    \* what a short record carries
  Factory,     \* what a device holds at the beginning
  Calls,       \* the calls of the client
  AckCount,    \* fields of a record of each device
  TidModulus,  \* transaction numbers: 2^16
  MaxCalls, MaxClock, MaxLosses   \* bounds of a behaviour

Devices == {"ckl", "xtl", "zzw"}
NoDevice == "none"   \* what the relay makes of a record it does not know

-----------------------------------------------------------------------------
(* The tables of the client and the services (radio_protocol_common.py).   *)

SHORT_FMT_VERSION == 1
SHORT_PARAM_LEN == [ckl |-> 9, xtl |-> 12, zzw |-> 12]
RADIO_TYPE == [ckl |-> 1, xtl |-> 2, zzw |-> 3]
QUERY_EQUIP == [ckl |-> 1, xtl |-> 2, zzw |-> 4]

(* The relay's own (relay.py).                                             *)

RADIO_TYPES == <<"ckl", "xtl", "zzw">>
QUERY_TYPES == [code \in {1, 2, 4} |-> CASE code = 1 -> "ckl"
                                        [] code = 2 -> "xtl"
                                        [] code = 4 -> "zzw"]
DEVICE_QUERY_CODES == [ckl |-> 1, xtl |-> 2, zzw |-> 4]
DEVICE_SHORT_LENGTHS == [ckl |-> 9, xtl |-> 12, zzw |-> 12]
DEVICE_SHORT_MARKERS == [ckl |-> <<1, 1>>, xtl |-> <<1, 2>>, zzw |-> <<1, 3>>]

(* A payload is a sequence as long as its bytes: at each byte, what one    *)
(* finds who begins to read a record there.  Programs that cut it at       *)
(* different lengths read different records.                               *)
Records == [fmt : Nat, type : Nat, set : Settings]

(* A query asks for one datagram (parts = 0) or for that many fragments;   *)
(* the client is given the address of the relay or of the device itself.   *)
QueryCalls  == [kind : {"query"}, dev : Devices, via : {"relay", "device"},
                parts : Nat]

(* An injection has whole records of the device it is meant for, as far as *)
(* the length tells; one that began with 10 and 1 would be a query.        *)
InjectCalls ==
  {c \in [kind : {"inject"}, dev : Devices, via : {"relay", "device"},
          payload : Seq(Records) \ {<<>>}] :
     /\ Len(c.payload) % SHORT_PARAM_LEN[c.dev] = 0
     /\ <<c.payload[1].fmt, c.payload[1].type>> # <<10, 1>>}

Bodies == [dev : Devices, set : Settings, ip : Hosts]

ASSUME PathAssumption ==
  /\ Allowed \subseteq Hosts
  /\ NsIp \in Allowed
  /\ Reporters \subseteq Devices
  /\ Calls # {} /\ Calls \subseteq QueryCalls \cup InjectCalls
  /\ Factory \in [Devices -> Bodies] /\ \A d \in Devices : Factory[d].dev = d
  /\ AckCount \in [Devices -> Nat \ {0}]
  /\ AckCount["xtl"] = AckCount["zzw"]   \* seven fields each
  /\ TidModulus \in Nat \ {0}
  /\ MaxCalls \in Nat /\ MaxClock \in Nat /\ MaxLosses \in Nat

VARIABLES
  param,    \* the parameters each device holds
  net,      \* the datagrams in transit
  client,   \* the call of each host, the one running or the last one
  calls,    \* calls made so far
  clock,    \* seconds
  losses    \* datagrams lost so far

vars == <<param, net, client, calls, clock, losses>>

-----------------------------------------------------------------------------
(* Datagrams.                                                              *)

(* To the relay, from there to a device, back to the relay, and to a host. *)
Datagram(hop, host, dev, wrapped, port, id, data) ==
  [hop |-> hop, host |-> host, dev |-> dev, wrapped |-> wrapped,
   port |-> port, id |-> id, data |-> data]

NoCall == <<NsIp, 0>>

(* A query whose answer comes in fragments. *)
InParts(c) == c.kind = "query" /\ c.parts > 0

(* What a call sends. *)
Request(c, tid) ==
  IF c.kind = "query"
  THEN [kind |-> "query", code |-> QUERY_EQUIP[c.dev], tid |-> tid,
        parts |-> c.parts]
  ELSE [kind |-> "inject", payload |-> c.payload]

(* Whom a call reaches, if anyone: the device it is sent to or, through    *)
(* the relay, the one its first record names.  The client does not read a  *)
(* payload given in hex, so that may be another device than the one on its *)
(* command line.                                                           *)
Target(c) ==
  LET named == {d \in Devices : RADIO_TYPE[d] = c.payload[1].type}
  IN  IF c.kind = "query" \/ c.via = "device" THEN c.dev
      ELSE IF named = {} THEN NoDevice ELSE CHOOSE d \in named : TRUE

(* What the device a call reaches holds at this moment. *)
HeldNow(c) == {param[d] : d \in Devices \cap {Target(c)}}

(* The port an answer goes to. *)
ReplyPort(data) == IF data.kind = "query" THEN "response" ELSE "event"

(* split_short_injections: where the service of d begins to read a record. *)
(* What it cannot cut into records it refuses as a whole.                  *)
Pieces(d, payload) ==
  IF Len(payload) % SHORT_PARAM_LEN[d] = 0
  THEN {i \in DOMAIN payload : (i - 1) % SHORT_PARAM_LEN[d] = 0}
  ELSE {1}

(* validate_short_header: the records it takes. *)
Good(d, payload) ==
  {i \in Pieces(d, payload) :
     /\ Len(payload) % SHORT_PARAM_LEN[d] = 0
     /\ payload[i].fmt = SHORT_FMT_VERSION
     /\ payload[i].type = RADIO_TYPE[d]}

(* The last of them that counts. *)
LastGood(d, payload) ==
  CHOOSE i \in Good(d, payload) : \A j \in Good(d, payload) : j <= i

Taking(d, payload, host) ==
  [dev |-> d, set |-> payload[LastGood(d, payload)].set, ip |-> host]

(* apply_injections: what the device holds afterwards. *)
Applied(d, payload, host) ==
  IF Good(d, payload) = {} THEN param[d] ELSE Taking(d, payload, host)

(* An error serve could make: every field is acknowledged as done. *)
AcksBlind(d, payload) ==
  {[kind |-> "ack", record |-> k, field |-> i, ok |-> TRUE] :
     k \in Pieces(d, payload), i \in 1 .. AckCount[d]}

(* The acknowledgements: one for each field of a record it takes, a single *)
(* one for a record it refuses.                                            *)
Acks(d, payload) ==
  UNION {IF k \in Good(d, payload)
         THEN {[kind |-> "ack", record |-> k, field |-> i, ok |-> TRUE] :
                 i \in 1 .. AckCount[d]}
         ELSE {[kind |-> "ack", record |-> k, field |-> 1, ok |-> FALSE]} :
         k \in Pieces(d, payload)}

(* query_matches_service: a bit of its own for every device. *)
QueryMatches(d, code) == (code \div QUERY_EQUIP[d]) % 2 = 1

(* The answer to a query, in one piece or in fragments. *)
Answer(q, body) ==
  IF q.parts = 0 THEN {[kind |-> "full", body |-> body]}
  ELSE {[kind |-> "part", tid |-> q.tid, total |-> q.parts, idx |-> i,
         body |-> body] : i \in 0 .. q.parts - 1}

-----------------------------------------------------------------------------
(* The client.                                                             *)

Running(h) == client[h].st \in {"query", "inject"}

Closed(st, c, id) ==
  [st |-> st, call |-> c, tid |-> 0, id |-> id, got |-> {}, seen |-> {},
   stale |-> {}, used |-> {}]

Init ==
  /\ param = Factory
  /\ net = {}
  /\ client \in [Hosts -> {Closed("none", CHOOSE c \in Calls : TRUE, NoCall)}]
  /\ calls = 0
  /\ clock = 0
  /\ losses = 0

(* Could call c, with this number, take the datagram, or what comes of it, *)
(* for an answer of its own?                                               *)
MayCount(c, tid, data) ==
  IF c.kind = "inject" THEN data.kind \in {"inject", "ack"}
  ELSE IF c.parts = 0
       THEN data.kind = "full" \/ (data.kind = "query" /\ data.parts = 0)
  ELSE /\ data.kind = "part" \/ (data.kind = "query" /\ data.parts > 0)
       /\ data.tid = tid

(* The earlier calls of the host that have such datagrams under way. *)
Stale(h, c, tid) ==
  {m.id : m \in {x \in net : x.host = h /\ MayCount(c, tid, x.data)}}

(* The numbers its earlier queries for fragments had. *)
Used(h) ==
  client[h].used \cup
    IF client[h].st # "none" /\ InParts(client[h].call)
    THEN {client[h].tid} ELSE {}

(* The number of a query is the time, plus one. *)
NextTid == (clock + 1) % TidModulus

(* An error the client could make: a repeated call keeps what it has. *)
OpenedAgain(h, c) ==
  [st |-> c.kind, call |-> c, tid |-> NextTid, id |-> <<h, calls + 1>>,
   seen |-> HeldNow(c), stale |-> Stale(h, c, NextTid), used |-> Used(h),
   got |-> IF client[h].call = c THEN client[h].got ELSE {}]

(* A process of its own, that has nothing yet.                             *)
Opened(h, c) ==
  [st |-> c.kind, call |-> c, tid |-> NextTid, id |-> <<h, calls + 1>>,
   seen |-> HeldNow(c), stale |-> Stale(h, c, NextTid), used |-> Used(h),
   got |-> {}]

(* query and send_injection, up to the datagram. *)
StartCall(h, c) ==
  /\ ~Running(h)
  /\ calls < MaxCalls
  /\ LET o == Opened(h, c)
         r == Request(c, o.tid)
     IN  /\ client' = [client EXCEPT ![h] = o]
         /\ net' = net \cup
              {IF c.via = "relay"
               THEN Datagram("relay", h, NoDevice, FALSE, "request", o.id, r)
               ELSE Datagram("device", h, c.dev, FALSE, "request", o.id, r)}
  /\ calls' = calls + 1
  /\ UNCHANGED <<param, clock, losses>>

Finish(h, st, got) ==
  client' = [client EXCEPT ![h].st = st, ![h].got = got]

(* query without fragments: the first datagram is the answer, if it has    *)
(* the length of the device's answers.                                     *)
AcceptFull(h, m) ==
  /\ client[h].call.parts = 0
  /\ IF m.data.kind = "full" /\ m.data.body.dev = client[h].call.dev
     THEN Finish(h, "answered", {m})
     ELSE Finish(h, "invalid", {})

(* An error recv_fragments could make: it does not look at the number. *)
OwnPartAny(h, d) ==
  /\ d.kind = "part"
  /\ \A g \in client[h].got : g.data.total = d.total /\ g.data.idx # d.idx

(* A fragment of this call's answer that is not there yet. *)
OwnPart(h, d) ==
  /\ d.kind = "part"
  /\ d.tid = client[h].tid
  /\ \A g \in client[h].got : g.data.total = d.total /\ g.data.idx # d.idx

(* recv_fragments; the length of what it puts together tells the device.   *)
AcceptPart(h, m) ==
  /\ InParts(client[h].call)
  /\ LET got == client[h].got \cup {m}
     IN  IF ~OwnPart(h, m.data) THEN UNCHANGED client
         ELSE IF Cardinality(got) < m.data.total
              THEN Finish(h, "query", got)
         ELSE IF \A g \in got : g.data.body.dev = client[h].call.dev
              THEN Finish(h, "answered", got)
              ELSE Finish(h, "invalid", {})

(* An error send_injection could make: it also counts the two header       *)
(* fields.                                                                 *)
ExpectedAcksAll(c) ==
  (Len(c.payload) \div SHORT_PARAM_LEN[c.dev]) * (AckCount[c.dev] + 2)

(* Another: it forgets that there may be several records.                  *)
ExpectedAcksOnce(c) == AckCount[c.dev]

ExpectedAcks(c) ==
  (Len(c.payload) \div SHORT_PARAM_LEN[c.dev]) * AckCount[c.dev]

(* send_injection counts every two-byte acknowledgement. *)
AcceptAck(h, m) ==
  IF m.data.kind # "ack" THEN UNCHANGED client
  ELSE LET got == client[h].got \cup {m}
       IN  Finish(h, IF Cardinality(got) >= ExpectedAcks(client[h].call)
                     THEN "acked" ELSE "inject", got)

(* A datagram arrives at a host; nobody reads a port no call has bound.    *)
HostReceives(m) ==
  /\ m.hop = "host"
  /\ net' = net \ {m}
  /\ CASE client[m.host].st = "query" /\ m.port = "response" ->
            AcceptFull(m.host, m) \/ AcceptPart(m.host, m)
       [] client[m.host].st = "inject" /\ m.port = "event" ->
            AcceptAck(m.host, m)
       [] OTHER -> UNCHANGED client
  /\ UNCHANGED <<param, calls, clock, losses>>

(* A call gives up, or its process is interrupted. *)
TimeOut(h) ==
  /\ Running(h)
  /\ client' = [client EXCEPT ![h].st = "timedout"]
  /\ UNCHANGED <<param, net, calls, clock, losses>>

-----------------------------------------------------------------------------
(* The relay.                                                              *)

ClassifyPayload(data) ==
  IF data.kind = "query"
  THEN IF data.code \in DOMAIN QUERY_TYPES THEN QUERY_TYPES[data.code]
       ELSE NoDevice
  ELSE IF /\ data.payload[1].fmt = 1
          /\ data.payload[1].type \in DOMAIN RADIO_TYPES
       THEN RADIO_TYPES[data.payload[1].type] ELSE NoDevice

Marker(record) == <<record.fmt, record.type>>

(* An error validate_payload could make: it does not look beyond the first *)
(* marker.                                                                 *)
ValidateFirst(d, data) ==
  IF data.kind = "query" THEN data.code = DEVICE_QUERY_CODES[d]
  ELSE /\ Len(data.payload) % DEVICE_SHORT_LENGTHS[d] = 0
       /\ Marker(data.payload[1]) = DEVICE_SHORT_MARKERS[d]

ValidatePayload(d, data) ==
  IF data.kind = "query" THEN data.code = DEVICE_QUERY_CODES[d]
  ELSE /\ Len(data.payload) % DEVICE_SHORT_LENGTHS[d] = 0
       /\ \A i \in DOMAIN data.payload :
            (i - 1) % DEVICE_SHORT_LENGTHS[d] = 0
              => Marker(data.payload[i]) = DEVICE_SHORT_MARKERS[d]

(* _on_ns_request. *)
RelayRequest(m) ==
  /\ m.hop = "relay"
  /\ LET d == ClassifyPayload(m.data)
         forwarded == Datagram("device", m.host, d, TRUE, ReplyPort(m.data), m.id, m.data)
     IN  net' = (net \ {m}) \cup
            IF m.host \in Allowed /\ d # NoDevice /\ ValidatePayload(d, m.data)
            THEN {forwarded} ELSE {}
  /\ UNCHANGED <<param, client, calls, clock, losses>>

(* An error _on_device_packet could make: it answers the NS it is          *)
(* configured with.                                                        *)
ReplyHostFixed(m) == NsIp

(* The host an answer goes to: the one in the envelope. *)
ReplyHost(m) == IF m.wrapped THEN m.host ELSE NsIp

(* _on_device_packet. *)
RelayAnswer(m) ==
  /\ m.hop = "gateway"
  /\ net' = (net \ {m}) \cup
       IF ReplyHost(m) \in Allowed
       THEN {Datagram("host", ReplyHost(m), m.dev, FALSE, m.port, m.id, m.data)}
       ELSE {}
  /\ UNCHANGED <<param, client, calls, clock, losses>>

-----------------------------------------------------------------------------
(* The devices.                                                            *)

(* Back the way the request came. *)
Reply(m, data) ==
  IF m.wrapped
  THEN Datagram("gateway", m.host, m.dev, TRUE, m.port, m.id, data)
  ELSE Datagram("host", m.host, m.dev, FALSE, ReplyPort(m.data), m.id, data)

(* serve, a query. *)
ServeQuery(m) ==
  /\ m.hop = "device"
  /\ m.data.kind = "query"
  /\ net' = (net \ {m}) \cup
       IF QueryMatches(m.dev, m.data.code)
       THEN {Reply(m, a) : a \in Answer(m.data, param[m.dev])} ELSE {}
  /\ UNCHANGED <<param, client, calls, clock, losses>>

(* serve, an injection. *)
ServeInjection(m) ==
  /\ m.hop = "device"
  /\ m.data.kind = "inject"
  /\ LET b == Applied(m.dev, m.data.payload, m.host)
     IN  /\ param' = [param EXCEPT ![m.dev] = b]
         /\ client' = [h \in Hosts |->
              IF Running(h) /\ Target(client[h].call) = m.dev
              THEN [client[h] EXCEPT !.seen = @ \cup {b}] ELSE client[h]]
  /\ net' = (net \ {m}) \cup {Reply(m, a) : a \in Acks(m.dev, m.data.payload)}
  /\ UNCHANGED <<calls, clock, losses>>

(* topology_reporter sends what it knows, without being asked, in an       *)
(* envelope if it was told the NS address.                                 *)
Report(d, wrapped) ==
  /\ \A m \in net : m.data.kind # "report"
  /\ net' = net \cup
       {Datagram("gateway", NsIp, d, wrapped, "event", NoCall, [kind |-> "report"])}
  /\ UNCHANGED <<param, client, calls, clock, losses>>

-----------------------------------------------------------------------------

Lose(m) ==
  /\ losses < MaxLosses
  /\ net' = net \ {m}
  /\ losses' = losses + 1
  /\ UNCHANGED <<param, client, calls, clock>>

Tick ==
  /\ clock < MaxClock
  /\ clock' = clock + 1
  /\ UNCHANGED <<param, net, client, calls, losses>>

Next ==
  \/ \E h \in Hosts, c \in Calls : StartCall(h, c)
  \/ \E h \in Hosts : TimeOut(h)
  \/ \E m \in net : \/ RelayRequest(m) \/ RelayAnswer(m)
                    \/ ServeQuery(m) \/ ServeInjection(m)
                    \/ HostReceives(m) \/ Lose(m)
  \/ \E d \in Reporters, wrapped \in BOOLEAN : Report(d, wrapped)
  \/ Tick

Spec == Init /\ [][Next]_vars

-----------------------------------------------------------------------------
(* Properties.                                                             *)

(* Every variable keeps its type; a running call holds no more answers     *)
(* than it waits for, and holds datagrams for its own host only.           *)
TypeOK ==
  /\ param \in [Devices -> Bodies]
  /\ \A d \in Devices : param[d].dev = d
  /\ \A m \in net : m.hop \in {"relay", "device", "gateway", "host"}
                    /\ m.host \in Hosts
  /\ \A h \in Hosts :
       /\ client[h].st \in
            {"none", "query", "inject", "answered", "invalid", "acked", "timedout"}
       /\ client[h].call \in Calls
       /\ Running(h) => client[h].st = client[h].call.kind
       /\ client[h].st = "inject" =>
            Cardinality(client[h].got) < ExpectedAcks(client[h].call)
       /\ \A g \in client[h].got : g.host = h
  /\ calls \in 0 .. MaxCalls
  /\ clock \in 0 .. MaxClock
  /\ losses \in 0 .. MaxLosses

(* What a query prints is a set of parameters the device held, as a whole, *)
(* between the call and its end, unless an earlier call of the host had an *)
(* answer under way that looks like its own (query, recv_fragments).       *)
QueryCurrent ==
  \A h \in Hosts : client[h].st = "answered" /\ client[h].stale = {} =>
    \E b \in client[h].seen : \A g \in client[h].got : g.data.body = b

(* The same of a query for fragments, whatever earlier calls have left in  *)
(* the network, if none of them had its number: queries of one second, or  *)
(* a whole round of numbers apart, share it (_query_tid).                  *)
FragmentsCurrent ==
  \A h \in Hosts :
    /\ client[h].st = "answered"
    /\ InParts(client[h].call)
    /\ client[h].tid \notin client[h].used
    => \E b \in client[h].seen : \A g \in client[h].got : g.data.body = b

(* The client and the service read the same records in a payload. *)
CutAlike(c) ==
  \A d \in Devices \cap {Target(c)} : SHORT_PARAM_LEN[d] = SHORT_PARAM_LEN[c.dev]

(* The device a call reaches takes all of it. *)
TakesAll(c) ==
  c.kind = "inject" => /\ Target(c) \in Devices
                       /\ Good(Target(c), c.payload) = Pieces(Target(c), c.payload)

(* What a call has of its own, and what it has counted of earlier ones. *)
Own(k) == {g \in k.got : g.id = k.id}
Late(k) == k.got \ Own(k)

(* An injection that has all its acknowledgements (send_injection, serve): *)
(* they are its own, if no earlier injection was under way when it began;  *)
(* no record was refused, unless late ones have made up for those that the *)
(* service does not send; and if they say success and one of them is its   *)
(* own, the device took its last good record while it ran.                 *)
AckedMeansTaken ==
  \A h \in Hosts : client[h].st = "acked" =>
    LET k == client[h]
        d == Target(k.call)
    IN  /\ k.stale = {} => Late(k) = {}
        /\ CutAlike(k.call) /\ Cardinality(Late(k)) + 1 < AckCount[k.call.dev]
             => TakesAll(k.call)
        /\ Own(k) # {} /\ (\A g \in k.got : g.data.ok)
             => Good(d, k.call.payload) # {} /\ Taking(d, k.call.payload, h) \in k.seen

(* What the relay passes on, the service serves in full: it recognises the *)
(* query, or cuts the payload into records and refuses none, although each *)
(* has tables of its own (validate_payload, apply_injections).             *)
RelayAgrees ==
  \A m \in net : m.hop = "device" /\ m.wrapped =>
    IF m.data.kind = "query" THEN QueryMatches(m.dev, m.data.code)
    ELSE Good(m.dev, m.data.payload) = Pieces(m.dev, m.data.payload)

(* An answer goes to the host that asked, although the relay keeps no      *)
(* table of requests (the envelope's nsIp).                                *)
AnswersStayHome ==
  \A m \in net : m.id # NoCall => m.host = m.id[1]

(* As long as nothing is lost, a running call has an answer to come, as    *)
(* many as it waits for, unless it is refused.  The relay drops what it    *)
(* does not serve, and an injection with bad records; past the relay the   *)
(* service sends one acknowledgement for a bad record where the client     *)
(* waits for one per field, and the call has these when nothing comes any  *)
(* more.  (A fragment of the same number may keep out the call's own.)     *)
OnlyRefusedWait ==
  losses = 0 =>
    \A h \in Hosts :
      LET k == client[h]
          d == Target(k.call)
          good == Good(d, k.call.payload)
      IN  /\ Running(h)
          /\ InParts(k.call) => k.stale = {}
          /\ CutAlike(k.call)
          /\ \A m \in net : m.id # k.id
          => IF k.call.via = "relay"
             THEN (h \notin Allowed \/ ~TakesAll(k.call)) /\ Own(k) = {}
             ELSE /\ ~TakesAll(k.call)
                  /\ Cardinality(Own(k)) =
                       AckCount[d] * Cardinality(good)
                         + Cardinality(Pieces(d, k.call.payload) \ good)

(* A call that has what it waited for leaves nothing in the network, if    *)
(* nothing was there when it began: a host whose calls all succeed starts  *)
(* every one of them clean.                                                *)
NothingLeft ==
  \A h \in Hosts :
    LET k == client[h]
    IN  /\ k.st \in {"answered", "acked"}
        /\ k.stale = {}
        /\ CutAlike(k.call)
        => \A m \in net : m.id # k.id

=============================================================================
