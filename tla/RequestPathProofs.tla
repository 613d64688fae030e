-------------------------- MODULE RequestPathProofs --------------------------
(***************************************************************************)
(* The relay keeps no table of the requests it passed on.  That an answer  *)
(* finds its way home rests on what travels in the datagrams alone; that a *)
(* device serves all it is handed, on tables that two programs keep of the *)
(* same records.                                                           *)
(*                                                                         *)
(* What a call of the client gets takes more: plain answers and            *)
(* acknowledgements do not say which call they belong to, so the proof     *)
(* follows every datagram a call has caused, from the request to the last  *)
(* of the replies, and keeps apart from them what earlier calls of the     *)
(* host have left in the network.                                          *)
(***************************************************************************)
EXTENDS RequestPath, NumberLemmas, FiniteSetTheorems, TLAPS

-----------------------------------------------------------------------------
(* Answers.                                                                *)

(* Answers to a call are in an envelope when they reach the relay, and     *)
(* every datagram of a call names the host that made it.                   *)
Addressed ==
  \A m \in net :
    /\ m.id # NoCall => m.host = m.id[1]
    /\ m.hop = "gateway" /\ ~m.wrapped => m.id = NoCall

(* Nothing is in transit at the beginning. *)
LEMMA AddressedInit == Init => Addressed
  BY DEF Init, Addressed

(* Every step keeps the addresses right. *)
LEMMA AddressedStep == Addressed /\ [Next]_vars => Addressed'
<1> SUFFICES ASSUME Addressed, [Next]_vars PROVE Addressed'
  OBVIOUS
<1> USE DEF Addressed
<1>1. ASSUME NEW h \in Hosts, NEW c \in Calls, StartCall(h, c)
      PROVE  Addressed'
  <2>1. \A m \in net' \ net : /\ m.host = h /\ m.id = <<h, calls + 1>>
                              /\ m.hop # "gateway"
    BY <1>1 DEF StartCall, Opened, Datagram
  <2>. QED  BY <2>1
<1>2. ASSUME NEW m \in net, RelayRequest(m) PROVE Addressed'
  <2>1. \A n \in net' \ net : /\ n.host = m.host /\ n.id = m.id
                              /\ n.hop # "gateway"
    BY <1>2 DEF RelayRequest, Datagram
  <2>. QED  BY <2>1
<1>3. ASSUME NEW m \in net, RelayAnswer(m) PROVE Addressed'
  <2>1. \A n \in net' \ net : /\ n.host = ReplyHost(m) /\ n.id = m.id
                              /\ n.hop # "gateway"
    BY <1>3 DEF RelayAnswer, Datagram
  <2>2. m.id # NoCall => ReplyHost(m) = m.id[1]
    BY <1>3 DEF RelayAnswer, ReplyHost
  <2>. QED  BY <2>1, <2>2
<1>4. ASSUME NEW m \in net, NEW a
      PROVE  /\ Reply(m, a).host = m.host /\ Reply(m, a).id = m.id
             /\ Reply(m, a).hop = "gateway" => Reply(m, a).wrapped
  BY DEF Reply, Datagram
<1>5. ASSUME NEW m \in net, ServeQuery(m) PROVE Addressed'
  <2>1. \A n \in net' \ net : \E a \in Answer(m.data, param[m.dev]) : n = Reply(m, a)
    BY <1>5 DEF ServeQuery
  <2>. QED  BY <1>4, <2>1
<1>6. ASSUME NEW m \in net, ServeInjection(m) PROVE Addressed'
  <2>1. \A n \in net' \ net : \E a \in Acks(m.dev, m.data.payload) : n = Reply(m, a)
    BY <1>6 DEF ServeInjection
  <2>. QED  BY <1>4, <2>1
<1>7. ASSUME NEW d \in Reporters, NEW w \in BOOLEAN, Report(d, w) PROVE Addressed'
  <2>1. \A m \in net' \ net : m.id = NoCall
    BY <1>7 DEF Report, Datagram
  <2>. QED  BY <2>1
<1>8. ASSUME net' \subseteq net PROVE Addressed'
  BY <1>8
<1>9. ASSUME NEW m \in net, HostReceives(m) \/ Lose(m) PROVE Addressed'
  BY <1>8, <1>9 DEF HostReceives, Lose
<1>10. ASSUME NEW h \in Hosts, TimeOut(h) PROVE Addressed'
  BY <1>8, <1>10 DEF TimeOut
<1>11. CASE Tick \/ UNCHANGED vars
  BY <1>8, <1>11 DEF Tick, vars
<1>. QED
  BY <1>1, <1>2, <1>3, <1>5, <1>6, <1>7, <1>9, <1>10, <1>11 DEF Next

(* Answers go to the host that asked, without a table in the relay.        *)
THEOREM AnswersFindHome == Spec => []AnswersStayHome
<1>1. Addressed => AnswersStayHome
  BY DEF Addressed, AnswersStayHome
<1>. QED  BY <1>1, AddressedInit, AddressedStep, PTL DEF Spec

-----------------------------------------------------------------------------
(* The relay and the service.                                              *)

(* The relay takes a datagram to a device it knows, or nowhere. *)
LEMMA ClassifyForm ==
  ASSUME NEW data
  PROVE  ClassifyPayload(data) \in Devices \cup {NoDevice}
<1>1. \A i \in DOMAIN RADIO_TYPES : RADIO_TYPES[i] \in Devices
  BY DEF RADIO_TYPES, Devices
<1>2. \A i \in DOMAIN QUERY_TYPES : QUERY_TYPES[i] \in Devices
  BY DEF QUERY_TYPES, Devices
<1>. QED  BY <1>1, <1>2 DEF ClassifyPayload

(* What the service of a device serves in full. *)
Served(d, data) ==
  IF data.kind = "query" THEN QueryMatches(d, data.code)
  ELSE Good(d, data.payload) = Pieces(d, data.payload)

(* The tables of the relay are those of the services. *)
LEMMA TablesAgree ==
  ASSUME NEW d \in Devices
  PROVE  /\ QueryMatches(d, DEVICE_QUERY_CODES[d])
         /\ DEVICE_QUERY_CODES[d] = QUERY_EQUIP[d]
         /\ DEVICE_SHORT_LENGTHS[d] = SHORT_PARAM_LEN[d]
         /\ DEVICE_SHORT_MARKERS[d] = <<SHORT_FMT_VERSION, RADIO_TYPE[d]>>
         /\ RADIO_TYPE[d] \in DOMAIN RADIO_TYPES /\ RADIO_TYPES[RADIO_TYPE[d]] = d
         /\ QUERY_EQUIP[d] \in DOMAIN QUERY_TYPES /\ QUERY_TYPES[QUERY_EQUIP[d]] = d
         /\ SHORT_PARAM_LEN[d] \in {9, 12}
         /\ d # NoDevice
         /\ \A e \in Devices : RADIO_TYPE[e] = RADIO_TYPE[d] => e = d
<1> USE DEF Devices, DEVICE_QUERY_CODES, QUERY_EQUIP, DEVICE_SHORT_LENGTHS,
            SHORT_PARAM_LEN, DEVICE_SHORT_MARKERS, SHORT_FMT_VERSION, RADIO_TYPE,
            RADIO_TYPES, QUERY_TYPES, NoDevice
<1>1. QueryMatches(d, DEVICE_QUERY_CODES[d])
  <2>1. (1 \div 1) % 2 = 1 /\ (2 \div 2) % 2 = 1 /\ (4 \div 4) % 2 = 1
    OBVIOUS
  <2>. QED  BY <2>1 DEF QueryMatches
<1>2. /\ DEVICE_QUERY_CODES[d] = QUERY_EQUIP[d]
      /\ DEVICE_SHORT_LENGTHS[d] = SHORT_PARAM_LEN[d]
      /\ SHORT_PARAM_LEN[d] \in {9, 12}
      /\ d # NoDevice
      /\ \A e \in Devices : RADIO_TYPE[e] = RADIO_TYPE[d] => e = d
  OBVIOUS
<1>3. DEVICE_SHORT_MARKERS[d] = <<SHORT_FMT_VERSION, RADIO_TYPE[d]>>
  OBVIOUS
<1>4. RADIO_TYPE[d] \in DOMAIN RADIO_TYPES /\ RADIO_TYPES[RADIO_TYPE[d]] = d
  OBVIOUS
<1>5. QUERY_EQUIP[d] \in DOMAIN QUERY_TYPES /\ QUERY_TYPES[QUERY_EQUIP[d]] = d
  OBVIOUS
<1>. QED  BY <1>1, <1>2, <1>3, <1>4, <1>5

(* What the relay finds in order, the service does, too. *)
LEMMA PassedIsServed ==
  ASSUME NEW d \in Devices, NEW data, ValidatePayload(d, data)
  PROVE  Served(d, data)
<1>1. CASE data.kind = "query"
  BY <1>1, TablesAgree DEF ValidatePayload, Served
<1>2. CASE data.kind # "query"
  <2> DEFINE p == data.payload
             L == SHORT_PARAM_LEN[d]
  <2>1. /\ Len(p) % L = 0
        /\ \A i \in DOMAIN p : (i - 1) % L = 0 => Marker(p[i]) = <<SHORT_FMT_VERSION, RADIO_TYPE[d]>>
    BY <1>2, TablesAgree DEF ValidatePayload
  <2>2. \A i \in DOMAIN p : (i - 1) % L = 0 => /\ p[i].fmt = SHORT_FMT_VERSION
                                              /\ p[i].type = RADIO_TYPE[d]
    BY <2>1 DEF Marker
  <2>. QED  BY <1>2, <2>1, <2>2 DEF Served, Good, Pieces
<1>. QED  BY <1>1, <1>2

(* Nothing has been passed on at the beginning. *)
LEMMA AgreesInit == Init => RelayAgrees
  BY DEF Init, RelayAgrees

(* Only the relay hands a device an envelope, and it has looked into it.   *)
LEMMA AgreesStep == RelayAgrees /\ [Next]_vars => RelayAgrees'
<1> SUFFICES ASSUME RelayAgrees, [Next]_vars PROVE RelayAgrees'
  OBVIOUS
<1>0. ASSUME \A m \in net' \ net : m.hop = "device" /\ m.wrapped => Served(m.dev, m.data)
      PROVE  RelayAgrees'
  BY <1>0 DEF RelayAgrees, Served
<1>1. ASSUME NEW h \in Hosts, NEW c \in Calls, StartCall(h, c)
      PROVE  RelayAgrees'
  <2>1. \A m \in net' \ net : ~m.wrapped
    BY <1>1 DEF StartCall, Datagram
  <2>. QED  BY <1>0, <2>1
<1>2. ASSUME NEW m \in net, RelayRequest(m) PROVE RelayAgrees'
  <2> DEFINE d == ClassifyPayload(m.data)
  <2>1. \A n \in net' \ net : /\ n.dev = d /\ n.data = m.data
                              /\ d # NoDevice /\ ValidatePayload(d, m.data)
    BY <1>2 DEF RelayRequest, Datagram
  <2>2. d \in Devices \cup {NoDevice}
    BY ClassifyForm
  <2>3. \A n \in net' \ net : Served(n.dev, n.data)
    BY <2>1, <2>2, PassedIsServed
  <2>. QED  BY <1>0, <2>3
<1>3. ASSUME NEW m \in net, RelayAnswer(m) PROVE RelayAgrees'
  <2>1. \A n \in net' \ net : n.hop = "host"
    BY <1>3 DEF RelayAnswer, Datagram
  <2>. QED  BY <1>0, <2>1
<1>4. ASSUME NEW m \in net, NEW a PROVE Reply(m, a).hop # "device"
  BY DEF Reply, Datagram
<1>5. ASSUME NEW m \in net, ServeQuery(m) PROVE RelayAgrees'
  <2>1. \A n \in net' \ net : \E a \in Answer(m.data, param[m.dev]) : n = Reply(m, a)
    BY <1>5 DEF ServeQuery
  <2>. QED  BY <1>0, <1>4, <2>1
<1>6. ASSUME NEW m \in net, ServeInjection(m) PROVE RelayAgrees'
  <2>1. \A n \in net' \ net : \E a \in Acks(m.dev, m.data.payload) : n = Reply(m, a)
    BY <1>6 DEF ServeInjection
  <2>. QED  BY <1>0, <1>4, <2>1
<1>7. ASSUME NEW d \in Reporters, NEW w \in BOOLEAN, Report(d, w) PROVE RelayAgrees'
  <2>1. \A m \in net' \ net : m.hop = "gateway"
    BY <1>7 DEF Report, Datagram
  <2>. QED  BY <1>0, <2>1
<1>8. ASSUME net' \subseteq net PROVE RelayAgrees'
  BY <1>0, <1>8
<1>9. ASSUME NEW m \in net, HostReceives(m) \/ Lose(m) PROVE RelayAgrees'
  BY <1>8, <1>9 DEF HostReceives, Lose
<1>10. ASSUME NEW h \in Hosts, TimeOut(h) PROVE RelayAgrees'
  BY <1>8, <1>10 DEF TimeOut
<1>11. CASE Tick \/ UNCHANGED vars
  BY <1>8, <1>11 DEF Tick, vars
<1>. QED
  BY <1>1, <1>2, <1>3, <1>5, <1>6, <1>7, <1>9, <1>10, <1>11 DEF Next

(* What the relay passes on, the service of the device serves in full,     *)
(* although each looks into tables of its own.                             *)
THEOREM RelayAndServiceAgree == Spec => []RelayAgrees
  BY AgreesInit, AgreesStep, PTL DEF Spec

-----------------------------------------------------------------------------
(* The types of what travels.                                              *)

Queries == [kind : {"query"}, code : {1, 2, 4}, tid : 0 .. TidModulus - 1,
            parts : Nat]
Injections == [kind : {"inject"}, payload : Seq(Records) \ {<<>>}]
Fulls == [kind : {"full"}, body : Bodies]
Parts == [kind : {"part"}, tid : 0 .. TidModulus - 1, total : Nat, idx : Nat,
          body : Bodies]
AckForms == [kind : {"ack"}, record : Nat, field : Nat, ok : BOOLEAN]
Reports == [kind : {"report"}]

Payloads == Queries \cup Injections \cup Fulls \cup Parts \cup AckForms
              \cup Reports

Datagrams ==
  [hop : {"relay", "device", "gateway", "host"}, host : Hosts,
   dev : Devices \cup {NoDevice}, wrapped : BOOLEAN,
   port : {"request", "response", "event"}, id : Hosts \X Nat, data : Payloads]

Stages == {"none", "query", "inject", "answered", "invalid", "acked", "timedout"}

CallForms ==
  [st : Stages, call : Calls, tid : 0 .. TidModulus - 1,
   id : Hosts \X Nat, got : SUBSET Datagrams, seen : SUBSET Bodies,
   stale : SUBSET (Hosts \X Nat), used : SUBSET (0 .. TidModulus - 1)]

(* A payload of whole records of d. *)
Whole(d, payload) ==
  /\ payload \in Seq(Records) /\ payload # <<>>
  /\ Len(payload) % SHORT_PARAM_LEN[d] = 0

(* Whole records are one or more. *)
LEMMA WholeRecords ==
  ASSUME NEW d \in Devices, NEW p, Whole(d, p)
  PROVE  /\ Len(p) \in Nat \ {0} /\ DOMAIN p = 1 .. Len(p)
         /\ Len(p) \div SHORT_PARAM_LEN[d] \in Nat \ {0}
         /\ \A i \in DOMAIN p : p[i] \in Records
<1>1. p \in Seq(Records) /\ p # <<>> /\ Len(p) % SHORT_PARAM_LEN[d] = 0
  BY DEF Whole
<1>2. Len(p) \in Nat \ {0} /\ DOMAIN p = 1 .. Len(p) /\ \A i \in DOMAIN p : p[i] \in Records
  BY <1>1
<1>3. \A n \in Nat \ {0} : /\ n % 9 = 0 => n \div 9 \in Nat \ {0}
                           /\ n % 12 = 0 => n \div 12 \in Nat \ {0}
  OBVIOUS
<1>4. SHORT_PARAM_LEN[d] \in {9, 12}
  BY TablesAgree
<1>. QED  BY <1>1, <1>2, <1>3, <1>4

(* What a call is. *)
LEMMA CallParts ==
  ASSUME NEW c \in Calls
  PROVE  /\ c.kind \in {"query", "inject"}
         /\ c.via \in {"relay", "device"}
         /\ c.dev \in Devices
         /\ c.kind = "query" => c.parts \in Nat
         /\ c.kind = "inject" =>
              /\ Whole(c.dev, c.payload)
              /\ c.payload[1] \in Records
              /\ ~(c.payload[1].fmt = 10 /\ c.payload[1].type = 1)
              /\ AckCount[c.dev] \in Nat \ {0}
              /\ ExpectedAcks(c) \in Nat \ {0}
<1>1. c \in QueryCalls \/ c \in InjectCalls
  BY PathAssumption
<1>2. CASE c \in QueryCalls
  BY <1>2 DEF QueryCalls
<1>3. CASE c \in InjectCalls
  <2>1. /\ c.kind = "inject" /\ c.via \in {"relay", "device"}
        /\ c.dev \in Devices
        /\ c.payload \in Seq(Records) /\ c.payload # <<>>
        /\ Len(c.payload) % SHORT_PARAM_LEN[c.dev] = 0
        /\ <<c.payload[1].fmt, c.payload[1].type>> # <<10, 1>>
    BY <1>3 DEF InjectCalls
  <2>2. Whole(c.dev, c.payload)
    BY <2>1 DEF Whole
  <2>3. AckCount[c.dev] \in Nat \ {0}
    BY <2>1, PathAssumption
  <2>4. \A x \in Nat \ {0}, y \in Nat \ {0} : x * y \in Nat \ {0}
    OBVIOUS
  <2>5. Len(c.payload) \div SHORT_PARAM_LEN[c.dev] \in Nat \ {0}
    BY <2>1, <2>2, WholeRecords
  <2>6. c.payload[1] \in Records
    BY <2>1
  <2>7. ExpectedAcks(c) \in Nat \ {0}
    BY <2>3, <2>4, <2>5 DEF ExpectedAcks
  <2>. QED  BY <2>1, <2>2, <2>3, <2>6, <2>7
<1>. QED  BY <1>1, <1>2, <1>3

(* What a call sends. *)
LEMMA RequestForm ==
  ASSUME NEW c \in Calls, NEW tid \in 0 .. TidModulus - 1
  PROVE  /\ Request(c, tid) \in Queries \cup Injections
         /\ Request(c, tid).kind = c.kind
         /\ Request(c, tid) \in Payloads
<1>1. CASE c.kind = "query"
  <2>1. QUERY_EQUIP[c.dev] \in {1, 2, 4}
    BY CallParts DEF Devices, QUERY_EQUIP
  <2>. QED  BY <1>1, <2>1, CallParts DEF Request, Queries, Payloads
<1>2. CASE c.kind = "inject"
  BY <1>2, CallParts DEF Request, Injections, Payloads, Whole
<1>. QED  BY <1>1, <1>2, CallParts

(* What a service answers. *)
LEMMA AnswerForm ==
  ASSUME NEW q \in Queries, NEW b \in Bodies
  PROVE  Answer(q, b) \subseteq Fulls \cup Parts
BY DEF Answer, Queries, Fulls, Parts

(* Where a service looks. *)
LEMMA PiecesForm ==
  ASSUME NEW d \in Devices, NEW p \in Seq(Records), p # <<>>
  PROVE  /\ Pieces(d, p) \subseteq 1 .. Len(p)
         /\ 1 \in Pieces(d, p)
         /\ Good(d, p) \subseteq Pieces(d, p)
<1>1. Len(p) \in Nat \ {0} /\ DOMAIN p = 1 .. Len(p)
  OBVIOUS
<1>2. Good(d, p) \subseteq Pieces(d, p)
  BY DEF Good
<1>3. Pieces(d, p) \subseteq 1 .. Len(p)
  BY <1>1 DEF Pieces
<1>4. 1 \in Pieces(d, p)
  <2>1. CASE Len(p) % SHORT_PARAM_LEN[d] = 0
    <3>1. SHORT_PARAM_LEN[d] \in {9, 12}
      BY <2>1, TablesAgree
    <3>2. (1 - 1) % SHORT_PARAM_LEN[d] = 0
      BY <3>1
    <3>. QED  BY <1>1, <2>1, <3>2 DEF Pieces
  <2>2. CASE ~(Len(p) % SHORT_PARAM_LEN[d] = 0)
    BY <2>2 DEF Pieces
  <2>. QED  BY <2>1, <2>2
<1>. QED  BY <1>2, <1>3, <1>4

LEMMA AckParts ==
  ASSUME NEW d, NEW p, NEW a \in Acks(d, p)
  PROVE  /\ a.kind = "ack" /\ a.ok \in BOOLEAN
         /\ a.record \in Pieces(d, p)
         /\ a.ok <=> a.record \in Good(d, p)
         /\ a.ok => a.field \in 1 .. AckCount[d]
         /\ ~a.ok => a.field = 1
         /\ a = [kind |-> "ack", record |-> a.record, field |-> a.field,
                 ok |-> a.ok]
<1>1. PICK k \in Pieces(d, p) :
        a \in IF k \in Good(d, p)
              THEN {[kind |-> "ack", record |-> k, field |-> i, ok |-> TRUE] :
                      i \in 1 .. AckCount[d]}
              ELSE {[kind |-> "ack", record |-> k, field |-> 1, ok |-> FALSE]}
  BY Zenon DEF Acks
<1>2. CASE k \in Good(d, p)
  <2>1. PICK i \in 1 .. AckCount[d] :
          a = [kind |-> "ack", record |-> k, field |-> i, ok |-> TRUE]
    BY <1>1, <1>2
  <2>. QED  BY <2>1, <1>2
<1>3. CASE k \notin Good(d, p)
  <2>1. a = [kind |-> "ack", record |-> k, field |-> 1, ok |-> FALSE]
    BY <1>1, <1>3
  <2>. QED  BY <2>1, <1>3
<1>. QED  BY <1>2, <1>3

LEMMA AcksForm ==
  ASSUME NEW d \in Devices, NEW p \in Seq(Records), p # <<>>
  PROVE  Acks(d, p) \subseteq AckForms
<1> SUFFICES ASSUME NEW a \in Acks(d, p) PROVE a \in AckForms
  OBVIOUS
<1>1. a.record \in Nat
  BY AckParts, PiecesForm
<1>2. a.field \in Nat /\ a.ok \in BOOLEAN
  <2>1. 1 \in Nat /\ 1 .. AckCount[d] \subseteq Nat
    BY PathAssumption
  <2>2. /\ a.ok \in BOOLEAN
        /\ a.ok => a.field \in 1 .. AckCount[d]
        /\ ~a.ok => a.field = 1
    BY AckParts
  <2>3. CASE a.ok
    BY <2>1, <2>2, <2>3
  <2>4. CASE ~a.ok
    BY <2>1, <2>2, <2>4
  <2>. QED  BY <2>2, <2>3, <2>4
<1>. QED  BY <1>1, <1>2, AckParts DEF AckForms

(* A device that serves an injection holds parameters of its own kind. *)
LEMMA AppliedForm ==
  ASSUME param \in [Devices -> Bodies], \A d \in Devices : param[d].dev = d,
         NEW d \in Devices, NEW p \in Seq(Records), p # <<>>, NEW host \in Hosts
  PROVE  /\ Applied(d, p, host) \in Bodies
         /\ Applied(d, p, host).dev = d
<1> DEFINE good == Good(d, p)
           last == LastGood(d, p)
<1>1. CASE good = {}
  BY <1>1 DEF Applied
<1>2. CASE good # {}
  <2>1. good \in SUBSET (1 .. Len(p)) /\ Len(p) \in Nat
    BY PiecesForm
  <2>2. \E k \in good : \A j \in good : j <= k
    BY <1>2, <2>1, Greatest
  <2>3. last \in good
    BY <2>2 DEF LastGood
  <2>4. p[last] \in Records
    BY <2>1, <2>3
  <2>5. p[last].set \in Settings
    BY <2>4 DEF Records
  <2>6. Applied(d, p, host) = [dev |-> d, set |-> p[last].set, ip |-> host]
    BY <1>2 DEF Applied, Taking
  <2>. QED  BY <2>5, <2>6 DEF Bodies
<1>. QED  BY <1>1, <1>2

(* What every datagram is. *)
DatagramTyped(m) ==
  /\ m \in Datagrams
  /\ m.hop \in {"relay", "device"} => m.data \in Queries \cup Injections
  /\ m.hop = "device" => m.dev \in Devices

(* What the client has of a call k made on host h. *)
CallTyped(h, k) ==
  /\ k \in CallForms
  /\ k.st \in {"query", "inject"} => k.st = k.call.kind
  /\ k.st = "inject" => Cardinality(k.got) < ExpectedAcks(k.call)
  /\ IsFiniteSet(k.got)
  /\ \A g \in k.got : g.host = h

Typed ==
  /\ param \in [Devices -> Bodies]
  /\ \A d \in Devices : param[d].dev = d
  /\ \A m \in net : DatagramTyped(m)
  /\ client = [h \in Hosts |-> client[h]]
  /\ \A h \in Hosts : CallTyped(h, client[h])
  /\ calls \in 0 .. MaxCalls
  /\ clock \in 0 .. MaxClock
  /\ losses \in 0 .. MaxLosses

(* The stronger form of the types. *)
LEMMA TypedIsTypeOK == Typed => TypeOK
<1> SUFFICES ASSUME Typed PROVE TypeOK
  OBVIOUS
<1>1. \A m \in net : /\ m.hop \in {"relay", "device", "gateway", "host"}
                      /\ m.host \in Hosts
  BY DEF Typed, DatagramTyped, Datagrams
<1>2. ASSUME NEW h \in Hosts
      PROVE  /\ client[h].st \in Stages
             /\ client[h].call \in Calls
             /\ Running(h) => client[h].st = client[h].call.kind
             /\ client[h].st = "inject" =>
                  Cardinality(client[h].got) < ExpectedAcks(client[h].call)
             /\ \A g \in client[h].got : g.host = h
  BY DEF Typed, CallTyped, CallForms, Running
<1>. QED  BY <1>1, <1>2 DEF Typed, TypeOK, Stages

(* The form of what a step puts into the net. *)
LEMMA DatagramForm ==
  ASSUME NEW hop \in {"relay", "device", "gateway", "host"}, NEW h \in Hosts,
         NEW d \in Devices \cup {NoDevice}, NEW w \in BOOLEAN,
         NEW port \in {"request", "response", "event"},
         NEW id \in Hosts \X Nat, NEW data \in Payloads,
         hop \in {"relay", "device"} => data \in Queries \cup Injections,
         hop = "device" => d \in Devices
  PROVE  DatagramTyped(Datagram(hop, h, d, w, port, id, data))
BY DEF DatagramTyped, Datagrams, Datagram

(* What a new call looks like. *)
LEMMA OpenedForm ==
  ASSUME Typed, NEW h \in Hosts, NEW c \in Calls
  PROVE  /\ CallTyped(h, Opened(h, c))
         /\ Opened(h, c).tid \in 0 .. TidModulus - 1
         /\ Opened(h, c).id \in Hosts \X Nat
<1>1. (clock + 1) % TidModulus \in 0 .. TidModulus - 1
  <2>1. clock \in Nat /\ TidModulus \in Nat \ {0}
    BY PathAssumption DEF Typed
  <2>. QED  BY <2>1
<1>2. HeldNow(c) \subseteq Bodies
  BY DEF HeldNow, Typed
<1>3. <<h, calls + 1>> \in Hosts \X Nat
  BY DEF Typed
<1>4. c.kind \in Stages
  BY CallParts DEF Stages
<1>5. /\ Stale(h, c, NextTid) \subseteq Hosts \X Nat
      /\ Used(h) \subseteq 0 .. TidModulus - 1
  BY DEF Stale, Used, Typed, DatagramTyped, Datagrams, CallTyped, CallForms
<1>6. Opened(h, c) \in CallForms
  BY <1>1, <1>2, <1>3, <1>4, <1>5 DEF Opened, CallForms, NextTid
<1>7. IsFiniteSet({}) /\ Cardinality({}) = 0
  BY FS_EmptySet
<1>8. c.kind = "inject" => 0 < ExpectedAcks(c)
  BY CallParts
<1>. QED  BY <1>1, <1>3, <1>6, <1>7, <1>8 DEF Opened, CallTyped, NextTid

(* What the client does with a datagram. *)
LEMMA Received ==
  ASSUME Typed, NEW m \in net, HostReceives(m)
  PROVE  LET h == m.host
             k == client[h]
             n == client'[h]
             more == k.got \cup {m}
         IN  /\ h \in Hosts
             /\ client' = [x \in Hosts |-> client'[x]]
             /\ \A x \in Hosts : x # h => client'[x] = client[x]
             /\ \/ n = k
                \/ n = [k EXCEPT !.st = n.st, !.got = n.got]
             /\ \/ /\ n = k
                   /\ \/ k.st \notin {"query", "inject"}
                      \/ k.st = "query" /\ m.port # "response"
                      \/ k.st = "inject" /\ m.port # "event"
                \/ /\ k.st = "query" /\ m.port = "response" /\ k.call.parts = 0
                   /\ \/ n.st = "answered" /\ n.got = {m} /\ m.data.kind = "full"
                      \/ n.st = "invalid" /\ n.got = {}
                \/ /\ k.st = "query" /\ m.port = "response" /\ InParts(k.call)
                   /\ \/ ~OwnPart(h, m.data) /\ n = k
                      \/ /\ OwnPart(h, m.data)
                         /\ Cardinality(more) < m.data.total
                         /\ n.st = "query" /\ n.got = more
                      \/ /\ OwnPart(h, m.data)
                         /\ ~(Cardinality(more) < m.data.total)
                         /\ \/ n.st = "answered" /\ n.got = more
                            \/ n.st = "invalid" /\ n.got = {}
                \/ /\ k.st = "inject" /\ m.port = "event"
                   /\ \/ m.data.kind # "ack" /\ n = k
                      \/ /\ m.data.kind = "ack"
                         /\ Cardinality(more) >= ExpectedAcks(k.call)
                         /\ n.st = "acked" /\ n.got = more
                      \/ /\ m.data.kind = "ack"
                         /\ ~(Cardinality(more) >= ExpectedAcks(k.call))
                         /\ n.st = "inject" /\ n.got = more
<1> DEFINE h == m.host
           k == client[h]
           n == client'[h]
           more == k.got \cup {m}
<1>1. h \in Hosts
  BY DEF Typed, DatagramTyped, Datagrams
<1>2. k \in CallForms /\ DOMAIN client = Hosts
  BY <1>1 DEF Typed, CallTyped
<1>3. ASSUME NEW st, NEW got, Finish(h, st, got)
      PROVE  /\ client' = [x \in Hosts |-> client'[x]]
             /\ \A x \in Hosts : x # h => client'[x] = client[x]
             /\ n = [k EXCEPT !.st = n.st, !.got = n.got]
             /\ n.st = st /\ n.got = got
  <2>1. client' = [client EXCEPT ![h] = [k EXCEPT !.st = st, !.got = got]]
    BY <1>1, <1>2, <1>3 DEF Finish
  <2>2. n = [k EXCEPT !.st = st, !.got = got]
    BY <1>1, <1>2, <2>1
  <2>3. n.st = st /\ n.got = got
    BY <1>2, <2>2 DEF CallForms
  <2>. QED  BY <1>1, <1>2, <2>1, <2>2, <2>3
<1>4. ASSUME UNCHANGED client
      PROVE  /\ client' = [x \in Hosts |-> client'[x]]
             /\ \A x \in Hosts : client'[x] = client[x]
             /\ n = k
  BY <1>4 DEF Typed
<1>5. CASE k.st = "query" /\ m.port = "response"
  <2>1. AcceptFull(h, m) \/ AcceptPart(h, m)
    BY <1>5 DEF HostReceives
  <2>2. CASE AcceptFull(h, m)
    <3>1. CASE Finish(h, "answered", {m}) /\ m.data.kind = "full"
      BY <1>1, <1>3, <1>5, <2>2, <3>1 DEF AcceptFull
    <3>2. CASE Finish(h, "invalid", {})
      BY <1>1, <1>3, <1>5, <2>2, <3>2 DEF AcceptFull
    <3>. QED  BY <2>2, <3>1, <3>2 DEF AcceptFull
  <2>3. CASE AcceptPart(h, m)
    <3>1. CASE ~OwnPart(h, m.data) /\ UNCHANGED client
      BY <1>1, <1>4, <1>5, <2>3, <3>1 DEF AcceptPart
    <3>2. CASE /\ OwnPart(h, m.data) /\ Cardinality(more) < m.data.total
               /\ Finish(h, "query", more)
      BY <1>1, <1>3, <1>5, <2>3, <3>2 DEF AcceptPart
    <3>3. CASE /\ OwnPart(h, m.data) /\ ~(Cardinality(more) < m.data.total)
               /\ Finish(h, "answered", more)
      BY <1>1, <1>3, <1>5, <2>3, <3>3 DEF AcceptPart
    <3>4. CASE /\ OwnPart(h, m.data) /\ ~(Cardinality(more) < m.data.total)
               /\ Finish(h, "invalid", {})
      BY <1>1, <1>3, <1>5, <2>3, <3>4 DEF AcceptPart
    <3>. QED  BY <2>3, <3>1, <3>2, <3>3, <3>4 DEF AcceptPart
  <2>. QED  BY <2>1, <2>2, <2>3
<1>6. CASE k.st = "inject" /\ m.port = "event"
  <2>1. AcceptAck(h, m)
    BY <1>6 DEF HostReceives
  <2>2. CASE m.data.kind # "ack" /\ UNCHANGED client
    BY <1>1, <1>4, <1>6, <2>2
  <2>3. CASE /\ m.data.kind = "ack" /\ Cardinality(more) >= ExpectedAcks(k.call)
             /\ Finish(h, "acked", more)
    BY <1>1, <1>3, <1>6, <2>3
  <2>4. CASE /\ m.data.kind = "ack" /\ ~(Cardinality(more) >= ExpectedAcks(k.call))
             /\ Finish(h, "inject", more)
    BY <1>1, <1>3, <1>6, <2>4
  <2>. QED  BY <2>1, <2>2, <2>3, <2>4 DEF AcceptAck
<1>7. CASE /\ ~(k.st = "query" /\ m.port = "response")
           /\ ~(k.st = "inject" /\ m.port = "event")
  <2>1. UNCHANGED client
    BY <1>7 DEF HostReceives
  <2>. QED  BY <1>1, <1>4, <1>7, <2>1
<1>. QED  BY <1>5, <1>6, <1>7

(* The beginning. *)
LEMMA TypedInit == Init => Typed
<1> SUFFICES ASSUME Init PROVE Typed
  OBVIOUS
<1> DEFINE c == CHOOSE c \in Calls : TRUE
           k == Closed("none", c, NoCall)
<1>1. c \in Calls
  BY PathAssumption
<1>2. /\ client = [h \in Hosts |-> client[h]]
      /\ \A h \in Hosts : client[h] = k
  BY DEF Init
<1>3. NoCall \in Hosts \X Nat
  BY PathAssumption DEF NoCall
<1>4. 0 \in 0 .. TidModulus - 1 /\ 0 \in Nat
  BY PathAssumption
<1>5. k \in CallForms
  BY <1>1, <1>3, <1>4 DEF Closed, CallForms, Stages
<1>6. \A h \in Hosts : CallTyped(h, k)
  BY <1>5, FS_EmptySet DEF CallTyped, Closed
<1>7. param \in [Devices -> Bodies] /\ \A d \in Devices : param[d].dev = d
  BY PathAssumption DEF Init
<1>8. calls \in 0 .. MaxCalls /\ clock \in 0 .. MaxClock /\ losses \in 0 .. MaxLosses
  BY PathAssumption DEF Init
<1>9. net = {}
  BY DEF Init
<1>. QED  BY <1>2, <1>6, <1>7, <1>8, <1>9 DEF Typed

(* The form of what a service sends back. *)
LEMMA ReplyForm ==
  ASSUME NEW m, DatagramTyped(m), m.hop = "device", NEW a \in Payloads
  PROVE  DatagramTyped(Reply(m, a))
<1>1. /\ m.host \in Hosts /\ m.id \in Hosts \X Nat /\ m.wrapped \in BOOLEAN
      /\ m.port \in {"request", "response", "event"}
      /\ m.dev \in Devices
  BY DEF DatagramTyped, Datagrams
<1>2. ReplyPort(m.data) \in {"request", "response", "event"}
  BY DEF ReplyPort
<1>3. CASE m.wrapped
  BY <1>1, <1>3, DatagramForm DEF Reply
<1>4. CASE ~m.wrapped
  BY <1>1, <1>2, <1>4, DatagramForm DEF Reply
<1>. QED  BY <1>3, <1>4

(* Every step keeps the types. *)
LEMMA TypedStep == Typed /\ [Next]_vars => Typed'
<1> SUFFICES ASSUME Typed, [Next]_vars PROVE Typed'
  OBVIOUS
<1>0. /\ UNCHANGED <<param, client>> => /\ param' \in [Devices -> Bodies]
                                        /\ \A d \in Devices : param'[d].dev = d
                                        /\ client' = [h \in Hosts |-> client'[h]]
                                        /\ \A h \in Hosts : CallTyped(h, client'[h])
      /\ UNCHANGED param => /\ param' \in [Devices -> Bodies]
                            /\ \A d \in Devices : param'[d].dev = d
      /\ UNCHANGED <<calls, clock, losses>> =>
           /\ calls' \in 0 .. MaxCalls
           /\ clock' \in 0 .. MaxClock
           /\ losses' \in 0 .. MaxLosses
      /\ UNCHANGED net => \A m \in net' : DatagramTyped(m)
  BY DEF Typed
<1>1. ASSUME NEW h \in Hosts, NEW c \in Calls, StartCall(h, c)
      PROVE  Typed'
  <2> DEFINE o == Opened(h, c)
             r == Request(c, o.tid)
             m == IF c.via = "relay"
                  THEN Datagram("relay", h, NoDevice, FALSE, "request", o.id, r)
                  ELSE Datagram("device", h, c.dev, FALSE, "request", o.id, r)
  <2>1. net' = net \cup {m} /\ client' = [client EXCEPT ![h] = o]
    BY <1>1 DEF StartCall
  <2>2. /\ r \in Queries \cup Injections /\ r \in Payloads
    BY OpenedForm, RequestForm
  <2>3. o.id \in Hosts \X Nat /\ CallTyped(h, o)
    BY OpenedForm
  <2>4. DatagramTyped(m)
    BY <2>2, <2>3, CallParts, DatagramForm
  <2>5. \A n \in net' : DatagramTyped(n)
    BY <2>1, <2>4 DEF Typed
  <2>6. /\ client' = [x \in Hosts |-> client'[x]]
        /\ \A x \in Hosts : CallTyped(x, client'[x])
    BY <2>1, <2>3 DEF Typed
  <2>7. calls' \in 0 .. MaxCalls
    BY <1>1, PathAssumption DEF StartCall, Typed
  <2>. QED  BY <1>0, <1>1, <2>5, <2>6, <2>7 DEF StartCall, Typed
<1>2. ASSUME NEW m \in net, RelayRequest(m) PROVE Typed'
  <2> DEFINE d == ClassifyPayload(m.data)
             f == Datagram("device", m.host, d, TRUE, ReplyPort(m.data), m.id, m.data)
  <2>1. /\ m.data \in Queries \cup Injections /\ m.data \in Payloads
        /\ m.host \in Hosts /\ m.id \in Hosts \X Nat
    BY <1>2 DEF RelayRequest, Typed, DatagramTyped, Datagrams
  <2>2. d \in Devices \cup {NoDevice}
    BY ClassifyForm
  <2>3. ReplyPort(m.data) \in {"request", "response", "event"}
    BY DEF ReplyPort
  <2>4. d # NoDevice => DatagramTyped(f)
    BY <2>1, <2>2, <2>3, DatagramForm
  <2>5. \A n \in net' : n \in net \/ (n = f /\ d # NoDevice)
    BY <1>2 DEF RelayRequest
  <2>6. \A n \in net' : DatagramTyped(n)
    BY <2>4, <2>5 DEF Typed
  <2>. QED  BY <1>0, <1>2, <2>6 DEF RelayRequest, Typed
<1>3. ASSUME NEW m \in net, RelayAnswer(m) PROVE Typed'
  <2> DEFINE f == Datagram("host", ReplyHost(m), m.dev, FALSE, m.port, m.id, m.data)
  <2>1. m \in Datagrams
    BY DEF Typed, DatagramTyped
  <2>2. ReplyHost(m) \in Hosts
    BY <2>1, PathAssumption DEF ReplyHost, Datagrams
  <2>3. DatagramTyped(f)
    BY <2>1, <2>2, DatagramForm DEF Datagrams
  <2>4. \A n \in net' : n \in net \/ n = f
    BY <1>3 DEF RelayAnswer
  <2>5. \A n \in net' : DatagramTyped(n)
    BY <2>3, <2>4 DEF Typed
  <2>. QED  BY <1>0, <1>3, <2>5 DEF RelayAnswer, Typed
<1>4. ASSUME NEW m \in net, ServeQuery(m) PROVE Typed'
  <2>1. /\ DatagramTyped(m) /\ m.hop = "device" /\ m.dev \in Devices
        /\ m.data \in Queries
    BY <1>4 DEF ServeQuery, Typed, DatagramTyped, Injections
  <2>2. Answer(m.data, param[m.dev]) \subseteq Payloads
    BY <2>1, AnswerForm DEF Typed, Payloads
  <2>3. \A n \in net' : \/ n \in net
                        \/ \E a \in Answer(m.data, param[m.dev]) : n = Reply(m, a)
    BY <1>4 DEF ServeQuery
  <2>4. \A n \in net' : DatagramTyped(n)
    BY <2>1, <2>2, <2>3, ReplyForm DEF Typed
  <2>. QED  BY <1>0, <1>4, <2>4 DEF ServeQuery, Typed
<1>5. ASSUME NEW m \in net, ServeInjection(m) PROVE Typed'
  <2> DEFINE b == Applied(m.dev, m.data.payload, m.host)
  <2>1. /\ DatagramTyped(m) /\ m.hop = "device" /\ m.dev \in Devices
        /\ m.host \in Hosts
        /\ m.data.payload \in Seq(Records) /\ m.data.payload # <<>>
    BY <1>5 DEF ServeInjection, Typed, DatagramTyped, Datagrams, Queries, Injections
  <2>2. Acks(m.dev, m.data.payload) \subseteq Payloads
    BY <2>1, AcksForm DEF Payloads
  <2>3. \A n \in net' : \/ n \in net
                        \/ \E a \in Acks(m.dev, m.data.payload) : n = Reply(m, a)
    BY <1>5 DEF ServeInjection
  <2>4. \A n \in net' : DatagramTyped(n)
    BY <2>1, <2>2, <2>3, ReplyForm DEF Typed
  <2>5. b \in Bodies /\ b.dev = m.dev
    BY <2>1, AppliedForm DEF Typed
  <2>6. /\ param' = [param EXCEPT ![m.dev] = b]
        /\ client' = [h \in Hosts |->
              IF Running(h) /\ Target(client[h].call) = m.dev
              THEN [client[h] EXCEPT !.seen = @ \cup {b}] ELSE client[h]]
    BY <1>5 DEF ServeInjection
  <2>7. param' \in [Devices -> Bodies] /\ \A d \in Devices : param'[d].dev = d
    BY <2>1, <2>5, <2>6 DEF Typed
  <2>8. ASSUME NEW h \in Hosts PROVE CallTyped(h, client'[h])
    <3>1. CallTyped(h, client[h])
      BY DEF Typed
    <3>2. CASE client'[h] = client[h]
      BY <3>1, <3>2
    <3>3. CASE client'[h] = [client[h] EXCEPT !.seen = @ \cup {b}]
      BY <2>5, <3>1, <3>3 DEF CallTyped, CallForms
    <3>. QED  BY <2>6, <3>2, <3>3
  <2>9. client' = [h \in Hosts |-> client'[h]]
    BY <2>6
  <2>. QED  BY <1>0, <1>5, <2>4, <2>7, <2>8, <2>9 DEF ServeInjection, Typed
<1>6. ASSUME NEW m \in net, HostReceives(m) PROVE Typed'
  <2> DEFINE h == m.host
             k == client[h]
             n == client'[h]
             more == k.got \cup {m}
  <2>1. /\ h \in Hosts /\ m \in Datagrams
    BY DEF Typed, DatagramTyped, Datagrams
  <2>2. CallTyped(h, k)
    BY <2>1 DEF Typed
  <2>3. IsFiniteSet(more) /\ Cardinality(more) \in Nat
    <3>1. IsFiniteSet(k.got)
      BY <2>2 DEF CallTyped
    <3>. QED  BY <3>1, FS_AddElement, FS_CardinalityType
  <2>4. IsFiniteSet({m}) /\ IsFiniteSet({})
    BY FS_Singleton, FS_EmptySet
  <2>5. ASSUME NEW st \in Stages, NEW got,
               n = [k EXCEPT !.st = st, !.got = got],
               got = more \/ got = {m} \/ got = {},
               st \in {"query", "inject"} => st = k.st,
               st = "inject" => Cardinality(got) < ExpectedAcks(k.call)
        PROVE  CallTyped(h, n)
    <3>1. got \subseteq Datagrams /\ IsFiniteSet(got) /\ \A g \in got : g.host = h
      BY <2>1, <2>2, <2>3, <2>4, <2>5 DEF CallTyped, CallForms
    <3>2. n \in CallForms /\ n.st = st /\ n.got = got /\ n.call = k.call
      BY <2>2, <2>5, <3>1 DEF CallTyped, CallForms
    <3>. QED  BY <2>2, <2>5, <3>1, <3>2 DEF CallTyped
  <2>6. k.st = "inject" => k.call \in Calls /\ k.call.kind = "inject"
    BY <2>2 DEF CallTyped, CallForms
  <2>7. k.st = "inject" => ExpectedAcks(k.call) \in Nat
    BY <2>6, CallParts
  <2>8. CallTyped(h, n)
    <3>1. CASE n = k
      BY <2>2, <3>1
    <3>2. CASE n = [k EXCEPT !.st = n.st, !.got = n.got] /\ n # k
      <4>1. /\ n.st \in Stages
            /\ n.got = more \/ n.got = {m} \/ n.got = {}
            /\ n.st \in {"query", "inject"} => n.st = k.st
        BY <1>6, <3>2, Received DEF Stages
      <4>2. n.st = "inject" =>
              /\ k.st = "inject" /\ n.got = more
              /\ ~(Cardinality(more) >= ExpectedAcks(k.call))
        BY <1>6, <3>2, Received
      <4>. HIDE DEF h, k, n, more
      <4>3. n.st = "inject" => Cardinality(n.got) < ExpectedAcks(k.call)
        BY <2>3, <2>7, <4>2
      <4>. QED  BY <2>5, <3>2, <4>1, <4>3
    <3>. QED  BY <1>6, <3>1, <3>2, Received
  <2>9. /\ client' = [x \in Hosts |-> client'[x]]
        /\ \A x \in Hosts : x # h => client'[x] = client[x]
    BY <1>6, Received
  <2>10. \A x \in Hosts : CallTyped(x, client'[x])
    BY <2>8, <2>9 DEF Typed
  <2>. QED  BY <1>0, <1>6, <2>9, <2>10 DEF HostReceives, Typed
<1>7. ASSUME NEW h \in Hosts, TimeOut(h) PROVE Typed'
  <2> DEFINE k == client[h]
  <2>1. CallTyped(h, k)
    BY DEF Typed
  <2>2. client' = [client EXCEPT ![h] = [k EXCEPT !.st = "timedout"]]
    BY <1>7 DEF TimeOut, Typed
  <2>3. CallTyped(h, [k EXCEPT !.st = "timedout"])
    BY <2>1 DEF CallTyped, CallForms, Stages
  <2>4. /\ client' = [x \in Hosts |-> client'[x]]
        /\ \A x \in Hosts : CallTyped(x, client'[x])
    BY <2>2, <2>3 DEF Typed
  <2>. QED  BY <1>0, <1>7, <2>4 DEF TimeOut, Typed
<1>8. ASSUME NEW d \in Reporters, NEW w \in BOOLEAN, Report(d, w) PROVE Typed'
  <2> DEFINE f == Datagram("gateway", NsIp, d, w, "event", NoCall, [kind |-> "report"])
  <2>1. NsIp \in Hosts /\ NoCall \in Hosts \X Nat
    BY PathAssumption DEF NoCall
  <2>2. [kind |-> "report"] \in Payloads
    BY DEF Payloads, Reports
  <2>3. DatagramTyped(f)
    BY <2>1, <2>2, DatagramForm, PathAssumption
  <2>4. \A n \in net' : n \in net \/ n = f
    BY <1>8 DEF Report
  <2>5. \A n \in net' : DatagramTyped(n)
    BY <2>3, <2>4 DEF Typed
  <2>. QED  BY <1>0, <1>8, <2>5 DEF Report, Typed
<1>9. ASSUME NEW m \in net, Lose(m) PROVE Typed'
  <2>1. losses' \in 0 .. MaxLosses
    BY <1>9, PathAssumption DEF Lose, Typed
  <2>. QED  BY <1>0, <1>9, <2>1 DEF Lose, Typed
<1>10. CASE Tick
  <2>1. clock' \in 0 .. MaxClock
    BY <1>10, PathAssumption DEF Tick, Typed
  <2>. QED  BY <1>0, <1>10, <2>1 DEF Tick, Typed
<1>11. CASE UNCHANGED vars
  BY <1>0, <1>11 DEF vars, Typed
<1>. QED
  BY <1>1, <1>2, <1>3, <1>4, <1>5, <1>6, <1>7, <1>8, <1>9, <1>10, <1>11 DEF Next

(* Every variable keeps its type, whatever is lost, late or reported.      *)
THEOREM TypeCorrect == Spec => []TypeOK
  BY TypedInit, TypedStep, TypedIsTypeOK, PTL DEF Spec

-----------------------------------------------------------------------------
(* The replies to a call, and how many the client waits for.               *)

(* Intervals. *)
LEMMA UpTo ==
  ASSUME NEW n \in Nat
  PROVE  /\ IsFiniteSet(1 .. n) /\ Cardinality(1 .. n) = n
         /\ IsFiniteSet(0 .. n - 1) /\ Cardinality(0 .. n - 1) = n
<1>1. 0 \in Int /\ 1 \in Int /\ n \in Int /\ n - 1 \in Int
  OBVIOUS
<1>2. /\ IsFiniteSet(1 .. n)
      /\ Cardinality(1 .. n) = IF 1 > n THEN 0 ELSE n - 1 + 1
  BY <1>1, FS_Interval
<1>3. /\ IsFiniteSet(0 .. n - 1)
      /\ Cardinality(0 .. n - 1) = IF 0 > n - 1 THEN 0 ELSE (n - 1) - 0 + 1
  BY <1>1, FS_Interval
<1>4. (IF 1 > n THEN 0 ELSE n - 1 + 1) = n
  OBVIOUS
<1>5. (IF 0 > n - 1 THEN 0 ELSE (n - 1) - 0 + 1) = n
  OBVIOUS
<1>. QED  BY <1>2, <1>3, <1>4, <1>5

(* What makes a function an injection. *)
LEMMA OneToOne ==
  ASSUME NEW S, NEW T, NEW f \in [S -> T],
         \A x, y \in S : f[x] = f[y] => x = y
  PROVE  f \in Injection(S, T)
BY DEF Injection, IsInjective

(* Sets whose elements come in pairs are of one size. *)
LEMMA Paired ==
  ASSUME NEW S, NEW T, IsFiniteSet(S), NEW f \in [S -> T],
         \A x, y \in S : f[x] = f[y] => x = y,
         \A t \in T : \E x \in S : f[x] = t
  PROVE  IsFiniteSet(T) /\ Cardinality(T) = Cardinality(S)
<1>1. f \in Injection(S, T)
  BY OneToOne
<1>2. f \in Surjection(S, T)
  BY DEF Surjection
<1>3. ExistsBijection(S, T)
  BY <1>1, <1>2 DEF Bijection, ExistsBijection
<1>. QED  BY <1>3, FS_Bijection

(* Two parts of a set make up its size. *)
LEMMA TwoParts ==
  ASSUME NEW S, NEW T, NEW U, IsFiniteSet(S), IsFiniteSet(T), U = S \cup T,
         \A x \in S : x \notin T
  PROVE  /\ IsFiniteSet(U) /\ Cardinality(U) = Cardinality(S) + Cardinality(T)
         /\ Cardinality(S) \in Nat /\ Cardinality(T) \in Nat
<1>1. S \cap T = {}
  OBVIOUS
<1>2. Cardinality(S \cap T) = 0
  BY <1>1, FS_EmptySet, Zenon
<1>3. /\ IsFiniteSet(S \cup T)
      /\ Cardinality(S \cup T) = Cardinality(S) + Cardinality(T) - Cardinality(S \cap T)
  BY FS_Union
<1>4. Cardinality(S) \in Nat /\ Cardinality(T) \in Nat
  BY FS_CardinalityType
<1>. QED  BY <1>2, <1>3, <1>4

(* To call k, from a device that holds b. *)
Replies(k, b) ==
  IF k.call.kind = "query" THEN Answer(Request(k.call, k.tid), b)
  ELSE Acks(Target(k.call), k.call.payload)

Needed(c) ==
  IF c.kind = "inject" THEN ExpectedAcks(c)
  ELSE IF c.parts = 0 THEN 1 ELSE c.parts

(* Whom a call reaches. *)
LEMMA TargetForm ==
  ASSUME NEW c \in Calls
  PROVE  /\ Target(c) \in Devices \cup {NoDevice}
         /\ c.kind = "query" \/ c.via = "device" => Target(c) = c.dev
         /\ c.kind = "inject" /\ c.via = "relay" /\ Target(c) \in Devices =>
              RADIO_TYPE[Target(c)] = c.payload[1].type
         /\ \A d \in Devices : c.kind = "inject" /\ c.via = "relay"
                               /\ RADIO_TYPE[d] = c.payload[1].type => Target(c) = d
<1> DEFINE named == {d \in Devices : RADIO_TYPE[d] = c.payload[1].type}
<1>1. CASE c.kind = "query" \/ c.via = "device"
  BY <1>1, CallParts DEF Target
<1>2. CASE c.kind = "inject" /\ c.via = "relay" /\ named = {}
  <2>1. Target(c) = NoDevice
    BY <1>2 DEF Target
  <2>2. NoDevice \notin Devices
    BY TablesAgree
  <2>. QED  BY <1>2, <2>1, <2>2
<1>3. CASE c.kind = "inject" /\ c.via = "relay" /\ named # {}
  <2>1. Target(c) = CHOOSE d \in named : TRUE
    BY <1>3 DEF Target
  <2>2. Target(c) \in named
    BY <1>3, <2>1
  <2>3. \A d \in named : d = Target(c)
    BY <2>2, TablesAgree
  <2>. QED  BY <1>3, <2>2, <2>3
<1>. QED  BY <1>1, <1>2, <1>3, CallParts

(* Where records begin in a payload of whole records. *)
LEMMA Cuts ==
  ASSUME NEW L \in {9, 12}, NEW l \in Nat \ {0}, l % L = 0
  PROVE  /\ \A j \in 1 .. l \div L : /\ (j - 1) * L + 1 \in 1 .. l
                                     /\ ((j - 1) * L + 1 - 1) % L = 0
         /\ \A i \in 1 .. l : (i - 1) % L = 0 =>
              \E j \in 1 .. l \div L : (j - 1) * L + 1 = i
<1>1. CASE L = 9
  <2>1. l \div 9 \in Nat /\ l = (l \div 9) * 9
    BY <1>1
  <2>2. ASSUME NEW j \in 1 .. l \div 9
        PROVE  (j - 1) * 9 + 1 \in 1 .. l /\ ((j - 1) * 9 + 1 - 1) % 9 = 0
    <3>1. j \in Nat /\ j >= 1 /\ j <= l \div 9
      BY <2>1
    <3>2. (j - 1) * 9 + 1 \in 1 .. l
      BY <2>1, <3>1
    <3>3. \A x \in Nat : (x * 9) % 9 = 0
      OBVIOUS
    <3>4. (j - 1) * 9 + 1 - 1 = (j - 1) * 9 /\ j - 1 \in Nat
      BY <3>1
    <3>. QED  BY <3>2, <3>3, <3>4
  <2>3. ASSUME NEW i \in 1 .. l, (i - 1) % 9 = 0
        PROVE  \E j \in 1 .. l \div 9 : (j - 1) * 9 + 1 = i
    <3>1. i - 1 = ((i - 1) \div 9) * 9 /\ (i - 1) \div 9 \in Nat
      BY <2>3
    <3>2. (i - 1) \div 9 + 1 \in 1 .. l \div 9
      BY <2>1, <3>1
    <3>3. ((i - 1) \div 9 + 1 - 1) * 9 + 1 = i
      BY <3>1
    <3>. QED  BY <3>2, <3>3
  <2>. QED  BY <1>1, <2>2, <2>3
<1>2. CASE L = 12
  <2>1. l \div 12 \in Nat /\ l = (l \div 12) * 12
    BY <1>2
  <2>2. ASSUME NEW j \in 1 .. l \div 12
        PROVE  (j - 1) * 12 + 1 \in 1 .. l /\ ((j - 1) * 12 + 1 - 1) % 12 = 0
    <3>1. j \in Nat /\ j >= 1 /\ j <= l \div 12
      BY <2>1
    <3>2. (j - 1) * 12 + 1 \in 1 .. l
      BY <2>1, <3>1
    <3>3. \A x \in Nat : (x * 12) % 12 = 0
      OBVIOUS
    <3>4. (j - 1) * 12 + 1 - 1 = (j - 1) * 12 /\ j - 1 \in Nat
      BY <3>1
    <3>. QED  BY <3>2, <3>3, <3>4
  <2>3. ASSUME NEW i \in 1 .. l, (i - 1) % 12 = 0
        PROVE  \E j \in 1 .. l \div 12 : (j - 1) * 12 + 1 = i
    <3>1. i - 1 = ((i - 1) \div 12) * 12 /\ (i - 1) \div 12 \in Nat
      BY <2>3
    <3>2. (i - 1) \div 12 + 1 \in 1 .. l \div 12
      BY <2>1, <3>1
    <3>3. ((i - 1) \div 12 + 1 - 1) * 12 + 1 = i
      BY <3>1
    <3>. QED  BY <3>2, <3>3
  <2>. QED  BY <1>2, <2>2, <2>3
<1>. QED  BY <1>1, <1>2

(* As many pieces as the length tells. *)
LEMMA PiecesCount ==
  ASSUME NEW d \in Devices, NEW p, Whole(d, p)
  PROVE  Cardinality(Pieces(d, p)) = Len(p) \div SHORT_PARAM_LEN[d]
<1> DEFINE L == SHORT_PARAM_LEN[d]
           n == Len(p) \div L
           f == [j \in 1 .. n |-> (j - 1) * L + 1]
<1>1. /\ Len(p) \in Nat \ {0} /\ DOMAIN p = 1 .. Len(p)
      /\ n \in Nat \ {0} /\ Len(p) % L = 0
  BY WholeRecords DEF Whole
<1>2. L \in {9, 12}
  BY TablesAgree
<1>3. Pieces(d, p) = {i \in 1 .. Len(p) : (i - 1) % L = 0}
  BY <1>1 DEF Pieces
<1> HIDE DEF L
<1>4. /\ \A j \in 1 .. n : /\ (j - 1) * L + 1 \in 1 .. Len(p)
                           /\ ((j - 1) * L + 1 - 1) % L = 0
      /\ \A i \in 1 .. Len(p) : (i - 1) % L = 0 =>
           \E j \in 1 .. n : (j - 1) * L + 1 = i
  BY <1>1, <1>2, Cuts
<1>5. ASSUME NEW j \in 1 .. n PROVE f[j] \in Pieces(d, p)
  <2>1. PICK i : i = (j - 1) * L + 1
    OBVIOUS
  <2>2. i \in 1 .. Len(p) /\ (i - 1) % L = 0
    <3> HIDE DEF n
    <3>1. /\ (j - 1) * L + 1 \in 1 .. Len(p)
          /\ ((j - 1) * L + 1 - 1) % L = 0
      BY <1>4
    <3>2. i \in 1 .. Len(p) /\ (j - 1) * L + 1 - 1 = i - 1
      BY <1>1, <1>2, <2>1, <3>1
    <3>. QED  BY <3>1, <3>2
  <2>3. f[j] = i
    BY <2>1
  <2> HIDE DEF f
  <2>. QED  BY <1>3, <2>2, <2>3
<1>6. \A i, j \in 1 .. n : f[i] = f[j] => i = j
  BY <1>1, <1>2
<1>7. \A i \in Pieces(d, p) : \E j \in 1 .. n : f[j] = i
  BY <1>3, <1>4
<1>8. IsFiniteSet(1 .. n) /\ Cardinality(1 .. n) = n
  BY <1>1, UpTo
<1>9. f \in [1 .. n -> Pieces(d, p)]
  BY <1>5
<1> HIDE DEF f, n
<1>10. Cardinality(Pieces(d, p)) = n
  BY <1>6, <1>7, <1>8, <1>9, Paired
<1>. QED  BY <1>10 DEF n, L

(* How many acknowledgements a service sends. *)
LEMMA AcksCount ==
  ASSUME NEW d \in Devices, NEW p \in Seq(Records), p # <<>>
  PROVE  LET N == Cardinality(Pieces(d, p))
             G == Cardinality(Good(d, p))
             B == Cardinality(Pieces(d, p) \ Good(d, p))
         IN  /\ N \in Nat \ {0} /\ G \in Nat /\ B \in Nat /\ N = G + B
             /\ B = 0 <=> Good(d, p) = Pieces(d, p)
             /\ IsFiniteSet(Acks(d, p))
             /\ Cardinality(Acks(d, p)) = AckCount[d] * G + B
<1> DEFINE pieces == Pieces(d, p)
           good == Good(d, p)
           bad == pieces \ good
           A == AckCount[d]
           S == good \X (1 .. A)
           ackOf(q) == [kind |-> "ack", record |-> q[1], field |-> q[2], ok |-> TRUE]
           badOf(i) == [kind |-> "ack", record |-> i, field |-> 1, ok |-> FALSE]
           Ok == {a \in Acks(d, p) : a.ok}
           No == {a \in Acks(d, p) : ~a.ok}
           f == [q \in S |-> ackOf(q)]
           g == [i \in bad |-> badOf(i)]
<1>1. IsFiniteSet(1 .. Len(p)) /\ A \in Nat \ {0}
  BY UpTo, PathAssumption
<1>2. pieces \subseteq 1 .. Len(p) /\ 1 \in pieces /\ good \subseteq pieces
  BY PiecesForm
<1>3. IsFiniteSet(pieces) /\ IsFiniteSet(good) /\ IsFiniteSet(bad)
  BY <1>1, <1>2, FS_Subset
<1>4. IsFiniteSet(S) /\ Cardinality(S) = Cardinality(good) * A
  <2>1. IsFiniteSet(1 .. A) /\ Cardinality(1 .. A) = A
    BY <1>1, UpTo
  <2> HIDE DEF good, A
  <2>. QED  BY <1>3, <2>1, FS_Product
<1>5. IsFiniteSet(Ok) /\ Cardinality(Ok) = Cardinality(S)
  <2>1. ASSUME NEW q \in S PROVE f[q] \in Ok
    <3>1. q[1] \in pieces /\ q[1] \in good /\ q[2] \in 1 .. A
      BY <1>2
    <3>2. ackOf(q) \in {[kind |-> "ack", record |-> q[1], field |-> i, ok |-> TRUE] :
                          i \in 1 .. AckCount[d]}
      BY <3>1
    <3>3. ackOf(q) \in Acks(d, p)
      BY <3>1, <3>2 DEF Acks
    <3>. QED  BY <3>3
  <2>2. \A q, r \in S : f[q] = f[r] => q = r
    <3>1. ASSUME NEW q \in S, NEW r \in S, f[q] = f[r] PROVE q = r
      <4>1. ackOf(q) = ackOf(r)
        BY <3>1
      <4>2. q[1] = r[1] /\ q[2] = r[2]
        BY <4>1
      <4>. QED  BY <4>2
    <3>. QED  BY <3>1
  <2>3. ASSUME NEW a \in Ok PROVE \E q \in S : f[q] = a
    <3>1. /\ a.record \in good /\ a.field \in 1 .. A
          /\ a = [kind |-> "ack", record |-> a.record, field |-> a.field, ok |-> a.ok]
          /\ a.ok \in BOOLEAN /\ a.ok
      BY AckParts
    <3>2. a.ok = TRUE
      BY <3>1
    <3>3. <<a.record, a.field>> \in S
      BY <3>1
    <3>4. f[<<a.record, a.field>>] = a
      BY <3>1, <3>2, <3>3
    <3>. QED  BY <3>3, <3>4
  <2>4. f \in [S -> Ok]
    BY <2>1
  <2> HIDE DEF S, Ok, f
  <2>. QED  BY <1>4, <2>2, <2>3, <2>4, Paired
<1>6. IsFiniteSet(No) /\ Cardinality(No) = Cardinality(bad)
  <2>1. ASSUME NEW i \in bad PROVE g[i] \in No
    <3>1. i \in pieces /\ i \notin good
      OBVIOUS
    <3>2. badOf(i) \in Acks(d, p)
      BY <3>1 DEF Acks
    <3>. QED  BY <3>2
  <2>2. \A i, j \in bad : g[i] = g[j] => i = j
    OBVIOUS
  <2>3. ASSUME NEW a \in No PROVE \E i \in bad : g[i] = a
    <3>1. /\ a.record \in bad /\ a.field = 1
          /\ a = [kind |-> "ack", record |-> a.record, field |-> a.field, ok |-> a.ok]
          /\ a.ok \in BOOLEAN /\ ~a.ok
      BY AckParts
    <3>2. a.ok = FALSE
      BY <3>1
    <3>. QED  BY <3>1, <3>2
  <2>4. g \in [bad -> No]
    BY <2>1
  <2> HIDE DEF bad, No, g
  <2>. QED  BY <1>3, <2>2, <2>3, <2>4, Paired
<1>7. /\ Acks(d, p) = Ok \cup No /\ Ok \cap No = {}
      /\ pieces = good \cup bad /\ good \cap bad = {}
  BY <1>2
<1>8. /\ Cardinality(good) \in Nat /\ Cardinality(bad) \in Nat
      /\ Cardinality(pieces) \in Nat /\ Cardinality(Ok) \in Nat
      /\ Cardinality(No) \in Nat
  BY <1>3, <1>5, <1>6, FS_CardinalityType
<1>9. Cardinality(pieces) = Cardinality(good) + Cardinality(bad)
  <2>1. pieces = good \cup bad /\ \A x \in good : x \notin bad
    BY <1>7
  <2> HIDE DEF pieces, good, bad
  <2>. QED  BY <1>3, <2>1, TwoParts
<1>10. /\ IsFiniteSet(Acks(d, p))
       /\ Cardinality(Acks(d, p)) = Cardinality(Ok) + Cardinality(No)
  <2>1. Acks(d, p) = Ok \cup No /\ \A x \in Ok : x \notin No
    BY <1>7
  <2> HIDE DEF Ok, No
  <2>. QED  BY <1>5, <1>6, <2>1, TwoParts
<1>11. Cardinality(pieces) # 0 /\ (Cardinality(bad) = 0 <=> bad = {})
  BY <1>2, <1>3, FS_EmptySet
<1>12. Good(d, p) = Pieces(d, p) <=> bad = {}
  BY <1>2
<1>13. \A x, y \in Nat : x * y = y * x
  OBVIOUS
<1> HIDE DEF pieces, good, bad, Ok, No, S, A
<1>14. Cardinality(Acks(d, p)) = A * Cardinality(good) + Cardinality(bad)
  BY <1>1, <1>4, <1>5, <1>6, <1>8, <1>10, <1>13
<1>. QED
  BY <1>8, <1>9, <1>10, <1>11, <1>12, <1>14 DEF pieces, good, bad, A

(* When the client cuts a payload as the service does, it waits for one    *)
(* acknowledgement for every field of every piece.                         *)
LEMMA AlikeCount ==
  ASSUME NEW c \in Calls, c.kind = "inject", Target(c) \in Devices, CutAlike(c)
  PROVE  /\ AckCount[Target(c)] = AckCount[c.dev]
         /\ Cardinality(Pieces(Target(c), c.payload)) * AckCount[c.dev]
              = ExpectedAcks(c)
<1> DEFINE d == Target(c)
<1>1. c.dev \in Devices /\ Whole(c.dev, c.payload)
  BY CallParts
<1>2. SHORT_PARAM_LEN[d] = SHORT_PARAM_LEN[c.dev]
  BY DEF CutAlike
<1>3. AckCount[d] = AckCount[c.dev]
  <2>1. d = c.dev \/ (d \in {"xtl", "zzw"} /\ c.dev \in {"xtl", "zzw"})
    BY <1>1, <1>2 DEF SHORT_PARAM_LEN, Devices
  <2>2. AckCount["xtl"] = AckCount["zzw"]
    BY PathAssumption
  <2>. QED  BY <2>1, <2>2
<1>4. Whole(d, c.payload)
  BY <1>1, <1>2 DEF Whole
<1>5. Cardinality(Pieces(d, c.payload)) = Len(c.payload) \div SHORT_PARAM_LEN[c.dev]
  BY <1>2, <1>4, PiecesCount
<1>. QED  BY <1>3, <1>5 DEF ExpectedAcks

(* The fragments of an answer. *)
LEMMA PartForm ==
  ASSUME NEW q, q.parts # 0, NEW b, NEW a \in Answer(q, b)
  PROVE  /\ a.idx \in 0 .. q.parts - 1
         /\ a = [kind |-> "part", tid |-> q.tid, total |-> q.parts,
                 idx |-> a.idx, body |-> b]
<1>1. PICK i \in 0 .. q.parts - 1 :
        a = [kind |-> "part", tid |-> q.tid, total |-> q.parts, idx |-> i,
             body |-> b]
  BY DEF Answer
<1>. QED  BY <1>1

(* An answer has the datagrams the client waits for. *)
LEMMA AnswerCount ==
  ASSUME NEW k, k.call \in Calls, k.call.kind = "query", NEW b
  PROVE  /\ IsFiniteSet(Replies(k, b))
         /\ Cardinality(Replies(k, b)) = Needed(k.call)
<1> DEFINE c == k.call
           q == Request(c, k.tid)
           R == Replies(k, b)
<1>1. R = Answer(q, b) /\ q.parts = c.parts
  BY DEF Replies, Request
<1>2. CASE c.parts = 0
  <2>1. R = {[kind |-> "full", body |-> b]}
    BY <1>1, <1>2 DEF Answer
  <2>. QED  BY <1>2, <2>1, FS_Singleton DEF Needed
<1>3. CASE c.parts # 0
  <2> DEFINE I == 0 .. c.parts - 1
             f == [i \in I |-> [kind |-> "part", tid |-> q.tid, total |-> q.parts,
                                idx |-> i, body |-> b]]
  <2>1. c.parts \in Nat
    BY CallParts
  <2>2. IsFiniteSet(I) /\ Cardinality(I) = c.parts
    BY <2>1, UpTo
  <2>3. f \in [I -> R]
    BY <1>1, <1>3 DEF Answer
  <2>4. \A i, j \in I : f[i] = f[j] => i = j
    OBVIOUS
  <2>5. \A a \in R : \E i \in I : f[i] = a
    BY <1>1, <1>3, PartForm
  <2>6. IsFiniteSet(R) /\ Cardinality(R) = Cardinality(I)
    <3> HIDE DEF I, R, f
    <3>. QED  BY <2>2, <2>3, <2>4, <2>5, Paired
  <2>. QED  BY <1>3, <2>2, <2>6 DEF Needed
<1>. QED  BY <1>2, <1>3

(* A product grows with its factors. *)
LEMMA Products ==
  ASSUME NEW a \in Nat \ {0}, NEW g \in Nat, NEW b \in Nat
  PROVE  /\ a * g + b \in Nat /\ (g + b) * a \in Nat
         /\ a * g + b <= (g + b) * a
         /\ b > 0 => (g + b) * a >= (a * g + b) + (a - 1)
<1>1. (g + b) * a = a * g + b * a /\ a * g \in Nat /\ b * a \in Nat
  OBVIOUS
<1>2. b * a = b + b * (a - 1) /\ b * (a - 1) \in Nat
  OBVIOUS
<1>3. b > 0 => b * (a - 1) >= a - 1
  <2> SUFFICES ASSUME b > 0 PROVE b * (a - 1) >= a - 1
    OBVIOUS
  <2>1. b * (a - 1) = (b - 1) * (a - 1) + (a - 1)
    OBVIOUS
  <2>2. (b - 1) * (a - 1) \in Nat
    <3>1. b - 1 \in Nat /\ a - 1 \in Nat
      OBVIOUS
    <3>2. \A x, y \in Nat : x * y \in Nat
      OBVIOUS
    <3>. QED  BY <3>1, <3>2
  <2>. QED  BY <2>1, <2>2
<1>. QED  BY <1>1, <1>2, <1>3

(* There are finitely many replies; a service that cuts as the client does *)
(* sends no more than the client waits for, and so many if it takes all.   *)
LEMMA RepliesCount ==
  ASSUME NEW k, k.call \in Calls, Target(k.call) \in Devices, NEW b
  PROVE  /\ IsFiniteSet(Replies(k, b))
         /\ Cardinality(Replies(k, b)) \in Nat
         /\ Needed(k.call) \in Nat \ {0}
         /\ CutAlike(k.call) => Cardinality(Replies(k, b)) <= Needed(k.call)
         /\ CutAlike(k.call) /\ TakesAll(k.call) =>
              Cardinality(Replies(k, b)) = Needed(k.call)
<1> DEFINE c == k.call
           d == Target(c)
           R == Replies(k, b)
<1>0. Needed(c) \in Nat \ {0}
  BY CallParts DEF Needed
<1>1. CASE c.kind = "query"
  BY <1>0, <1>1, AnswerCount
<1>2. CASE c.kind = "inject"
  <2> DEFINE N == Cardinality(Pieces(d, c.payload))
             G == Cardinality(Good(d, c.payload))
             B == Cardinality(Pieces(d, c.payload) \ Good(d, c.payload))
             A == AckCount[d]
  <2>1. R = Acks(d, c.payload) /\ Needed(c) = ExpectedAcks(c)
    BY <1>2 DEF Replies, Needed
  <2>2. c.payload \in Seq(Records) /\ c.payload # <<>>
    BY <1>2, CallParts DEF Whole
  <2>3. /\ G \in Nat /\ B \in Nat /\ N = G + B
        /\ B = 0 <=> Good(d, c.payload) = Pieces(d, c.payload)
        /\ IsFiniteSet(R) /\ Cardinality(R) = A * G + B
    BY <2>1, <2>2, AcksCount
  <2>4. A \in Nat \ {0}
    BY PathAssumption
  <2>5. CutAlike(c) => Needed(c) = N * A
    BY <1>2, <2>1, AlikeCount
  <2>6. TakesAll(c) => B = 0
    BY <1>2, <2>3 DEF TakesAll
  <2> HIDE DEF N, G, B, A, R, c
  <2>7. A * G + B \in Nat /\ A * G + B <= (G + B) * A
    BY <2>3, <2>4, Products
  <2>8. B = 0 => A * G + B = (G + B) * A
    BY <2>3, <2>4
  <2>9. CutAlike(c) => Cardinality(R) <= Needed(c)
    BY <2>3, <2>5, <2>7
  <2>10. CutAlike(c) /\ TakesAll(c) => Cardinality(R) = Needed(c)
    BY <2>3, <2>5, <2>6, <2>8
  <2>. QED  BY <1>0, <2>3, <2>7, <2>9, <2>10 DEF R, c
<1>. QED  BY <1>1, <1>2, CallParts

-----------------------------------------------------------------------------
(* Where the datagrams of a call are.  P is what is in transit of it, T    *)
(* what the client has of it, and "all" says that nothing is missing.      *)

Port(c) == IF c.kind = "query" THEN "response" ELSE "event"

(* A reply in front of the client, and one on its way to the relay. *)
Arrived(h, k, a) ==
  Datagram("host", h, Target(k.call), FALSE, Port(k.call), k.id, a)

Underway(h, k, a) ==
  Datagram("gateway", h, Target(k.call), TRUE, Port(k.call), k.id, a)

(* The relay, if it is on the way, lets the call pass. *)
Accepted(h, c) == c.via = "relay" => h \in Allowed /\ TakesAll(c)

Outgoing(h, k, m) ==
  /\ m.host = h /\ m.id = k.id
  /\ m.data = Request(k.call, k.tid)
  /\ \/ m.hop = "relay" /\ k.call.via = "relay"
     \/ /\ m.hop = "device" /\ m.dev = Target(k.call)
        /\ m.wrapped => m.port = Port(k.call) /\ h \in Allowed
        /\ Accepted(h, k.call)

(* The request is on its way, or lost, or refused by the relay. *)
Asking(h, k, P, T, all) ==
  /\ T = {}
  /\ \A m \in P : Outgoing(h, k, m) /\ P = {m}
  /\ all /\ Accepted(h, k.call) => P # {}

(* The device has served the request, holding b. *)
Answering(h, k, b, P, T, all) ==
  /\ Target(k.call) \in Devices /\ Accepted(h, k.call)
  /\ k.call.kind = "inject" /\ Good(Target(k.call), k.call.payload) # {} =>
       b = Taking(Target(k.call), k.call.payload, h)
  /\ \A m \in P : /\ m.data \in Replies(k, b)
                  /\ \/ m = Arrived(h, k, m.data)
                     \/ m = Underway(h, k, m.data) /\ h \in Allowed
  /\ \A g \in T : g.data \in Replies(k, b) /\ g = Arrived(h, k, g.data)
  /\ \A m, n \in P : m.data = n.data => m = n
  /\ \A m \in P, g \in T : m.data # g.data
  /\ all => \A a \in Replies(k, b) : \E m \in P \cup T : m.data = a

(* Everything of the call is accounted for. *)
Accounted(h, k, P, T, all) ==
  Asking(h, k, P, T, all) \/ \E b \in k.seen : Answering(h, k, b, P, T, all)

(* A call that has seen more, and from which more may be missing. *)
LEMMA OwnGrows ==
  ASSUME NEW h, NEW k, NEW n, NEW P, NEW T, NEW all, NEW some,
         n.call = k.call, n.tid = k.tid, n.id = k.id, k.seen \subseteq n.seen,
         some => all, Accounted(h, k, P, T, all)
  PROVE  Accounted(h, n, P, T, some)
<1>1. ASSUME Asking(h, k, P, T, all) PROVE Asking(h, n, P, T, some)
  BY <1>1 DEF Asking, Outgoing
<1>2. ASSUME NEW b \in k.seen, Answering(h, k, b, P, T, all)
      PROVE  b \in n.seen /\ Answering(h, n, b, P, T, some)
  <2>1. /\ Replies(n, b) = Replies(k, b)
        /\ \A a : Arrived(h, n, a) = Arrived(h, k, a)
        /\ \A a : Underway(h, n, a) = Underway(h, k, a)
    BY DEF Replies, Arrived, Underway
  <2>. QED  BY <1>2, <2>1 DEF Answering
<1>. QED  BY <1>1, <1>2 DEF Accounted

(* A call that has just begun. *)
LEMMA OwnBegins ==
  ASSUME NEW h, NEW k, NEW m, Outgoing(h, k, m), NEW all
  PROVE  Accounted(h, k, {m}, {}, all)
BY DEF Accounted, Asking

(* A datagram of the call is lost. *)
LEMMA OwnLoses ==
  ASSUME NEW h, NEW k, NEW P, NEW T, NEW all, NEW m, Accounted(h, k, P, T, all)
  PROVE  Accounted(h, k, P \ {m}, T, FALSE)
<1>1. ASSUME Asking(h, k, P, T, all) PROVE Asking(h, k, P \ {m}, T, FALSE)
  BY <1>1 DEF Asking
<1>2. ASSUME NEW b \in k.seen, Answering(h, k, b, P, T, all)
      PROVE  Answering(h, k, b, P \ {m}, T, FALSE)
  BY <1>2 DEF Answering
<1>. QED  BY <1>1, <1>2 DEF Accounted

(* The relay passes what the device it is meant for takes entirely, and    *)
(* nothing else.                                                           *)
LEMMA RelayedIsTaken ==
  ASSUME NEW c \in Calls, c.via = "relay", NEW tid
  PROVE  LET data == Request(c, tid)
             d == ClassifyPayload(data)
         IN  /\ d # NoDevice /\ ValidatePayload(d, data) <=> TakesAll(c)
             /\ TakesAll(c) => d = Target(c)
<1> DEFINE data == Request(c, tid)
           d == ClassifyPayload(data)
<1>1. CASE c.kind = "query"
  <2>1. data.kind = "query" /\ data.code = QUERY_EQUIP[c.dev] /\ c.dev \in Devices
    BY <1>1, CallParts DEF Request
  <2>2. d = c.dev /\ Target(c) = c.dev
    BY <1>1, <2>1, TablesAgree, TargetForm DEF ClassifyPayload
  <2>3. d # NoDevice /\ ValidatePayload(d, data)
    BY <2>1, <2>2, TablesAgree DEF ValidatePayload
  <2>. QED  BY <1>1, <2>2, <2>3 DEF TakesAll
<1>2. CASE c.kind = "inject"
  <2> DEFINE p == c.payload
  <2>1. data.kind = "inject" /\ data.payload = p
    BY <1>2 DEF Request
  <2>2. p \in Seq(Records) /\ p # <<>>
    BY <1>2, CallParts DEF Whole
  <2>3. \A i \in DOMAIN RADIO_TYPES : RADIO_TYPE[RADIO_TYPES[i]] = i
    BY DEF RADIO_TYPES, RADIO_TYPE
  <2>4. ASSUME d # NoDevice, ValidatePayload(d, data)
        PROVE  TakesAll(c) /\ d = Target(c)
    <3>1. d \in Devices
      BY <2>4, ClassifyForm
    <3>2. RADIO_TYPE[d] = p[1].type
      BY <2>1, <2>3, <2>4 DEF ClassifyPayload
    <3>3. Target(c) = d
      BY <1>2, <3>1, <3>2, TargetForm
    <3>4. Good(d, p) = Pieces(d, p)
      BY <2>1, <2>4, <3>1, PassedIsServed DEF Served
    <3>. QED  BY <3>1, <3>3, <3>4 DEF TakesAll
  <2>5. ASSUME TakesAll(c) PROVE d = Target(c) /\ d # NoDevice /\ ValidatePayload(d, data)
    <3> DEFINE t == Target(c)
               L == SHORT_PARAM_LEN[t]
    <3>1. t \in Devices /\ Good(t, p) = Pieces(t, p)
      BY <1>2, <2>5 DEF TakesAll
    <3>2. 1 \in Good(t, p)
      BY <2>2, <3>1, PiecesForm
    <3>3. Len(p) % L = 0 /\ p[1].fmt = SHORT_FMT_VERSION /\ p[1].type = RADIO_TYPE[t]
      BY <3>2 DEF Good
    <3>4. d = t /\ d # NoDevice
      BY <2>1, <3>1, <3>3, TablesAgree DEF ClassifyPayload, SHORT_FMT_VERSION
    <3>5. ASSUME NEW i \in DOMAIN p, (i - 1) % L = 0
          PROVE  Marker(p[i]) = <<SHORT_FMT_VERSION, RADIO_TYPE[t]>>
      <4>1. i \in Good(t, p)
        BY <3>1, <3>3, <3>5 DEF Pieces
      <4>. QED  BY <4>1 DEF Good, Marker
    <3>6. DEVICE_SHORT_LENGTHS[t] = L
          /\ DEVICE_SHORT_MARKERS[t] = <<SHORT_FMT_VERSION, RADIO_TYPE[t]>>
      BY <3>1, TablesAgree
    <3>. HIDE DEF p, d, t, data
    <3>. QED  BY <2>1, <3>3, <3>4, <3>5, <3>6 DEF ValidatePayload, t, d
  <2>. QED  BY <2>4, <2>5
<1>. QED  BY <1>1, <1>2, CallParts

(* The relay has the request of the call. *)
LEMMA OwnRelayed ==
  ASSUME NEW h, NEW k, k.call \in Calls, NEW P, NEW T, NEW all,
         NEW m \in P, m.hop = "relay", Accounted(h, k, P, T, all), NEW Q,
         LET d == ClassifyPayload(m.data)
             f == Datagram("device", m.host, d, TRUE, ReplyPort(m.data), m.id,
                           m.data)
         IN  Q = IF m.host \in Allowed /\ d # NoDevice /\ ValidatePayload(d, m.data)
                 THEN {f} ELSE {}
  PROVE  Accounted(h, k, Q, T, all)
<1> DEFINE c == k.call
           d == ClassifyPayload(m.data)
           f == Datagram("device", m.host, d, TRUE, ReplyPort(m.data), m.id,
                         m.data)
<1>1. \A b : ~Answering(h, k, b, P, T, all)
  BY DEF Answering, Arrived, Underway, Datagram
<1>2. Asking(h, k, P, T, all)
  BY <1>1 DEF Accounted
<1>3. /\ m.host = h /\ m.id = k.id /\ m.data = Request(c, k.tid)
      /\ c.via = "relay" /\ T = {}
  BY <1>2 DEF Asking, Outgoing
<1>4. ReplyPort(m.data) = Port(c)
  BY <1>3, CallParts DEF Request, ReplyPort, Port
<1>5. /\ d # NoDevice /\ ValidatePayload(d, m.data) <=> TakesAll(c)
      /\ TakesAll(c) => d = Target(c)
  BY <1>3, RelayedIsTaken
<1>6. h \in Allowed /\ TakesAll(c) => Outgoing(h, k, f)
  BY <1>3, <1>4, <1>5 DEF Outgoing, Datagram, Accepted
<1>7. Accepted(h, c) <=> h \in Allowed /\ TakesAll(c)
  BY <1>3 DEF Accepted
<1>8. Q = IF Accepted(h, c) THEN {f} ELSE {}
  BY <1>3, <1>5, <1>7
<1>. HIDE DEF f, d
<1>9. Asking(h, k, Q, T, all)
  BY <1>3, <1>6, <1>7, <1>8 DEF Asking
<1>. QED  BY <1>9 DEF Accounted

(* A request has not been answered, and a reply has been sent. *)
LEMMA OwnStage ==
  ASSUME NEW h, NEW k, NEW P, NEW T, NEW all, NEW m \in P, Accounted(h, k, P, T, all)
  PROVE  /\ m.hop \in {"relay", "device"} => Asking(h, k, P, T, all)
         /\ m.hop \in {"gateway", "host"} =>
              \E b \in k.seen : Answering(h, k, b, P, T, all)
<1>1. ASSUME Asking(h, k, P, T, all) PROVE m.hop \in {"relay", "device"}
  BY <1>1 DEF Asking, Outgoing
<1>2. ASSUME NEW b, Answering(h, k, b, P, T, all)
      PROVE  m.hop \in {"gateway", "host"}
  BY <1>2 DEF Answering, Arrived, Underway, Datagram
<1>3. m.hop \in {"relay", "device"} => ~(m.hop \in {"gateway", "host"})
  OBVIOUS
<1>. QED  BY <1>1, <1>2, <1>3 DEF Accounted

(* The relay has a reply to the call. *)
LEMMA OwnForwarded ==
  ASSUME NEW h, NEW k, NEW P, NEW T, NEW all, NEW m \in P, m.hop = "gateway",
         Accounted(h, k, P, T, all), NEW Q,
         Q = (P \ {m}) \cup
               IF ReplyHost(m) \in Allowed
               THEN {Datagram("host", ReplyHost(m), m.dev, FALSE, m.port, m.id,
                              m.data)}
               ELSE {}
  PROVE  Accounted(h, k, Q, T, all)
<1>1. PICK b \in k.seen : Answering(h, k, b, P, T, all)
  BY OwnStage
<1> DEFINE f == Arrived(h, k, m.data)
<1>2. m = Underway(h, k, m.data) /\ h \in Allowed
  BY <1>1 DEF Answering, Arrived, Datagram
<1>3. /\ ReplyHost(m) = h
      /\ f = Datagram("host", h, m.dev, FALSE, m.port, m.id, m.data)
  <2>1. /\ m.host = h /\ m.dev = Target(k.call) /\ m.wrapped = TRUE
        /\ m.port = Port(k.call) /\ m.id = k.id
    BY <1>2 DEF Underway, Datagram
  <2>. QED  BY <2>1 DEF ReplyHost, Arrived
<1>4. Q = (P \ {m}) \cup {f}
  BY <1>2, <1>3
<1>5. f.data = m.data
  BY DEF Arrived, Datagram
<1>6. Answering(h, k, b, Q, T, all)
  <2>1. \A n \in Q : /\ n.data \in Replies(k, b)
                     /\ \/ n = Arrived(h, k, n.data)
                        \/ n = Underway(h, k, n.data) /\ h \in Allowed
    BY <1>1, <1>4, <1>5 DEF Answering
  <2>2. \A n, o \in Q : n.data = o.data => n = o
    BY <1>1, <1>4, <1>5 DEF Answering
  <2>3. \A n \in Q, g \in T : n.data # g.data
    BY <1>1, <1>4, <1>5 DEF Answering
  <2>4. all => \A a \in Replies(k, b) : \E n \in Q \cup T : n.data = a
    BY <1>1, <1>4, <1>5 DEF Answering
  <2>. QED  BY <1>1, <2>1, <2>2, <2>3, <2>4 DEF Answering
<1>. QED  BY <1>6 DEF Accounted

(* The device has the request of the call. *)
LEMMA OwnServed ==
  ASSUME NEW h, NEW k, k.call \in Calls, NEW P, NEW T, NEW all,
         NEW m \in P, Asking(h, k, P, T, all), m.hop = "device", m.dev \in Devices,
         NEW b,
         k.call.kind = "inject" /\ Good(Target(k.call), k.call.payload) # {} =>
           b = Taking(Target(k.call), k.call.payload, h)
  PROVE  Answering(h, k, b, {Reply(m, a) : a \in Replies(k, b)}, T, all)
<1> DEFINE Q == {Reply(m, a) : a \in Replies(k, b)}
<1>1. /\ m.host = h /\ m.id = k.id /\ m.data = Request(k.call, k.tid)
      /\ m.dev = Target(k.call) /\ T = {}
      /\ m.wrapped => m.port = Port(k.call) /\ h \in Allowed
      /\ Accepted(h, k.call)
  BY DEF Asking, Outgoing
<1>2. ReplyPort(m.data) = Port(k.call)
  BY <1>1, CallParts DEF Request, ReplyPort, Port
<1>3. ASSUME NEW a
      PROVE  /\ Reply(m, a).data = a
             /\ \/ Reply(m, a) = Arrived(h, k, a)
                \/ Reply(m, a) = Underway(h, k, a) /\ h \in Allowed
  <2>1. CASE m.wrapped
    BY <1>1, <2>1 DEF Reply, Underway, Datagram
  <2>2. CASE ~m.wrapped
    BY <1>1, <1>2, <2>2 DEF Reply, Arrived, Datagram
  <2>. QED  BY <2>1, <2>2
<1>4. \A n \in Q : /\ n.data \in Replies(k, b)
                   /\ \/ n = Arrived(h, k, n.data)
                      \/ n = Underway(h, k, n.data) /\ h \in Allowed
  BY <1>3
<1>5. \A n, o \in Q : n.data = o.data => n = o
  BY <1>3
<1>6. \A a \in Replies(k, b) : \E n \in Q \cup T : n.data = a
  BY <1>3
<1>. QED  BY <1>1, <1>4, <1>5, <1>6 DEF Answering

(* The client takes a reply. *)
LEMMA OwnTaken ==
  ASSUME NEW h, NEW k, NEW P, NEW T, NEW all, NEW b, Answering(h, k, b, P, T, all),
         NEW m \in P, m.hop = "host"
  PROVE  /\ Answering(h, k, b, P \ {m}, T \cup {m}, all)
         /\ m = Arrived(h, k, m.data) /\ m.data \in Replies(k, b)
<1>1. m = Arrived(h, k, m.data) /\ m.data \in Replies(k, b)
  BY DEF Answering, Underway, Datagram
<1>2. \A n \in P \ {m}, g \in T \cup {m} : n.data # g.data
  BY DEF Answering
<1>3. (P \ {m}) \cup (T \cup {m}) = P \cup T
  OBVIOUS
<1>. QED  BY <1>1, <1>2, <1>3 DEF Answering

(* What the client has are replies, none of them twice. *)
LEMMA TakenBound ==
  ASSUME NEW h, NEW k, k.call \in Calls, NEW P, NEW T, NEW all, NEW b,
         Answering(h, k, b, P, T, all)
  PROVE  /\ IsFiniteSet(T) /\ Cardinality(T) \in Nat
         /\ Cardinality(T) <= Cardinality(Replies(k, b))
         /\ Cardinality(T) = Cardinality(Replies(k, b)) => P = {}
         /\ (\A a \in Replies(k, b) : \E g \in T : g.data = a) =>
              Cardinality(T) = Cardinality(Replies(k, b))
<1> DEFINE R == Replies(k, b)
           f == [g \in T |-> g.data]
<1>1. f \in Injection(T, R)
  <2>1. \A g \in T : f[g] \in R
    BY DEF Answering
  <2>2. ASSUME NEW g \in T, NEW e \in T, f[g] = f[e] PROVE g = e
    BY <2>2 DEF Answering
  <2>. QED  BY <2>1, <2>2, OneToOne
<1>2. IsFiniteSet(R)
  BY RepliesCount DEF Answering
<1>3. /\ IsFiniteSet(T) /\ Cardinality(T) <= Cardinality(R)
      /\ Cardinality(T) = Cardinality(R) <=> f \in Surjection(T, R)
  <2> HIDE DEF R, f
  <2>. QED  BY <1>1, <1>2, FS_Injection
<1>4. Cardinality(T) \in Nat
  BY <1>3, FS_CardinalityType
<1>5. ASSUME f \in Surjection(T, R), NEW n \in P PROVE FALSE
  <2>1. n.data \in R
    BY DEF Answering
  <2>2. \E g \in T : f[g] = n.data
    BY <1>5, <2>1 DEF Surjection
  <2>. QED  BY <2>2 DEF Answering
<1>6. ASSUME \A a \in R : \E g \in T : g.data = a PROVE f \in Surjection(T, R)
  <2>1. \A g \in T : g.data \in R
    BY DEF Answering
  <2>. QED  BY <1>6, <2>1 DEF Surjection
<1>. QED  BY <1>3, <1>4, <1>5, <1>6

(* When the client has all it waits for, nothing else is on its way. *)
LEMMA Complete ==
  ASSUME NEW h, NEW k, k.call \in Calls, NEW P, NEW T, NEW all, NEW b,
         Answering(h, k, b, P, T, all), CutAlike(k.call),
         Cardinality(T) >= Needed(k.call)
  PROVE  P = {}
<1>1. /\ Cardinality(T) \in Nat /\ Cardinality(T) <= Cardinality(Replies(k, b))
      /\ Cardinality(T) = Cardinality(Replies(k, b)) => P = {}
  BY TakenBound
<1>2. Target(k.call) \in Devices
  BY DEF Answering
<1>3. /\ Cardinality(Replies(k, b)) \in Nat /\ Needed(k.call) \in Nat
      /\ Cardinality(Replies(k, b)) <= Needed(k.call)
  BY <1>2, RepliesCount
<1>. QED  BY <1>1, <1>3

-----------------------------------------------------------------------------
(* What steps leave alone.                                                 *)

(* A step of one datagram. *)
Moves(m) ==
  \/ RelayRequest(m) \/ RelayAnswer(m)
  \/ ServeQuery(m) \/ ServeInjection(m)
  \/ HostReceives(m) \/ Lose(m)

(* What replaces a datagram is of the same call and the same host, and     *)
(* what comes out of a report is a report.                                 *)
LEMMA MoveKeepsId ==
  ASSUME NEW m \in net, Moves(m)
  PROVE  /\ \A n \in net' : n \in net \/ n.id = m.id
         /\ \A n \in net : n \in net' \/ n = m
         /\ UNCHANGED <<calls, clock>>
         /\ losses' = losses \/ losses' = losses + 1
<1>1. \A a : Reply(m, a).id = m.id
  BY DEF Reply, Datagram
<1>2. CASE RelayRequest(m)
  BY <1>2 DEF RelayRequest, Datagram
<1>3. CASE RelayAnswer(m)
  BY <1>3 DEF RelayAnswer, Datagram
<1>4. CASE ServeQuery(m)
  BY <1>1, <1>4 DEF ServeQuery
<1>5. CASE ServeInjection(m)
  BY <1>1, <1>5 DEF ServeInjection
<1>6. CASE HostReceives(m)
  BY <1>6 DEF HostReceives
<1>7. CASE Lose(m)
  BY <1>7 DEF Lose
<1>. QED  BY <1>2, <1>3, <1>4, <1>5, <1>6, <1>7 DEF Moves

(* Only its beginning names a call anew, and a call that has ended stays. *)
LEMMA CallsKept ==
  ASSUME Typed, [Next]_vars, UNCHANGED calls, NEW h \in Hosts
  PROVE  /\ client'[h].call = client[h].call
         /\ client'[h].tid = client[h].tid
         /\ client'[h].stale = client[h].stale
         /\ client'[h].used = client[h].used
         /\ client'[h].st = "none" <=> client[h].st = "none"
         /\ client'[h].id = client[h].id
         /\ client[h].seen \subseteq client'[h].seen
         /\ Running(h)' => Running(h)
         /\ Running(h)' => client'[h].st = client[h].st
         /\ ~Running(h) => client'[h] = client[h]
<1> DEFINE k == client[h]
           n == client'[h]
<1>0. k \in CallForms
  BY DEF Typed, CallTyped
<1>1. ASSUME n = k
      PROVE  /\ n.call = k.call /\ n.tid = k.tid /\ n.id = k.id
             /\ n.stale = k.stale /\ n.used = k.used
             /\ k.seen \subseteq n.seen
             /\ n.st = "none" <=> k.st = "none"
             /\ Running(h)' => Running(h)
             /\ Running(h)' => n.st = k.st
             /\ ~Running(h) => n = k
  BY <1>1 DEF Running
<1>2. ASSUME NEW m \in net, HostReceives(m), h = m.host, n # k
      PROVE  /\ n.call = k.call /\ n.tid = k.tid /\ n.id = k.id
             /\ n.stale = k.stale /\ n.used = k.used
             /\ k.seen \subseteq n.seen
             /\ n.st = "none" <=> k.st = "none"
             /\ Running(h)' => Running(h)
             /\ Running(h)' => n.st = k.st
             /\ ~Running(h) => n = k
  <2>1. n = [k EXCEPT !.st = n.st, !.got = n.got]
    BY <1>2, Received
  <2>2. k.st \in {"query", "inject"} /\ n.st \in {"query", "inject"} => n.st = k.st
    BY <1>2, Received
  <2>3. k.st \in {"query", "inject"}
    BY <1>2, Received
  <2>4. n.st # "none"
    BY <1>2, <2>3, Received
  <2>. HIDE DEF k, n
  <2>5. /\ n.call = k.call /\ n.tid = k.tid /\ n.id = k.id
        /\ n.stale = k.stale /\ n.used = k.used /\ n.seen = k.seen
    BY <1>0, <2>1 DEF CallForms
  <2>6. Running(h) /\ (Running(h)' <=> n.st \in {"query", "inject"})
    BY <2>3 DEF Running, k, n
  <2>. QED  BY <2>2, <2>3, <2>5, <2>6, <2>4
<1>3. ASSUME NEW m \in net, HostReceives(m), h # m.host PROVE n = k
  BY <1>3, Received
<1>4. ASSUME NEW g \in Hosts, NEW c \in Calls, StartCall(g, c) PROVE FALSE
  <2>1. calls \in Nat /\ calls' = calls + 1
    BY <1>4 DEF StartCall, Typed
  <2>. QED  BY <2>1
<1>5. ASSUME NEW g \in Hosts, TimeOut(g)
      PROVE  /\ n.call = k.call /\ n.tid = k.tid /\ n.id = k.id
             /\ n.stale = k.stale /\ n.used = k.used
             /\ k.seen \subseteq n.seen
             /\ n.st = "none" <=> k.st = "none"
             /\ Running(h)' => Running(h)
             /\ Running(h)' => n.st = k.st
             /\ ~Running(h) => n = k
  <2>1. CASE g # h
    <3>1. n = k
      BY <1>5, <2>1 DEF TimeOut, Typed
    <3>. QED  BY <1>1, <3>1
  <2>2. CASE g = h
    <3>1. n = [k EXCEPT !.st = "timedout"]
      BY <1>5, <2>2 DEF TimeOut, Typed
    <3>2. Running(h)
      BY <1>5, <2>2 DEF TimeOut
    <3>3. /\ n.call = k.call /\ n.tid = k.tid /\ n.id = k.id
          /\ n.stale = k.stale /\ n.used = k.used
          /\ n.seen = k.seen /\ n.st = "timedout"
      BY <1>0, <3>1 DEF CallForms
    <3>. QED  BY <3>2, <3>3 DEF Running
  <2>. QED  BY <2>1, <2>2
<1>6. ASSUME NEW m \in net, ServeInjection(m)
      PROVE  /\ n.call = k.call /\ n.tid = k.tid /\ n.id = k.id
             /\ n.stale = k.stale /\ n.used = k.used
             /\ k.seen \subseteq n.seen
             /\ n.st = "none" <=> k.st = "none"
             /\ Running(h)' => Running(h)
             /\ Running(h)' => n.st = k.st
             /\ ~Running(h) => n = k
  <2> DEFINE b == Applied(m.dev, m.data.payload, m.host)
  <2>1. n = IF Running(h) /\ Target(k.call) = m.dev
            THEN [k EXCEPT !.seen = @ \cup {b}] ELSE k
    BY <1>6 DEF ServeInjection
  <2>2. CASE n = k
    BY <1>1, <2>2
  <2>3. CASE Running(h) /\ n = [k EXCEPT !.seen = @ \cup {b}]
    <3>1. /\ n.call = k.call /\ n.tid = k.tid /\ n.id = k.id
          /\ n.stale = k.stale /\ n.used = k.used
          /\ n.seen = k.seen \cup {b} /\ n.st = k.st
      BY <1>0, <2>3 DEF CallForms
    <3>. QED  BY <2>3, <3>1 DEF Running
  <2>. QED  BY <2>1, <2>2, <2>3
<1>7. ASSUME UNCHANGED client PROVE n = k
  BY <1>7
<1>8. CASE UNCHANGED client
  BY <1>1, <1>7, <1>8
<1>. QED
  BY <1>1, <1>2, <1>3, <1>4, <1>5, <1>6, <1>8
     DEF Next, vars, RelayRequest, RelayAnswer, ServeQuery, Report, Lose, Tick

-----------------------------------------------------------------------------
(* Numbers, and what a running call has seen.                              *)

(* Calls are numbered. *)
Numbered ==
  /\ \A m \in net : m.id[2] <= calls
  /\ \A h \in Hosts :
       /\ client[h].id[2] <= calls
       /\ client[h].st # "none" => client[h].id[1] = h /\ client[h].id[2] > 0

(* What the device holds now, a running call has seen. *)
SeesNow == \A h \in Hosts : Running(h) => HeldNow(client[h].call) \subseteq client[h].seen

(* What belongs to no call is a report. *)
Unasked == \A m \in net : m.id = NoCall => m.data.kind = "report" /\ m.port = "event"

(* The beginning. *)
LEMMA NumberedInit == Init => Numbered /\ SeesNow /\ Unasked
<1> SUFFICES ASSUME Init PROVE Numbered /\ SeesNow /\ Unasked
  OBVIOUS
<1>1. net = {} /\ calls = 0
  BY DEF Init
<1>2. \A h \in Hosts : client[h].id = NoCall /\ client[h].st = "none"
  BY DEF Init, Closed
<1>3. \A h \in Hosts : ~Running(h)
  BY <1>2 DEF Running
<1>. QED  BY <1>1, <1>2, <1>3 DEF Numbered, SeesNow, Unasked, NoCall

(* Every step keeps the numbers right. *)
LEMMA NumberedStep == Typed /\ Numbered /\ [Next]_vars => Numbered'
<1> SUFFICES ASSUME Typed, Numbered, [Next]_vars PROVE Numbered'
  OBVIOUS
<1>0. /\ calls \in Nat
      /\ \A h \in Hosts : client[h].id \in Hosts \X Nat
      /\ \A m \in net : m.id \in Hosts \X Nat
  BY DEF Typed, CallTyped, CallForms, DatagramTyped, Datagrams
<1>1. ASSUME NEW h \in Hosts, NEW c \in Calls, StartCall(h, c)
      PROVE  Numbered'
  <2> DEFINE o == Opened(h, c)
  <2>1. /\ calls' = calls + 1
        /\ client'[h] = o
        /\ \A g \in Hosts \ {h} : client'[g] = client[g]
    BY <1>1 DEF StartCall, Typed
  <2>2. \A m \in net' : m \in net \/ m.id = o.id
    BY <1>1 DEF StartCall, Datagram
  <2>3. o.id = <<h, calls + 1>>
    BY DEF Opened
  <2>4. \A m \in net' : m.id[2] <= calls'
    BY <1>0, <2>1, <2>2, <2>3 DEF Numbered
  <2>5. ASSUME NEW g \in Hosts
        PROVE  /\ client'[g].id[2] <= calls'
               /\ client'[g].st # "none" =>
                    client'[g].id[1] = g /\ client'[g].id[2] > 0
    <3>1. CASE g = h
      BY <1>0, <2>1, <2>3, <3>1
    <3>2. CASE g # h
      BY <1>0, <2>1, <3>2 DEF Numbered
    <3>. QED  BY <3>1, <3>2
  <2>. QED  BY <2>4, <2>5 DEF Numbered
<1>2. ASSUME UNCHANGED calls,
             \A n \in net' : n \in net \/ (\E m \in net : n.id = m.id) \/ n.id = NoCall
      PROVE  Numbered'
  <2>1. \A m \in net' : m.id[2] <= calls'
    BY <1>0, <1>2 DEF Numbered, NoCall
  <2>2. ASSUME NEW g \in Hosts
        PROVE  /\ client'[g].id[2] <= calls'
               /\ client'[g].st # "none" =>
                    client'[g].id[1] = g /\ client'[g].id[2] > 0
    BY <1>2, CallsKept DEF Numbered
  <2>. QED  BY <2>1, <2>2 DEF Numbered
<1>3. ASSUME NEW m \in net, Moves(m) PROVE Numbered'
  BY <1>2, <1>3, MoveKeepsId
<1>4. ASSUME NEW h \in Hosts, TimeOut(h) PROVE Numbered'
  BY <1>2, <1>4 DEF TimeOut
<1>5. ASSUME NEW d \in Reporters, NEW w \in BOOLEAN, Report(d, w) PROVE Numbered'
  BY <1>2, <1>5 DEF Report, Datagram
<1>6. CASE Tick
  BY <1>2, <1>6 DEF Tick
<1>7. CASE UNCHANGED vars
  BY <1>2, <1>7 DEF vars
<1>. QED
  BY <1>1, <1>3, <1>4, <1>5, <1>6, <1>7 DEF Next, Moves

(* Every step shows a running call what its device comes to hold. *)
LEMMA SeesStep == Typed /\ SeesNow /\ [Next]_vars => SeesNow'
<1> SUFFICES ASSUME Typed, SeesNow, [Next]_vars, NEW g \in Hosts, Running(g)'
             PROVE  HeldNow(client[g].call)' \subseteq client'[g].seen
  BY DEF SeesNow
<1>1. ASSUME NEW h \in Hosts, NEW c \in Calls, StartCall(h, c), g = h
      PROVE  HeldNow(client[g].call)' \subseteq client'[g].seen
  <2>1. client'[g] = Opened(h, c) /\ param' = param
    BY <1>1 DEF StartCall, Typed
  <2>. QED  BY <2>1 DEF Opened, HeldNow
<1>2. ASSUME NEW h \in Hosts, NEW c \in Calls, StartCall(h, c), g # h
      PROVE  HeldNow(client[g].call)' \subseteq client'[g].seen
  <2>1. client'[g] = client[g] /\ param' = param
    BY <1>2 DEF StartCall, Typed
  <2>. QED  BY <2>1 DEF SeesNow, HeldNow, Running
<1>3. ASSUME UNCHANGED <<calls, param>>
      PROVE  HeldNow(client[g].call)' \subseteq client'[g].seen
  BY <1>3, CallsKept DEF SeesNow, HeldNow
<1>4. ASSUME NEW m \in net, ServeInjection(m)
      PROVE  HeldNow(client[g].call)' \subseteq client'[g].seen
  <2> DEFINE b == Applied(m.dev, m.data.payload, m.host)
             k == client[g]
  <2>1. /\ k.call = client'[g].call /\ k.seen \subseteq client'[g].seen
        /\ Running(g)
    BY <1>4, CallsKept DEF ServeInjection
  <2>2. /\ param' = [param EXCEPT ![m.dev] = b]
        /\ client'[g] = IF Running(g) /\ Target(k.call) = m.dev
                        THEN [k EXCEPT !.seen = @ \cup {b}] ELSE k
    BY <1>4 DEF ServeInjection
  <2>3. Target(k.call) = m.dev => b \in client'[g].seen
    <3>1. k \in CallForms
      BY DEF Typed, CallTyped
    <3>. QED  BY <2>1, <2>2, <3>1 DEF CallForms
  <2>4. ASSUME NEW d \in Devices, d = Target(k.call) PROVE param'[d] \in client'[g].seen
    <3>1. param[d] \in k.seen
      BY <2>1, <2>4 DEF SeesNow, HeldNow
    <3>2. param'[d] = IF d = m.dev THEN b ELSE param[d]
      BY <2>2, <2>4 DEF Typed
    <3>. QED  BY <2>1, <2>3, <2>4, <3>1, <3>2
  <2>. QED  BY <2>1, <2>4 DEF HeldNow
<1>. QED
  BY <1>1, <1>2, <1>3, <1>4
     DEF Next, vars, RelayRequest, RelayAnswer, ServeQuery, HostReceives, Lose,
         TimeOut, Report, Tick

(* Nothing but a report comes out of a report. *)
LEMMA UnaskedStep == Typed /\ Unasked /\ [Next]_vars => Unasked'
<1> SUFFICES ASSUME Typed, Unasked, [Next]_vars, NEW n \in net', n.id = NoCall
             PROVE  n.data.kind = "report" /\ n.port = "event"
  BY DEF Unasked
<1>0. ASSUME NEW m \in net, m.hop \in {"relay", "device"} PROVE m.id # NoCall
  BY <1>0 DEF Typed, DatagramTyped, Unasked, Queries, Injections
<1>1. CASE n \in net
  BY <1>1 DEF Unasked
<1>2. ASSUME NEW h \in Hosts, NEW c \in Calls, StartCall(h, c), n \notin net
      PROVE  FALSE
  <2>1. n.id = <<h, calls + 1>>
    BY <1>2 DEF StartCall, Opened, Datagram
  <2>2. calls \in Nat
    BY DEF Typed
  <2>. QED  BY <2>1, <2>2 DEF NoCall
<1>3. ASSUME NEW m \in net, Moves(m), n \notin net
      PROVE  n.data.kind = "report" /\ n.port = "event"
  <2>1. m.id = NoCall
    BY <1>3, MoveKeepsId
  <2>2. m.hop \notin {"relay", "device"}
    BY <1>0, <2>1
  <2>3. RelayAnswer(m)
    BY <1>3, <2>2 DEF Moves, RelayRequest, ServeQuery, ServeInjection,
                      HostReceives, Lose
  <2>4. n.data = m.data /\ n.port = m.port
    BY <1>3, <2>3 DEF RelayAnswer, Datagram
  <2>. QED  BY <2>1, <2>4 DEF Unasked
<1>4. ASSUME NEW d \in Reporters, NEW w \in BOOLEAN, Report(d, w), n \notin net
      PROVE  n.data.kind = "report" /\ n.port = "event"
  BY <1>4 DEF Report, Datagram
<1>5. CASE net' = net
  BY <1>1, <1>5
<1>. QED
  BY <1>1, <1>2, <1>3, <1>4, <1>5 DEF Next, Moves, vars, TimeOut, Tick

-----------------------------------------------------------------------------
(* What earlier calls have left.                                           *)

(* Datagrams of a query for fragments. *)
Fragment(data) == data.kind = "part" \/ (data.kind = "query" /\ data.parts > 0)

(* The replies of a service look like the request to whoever may count     *)
(* them.                                                                   *)
LEMMA MoveKeepsData ==
  ASSUME Typed, NEW m \in net, Moves(m), NEW n \in net', n \notin net
  PROVE  /\ \A c, tid : MayCount(c, tid, n.data) => MayCount(c, tid, m.data)
         /\ Fragment(n.data) => Fragment(m.data) /\ m.data.tid = n.data.tid
<1>0. \A a : Reply(m, a).data = a
  BY DEF Reply, Datagram
<1>1. CASE n.data = m.data
  BY <1>1
<1>2. CASE ServeQuery(m)
  <2>1. m.data \in Queries
    BY <1>2 DEF ServeQuery, Typed, DatagramTyped, Injections
  <2>2. PICK a \in Answer(m.data, param[m.dev]) : n.data = a
    BY <1>0, <1>2 DEF ServeQuery
  <2>3. CASE m.data.parts = 0
    <3>1. a.kind = "full"
      BY <2>3 DEF Answer
    <3>2. m.data.kind = "query"
      BY <2>1 DEF Queries
    <3>. QED  BY <2>2, <2>3, <3>1, <3>2 DEF MayCount, Fragment
  <2>4. CASE m.data.parts # 0
    <3>1. a.kind = "part" /\ a.tid = m.data.tid
      BY <2>4, PartForm
    <3>2. m.data.kind = "query" /\ m.data.parts > 0
      BY <2>1, <2>4 DEF Queries
    <3>. QED  BY <2>2, <3>1, <3>2 DEF MayCount, Fragment
  <2>. QED  BY <2>3, <2>4
<1>3. CASE ServeInjection(m)
  <2>1. PICK a \in Acks(m.dev, m.data.payload) : n.data = a
    BY <1>0, <1>3 DEF ServeInjection
  <2>2. a.kind = "ack"
    BY <2>1, AckParts
  <2>3. m.data.kind = "inject"
    BY <1>3 DEF ServeInjection
  <2>. QED  BY <2>1, <2>2, <2>3 DEF MayCount, Fragment
<1>. QED
  BY <1>1, <1>2, <1>3
     DEF Moves, RelayRequest, RelayAnswer, HostReceives, Lose, Datagram

(* What a step puts into the net comes of a datagram to the same host,     *)
(* unless it is a report.                                                  *)
LEMMA MoveKeepsHost ==
  ASSUME Typed, Addressed, Unasked, [Next]_vars,
         NEW m \in net, Moves(m), NEW n \in net', n \notin net,
         n.data.kind # "report"
  PROVE  n.host = m.host /\ n.id = m.id /\ n.id # NoCall
<1>1. Addressed' /\ Unasked'
  BY AddressedStep, UnaskedStep
<1>2. n.id # NoCall /\ n.id = m.id
  BY <1>1, MoveKeepsId DEF Unasked
<1>. QED  BY <1>1, <1>2 DEF Addressed

(* A call keeps what it could count as its own. *)
LEMMA Counted ==
  ASSUME Typed, NEW m \in net, HostReceives(m), client'[m.host] # client[m.host]
  PROVE  LET k == client[m.host]
             n == client'[m.host]
         IN  /\ n.got \subseteq k.got \cup {m}
             /\ \/ n.st = "invalid" /\ n.got = {}
                \/ MayCount(k.call, k.tid, m.data) /\ m \in n.got
<1> DEFINE k == client[m.host]
           n == client'[m.host]
<1>1. m.host \in Hosts
  BY DEF Typed, DatagramTyped, Datagrams
<1>2. k.st \in {"query", "inject"} => k.st = k.call.kind
  BY <1>1 DEF Typed, CallTyped
<1>3. CASE n.st = "invalid" /\ n.got = {}
  BY <1>3
<1>4. CASE /\ k.st = "query" /\ k.call.parts = 0
           /\ n.got = {m} /\ m.data.kind = "full"
  BY <1>2, <1>4 DEF MayCount
<1>5. CASE /\ InParts(k.call) /\ OwnPart(m.host, m.data)
           /\ n.got = k.got \cup {m}
  BY <1>5 DEF MayCount, OwnPart, InParts
<1>6. CASE k.st = "inject" /\ m.data.kind = "ack" /\ n.got = k.got \cup {m}
  BY <1>2, <1>6 DEF MayCount
<1>. QED  BY <1>3, <1>4, <1>5, <1>6, Received

(* What a call may take for its own belongs to calls that it found under   *)
(* way; an answer in one piece ends the query that takes it.               *)
Foreign ==
  \A h \in Hosts :
    LET k == client[h]
    IN  /\ Running(h) => \A m \in net :
             m.host = h /\ m.id # k.id /\ MayCount(k.call, k.tid, m.data)
               => m.id \in k.stale
        /\ \A g \in k.got : g.id \in k.stale \cup {k.id}
        /\ Running(h) /\ k.call.kind = "query" /\ k.call.parts = 0 => k.got = {}

(* What a step keeps of it. *)
LEMMA ForeignKept ==
  ASSUME Typed, Foreign, [Next]_vars, UNCHANGED calls, NEW h \in Hosts,
         Running(h)' => \A n \in net' : n.host = h /\ n \notin net
           /\ MayCount(client[h].call, client[h].tid, n.data) =>
                \E m \in net : /\ m.host = h /\ m.id = n.id
                               /\ MayCount(client[h].call, client[h].tid, m.data),
         \A g \in client'[h].got : g \in client[h].got
           \/ g.id \in client[h].stale \cup {client[h].id},
         Running(h)' /\ client[h].call.kind = "query" /\ client[h].call.parts = 0
           => client'[h].got = client[h].got
  PROVE  LET k == client'[h]
         IN  /\ Running(h)' => \A m \in net' :
                  m.host = h /\ m.id # k.id /\ MayCount(k.call, k.tid, m.data)
                    => m.id \in k.stale
             /\ \A g \in k.got : g.id \in k.stale \cup {k.id}
             /\ Running(h)' /\ k.call.kind = "query" /\ k.call.parts = 0 => k.got = {}
<1> DEFINE k == client[h]
           n == client'[h]
<1>1. /\ n.call = k.call /\ n.tid = k.tid /\ n.id = k.id /\ n.stale = k.stale
      /\ Running(h)' => Running(h)
  BY CallsKept
<1>2. /\ Running(h) => \A m \in net :
           m.host = h /\ m.id # k.id /\ MayCount(k.call, k.tid, m.data)
             => m.id \in k.stale
      /\ \A g \in k.got : g.id \in k.stale \cup {k.id}
      /\ Running(h) /\ k.call.kind = "query" /\ k.call.parts = 0 => k.got = {}
  BY DEF Foreign
<1>3. ASSUME Running(h)', NEW m \in net', m.host = h, m.id # n.id,
             MayCount(n.call, n.tid, m.data)
      PROVE  m.id \in n.stale
  <2>1. \E x \in net : x.host = h /\ x.id = m.id /\ MayCount(k.call, k.tid, x.data)
    BY <1>1, <1>3
  <2>. QED  BY <1>1, <1>2, <1>3, <2>1
<1>4. \A g \in n.got : g.id \in n.stale \cup {n.id}
  BY <1>1, <1>2
<1>5. Running(h)' /\ n.call.kind = "query" /\ n.call.parts = 0 => n.got = {}
  BY <1>1, <1>2
<1>. QED  BY <1>3, <1>4, <1>5

(* The beginning. *)
LEMMA ForeignInit == Init => Foreign
<1> SUFFICES ASSUME Init PROVE Foreign
  OBVIOUS
<1>1. \A h \in Hosts : client[h].got = {} /\ ~Running(h)
  BY DEF Init, Closed, Running
<1>. QED  BY <1>1 DEF Foreign

(* Every step keeps the calls of a host apart. *)
LEMMA ForeignStep ==
  Typed /\ Addressed /\ Unasked /\ Foreign /\ [Next]_vars => Foreign'
<1> SUFFICES ASSUME Typed, Addressed, Unasked, Foreign, [Next]_vars PROVE Foreign'
  OBVIOUS
<1> DEFINE Goal(h) ==
             LET k == client'[h]
             IN  /\ Running(h)' => \A m \in net' :
                      m.host = h /\ m.id # k.id /\ MayCount(k.call, k.tid, m.data)
                        => m.id \in k.stale
                 /\ \A g \in k.got : g.id \in k.stale \cup {k.id}
                 /\ Running(h)' /\ k.call.kind = "query" /\ k.call.parts = 0 => k.got = {}
<1> SUFFICES ASSUME NEW h \in Hosts PROVE Goal(h)
  BY DEF Foreign
<1> DEFINE k == client[h]
           n == client'[h]
<1>0. k \in CallForms /\ \A c, tid, d : d.kind = "report" => ~MayCount(c, tid, d)
  BY DEF Typed, CallTyped, MayCount
<1>1. ASSUME NEW c \in Calls, StartCall(h, c) PROVE Goal(h)
  <2>1. n = Opened(h, c) /\ \A m \in net' : m \in net \/ m.id = n.id
    BY <1>1 DEF StartCall, Typed, Datagram
  <2>2. /\ n.stale = Stale(h, c, n.tid) /\ n.call = c /\ n.got = {}
    BY <2>1 DEF Opened
  <2>. QED  BY <2>1, <2>2 DEF Stale
<1>2. ASSUME NEW g \in Hosts, NEW c \in Calls, StartCall(g, c), g # h PROVE Goal(h)
  <2>1. n = k /\ \A m \in net' : m \in net \/ m.host = g
    BY <1>2 DEF StartCall, Typed, Datagram
  <2>2. Running(h)' <=> Running(h)
    BY <2>1 DEF Running
  <2>. QED  BY <1>2, <2>1, <2>2 DEF Foreign
<1>3. ASSUME NEW m \in net, Moves(m)
      PROVE  \A x \in net' : x \notin net /\ MayCount(k.call, k.tid, x.data) =>
               /\ m.host = x.host /\ m.id = x.id
               /\ MayCount(k.call, k.tid, m.data)
  BY <1>0, <1>3, MoveKeepsData, MoveKeepsHost
<1>4. ASSUME NEW m \in net, Moves(m), n.got = k.got PROVE Goal(h)
  <2>1. UNCHANGED calls
    BY <1>4, MoveKeepsId
  <2>. HIDE DEF k, n, Goal
  <2>2. Running(h)' => \A x \in net' : x.host = h /\ x \notin net
          /\ MayCount(k.call, k.tid, x.data) =>
               \E y \in net : y.host = h /\ y.id = x.id /\ MayCount(k.call, k.tid, y.data)
    BY <1>3, <1>4
  <2>. QED  BY <1>4, <2>1, <2>2, ForeignKept DEF k, n, Goal
<1>5. ASSUME NEW m \in net, HostReceives(m), m.host = h, n # k PROVE Goal(h)
  <2>1. UNCHANGED calls /\ Moves(m)
    BY <1>5 DEF HostReceives, Moves
  <2>2. Running(h)
    BY <1>5, Received DEF Running
  <2>3. ASSUME NEW g \in n.got, g \notin k.got
        PROVE  g.id \in k.stale \cup {k.id}
    <3>1. g = m /\ MayCount(k.call, k.tid, m.data)
      BY <1>5, <2>3, Counted
    <3>. QED  BY <1>5, <2>2, <3>1 DEF Foreign
  <2>4. Running(h)' => ~(k.call.kind = "query" /\ k.call.parts = 0)
    <3>1. k.st \in {"query", "inject"} => k.st = k.call.kind
      BY DEF Typed, CallTyped
    <3>2. InParts(k.call) => k.call.kind = "query" /\ k.call.parts # 0
      BY DEF InParts
    <3>. QED  BY <1>5, <3>1, <3>2, Received DEF Running
  <2>. HIDE DEF k, n, Goal
  <2>5. Running(h)' => \A x \in net' : x.host = h /\ x \notin net
          /\ MayCount(k.call, k.tid, x.data) =>
               \E y \in net : y.host = h /\ y.id = x.id /\ MayCount(k.call, k.tid, y.data)
    BY <1>3, <2>1
  <2>. QED  BY <2>1, <2>3, <2>4, <2>5, ForeignKept DEF k, n, Goal
<1>6. ASSUME NEW m \in net, Moves(m) PROVE Goal(h)
  <2>1. CASE HostReceives(m) /\ ~(m.host = h /\ n # k)
    <3>1. n = k
      BY <2>1, Received
    <3>. QED  BY <1>4, <1>6, <3>1
  <2>2. CASE ServeInjection(m)
    <3>1. n.got = k.got
      BY <1>0, <2>2 DEF ServeInjection, CallForms
    <3>. QED  BY <1>4, <1>6, <3>1
  <2>3. CASE UNCHANGED client
    BY <1>4, <1>6, <2>3
  <2>. QED  BY <1>5, <1>6, <2>1, <2>2, <2>3
               DEF Moves, RelayRequest, RelayAnswer, ServeQuery, Lose
<1>7. ASSUME UNCHANGED calls, n.got = k.got,
             \A x \in net' : x \in net \/ x.data.kind = "report"
      PROVE  Goal(h)
  <2>. HIDE DEF k, n, Goal
  <2>1. \A x \in net' : x \notin net => ~MayCount(k.call, k.tid, x.data)
    BY <1>0, <1>7
  <2>. QED  BY <1>7, <2>1, ForeignKept DEF k, n, Goal
<1>8. ASSUME NEW g \in Hosts, TimeOut(g) PROVE Goal(h)
  <2>1. n.got = k.got
    BY <1>0, <1>8 DEF TimeOut, Typed, CallForms
  <2>. QED  BY <1>7, <1>8, <2>1 DEF TimeOut
<1>9. ASSUME NEW d \in Reporters, NEW w \in BOOLEAN, Report(d, w) PROVE Goal(h)
  BY <1>7, <1>9 DEF Report, Datagram
<1>10. CASE Tick \/ UNCHANGED vars
  BY <1>7, <1>10 DEF Tick, vars
<1>. QED
  BY <1>1, <1>2, <1>6, <1>8, <1>9, <1>10 DEF Next, Moves

-----------------------------------------------------------------------------
(* Transaction numbers.                                                    *)

(* A fragment in the net has a number its host has used, and a query with  *)
(* a number of its own has found none of them under way.                   *)
Numbers ==
  /\ \A m \in net : Fragment(m.data) => m.data.tid \in Used(m.host)
  /\ \A h \in Hosts :
       /\ client[h].st # "none"
       /\ InParts(client[h].call)
       /\ client[h].tid \notin client[h].used
       => client[h].stale = {}

(* The beginning. *)
LEMMA NumbersInit == Init => Numbers
<1> SUFFICES ASSUME Init PROVE Numbers
  OBVIOUS
<1>1. net = {} /\ \A h \in Hosts : client[h].st = "none"
  BY DEF Init, Closed
<1>. QED  BY <1>1 DEF Numbers

(* Every step remembers the numbers. *)
LEMMA NumbersStep ==
  Typed /\ Addressed /\ Unasked /\ Numbers /\ [Next]_vars => Numbers'
<1> SUFFICES ASSUME Typed, Addressed, Unasked, Numbers, [Next]_vars PROVE Numbers'
  OBVIOUS
<1>0. \A m \in net : m.host \in Hosts
  BY DEF Typed, DatagramTyped, Datagrams
<1>1. ASSUME NEW h \in Hosts, NEW c \in Calls, StartCall(h, c) PROVE Numbers'
  <2> DEFINE o == Opened(h, c)
             r == Request(c, o.tid)
  <2>1. /\ client'[h] = o
        /\ \A g \in Hosts : g # h => client'[g] = client[g]
        /\ \A m \in net' : m \in net \/ (m.host = h /\ m.data = r)
    BY <1>1 DEF StartCall, Typed, Datagram
  <2>2. /\ o.used = Used(h) /\ o.stale = Stale(h, c, o.tid) /\ o.call = c
        /\ o.st = c.kind /\ o.st # "none"
    BY CallParts DEF Opened
  <2>3. Used(h)' = o.used \cup IF InParts(c) THEN {o.tid} ELSE {}
    BY <2>1, <2>2 DEF Used
  <2>4. \A g \in Hosts : g # h => Used(g)' = Used(g)
    BY <2>1 DEF Used
  <2>5. Fragment(r) => InParts(c) /\ r.tid = o.tid
    BY CallParts DEF Fragment, Request, InParts
  <2>6. ASSUME NEW m \in net', Fragment(m.data) PROVE m.data.tid \in Used(m.host)'
    <3>1. CASE m \in net
      <4>1. m.data.tid \in Used(m.host) /\ m.host \in Hosts
        BY <1>0, <2>6, <3>1 DEF Numbers
      <4>. QED  BY <2>2, <2>3, <2>4, <4>1
    <3>2. CASE m.host = h /\ m.data = r
      BY <2>3, <2>5, <2>6, <3>2
    <3>. QED  BY <2>1, <3>1, <3>2
  <2>7. ASSUME InParts(c), o.tid \notin o.used PROVE o.stale = {}
    <3>1. \A x \in net : x.host = h /\ MayCount(c, o.tid, x.data) =>
            Fragment(x.data) /\ x.data.tid = o.tid
      BY <2>7, CallParts DEF MayCount, InParts, Fragment
    <3>2. \A x \in net : ~(x.host = h /\ MayCount(c, o.tid, x.data))
      BY <2>2, <2>7, <3>1 DEF Numbers
    <3>. QED  BY <2>2, <3>2 DEF Stale
  <2>8. ASSUME NEW g \in Hosts, client'[g].st # "none", InParts(client'[g].call),
               client'[g].tid \notin client'[g].used
        PROVE  client'[g].stale = {}
    <3>1. CASE g = h
      BY <2>1, <2>2, <2>7, <2>8, <3>1
    <3>2. CASE g # h
      BY <2>1, <2>8, <3>2 DEF Numbers
    <3>. QED  BY <3>1, <3>2
  <2>. QED  BY <2>6, <2>8 DEF Numbers
<1>2. ASSUME UNCHANGED calls,
             \A n \in net' : Fragment(n.data) => \E m \in net :
               m.host = n.host /\ Fragment(m.data) /\ m.data.tid = n.data.tid
      PROVE  Numbers'
  <2>1. \A h \in Hosts : Used(h)' = Used(h)
    BY <1>2, CallsKept DEF Used
  <2>2. ASSUME NEW n \in net', Fragment(n.data) PROVE n.data.tid \in Used(n.host)'
    <3>1. PICK m \in net :
            m.host = n.host /\ Fragment(m.data) /\ m.data.tid = n.data.tid
      BY <1>2, <2>2
    <3>. QED  BY <1>0, <2>1, <3>1 DEF Numbers
  <2>3. ASSUME NEW g \in Hosts, client'[g].st # "none", InParts(client'[g].call),
               client'[g].tid \notin client'[g].used
        PROVE  client'[g].stale = {}
    <3>1. /\ client'[g].call = client[g].call /\ client'[g].tid = client[g].tid
          /\ client'[g].stale = client[g].stale
          /\ client'[g].used = client[g].used
          /\ client[g].st # "none"
      BY <1>2, <2>3, CallsKept
    <3>. QED  BY <2>3, <3>1 DEF Numbers
  <2>. QED  BY <2>2, <2>3 DEF Numbers
<1>3. ASSUME NEW m \in net, Moves(m) PROVE Numbers'
  <2>1. ASSUME NEW n \in net', Fragment(n.data), n \notin net
        PROVE  m.host = n.host /\ Fragment(m.data) /\ m.data.tid = n.data.tid
    <3>1. n.data.kind # "report"
      BY <2>1 DEF Fragment
    <3>. QED  BY <1>3, <2>1, <3>1, MoveKeepsData, MoveKeepsHost
  <2>. QED  BY <1>2, <1>3, <2>1, MoveKeepsId
<1>4. ASSUME UNCHANGED calls, \A n \in net' : n \in net \/ n.data.kind = "report"
      PROVE  Numbers'
  BY <1>2, <1>4 DEF Fragment
<1>5. ASSUME NEW h \in Hosts, TimeOut(h) PROVE Numbers'
  BY <1>4, <1>5 DEF TimeOut
<1>6. ASSUME NEW d \in Reporters, NEW w \in BOOLEAN, Report(d, w) PROVE Numbers'
  BY <1>4, <1>6 DEF Report, Datagram
<1>7. CASE Tick \/ UNCHANGED vars
  BY <1>4, <1>7 DEF Tick, vars
<1>. QED
  BY <1>1, <1>3, <1>5, <1>6, <1>7 DEF Next, Moves

-----------------------------------------------------------------------------
(* The datagrams of the running calls.                                     *)

Pending(h) == {m \in net : m.id = client[h].id}
Taken(h) == Own(client[h])

(* Nothing is lost, and no fragment of the same number can keep out one of *)
(* the call's own.                                                         *)
Lossless(h) ==
  losses = 0 /\ (InParts(client[h].call) => client[h].stale = {})

OwnInv ==
  \A h \in Hosts :
    Running(h) => Accounted(h, client[h], Pending(h), Taken(h), Lossless(h))

(* A query that waits for fragments does not have them all. *)
Short ==
  \A h \in Hosts : Running(h) /\ InParts(client[h].call) /\ client[h].stale = {} =>
    Cardinality(client[h].got) < client[h].call.parts

(* A call that has found nothing under way has nothing but its own. *)
LEMMA NothingForeign ==
  ASSUME Foreign, NEW h \in Hosts, client[h].stale = {}
  PROVE  client[h].got = Taken(h)
BY DEF Foreign, Taken, Own

(* A query is cut alike by everyone. *)
LEMMA QueryAlike ==
  ASSUME NEW c \in Calls, c.kind = "query"
  PROVE  CutAlike(c)
BY TargetForm DEF CutAlike

(* The fragment of a query that has nothing but its own is its own. *)
LEMMA OwnPartAccepted ==
  ASSUME NEW h, LET k == client[h] IN
           /\ k.call.kind = "query" /\ k.call.parts # 0
           /\ k.got = Taken(h),
         NEW b, NEW all, Answering(h, client[h], b, Pending(h), Taken(h), all),
         NEW m \in Pending(h)
  PROVE  OwnPart(h, m.data) /\ m.data.total = client[h].call.parts
<1> DEFINE k == client[h]
           q == Request(k.call, k.tid)
<1>1. /\ q.parts = k.call.parts /\ q.tid = k.tid /\ q.parts # 0
      /\ Replies(k, b) = Answer(q, b)
  BY DEF Request, Replies
<1>2. m.data \in Answer(q, b) /\ \A g \in k.got : g.data \in Answer(q, b)
  BY <1>1 DEF Answering
<1>3. \A g \in k.got : m.data # g.data
  BY DEF Answering
<1>4. \A a \in Answer(q, b) :
        a = [kind |-> "part", tid |-> q.tid, total |-> q.parts,
             idx |-> a.idx, body |-> b]
  BY <1>1, PartForm
<1>5. \A a \in Answer(q, b) :
        a.kind = "part" /\ a.tid = k.tid /\ a.total = k.call.parts
  BY <1>1, <1>4
<1>6. \A a, e \in Answer(q, b) : a # e => a.idx # e.idx
  BY <1>4
<1>. HIDE DEF q, k
<1>7. \A g \in k.got : g.data.total = m.data.total /\ g.data.idx # m.data.idx
  BY <1>2, <1>3, <1>5, <1>6
<1>. QED  BY <1>2, <1>5, <1>7 DEF OwnPart, k

(* A call receives one more of its replies.  It goes on, or it has what it *)
(* waits for; if nothing foreign could help, nothing of it is left then.   *)
LEMMA OwnReceived ==
  ASSUME Typed, Foreign, OwnInv, NEW m \in net, HostReceives(m),
         Running(m.host), m.id = client[m.host].id
  PROVE  LET h == m.host
             k == client[h]
             n == client'[h]
             P == Pending(h) \ {m}
             T == Taken(h) \cup {m}
         IN  \E b \in k.seen :
               /\ Answering(h, k, b, P, T, Lossless(h))
               /\ m.data \in Replies(k, b)
               /\ (InParts(k.call) => k.stale = {}) =>
                    \/ /\ n.st = k.st /\ n.got = k.got \cup {m}
                       /\ InParts(k.call) => Cardinality(n.got) < k.call.parts
                    \/ /\ n.st \in {"answered", "invalid", "acked"}
                       /\ k.stale = {} /\ CutAlike(k.call) => P = {}
<1> DEFINE h == m.host
           k == client[h]
           n == client'[h]
           P == Pending(h) \ {m}
           T == Taken(h) \cup {m}
<1>1. h \in Hosts
  BY DEF Typed, DatagramTyped, Datagrams
<1>2. /\ k.call \in Calls /\ k.st = k.call.kind /\ k.st \in {"query", "inject"}
      /\ IsFiniteSet(k.got)
  BY <1>1 DEF Typed, CallTyped, CallForms, Running
<1>3. /\ m \in Pending(h) /\ m.hop = "host"
      /\ Accounted(h, k, Pending(h), Taken(h), Lossless(h))
  BY <1>1 DEF OwnInv, Pending, HostReceives
<1>4. PICK b \in k.seen : Answering(h, k, b, Pending(h), Taken(h), Lossless(h))
  BY <1>3, OwnStage
<1>5. /\ Answering(h, k, b, P, T, Lossless(h))
      /\ m = Arrived(h, k, m.data) /\ m.data \in Replies(k, b)
  BY <1>3, <1>4, OwnTaken
<1>6. m.port = Port(k.call)
  BY <1>5 DEF Arrived, Datagram
<1>7. k.stale = {} => k.got = Taken(h)
  BY <1>1, NothingForeign
<1>8. /\ Target(k.call) \in Devices
      /\ IsFiniteSet(T) /\ Cardinality(T) \in Nat
  <2>1. Target(k.call) \in Devices
    BY <1>5 DEF Answering
  <2>. HIDE DEF k, P, T
  <2>2. IsFiniteSet(T) /\ Cardinality(T) \in Nat
    BY <1>2, <1>5, TakenBound
  <2>. QED  BY <2>1, <2>2
<1>9. CutAlike(k.call) /\ Cardinality(T) >= Needed(k.call) => P = {}
  BY <1>2, <1>5, Complete
<1>10. Needed(k.call) \in Nat
  BY <1>2, <1>8, RepliesCount
<1>11. CASE k.call.kind = "query" /\ k.call.parts = 0
  <2>1. k.st = "query" /\ m.port = "response"
    BY <1>2, <1>6, <1>11 DEF Port
  <2>2. n.st \in {"answered", "invalid"}
    <3>1. ~InParts(k.call)
      BY <1>11 DEF InParts
    <3>. HIDE DEF P, T
    <3>. QED  BY <2>1, <3>1, Received
  <2>3. Needed(k.call) = 1
    BY <1>11 DEF Needed
  <2>4. Cardinality(T) # 0
    <3>1. T # {}
      OBVIOUS
    <3>. HIDE DEF T
    <3>. QED  BY <1>8, <3>1, FS_EmptySet
  <2>5. P = {}
    <3>1. Cardinality(T) >= Needed(k.call)
      BY <1>8, <2>3, <2>4
    <3>. QED  BY <1>2, <1>9, <1>11, <3>1, QueryAlike
  <2>. QED  BY <1>5, <2>2, <2>5
<1>12. CASE InParts(k.call)
  <2>1. /\ k.st = "query" /\ m.port = "response" /\ k.call.kind = "query"
        /\ k.call.parts # 0
    BY <1>2, <1>6, <1>12, CallParts DEF Port, InParts
  <2>2. CutAlike(k.call) /\ Needed(k.call) = k.call.parts
    BY <1>2, <2>1, QueryAlike DEF Needed
  <2>3. CASE k.stale = {}
    <3>1. OwnPart(h, m.data) /\ m.data.total = k.call.parts
      BY <1>3, <1>4, <1>7, <2>1, <2>3, OwnPartAccepted
    <3>2. T = k.got \cup {m}
      BY <1>7, <2>3
    <3> DEFINE more == k.got \cup {m}
    <3>3. \/ /\ Cardinality(more) < m.data.total
             /\ n.st = "query" /\ n.got = more
          \/ /\ ~(Cardinality(more) < m.data.total)
             /\ n.st \in {"answered", "invalid"}
      BY <2>1, <3>1, Received
    <3>4. \/ /\ Cardinality(T) < Needed(k.call)
             /\ n.st = "query" /\ n.got = T
          \/ /\ ~(Cardinality(T) < Needed(k.call))
             /\ n.st \in {"answered", "invalid"}
      <4>1. more = T /\ m.data.total = Needed(k.call)
        BY <2>2, <3>1, <3>2
      <4>. HIDE DEF h, k, n, T, more
      <4>. QED  BY <3>3, <4>1
    <3>. HIDE DEF h, k, n, P, T
    <3>5. CASE Cardinality(T) < Needed(k.call)
      BY <1>5, <2>1, <2>2, <3>2, <3>4, <3>5 DEF h, k, n, P, T
    <3>6. CASE ~(Cardinality(T) < Needed(k.call))
      <4>1. P = {}
        BY <1>8, <1>9, <1>10, <2>2, <3>6
      <4>. QED  BY <1>5, <3>4, <3>6, <4>1 DEF h, k, n, P, T
    <3>. QED  BY <3>5, <3>6
  <2>4. CASE k.stale # {}
    BY <1>5, <1>12, <2>4
  <2>. QED  BY <2>3, <2>4
<1>13. CASE k.call.kind = "inject"
  <2>1. k.st = "inject" /\ m.port = "event" /\ ~InParts(k.call)
    BY <1>2, <1>6, <1>13 DEF Port, InParts
  <2>2. m.data.kind = "ack"
    <3>1. m.data \in Acks(Target(k.call), k.call.payload)
      BY <1>5, <1>13 DEF Replies
    <3>. QED  BY <3>1, AckParts
  <2>3. Needed(k.call) = ExpectedAcks(k.call)
    BY <1>13 DEF Needed
  <2> DEFINE more == k.got \cup {m}
  <2>4. \/ /\ Cardinality(more) >= Needed(k.call)
           /\ n.st = "acked" /\ n.got = more
        \/ n.st = "inject" /\ n.got = more
    BY <2>1, <2>2, <2>3, Received
  <2>5. k.stale = {} => T = more
    BY <1>7
  <2>. HIDE DEF h, k, n, P, T, more
  <2>6. CASE n.st = "inject" /\ n.got = more
    BY <1>5, <2>1, <2>6 DEF h, k, n, P, T, more
  <2>7. CASE Cardinality(more) >= Needed(k.call) /\ n.st = "acked"
    <3>1. k.stale = {} /\ CutAlike(k.call) => P = {}
      BY <1>9, <2>5, <2>7
    <3>. QED  BY <1>5, <2>7, <3>1 DEF h, k, n, P, T
  <2>. QED  BY <2>4, <2>6, <2>7
<1>14. k.call.kind = "query" => k.call.parts = 0 \/ InParts(k.call)
  BY <1>2, CallParts DEF InParts
<1>. QED  BY <1>2, <1>11, <1>12, <1>13, <1>14

(* The beginning. *)
LEMMA OwnInit == Init => OwnInv /\ Short
<1> SUFFICES ASSUME Init PROVE OwnInv /\ Short
  OBVIOUS
<1>1. \A h \in Hosts : ~Running(h)
  BY DEF Init, Closed, Running
<1>. QED  BY <1>1 DEF OwnInv, Short

(* Every step keeps account of what belongs to a running call. *)
LEMMA OwnStep ==
  Typed /\ Addressed /\ Numbered /\ SeesNow /\ OwnInv /\ Foreign /\ [Next]_vars
    => OwnInv'
<1> SUFFICES ASSUME Typed, Addressed, Numbered, SeesNow, OwnInv, Foreign,
                    [Next]_vars, NEW h \in Hosts, Running(h)'
             PROVE  Accounted(h, client'[h], Pending(h)', Taken(h)', Lossless(h)')
  BY DEF OwnInv
<1> DEFINE k == client[h]
           n == client'[h]
           P == Pending(h)
           T == Taken(h)
<1>0. k \in CallForms /\ k.call \in Calls
  BY DEF Typed, CallTyped, CallForms
<1>1. ASSUME NEW c \in Calls, StartCall(h, c)
      PROVE  Accounted(h, n, Pending(h)', Taken(h)', Lossless(h)')
  <2> DEFINE o == Opened(h, c)
             r == Request(c, o.tid)
             m == IF c.via = "relay"
                  THEN Datagram("relay", h, NoDevice, FALSE, "request", o.id, r)
                  ELSE Datagram("device", h, c.dev, FALSE, "request", o.id, r)
  <2>1. n = o /\ net' = net \cup {m}
    BY <1>1 DEF StartCall, Typed
  <2>2. o.id[2] = calls + 1 /\ calls \in Nat /\ o.got = {} /\ o.call = c
    BY DEF Opened, Typed
  <2>3. \A x \in net : x.id # o.id
    <3>1. \A x \in net : x.id[2] <= calls /\ x.id[2] \in Nat
      BY DEF Numbered, Typed, DatagramTyped, Datagrams
    <3>. QED  BY <2>2, <3>1
  <2>4. m.id = o.id /\ Outgoing(h, o, m)
    <3>1. c.via # "relay" => c.dev = Target(c)
      BY CallParts, TargetForm
    <3>2. c.via # "relay" => Accepted(h, c)
      BY DEF Accepted
    <3>. QED  BY <2>2, <3>1, <3>2 DEF Outgoing, Datagram
  <2>5. Pending(h)' = {m} /\ Taken(h)' = {}
    BY <2>1, <2>2, <2>3, <2>4 DEF Pending, Taken, Own
  <2>. QED  BY <2>1, <2>4, <2>5, OwnBegins
<1>2. ASSUME UNCHANGED calls, Pending(h)' = P, Taken(h)' = T,
             losses' = losses \/ losses' = losses + 1
      PROVE  Accounted(h, n, Pending(h)', Taken(h)', Lossless(h)')
  <2>1. Running(h) /\ Accounted(h, k, P, T, Lossless(h))
    BY <1>2, CallsKept DEF OwnInv
  <2>2. /\ n.call = k.call /\ n.tid = k.tid /\ n.id = k.id
        /\ n.stale = k.stale /\ k.seen \subseteq n.seen
    BY <1>2, CallsKept
  <2>3. Lossless(h)' => Lossless(h)
    BY <1>2, <2>2 DEF Lossless, Typed
  <2>. HIDE DEF P, T
  <2>. QED  BY <1>2, <2>1, <2>2, <2>3, OwnGrows
<1>3. ASSUME NEW g \in Hosts, NEW c \in Calls, StartCall(g, c), g # h
      PROVE  Accounted(h, n, Pending(h)', Taken(h)', Lossless(h)')
  <2>1. n = k /\ losses' = losses
    BY <1>3 DEF StartCall, Typed
  <2>2. k.id[2] <= calls /\ k.id \in Hosts \X Nat /\ calls \in Nat
    BY <1>0 DEF Numbered, Typed, CallForms
  <2>3. \A x \in net' : x \in net \/ x.id = <<g, calls + 1>>
    BY <1>3 DEF StartCall, Opened, Datagram
  <2>4. net \subseteq net'
    BY <1>3 DEF StartCall
  <2>5. \A x \in net' \ net : x.id # k.id
    BY <2>2, <2>3
  <2>6. Pending(h)' = P /\ Taken(h)' = T
    BY <2>1, <2>4, <2>5 DEF Pending, Taken, Own
  <2>7. Running(h)
    BY <2>1 DEF Running
  <2>. QED  BY <2>1, <2>6, <2>7 DEF OwnInv, Lossless
<1>4. ASSUME NEW m \in net, Moves(m), m.id # k.id
      PROVE  Accounted(h, n, Pending(h)', Taken(h)', Lossless(h)')
  <2>1. /\ \A x \in net' : x \in net \/ x.id = m.id
        /\ \A x \in net : x \in net' \/ x = m
        /\ UNCHANGED calls
        /\ losses' = losses \/ losses' = losses + 1
    BY <1>4, MoveKeepsId
  <2>2. n.id = k.id
    BY <2>1, CallsKept
  <2>3. Pending(h)' = P
    BY <1>4, <2>1, <2>2 DEF Pending
  <2>4. \A x \in n.got : x \in k.got \/ x = m
    <3>1. CASE HostReceives(m)
      <4>1. n = k \/ n.got = {m} \/ n.got = {} \/ n.got = k.got \cup {m}
        BY <3>1, Received
      <4>. QED  BY <4>1
    <3>2. CASE ServeInjection(m)
      BY <1>0, <3>2 DEF ServeInjection, CallForms
    <3>3. CASE UNCHANGED client
      BY <3>3
    <3>. QED  BY <1>4, <3>1, <3>2, <3>3
                 DEF Moves, RelayRequest, RelayAnswer, ServeQuery, Lose
  <2>5. \A x \in k.got : x \in n.got
    <3>1. CASE HostReceives(m)
      <4>1. n = k \/ n.got = k.got \cup {m}
        BY <3>1, Received DEF Running
      <4>. QED  BY <4>1
    <3>2. CASE ServeInjection(m)
      BY <1>0, <3>2 DEF ServeInjection, CallForms
    <3>3. CASE UNCHANGED client
      BY <3>3
    <3>. QED  BY <1>4, <3>1, <3>2, <3>3
                 DEF Moves, RelayRequest, RelayAnswer, ServeQuery, Lose
  <2>6. Taken(h)' = T
    BY <1>4, <2>2, <2>4, <2>5 DEF Taken, Own
  <2>. QED  BY <1>2, <2>1, <2>3, <2>6
<1>5. ASSUME NEW m \in net, Moves(m), m.id = k.id
      PROVE  Accounted(h, n, Pending(h)', Taken(h)', Lossless(h)')
  <2>1. /\ \A x \in net' : x \in net \/ x.id = m.id
        /\ \A x \in net : x \in net' \/ x = m
        /\ UNCHANGED calls
    BY <1>5, MoveKeepsId
  <2>2. /\ n.call = k.call /\ n.tid = k.tid /\ n.id = k.id
        /\ n.stale = k.stale /\ k.seen \subseteq n.seen
        /\ Running(h) /\ n.st = k.st
    BY <2>1, CallsKept
  <2>3. Accounted(h, k, P, T, Lossless(h)) /\ m \in P
    BY <1>5, <2>2 DEF OwnInv, Pending
  <2>4. m.host = h
    <3>1. k.id[1] = h /\ k.id[2] > 0
      BY <2>2 DEF Numbered, Running
    <3>2. m.id # NoCall
      BY <1>5, <3>1 DEF NoCall
    <3>. QED  BY <1>5, <3>1, <3>2 DEF Addressed
  <2>5. ASSUME NEW Q, net' = (net \ {m}) \cup Q, \A x \in Q : x.id = k.id
        PROVE  Pending(h)' = (P \ {m}) \cup Q
    BY <2>2, <2>5 DEF Pending
  <2>6. ASSUME n.got = k.got PROVE Taken(h)' = T
    BY <2>2, <2>6 DEF Taken, Own
  <2>7. losses' = losses => Lossless(h)' = Lossless(h)
    BY <2>2 DEF Lossless
  <2>8. ASSUME net' = net \ {m} PROVE Pending(h)' = P \ {m}
    BY <2>2, <2>8 DEF Pending
  <2>9. ASSUME ~Lossless(h)', n = k, Pending(h)' = P \ {m}, Taken(h)' = T
         PROVE  Accounted(h, n, Pending(h)', Taken(h)', Lossless(h)')
    <3> HIDE DEF P, T
    <3>1. Accounted(h, k, P \ {m}, T, FALSE)
      BY <2>3, OwnLoses
    <3>2. Accounted(h, n, P \ {m}, T, Lossless(h)')
      BY <2>9, <3>1, OwnGrows
    <3>. QED  BY <2>9, <3>2
  <2>10. CASE RelayRequest(m)
    <3> DEFINE d == ClassifyPayload(m.data)
               f == Datagram("device", m.host, d, TRUE, ReplyPort(m.data),
                             m.id, m.data)
               Q == IF m.host \in Allowed /\ d # NoDevice /\ ValidatePayload(d, m.data)
                    THEN {f} ELSE {}
    <3>1. m.hop = "relay" /\ net' = (net \ {m}) \cup Q /\ n = k /\ losses' = losses
      BY <2>10 DEF RelayRequest
    <3>2. \A x \in Q : x.id = k.id
      BY <1>5 DEF Datagram
    <3>3. P = {m}
      BY <2>3, <3>1, OwnStage DEF Asking
    <3>4. Pending(h)' = Q
      <4> HIDE DEF Q
      <4>. QED  BY <2>5, <3>1, <3>2, <3>3
    <3>5. Accounted(h, k, Q, T, Lossless(h))
      <4> HIDE DEF P, T
      <4>. QED  BY <1>0, <2>3, <3>1, OwnRelayed
    <3>. HIDE DEF Q, P, T
    <3>. QED  BY <2>6, <2>7, <3>1, <3>4, <3>5
  <2>11. CASE RelayAnswer(m)
    <3> DEFINE f == Datagram("host", ReplyHost(m), m.dev, FALSE, m.port, m.id,
                             m.data)
               Q == IF ReplyHost(m) \in Allowed THEN {f} ELSE {}
    <3>1. m.hop = "gateway" /\ net' = (net \ {m}) \cup Q /\ n = k /\ losses' = losses
      BY <2>11 DEF RelayAnswer
    <3>2. \A x \in Q : x.id = k.id
      BY <1>5 DEF Datagram
    <3>4. Pending(h)' = (P \ {m}) \cup Q
      <4> HIDE DEF Q
      <4>. QED  BY <2>5, <3>1, <3>2
    <3>5. Accounted(h, k, (P \ {m}) \cup Q, T, Lossless(h))
      <4> HIDE DEF P, T
      <4>. QED  BY <2>3, <3>1, OwnForwarded
    <3>. HIDE DEF Q, P, T
    <3>. QED  BY <2>6, <2>7, <3>1, <3>4, <3>5
  <2>12. CASE ServeQuery(m)
    <3> DEFINE b == param[m.dev]
               Q == {Reply(m, a) : a \in Replies(k, b)}
    <3>1. /\ m.hop = "device" /\ m.data.kind = "query" /\ n = k
          /\ losses' = losses
      BY <2>12 DEF ServeQuery
    <3>2. Asking(h, k, P, T, Lossless(h)) /\ P = {m}
      BY <2>3, <3>1, OwnStage DEF Asking
    <3>3. m.data = Request(k.call, k.tid) /\ m.dev = Target(k.call)
      BY <2>3, <3>1, <3>2 DEF Asking, Outgoing
    <3>4. m.dev \in Devices /\ k.call.kind = "query" /\ QueryMatches(m.dev, m.data.code)
      <4>1. m.dev \in Devices
        BY <3>1 DEF Typed, DatagramTyped
      <4>2. k.call.kind = "query" /\ m.data.code = QUERY_EQUIP[k.call.dev]
        BY <1>0, <3>1, <3>3, CallParts DEF Request
      <4>3. m.dev = k.call.dev
        BY <1>0, <3>3, <4>2, TargetForm
      <4>. QED  BY <4>1, <4>2, <4>3, TablesAgree
    <3>5. net' = (net \ {m}) \cup Q
      BY <2>12, <3>3, <3>4 DEF ServeQuery, Replies
    <3>6. \A x \in Q : x.id = k.id
      BY <1>5 DEF Reply, Datagram
    <3>7. Pending(h)' = Q
      <4>1. P = {m}
        BY <3>2
      <4>2. Pending(h)' = (P \ {m}) \cup Q
        <5> HIDE DEF Q, P
        <5>. QED  BY <2>5, <3>5, <3>6
      <4>. QED  BY <4>1, <4>2
    <3>8. Answering(h, k, b, Q, T, Lossless(h))
      <4> HIDE DEF P, T
      <4>. QED  BY <1>0, <2>3, <3>1, <3>2, <3>4, OwnServed
    <3>9. b \in k.seen
      <4>. QED  BY <2>2, <3>3, <3>4 DEF SeesNow, HeldNow
    <3>. HIDE DEF Q, P, T
    <3>. QED  BY <2>6, <2>7, <3>1, <3>7, <3>8, <3>9 DEF Accounted
  <2>13. CASE ServeInjection(m)
    <3> DEFINE b == Applied(m.dev, m.data.payload, m.host)
               Q == {Reply(m, a) : a \in Replies(k, b)}
    <3>1. m.hop = "device" /\ m.data.kind = "inject" /\ losses' = losses
      BY <2>13 DEF ServeInjection
    <3>2. Asking(h, k, P, T, Lossless(h)) /\ P = {m}
      BY <2>3, <3>1, OwnStage DEF Asking
    <3>3. m.data = Request(k.call, k.tid) /\ m.dev = Target(k.call)
      BY <2>3, <3>1, <3>2 DEF Asking, Outgoing
    <3>4. /\ k.call.kind = "inject" /\ m.data.payload = k.call.payload
          /\ m.dev \in Devices
      BY <1>0, <3>1, <3>3, CallParts DEF Request, Typed, DatagramTyped
    <3>5. net' = (net \ {m}) \cup Q
      BY <2>13, <3>3, <3>4 DEF ServeInjection, Replies
    <3>6. \A x \in Q : x.id = k.id
      BY <1>5 DEF Reply, Datagram
    <3>7. Pending(h)' = Q
      <4>1. P = {m}
        BY <3>2
      <4>2. Pending(h)' = (P \ {m}) \cup Q
        <5> HIDE DEF Q, P
        <5>. QED  BY <2>5, <3>5, <3>6
      <4>. QED  BY <4>1, <4>2
    <3>8. Good(Target(k.call), k.call.payload) # {} =>
            b = Taking(Target(k.call), k.call.payload, h)
      BY <2>4, <3>3, <3>4 DEF Applied
    <3>9. Answering(h, k, b, Q, T, Lossless(h))
      <4> HIDE DEF P, T
      <4>. QED  BY <1>0, <2>3, <3>1, <3>2, <3>4, <3>8, OwnServed
    <3>10. n = [k EXCEPT !.seen = @ \cup {b}]
      BY <2>2, <2>13, <3>3 DEF ServeInjection
    <3>11. n.got = k.got /\ b \in n.seen
      BY <1>0, <3>10 DEF CallForms
    <3>12. Answering(h, n, b, Q, T, Lossless(h))
      <4>1. /\ Replies(n, b) = Replies(k, b)
            /\ \A a : Arrived(h, n, a) = Arrived(h, k, a)
            /\ \A a : Underway(h, n, a) = Underway(h, k, a)
        BY <2>2 DEF Replies, Arrived, Underway
      <4> HIDE DEF Q, T, n, k
      <4>. QED  BY <2>2, <3>9, <4>1 DEF Answering
    <3>. HIDE DEF Q, P, T
    <3>. QED  BY <2>6, <2>7, <3>1, <3>7, <3>11, <3>12 DEF Accounted
  <2>14. CASE HostReceives(m)
    <3>1. losses' = losses /\ net' = net \ {m} /\ m.hop = "host"
      BY <2>14 DEF HostReceives
    <3>2. Pending(h)' = P \ {m}
      BY <2>8, <3>1
    <3>3. CASE n.got = k.got \cup {m}
      <4>1. Taken(h)' = T \cup {m}
        BY <1>5, <2>2, <3>3 DEF Taken, Own
      <4>2. PICK b \in k.seen : Answering(h, k, b, P, T, Lossless(h))
        BY <2>3, <3>1, OwnStage
      <4>. HIDE DEF P, T
      <4>3. Answering(h, k, b, P \ {m}, T \cup {m}, Lossless(h))
        BY <2>3, <3>1, <4>2, OwnTaken
      <4>4. Accounted(h, k, P \ {m}, T \cup {m}, Lossless(h))
        BY <4>3 DEF Accounted
      <4>5. Accounted(h, n, P \ {m}, T \cup {m}, Lossless(h))
        BY <2>2, <4>4, OwnGrows
      <4>. QED  BY <2>7, <3>1, <3>2, <4>1, <4>5
    <3>4. CASE n = k
      <4>1. Lossless(h) => n.got = k.got \cup {m}
        BY <1>5, <2>2, <2>4, <2>14, OwnReceived DEF Running, Lossless
      <4>2. CASE Lossless(h)
        BY <3>3, <4>1, <4>2
      <4>3. CASE ~Lossless(h)
        <5>1. Taken(h)' = T
          BY <2>6, <3>4
        <5>2. ~Lossless(h)'
          BY <2>7, <3>1, <4>3
        <5>. QED  BY <2>9, <3>2, <3>4, <5>1, <5>2
      <4>. QED  BY <4>2, <4>3
    <3>5. n = k \/ n.got = k.got \cup {m}
      BY <2>4, <2>14, Received DEF Running
    <3>. QED  BY <3>3, <3>4, <3>5
  <2>15. CASE Lose(m)
    <3>1. losses' = losses + 1 /\ n = k /\ net' = net \ {m}
      BY <2>15 DEF Lose
    <3>2. ~Lossless(h)'
      BY <3>1 DEF Lossless, Typed
    <3>. QED  BY <2>6, <2>8, <2>9, <3>1, <3>2
  <2>. QED  BY <1>5, <2>10, <2>11, <2>12, <2>13, <2>14, <2>15 DEF Moves
<1>6. ASSUME UNCHANGED <<net, calls, losses>>, UNCHANGED client
      PROVE  Accounted(h, n, Pending(h)', Taken(h)', Lossless(h)')
  BY <1>2, <1>6 DEF Pending, Taken, Own
<1>7. ASSUME NEW g \in Hosts, TimeOut(g)
      PROVE  Accounted(h, n, Pending(h)', Taken(h)', Lossless(h)')
  <2>1. n.got = k.got /\ n.id = k.id
    BY <1>0, <1>7 DEF TimeOut, Typed, CallForms
  <2>. QED  BY <1>2, <1>7, <2>1 DEF TimeOut, Pending, Taken, Own
<1>8. ASSUME NEW d \in Reporters, NEW w \in BOOLEAN, Report(d, w)
      PROVE  Accounted(h, n, Pending(h)', Taken(h)', Lossless(h)')
  <2>1. UNCHANGED <<client, calls, losses>> /\ net \subseteq net'
    BY <1>8 DEF Report
  <2>2. Running(h)
    BY <2>1 DEF Running
  <2>3. k.id # NoCall
    BY <2>2 DEF Numbered, NoCall, Running
  <2>4. \A x \in net' \ net : x.id = NoCall
    BY <1>8 DEF Report, Datagram
  <2>5. Pending(h)' = P /\ Taken(h)' = T
    BY <2>1, <2>3, <2>4 DEF Pending, Taken, Own
  <2>. QED  BY <1>2, <2>1, <2>5
<1>. QED
  BY <1>1, <1>3, <1>4, <1>5, <1>6, <1>7, <1>8 DEF Next, Moves, vars, Tick


(* A query has what it waits for when its last fragment arrives. *)
LEMMA ShortStep ==
  Typed /\ Foreign /\ OwnInv /\ Short /\ [Next]_vars => Short'
<1> SUFFICES ASSUME Typed, Foreign, OwnInv, Short, [Next]_vars, NEW h \in Hosts,
                    Running(h)', InParts(client'[h].call), client'[h].stale = {}
             PROVE  Cardinality(client'[h].got) < client'[h].call.parts
  BY DEF Short
<1> DEFINE k == client[h]
           n == client'[h]
<1>0. k \in CallForms
  BY DEF Typed, CallTyped
<1>1. ASSUME NEW g \in Hosts, NEW c \in Calls, StartCall(g, c), g = h
      PROVE  Cardinality(n.got) < n.call.parts
  <2>1. n.got = {} /\ n.call = c
    BY <1>1 DEF StartCall, Typed, Opened
  <2>. QED  BY <2>1, CallParts, FS_EmptySet DEF InParts
<1>2. ASSUME NEW g \in Hosts, NEW c \in Calls, StartCall(g, c), g # h
      PROVE  Cardinality(n.got) < n.call.parts
  <2>1. n = k
    BY <1>2 DEF StartCall, Typed
  <2>. QED  BY <2>1 DEF Short, Running
<1>3. ASSUME UNCHANGED calls, n.got = k.got PROVE Cardinality(n.got) < n.call.parts
  BY <1>3, CallsKept DEF Short
<1>4. ASSUME NEW m \in net, HostReceives(m) PROVE Cardinality(n.got) < n.call.parts
  <2>1. UNCHANGED calls
    BY <1>4 DEF HostReceives
  <2>2. n.call = k.call /\ n.stale = k.stale /\ Running(h)
    BY <2>1, CallsKept
  <2>3. CASE n = k
    BY <1>3, <2>1, <2>3
  <2>4. CASE n # k
    <3>1. m.host = h
      BY <1>4, <2>4, Received
    <3>2. MayCount(k.call, k.tid, m.data)
      BY <1>4, <2>4, <3>1, Counted DEF Running
    <3>3. m.id = k.id
      BY <2>2, <3>1, <3>2 DEF Foreign
    <3>4. n.st \notin {"answered", "invalid", "acked"}
      BY DEF Running
    <3>. QED  BY <1>4, <2>2, <3>1, <3>3, <3>4, OwnReceived
  <2>. QED  BY <2>3, <2>4
<1>5. ASSUME NEW g \in Hosts, TimeOut(g) PROVE Cardinality(n.got) < n.call.parts
  <2>1. n.got = k.got
    BY <1>0, <1>5 DEF TimeOut, Typed, CallForms
  <2>. QED  BY <1>3, <1>5, <2>1 DEF TimeOut
<1>6. ASSUME NEW m \in net, ServeInjection(m) PROVE Cardinality(n.got) < n.call.parts
  <2>1. n.got = k.got
    BY <1>0, <1>6 DEF ServeInjection, CallForms
  <2>. QED  BY <1>3, <1>6, <2>1 DEF ServeInjection
<1>7. CASE UNCHANGED <<client, calls>>
  BY <1>3, <1>7
<1>. QED
  BY <1>1, <1>2, <1>4, <1>5, <1>6, <1>7
     DEF Next, vars, RelayRequest, RelayAnswer, ServeQuery, Lose, Report, Tick

-----------------------------------------------------------------------------
(* What the client prints.                                                 *)

(* The body of every datagram of an answer is what the device held. *)
LEMMA AnswerBody ==
  ASSUME NEW k, k.call.kind = "query", NEW b, NEW a \in Replies(k, b)
  PROVE  a.body = b
<1> DEFINE q == Request(k.call, k.tid)
<1>1. a \in Answer(q, b)
  BY DEF Replies
<1>2. CASE q.parts = 0
  BY <1>1, <1>2 DEF Answer
<1>3. CASE q.parts # 0
  BY <1>1, <1>3, PartForm
<1>. QED  BY <1>2, <1>3

(* A call is answered or acknowledged by the arrival of a datagram that it *)
(* may count.                                                              *)
LEMMA EndsByArrival ==
  ASSUME Typed, [Next]_vars, NEW h \in Hosts,
         client'[h].st \in {"answered", "acked"}, client'[h] # client[h]
  PROVE  LET k == client[h]
             n == client'[h]
         IN  /\ UNCHANGED calls
             /\ n.seen = k.seen
             /\ Running(h)
             /\ \E m \in net : /\ HostReceives(m) /\ m.host = h
                               /\ MayCount(k.call, k.tid, m.data)
                               /\ m \in n.got /\ n.got \subseteq k.got \cup {m}
<1> DEFINE k == client[h]
           n == client'[h]
<1>0. k \in CallForms
  BY DEF Typed, CallTyped
<1>1. ASSUME NEW g \in Hosts, NEW c \in Calls, StartCall(g, c) PROVE FALSE
  <2>1. n = IF h = g THEN Opened(g, c) ELSE k
    BY <1>1 DEF StartCall, Typed
  <2>2. Opened(g, c).st \notin {"answered", "acked"}
    BY CallParts DEF Opened
  <2>. QED  BY <2>1, <2>2
<1>2. ASSUME NEW g \in Hosts, TimeOut(g) PROVE FALSE
  <2>1. n = IF h = g THEN [k EXCEPT !.st = "timedout"] ELSE k
    BY <1>2 DEF TimeOut, Typed
  <2>. QED  BY <1>0, <2>1 DEF CallForms
<1>3. ASSUME NEW m \in net, ServeInjection(m) PROVE FALSE
  <2>1. UNCHANGED calls
    BY <1>3 DEF ServeInjection
  <2>2. Running(h)
    BY <2>1, CallsKept
  <2>3. n.st = k.st
    BY <1>0, <1>3 DEF ServeInjection, CallForms
  <2>. QED  BY <2>2, <2>3 DEF Running
<1>4. ASSUME NEW m \in net, HostReceives(m)
      PROVE  /\ UNCHANGED calls
             /\ n.seen = k.seen
             /\ Running(h)
             /\ m.host = h
             /\ MayCount(k.call, k.tid, m.data)
             /\ m \in n.got /\ n.got \subseteq k.got \cup {m}
  <2>1. m.host = h
    BY <1>4, Received
  <2>2. UNCHANGED calls
    BY <1>4 DEF HostReceives
  <2>3. Running(h)
    BY <2>2, CallsKept
  <2>4. n = [k EXCEPT !.st = n.st, !.got = n.got]
    BY <1>4, <2>1, Received
  <2>5. n.seen = k.seen
    <3>. HIDE DEF n, k
    <3>. QED  BY <1>0, <2>4 DEF CallForms
  <2>. QED  BY <1>4, <2>1, <2>2, <2>3, <2>5, Counted
<1>5. ~UNCHANGED client
  OBVIOUS
<1>. QED
  BY <1>1, <1>2, <1>3, <1>4, <1>5
     DEF Next, vars, RelayRequest, RelayAnswer, ServeQuery, Lose, Report, Tick

(* A product is no less than a factor. *)
LEMMA AtLeastOnce ==
  ASSUME NEW x \in Nat \ {0}, NEW a \in Nat
  PROVE  x * a >= a
<1>1. x - 1 \in Nat /\ x * a = (x - 1) * a + a
  OBVIOUS
<1>2. (x - 1) * a \in Nat
  BY <1>1
<1>. QED  BY <1>1, <1>2

(* What an injection may conclude when it has counted to the end. *)
LEMMA CountedToTheEnd ==
  ASSUME NEW h, NEW k, k.call \in Calls, k.call.kind = "inject",
         IsFiniteSet(k.got), Cardinality(k.got) >= ExpectedAcks(k.call),
         NEW P, NEW all, Accounted(h, k, P, Own(k), all)
  PROVE  LET d == Target(k.call)
         IN  /\ CutAlike(k.call) /\ Cardinality(Late(k)) + 1 < AckCount[k.call.dev]
                  => TakesAll(k.call)
             /\ Own(k) # {} /\ (\A g \in k.got : g.data.ok)
                  => Good(d, k.call.payload) # {} /\ Taking(d, k.call.payload, h) \in k.seen
<1> DEFINE c == k.call
           d == Target(c)
           T == Own(k)
           L == Late(k)
           A == AckCount[c.dev]
<1>1. /\ A \in Nat \ {0} /\ ExpectedAcks(c) \in Nat
      /\ Len(c.payload) \div SHORT_PARAM_LEN[c.dev] \in Nat \ {0}
      /\ c.payload \in Seq(Records) /\ c.payload # <<>>
  BY CallParts, WholeRecords DEF Whole
<1>2. /\ T \subseteq k.got /\ L = k.got \ T
  BY DEF Own, Late
<1>3. /\ Cardinality(k.got) = Cardinality(T) + Cardinality(L)
      /\ Cardinality(T) \in Nat /\ Cardinality(L) \in Nat
  <2>1. IsFiniteSet(T) /\ IsFiniteSet(L) /\ k.got = T \cup L
    BY <1>2, FS_Subset
  <2>2. \A x \in T : x \notin L
    BY <1>2
  <2>. HIDE DEF T, L
  <2>. QED  BY <2>1, <2>2, TwoParts
<1>4. CASE Asking(h, k, P, T, all)
  <2>1. T = {}
    BY <1>4 DEF Asking
  <2>2. Cardinality(T) = 0
    <3>. HIDE DEF T
    <3>. QED  BY <2>1, FS_EmptySet
  <2>3. ExpectedAcks(c) >= A
    <3> DEFINE x == Len(c.payload) \div SHORT_PARAM_LEN[c.dev]
    <3>1. ExpectedAcks(c) = x * A /\ x \in Nat \ {0}
      BY <1>1 DEF ExpectedAcks
    <3>. HIDE DEF x, A
    <3>. QED  BY <1>1, <3>1, AtLeastOnce
  <2>4. ~(Cardinality(L) + 1 < A)
    <3>. HIDE DEF T, L, A, c
    <3>1. Cardinality(L) >= ExpectedAcks(c)
      BY <1>3, <2>2 DEF c
    <3>. QED  BY <1>1, <1>3, <2>3, <3>1
  <2>. QED  BY <2>1, <2>4
<1>5. ASSUME NEW b \in k.seen, Answering(h, k, b, P, T, all)
      PROVE  /\ CutAlike(c) /\ Cardinality(L) + 1 < A => TakesAll(c)
             /\ T # {} /\ (\A g \in k.got : g.data.ok)
                  => Good(d, c.payload) # {} /\ Taking(d, c.payload, h) \in k.seen
  <2> DEFINE N == Cardinality(Pieces(d, c.payload))
             G == Cardinality(Good(d, c.payload))
             B == Cardinality(Pieces(d, c.payload) \ Good(d, c.payload))
             R == Replies(k, b)
  <2>1. d \in Devices /\ R = Acks(d, c.payload)
    BY <1>5 DEF Answering, Replies
  <2>2. /\ G \in Nat /\ B \in Nat /\ N = G + B
        /\ B = 0 => TakesAll(c)
        /\ Cardinality(R) = AckCount[d] * G + B
    <3>1. /\ G \in Nat /\ B \in Nat /\ N = G + B
          /\ B = 0 <=> Good(d, c.payload) = Pieces(d, c.payload)
          /\ Cardinality(R) = AckCount[d] * G + B
      BY <1>1, <2>1, AcksCount
    <3>. QED  BY <2>1, <3>1 DEF TakesAll
  <2>3. Cardinality(T) <= Cardinality(R)
    <3>. HIDE DEF T, R
    <3>. QED  BY <1>5, TakenBound DEF R
  <2>4. ASSUME CutAlike(c), Cardinality(L) + 1 < A, B > 0 PROVE FALSE
    <3>1. AckCount[d] = A /\ N * A = ExpectedAcks(c)
      BY <2>1, <2>4, AlikeCount
    <3>2. Cardinality(R) = A * G + B /\ (G + B) * A = ExpectedAcks(c)
      <4>. HIDE DEF R, A, G, B, N, d, c
      <4>. QED  BY <2>2, <3>1
    <3>. HIDE DEF A, G, B
    <3>3. A * G + B \in Nat /\ (G + B) * A >= (A * G + B) + (A - 1)
      BY <1>1, <2>2, <2>4, Products
    <3>4. Cardinality(k.got) >= ExpectedAcks(c)
      OBVIOUS
    <3>. HIDE DEF T, L, R, c
    <3>5. ExpectedAcks(c) <= Cardinality(T) + Cardinality(L)
      BY <1>3, <3>4
    <3>. QED  BY <1>1, <1>3, <2>3, <2>4, <3>2, <3>3, <3>5
  <2>5. ASSUME T # {}, \A g \in k.got : g.data.ok
        PROVE  Good(d, c.payload) # {} /\ Taking(d, c.payload, h) \in k.seen
    <3>1. PICK g \in T : g.data \in R /\ g.data.ok
      BY <1>2, <1>5, <2>5 DEF Answering
    <3>2. g.data.record \in Good(d, c.payload)
      BY <2>1, <3>1, AckParts
    <3>3. b = Taking(d, c.payload, h)
      BY <1>5, <3>2 DEF Answering
    <3>. QED  BY <3>2, <3>3
  <2>6. B > 0 \/ TakesAll(c)
    BY <2>2
  <2>. QED  BY <2>4, <2>5, <2>6
<1>. QED  BY <1>4, <1>5 DEF Accounted

(* What has been printed stays true of the call. *)
TellsTruth == QueryCurrent /\ AckedMeansTaken /\ NothingLeft

(* Nothing has been printed at the beginning. *)
LEMMA TruthInit == Init => TellsTruth
<1> SUFFICES ASSUME Init PROVE TellsTruth
  OBVIOUS
<1>1. \A h \in Hosts : client[h].st = "none"
  BY DEF Init, Closed
<1>. QED  BY <1>1 DEF TellsTruth, QueryCurrent, AckedMeansTaken, NothingLeft

(* A query prints what its device held. *)
LEMMA PrintedStep ==
  ASSUME Typed, Foreign, OwnInv, QueryCurrent, [Next]_vars, NEW h \in Hosts,
         client'[h].st = "answered", client'[h].stale = {}
  PROVE  \E b \in client'[h].seen : \A g \in client'[h].got : g.data.body = b
<1> DEFINE k == client[h]
           n == client'[h]
<1>1. CASE n = k
  BY <1>1 DEF QueryCurrent
<1>2. CASE n # k
  <2>1. /\ UNCHANGED calls /\ n.seen = k.seen /\ Running(h)
        /\ \E m \in net : /\ HostReceives(m) /\ m.host = h
                          /\ MayCount(k.call, k.tid, m.data)
                          /\ m \in n.got /\ n.got \subseteq k.got \cup {m}
    BY <1>2, EndsByArrival
  <2>2. PICK m \in net : /\ HostReceives(m) /\ m.host = h
                         /\ MayCount(k.call, k.tid, m.data)
                         /\ m \in n.got /\ n.got \subseteq k.got \cup {m}
    BY <2>1
  <2>3. k.stale = {}
    BY <2>1, CallsKept
  <2>4. m.id = k.id /\ k.got = Taken(h)
    BY <2>1, <2>2, <2>3, NothingForeign DEF Foreign
  <2>5. PICK b \in k.seen :
          Answering(h, k, b, Pending(h) \ {m}, Taken(h) \cup {m}, Lossless(h))
    BY <2>1, <2>2, <2>4, OwnReceived
  <2>6. k.call.kind = "query"
    <3>1. k.st = k.call.kind
      BY <2>1 DEF Typed, CallTyped, Running
    <3>2. k.st # "inject"
      BY <1>2, <2>2, Received
    <3>. QED  BY <2>1, <3>1, <3>2 DEF Running
  <2>7. \A g \in n.got : g.data \in Replies(k, b)
    BY <2>2, <2>4, <2>5 DEF Answering
  <2>8. \A g \in n.got : g.data.body = b
    BY <2>6, <2>7, AnswerBody
  <2>. QED  BY <2>1, <2>8
<1>. QED  BY <1>1, <1>2

(* An injection counts to its end. *)
LEMMA CountedStep ==
  ASSUME Typed, Foreign, OwnInv, AckedMeansTaken, [Next]_vars, NEW h \in Hosts,
         client'[h].st = "acked"
  PROVE  LET k == client'[h]
             d == Target(k.call)
         IN  /\ k.stale = {} => Late(k) = {}
             /\ CutAlike(k.call) /\ Cardinality(Late(k)) + 1 < AckCount[k.call.dev]
                  => TakesAll(k.call)
             /\ Own(k) # {} /\ (\A g \in k.got : g.data.ok)
                  => Good(d, k.call.payload) # {} /\ Taking(d, k.call.payload, h) \in k.seen
<1> DEFINE k == client[h]
           n == client'[h]
<1>1. CASE n = k
  BY <1>1 DEF AckedMeansTaken
<1>2. CASE n # k
  <2>1. /\ UNCHANGED calls /\ n.seen = k.seen /\ Running(h)
        /\ \E m \in net : /\ HostReceives(m) /\ m.host = h
                          /\ MayCount(k.call, k.tid, m.data)
                          /\ m \in n.got /\ n.got \subseteq k.got \cup {m}
    BY <1>2, EndsByArrival
  <2>2. PICK m \in net : /\ HostReceives(m) /\ m.host = h
                         /\ MayCount(k.call, k.tid, m.data)
                         /\ m \in n.got /\ n.got \subseteq k.got \cup {m}
    BY <2>1
  <2>3. /\ n.call = k.call /\ n.tid = k.tid /\ n.id = k.id /\ n.stale = k.stale
    BY <2>1, CallsKept
  <2>4. /\ k.call \in Calls /\ k.st = k.call.kind /\ IsFiniteSet(k.got)
    BY <2>1 DEF Typed, CallTyped, CallForms, Running
  <2>5. /\ k.st = "inject" /\ n.got = k.got \cup {m}
        /\ Cardinality(k.got \cup {m}) >= ExpectedAcks(k.call)
    BY <1>2, <2>2, Received
  <2>6. IsFiniteSet(n.got) /\ Cardinality(n.got) >= ExpectedAcks(n.call)
    BY <2>3, <2>4, <2>5, FS_AddElement
  <2>7. n.stale = {} => Late(n) = {}
    <3>1. n.stale = {} => m.id = k.id /\ k.got = Taken(h)
      BY <2>1, <2>2, <2>3, NothingForeign DEF Foreign
    <3>. QED  BY <2>3, <2>5, <3>1 DEF Late, Own, Taken
  <2>8. \E P : Accounted(h, n, P, Own(n), Lossless(h))
    <3>1. CASE m.id = k.id
      <4>1. Own(n) = Taken(h) \cup {m}
        BY <2>3, <2>5, <3>1 DEF Own, Taken
      <4>2. \E b \in k.seen : Answering(h, k, b, Pending(h) \ {m}, Own(n), Lossless(h))
        BY <2>1, <2>2, <3>1, <4>1, OwnReceived
      <4>3. Accounted(h, k, Pending(h) \ {m}, Own(n), Lossless(h))
        BY <4>2 DEF Accounted
      <4>4. Accounted(h, n, Pending(h) \ {m}, Own(n), Lossless(h))
        <5>. HIDE DEF k, n
        <5>. QED  BY <2>1, <2>3, <4>3, OwnGrows
      <4>. QED  BY <4>4
    <3>2. CASE m.id # k.id
      <4>1. Own(n) = Taken(h)
        BY <2>3, <2>5, <3>2 DEF Own, Taken
      <4>2. Accounted(h, k, Pending(h), Own(n), Lossless(h))
        BY <2>1, <4>1 DEF OwnInv
      <4>3. Accounted(h, n, Pending(h), Own(n), Lossless(h))
        <5>. HIDE DEF k, n
        <5>. QED  BY <2>1, <2>3, <4>2, OwnGrows
      <4>. QED  BY <4>3
    <3>. QED  BY <3>1, <3>2
  <2>9. PICK P : Accounted(h, n, P, Own(n), Lossless(h))
    BY <2>8
  <2>10. n.call \in Calls /\ n.call.kind = "inject"
    BY <2>3, <2>4, <2>5
  <2>. HIDE DEF n
  <2>11. LET d == Target(n.call)
         IN  /\ CutAlike(n.call) /\ Cardinality(Late(n)) + 1 < AckCount[n.call.dev]
                  => TakesAll(n.call)
             /\ Own(n) # {} /\ (\A g \in n.got : g.data.ok)
                  => Good(d, n.call.payload) # {} /\ Taking(d, n.call.payload, h) \in n.seen
    BY <2>6, <2>9, <2>10, CountedToTheEnd
  <2>. QED  BY <2>7, <2>11 DEF n
<1>. QED  BY <1>1, <1>2

(* A call that has what it waits for has nothing left, and gets nothing    *)
(* more.                                                                   *)
LEMMA EmptyStep ==
  ASSUME Typed, Numbered, Foreign, OwnInv, NothingLeft, [Next]_vars, NEW h \in Hosts,
         client'[h].st \in {"answered", "acked"}, client'[h].stale = {},
         CutAlike(client'[h].call)
  PROVE  \A m \in net' : m.id # client'[h].id
<1> DEFINE k == client[h]
           n == client'[h]
<1>1. CASE n = k
  <2>1. \A m \in net : m.id # k.id
    BY <1>1 DEF NothingLeft
  <2>2. /\ k.id[1] = h /\ k.id[2] > 0 /\ k.id[2] <= calls
        /\ k.id \in Hosts \X Nat /\ calls \in Nat
    BY <1>1 DEF Numbered, Typed, CallTyped, CallForms
  <2>3. ASSUME NEW m \in net, Moves(m) PROVE \A x \in net' : x.id # k.id
    BY <2>1, <2>3, MoveKeepsId
  <2>4. ASSUME NEW g \in Hosts, NEW c \in Calls, StartCall(g, c)
        PROVE  \A x \in net' : x.id # k.id
    <3>1. \A x \in net' : x \in net \/ x.id = <<g, calls + 1>>
      BY <2>4 DEF StartCall, Opened, Datagram
    <3>2. k.id # <<g, calls + 1>>
      BY <2>2
    <3>. QED  BY <2>1, <3>1, <3>2
  <2>5. ASSUME NEW d \in Reporters, NEW w \in BOOLEAN, Report(d, w)
        PROVE  \A x \in net' : x.id # k.id
    <3>1. \A x \in net' : x \in net \/ x.id = NoCall
      BY <2>5 DEF Report, Datagram
    <3>2. k.id # NoCall
      BY <2>2 DEF NoCall
    <3>. QED  BY <2>1, <3>1, <3>2
  <2>. QED
    BY <1>1, <2>1, <2>3, <2>4, <2>5 DEF Next, Moves, vars, TimeOut, Tick
<1>2. CASE n # k
  <2>1. /\ UNCHANGED calls /\ n.seen = k.seen /\ Running(h)
        /\ \E m \in net : /\ HostReceives(m) /\ m.host = h
                          /\ MayCount(k.call, k.tid, m.data)
                          /\ m \in n.got /\ n.got \subseteq k.got \cup {m}
    BY <1>2, EndsByArrival
  <2>2. PICK m \in net : /\ HostReceives(m) /\ m.host = h
                         /\ MayCount(k.call, k.tid, m.data)
    BY <2>1
  <2>3. n.stale = k.stale /\ n.id = k.id /\ n.call = k.call
    BY <2>1, CallsKept
  <2>4. m.id = k.id
    BY <2>1, <2>2, <2>3 DEF Foreign
  <2>5. n.st # k.st
    BY <2>1 DEF Running
  <2>6. Pending(h) \ {m} = {}
    BY <2>1, <2>2, <2>3, <2>4, <2>5, OwnReceived
  <2>7. net' = net \ {m}
    BY <2>2 DEF HostReceives
  <2>. QED  BY <2>3, <2>6, <2>7 DEF Pending
<1>. QED  BY <1>1, <1>2

(* Every step prints what is true. *)
LEMMA TruthStep ==
  Typed /\ Numbered /\ Foreign /\ OwnInv /\ TellsTruth /\ [Next]_vars => TellsTruth'
<1> SUFFICES ASSUME Typed, Numbered, Foreign, OwnInv, TellsTruth, [Next]_vars
             PROVE  TellsTruth'
  OBVIOUS
<1>1. QueryCurrent'
  BY PrintedStep DEF TellsTruth, QueryCurrent
<1>2. AckedMeansTaken'
  <2>. AckedMeansTaken
    BY DEF TellsTruth
  <2> SUFFICES ASSUME NEW h \in Hosts, client'[h].st = "acked"
               PROVE  LET k == client'[h]
                          d == Target(k.call)
                      IN  /\ k.stale = {} => Late(k) = {}
                          /\ CutAlike(k.call) /\ Cardinality(Late(k)) + 1 < AckCount[k.call.dev]
                               => TakesAll(k.call)
                          /\ Own(k) # {} /\ (\A g \in k.got : g.data.ok)
                               => /\ Good(d, k.call.payload) # {}
                                  /\ Taking(d, k.call.payload, h) \in k.seen
    BY DEF AckedMeansTaken
  <2>. QED  BY CountedStep
<1>3. NothingLeft'
  BY EmptyStep DEF TellsTruth, NothingLeft
<1>. QED  BY <1>1, <1>2, <1>3 DEF TellsTruth

(* While nothing is lost, what a running call waits for is on its way,     *)
(* unless the call is refused.                                             *)
LEMMA AccountIsComplete ==
  Typed /\ Foreign /\ OwnInv /\ Short => OnlyRefusedWait
<1> SUFFICES ASSUME Typed, Foreign, OwnInv, Short, losses = 0, NEW h \in Hosts,
                    Running(h), InParts(client[h].call) => client[h].stale = {},
                    CutAlike(client[h].call), \A m \in net : m.id # client[h].id
             PROVE  LET k == client[h]
                        d == Target(k.call)
                        good == Good(d, k.call.payload)
                    IN  IF k.call.via = "relay"
                        THEN (h \notin Allowed \/ ~TakesAll(k.call)) /\ Own(k) = {}
                        ELSE /\ ~TakesAll(k.call)
                             /\ Cardinality(Own(k)) =
                                  AckCount[d] * Cardinality(good)
                                    + Cardinality(Pieces(d, k.call.payload) \ good)
  BY DEF OnlyRefusedWait
<1> DEFINE k == client[h]
           c == k.call
           d == Target(c)
           T == Own(k)
<1>1. /\ c \in Calls /\ c.kind \in {"query", "inject"} /\ k.st = c.kind
      /\ IsFiniteSet(k.got)
      /\ c.kind = "inject" => Cardinality(k.got) < ExpectedAcks(c)
  BY CallParts DEF Typed, CallTyped, CallForms, Running
<1>2. Pending(h) = {} /\ Lossless(h)
  BY DEF Pending, Lossless
<1>3. Accounted(h, k, {}, T, Lossless(h))
  BY <1>2 DEF OwnInv, Taken
<1>4. CASE Asking(h, k, {}, T, Lossless(h))
  BY <1>2, <1>4 DEF Asking, Accepted
<1>5. ASSUME NEW b \in k.seen, Answering(h, k, b, {}, T, Lossless(h))
      PROVE  /\ c.via # "relay" /\ c.kind = "inject" /\ ~TakesAll(c)
             /\ Cardinality(T) = Cardinality(Acks(d, c.payload))
             /\ d \in Devices
  <2>1. d \in Devices /\ Accepted(h, c)
    BY <1>5 DEF Answering
  <2>2. Cardinality(T) = Cardinality(Replies(k, b)) /\ Cardinality(T) \in Nat
    <3>1. \A a \in Replies(k, b) : \E g \in T : g.data = a
      BY <1>2, <1>5 DEF Answering
    <3>. HIDE DEF T, k
    <3>. QED  BY <1>1, <1>5, <3>1, TakenBound DEF c
  <2>3. /\ Needed(c) \in Nat \ {0}
        /\ TakesAll(c) => Cardinality(T) = Needed(c)
    BY <1>1, <2>1, <2>2, RepliesCount
  <2>4. Cardinality(T) < Needed(c)
    <3>1. CASE c.kind = "query" /\ c.parts = 0
      <4>1. T = {}
        BY <3>1 DEF Foreign, Own
      <4>2. Cardinality(T) = 0
        <5>. HIDE DEF T
        <5>. QED  BY <4>1, FS_EmptySet
      <4>. QED  BY <2>3, <4>2
    <3>2. CASE InParts(c)
      <4>1. T = k.got
        BY <3>2, NothingForeign DEF Taken
      <4>2. Cardinality(k.got) < c.parts /\ Needed(c) = c.parts
        BY <1>1, <3>2, CallParts DEF Short, Needed, InParts
      <4>. QED  BY <4>1, <4>2
    <3>3. CASE c.kind = "inject"
      <4>1. T \subseteq k.got
        BY DEF Own
      <4>2. /\ Cardinality(T) <= Cardinality(k.got) /\ Cardinality(k.got) \in Nat
        <5>. HIDE DEF T
        <5>. QED  BY <1>1, <4>1, FS_Subset, FS_CardinalityType
      <4>3. Needed(c) = ExpectedAcks(c)
        BY <3>3 DEF Needed
      <4>. HIDE DEF T, k, c
      <4>. QED  BY <1>1, <2>2, <2>3, <3>3, <4>2, <4>3
    <3>. QED  BY <1>1, <3>1, <3>2, <3>3, CallParts DEF InParts
  <2>5. ~TakesAll(c)
    <3>. HIDE DEF T, c
    <3>. QED  BY <2>2, <2>3, <2>4
  <2>6. c.kind = "inject"
    BY <1>1, <2>5 DEF TakesAll
  <2>7. Replies(k, b) = Acks(d, c.payload)
    BY <2>6 DEF Replies
  <2>. QED  BY <2>1, <2>2, <2>5, <2>6, <2>7 DEF Accepted
<1>6. CASE \E b \in k.seen : Answering(h, k, b, {}, T, Lossless(h))
  <2>1. /\ c.via # "relay" /\ c.kind = "inject" /\ ~TakesAll(c)
        /\ Cardinality(T) = Cardinality(Acks(d, c.payload)) /\ d \in Devices
    BY <1>5, <1>6
  <2>2. c.payload \in Seq(Records) /\ c.payload # <<>>
    BY <1>1, <2>1, CallParts DEF Whole
  <2>3. Cardinality(Acks(d, c.payload)) =
          AckCount[d] * Cardinality(Good(d, c.payload))
            + Cardinality(Pieces(d, c.payload) \ Good(d, c.payload))
    BY <2>1, <2>2, AcksCount
  <2>. QED  BY <2>1, <2>3
<1>. QED  BY <1>3, <1>4, <1>6 DEF Accounted

-----------------------------------------------------------------------------
(* The theorems.                                                           *)

CallInv ==
  /\ Typed /\ Addressed /\ Numbered /\ SeesNow /\ Unasked
  /\ Foreign /\ Numbers /\ OwnInv /\ Short /\ TellsTruth

(* The inductive invariant of the calls. *)
LEMMA CallsInvariant == Spec => []CallInv
<1>1. Init => CallInv
  BY TypedInit, AddressedInit, NumberedInit, ForeignInit, NumbersInit, OwnInit,
     TruthInit DEF CallInv
<1>2. CallInv /\ [Next]_vars => CallInv'
  BY TypedStep, AddressedStep, NumberedStep, SeesStep, UnaskedStep, ForeignStep,
     NumbersStep, OwnStep, ShortStep, TruthStep DEF CallInv
<1>. QED  BY <1>1, <1>2, PTL DEF Spec

(* Whatever is lost or late and whenever calls give up: what a query       *)
(* prints is what the device held, as a whole, during the query, if no     *)
(* earlier call of the host had an answer under way that looks like its    *)
(* own.                                                                    *)
THEOREM QueriesAreCurrent == Spec => []QueryCurrent
<1>1. CallInv => QueryCurrent
  BY DEF CallInv, TellsTruth
<1>. QED  BY <1>1, CallsInvariant, PTL

(* What a query prints from fragments is what the device held, whatever    *)
(* earlier calls have left under way, if none of them had its number: the  *)
(* numbers may be taken from the same second or go round.                  *)
THEOREM FragmentsAreCurrent == Spec => []FragmentsCurrent
<1>1. CallInv => FragmentsCurrent
  BY DEF CallInv, TellsTruth, QueryCurrent, FragmentsCurrent, Numbers
<1>. QED  BY <1>1, CallsInvariant, PTL

(* What the acknowledgements of an injection prove, and what late ones     *)
(* take away from it.                                                      *)
THEOREM AckedIsTaken == Spec => []AckedMeansTaken
<1>1. CallInv => AckedMeansTaken
  BY DEF CallInv, TellsTruth
<1>. QED  BY <1>1, CallsInvariant, PTL

(* A call that waits although nothing was lost and nothing is to come has  *)
(* been refused: by the relay, or record by record by the service.         *)
THEOREM OnlyTheRefusedWait == Spec => []OnlyRefusedWait
<1>1. CallInv => OnlyRefusedWait
  BY AccountIsComplete DEF CallInv
<1>. QED  BY <1>1, CallsInvariant, PTL

(* A call that began clean and has what it waits for leaves nothing for    *)
(* the next.                                                               *)
THEOREM NothingIsLeft == Spec => []NothingLeft
<1>1. CallInv => NothingLeft
  BY DEF CallInv, TellsTruth
<1>. QED  BY <1>1, CallsInvariant, PTL

===============================================================================
