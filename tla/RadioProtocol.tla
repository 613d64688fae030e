---------------------------- MODULE RadioProtocol ----------------------------
(***************************************************************************)
(* What a radio's parameters go through: the client turns field values     *)
(* into a short record, the parameter service puts the record into its     *)
(* block and the block into the configuration file, the daemon reads that  *)
(* file, a query sends the block back in fragments, and a restart that     *)
(* finds no state file rebuilds the block from the configuration file.     *)
(* The layouts are those of RadioLayouts; here every datagram is handled   *)
(* in one step (ParamService has the steps in between).                    *)
(***************************************************************************)
EXTENDS RadioLayouts, FiniteSets

CONSTANTS
  Ips,            \* addresses of requesters and of the bridge
  ItemLists,      \* what clients ask: sequences of [name, value], by device
  Payloads,       \* the datagrams, sequences of [device, items], that
                  \* reach a radio, by the radio's device
  SetupConfigs,   \* the configuration files a radio starts with, by device
  MaxPayloads,    \* the fragment sizes clients ask for
  NoBlock,        \* the service has not run yet
  NoRequest       \* no record was accepted since the last loss of state

(* A bound: three records of one length are four of the other, and would   *)
(* have to be split anew.  So datagrams of more records have only such as  *)
(* are of the radio's own length.                                          *)
MaxRecords == 2

(* The names a record's fields go by (the client refuses others). *)
FieldNames(dev) == DOMAIN ShortOffsets(dev)

(* A value for every key, a number unless the key is an address. *)
Fits(name, value) ==
  IF name = "businessIp" THEN value \in Addresses
  ELSE value \in Int /\ (name = "freq" => 0 <= value /\ value <= MaxFreq)

ASSUME ProtocolAssumption ==
  /\ Ips \subseteq Addresses
  /\ \A dev \in Devices :
       /\ \A items \in ItemLists[dev] :
            /\ items \in Seq([name : FieldNames(dev), value : Int])
            /\ \A i \in DOMAIN items : Fits(items[i].name, items[i].value)
       /\ \A p \in Payloads[dev] :
            /\ p \in Seq([device : Devices, items : UNION {ItemLists[d] : d \in Devices}])
            /\ p # <<>>
            /\ \A i \in DOMAIN p :
                 /\ p[i].items \in ItemLists[p[i].device]
                 /\ Len(p) > MaxRecords => ShortLen[p[i].device] = ShortLen[dev]
       /\ \A cfg \in SetupConfigs[dev] :
            /\ DOMAIN cfg \subseteq DaemonKeys(dev)
            /\ \A key \in DOMAIN cfg : Fits(key, cfg[key])
  /\ MaxPayloads \subseteq Nat
  /\ NoBlock \notin [Window -> Byte]

VARIABLES
  device,   \* which radio this is
  block,    \* the parameters, in memory and in the state file
  config,   \* the daemon's configuration file
  asked,    \* history: the record accepted last
  acks,     \* the answers to the last injection: results and how many of each
  sent      \* the fragments of the last query response

vars == <<device, block, config, asked, acks, sent>>

-----------------------------------------------------------------------------
(* parse_device_param, default_device_param, apply_short_param and         *)
(* sync_device_config select by device.                                    *)

Parse(dev, buf) ==
  IF dev = "ckl" THEN ParseCkl(buf)
    ELSE IF dev = "xtl" THEN ParseXtl(buf)
    ELSE ParseZzw(buf)

Default(dev, cfg, ip) ==
  IF dev = "ckl" THEN DefaultCkl(cfg, ip)
    ELSE IF dev = "xtl" THEN DefaultXtl(cfg, ip)
    ELSE DefaultZzw(cfg, ip)

Apply(dev, buf, p, ip) ==
  IF dev = "ckl" THEN ApplyCkl(buf, p, ip)
    ELSE IF dev = "xtl" THEN ApplyXtl(buf, p, ip)
    ELSE ApplyZzw(buf, p, ip)

Synced(dev, buf) ==
  LET q == Parse(dev, buf) IN
  IF dev = "ckl" THEN SyncCkl(q)
    ELSE IF dev = "xtl" THEN SyncXtl(q)
    ELSE SyncZzw(q)

(* resolve_default_ip: the first address of the file that is not zero,     *)
(* else the one of br0 (zero if it has none).                              *)
IpKeys == <<"businessIp", "nodeIp", "ipAddr">>

DefaultIp(cfg, br0) ==
  LET named == {i \in DOMAIN IpKeys : Get(cfg, IpKeys[i], NoIp) # NoIp}
  IN  IF named = {} THEN br0
      ELSE cfg[IpKeys[CHOOSE i \in named : \A j \in named : i <= j]]

-----------------------------------------------------------------------------
Init ==
  /\ device \in Devices
  /\ config \in SetupConfigs[device]
  /\ block = NoBlock
  /\ asked = NoRequest
  /\ acks = <<>> /\ sent = <<>>

(* The service starts: load_param, sync_device_config, save_param.  It     *)
(* finds the state file unless that is lost.                               *)
Start(lost, br0) ==
  /\ block' = IF lost \/ block = NoBlock
              THEN Default(device, config, DefaultIp(config, br0))
              ELSE block
  /\ config' = Synced(device, block')
  /\ acks' = <<>> /\ sent' = <<>>
  /\ UNCHANGED <<device, asked>>

(* split_short_injections: the datagram is a whole number of records. *)
Splits(payload) ==
  LET length[n \in 0 .. Len(payload)] ==
        IF n = 0 THEN 0 ELSE length[n - 1] + ShortLen[payload[n].device]
  IN  length[Len(payload)] % ShortLen[device] = 0

(* The records of a datagram as bytes, and the indices of the good ones. *)
Records(payload, up) ==
  [i \in DOMAIN payload |-> BuildShort(payload[i].device, payload[i].items, up)]

Good(recs) == {i \in DOMAIN recs : ValidShortHeader(device, recs[i])}

Last(good) == CHOOSE i \in good : \A j \in good : j <= i

AppliedAll(recs, ip) ==
  LET applied[n \in 0 .. Len(recs)] ==
        IF n = 0 THEN block
        ELSE IF n \in Good(recs)
             THEN Apply(device, applied[n - 1], ParseShort(device, recs[n]), ip)
             ELSE applied[n - 1]
  IN  applied[Len(recs)]

(* apply_injections: the bad records of a datagram are skipped, the good   *)
(* ones applied in their order, with the requester's address.              *)
Inject(payload, ip, up) ==
  LET recs == Records(payload, up)
      good == Good(recs)
  IN  /\ block # NoBlock
      /\ Splits(payload)
      /\ good # {}
      /\ block' = AppliedAll(recs, ip)
      /\ config' = Synced(device, block')
      /\ asked' = [record |-> payload[Last(good)], ip |-> ip]
      /\ acks' = [i \in DOMAIN payload |->
                    IF i \in good THEN <<0, AckCount[device]>> ELSE <<1, 1>>]
      /\ sent' = <<>>
      /\ UNCHANGED device

(* Nothing in the datagram is good; one that cannot be split is refused as *)
(* a whole.                                                                *)
Refuse(payload, up) ==
  LET recs == Records(payload, up) IN
  /\ block # NoBlock
  /\ IF Splits(payload)
     THEN Good(recs) = {} /\ acks' = [i \in DOMAIN payload |-> <<1, 1>>]
     ELSE acks' = << <<1, 1>> >>
  /\ sent' = <<>>
  /\ UNCHANGED <<device, block, config, asked>>

MaxFragPayload == 1390

(* parse_query_fragment_ext: sizes too small to use mean the default.      *)
FragmentSize(max) ==
  LET size == IF max < 256 THEN MaxFragPayload ELSE max
  IN  IF size > MaxFragPayload THEN MaxFragPayload ELSE size

(* An error send_fragmented_response could make: it rounds down. *)
FloorFragments(len, size) ==
  [i \in 1 .. len \div size |-> [from |-> (i - 1) * size, to |-> i * size]]

(* send_fragmented_response: fragment i is response[from : to]. *)
Fragments(len, size) ==
  LET total == (len + size - 1) \div size
  IN  [i \in 1 .. total |->
         [from |-> (i - 1) * size,
          to   |-> IF i * size > len THEN len ELSE i * size]]

Query(max) ==
  /\ block # NoBlock
  /\ sent' = Fragments(ResponseLen(device), FragmentSize(max))
  /\ acks' = <<>>
  /\ UNCHANGED <<device, block, config, asked>>

Next ==
  \/ \E lost \in BOOLEAN, br0 \in Ips \cup {NoIp} : Start(lost, br0)
  \/ \E p \in Payloads[device], up \in BOOLEAN :
       Refuse(p, up) \/ \E ip \in Ips : Inject(p, ip, up)
  \/ \E max \in MaxPayloads : Query(max)

Spec == Init /\ [][Next]_vars

-----------------------------------------------------------------------------
(* Properties.                                                             *)

(* What a query response says, under the names the records use. *)
Reported(dev, buf) ==
  LET q == Parse(dev, buf) IN
  IF dev = "ckl" THEN
         [nodeNo |-> q.nodeNo, radioFreq |-> q.radioFreq,
          radioPower |-> q.radioPower, workFreqMode |-> q.workFreqMode,
          radioRate |-> q.radioRate, hostPrime |-> q.hostPrime,
          businessIp |-> q.nodeIp]
    ELSE IF dev = "xtl" THEN
         [nodeNum |-> q.nodeNum, radioPower |-> q.radioPower,
          freqType |-> q.channelParams.freqType, freq |-> q.channelParams.freq,
          userRate |-> q.channelParams.userRate,
          currentChannelNo |-> q.currentChannelNo,
          hostPrime |-> q.channelParams.radioPrime, businessIp |-> q.ipAddr]
    ELSE
         [nodeNum |-> q.nodeNum, radioPower |-> q.radioPower,
          freqType |-> q.channelParams.freqType, freq |-> q.channelParams.freq,
          userRate |-> q.channelParams.userRate,
          superiorNetNo |-> q.superiorNetNo,
          hostPrime |-> q.channelParams.radioPrime, businessIp |-> q.ipAddr]

(* The value a list of items gives a field: that of the last item that     *)
(* names it, the protocol's initial value if none does.                    *)
InitialValue(field) ==
  CASE field = "radioFreq" -> 1000
    [] field = "freq" -> InitialFreq
    [] field \in {"hostPrime", "currentChannelNo", "superiorNetNo"} -> 0
    [] OTHER -> 1

NamedBy(items, field) ==
  {i \in DOMAIN items : \/ items[i].name = field
                         \/ /\ items[i].name = "radioPrime"
                            /\ field = "hostPrime"}

AskedValue(items, field) ==
  LET named == NamedBy(items, field)
  IN  IF named = {} THEN InitialValue(field)
      ELSE items[CHOOSE i \in named : \A j \in named : j <= i].value

(* The fields, the configuration and the bytes keep their shape: the block *)
(* has its window of bytes, the file the keys its daemon knows.            *)
TypeOK ==
  /\ device \in Devices
  /\ block \in [Window -> Byte] \cup {NoBlock}
  /\ block # NoBlock => DOMAIN config = DaemonKeys(device)
  /\ \A i \in DOMAIN acks : acks[i] \in {<<1, 1>>, <<0, AckCount[device]>>}

(* What the last accepted record asked for is what every query reports     *)
(* from then on, field by field, and with the address of the requester,    *)
(* across restarts with and without the state file: numbers are cut to     *)
(* their width, a frequency comes within half a unit of what float32       *)
(* holds.  Relates build_short_injection in the client, apply_short_param, *)
(* default_device_param and sync_device_config in the radio, and           *)
(* parse_device_param in the client again.  A record made for another kind *)
(* of radio is never taken (validate_short_header).                        *)
AskedIsQueried ==
  asked # NoRequest =>
    LET r == Reported(device, block) IN
    /\ asked.record.device = device
    /\ \A f \in DOMAIN r :
         LET v == AskedValue(asked.record.items, f) IN
         CASE f = "businessIp" -> r[f] = asked.ip
           [] f = "radioFreq"  -> r[f] = v % 65536
           [] f = "freq"       -> 2 * (r[f] - v) \in -Unit(v) .. Unit(v)
           [] OTHER            -> r[f] = v % 256

(* The configuration file always holds enough to rebuild the whole block,  *)
(* bit by bit: a radio that loses its state file loses no parameter        *)
(* (sync_device_config against default_device_param and resolve_default_ip *)
(* of load_param).                                                         *)
RestoredFromConfig ==
  block # NoBlock =>
    \A br0 \in Ips \cup {NoIp} :
      Default(device, config, DefaultIp(config, br0)) = block

(* The daemon runs on what queries report: the file names each parameter   *)
(* under the key the daemon reads it from, with the value reported; so the *)
(* daemon refuses it only for a value out of its range.                    *)
DaemonFollows ==
  block # NoBlock =>
    LET r == Reported(device, block) IN
    /\ \A k \in DaemonKeys(device) : config[k] = r[k]
    /\ DaemonAccepts(device, config)
         <=> /\ r["businessIp"] # NoIp
             /\ \A k \in DOMAIN DaemonRange(device) :
                  r[k] <= DaemonRange(device)[k]

(* The fragments of a response tile it: put together in order they give    *)
(* the response, none is empty, and none exceeds what one datagram should  *)
(* hold, whatever size the client asks for (parse_query_fragment_ext and   *)
(* send_fragmented_response; recv_fragments joins them).                   *)
FragmentsTile ==
  sent # <<>> =>
    /\ sent[1].from = 0
    /\ sent[Len(sent)].to = ResponseLen(device)
    /\ \A i \in DOMAIN sent :
         /\ sent[i].to - sent[i].from \in 1 .. MaxFragPayload
         /\ i > 1 => sent[i].from = sent[i - 1].to

(* A record that was acknowledged takes effect: its daemon accepts the     *)
(* file (docs/ckl-业务说明.md:281).                                        *)
AckedIsAccepted == asked # NoRequest => DaemonAccepts(device, config)

=============================================================================
