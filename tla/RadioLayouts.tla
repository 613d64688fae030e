----------------------------- MODULE RadioLayouts -----------------------------
(***************************************************************************)
(* The byte layouts of radio_protocol_common.py (one file, copied into the *)
(* tools and into each radio): the parameter block a radio keeps and a     *)
(* query returns, the short record an injection carries, the key=value     *)
(* configuration file, and what the daemons accept of that file.           *)
(*                                                                         *)
(* Every operation of the code spells out its own offsets and widths; they *)
(* are kept apart here, so that two tables that disagree show.  A buffer   *)
(* is a function from offsets to bytes.  Of a block it has the offsets     *)
(* that some operation writes lie within (Window); no operation writes     *)
(* behind it.  Multi-byte numbers are little-endian in blocks and          *)
(* big-endian in records.  Addresses are tuples of four bytes.             *)
(*                                                                         *)
(* Frequencies count units of 10 Hz (freq * 100000.0 of the code).  The    *)
(* four bytes of a float32 are stood for by those of its value, which is   *)
(* one-to-one for the integers a float32 can hold.                         *)
(***************************************************************************)
EXTENDS Integers, Sequences

Devices == {"ckl", "xtl", "zzw"}

Byte == 0 .. 255

Window == 8 .. 55

(* {device}_PARAM_LEN, RESPONSE_HEADER_LEN and query_response_len. *)
ParamLen == [ckl |-> 440, xtl |-> 5863, zzw |-> 5372]

ResponseLen(device) == 310 + ParamLen[device]

ShortLen == [ckl |-> 9, xtl |-> 12, zzw |-> 12]

(* short_ack_count: a good record is acknowledged once per field. *)
AckCount == [ckl |-> 6, xtl |-> 7, zzw |-> 7]

RadioType == [ckl |-> 1, xtl |-> 2, zzw |-> 3]

Addresses == [1 .. 4 -> Byte]

NoIp == <<0, 0, 0, 0>>

-----------------------------------------------------------------------------
(* Writing.  Numbers are cut to their width without a word (& 0xFF): these *)
(* are the two bytes of v, and what lies above them.                       *)

Low(v) == v % 256
High(v) == (v \div 256) % 256
Upper(v) == v \div 65536

PutLE2(buf, off, v) == [buf EXCEPT ![off] = Low(v), ![off + 1] = High(v)]

PutLE4(buf, off, v) == PutLE2(PutLE2(buf, off, v), off + 2, Upper(v))

PutBE2(buf, off, v) == [buf EXCEPT ![off] = High(v), ![off + 1] = Low(v)]

PutBE4(buf, off, v) == PutBE2(PutBE2(buf, off, Upper(v)), off + 2, v)

PutIp(buf, off, ip) ==
  [buf EXCEPT ![off] = ip[1], ![off + 1] = ip[2], ![off + 2] = ip[3],
              ![off + 3] = ip[4]]

(* Reading. *)
GetLE2(buf, off) == buf[off] + 256 * buf[off + 1]

GetLE4(buf, off) == GetLE2(buf, off) + 65536 * GetLE2(buf, off + 2)

GetBE2(buf, off) == 256 * buf[off] + buf[off + 1]

GetBE4(buf, off) == 65536 * GetBE2(buf, off) + GetBE2(buf, off + 2)

GetIp(buf, off) == [k \in 1 .. 4 |-> buf[off + k - 1]]

(* The spacing of the float32 values around v: the 24 bits of a float32    *)
(* reach from v \div u down, and all of them are in use unless u is 1.     *)
Units == {1, 2, 4, 8, 16, 32, 64, 128}

Unit(v) ==
  CHOOSE u \in Units : v < 16777216 * u /\ (u = 1 \/ v >= 8388608 * u)

(* A bound: the greatest frequency (21 GHz) whose neighbours Units tells.  *)
MaxFreq == 2147483520

(* struct.pack with format f: the nearest value a float32 holds.  "up"     *)
(* tells which way a frequency goes that lies halfway between two of them, *)
(* as the rounding of the product in double precision decides that.        *)
Float32(v, up) ==
  LET u == Unit(v)
      r == v % u
  IN  IF 2 * r > u \/ (2 * r = u /\ up) THEN v - r + u ELSE v - r

-----------------------------------------------------------------------------
(* The query response: parse_ckl_param, parse_channel_param,               *)
(* parse_xtl_param and parse_zzw_param.  The fields left out are read from *)
(* bytes no operation writes.                                              *)

ParseCkl(buf) ==
  [optType |-> GetLE4(buf, 8), nodeNo |-> buf[17], nodeSize |-> buf[18],
   hostPrime |-> buf[19], nodeIp |-> GetIp(buf, 23), radioRate |-> buf[28],
   radioPower |-> buf[29], radioFreq |-> GetLE2(buf, 32),
   radioRateSelf |-> buf[34], workFreqMode |-> buf[35]]

ParseChannel(buf, off) ==
  [channelNo |-> buf[off], freqType |-> buf[off + 1],
   freq |-> GetLE4(buf, off + 2), userRate |-> buf[off + 10],
   radioPrime |-> buf[off + 11]]

ParseXtl(buf) ==
  [optType |-> GetLE4(buf, 8), ipAddr |-> GetIp(buf, 20),
   radioPower |-> buf[24], superiorNetNo |-> buf[32], nodeNum |-> buf[33],
   currentChannelNo |-> buf[43], channelParams |-> ParseChannel(buf, 44)]

ParseZzw(buf) ==
  [optType |-> GetLE4(buf, 8), ipAddr |-> GetIp(buf, 20),
   radioPower |-> buf[24], superiorNetNo |-> buf[32], nodeNum |-> buf[33],
   currentChannelNo |-> buf[43], channelParams |-> ParseChannel(buf, 44)]

-----------------------------------------------------------------------------
(* default_*_param: the block a configuration file stands for.             *)

Get(cfg, key, default) == IF key \in DOMAIN cfg THEN cfg[key] ELSE default

Blank == [o \in Window |-> 0]

InitialFreq == 30000000

DefaultCkl(cfg, ip) ==
  LET own  == Get(cfg, "businessIp", Get(cfg, "nodeIp", ip))
      node == [Blank EXCEPT
                 ![17] = Low(Get(cfg, "nodeNo", 1)),
                 ![18] = Low(Get(cfg, "nodeSize", 4)),
                 ![19] = Low(Get(cfg, "hostPrime", 0)),
                 ![28] = Low(Get(cfg, "radioRate", 1)),
                 ![29] = Low(Get(cfg, "radioPower", 1)),
                 ![35] = Low(Get(cfg, "workFreqMode", 1))]
      opt  == PutLE4(node, 8, Get(cfg, "optType", 1))
  IN  PutIp(PutLE2(opt, 32, Get(cfg, "radioFreq", 1000)), 23, own)

DefaultXtl(cfg, ip) ==
  LET own  == Get(cfg, "businessIp", Get(cfg, "ipAddr", ip))
      here == Get(cfg, "currentChannelNo", 0)
      node == [Blank EXCEPT
                 ![8] = 1,
                 ![24] = Low(Get(cfg, "radioPower", 1)),
                 ![32] = Low(Get(cfg, "superiorNetNo", 0)),
                 ![33] = Low(Get(cfg, "nodeNum", 1)),
                 ![43] = Low(here),
                 ![44] = Low(Get(cfg, "channelNo", here)),
                 ![45] = Low(Get(cfg, "freqType", 1)),
                 ![54] = Low(Get(cfg, "userRate", 1)),
                 ![55] = Low(Get(cfg, "hostPrime", Get(cfg, "radioPrime", 0)))]
      freq == Float32(Get(cfg, "freq", InitialFreq), TRUE)
  IN  PutIp(PutLE4(node, 46, freq), 20, own)

(* An error default_zzw_param could make: it does not look for the net. *)
DefaultZzwNoNet(cfg, ip) == [DefaultXtl(cfg, ip) EXCEPT ![32] = 0]

(* default_zzw_param writes the same fields to the same offsets. *)
DefaultZzw(cfg, ip) == DefaultXtl(cfg, ip)

-----------------------------------------------------------------------------
(* Short records: default_short_param and build_short_injection (the       *)
(* client's --set name=value ..., in their order; radioPrime is another    *)
(* name of hostPrime), then parse_short_param in the radio.                *)

DefaultShort(device) ==
  IF device = "ckl"
  THEN [o \in 0 .. 8 |->
          <<1, RadioType[device], 1, High(1000), Low(1000), 1, 1, 1, 0>>[o + 1]]
  ELSE LET freq == Float32(InitialFreq, TRUE)
       IN  [o \in 0 .. 11 |->
              <<1, RadioType[device], 1, 1, 1, High(Upper(freq)), Low(Upper(freq)),
                High(freq), Low(freq), 1, 0, 0>>[o + 1]]

(* SHORT_FIELD_WRITERS: where a field is; all but the frequencies are one  *)
(* byte wide.                                                              *)
CklOffsets ==
  [nodeNo |-> 2, radioFreq |-> 3, radioPower |-> 5, workFreqMode |-> 6,
   radioRate |-> 7, hostPrime |-> 8]

XtlOffsets ==
  [nodeNum |-> 2, radioPower |-> 3, freqType |-> 4, freq |-> 5, userRate |-> 9,
   currentChannelNo |-> 10, hostPrime |-> 11, radioPrime |-> 11]

ZzwOffsets ==
  [nodeNum |-> 2, radioPower |-> 3, freqType |-> 4, freq |-> 5, userRate |-> 9,
   superiorNetNo |-> 10, hostPrime |-> 11, radioPrime |-> 11]

ShortOffsets(device) ==
  IF device = "ckl" THEN CklOffsets
    ELSE IF device = "xtl" THEN XtlOffsets
    ELSE ZzwOffsets

WriteField(device, buf, name, v, up) ==
  LET off == ShortOffsets(device)[name]
  IN  CASE name = "radioFreq" -> PutBE2(buf, off, v)
        [] name = "freq"      -> PutBE4(buf, off, Float32(v, up))
        [] OTHER              -> [buf EXCEPT ![off] = Low(v)]

BuildShort(device, items, up) ==
  LET built[n \in 0 .. Len(items)] ==
        IF n = 0 THEN DefaultShort(device)
        ELSE WriteField(device, built[n - 1], items[n].name, items[n].value, up)
  IN  built[Len(items)]

(* An error validate_short_header could make: it ignores the radio type. *)
SameLength(device, rec) == DOMAIN rec = 0 .. ShortLen[device] - 1 /\ rec[0] = 1

ValidShortHeader(device, rec) ==
  /\ DOMAIN rec = 0 .. ShortLen[device] - 1
  /\ rec[0] = 1
  /\ rec[1] = RadioType[device]

ParseCklShort(rec) ==
  [nodeNo |-> rec[2], radioFreq |-> GetBE2(rec, 3), radioPower |-> rec[5],
   workFreqMode |-> rec[6], radioRate |-> rec[7], hostPrime |-> rec[8]]

ParseXtlShort(rec) ==
  [nodeNum |-> rec[2], radioPower |-> rec[3], freqType |-> rec[4],
   freq |-> GetBE4(rec, 5), userRate |-> rec[9], currentChannelNo |-> rec[10],
   hostPrime |-> rec[11]]

ParseZzwShort(rec) ==
  [nodeNum |-> rec[2], radioPower |-> rec[3], freqType |-> rec[4],
   freq |-> GetBE4(rec, 5), userRate |-> rec[9], superiorNetNo |-> rec[10],
   hostPrime |-> rec[11]]

ParseShort(device, rec) ==
  IF device = "ckl" THEN ParseCklShort(rec)
    ELSE IF device = "xtl" THEN ParseXtlShort(rec)
    ELSE ParseZzwShort(rec)

(* apply_short_param. *)
ApplyCkl(buf, p, ip) ==
  LET node == [buf EXCEPT ![17] = p.nodeNo, ![19] = p.hostPrime,
                          ![28] = p.radioRate, ![29] = p.radioPower,
                          ![35] = p.workFreqMode]
  IN  PutIp(PutLE2(node, 32, p.radioFreq), 23, ip)

ApplyXtl(buf, p, ip) ==
  LET node == [buf EXCEPT ![24] = p.radioPower, ![33] = p.nodeNum,
                          ![43] = p.currentChannelNo, ![44] = p.currentChannelNo,
                          ![45] = p.freqType, ![54] = p.userRate,
                          ![55] = p.hostPrime]
  IN  PutIp(PutLE4(node, 46, p.freq), 20, ip)

ApplyZzw(buf, p, ip) ==
  LET node == [buf EXCEPT ![24] = p.radioPower, ![32] = p.superiorNetNo,
                          ![33] = p.nodeNum, ![43] = 0, ![44] = 0,
                          ![45] = p.freqType, ![54] = p.userRate,
                          ![55] = p.hostPrime]
  IN  PutIp(PutLE4(node, 46, p.freq), 20, ip)

-----------------------------------------------------------------------------
(* sync_device_config: the configuration file, from the parsed block.      *)

(* An error the CKL service could make: it writes the radio's own rate. *)
SyncCklRateSelf(q) ==
  [nodeNo |-> q.nodeNo, businessIp |-> q.nodeIp, radioFreq |-> q.radioFreq,
   radioPower |-> q.radioPower, workFreqMode |-> q.workFreqMode,
   radioRate |-> q.radioRateSelf, hostPrime |-> q.hostPrime]

SyncCkl(q) ==
  [nodeNo |-> q.nodeNo, businessIp |-> q.nodeIp, radioFreq |-> q.radioFreq,
   radioPower |-> q.radioPower, workFreqMode |-> q.workFreqMode,
   radioRate |-> q.radioRate, hostPrime |-> q.hostPrime]

SyncXtl(q) ==
  [nodeNum |-> q.nodeNum, businessIp |-> q.ipAddr, radioPower |-> q.radioPower,
   freqType |-> q.channelParams.freqType, freq |-> q.channelParams.freq,
   userRate |-> q.channelParams.userRate,
   currentChannelNo |-> q.currentChannelNo,
   hostPrime |-> q.channelParams.radioPrime]

(* An error the ZZW service could make: it leaves out the net. *)
SyncZzwNoNet(q) ==
  [nodeNum |-> q.nodeNum, businessIp |-> q.ipAddr, radioPower |-> q.radioPower,
   freqType |-> q.channelParams.freqType, freq |-> q.channelParams.freq,
   userRate |-> q.channelParams.userRate,
   hostPrime |-> q.channelParams.radioPrime]

SyncZzw(q) ==
  [nodeNum |-> q.nodeNum, businessIp |-> q.ipAddr, radioPower |-> q.radioPower,
   freqType |-> q.channelParams.freqType, freq |-> q.channelParams.freq,
   userRate |-> q.channelParams.userRate,
   superiorNetNo |-> q.superiorNetNo,
   hostPrime |-> q.channelParams.radioPrime]

(* What the daemons read: config_read_all of the CKL daemon, load_config   *)
(* of the others.  A key they do not know, a key that is missing and a     *)
(* value out of range make them refuse the whole file.                     *)
CklRange ==
  [nodeNo |-> 255, radioFreq |-> 65535, radioPower |-> 3, workFreqMode |-> 2,
   radioRate |-> 3, hostPrime |-> 255]

XtlRange ==
  [nodeNum |-> 255, radioPower |-> 9, freqType |-> 2, userRate |-> 5,
   currentChannelNo |-> 255, hostPrime |-> 1]

ZzwRange ==
  [nodeNum |-> 255, radioPower |-> 9, freqType |-> 2, userRate |-> 5,
   superiorNetNo |-> 255, hostPrime |-> 1]

DaemonRange(device) ==
  IF device = "ckl" THEN CklRange
    ELSE IF device = "xtl" THEN XtlRange
    ELSE ZzwRange

DaemonKeys(device) ==
  DOMAIN DaemonRange(device) \cup {"businessIp"}
    \cup (IF device = "ckl" THEN {} ELSE {"freq"})

DaemonAccepts(device, cfg) ==
  /\ DOMAIN cfg = DaemonKeys(device)
  /\ cfg["businessIp"] # NoIp
  /\ \A k \in DOMAIN DaemonRange(device) : cfg[k] <= DaemonRange(device)[k]

=============================================================================
