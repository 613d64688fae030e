------------------------- MODULE RadioProtocolProofs -------------------------
(***************************************************************************)
(* Proofs about RadioProtocol, for every content of records, datagrams,    *)
(* set-up files and fragment sizes: what a query reports is what was asked *)
(* for last, a lost state file is rebuilt bit by bit, the configuration    *)
(* file tells the daemon what a query tells the client, and the fragments  *)
(* tile the response.                                                      *)
(*                                                                         *)
(* In order: bytes and frequencies, the short records, the parameter block *)
(* and its configuration file, whole datagrams, the invariant in two       *)
(* parts, and the theorems.                                                *)
(***************************************************************************)
EXTENDS RadioProtocol, NumberLemmas, TLAPS
-----------------------------------------------------------------------------
(* Bytes and frequencies. *)

Small(b) == b \in Int /\ 0 <= b /\ b <= 255

(* Bytes without the interval, which the solver would enumerate. *)
LEMMA ByteSmall == \A b : b \in Byte <=> Small(b)
  BY DEF Byte, Small

(* The bytes of a number. *)
LEMMA BytesAre ==
  ASSUME NEW v \in Int
  PROVE  Low(v) \in Byte /\ High(v) \in Byte /\ Upper(v) \in Int
<1>1. Small(Low(v)) /\ Small(High(v)) /\ Upper(v) \in Int
  BY SMT DEF Small, Low, High, Upper
<1>. QED  BY <1>1, ByteSmall

(* Two bytes put together. *)
LEMMA TwoBytes ==
  ASSUME NEW v \in Int
  PROVE  Low(v) + 256 * High(v) = v % 65536 /\ 256 * High(v) + Low(v) = v % 65536
BY SMT DEF Low, High

(* Four bytes put together. *)
LEMMA FourBytes ==
  ASSUME NEW v \in Int, 0 <= v, v <= 2147483647
  PROVE  /\ (Low(v) + 256 * High(v))
              + 65536 * (Low(Upper(v)) + 256 * High(Upper(v))) = v
         /\ 65536 * (256 * High(Upper(v)) + Low(Upper(v)))
              + (256 * High(v) + Low(v)) = v
<1> DEFINE w == Upper(v)
<1>1. w \in Int /\ 0 <= w /\ w < 65536 /\ (v % 65536) + 65536 * w = v
  BY SMT DEF Upper
<1>. HIDE DEF w
<1>2. Low(v) + 256 * High(v) = v % 65536 /\ 256 * High(v) + Low(v) = v % 65536
  BY TwoBytes
<1>3. Low(w) + 256 * High(w) = w /\ 256 * High(w) + Low(w) = w
  BY SMT, <1>1 DEF Low, High
<1>4. /\ (Low(v) + 256 * High(v)) + 65536 * (Low(w) + 256 * High(w)) = v
      /\ 65536 * (256 * High(w) + Low(w)) + (256 * High(v) + Low(v)) = v
  BY SMT, <1>1, <1>2, <1>3
<1>. QED  BY SMT, <1>4 DEF w

(* Two bytes taken apart. *)
LEMMA BytesOf2 ==
  ASSUME NEW a \in Byte, NEW b \in Byte
  PROVE  /\ a + 256 * b \in Int /\ 0 <= a + 256 * b /\ a + 256 * b <= 65535
         /\ Low(a + 256 * b) = a
         /\ High(a + 256 * b) = b
<1>1. Small(a) /\ Small(b)
  BY ByteSmall
<1>. QED  BY SMT, <1>1 DEF Small, Low, High

(* Four bytes taken apart. *)
LEMMA BytesOf4 ==
  ASSUME NEW p \in Int, 0 <= p, p <= 65535, NEW q \in Int, 0 <= q, q <= 65535
  PROVE  /\ p + 65536 * q \in Int
         /\ Low(p + 65536 * q) = Low(p)
         /\ High(p + 65536 * q) = High(p)
         /\ Upper(p + 65536 * q) = q
BY SMT DEF Low, High, Upper

(* The unit of a number. *)
LEMMA UnitOf ==
  ASSUME NEW v \in Int, 0 <= v, v <= 2147483647
  PROVE  /\ Unit(v) \in Units
         /\ v < 16777216 * Unit(v)
         /\ Unit(v) = 1 \/ v >= 8388608 * Unit(v)
<1>1. \E u \in Units : v < 16777216 * u /\ (u = 1 \/ v >= 8388608 * u)
  BY SMT DEF Units
<1>. QED  BY SMT, <1>1 DEF Unit

(* A value that a float32 holds. *)
Exact(v) == v \in Int /\ 0 <= v /\ v <= 2147483647 /\ v % Unit(v) = 0

(* The unit is the only one. *)
LEMMA UnitIs ==
  ASSUME NEW v \in Int, 0 <= v, v <= 2147483647,
         NEW u \in Units, v < 16777216 * u, u = 1 \/ v >= 8388608 * u
  PROVE  Unit(v) = u
<1>1. /\ Unit(v) \in Units
      /\ v < 16777216 * Unit(v)
      /\ Unit(v) = 1 \/ v >= 8388608 * Unit(v)
  BY UnitOf
<1>. QED  BY SMT, <1>1 DEF Units

(* Rounding moves a frequency by no more than half a unit, and the result  *)
(* is a value that a float32 holds.                                        *)
LEMMA Rounded ==
  ASSUME NEW v \in Int, 0 <= v, v <= MaxFreq, NEW up \in BOOLEAN
  PROVE  /\ Exact(Float32(v, up))
         /\ -Unit(v) <= 2 * (Float32(v, up) - v)
         /\ 2 * (Float32(v, up) - v) <= Unit(v)
<1> DEFINE u == Unit(v)
           w == Float32(v, up)
<1>0. v <= 2147483520
  BY DEF MaxFreq
<1>1. u \in Units /\ v < 16777216 * u /\ (u = 1 \/ v >= 8388608 * u)
  BY SMT, <1>0, UnitOf
<1>2. u \in Int /\ u >= 1 /\ u <= 128
  BY <1>1 DEF Units
<1>3. w = IF 2 * (v % u) > u \/ (2 * (v % u) = u /\ up)
          THEN (v - (v % u)) + u ELSE v - (v % u)
  BY DEF Float32
<1>. HIDE DEF u, w
<1>4. /\ v % u \in Int /\ 0 <= v % u /\ v % u < u
      /\ v \div u \in Int /\ v = u * (v \div u) + (v % u)
  BY SMT, <1>1, <1>2 DEF Units
<1>5. \/ w = u * (v \div u) /\ 2 * (v % u) <= u
      \/ w = u * ((v \div u) + 1) /\ 2 * (v % u) >= u
  <2>1. CASE 2 * (v % u) > u \/ (2 * (v % u) = u /\ up)
    BY SMT, <2>1, <1>2, <1>3, <1>4
  <2>2. CASE ~(2 * (v % u) > u \/ (2 * (v % u) = u /\ up))
    <3>1. 2 * (v % u) < u \/ 2 * (v % u) = u
      BY SMT, <2>2, <1>2, <1>4
    <3>. QED BY SMT, <2>2, <3>1, <1>2, <1>3, <1>4
  <2>. QED BY <2>1, <2>2
<1>6. w \in Int /\ - u <= 2 * (w - v) /\ 2 * (w - v) <= u
  BY SMT, <1>5, <1>2, <1>4
<1>7. PICK k \in Int : w = u * k
  BY SMT, <1>5, <1>4
<1>8. 0 <= w /\ w <= 2147483647
  <2>1. CASE u = 128
    BY SMT, <2>1, <1>0, <1>5, <1>6, <1>4, <1>7
  <2>2. CASE u # 128
    <3>1. u <= 64
      BY <2>2, <1>1 DEF Units
    <3>. QED  BY SMT, <3>1, <1>1, <1>2, <1>4, <1>5, <1>6
  <2>. QED  BY <2>1, <2>2
<1>9. w % Unit(w) = 0
  BY SMT, <1>1, <1>5, <1>4, <1>6, <1>7, <1>8, UnitIs DEF Units
<1>. QED  BY SMT, <1>6, <1>8, <1>9 DEF Exact, u, w

(* What the writers change and what they leave. *)
LEMMA PutLE2Is ==
  ASSUME NEW D \in SUBSET Int, NEW buf \in [D -> Byte], NEW off \in D, off + 1 \in D,
         NEW v \in Int
  PROVE  LET new == PutLE2(buf, off, v)
         IN  /\ new \in [D -> Byte]
             /\ new[off] = Low(v) /\ new[off + 1] = High(v)
             /\ \A o \in D \ {off, off + 1} : new[o] = buf[o]
<1>1. Low(v) \in Byte /\ High(v) \in Byte
  BY BytesAre
<1>2. off + 1 # off
  OBVIOUS
<1>. QED  BY <1>1, <1>2 DEF PutLE2

(* The same, the high byte first. *)
LEMMA PutBE2Is ==
  ASSUME NEW D \in SUBSET Int, NEW buf \in [D -> Byte], NEW off \in D, off + 1 \in D,
         NEW v \in Int
  PROVE  LET new == PutBE2(buf, off, v)
         IN  /\ new \in [D -> Byte]
             /\ new[off] = High(v) /\ new[off + 1] = Low(v)
             /\ \A o \in D \ {off, off + 1} : new[o] = buf[o]
<1>1. Low(v) \in Byte /\ High(v) \in Byte
  BY BytesAre
<1>2. off + 1 # off
  OBVIOUS
<1>. QED  BY <1>1, <1>2 DEF PutBE2

(* Four bytes, the low half first. *)
LEMMA PutLE4Is ==
  ASSUME NEW D \in SUBSET Int, NEW buf \in [D -> Byte], NEW off \in D, off + 1 \in D,
         off + 2 \in D, off + 3 \in D, NEW v \in Int
  PROVE  LET new == PutLE4(buf, off, v)
         IN  /\ new \in [D -> Byte]
             /\ new[off] = Low(v) /\ new[off + 1] = High(v)
             /\ new[off + 2] = Low(Upper(v)) /\ new[off + 3] = High(Upper(v))
             /\ \A o \in D \ {off, off + 1, off + 2, off + 3} : new[o] = buf[o]
<1> DEFINE half == PutLE2(buf, off, v)
           new  == PutLE2(half, off + 2, Upper(v))
<1>1. /\ half \in [D -> Byte]
      /\ half[off] = Low(v) /\ half[off + 1] = High(v)
      /\ \A o \in D \ {off, off + 1} : half[o] = buf[o]
  BY PutLE2Is
<1>2. (off + 2) + 1 = off + 3 /\ (off + 2) + 1 \in D /\ Upper(v) \in Int
  BY BytesAre
<1>. HIDE DEF half
<1>3. /\ new \in [D -> Byte]
      /\ new[off + 2] = Low(Upper(v)) /\ new[off + 3] = High(Upper(v))
      /\ \A o \in D \ {off + 2, off + 3} : new[o] = half[o]
  BY <1>1, <1>2, PutLE2Is
<1>4. PutLE4(buf, off, v) = new
  BY DEF PutLE4, half
<1>. HIDE DEF new
<1>5. off # off + 2 /\ off # off + 3 /\ off + 1 # off + 2 /\ off + 1 # off + 3
  OBVIOUS
<1>. QED  BY <1>1, <1>3, <1>4, <1>5

(* Four bytes, the high half first. *)
LEMMA PutBE4Is ==
  ASSUME NEW D \in SUBSET Int, NEW buf \in [D -> Byte], NEW off \in D, off + 1 \in D,
         off + 2 \in D, off + 3 \in D, NEW v \in Int
  PROVE  LET new == PutBE4(buf, off, v)
         IN  /\ new \in [D -> Byte]
             /\ new[off] = High(Upper(v)) /\ new[off + 1] = Low(Upper(v))
             /\ new[off + 2] = High(v) /\ new[off + 3] = Low(v)
             /\ \A o \in D \ {off, off + 1, off + 2, off + 3} : new[o] = buf[o]
<1> DEFINE half == PutBE2(buf, off, Upper(v))
           new  == PutBE2(half, off + 2, v)
<1>1. /\ half \in [D -> Byte]
      /\ half[off] = High(Upper(v)) /\ half[off + 1] = Low(Upper(v))
      /\ \A o \in D \ {off, off + 1} : half[o] = buf[o]
  BY BytesAre, PutBE2Is
<1>2. (off + 2) + 1 = off + 3 /\ (off + 2) + 1 \in D
  OBVIOUS
<1>. HIDE DEF half
<1>3. /\ new \in [D -> Byte]
      /\ new[off + 2] = High(v) /\ new[off + 3] = Low(v)
      /\ \A o \in D \ {off + 2, off + 3} : new[o] = half[o]
  BY <1>1, <1>2, PutBE2Is
<1>4. PutBE4(buf, off, v) = new
  BY DEF PutBE4, half
<1>. HIDE DEF new
<1>5. off # off + 2 /\ off # off + 3 /\ off + 1 # off + 2 /\ off + 1 # off + 3
  OBVIOUS
<1>. QED  BY <1>1, <1>3, <1>4, <1>5

(* The four bytes of an address. *)
LEMMA PutIpIs ==
  ASSUME NEW D \in SUBSET Int, NEW buf \in [D -> Byte], NEW off \in D, off + 1 \in D,
         off + 2 \in D, off + 3 \in D, NEW ip \in Addresses
  PROVE  LET new == PutIp(buf, off, ip)
         IN  /\ new \in [D -> Byte]
             /\ new[off] = ip[1] /\ new[off + 1] = ip[2]
             /\ new[off + 2] = ip[3] /\ new[off + 3] = ip[4]
             /\ \A o \in D \ {off, off + 1, off + 2, off + 3} : new[o] = buf[o]
             /\ GetIp(new, off) = ip
<1> DEFINE new == PutIp(buf, off, ip)
<1>1. ip[1] \in Byte /\ ip[2] \in Byte /\ ip[3] \in Byte /\ ip[4] \in Byte
  BY DEF Addresses
<1>2. /\ off # off + 1 /\ off # off + 2 /\ off # off + 3
      /\ off + 1 # off + 2 /\ off + 1 # off + 3 /\ off + 2 # off + 3
  OBVIOUS
<1>3. /\ new \in [D -> Byte]
      /\ new[off] = ip[1] /\ new[off + 1] = ip[2]
      /\ new[off + 2] = ip[3] /\ new[off + 3] = ip[4]
      /\ \A o \in D \ {off, off + 1, off + 2, off + 3} : new[o] = buf[o]
  BY <1>1, <1>2 DEF PutIp
<1>. HIDE DEF new
<1>4. \A k \in 1 .. 4 : new[off + k - 1] = ip[k]
  <2>1. off + 1 - 1 = off /\ off + 2 - 1 = off + 1 /\ off + 3 - 1 = off + 2
        /\ off + 4 - 1 = off + 3
    OBVIOUS
  <2>2. \A k \in 1 .. 4 : k = 1 \/ k = 2 \/ k = 3 \/ k = 4
    OBVIOUS
  <2>. QED  BY <2>1, <2>2, <1>3
<1>5. GetIp(new, off) = ip
  BY <1>4 DEF GetIp, Addresses
<1>. QED  BY <1>3, <1>5 DEF new
-----------------------------------------------------------------------------
(* Short records. *)

(* The last that a list of items says of a field, among the first n. *)
Named(items, f, n) == {i \in NamedBy(items, f) : i <= n}

Meant(items, f, n) ==
  IF Named(items, f, n) = {} THEN InitialValue(f)
  ELSE items[CHOOSE i \in Named(items, f, n) :
               \A j \in Named(items, f, n) : j <= i].value

(* Before the first item it is the initial value. *)
LEMMA MeantNothing ==
  ASSUME NEW S, NEW items \in Seq(S), NEW f
  PROVE  Meant(items, f, 0) = InitialValue(f)
<1>1. Named(items, f, 0) = {}
  BY DEF Named, NamedBy
<1>. QED  BY <1>1 DEF Meant

(* After the last item it is what the list asks for. *)
LEMMA MeantAll ==
  ASSUME NEW S, NEW items \in Seq(S), NEW f
  PROVE  Meant(items, f, Len(items)) = AskedValue(items, f)
<1>1. Named(items, f, Len(items)) = NamedBy(items, f)
  BY DEF Named, NamedBy
<1>. QED  BY <1>1 DEF Meant, AskedValue

(* One more item counts only for the field it names. *)
LEMMA MeantStep ==
  ASSUME NEW S, NEW items \in Seq(S), NEW f, NEW n \in 1 .. Len(items)
  PROVE  Meant(items, f, n) =
           IF n \in NamedBy(items, f) THEN items[n].value
           ELSE Meant(items, f, n - 1)
<1> DEFINE now == Named(items, f, n)
           past == Named(items, f, n - 1)
<1>1. NamedBy(items, f) \subseteq Nat
  BY DEF NamedBy
<1>2. CASE n \in NamedBy(items, f)
  <2>1. n \in now /\ \A j \in now : j <= n
    BY <1>2 DEF Named
  <2>2. \A i \in now : (\A j \in now : j <= i) => i = n
    BY <2>1, <1>1 DEF Named
  <2>. HIDE DEF now
  <2>3. (CHOOSE i \in now : \A j \in now : j <= i) = n
    BY <2>1, <2>2
  <2>. QED  BY <2>1, <2>3, <1>2 DEF Meant, now
<1>3. CASE n \notin NamedBy(items, f)
  <2>1. now = past
    BY <1>1, <1>3 DEF Named
  <2>. QED  BY <2>1, <1>3 DEF Meant
<1>. QED  BY <1>2, <1>3

(* The fields of the record a radio takes. *)
Fields(dev) ==
  IF dev = "ckl" THEN {"nodeNo", "radioFreq", "radioPower", "workFreqMode",
                       "radioRate", "hostPrime"}
  ELSE {"nodeNum", "radioPower", "freqType", "freq", "userRate", "hostPrime"}
       \cup IF dev = "xtl" THEN {"currentChannelNo"} ELSE {"superiorNetNo"}

(* What a field of value v is after it was packed and unpacked. *)
Near(f, got, v) ==
  CASE f = "radioFreq" -> got = v % 65536
    [] f = "freq" -> Exact(got) /\ 2 * (got - v) \in - Unit(v) .. Unit(v)
    [] OTHER -> got = v % 256

(* The bytes of a record; of one with a good header; and the names that    *)
(* write a field.                                                          *)
Buffers(dev) == [0 .. ShortLen[dev] - 1 -> Byte]

Headed(dev, rec) ==
  rec \in Buffers(dev) /\ rec[0] = 1 /\ rec[1] = RadioType[dev]

Names(name, f) == name = f \/ (name = "radioPrime" /\ f = "hostPrime")

(* The bytes a frequency takes. *)
Wide(dev) == IF dev = "ckl" THEN {3, 4} ELSE {5, 6, 7, 8}

(* A record has a byte for every field but the frequency, and no two fields *)
(* share one.                                                              *)
LEMMA FieldBytes ==
  ASSUME NEW dev \in Devices, NEW name \in FieldNames(dev),
         name \notin {"radioFreq", "freq"}
  PROVE  /\ name # "businessIp"
         /\ ShortOffsets(dev)[name] \in 2 .. ShortLen[dev] - 1
         /\ ShortOffsets(dev)[name] \notin Wide(dev)
         /\ \A f \in Fields(dev) \ {"radioFreq", "freq"} :
              /\ f \in FieldNames(dev)
              /\ ShortOffsets(dev)[f] = ShortOffsets(dev)[name] <=> Names(name, f)
         /\ \A f \in {"radioFreq", "freq"} : ~ Names(name, f)
<1>1. CASE dev = "ckl"
  BY <1>1 DEF FieldNames, ShortOffsets, CklOffsets, ShortLen, Wide, Fields, Names
<1>2. CASE dev = "xtl"
  BY <1>2 DEF FieldNames, ShortOffsets, XtlOffsets, ShortLen, Wide, Fields, Names
<1>3. CASE dev = "zzw"
  BY <1>3 DEF FieldNames, ShortOffsets, ZzwOffsets, ShortLen, Wide, Fields, Names
<1>. QED  BY <1>1, <1>2, <1>3 DEF Devices

(* What parse_short_param reads a field from. *)
LEMMA FieldsRead ==
  ASSUME NEW dev \in Devices, NEW rec
  PROVE  /\ \A f \in Fields(dev) \ {"radioFreq", "freq"} :
              ParseShort(dev, rec)[f] = rec[ShortOffsets(dev)[f]]
         /\ dev = "ckl" => ParseShort(dev, rec)["radioFreq"] = 256 * rec[3] + rec[4]
         /\ dev # "ckl" => ParseShort(dev, rec)["freq"] =
              65536 * (256 * rec[5] + rec[6]) + (256 * rec[7] + rec[8])
         /\ "radioFreq" \in Fields(dev) => dev = "ckl"
         /\ "freq" \in Fields(dev) => dev # "ckl"
<1>1. CASE dev = "ckl"
  BY <1>1 DEF ParseShort, ParseCklShort, ShortOffsets, CklOffsets, Fields, GetBE2
<1>2. CASE dev = "xtl"
  BY <1>2 DEF ParseShort, ParseXtlShort, ShortOffsets, XtlOffsets, Fields, GetBE2,
     GetBE4
<1>3. CASE dev = "zzw"
  BY <1>3 DEF ParseShort, ParseZzwShort, ShortOffsets, ZzwOffsets, Fields, GetBE2,
     GetBE4
<1>. QED  BY <1>1, <1>2, <1>3 DEF Devices

(* Writing a frequency leaves the other fields and the header alone. *)
LEMMA OtherFields ==
  ASSUME NEW dev \in Devices, NEW rec \in Buffers(dev), NEW new \in Buffers(dev),
         \A o \in DOMAIN rec \ Wide(dev) : new[o] = rec[o]
  PROVE  /\ new[0] = rec[0] /\ new[1] = rec[1]
         /\ \A f \in Fields(dev) \ {"radioFreq", "freq"} :
              ParseShort(dev, new)[f] = ParseShort(dev, rec)[f]
<1>1. \A f \in Fields(dev) \ {"radioFreq", "freq"} :
        /\ ShortOffsets(dev)[f] \in DOMAIN rec \ Wide(dev)
  <2>1. Fields(dev) \subseteq FieldNames(dev)
    BY DEF Fields, FieldNames, ShortOffsets, CklOffsets, XtlOffsets, ZzwOffsets
  <2>2. DOMAIN rec = 0 .. ShortLen[dev] - 1
    BY DEF Buffers
  <2>. QED  BY <2>1, <2>2, FieldBytes
<1>2. 0 \in DOMAIN rec \ Wide(dev) /\ 1 \in DOMAIN rec \ Wide(dev)
  BY DEF Buffers, ShortLen, Wide, Devices
<1>. QED  BY <1>1, <1>2, FieldsRead

(* A field that is written reads back near the value it was given, and no  *)
(* other field changes (SHORT_FIELD_WRITERS against parse_short_param).    *)
LEMMA Write ==
  ASSUME NEW dev \in Devices, NEW rec, Headed(dev, rec),
         NEW name \in FieldNames(dev), NEW v \in Int, Fits(name, v),
         NEW up \in BOOLEAN
  PROVE  LET new == WriteField(dev, rec, name, v, up)
         IN  /\ Headed(dev, new)
             /\ \A f \in Fields(dev) :
                  IF Names(name, f) THEN Near(f, ParseShort(dev, new)[f], v)
                  ELSE ParseShort(dev, new)[f] = ParseShort(dev, rec)[f]
<1> DEFINE new == WriteField(dev, rec, name, v, up)
           off == ShortOffsets(dev)[name]
           raw == Float32(v, up)
           D   == 0 .. ShortLen[dev] - 1
<1>1. rec \in [D -> Byte] /\ rec[0] = 1 /\ rec[1] = RadioType[dev]
  BY DEF Headed, Buffers
<1>2. D \in SUBSET Int /\ 0 \in D /\ 1 \in D /\ Wide(dev) \subseteq D
  BY DEF ShortLen, Wide, Devices
<1>3. CASE name = "radioFreq"
  <2>1. dev = "ckl" /\ off = 3
    BY <1>3 DEF FieldNames, ShortOffsets, CklOffsets, XtlOffsets, ZzwOffsets
  <2>2. new = PutBE2(rec, 3, v)
    BY <1>3, <2>1 DEF WriteField
  <2>3. 3 \in D /\ 3 + 1 \in D /\ 3 + 1 = 4 /\ Wide(dev) = {3, 4}
    BY <1>2, <2>1 DEF Wide
  <2>. HIDE DEF new, D
  <2>4. /\ new \in [D -> Byte]
        /\ new[3] = High(v) /\ new[4] = Low(v)
        /\ \A o \in D \ {3, 4} : new[o] = rec[o]
    BY <1>1, <1>2, <2>2, <2>3, PutBE2Is
  <2>5. ParseShort(dev, new)["radioFreq"] = v % 65536
    <3>1. ParseShort(dev, new)["radioFreq"] = 256 * High(v) + Low(v)
      BY <2>1, <2>4, FieldsRead
    <3>. QED  BY <3>1, TwoBytes
  <2>6. /\ new[0] = rec[0] /\ new[1] = rec[1]
        /\ \A f \in Fields(dev) \ {"radioFreq", "freq"} :
             ParseShort(dev, new)[f] = ParseShort(dev, rec)[f]
    BY <1>1, <2>3, <2>4, OtherFields DEF Buffers, D
  <2>7. Headed(dev, new)
    BY <1>1, <2>4, <2>6 DEF Headed, Buffers, D
  <2>8. \A f \in Fields(dev) : f # "freq" /\ (Names(name, f) <=> f = "radioFreq")
    BY <1>3, <2>1, FieldsRead DEF Names
  <2>9. Near("radioFreq", ParseShort(dev, new)["radioFreq"], v)
    BY <2>5 DEF Near
  <2>. QED  BY <2>6, <2>7, <2>8, <2>9 DEF new
<1>4. CASE name = "freq"
  <2>1. dev # "ckl" /\ off = 5
    BY <1>4 DEF FieldNames, ShortOffsets, CklOffsets, XtlOffsets, ZzwOffsets
  <2>2. new = PutBE4(rec, 5, raw)
    BY <1>4, <2>1 DEF WriteField
  <2>3. /\ 5 \in D /\ 5 + 1 \in D /\ 5 + 2 \in D /\ 5 + 3 \in D
        /\ 5 + 1 = 6 /\ 5 + 2 = 7 /\ 5 + 3 = 8 /\ Wide(dev) = {5, 6, 7, 8}
    BY <1>2, <2>1 DEF Wide
  <2>4. /\ Exact(raw) /\ raw \in Int /\ 0 <= raw /\ raw <= 2147483647
        /\ Near("freq", raw, v)
    <3>1. 0 <= v /\ v <= MaxFreq
      BY <1>4 DEF Fits
    <3>2. Exact(raw) /\ -Unit(v) <= 2 * (raw - v) /\ 2 * (raw - v) <= Unit(v)
      BY <3>1, Rounded
    <3>3. Unit(v) \in Int
      <4>1. Unit(v) \in Units
        BY SMT, <3>1, UnitOf DEF MaxFreq
      <4>. QED  BY <4>1 DEF Units
    <3>. HIDE DEF raw
    <3>4. raw \in Int /\ 0 <= raw /\ raw <= 2147483647
      BY SMT, <3>2 DEF Exact
    <3>. QED  BY <3>2, <3>3, <3>4 DEF Near
  <2>. HIDE DEF new, raw, D
  <2>5. /\ new \in [D -> Byte]
        /\ new[5] = High(Upper(raw)) /\ new[6] = Low(Upper(raw))
        /\ new[7] = High(raw) /\ new[8] = Low(raw)
        /\ \A o \in D \ {5, 6, 7, 8} : new[o] = rec[o]
    BY <1>1, <1>2, <2>2, <2>3, <2>4, PutBE4Is
  <2>6. ParseShort(dev, new)["freq"] = raw
    <3>1. ParseShort(dev, new)["freq"] =
            65536 * (256 * High(Upper(raw)) + Low(Upper(raw)))
              + (256 * High(raw) + Low(raw))
      BY <2>1, <2>5, FieldsRead
    <3>. QED  BY <2>4, <3>1, FourBytes
  <2>7. /\ new[0] = rec[0] /\ new[1] = rec[1]
        /\ \A f \in Fields(dev) \ {"radioFreq", "freq"} :
             ParseShort(dev, new)[f] = ParseShort(dev, rec)[f]
    BY <1>1, <2>3, <2>5, OtherFields DEF Buffers, D
  <2>8. Headed(dev, new)
    BY <1>1, <2>5, <2>7 DEF Headed, Buffers, D
  <2>9. \A f \in Fields(dev) : f # "radioFreq" /\ (Names(name, f) <=> f = "freq")
    BY <1>4, <2>1, FieldsRead DEF Names
  <2>. QED  BY <2>4, <2>6, <2>7, <2>8, <2>9 DEF new
<1>5. CASE name \notin {"radioFreq", "freq"}
  <2>1. new = [rec EXCEPT ![off] = Low(v)]
    BY <1>5 DEF WriteField
  <2>2. /\ off \in D /\ off \notin Wide(dev) /\ off \notin {0, 1}
        /\ \A f \in Fields(dev) \ {"radioFreq", "freq"} :
             /\ ShortOffsets(dev)[f] \in D
             /\ ShortOffsets(dev)[f] = off <=> Names(name, f)
        /\ \A f \in {"radioFreq", "freq"} : ~ Names(name, f)
    <3>1. /\ off \in 2 .. ShortLen[dev] - 1
          /\ off \notin Wide(dev)
          /\ \A f \in Fields(dev) \ {"radioFreq", "freq"} :
               /\ f \in FieldNames(dev)
               /\ ShortOffsets(dev)[f] = off <=> Names(name, f)
          /\ \A f \in {"radioFreq", "freq"} : ~ Names(name, f)
      BY <1>5, FieldBytes
    <3>2. \A f \in Fields(dev) \ {"radioFreq", "freq"} : ShortOffsets(dev)[f] \in D
      BY <3>1, FieldBytes
    <3>. HIDE DEF off
    <3>. QED  BY <3>1, <3>2
  <2>. HIDE DEF new, D, off
  <2>3. /\ new \in [D -> Byte] /\ new[off] = Low(v)
        /\ \A o \in D \ {off} : new[o] = rec[o]
    BY <1>1, <2>1, <2>2, BytesAre
  <2>4. Headed(dev, new)
    BY <1>1, <1>2, <2>2, <2>3 DEF Headed, Buffers, D
  <2>5. ASSUME NEW f \in Fields(dev)
        PROVE  IF Names(name, f) THEN Near(f, ParseShort(dev, new)[f], v)
               ELSE ParseShort(dev, new)[f] = ParseShort(dev, rec)[f]
    <3>1. CASE f \notin {"radioFreq", "freq"}
      <4>1. /\ ParseShort(dev, new)[f] = new[ShortOffsets(dev)[f]]
            /\ ParseShort(dev, rec)[f] = rec[ShortOffsets(dev)[f]]
        BY <3>1, FieldsRead
      <4>2. Near(f, Low(v), v)
        BY <3>1 DEF Near, Low
      <4>. QED  BY <2>2, <2>3, <3>1, <4>1, <4>2
    <3>2. CASE f = "radioFreq"
      <4>1. dev = "ckl" /\ ~Names(name, f)
        BY <2>2, <3>2, FieldsRead
      <4>2. new[3] = rec[3] /\ new[4] = rec[4]
        BY <1>2, <2>2, <2>3, <4>1 DEF Wide
      <4>. QED  BY <3>2, <4>1, <4>2, FieldsRead
    <3>3. CASE f = "freq"
      <4>1. dev # "ckl" /\ ~Names(name, f)
        BY <2>2, <3>3, FieldsRead
      <4>2. new[5] = rec[5] /\ new[6] = rec[6] /\ new[7] = rec[7] /\ new[8] = rec[8]
        BY <1>2, <2>2, <2>3, <4>1 DEF Wide
      <4>. QED  BY <3>3, <4>1, <4>2, FieldsRead
    <3>. QED  BY <3>1, <3>2, <3>3
  <2>. QED  BY <2>4, <2>5 DEF new
<1>. QED  BY <1>3, <1>4, <1>5

(* What is true of a record once its first n items are written. *)
Tells(dev, rec, items, n) ==
  /\ Headed(dev, rec)
  /\ \A f \in Fields(dev) : Near(f, ParseShort(dev, rec)[f], Meant(items, f, n))

(* The initial values, spelled out. *)
LEMMA InitialValues ==
  /\ InitialValue("radioFreq") = 1000 /\ InitialValue("freq") = InitialFreq
  /\ \A f \in {"hostPrime", "currentChannelNo", "superiorNetNo"} : InitialValue(f) = 0
  /\ \A f \in {"nodeNo", "nodeNum", "radioPower", "workFreqMode", "radioRate",
               "freqType", "userRate"} : InitialValue(f) = 1
BY SMT DEF InitialValue

(* The record of default_short_param tells each field's initial value: the *)
(* CKL radio's ...                                                         *)
LEMMA CklDefault ==
  /\ Headed("ckl", DefaultShort("ckl"))
  /\ \A f \in Fields("ckl") :
       Near(f, ParseCklShort(DefaultShort("ckl"))[f], InitialValue(f))
<1> DEFINE rec == DefaultShort("ckl")
           row == <<1, 1, 1, High(1000), Low(1000), 1, 1, 1, 0>>
<1>1. rec = [o \in 0 .. 8 |-> row[o + 1]]
  BY DEF DefaultShort, RadioType
<1>2. /\ High(1000) \in Byte /\ Low(1000) \in Byte /\ 0 \in Byte /\ 1 \in Byte
      /\ 256 * High(1000) + Low(1000) = 1000
  <2>1. 1000 \in Int /\ Small(0) /\ Small(1)
    BY DEF Small
  <2>2. 256 * High(1000) + Low(1000) = 1000
    BY SMT DEF High, Low
  <2>. QED  BY <2>1, <2>2, BytesAre, ByteSmall
<1>. HIDE DEF row
<1>3. \A o \in 0 .. 8 : rec[o] = row[o + 1]
  BY <1>1
<1>4. \A o \in 0 .. 8 : row[o + 1] \in Byte
  BY <1>2 DEF row
<1>5. rec \in [0 .. 8 -> Byte]
  BY <1>1, <1>4
<1>. HIDE DEF rec
<1>6. /\ rec[0] = 1 /\ rec[1] = 1 /\ rec[2] = 1 /\ rec[3] = High(1000)
      /\ rec[4] = Low(1000) /\ rec[5] = 1 /\ rec[6] = 1 /\ rec[7] = 1
      /\ rec[8] = 0
  BY <1>3 DEF row
<1>7. Headed("ckl", rec)
  BY <1>5, <1>6 DEF Headed, Buffers, ShortLen, RadioType
<1>8. GetBE2(rec, 3) = 1000
  BY <1>2, <1>6 DEF GetBE2
<1>9. \A f \in Fields("ckl") : Near(f, ParseCklShort(rec)[f], InitialValue(f))
  BY SMT, <1>6, <1>8, InitialValues DEF Fields, ParseCklShort, Near
<1>. QED  BY <1>7, <1>9 DEF rec

(* The initial frequency is a value that a float32 holds. *)
LEMMA StartFreq ==
  ASSUME NEW up \in BOOLEAN
  PROVE  /\ Exact(InitialFreq)
         /\ Near("freq", InitialFreq, InitialFreq)
         /\ Float32(InitialFreq, up) = InitialFreq
<1>1. Unit(30000000) = 2
  BY SMT, UnitIs DEF Units
<1>2. /\ Exact(InitialFreq)
      /\ 2 * (InitialFreq - InitialFreq) \in - Unit(InitialFreq) .. Unit(InitialFreq)
  BY SMT, <1>1 DEF Exact, InitialFreq
<1>. QED  BY SMT, <1>1, <1>2 DEF Float32, Near, InitialFreq

(* ... and that of the two radios that have a channel. *)
LEMMA ChannelDefault ==
  ASSUME NEW dev \in {"xtl", "zzw"}
  PROVE  /\ Headed(dev, DefaultShort(dev))
         /\ \A f \in Fields(dev) :
              Near(f, ParseShort(dev, DefaultShort(dev))[f], InitialValue(f))
<1> DEFINE rec == DefaultShort(dev)
           freq == Float32(InitialFreq, TRUE)
           top == Upper(freq)
           row == <<1, RadioType[dev], 1, 1, 1, High(top), Low(top),
                    High(freq), Low(freq), 1, 0, 0>>
<1>1. rec = [o \in 0 .. 11 |-> row[o + 1]]
  BY DEF DefaultShort
<1>2. freq = InitialFreq /\ Exact(freq)
  BY StartFreq
<1>3. 65536 * (256 * High(top) + Low(top)) + (256 * High(freq) + Low(freq)) = freq
  <2>. HIDE DEF freq
  <2>1. freq \in Int /\ 0 <= freq /\ freq <= 2147483647
    BY SMT, <1>2 DEF Exact
  <2>. QED  BY <2>1, FourBytes
<1>4. /\ High(top) \in Byte /\ Low(top) \in Byte /\ High(freq) \in Byte
      /\ Low(freq) \in Byte /\ 0 \in Byte /\ 1 \in Byte /\ RadioType[dev] \in Byte
  <2>. HIDE DEF freq
  <2>1. freq \in Int
    BY SMT, <1>2 DEF Exact
  <2>2. top \in Int
    BY <2>1, BytesAre
  <2>. HIDE DEF top
  <2>. QED  BY <2>1, <2>2, BytesAre, ByteSmall DEF Small, RadioType
<1>. HIDE DEF row, freq, top
<1>5. \A o \in 0 .. 11 : rec[o] = row[o + 1]
  BY <1>1
<1>6. \A o \in 0 .. 11 : row[o + 1] \in Byte
  BY <1>4 DEF row
<1>7. rec \in [0 .. 11 -> Byte]
  BY <1>1, <1>6
<1>. HIDE DEF rec
<1>8. /\ rec[0] = 1 /\ rec[1] = RadioType[dev] /\ rec[2] = 1 /\ rec[3] = 1
      /\ rec[4] = 1 /\ rec[5] = High(top) /\ rec[6] = Low(top)
      /\ rec[7] = High(freq) /\ rec[8] = Low(freq) /\ rec[9] = 1
      /\ rec[10] = 0 /\ rec[11] = 0
  BY <1>5 DEF row
<1>9. Headed(dev, rec)
  BY <1>7, <1>8 DEF Headed, Buffers, ShortLen
<1>10. GetBE4(rec, 5) = freq
  <2>1. GetBE4(rec, 5) = 65536 * (256 * High(top) + Low(top)) + (256 * High(freq) + Low(freq))
    BY <1>8 DEF GetBE4, GetBE2
  <2>. QED  BY <2>1, <1>3
<1>11. Near("freq", freq, InitialFreq)
  BY <1>2, StartFreq
<1>12. CASE dev = "xtl"
  <2>1. \A f \in Fields("xtl") :
          Near(f, ParseXtlShort(rec)[f], InitialValue(f))
    BY SMT, <1>8, <1>10, <1>11, InitialValues DEF Fields, ParseXtlShort, Near
  <2>. QED  BY <2>1, <1>9, <1>12 DEF ParseShort, rec
<1>13. CASE dev = "zzw"
  <2>1. \A f \in Fields("zzw") :
          Near(f, ParseZzwShort(rec)[f], InitialValue(f))
    BY SMT, <1>8, <1>10, <1>11, InitialValues DEF Fields, ParseZzwShort, Near
  <2>. QED  BY <2>1, <1>9, <1>13 DEF ParseShort, rec
<1>. QED  BY <1>12, <1>13

(* The elements of a sequence. *)
LEMMA SeqElements ==
  ASSUME NEW S, NEW s \in Seq(S), NEW i \in 1 .. Len(s)
  PROVE  s[i] \in S
OBVIOUS

(* A record that is built tells what its items ask for, field by field:    *)
(* one step of Write for each item (build_short_injection).                *)
LEMMA Built ==
  ASSUME NEW dev \in Devices, NEW items \in Seq([name : FieldNames(dev), value : Int]),
         \A i \in DOMAIN items : Fits(items[i].name, items[i].value),
         NEW up \in BOOLEAN
  PROVE  LET rec == BuildShort(dev, items, up)
         IN  /\ Headed(dev, rec)
             /\ \A f \in Fields(dev) :
                  Near(f, ParseShort(dev, rec)[f], AskedValue(items, f))
<1> DEFINE N == Len(items)
           A == {rec \in Buffers(dev) : Headed(dev, rec)}
           a == DefaultShort(dev)
           F == [p \in (1 .. N) \X A |->
                   WriteField(dev, p[2], items[p[1]].name, items[p[1]].value, up)]
           built[n \in 0 .. N] ==
             IF n = 0 THEN DefaultShort(dev)
             ELSE WriteField(dev, built[n - 1], items[n].name, items[n].value, up)
<1>1. N \in Nat /\ DOMAIN items = 1 .. N
  OBVIOUS
<1>2. \A i \in 1 .. N : /\ items[i].name \in FieldNames(dev)
                        /\ items[i].value \in Int
                        /\ Fits(items[i].name, items[i].value)
  <2>1. \A i \in 1 .. N : items[i] \in [name : FieldNames(dev), value : Int]
    BY SeqElements
  <2>2. \A i \in 1 .. N : Fits(items[i].name, items[i].value)
    BY <1>1
  <2>. QED  BY <2>1, <2>2
<1>3. BuildShort(dev, items, up) = built[N]
  BY DEF BuildShort
<1>. HIDE DEF N
<1>4. Tells(dev, a, items, 0)
  <2>1. \A f : Meant(items, f, 0) = InitialValue(f)
    BY MeantNothing
  <2>2. CASE dev = "ckl"
    BY <2>1, <2>2, CklDefault DEF Tells, ParseShort
  <2>3. CASE dev \in {"xtl", "zzw"}
    BY <2>1, <2>3, ChannelDefault DEF Tells
  <2>. QED  BY <2>2, <2>3 DEF Devices
<1>5. a \in A
  BY <1>4 DEF Tells, Headed
<1>6. \A rec \in A, i \in 1 .. N :
        LET new == WriteField(dev, rec, items[i].name, items[i].value, up)
        IN  /\ Headed(dev, new)
            /\ \A f \in Fields(dev) :
                 IF Names(items[i].name, f)
                 THEN Near(f, ParseShort(dev, new)[f], items[i].value)
                 ELSE ParseShort(dev, new)[f] = ParseShort(dev, rec)[f]
  BY <1>2, Write
<1>7. F \in [(1 .. N) \X A -> A]
  BY <1>6 DEF Headed
<1>. HIDE DEF a, A, F
<1>8. PICK g : g \in Runs(N, A, a, F)
  BY <1>1, <1>5, <1>7, LoopRuns
<1>9. g = [i \in 0 .. N |->
             IF i = 0 THEN DefaultShort(dev)
             ELSE WriteField(dev, g[i - 1], items[i].name, items[i].value, up)]
  <2>1. /\ g \in [0 .. N -> A]
        /\ \A i \in 0 .. N : g[i] = IF i = 0 THEN a ELSE F[<<i, g[i - 1]>>]
    BY <1>8 DEF Runs
  <2>2. \A i \in 0 .. N : i # 0 => i \in 1 .. N /\ g[i - 1] \in A
    BY <1>1, <2>1
  <2>3. \A i \in 0 .. N :
          g[i] = IF i = 0 THEN DefaultShort(dev)
                 ELSE WriteField(dev, g[i - 1], items[i].name, items[i].value, up)
    BY <2>1, <2>2 DEF a, F
  <2>. QED  BY <2>1, <2>3
<1>10. built = [i \in 0 .. N |->
             IF i = 0 THEN DefaultShort(dev)
             ELSE WriteField(dev, built[i - 1], items[i].name, items[i].value, up)]
  BY <1>9
<1>. HIDE DEF built
<1> DEFINE S == {n \in 0 .. N : Tells(dev, built[n], items, n)}
<1>11. 0 \in S
  BY <1>1, <1>4, <1>10 DEF a
<1>12. ASSUME NEW n \in 1 .. N, n - 1 \in S PROVE n \in S
  <2> DEFINE rec == built[n - 1]
             new == WriteField(dev, rec, items[n].name, items[n].value, up)
  <2>1. built[n] = new
    BY <1>1, <1>10
  <2>2. rec \in A /\ Tells(dev, rec, items, n - 1)
    BY <1>12 DEF Tells, Headed, A
  <2>. HIDE DEF rec
  <2>3. /\ Headed(dev, new)
        /\ \A f \in Fields(dev) :
             IF Names(items[n].name, f)
             THEN Near(f, ParseShort(dev, new)[f], items[n].value)
             ELSE ParseShort(dev, new)[f] = ParseShort(dev, rec)[f]
    BY <1>6, <2>2
  <2>. HIDE DEF new
  <2>4. ASSUME NEW f \in Fields(dev)
        PROVE  Near(f, ParseShort(dev, new)[f], Meant(items, f, n))
    <3>1. Meant(items, f, n) = IF n \in NamedBy(items, f) THEN items[n].value
                               ELSE Meant(items, f, n - 1)
      BY MeantStep DEF N
    <3>2. n \in NamedBy(items, f) <=> Names(items[n].name, f)
      BY <1>1 DEF NamedBy, Names
    <3>. QED  BY <3>1, <3>2, <2>2, <2>3 DEF Tells
  <2>5. Tells(dev, new, items, n)
    BY <2>3, <2>4 DEF Tells
  <2>. QED  BY <2>1, <2>5
<1>13. N \in S
  <2>. HIDE DEF S
  <2>1. 0 .. N \subseteq S
    BY <1>1, <1>11, <1>12, ReachesAll
  <2>. QED  BY <2>1, <1>1
<1>14. \A f : Meant(items, f, N) = AskedValue(items, f)
  BY MeantAll DEF N
<1>. QED  BY <1>3, <1>13, <1>14 DEF Tells
-----------------------------------------------------------------------------
(* The parameter block and its configuration file. *)

(* The offsets without the interval, which the solver would enumerate. *)
LEMMA WindowIs == \A o : o \in Window <=> o \in Int /\ 8 <= o /\ o <= 55
  BY DEF Window

(* The bytes of a block that parameters are kept in, and what the others hold. *)
Free(dev) ==
  IF dev = "ckl" THEN {17, 19, 23, 24, 25, 26, 28, 29, 32, 33, 35}
  ELSE {20, 21, 22, 23, 24, 33, 45, 46, 47, 48, 49, 54, 55}
       \cup IF dev = "xtl" THEN {43, 44} ELSE {32}

Plain(dev, o) ==
  CASE o = 8 -> 1
    [] o = 18 /\ dev = "ckl" -> 4
    [] OTHER -> 0

(* What every block is like: the other bytes plain, the channel number     *)
(* twice in an XTL radio, and a frequency that a float32 holds.            *)
Shape(dev, buf) ==
  /\ buf \in [Window -> Byte]
  /\ \A o \in Window \ Free(dev) : buf[o] = Plain(dev, o)
  /\ dev = "xtl" => buf[44] = buf[43]
  /\ dev # "ckl" => Exact(GetLE4(buf, 46))

(* A file whose keys the daemon knows and whose values fit. *)
FitConfig(dev, cfg) ==
  /\ DOMAIN cfg \subseteq DaemonKeys(dev)
  /\ \A key \in DOMAIN cfg : Fits(key, cfg[key])

(* What a fitting file gives for a key. *)
LEMMA Getting ==
  ASSUME NEW dev \in Devices, NEW cfg, FitConfig(dev, cfg), NEW key, NEW default
  PROVE  /\ key \notin DaemonKeys(dev) => Get(cfg, key, default) = default
         /\ key # "businessIp" /\ default \in Int => Get(cfg, key, default) \in Int
         /\ key = "businessIp" /\ default \in Addresses
              => Get(cfg, key, default) \in Addresses
BY DEF Get, FitConfig, Fits

(* The block default_ckl_param builds of a fitting file, byte by byte. *)
LEMMA CklDefaultBytes ==
  ASSUME NEW cfg, FitConfig("ckl", cfg), NEW ip \in Addresses
  PROVE  LET new  == DefaultCkl(cfg, ip)
             own  == Get(cfg, "businessIp", ip)
             freq == Get(cfg, "radioFreq", 1000)
         IN  /\ new \in [Window -> Byte]
             /\ \A o \in Window \ Free("ckl") : new[o] = Plain("ckl", o)
             /\ new[17] = Low(Get(cfg, "nodeNo", 1))
             /\ new[19] = Low(Get(cfg, "hostPrime", 0))
             /\ new[28] = Low(Get(cfg, "radioRate", 1))
             /\ new[29] = Low(Get(cfg, "radioPower", 1))
             /\ new[35] = Low(Get(cfg, "workFreqMode", 1))
             /\ new[32] = Low(freq) /\ new[33] = High(freq)
             /\ new[23] = own[1] /\ new[24] = own[2]
             /\ new[25] = own[3] /\ new[26] = own[4]
<1> DEFINE own == Get(cfg, "businessIp", Get(cfg, "nodeIp", ip))
           type == Get(cfg, "optType", 1)
           size == Get(cfg, "nodeSize", 4)
           freq == Get(cfg, "radioFreq", 1000)
           nodeNo == Get(cfg, "nodeNo", 1)
           prime == Get(cfg, "hostPrime", 0)
           rate == Get(cfg, "radioRate", 1)
           power == Get(cfg, "radioPower", 1)
           mode == Get(cfg, "workFreqMode", 1)
           node == [Blank EXCEPT ![17] = Low(nodeNo), ![18] = Low(size),
                      ![19] = Low(prime), ![28] = Low(rate), ![29] = Low(power),
                      ![35] = Low(mode)]
           opt == PutLE4(node, 8, type)
           tuned == PutLE2(opt, 32, freq)
           new == PutIp(tuned, 23, own)
<1>1. type = 1 /\ size = 4 /\ own = Get(cfg, "businessIp", ip)
  <2>1. "ckl" \in Devices
    BY DEF Devices
  <2>2. {"optType", "nodeSize", "nodeIp"} \cap DaemonKeys("ckl") = {}
    BY DEF DaemonKeys, DaemonRange, CklRange
  <2>. QED  BY <2>1, <2>2, Getting
<1>2. DefaultCkl(cfg, ip) = new
  BY DEF DefaultCkl
<1>3. /\ freq \in Int /\ nodeNo \in Int /\ prime \in Int /\ rate \in Int
      /\ power \in Int /\ mode \in Int /\ own \in Addresses
  <2>1. "ckl" \in Devices /\ 1000 \in Int
    BY DEF Devices
  <2>. HIDE DEF type, size
  <2>. QED  BY <1>1, <2>1, Getting
<1>. HIDE DEF own, type, size, freq, nodeNo, prime, rate, power, mode
<1>4. Blank \in [Window -> Byte] /\ (\A o \in Window : Blank[o] = 0) /\ Low(4) = 4
  <2>1. 0 \in Byte
    BY ByteSmall DEF Small
  <2>2. Low(4) = 4
    BY SMT DEF Low
  <2>. QED  BY <2>1, <2>2 DEF Blank
<1>5. /\ Window \in SUBSET Int
      /\ \A o \in {8, 8 + 1, 8 + 2, 8 + 3, 17, 18, 19, 23, 23 + 1, 23 + 2, 23 + 3,
                   28, 29, 32, 32 + 1, 35} : o \in Window
  BY WindowIs
<1>6. /\ node \in [Window -> Byte]
      /\ node[17] = Low(nodeNo) /\ node[18] = 4 /\ node[19] = Low(prime)
      /\ node[28] = Low(rate) /\ node[29] = Low(power) /\ node[35] = Low(mode)
      /\ \A o \in Window \ {17, 18, 19, 28, 29, 35} : node[o] = 0
  <2>1. /\ Low(nodeNo) \in Byte /\ Low(prime) \in Byte /\ Low(rate) \in Byte
        /\ Low(power) \in Byte /\ Low(mode) \in Byte /\ Low(4) \in Byte
    BY <1>1, <1>3, BytesAre
  <2>. QED  BY <1>1, <1>4, <1>5, <2>1
<1>. HIDE DEF node
<1>7. /\ opt \in [Window -> Byte]
      /\ opt[8] = 1 /\ opt[9] = 0 /\ opt[10] = 0 /\ opt[11] = 0
      /\ \A o \in Window \ {8, 9, 10, 11} : opt[o] = node[o]
  <2>1. Low(1) = 1 /\ High(1) = 0 /\ Upper(1) = 0 /\ Low(0) = 0 /\ High(0) = 0
    BY SMT DEF Low, High, Upper
  <2>2. /\ opt \in [Window -> Byte]
        /\ opt[8] = Low(1) /\ opt[8 + 1] = High(1)
        /\ opt[8 + 2] = Low(Upper(1)) /\ opt[8 + 3] = High(Upper(1))
        /\ \A o \in Window \ {8, 8 + 1, 8 + 2, 8 + 3} : opt[o] = node[o]
    BY <1>1, <1>5, <1>6, PutLE4Is
  <2>. HIDE DEF opt
  <2>. QED  BY <2>1, <2>2
<1>. HIDE DEF opt
<1>8. /\ tuned \in [Window -> Byte]
      /\ tuned[32] = Low(freq) /\ tuned[33] = High(freq)
      /\ \A o \in Window \ {32, 33} : tuned[o] = opt[o]
  <2>1. /\ tuned \in [Window -> Byte]
        /\ tuned[32] = Low(freq) /\ tuned[32 + 1] = High(freq)
        /\ \A o \in Window \ {32, 32 + 1} : tuned[o] = opt[o]
    BY <1>3, <1>5, <1>7, PutLE2Is
  <2>. HIDE DEF tuned
  <2>. QED  BY <2>1
<1>. HIDE DEF tuned
<1>9. /\ new \in [Window -> Byte]
      /\ new[23] = own[1] /\ new[24] = own[2] /\ new[25] = own[3] /\ new[26] = own[4]
      /\ \A o \in Window \ {23, 24, 25, 26} : new[o] = tuned[o]
  <2>1. /\ new \in [Window -> Byte]
        /\ new[23] = own[1] /\ new[23 + 1] = own[2]
        /\ new[23 + 2] = own[3] /\ new[23 + 3] = own[4]
        /\ \A o \in Window \ {23, 23 + 1, 23 + 2, 23 + 3} : new[o] = tuned[o]
    BY <1>3, <1>5, <1>8, PutIpIs
  <2>. HIDE DEF new
  <2>. QED  BY <2>1
<1>. HIDE DEF new
<1>10. /\ new[17] = Low(nodeNo) /\ new[19] = Low(prime) /\ new[28] = Low(rate)
       /\ new[29] = Low(power) /\ new[35] = Low(mode)
       /\ new[32] = Low(freq) /\ new[33] = High(freq)
  BY <1>5, <1>6, <1>7, <1>8, <1>9
<1>11. ASSUME NEW o \in Window \ Free("ckl") PROVE new[o] = Plain("ckl", o)
  BY <1>5, <1>6, <1>7, <1>8, <1>9 DEF Free, Plain
<1>. QED
  BY <1>1, <1>2, <1>9, <1>10, <1>11 DEF freq, nodeNo, prime, rate, power, mode

(* The block a file stands for: its plain bytes, address and frequency, and *)
(* each of the other parameters.                                           *)
ChannelBlock(dev, cfg, new, own, freq) ==
  /\ new \in [Window -> Byte]
  /\ \A o \in Window \ Free(dev) : new[o] = Plain(dev, o)
  /\ new[24] = Low(Get(cfg, "radioPower", 1))
  /\ new[32] = Low(Get(cfg, "superiorNetNo", 0))
  /\ new[33] = Low(Get(cfg, "nodeNum", 1))
  /\ new[43] = Low(Get(cfg, "currentChannelNo", 0))
  /\ new[44] = new[43]
  /\ new[45] = Low(Get(cfg, "freqType", 1))
  /\ new[54] = Low(Get(cfg, "userRate", 1))
  /\ new[55] = Low(Get(cfg, "hostPrime", 0))
  /\ new[46] = Low(freq) /\ new[47] = High(freq)
  /\ new[48] = Low(Upper(freq)) /\ new[49] = High(Upper(freq))
  /\ new[20] = own[1] /\ new[21] = own[2]
  /\ new[22] = own[3] /\ new[23] = own[4]
  /\ Exact(freq)

(* The block default_xtl_param and default_zzw_param build. *)
LEMMA ChannelDefaultBytes ==
  ASSUME NEW dev \in {"xtl", "zzw"}, NEW cfg, FitConfig(dev, cfg), NEW ip \in Addresses
  PROVE  ChannelBlock(dev, cfg, DefaultXtl(cfg, ip), Get(cfg, "businessIp", ip),
                      Float32(Get(cfg, "freq", InitialFreq), TRUE))
<1> DEFINE own == Get(cfg, "businessIp", Get(cfg, "ipAddr", ip))
           here == Get(cfg, "currentChannelNo", 0)
           channel == Get(cfg, "channelNo", here)
           wanted == Get(cfg, "freq", InitialFreq)
           power == Get(cfg, "radioPower", 1)
           net == Get(cfg, "superiorNetNo", 0)
           num == Get(cfg, "nodeNum", 1)
           type == Get(cfg, "freqType", 1)
           rate == Get(cfg, "userRate", 1)
           prime == Get(cfg, "hostPrime", Get(cfg, "radioPrime", 0))
           node == [Blank EXCEPT ![8] = 1, ![24] = Low(power), ![32] = Low(net),
                      ![33] = Low(num), ![43] = Low(here), ![44] = Low(channel),
                      ![45] = Low(type), ![54] = Low(rate), ![55] = Low(prime)]
           freq == Float32(wanted, TRUE)
           tuned == PutLE4(node, 46, freq)
           new == PutIp(tuned, 20, own)
<1>1. /\ channel = here /\ prime = Get(cfg, "hostPrime", 0)
      /\ own = Get(cfg, "businessIp", ip)
  <2>1. dev \in Devices
    BY DEF Devices
  <2>2. {"channelNo", "radioPrime", "ipAddr"} \cap DaemonKeys(dev) = {}
    BY DEF DaemonKeys, DaemonRange, XtlRange, ZzwRange
  <2>. QED  BY <2>1, <2>2, Getting
<1>2. DefaultXtl(cfg, ip) = new
  BY DEF DefaultXtl
<1>3. /\ power \in Int /\ net \in Int /\ num \in Int /\ here \in Int
      /\ channel \in Int
      /\ type \in Int /\ rate \in Int /\ prime \in Int /\ own \in Addresses
  <2>1. dev \in Devices
    BY DEF Devices
  <2>. HIDE DEF channel, prime, own
  <2>. QED  BY <1>1, <2>1, Getting
<1>4. dev = "zzw" => here = 0
  <2>1. CASE dev = "zzw"
    <3>1. "currentChannelNo" \notin DaemonKeys(dev)
      BY <2>1 DEF DaemonKeys, DaemonRange, ZzwRange
    <3>. QED  BY <2>1, <3>1, Getting DEF Devices
  <2>. QED  BY <2>1
<1>5. dev = "xtl" => net = 0
  <2>1. CASE dev = "xtl"
    <3>1. "superiorNetNo" \notin DaemonKeys(dev)
      BY <2>1 DEF DaemonKeys, DaemonRange, XtlRange
    <3>. QED  BY <2>1, <3>1, Getting DEF Devices
  <2>. QED  BY <2>1
<1>6. Exact(freq) /\ freq \in Int
  <2>1. wanted \in Int /\ 0 <= wanted /\ wanted <= MaxFreq
    <3>1. InitialFreq \in Int /\ 0 <= InitialFreq /\ InitialFreq <= MaxFreq
      BY SMT DEF InitialFreq, MaxFreq
    <3>2. "freq" \in DOMAIN cfg => Fits("freq", cfg["freq"])
      BY DEF FitConfig
    <3>. QED  BY <3>1, <3>2 DEF Get, Fits
  <2>. HIDE DEF wanted
  <2>2. Exact(freq)
    BY <2>1, Rounded
  <2>. HIDE DEF freq
  <2>3. freq \in Int
    BY SMT, <2>2 DEF Exact
  <2>. QED  BY <2>2, <2>3
<1>. HIDE DEF own, wanted, freq, here, channel, power, net, num, type, rate, prime
<1>7. Blank \in [Window -> Byte] /\ (\A o \in Window : Blank[o] = 0) /\ 1 \in Byte
  <2>1. 0 \in Byte /\ 1 \in Byte
    BY ByteSmall DEF Small
  <2>. QED  BY <2>1 DEF Blank
<1>8. /\ Window \in SUBSET Int
      /\ \A o \in {8, 20, 20 + 1, 20 + 2, 20 + 3, 24, 32, 33, 43, 44, 45, 46, 46 + 1,
                   46 + 2, 46 + 3, 54, 55} : o \in Window
  BY WindowIs
<1>9. /\ node \in [Window -> Byte]
      /\ node[8] = 1 /\ node[24] = Low(power) /\ node[32] = Low(net)
      /\ node[33] = Low(num) /\ node[43] = Low(here) /\ node[44] = Low(here)
      /\ node[45] = Low(type) /\ node[54] = Low(rate) /\ node[55] = Low(prime)
      /\ \A o \in Window \ {8, 24, 32, 33, 43, 44, 45, 54, 55} : node[o] = 0
  <2>1. /\ Low(power) \in Byte /\ Low(net) \in Byte /\ Low(num) \in Byte
        /\ Low(here) \in Byte /\ Low(channel) \in Byte /\ Low(type) \in Byte
        /\ Low(rate) \in Byte /\ Low(prime) \in Byte
    BY <1>3, BytesAre
  <2>2. node \in [Window -> Byte]
    BY <1>7, <1>8, <2>1
  <2>3. /\ node[8] = 1 /\ node[24] = Low(power) /\ node[32] = Low(net)
        /\ node[33] = Low(num) /\ node[43] = Low(here) /\ node[44] = Low(channel)
    BY <1>7, <1>8
  <2>4. node[45] = Low(type) /\ node[54] = Low(rate) /\ node[55] = Low(prime)
    BY <1>7, <1>8
  <2>5. \A o \in Window \ {8, 24, 32, 33, 43, 44, 45, 54, 55} : node[o] = 0
    BY <1>7, <1>8
  <2>. HIDE DEF node
  <2>. QED  BY <1>1, <2>2, <2>3, <2>4, <2>5
<1>. HIDE DEF node
<1>10. /\ tuned \in [Window -> Byte]
       /\ tuned[46] = Low(freq) /\ tuned[47] = High(freq)
       /\ tuned[48] = Low(Upper(freq)) /\ tuned[49] = High(Upper(freq))
       /\ \A o \in Window \ {46, 47, 48, 49} : tuned[o] = node[o]
  <2>1. /\ tuned \in [Window -> Byte]
        /\ tuned[46] = Low(freq) /\ tuned[46 + 1] = High(freq)
        /\ tuned[46 + 2] = Low(Upper(freq)) /\ tuned[46 + 3] = High(Upper(freq))
        /\ \A o \in Window \ {46, 46 + 1, 46 + 2, 46 + 3} : tuned[o] = node[o]
    BY <1>6, <1>8, <1>9, PutLE4Is
  <2>. HIDE DEF tuned
  <2>. QED  BY <2>1
<1>. HIDE DEF tuned
<1>11. /\ new \in [Window -> Byte]
       /\ new[20] = own[1] /\ new[21] = own[2] /\ new[22] = own[3]
       /\ new[23] = own[4]
       /\ \A o \in Window \ {20, 21, 22, 23} : new[o] = tuned[o]
  <2>1. /\ new \in [Window -> Byte]
        /\ new[20] = own[1] /\ new[20 + 1] = own[2]
        /\ new[20 + 2] = own[3] /\ new[20 + 3] = own[4]
        /\ \A o \in Window \ {20, 20 + 1, 20 + 2, 20 + 3} : new[o] = tuned[o]
    BY <1>3, <1>8, <1>10, PutIpIs
  <2>. HIDE DEF new
  <2>. QED  BY <2>1
<1>. HIDE DEF new
<1>12. /\ new[24] = Low(power) /\ new[32] = Low(net) /\ new[33] = Low(num)
       /\ new[43] = Low(here) /\ new[44] = Low(here) /\ new[45] = Low(type)
       /\ new[54] = Low(rate) /\ new[55] = Low(prime)
  BY <1>8, <1>9, <1>10, <1>11
<1>13. /\ new[46] = Low(freq) /\ new[47] = High(freq)
       /\ new[48] = Low(Upper(freq)) /\ new[49] = High(Upper(freq))
  BY <1>8, <1>10, <1>11
<1>14. \A o \in Window \ Free(dev) : new[o] = Plain(dev, o)
  <2>1. Low(0) = 0
    BY SMT DEF Low
  <2>2. \A o \in Window \ {8, 20, 21, 22, 23, 24, 32, 33, 43, 44, 45, 46, 47, 48, 49,
                           54, 55} : new[o] = 0
    BY <1>9, <1>10, <1>11
  <2>3. new[8] = 1
    BY <1>8, <1>9, <1>10, <1>11
  <2>4. CASE dev = "xtl"
    BY <1>5, <1>12, <2>1, <2>2, <2>3, <2>4 DEF Free, Plain
  <2>5. CASE dev = "zzw"
    BY <1>4, <1>12, <2>1, <2>2, <2>3, <2>5 DEF Free, Plain
  <2>. QED  BY <2>4, <2>5
<1>. QED
  BY <1>1, <1>2, <1>6, <1>11, <1>12, <1>13, <1>14
     DEF freq, wanted, here, power, net, num, type, rate, ChannelBlock

(* A byte is its own low byte. *)
LEMMA LowOfByte ==
  ASSUME NEW b \in Byte
  PROVE  b \in Int /\ Low(b) = b
<1>1. Small(b)
  BY ByteSmall
<1>. QED  BY SMT, <1>1 DEF Small, Low

(* Packing a value that a float32 holds does not change it. *)
LEMMA ExactKept ==
  ASSUME NEW v, Exact(v), NEW up \in BOOLEAN
  PROVE  Float32(v, up) = v /\ Fits("freq", v)
<1>1. v \in Int /\ 0 <= v /\ v <= 2147483647 /\ v % Unit(v) = 0
  BY SMT DEF Exact
<1>2. /\ Unit(v) \in Units
      /\ v < 16777216 * Unit(v)
      /\ Unit(v) = 1 \/ v >= 8388608 * Unit(v)
  BY SMT, <1>1, UnitOf
<1>3. Float32(v, up) = v
  BY SMT, <1>1, <1>2 DEF Float32, Units
<1>4. v <= 2147483520
  BY SMT, <1>1, <1>2 DEF Units
<1>5. v <= MaxFreq
  BY SMT, <1>4 DEF MaxFreq
<1>. QED  BY <1>1, <1>3, <1>5 DEF Fits

(* An address is read as its four bytes. *)
LEMMA IpRead ==
  ASSUME NEW buf \in [Window -> Byte], NEW off \in Window, off + 1 \in Window,
         off + 2 \in Window, off + 3 \in Window
  PROVE  /\ GetIp(buf, off) \in Addresses
         /\ GetIp(buf, off)[1] = buf[off]
         /\ GetIp(buf, off)[2] = buf[off + 1]
         /\ GetIp(buf, off)[3] = buf[off + 2]
         /\ GetIp(buf, off)[4] = buf[off + 3]
<1>1. off \in Int
  BY WindowIs
<1>2. /\ off + 1 - 1 = off /\ off + 2 - 1 = off + 1 /\ off + 3 - 1 = off + 2
      /\ off + 4 - 1 = off + 3
  BY <1>1
<1>3. /\ GetIp(buf, off)[1] = buf[off]
      /\ GetIp(buf, off)[2] = buf[off + 1]
      /\ GetIp(buf, off)[3] = buf[off + 2]
      /\ GetIp(buf, off)[4] = buf[off + 3]
  BY <1>2 DEF GetIp
<1>4. \A k \in 1 .. 4 : k = 1 \/ k = 2 \/ k = 3 \/ k = 4
  OBVIOUS
<1>5. \A k \in 1 .. 4 : GetIp(buf, off)[k] \in Byte
  BY <1>3, <1>4
<1>6. GetIp(buf, off) = [k \in 1 .. 4 |-> GetIp(buf, off)[k]]
  BY DEF GetIp
<1>. QED  BY <1>3, <1>5, <1>6 DEF Addresses

(* Two blocks of one shape with the same parameters are the same. *)
LEMMA SameBlock ==
  ASSUME NEW dev, NEW a \in [Window -> Byte], NEW b \in [Window -> Byte],
         \A o \in Window \ Free(dev) : a[o] = Plain(dev, o),
         \A o \in Window \ Free(dev) : b[o] = Plain(dev, o),
         \A o \in Free(dev) : a[o] = b[o]
  PROVE  a = b
<1>1. \A o \in Window : a[o] = b[o]
  OBVIOUS
<1>. QED  BY <1>1

(* The file of a block builds that block again: the CKL radio ... *)
LEMMA CklRestored ==
  ASSUME NEW buf, Shape("ckl", buf), NEW ip \in Addresses
  PROVE  /\ FitConfig("ckl", Synced("ckl", buf))
         /\ Default("ckl", Synced("ckl", buf), ip) = buf
<1> DEFINE cfg == [nodeNo |-> buf[17], businessIp |-> GetIp(buf, 23),
                   radioFreq |-> GetLE2(buf, 32), radioPower |-> buf[29],
                   workFreqMode |-> buf[35], radioRate |-> buf[28],
                   hostPrime |-> buf[19]]
           new == DefaultCkl(cfg, ip)
<1>1. Synced("ckl", buf) = cfg
  BY DEF Synced, SyncCkl, Parse, ParseCkl
<1>2. \A o \in Free("ckl") \cup {24, 25, 26, 33} : o \in Window
  BY WindowIs DEF Free
<1>3. buf \in [Window -> Byte]
  BY DEF Shape
<1>4. /\ GetLE2(buf, 32) \in Int
      /\ Low(GetLE2(buf, 32)) = buf[32] /\ High(GetLE2(buf, 32)) = buf[33]
  <2>1. buf[32] \in Byte /\ buf[33] \in Byte
    BY <1>2, <1>3 DEF Free
  <2>2. GetLE2(buf, 32) = buf[32] + 256 * buf[33]
    BY DEF GetLE2
  <2>. QED  BY <2>1, <2>2, BytesOf2
<1>5. /\ GetIp(buf, 23) \in Addresses
      /\ GetIp(buf, 23)[1] = buf[23] /\ GetIp(buf, 23)[2] = buf[24]
      /\ GetIp(buf, 23)[3] = buf[25] /\ GetIp(buf, 23)[4] = buf[26]
  <2>1. /\ 23 \in Window /\ 23 + 1 \in Window /\ 23 + 2 \in Window
        /\ 23 + 3 \in Window
    BY WindowIs
  <2>. QED  BY <1>3, <2>1, IpRead
<1>6. \A o \in {17, 19, 28, 29, 35} : buf[o] \in Int /\ Low(buf[o]) = buf[o]
  BY <1>2, <1>3, LowOfByte DEF Free
<1>7. FitConfig("ckl", cfg)
  <2>1. DOMAIN cfg \subseteq DaemonKeys("ckl")
    BY DEF DaemonKeys, DaemonRange, CklRange
  <2>2. \A key \in DOMAIN cfg : Fits(key, cfg[key])
    BY <1>4, <1>5, <1>6 DEF Fits
  <2>. QED  BY <2>1, <2>2 DEF FitConfig
<1>8. /\ Get(cfg, "nodeNo", 1) = buf[17] /\ Get(cfg, "hostPrime", 0) = buf[19]
      /\ Get(cfg, "radioRate", 1) = buf[28] /\ Get(cfg, "radioPower", 1) = buf[29]
      /\ Get(cfg, "workFreqMode", 1) = buf[35]
      /\ Get(cfg, "radioFreq", 1000) = GetLE2(buf, 32)
      /\ Get(cfg, "businessIp", ip) = GetIp(buf, 23)
  BY DEF Get
<1>. HIDE DEF cfg
<1>9. /\ new \in [Window -> Byte]
      /\ \A o \in Window \ Free("ckl") : new[o] = Plain("ckl", o)
      /\ new[17] = Low(buf[17]) /\ new[19] = Low(buf[19]) /\ new[28] = Low(buf[28])
      /\ new[29] = Low(buf[29]) /\ new[35] = Low(buf[35])
      /\ new[32] = Low(GetLE2(buf, 32)) /\ new[33] = High(GetLE2(buf, 32))
      /\ new[23] = GetIp(buf, 23)[1] /\ new[24] = GetIp(buf, 23)[2]
      /\ new[25] = GetIp(buf, 23)[3] /\ new[26] = GetIp(buf, 23)[4]
  BY <1>7, <1>8, CklDefaultBytes
<1>. HIDE DEF new
<1>10. \A o \in Free("ckl") : new[o] = buf[o]
  BY <1>4, <1>5, <1>6, <1>9 DEF Free
<1>11. new = buf
  <2>1. \A o \in Window \ Free("ckl") : buf[o] = Plain("ckl", o)
    BY DEF Shape
  <2>. QED  BY <1>3, <1>9, <1>10, <2>1, SameBlock
<1>. QED  BY <1>1, <1>7, <1>11 DEF Default, new

(* A frequency in a block, taken apart, is its four bytes. *)
LEMMA FreqRead ==
  ASSUME NEW buf \in [Window -> Byte], Exact(GetLE4(buf, 46))
  PROVE  LET freq == GetLE4(buf, 46)
         IN  /\ Low(freq) = buf[46] /\ High(freq) = buf[47]
             /\ Low(Upper(freq)) = buf[48] /\ High(Upper(freq)) = buf[49]
             /\ Float32(freq, TRUE) = freq /\ Fits("freq", freq)
<1> DEFINE freq == GetLE4(buf, 46)
           p == buf[46] + 256 * buf[47]
           q == buf[48] + 256 * buf[49]
<1>1. freq = p + 65536 * q
  BY DEF GetLE4, GetLE2
<1>2. /\ p \in Int /\ 0 <= p /\ p <= 65535
      /\ Low(p) = buf[46] /\ High(p) = buf[47]
      /\ q \in Int /\ 0 <= q /\ q <= 65535
      /\ Low(q) = buf[48] /\ High(q) = buf[49]
  <2>1. buf[46] \in Byte /\ buf[47] \in Byte /\ buf[48] \in Byte /\ buf[49] \in Byte
    BY WindowIs
  <2>. QED  BY <2>1, BytesOf2
<1>. HIDE DEF p, q
<1>3. /\ Low(p + 65536 * q) = Low(p) /\ High(p + 65536 * q) = High(p)
      /\ Upper(p + 65536 * q) = q
  BY <1>2, BytesOf4
<1>4. Float32(freq, TRUE) = freq /\ Fits("freq", freq)
  BY ExactKept
<1>5. /\ Low(freq) = buf[46] /\ High(freq) = buf[47]
      /\ Low(Upper(freq)) = buf[48] /\ High(Upper(freq)) = buf[49]
  <2>. HIDE DEF freq
  <2>. QED  BY <1>1, <1>2, <1>3
<1>. QED  BY <1>4, <1>5

(* ... and the default block of the two radios that have a channel. *)
LEMMA ChannelRestored ==
  ASSUME NEW dev \in {"xtl", "zzw"}, NEW buf, Shape(dev, buf), NEW ip \in Addresses
  PROVE  /\ FitConfig(dev, Synced(dev, buf))
         /\ Default(dev, Synced(dev, buf), ip) = buf
<1> DEFINE cfg == Synced(dev, buf)
           new == DefaultXtl(cfg, ip)
<1>1. /\ DOMAIN cfg = DaemonKeys(dev)
      /\ cfg["nodeNum"] = buf[33] /\ cfg["radioPower"] = buf[24]
      /\ cfg["freqType"] = buf[45] /\ cfg["userRate"] = buf[54]
      /\ cfg["hostPrime"] = buf[55]
      /\ cfg["freq"] = GetLE4(buf, 46)
      /\ cfg["businessIp"] = GetIp(buf, 20)
      /\ dev = "xtl" => cfg["currentChannelNo"] = buf[43]
      /\ dev = "zzw" => cfg["superiorNetNo"] = buf[32]
  <2>1. CASE dev = "xtl"
    <3>1. cfg = [nodeNum |-> buf[33], businessIp |-> GetIp(buf, 20),
                 radioPower |-> buf[24], freqType |-> buf[45],
                 freq |-> GetLE4(buf, 46), userRate |-> buf[54],
                 currentChannelNo |-> buf[43], hostPrime |-> buf[55]]
      BY <2>1 DEF Synced, SyncXtl, Parse, ParseXtl, ParseChannel
    <3>. HIDE DEF cfg
    <3>. QED  BY <2>1, <3>1 DEF DaemonKeys, DaemonRange, XtlRange
  <2>2. CASE dev = "zzw"
    <3>1. cfg = [nodeNum |-> buf[33], businessIp |-> GetIp(buf, 20),
                 radioPower |-> buf[24], freqType |-> buf[45],
                 freq |-> GetLE4(buf, 46), userRate |-> buf[54],
                 superiorNetNo |-> buf[32], hostPrime |-> buf[55]]
      BY <2>2 DEF Synced, SyncZzw, Parse, ParseZzw, ParseChannel
    <3>. HIDE DEF cfg
    <3>. QED  BY <2>2, <3>1 DEF DaemonKeys, DaemonRange, ZzwRange
  <2>. QED  BY <2>1, <2>2
<1>. HIDE DEF cfg
<1>2. \A o \in Free(dev) \cup {32, 43, 44} : o \in Window
  BY WindowIs DEF Free
<1>3. buf \in [Window -> Byte] /\ Exact(GetLE4(buf, 46))
  BY DEF Shape
<1>4. /\ Low(GetLE4(buf, 46)) = buf[46] /\ High(GetLE4(buf, 46)) = buf[47]
      /\ Low(Upper(GetLE4(buf, 46))) = buf[48]
      /\ High(Upper(GetLE4(buf, 46))) = buf[49]
      /\ Float32(GetLE4(buf, 46), TRUE) = GetLE4(buf, 46)
      /\ Fits("freq", GetLE4(buf, 46))
  BY <1>3, FreqRead
<1>5. /\ GetIp(buf, 20) \in Addresses
      /\ GetIp(buf, 20)[1] = buf[20] /\ GetIp(buf, 20)[2] = buf[21]
      /\ GetIp(buf, 20)[3] = buf[22] /\ GetIp(buf, 20)[4] = buf[23]
  <2>1. /\ 20 \in Window /\ 20 + 1 \in Window /\ 20 + 2 \in Window
        /\ 20 + 3 \in Window
    BY WindowIs
  <2>. QED  BY <1>3, <2>1, IpRead
<1>6. \A o \in {24, 32, 33, 43, 44, 45, 54, 55} :
        buf[o] \in Int /\ Low(buf[o]) = buf[o]
  BY <1>2, <1>3, LowOfByte DEF Free
<1>7. FitConfig(dev, cfg)
  <2>1. \A key \in DaemonKeys(dev) : Fits(key, cfg[key])
    <3>1. CASE dev = "xtl"
      BY <1>1, <1>4, <1>5, <1>6, <3>1
         DEF Fits, DaemonKeys, DaemonRange, XtlRange
    <3>2. CASE dev = "zzw"
      BY <1>1, <1>4, <1>5, <1>6, <3>2
         DEF Fits, DaemonKeys, DaemonRange, ZzwRange
    <3>. QED  BY <3>1, <3>2
  <2>. QED  BY <1>1, <2>1 DEF FitConfig
<1>8. /\ Get(cfg, "nodeNum", 1) = buf[33] /\ Get(cfg, "radioPower", 1) = buf[24]
      /\ Get(cfg, "freqType", 1) = buf[45] /\ Get(cfg, "userRate", 1) = buf[54]
      /\ Get(cfg, "hostPrime", 0) = buf[55]
      /\ Get(cfg, "freq", InitialFreq) = GetLE4(buf, 46)
      /\ Get(cfg, "businessIp", ip) = GetIp(buf, 20)
      /\ dev = "xtl" => Get(cfg, "currentChannelNo", 0) = buf[43]
      /\ dev = "zzw" => Get(cfg, "superiorNetNo", 0) = buf[32]
  <2>1. /\ {"nodeNum", "radioPower", "freqType", "userRate", "hostPrime", "freq",
            "businessIp"} \subseteq DaemonKeys(dev)
        /\ dev = "xtl" => "currentChannelNo" \in DaemonKeys(dev)
        /\ dev = "zzw" => "superiorNetNo" \in DaemonKeys(dev)
    BY DEF DaemonKeys, DaemonRange, XtlRange, ZzwRange
  <2>. QED  BY <1>1, <2>1 DEF Get
<1>9. /\ new \in [Window -> Byte]
      /\ \A o \in Window \ Free(dev) : new[o] = Plain(dev, o)
      /\ new[24] = Low(buf[24]) /\ new[33] = Low(buf[33]) /\ new[45] = Low(buf[45])
      /\ new[54] = Low(buf[54]) /\ new[55] = Low(buf[55])
      /\ new[44] = new[43]
      /\ dev = "xtl" => new[43] = Low(buf[43])
      /\ dev = "zzw" => new[32] = Low(buf[32])
      /\ new[46] = buf[46] /\ new[47] = buf[47]
      /\ new[48] = buf[48] /\ new[49] = buf[49]
      /\ new[20] = buf[20] /\ new[21] = buf[21]
      /\ new[22] = buf[22] /\ new[23] = buf[23]
  <2> DEFINE own == Get(cfg, "businessIp", ip)
             freq == Float32(Get(cfg, "freq", InitialFreq), TRUE)
  <2>1. ChannelBlock(dev, cfg, new, own, freq)
    BY <1>7, ChannelDefaultBytes
  <2>2. freq = GetLE4(buf, 46) /\ own = GetIp(buf, 20)
    BY <1>4, <1>8
  <2>. HIDE DEF new, freq, own
  <2>. QED  BY <1>4, <1>5, <1>8, <2>1, <2>2 DEF ChannelBlock
<1>. HIDE DEF new
<1>10. \A o \in Free(dev) : new[o] = buf[o]
  <2>1. dev = "xtl" => buf[44] = buf[43]
    BY DEF Shape
  <2>2. CASE dev = "xtl"
    BY <1>6, <1>9, <2>1, <2>2 DEF Free
  <2>3. CASE dev = "zzw"
    BY <1>6, <1>9, <2>3 DEF Free
  <2>. QED  BY <2>2, <2>3
<1>11. new = buf
  <2>1. \A o \in Window \ Free(dev) : buf[o] = Plain(dev, o)
    BY DEF Shape
  <2>. QED  BY <1>3, <1>9, <1>10, <2>1, SameBlock
<1>. QED  BY <1>7, <1>11 DEF Default, DefaultZzw, cfg, new

(* Any fitting file builds a block that has the shape. *)
LEMMA DefaultShaped ==
  ASSUME NEW dev \in Devices, NEW cfg, FitConfig(dev, cfg), NEW ip \in Addresses
  PROVE  Shape(dev, Default(dev, cfg, ip))
<1>1. CASE dev = "ckl"
  BY <1>1, CklDefaultBytes DEF Default, Shape
<1>2. CASE dev \in {"xtl", "zzw"}
  <2> DEFINE new == DefaultXtl(cfg, ip)
             freq == Float32(Get(cfg, "freq", InitialFreq), TRUE)
             own == Get(cfg, "businessIp", ip)
  <2>1. ChannelBlock(dev, cfg, new, own, freq)
    BY <1>2, ChannelDefaultBytes
  <2>2. Default(dev, cfg, ip) = new
    BY <1>2 DEF Default, DefaultZzw
  <2>. HIDE DEF new, freq, own
  <2>3. GetLE4(new, 46) = freq /\ Exact(freq)
    <3>1. Exact(freq)
      BY <2>1 DEF ChannelBlock
    <3>2. freq \in Int /\ 0 <= freq /\ freq <= 2147483647
      BY SMT, <3>1 DEF Exact
    <3>3. (Low(freq) + 256 * High(freq))
            + 65536 * (Low(Upper(freq)) + 256 * High(Upper(freq))) = freq
      BY <3>2, FourBytes
    <3>4. GetLE4(new, 46) = (Low(freq) + 256 * High(freq))
            + 65536 * (Low(Upper(freq)) + 256 * High(Upper(freq)))
      BY <2>1 DEF ChannelBlock, GetLE4, GetLE2
    <3>. QED  BY <3>1, <3>3, <3>4
  <2>4. Shape(dev, new)
    BY <2>1, <2>3 DEF Shape, ChannelBlock
  <2>. QED  BY <2>2, <2>4
<1>. QED  BY <1>1, <1>2 DEF Devices

(* A record that is applied is what the block reports, with the address of *)
(* the requester, and the shape is kept: the CKL radio ...                 *)
LEMMA CklApplied ==
  ASSUME NEW buf, Shape("ckl", buf), NEW rec \in [0 .. 8 -> Byte], NEW ip \in Addresses
  PROVE  LET p   == ParseCklShort(rec)
             new == ApplyCkl(buf, p, ip)
         IN  /\ Shape("ckl", new)
             /\ \A f \in Fields("ckl") : Reported("ckl", new)[f] = p[f]
             /\ Reported("ckl", new)["businessIp"] = ip
<1> DEFINE p == ParseCklShort(rec)
           freq == GetBE2(rec, 3)
           node == [buf EXCEPT ![17] = rec[2], ![19] = rec[8], ![28] = rec[7],
                               ![29] = rec[5], ![35] = rec[6]]
           tuned == PutLE2(node, 32, freq)
           new == PutIp(tuned, 23, ip)
<1>1. ApplyCkl(buf, p, ip) = new
  BY DEF ApplyCkl, ParseCklShort
<1>2. \A o \in 0 .. 8 : rec[o] \in Byte
  OBVIOUS
<1>3. /\ freq \in Int /\ Low(freq) = rec[4] /\ High(freq) = rec[3]
      /\ rec[4] + 256 * rec[3] = freq
  <2>1. rec[3] \in Byte /\ rec[4] \in Byte
    OBVIOUS
  <2>2. rec[3] \in Int /\ rec[4] \in Int
    BY <2>1, LowOfByte
  <2>3. freq = rec[4] + 256 * rec[3]
    BY <2>2 DEF GetBE2
  <2>. HIDE DEF freq
  <2>. QED  BY <2>1, <2>3, BytesOf2
<1>. HIDE DEF freq
<1>4. /\ buf \in [Window -> Byte]
      /\ \A o \in Window \ Free("ckl") : buf[o] = Plain("ckl", o)
  BY DEF Shape
<1>5. /\ Window \in SUBSET Int
      /\ \A o \in {17, 19, 23, 23 + 1, 23 + 2, 23 + 3, 28, 29, 32, 32 + 1, 35} :
           o \in Window
  BY WindowIs
<1>6. /\ node \in [Window -> Byte]
      /\ node[17] = rec[2] /\ node[19] = rec[8] /\ node[28] = rec[7]
      /\ node[29] = rec[5] /\ node[35] = rec[6]
      /\ \A o \in Window \ {17, 19, 28, 29, 35} : node[o] = buf[o]
  <2>1. /\ rec[2] \in Byte /\ rec[8] \in Byte /\ rec[7] \in Byte
        /\ rec[5] \in Byte /\ rec[6] \in Byte
    OBVIOUS
  <2>. QED  BY <1>4, <1>5, <2>1
<1>. HIDE DEF node
<1>7. /\ tuned \in [Window -> Byte]
      /\ tuned[32] = rec[4] /\ tuned[33] = rec[3]
      /\ \A o \in Window \ {32, 33} : tuned[o] = node[o]
  <2>1. /\ tuned \in [Window -> Byte]
        /\ tuned[32] = Low(freq) /\ tuned[32 + 1] = High(freq)
        /\ \A o \in Window \ {32, 32 + 1} : tuned[o] = node[o]
    BY <1>3, <1>5, <1>6, PutLE2Is
  <2>. HIDE DEF tuned
  <2>. QED  BY <1>3, <2>1
<1>. HIDE DEF tuned
<1>8. /\ new \in [Window -> Byte] /\ GetIp(new, 23) = ip
      /\ \A o \in Window \ {23, 24, 25, 26} : new[o] = tuned[o]
  <2>1. /\ new \in [Window -> Byte] /\ GetIp(new, 23) = ip
        /\ \A o \in Window \ {23, 23 + 1, 23 + 2, 23 + 3} : new[o] = tuned[o]
    BY <1>5, <1>7, PutIpIs
  <2>. HIDE DEF new
  <2>. QED  BY <2>1
<1>. HIDE DEF new
<1>9. /\ new[17] = rec[2] /\ new[19] = rec[8] /\ new[28] = rec[7]
      /\ new[29] = rec[5] /\ new[35] = rec[6]
      /\ new[32] = rec[4] /\ new[33] = rec[3]
  BY <1>5, <1>6, <1>7, <1>8
<1>10. Shape("ckl", new)
  <2>1. \A o \in Window \ Free("ckl") : new[o] = buf[o]
    BY <1>6, <1>7, <1>8 DEF Free
  <2>. QED  BY <1>4, <1>8, <2>1 DEF Shape
<1>11. GetLE2(new, 32) = freq
  BY <1>3, <1>9 DEF GetLE2
<1>12. Reported("ckl", new) =
         [nodeNo |-> new[17], radioFreq |-> GetLE2(new, 32),
          radioPower |-> new[29], workFreqMode |-> new[35],
          radioRate |-> new[28], hostPrime |-> new[19],
          businessIp |-> GetIp(new, 23)]
  BY DEF Reported, Parse, ParseCkl
<1>13. \A f \in Fields("ckl") : Reported("ckl", new)[f] = p[f]
  BY <1>9, <1>11, <1>12 DEF Fields, ParseCklShort, freq
<1>. QED  BY <1>1, <1>8, <1>10, <1>12, <1>13

(* ... and the two radios that have a channel. *)
LEMMA ChannelApplied ==
  ASSUME NEW dev \in {"xtl", "zzw"}, NEW buf, Shape(dev, buf),
         NEW rec \in [0 .. 11 -> Byte], Exact(GetBE4(rec, 5)), NEW ip \in Addresses
  PROVE  LET p   == ParseShort(dev, rec)
             new == Apply(dev, buf, p, ip)
         IN  /\ Shape(dev, new)
             /\ \A f \in Fields(dev) : Reported(dev, new)[f] = p[f]
             /\ Reported(dev, new)["businessIp"] = ip
<1> DEFINE p == ParseShort(dev, rec)
           freq == GetBE4(rec, 5)
           xtl == [buf EXCEPT ![24] = rec[3], ![33] = rec[2], ![43] = rec[10],
                              ![44] = rec[10], ![45] = rec[4], ![54] = rec[9],
                              ![55] = rec[11]]
           zzw == [buf EXCEPT ![24] = rec[3], ![32] = rec[10], ![33] = rec[2],
                              ![43] = 0, ![44] = 0, ![45] = rec[4], ![54] = rec[9],
                              ![55] = rec[11]]
           node == IF dev = "xtl" THEN xtl ELSE zzw
           tuned == PutLE4(node, 46, freq)
           new == PutIp(tuned, 20, ip)
<1>1. Apply(dev, buf, p, ip) = new
  <2>1. CASE dev = "xtl"
    BY <2>1 DEF Apply, ApplyXtl, ParseShort, ParseXtlShort
  <2>2. CASE dev = "zzw"
    BY <2>2 DEF Apply, ApplyZzw, ParseShort, ParseZzwShort
  <2>. QED  BY <2>1, <2>2
<1>2. freq \in Int /\ 0 <= freq /\ freq <= 2147483647
  <2>. HIDE DEF freq
  <2>. QED  BY SMT DEF Exact, freq
<1>. HIDE DEF freq
<1>3. /\ buf \in [Window -> Byte]
      /\ \A o \in Window \ Free(dev) : buf[o] = Plain(dev, o)
  BY DEF Shape
<1>4. /\ Window \in SUBSET Int
      /\ \A o \in {8, 20, 20 + 1, 20 + 2, 20 + 3, 24, 32, 33, 43, 44, 45, 46, 46 + 1,
                   46 + 2, 46 + 3, 54, 55} : o \in Window
  BY WindowIs
<1>5. /\ node \in [Window -> Byte]
      /\ node[24] = rec[3] /\ node[33] = rec[2] /\ node[45] = rec[4]
      /\ node[54] = rec[9] /\ node[55] = rec[11]
      /\ dev = "xtl" => node[43] = rec[10] /\ node[44] = rec[10] /\ node[32] = buf[32]
      /\ dev = "zzw" => node[43] = 0 /\ node[44] = 0 /\ node[32] = rec[10]
      /\ \A o \in Window \ {24, 32, 33, 43, 44, 45, 54, 55} : node[o] = buf[o]
  <2>1. /\ rec[2] \in Byte /\ rec[3] \in Byte /\ rec[4] \in Byte /\ rec[9] \in Byte
        /\ rec[10] \in Byte /\ rec[11] \in Byte /\ 0 \in Byte
    <3>1. 0 \in Byte
      BY ByteSmall DEF Small
    <3>. QED  BY <3>1
  <2>2. CASE dev = "xtl"
    <3>1. node = xtl
      BY <2>2
    <3>2. xtl \in [Window -> Byte]
      BY <1>3, <1>4, <2>1
    <3>3. /\ xtl[24] = rec[3] /\ xtl[33] = rec[2] /\ xtl[45] = rec[4]
          /\ xtl[54] = rec[9] /\ xtl[55] = rec[11]
          /\ xtl[43] = rec[10] /\ xtl[44] = rec[10] /\ xtl[32] = buf[32]
      BY <1>3, <1>4
    <3>4. \A o \in Window \ {24, 32, 33, 43, 44, 45, 54, 55} : xtl[o] = buf[o]
      BY <1>3
    <3>. HIDE DEF xtl, node
    <3>. QED  BY <2>2, <3>1, <3>2, <3>3, <3>4
  <2>3. CASE dev = "zzw"
    <3>1. node = zzw
      BY <2>3
    <3>2. zzw \in [Window -> Byte]
      BY <1>3, <1>4, <2>1
    <3>3. /\ zzw[24] = rec[3] /\ zzw[33] = rec[2] /\ zzw[45] = rec[4]
          /\ zzw[54] = rec[9] /\ zzw[55] = rec[11]
          /\ zzw[43] = 0 /\ zzw[44] = 0 /\ zzw[32] = rec[10]
      BY <1>3, <1>4
    <3>4. \A o \in Window \ {24, 32, 33, 43, 44, 45, 54, 55} : zzw[o] = buf[o]
      BY <1>3
    <3>. HIDE DEF zzw, node
    <3>. QED  BY <2>3, <3>1, <3>2, <3>3, <3>4
  <2>. QED  BY <2>2, <2>3
<1>. HIDE DEF node
<1>6. /\ tuned \in [Window -> Byte]
      /\ tuned[46] = Low(freq) /\ tuned[47] = High(freq)
      /\ tuned[48] = Low(Upper(freq)) /\ tuned[49] = High(Upper(freq))
      /\ \A o \in Window \ {46, 47, 48, 49} : tuned[o] = node[o]
  <2>1. /\ tuned \in [Window -> Byte]
        /\ tuned[46] = Low(freq) /\ tuned[46 + 1] = High(freq)
        /\ tuned[46 + 2] = Low(Upper(freq)) /\ tuned[46 + 3] = High(Upper(freq))
        /\ \A o \in Window \ {46, 46 + 1, 46 + 2, 46 + 3} : tuned[o] = node[o]
    BY <1>2, <1>4, <1>5, PutLE4Is
  <2>. HIDE DEF tuned
  <2>. QED  BY <2>1
<1>. HIDE DEF tuned
<1>7. /\ new \in [Window -> Byte] /\ GetIp(new, 20) = ip
      /\ \A o \in Window \ {20, 21, 22, 23} : new[o] = tuned[o]
  <2>1. /\ new \in [Window -> Byte] /\ GetIp(new, 20) = ip
        /\ \A o \in Window \ {20, 20 + 1, 20 + 2, 20 + 3} : new[o] = tuned[o]
    BY <1>4, <1>6, PutIpIs
  <2>. HIDE DEF new
  <2>. QED  BY <2>1
<1>. HIDE DEF new
<1>8. /\ new[24] = rec[3] /\ new[33] = rec[2] /\ new[45] = rec[4]
      /\ new[54] = rec[9] /\ new[55] = rec[11]
      /\ dev = "xtl" => new[43] = rec[10] /\ new[44] = rec[10] /\ new[32] = buf[32]
      /\ dev = "zzw" => new[43] = 0 /\ new[44] = 0 /\ new[32] = rec[10]
      /\ \A o \in Window \ {20, 21, 22, 23, 24, 32, 33, 43, 44, 45, 46, 47, 48, 49,
                            54, 55} : new[o] = buf[o]
  BY <1>4, <1>5, <1>6, <1>7
<1>9. GetLE4(new, 46) = freq
  <2>1. /\ new[46] = Low(freq) /\ new[47] = High(freq)
        /\ new[48] = Low(Upper(freq)) /\ new[49] = High(Upper(freq))
    BY <1>4, <1>6, <1>7
  <2>2. (Low(freq) + 256 * High(freq))
          + 65536 * (Low(Upper(freq)) + 256 * High(Upper(freq))) = freq
    BY <1>2, FourBytes
  <2>. QED  BY <2>1, <2>2 DEF GetLE4, GetLE2
<1>10. Shape(dev, new)
  <2>1. \A o \in Window \ Free(dev) : new[o] = Plain(dev, o)
    <3>1. CASE dev = "xtl"
      BY <1>3, <1>4, <1>8, <3>1 DEF Free
    <3>2. CASE dev = "zzw"
      BY <1>3, <1>4, <1>8, <3>2 DEF Free, Plain
    <3>. QED  BY <3>1, <3>2
  <2>. QED  BY <1>7, <1>8, <1>9, <2>1 DEF Shape, freq
<1>11. CASE dev = "xtl"
  <2>1. Reported(dev, new) =
          [nodeNum |-> new[33], radioPower |-> new[24], freqType |-> new[45],
           freq |-> GetLE4(new, 46), userRate |-> new[54],
           currentChannelNo |-> new[43], hostPrime |-> new[55],
           businessIp |-> GetIp(new, 20)]
    BY <1>11 DEF Reported, Parse, ParseXtl, ParseChannel
  <2>2. p = [nodeNum |-> rec[2], radioPower |-> rec[3], freqType |-> rec[4],
             freq |-> freq, userRate |-> rec[9], currentChannelNo |-> rec[10],
             hostPrime |-> rec[11]]
    BY <1>11 DEF ParseShort, ParseXtlShort, freq
  <2>3. Fields(dev) = {"nodeNum", "radioPower", "freqType", "freq", "userRate",
                       "hostPrime", "currentChannelNo"}
    BY <1>11 DEF Fields
  <2>. HIDE DEF p
  <2>4. /\ \A f \in Fields(dev) : Reported(dev, new)[f] = p[f]
        /\ Reported(dev, new)["businessIp"] = ip
    BY <1>7, <1>8, <1>9, <1>11, <2>1, <2>2, <2>3
  <2>. QED  BY <1>1, <1>10, <2>4 DEF p
<1>12. CASE dev = "zzw"
  <2>1. Reported(dev, new) =
          [nodeNum |-> new[33], radioPower |-> new[24], freqType |-> new[45],
           freq |-> GetLE4(new, 46), userRate |-> new[54],
           superiorNetNo |-> new[32], hostPrime |-> new[55],
           businessIp |-> GetIp(new, 20)]
    BY <1>12 DEF Reported, Parse, ParseZzw, ParseChannel
  <2>2. p = [nodeNum |-> rec[2], radioPower |-> rec[3], freqType |-> rec[4],
             freq |-> freq, userRate |-> rec[9], superiorNetNo |-> rec[10],
             hostPrime |-> rec[11]]
    BY <1>12 DEF ParseShort, ParseZzwShort, freq
  <2>3. Fields(dev) = {"nodeNum", "radioPower", "freqType", "freq", "userRate",
                       "hostPrime", "superiorNetNo"}
    BY <1>12 DEF Fields
  <2>. HIDE DEF p
  <2>4. /\ \A f \in Fields(dev) : Reported(dev, new)[f] = p[f]
        /\ Reported(dev, new)["businessIp"] = ip
    BY <1>7, <1>8, <1>9, <1>12, <2>1, <2>2, <2>3
  <2>. QED  BY <1>1, <1>10, <2>4 DEF p
<1>. QED  BY <1>11, <1>12
-----------------------------------------------------------------------------
(* Whole datagrams. *)

(* A block's configuration file fits, and gives the block back. *)
LEMMA Restored ==
  ASSUME NEW dev \in Devices, NEW buf, Shape(dev, buf), NEW ip \in Addresses
  PROVE  /\ FitConfig(dev, Synced(dev, buf))
         /\ Default(dev, Synced(dev, buf), ip) = buf
<1>1. CASE dev = "ckl"
  BY <1>1, CklRestored
<1>2. CASE dev \in {"xtl", "zzw"}
  BY <1>2, ChannelRestored
<1>. QED  BY <1>1, <1>2 DEF Devices

(* resolve_default_ip gives an address. *)
LEMMA DefaultIpIs ==
  ASSUME NEW dev \in Devices, NEW cfg, FitConfig(dev, cfg), NEW br0 \in Addresses
  PROVE  DefaultIp(cfg, br0) \in Addresses
<1> DEFINE named == {i \in DOMAIN IpKeys : Get(cfg, IpKeys[i], NoIp) # NoIp}
           first == CHOOSE i \in named : \A j \in named : i <= j
<1>1. CASE named = {}
  BY <1>1 DEF DefaultIp
<1>2. CASE named # {}
  <2>1. named \in SUBSET Nat
    BY DEF IpKeys
  <2>2. first \in named
    <3>1. \E i \in named : \A j \in named : i <= j
      BY <1>2, <2>1, Least
    <3>. QED  BY <3>1
  <2>. HIDE DEF first
  <2>3. /\ IpKeys[first] \in {"businessIp", "nodeIp", "ipAddr"}
        /\ Get(cfg, IpKeys[first], NoIp) # NoIp
    BY <2>2 DEF IpKeys
  <2>4. "nodeIp" \notin DaemonKeys(dev) /\ "ipAddr" \notin DaemonKeys(dev)
    BY DEF DaemonKeys, DaemonRange, CklRange, XtlRange, ZzwRange
  <2>5. IpKeys[first] = "businessIp" /\ "businessIp" \in DOMAIN cfg
    BY <2>3, <2>4, Getting DEF Get
  <2>6. cfg["businessIp"] \in Addresses
    BY <2>5 DEF FitConfig, Fits
  <2>7. DefaultIp(cfg, br0) = cfg[IpKeys[first]]
    BY <1>2 DEF DefaultIp, first
  <2>. QED  BY <2>5, <2>6, <2>7
<1>. QED  BY <1>1, <1>2

(* A record that a radio of kind dev can apply. *)
Usable(dev, rec) ==
  Headed(dev, rec) /\ (dev # "ckl" => Exact(ParseShort(dev, rec)["freq"]))

(* What the block reports of the record and the requester. *)
Says(dev, buf, p, ip) ==
  /\ \A f \in Fields(dev) : Reported(dev, buf)[f] = p[f]
  /\ Reported(dev, buf)["businessIp"] = ip

(* Applying a usable record, for every radio. *)
LEMMA Applied ==
  ASSUME NEW dev \in Devices, NEW buf, Shape(dev, buf), NEW rec, Usable(dev, rec),
         NEW ip \in Addresses
  PROVE  LET p   == ParseShort(dev, rec)
             new == Apply(dev, buf, p, ip)
         IN  Shape(dev, new) /\ Says(dev, new, p, ip)
<1>1. CASE dev = "ckl"
  <2>1. rec \in [0 .. 8 -> Byte]
    BY <1>1 DEF Usable, Headed, Buffers, ShortLen
  <2>2. /\ ParseShort(dev, rec) = ParseCklShort(rec)
        /\ \A p : Apply(dev, buf, p, ip) = ApplyCkl(buf, p, ip)
    BY <1>1 DEF ParseShort, Apply
  <2>. QED  BY <1>1, <2>1, <2>2, CklApplied DEF Says
<1>2. CASE dev \in {"xtl", "zzw"}
  <2>1. rec \in [0 .. 11 -> Byte]
    <3>1. ShortLen[dev] - 1 = 11
      BY <1>2 DEF ShortLen
    <3>. QED  BY <3>1 DEF Usable, Headed, Buffers
  <2>2. Exact(GetBE4(rec, 5))
    BY <1>2 DEF Usable, ParseShort, ParseXtlShort, ParseZzwShort
  <2>. QED  BY <1>2, <2>1, <2>2, ChannelApplied DEF Says
<1>. QED  BY <1>1, <1>2 DEF Devices

(* The last of some records. *)
LEMMA LastIs ==
  ASSUME NEW n \in Nat, NEW good \in SUBSET (1 .. n), good # {}
  PROVE  Last(good) \in good /\ \A j \in good : j <= Last(good)
BY Greatest DEF Last

(* After all good records of a datagram are applied in their order, the    *)
(* block reports the last of them.                                         *)
LEMMA AllApplied ==
  ASSUME device \in Devices, Shape(device, block),
         NEW N \in Nat, NEW recs, DOMAIN recs = 1 .. N, Len(recs) = N,
         \A i \in Good(recs) : Usable(device, recs[i]), Good(recs) # {},
         NEW ip \in Addresses
  PROVE  LET new == AppliedAll(recs, ip)
         IN  /\ Shape(device, new)
             /\ Says(device, new, ParseShort(device, recs[Last(Good(recs))]), ip)
<1> DEFINE good == Good(recs)
           last == Last(good)
           p(i) == ParseShort(device, recs[i])
           A == {buf \in [Window -> Byte] : Shape(device, buf)}
           F == [q \in (1 .. N) \X A |->
                   IF q[1] \in good THEN Apply(device, q[2], p(q[1]), ip) ELSE q[2]]
           applied[n \in 0 .. N] ==
             IF n = 0 THEN block
             ELSE IF n \in good THEN Apply(device, applied[n - 1], p(n), ip)
                  ELSE applied[n - 1]
<1>1. AppliedAll(recs, ip) = applied[N]
  BY DEF AppliedAll
<1>2. good \in SUBSET (1 .. N)
  BY DEF Good
<1>3. last \in good /\ \A j \in good : j <= last
  BY <1>2, LastIs
<1>. HIDE DEF good, last
<1>4. \A buf \in A, i \in good :
        /\ Shape(device, Apply(device, buf, p(i), ip))
        /\ Says(device, Apply(device, buf, p(i), ip), p(i), ip)
  BY Applied DEF good
<1>5. block \in A /\ \A buf : Shape(device, buf) => buf \in A
  BY DEF Shape
<1>6. F \in [(1 .. N) \X A -> A]
  <2>1. \A buf \in A, i \in good : Apply(device, buf, p(i), ip) \in A
    BY <1>4, <1>5
  <2>. HIDE DEF A, p
  <2>. QED  BY <2>1
<1>. HIDE DEF A, F, p
<1>7. PICK g : g \in Runs(N, A, block, F)
  BY <1>5, <1>6, LoopRuns
<1>8. g = [n \in 0 .. N |->
             IF n = 0 THEN block
             ELSE IF n \in good THEN Apply(device, g[n - 1], p(n), ip)
                  ELSE g[n - 1]]
  <2>1. /\ g \in [0 .. N -> A]
        /\ \A i \in 0 .. N : g[i] = IF i = 0 THEN block ELSE F[<<i, g[i - 1]>>]
    BY <1>7 DEF Runs
  <2>2. \A i \in 0 .. N : i # 0 => i \in 1 .. N /\ g[i - 1] \in A
    BY <2>1
  <2>3. \A n \in 0 .. N :
          g[n] = IF n = 0 THEN block
                 ELSE IF n \in good THEN Apply(device, g[n - 1], p(n), ip)
                      ELSE g[n - 1]
    BY <2>1, <2>2 DEF F
  <2>. QED  BY <2>1, <2>3
<1>9. applied = [n \in 0 .. N |->
             IF n = 0 THEN block
             ELSE IF n \in good THEN Apply(device, applied[n - 1], p(n), ip)
                  ELSE applied[n - 1]]
  BY <1>8
<1>. HIDE DEF applied
<1> DEFINE S == {n \in 0 .. N : /\ applied[n] \in A
                                /\ last <= n => Says(device, applied[n], p(last), ip)}
<1>10. 0 \in S
  <2>1. applied[0] = block /\ ~(last <= 0)
    BY <1>2, <1>3, <1>9
  <2>. QED  BY <1>5, <2>1
<1>11. ASSUME NEW n \in 1 .. N, n - 1 \in S PROVE n \in S
  <2>1. n \in 0 .. N /\ n # 0
    OBVIOUS
  <2>2. applied[n] = IF n \in good THEN Apply(device, applied[n - 1], p(n), ip)
                     ELSE applied[n - 1]
    BY <1>9, <2>1
  <2>3. CASE n \in good
    <3>1. /\ Shape(device, Apply(device, applied[n - 1], p(n), ip))
          /\ Says(device, Apply(device, applied[n - 1], p(n), ip), p(n), ip)
      BY <1>4, <1>11, <2>3
    <3>2. last <= n => n = last
      BY <1>2, <1>3, <2>3
    <3>. QED  BY <1>5, <2>1, <2>2, <2>3, <3>1, <3>2
  <2>4. CASE n \notin good
    <3>1. last <= n => last <= n - 1
      BY <1>2, <1>3, <2>4
    <3>. QED  BY <1>11, <2>1, <2>2, <2>4, <3>1
  <2>. QED  BY <2>3, <2>4
<1>12. N \in S
  <2>. HIDE DEF S
  <2>1. 0 .. N \subseteq S
    BY <1>10, <1>11, ReachesAll
  <2>. QED  BY <2>1
<1>13. Shape(device, applied[N]) /\ Says(device, applied[N], p(last), ip)
  BY <1>2, <1>3, <1>12 DEF A
<1>. QED  BY <1>1, <1>13 DEF p, last, good

(* A record a radio takes for good was made for its kind, whatever its     *)
(* items, and tells what they ask for.                                     *)
LEMMA RecordsAre ==
  ASSUME device \in Devices, NEW payload \in Payloads[device], NEW up \in BOOLEAN
  PROVE  LET recs == Records(payload, up)
             N    == Len(payload)
         IN  /\ N \in Nat /\ DOMAIN payload = 1 .. N
             /\ DOMAIN recs = 1 .. N /\ Len(recs) = N
             /\ \A i \in Good(recs) :
                  /\ payload[i].device = device
                  /\ Usable(device, recs[i])
                  /\ \A f \in Fields(device) :
                       Near(f, ParseShort(device, recs[i])[f],
                            AskedValue(payload[i].items, f))
<1> DEFINE recs == Records(payload, up)
           N    == Len(payload)
           All  == [device : Devices, items : UNION {ItemLists[d] : d \in Devices}]
<1>1. /\ payload \in Seq(All)
      /\ \A i \in DOMAIN payload : payload[i].items \in ItemLists[payload[i].device]
      /\ \A dev \in Devices : \A items \in ItemLists[dev] :
           /\ items \in Seq([name : FieldNames(dev), value : Int])
           /\ \A i \in DOMAIN items : Fits(items[i].name, items[i].value)
  BY ProtocolAssumption
<1>. HIDE DEF All
<1>2. /\ N \in Nat /\ DOMAIN payload = 1 .. N
      /\ \A i \in 1 .. N : payload[i] \in All
  BY <1>1, SeqElements
<1>3. recs = [i \in 1 .. N |-> BuildShort(payload[i].device, payload[i].items, up)]
  BY <1>2 DEF Records
<1>. HIDE DEF N, recs
<1>4. DOMAIN recs = 1 .. N /\ Len(recs) = N
  BY <1>2, <1>3
<1>5. ASSUME NEW i \in Good(recs)
      PROVE  /\ payload[i].device = device
             /\ Usable(device, recs[i])
             /\ \A f \in Fields(device) :
                  Near(f, ParseShort(device, recs[i])[f],
                       AskedValue(payload[i].items, f))
  <2> DEFINE dev == payload[i].device
             items == payload[i].items
  <2>1. i \in 1 .. N /\ ValidShortHeader(device, recs[i])
    BY <1>4 DEF Good
  <2>2. dev \in Devices /\ items \in ItemLists[dev]
    BY <1>1, <1>2, <2>1 DEF All
  <2>3. recs[i] = BuildShort(dev, items, up)
    BY <1>3, <2>1
  <2>. HIDE DEF dev, items
  <2>4. /\ Headed(dev, recs[i])
        /\ \A f \in Fields(dev) :
             Near(f, ParseShort(dev, recs[i])[f], AskedValue(items, f))
    <3>1. /\ items \in Seq([name : FieldNames(dev), value : Int])
          /\ \A k \in DOMAIN items : Fits(items[k].name, items[k].value)
      BY <1>1, <2>2
    <3>. QED  BY <2>2, <2>3, <3>1, Built
  <2>5. dev = device
    <3>1. RadioType[dev] = RadioType[device]
      BY <2>1, <2>4 DEF Headed, ValidShortHeader
    <3>. QED  BY <2>2, <3>1 DEF Devices, RadioType
  <2>6. device # "ckl" => Exact(ParseShort(device, recs[i])["freq"])
    <3>1. CASE device # "ckl"
      <4>1. "freq" \in Fields(device)
        BY <3>1 DEF Fields
      <4>. QED  BY <2>4, <2>5, <4>1 DEF Near
    <3>. QED  BY <3>1
  <2>. QED  BY <2>4, <2>5, <2>6 DEF Usable, dev, items
<1>. QED  BY <1>2, <1>4, <1>5 DEF N, recs
-----------------------------------------------------------------------------
(* Fragments, and the part of the invariant about files and fragments. *)

(* The device never changes, the file follows the block, and what was sent *)
(* last are the fragments of one response.                                 *)
WireInv ==
  /\ device \in Devices
  /\ block # NoBlock => config = Synced(device, block)
  /\ \/ sent = <<>>
     \/ \E size \in 1 .. MaxFragPayload :
          sent = Fragments(ResponseLen(device), size)

(* However long the file is, rounding up leaves no byte behind and no      *)
(* fragment empty.                                                         *)
LEMMA RoundUp ==
  ASSUME NEW len \in Nat \ {0}, NEW size \in Nat \ {0}
  PROVE  LET total == (len + size - 1) \div size
         IN  /\ total \in Nat \ {0}
             /\ (total - 1) * size < len
             /\ len <= total * size
<1> DEFINE total == (len + size - 1) \div size
<1>1. total \in Int /\ total * size <= len + size - 1
      /\ len + size - 1 < total * size + size
  OBVIOUS
<1>2. total > 0
  BY <1>1
<1> QED
  BY <1>1, <1>2

(* What FragmentsTile says, of any length and size. *)
Tiles(f, len, size) ==
  /\ f # <<>>
  /\ f[1].from = 0
  /\ f[Len(f)].to = len
  /\ \A i \in DOMAIN f : /\ f[i].to - f[i].from \in 1 .. size
                         /\ i > 1 => f[i].from = f[i - 1].to

(* Cutting at multiples of the size, the last piece excepted, tiles. *)
LEMMA FragmentsTiles ==
  ASSUME NEW len \in Nat \ {0}, NEW size \in Nat \ {0}
  PROVE  Tiles(Fragments(len, size), len, size)
<1> DEFINE total == (len + size - 1) \div size
           cut(i) == i * size
           f == Fragments(len, size)
<1>1. /\ total \in Nat \ {0}
      /\ cut(total - 1) < len
      /\ len <= cut(total)
  BY RoundUp
<1>2. f = [i \in 1 .. total |->
            [from |-> cut(i - 1), to |-> IF cut(i) > len THEN len ELSE cut(i)]]
  BY DEF Fragments
<1>3. cut(0) = 0 /\ \A i \in Nat : cut(i) \in Nat /\ cut(i + 1) = cut(i) + size
  OBVIOUS
<1>4. \A i, j \in Nat : i <= j => cut(i) <= cut(j)
  <2> SUFFICES ASSUME NEW i \in Nat, NEW j \in Nat, i <= j
               PROVE  cut(i) <= cut(j)
    OBVIOUS
  <2>1. (j - i) * size >= 0 /\ (j - i) * size = cut(j) - cut(i)
    OBVIOUS
  <2> QED
    BY <2>1, <1>3
<1> HIDE DEF total, cut, f
<1>5. ASSUME NEW i \in 1 .. total
      PROVE  /\ i - 1 \in Nat /\ cut(i - 1) \in Nat /\ cut(i) \in Nat
             /\ cut(i) = cut(i - 1) + size
             /\ i < total => cut(i) < len
             /\ f[i].from = cut(i - 1)
             /\ f[i].to = IF i < total THEN cut(i) ELSE len
  <2>1. i \in Nat /\ i - 1 \in Nat /\ (i - 1) + 1 = i
    BY <1>1
  <2>2. cut(i - 1) \in Nat /\ cut(i) \in Nat
    BY <2>1, <1>3
  <2>3. cut((i - 1) + 1) = cut(i - 1) + size
    BY <2>1, <1>3
  <2>4. cut(i) = cut(i - 1) + size
    BY <2>3, <2>1
  <2>5. ASSUME i < total PROVE cut(i) < len
    <3>1. total - 1 \in Nat /\ i <= total - 1
      BY <1>1, <2>5
    <3>2. cut(i) <= cut(total - 1) /\ cut(total - 1) \in Nat
      BY <3>1, <2>1, <1>3, <1>4
    <3> QED
      BY <3>2, <2>2, <1>1
  <2>6. f[i] = [from |-> cut(i - 1), to |-> IF cut(i) > len THEN len ELSE cut(i)]
    BY <1>2
  <2>7. f[i].from = cut(i - 1) /\ f[i].to = IF cut(i) > len THEN len ELSE cut(i)
    BY <2>6
  <2>8. i = total \/ i < total
    BY <1>1
  <2>9. f[i].to = IF i < total THEN cut(i) ELSE len
    <3>1. i < total => f[i].to = cut(i)
      BY <2>7, <2>5, <2>2
    <3>2. i = total => f[i].to = len
      BY <2>7, <1>1, <2>2
    <3> QED
      BY <3>1, <3>2, <2>8
  <2> QED
    BY <2>1, <2>2, <2>4, <2>5, <2>7, <2>9
<1>6. DOMAIN f = 1 .. total /\ Len(f) = total
  <2>1. DOMAIN f = 1 .. total
    BY <1>2
  <2> DEFINE Piece == [from : Int, to : Int]
  <2>2. ASSUME NEW i \in 1 .. total PROVE f[i] \in Piece
    <3>1. f[i] = [from |-> cut(i - 1), to |-> IF cut(i) > len THEN len ELSE cut(i)]
      BY <1>2
    <3>2. cut(i - 1) \in Int /\ (IF cut(i) > len THEN len ELSE cut(i)) \in Int
      BY <1>5
    <3> QED
      BY <3>1, <3>2
  <2> HIDE DEF Piece
  <2>3. f = [i \in 1 .. total |-> f[i]]
    BY <1>2
  <2>4. f \in [1 .. total -> Piece]
    BY <2>2, <2>3
  <2>5. total \in Nat
    BY <1>1
  <2>6. f \in Seq(Piece)
    BY <2>4, <2>5
  <2> QED
    BY <2>1, <2>5, <2>6
<1>7. f[1].from = 0 /\ f[Len(f)].to = len /\ f # <<>>
  <2>1. 1 \in 1 .. total /\ total \in 1 .. total /\ 1 - 1 = 0
    BY <1>1
  <2>2. f[1].from = 0
    BY <2>1, <1>3, <1>5
  <2>3. f[total].to = len
    BY <2>1, <1>5
  <2>4. f # <<>>
    BY <2>1, <1>6
  <2> QED
    BY <2>2, <2>3, <2>4, <1>6
<1>8. ASSUME NEW i \in DOMAIN f
      PROVE  /\ f[i].to - f[i].from \in 1 .. size
             /\ i > 1 => f[i].from = f[i - 1].to
  <2>1. i \in 1 .. total
    BY <1>6
  <2>2. f[i].to - f[i].from \in 1 .. size
    <3>1. CASE i < total
      BY <3>1, <1>5, <2>1
    <3>2. CASE ~(i < total)
      <4>1. i = total
        BY <3>2, <2>1, <1>1
      <4>2. f[i].from = cut(total - 1) /\ f[i].to = len
            /\ cut(total) = cut(total - 1) + size /\ cut(total - 1) \in Nat
        BY <4>1, <2>1, <1>5
      <4> QED
        BY <4>2, <1>1
    <3> QED
      BY <3>1, <3>2
  <2>3. ASSUME i > 1 PROVE f[i].from = f[i - 1].to
    <3>1. i - 1 \in 1 .. total /\ i - 1 < total
      BY <2>1, <2>3, <1>1
    <3>2. f[i - 1].to = cut(i - 1)
      BY <3>1, <1>5
    <3> QED
      BY <3>2, <2>1, <1>5
  <2> QED
    BY <2>2, <2>3
<1> QED
  BY <1>7, <1>8 DEF Tiles, f

(* The file the service writes of any block holds, under the keys the      *)
(* daemon asks for, what a query says of that block.                       *)
LEMMA SyncedReported ==
  ASSUME NEW dev \in Devices, NEW buf
  PROVE  /\ DOMAIN Synced(dev, buf) = DaemonKeys(dev)
         /\ \A k \in DaemonKeys(dev) : Synced(dev, buf)[k] = Reported(dev, buf)[k]
<1>1. CASE dev = "ckl"
  <2> DEFINE q == ParseCkl(buf)
  <2>1. Parse(dev, buf) = q
    BY <1>1 DEF Parse
  <2> HIDE DEF q
  <2>2. Synced(dev, buf) = SyncCkl(q)
    BY <1>1, <2>1 DEF Synced
  <2>3. Reported(dev, buf) =
          [nodeNo |-> q.nodeNo, radioFreq |-> q.radioFreq,
           radioPower |-> q.radioPower, workFreqMode |-> q.workFreqMode,
           radioRate |-> q.radioRate, hostPrime |-> q.hostPrime,
           businessIp |-> q.nodeIp]
    BY <1>1, <2>1 DEF Reported
  <2>4. DaemonKeys(dev) = {"nodeNo", "radioFreq", "radioPower", "workFreqMode",
                           "radioRate", "hostPrime", "businessIp"}
    BY <1>1 DEF DaemonKeys, DaemonRange, CklRange
  <2> QED
    BY <2>2, <2>3, <2>4 DEF SyncCkl
<1>2. CASE dev = "xtl"
  <2> DEFINE q == ParseXtl(buf)
  <2>1. Parse(dev, buf) = q
    BY <1>2 DEF Parse
  <2> HIDE DEF q
  <2>2. Synced(dev, buf) = SyncXtl(q)
    BY <1>2, <2>1 DEF Synced
  <2>3. Reported(dev, buf) =
          [nodeNum |-> q.nodeNum, radioPower |-> q.radioPower,
           freqType |-> q.channelParams.freqType,
           freq |-> q.channelParams.freq,
           userRate |-> q.channelParams.userRate,
           currentChannelNo |-> q.currentChannelNo,
           hostPrime |-> q.channelParams.radioPrime,
           businessIp |-> q.ipAddr]
    BY <1>2, <2>1 DEF Reported
  <2>4. DaemonKeys(dev) = {"nodeNum", "radioPower", "freqType", "freq", "userRate",
                           "currentChannelNo", "hostPrime", "businessIp"}
    BY <1>2 DEF DaemonKeys, DaemonRange, XtlRange
  <2> QED
    BY <2>2, <2>3, <2>4 DEF SyncXtl
<1>3. CASE dev = "zzw"
  <2> DEFINE q == ParseZzw(buf)
  <2>1. Parse(dev, buf) = q
    BY <1>3 DEF Parse
  <2> HIDE DEF q
  <2>2. Synced(dev, buf) = SyncZzw(q)
    BY <1>3, <2>1 DEF Synced
  <2>3. Reported(dev, buf) =
          [nodeNum |-> q.nodeNum, radioPower |-> q.radioPower,
           freqType |-> q.channelParams.freqType,
           freq |-> q.channelParams.freq,
           userRate |-> q.channelParams.userRate,
           superiorNetNo |-> q.superiorNetNo,
           hostPrime |-> q.channelParams.radioPrime,
           businessIp |-> q.ipAddr]
    BY <1>3, <2>1 DEF Reported
  <2>4. DaemonKeys(dev) = {"nodeNum", "radioPower", "freqType", "freq", "userRate",
                           "superiorNetNo", "hostPrime", "businessIp"}
    BY <1>3 DEF DaemonKeys, DaemonRange, ZzwRange
  <2> QED
    BY <2>2, <2>3, <2>4 DEF SyncZzw
<1> QED
  BY <1>1, <1>2, <1>3 DEF Devices

(* The size used, whatever size is asked for. *)
LEMMA FragmentSizeBounds ==
  ASSUME NEW max \in Nat
  PROVE  FragmentSize(max) \in 1 .. MaxFragPayload
BY DEF FragmentSize, MaxFragPayload

(* No response is empty. *)
LEMMA ResponseLenPositive ==
  ASSUME NEW dev \in Devices
  PROVE  ResponseLen(dev) \in Nat \ {0}
BY DEF Devices, ResponseLen, ParamLen

(* A query keeps the first part of the invariant. *)
LEMMA QuerySendsFragments ==
  ASSUME NEW max \in Nat, WireInv, Query(max)
  PROVE  WireInv'
<1> DEFINE size == FragmentSize(max)
<1>1. size \in 1 .. MaxFragPayload
  BY FragmentSizeBounds
<1>2. sent' = Fragments(ResponseLen(device'), size)
  BY DEF Query
<1>3. UNCHANGED <<device, block, config>>
  BY DEF Query
<1> HIDE DEF size
<1>4. \E s \in 1 .. MaxFragPayload : sent' = Fragments(ResponseLen(device'), s)
  BY <1>1, <1>2
<1> QED
  BY <1>3, <1>4 DEF WireInv

(* The first part of the invariant, which needs nothing of the layouts. *)
LEMMA WireInvHolds == Spec => []WireInv
<1>1. Init => WireInv
  BY DEF Init, WireInv
<1>2. WireInv /\ [Next]_vars => WireInv'
  <2> SUFFICES ASSUME WireInv, [Next]_vars PROVE WireInv'
    OBVIOUS
  <2> USE DEF WireInv
  <2>1. ASSUME NEW lost \in BOOLEAN, NEW br0 \in Ips \cup {NoIp}, Start(lost, br0)
        PROVE  WireInv'
    BY <2>1 DEF Start
  <2>2. ASSUME NEW p \in Payloads[device], NEW up \in BOOLEAN, Refuse(p, up)
        PROVE  WireInv'
    BY <2>2 DEF Refuse
  <2>3. ASSUME NEW p \in Payloads[device], NEW up \in BOOLEAN, NEW ip \in Ips,
               Inject(p, ip, up)
        PROVE  WireInv'
    <3>1. device' = device /\ config' = Synced(device, block') /\ sent' = <<>>
      BY <2>3 DEF Inject
    <3> QED
      BY <3>1
  <2>4. ASSUME NEW max \in MaxPayloads, Query(max)
        PROVE  WireInv'
    BY <2>4, QuerySendsFragments, ProtocolAssumption
  <2>5. CASE UNCHANGED vars
    BY <2>5 DEF vars
  <2> QED
    BY <2>1, <2>2, <2>3, <2>4, <2>5 DEF Next
<1> QED
  BY <1>1, <1>2, PTL DEF Spec

-----------------------------------------------------------------------------
(* The whole invariant and the theorems. *)

RadioInv ==
  /\ WireInv
  /\ block # NoBlock => Shape(device, block)
  /\ block = NoBlock => config \in SetupConfigs[device] /\ asked = NoRequest
  /\ asked # NoRequest =>
       /\ asked.record.device = device
       /\ Reported(device, block)["businessIp"] = asked.ip
       /\ \A f \in Fields(device) :
            Near(f, Reported(device, block)[f], AskedValue(asked.record.items, f))
  /\ \A i \in DOMAIN acks : acks[i] \in {<<1, 1>>, <<0, AckCount[device]>>}

(* The zero address is one. *)
LEMMA NoIpIs == NoIp \in Addresses
<1>1. 0 \in Byte
  BY ByteSmall DEF Small
<1>. QED  BY <1>1 DEF NoIp, Addresses

(* A start builds a block from the set-up file, or leaves the block as it  *)
(* was, whether or not the state file is lost.                             *)
LEMMA StartKeeps ==
  ASSUME RadioInv, NEW lost \in BOOLEAN, NEW br0 \in Ips \cup {NoIp}, Start(lost, br0)
  PROVE  RadioInv'
<1>1. device \in Devices /\ br0 \in Addresses
  BY NoIpIs, ProtocolAssumption DEF RadioInv, WireInv
<1>2. /\ Shape(device, block')
      /\ block # NoBlock => block' = block
  <2>1. CASE block = NoBlock
    <3>1. FitConfig(device, config)
      BY <1>1, <2>1, ProtocolAssumption DEF RadioInv, FitConfig
    <3>2. block' = Default(device, config, DefaultIp(config, br0))
      BY <2>1 DEF Start
    <3>. QED  BY <1>1, <2>1, <3>1, <3>2, DefaultIpIs, DefaultShaped
  <2>2. CASE block # NoBlock
    <3>1. Shape(device, block) /\ config = Synced(device, block)
      BY <2>2 DEF RadioInv, WireInv
    <3>2. FitConfig(device, config)
      BY <1>1, <3>1, Restored
    <3>3. Default(device, config, DefaultIp(config, br0)) = block
      BY <1>1, <3>1, <3>2, DefaultIpIs, Restored
    <3>. QED  BY <2>2, <3>1, <3>3 DEF Start
  <2>. QED  BY <2>1, <2>2
<1>3. block' # NoBlock
  BY <1>2, ProtocolAssumption DEF Shape
<1>4. /\ config' = Synced(device, block') /\ device' = device /\ asked' = asked
      /\ acks' = <<>> /\ sent' = <<>>
  BY DEF Start
<1>5. WireInv'
  BY <1>1, <1>4 DEF WireInv
<1>6. asked' # NoRequest => block' = block
  BY <1>2, <1>4 DEF RadioInv
<1>7. \A i \in DOMAIN acks' : acks'[i] \in {<<1, 1>>, <<0, AckCount[device']>>}
  BY <1>4
<1>8. (asked # NoRequest =>
       /\ asked.record.device = device
       /\ Reported(device, block)["businessIp"] = asked.ip
       /\ \A f \in Fields(device) :
            Near(f, Reported(device, block)[f], AskedValue(asked.record.items, f)))'
  BY <1>4, <1>6 DEF RadioInv
<1>. QED  BY <1>2, <1>3, <1>4, <1>5, <1>7, <1>8 DEF RadioInv

(* An accepted datagram: what is asked last is what the block reports. *)
LEMMA InjectKeeps ==
  ASSUME RadioInv, NEW payload \in Payloads[device], NEW ip \in Ips,
         NEW up \in BOOLEAN, Inject(payload, ip, up)
  PROVE  RadioInv'
<1> DEFINE recs == Records(payload, up)
           good == Good(recs)
           last == Last(good)
           N == Len(payload)
           p == ParseShort(device, recs[last])
<1>1. device \in Devices /\ Shape(device, block) /\ ip \in Addresses
  BY ProtocolAssumption DEF RadioInv, WireInv, Inject
<1>2. /\ N \in Nat /\ DOMAIN payload = 1 .. N
      /\ DOMAIN recs = 1 .. N /\ Len(recs) = N
      /\ \A i \in good : /\ payload[i].device = device
                         /\ Usable(device, recs[i])
                         /\ \A f \in Fields(device) :
                              Near(f, ParseShort(device, recs[i])[f],
                                   AskedValue(payload[i].items, f))
  BY <1>1, RecordsAre
<1>3. /\ good # {} /\ block' = AppliedAll(recs, ip)
      /\ config' = Synced(device, block')
      /\ asked' = [record |-> payload[last], ip |-> ip]
      /\ acks' = [i \in DOMAIN payload |->
                    IF i \in good THEN <<0, AckCount[device]>> ELSE <<1, 1>>]
      /\ sent' = <<>> /\ device' = device
  BY DEF Inject
<1>. HIDE DEF recs, N
<1>4. Shape(device, block') /\ Says(device, block', p, ip)
  BY <1>1, <1>2, <1>3, AllApplied
<1>5. last \in good
  <2>1. good \in SUBSET (1 .. N)
    BY <1>2 DEF Good
  <2>. HIDE DEF good
  <2>. QED  BY <1>2, <1>3, <2>1, LastIs
<1>. HIDE DEF good, last, p
<1>6. block' # NoBlock
  BY <1>4, ProtocolAssumption DEF Shape
<1>7. WireInv'
  BY <1>1, <1>3 DEF WireInv
<1>8. \A i \in DOMAIN acks' : acks'[i] \in {<<1, 1>>, <<0, AckCount[device']>>}
  BY <1>3
<1>9. asked'.record = payload[last] /\ asked'.ip = ip
  BY <1>3
<1>10. /\ asked'.record.device = device
       /\ Reported(device, block')["businessIp"] = asked'.ip
       /\ \A f \in Fields(device) :
            Near(f, Reported(device, block')[f], AskedValue(asked'.record.items, f))
  BY <1>2, <1>4, <1>5, <1>9 DEF Says, p
<1>. QED  BY <1>3, <1>4, <1>6, <1>7, <1>8, <1>10 DEF RadioInv

(* The invariant of every reachable state. *)
LEMMA RadioInvHolds == Spec => []RadioInv
<1>1. Init => RadioInv
  BY DEF Init, RadioInv, WireInv
<1>2. RadioInv /\ [Next]_vars => RadioInv'
  <2> SUFFICES ASSUME RadioInv, [Next]_vars PROVE RadioInv'
    OBVIOUS
  <2>1. ASSUME NEW lost \in BOOLEAN, NEW br0 \in Ips \cup {NoIp}, Start(lost, br0)
        PROVE  RadioInv'
    BY <2>1, StartKeeps
  <2>2. ASSUME NEW payload \in Payloads[device], NEW up \in BOOLEAN,
               Refuse(payload, up)
        PROVE  RadioInv'
    <3>1. UNCHANGED <<device, block, config, asked>> /\ sent' = <<>>
      BY <2>2 DEF Refuse
    <3>2. \A i \in DOMAIN acks' : acks'[i] = <<1, 1>>
      BY <2>2 DEF Refuse
    <3>3. WireInv'
      BY <3>1 DEF RadioInv, WireInv
    <3>. QED  BY <3>1, <3>2, <3>3 DEF RadioInv
  <2>3. ASSUME NEW payload \in Payloads[device], NEW up \in BOOLEAN, NEW ip \in Ips,
               Inject(payload, ip, up)
        PROVE  RadioInv'
    BY <2>3, InjectKeeps
  <2>4. ASSUME NEW max \in MaxPayloads, Query(max)
        PROVE  RadioInv'
    <3>1. WireInv'
      BY <2>4, QuerySendsFragments, ProtocolAssumption DEF RadioInv
    <3>2. UNCHANGED <<device, block, config, asked>> /\ acks' = <<>>
      BY <2>4 DEF Query
    <3>. QED  BY <3>1, <3>2 DEF RadioInv
  <2>5. CASE UNCHANGED vars
    BY <2>5 DEF vars, RadioInv, WireInv
  <2>. QED  BY <2>1, <2>2, <2>3, <2>4, <2>5 DEF Next
<1>. QED  BY <1>1, <1>2, PTL DEF Spec

(* Every block has its window of bytes, every file the keys its daemon     *)
(* knows, for any requests and any set-up files that fit.                  *)
THEOREM TypeCorrect == Spec => []TypeOK
<1>1. RadioInv => TypeOK
  BY SyncedReported DEF RadioInv, WireInv, TypeOK, Shape
<1>. QED  BY <1>1, RadioInvHolds, PTL

(* Whatever was injected, in whatever order, the configuration file builds *)
(* the very block that was lost with the state file (load_param,           *)
(* default_device_param, resolve_default_ip).                              *)
THEOREM NothingIsLost == Spec => []RestoredFromConfig
<1>1. RadioInv => RestoredFromConfig
  <2> SUFFICES ASSUME RadioInv, block # NoBlock, NEW br0 \in Ips \cup {NoIp}
               PROVE  Default(device, config, DefaultIp(config, br0)) = block
    BY DEF RestoredFromConfig
  <2>1. /\ device \in Devices /\ Shape(device, block)
        /\ config = Synced(device, block)
    BY DEF RadioInv, WireInv
  <2>2. br0 \in Addresses
    BY NoIpIs, ProtocolAssumption
  <2>3. FitConfig(device, config)
    BY <2>1, <2>2, Restored
  <2>. QED  BY <2>1, <2>2, <2>3, DefaultIpIs, Restored
<1>. QED  BY <1>1, RadioInvHolds, PTL

(* Whatever sequences of datagrams and restarts, what the last accepted    *)
(* record asked for is what every query reports (build_short_injection,    *)
(* parse_short_param, apply_short_param, parse_device_param).              *)
THEOREM RequestsAreQueried == Spec => []AskedIsQueried
<1>1. RadioInv => AskedIsQueried
  <2> SUFFICES ASSUME RadioInv, asked # NoRequest PROVE AskedIsQueried
    BY DEF AskedIsQueried
  <2> DEFINE r == Reported(device, block)
             items == asked.record.items
  <2>1. /\ device \in Devices
        /\ asked.record.device = device
        /\ r["businessIp"] = asked.ip
        /\ \A f \in Fields(device) : Near(f, r[f], AskedValue(items, f))
    BY DEF RadioInv, WireInv
  <2>2. /\ DOMAIN r = Fields(device) \cup {"businessIp"}
        /\ "businessIp" \notin Fields(device)
    <3>1. CASE device = "ckl"
      BY <3>1 DEF Reported, Fields
    <3>2. CASE device = "xtl"
      BY <3>2 DEF Reported, Fields
    <3>3. CASE device = "zzw"
      BY <3>3 DEF Reported, Fields
    <3>. QED  BY <2>1, <3>1, <3>2, <3>3 DEF Devices
  <2>. HIDE DEF r, items
  <2>3. ASSUME NEW f \in DOMAIN r
        PROVE  LET v == AskedValue(items, f) IN
               CASE f = "businessIp" -> r[f] = asked.ip
                 [] f = "radioFreq"  -> r[f] = v % 65536
                 [] f = "freq"       -> 2 * (r[f] - v) \in -Unit(v) .. Unit(v)
                 [] OTHER            -> r[f] = v % 256
    <3>1. CASE f = "businessIp"
      BY <2>1, <3>1
    <3>2. CASE f # "businessIp"
      <4>1. Near(f, r[f], AskedValue(items, f))
        BY <2>1, <2>2, <3>2
      <4>. QED  BY <3>2, <4>1 DEF Near
    <3>. QED  BY <3>1, <3>2
  <2>. QED  BY <2>1, <2>3 DEF AskedIsQueried, r, items
<1>. QED  BY <1>1, RadioInvHolds, PTL

(* Whatever sizes clients ask for, the fragments of every response tile it *)
(* (send_fragmented_response).                                             *)
THEOREM FragmentsTileAlways == Spec => []FragmentsTile
<1>1. WireInv => FragmentsTile
  <2> SUFFICES ASSUME WireInv, sent # <<>> PROVE FragmentsTile
    BY DEF FragmentsTile
  <2>1. PICK size \in 1 .. MaxFragPayload : sent = Fragments(ResponseLen(device), size)
    BY DEF WireInv
  <2>2. Tiles(sent, ResponseLen(device), size)
    BY <2>1, ResponseLenPositive, FragmentsTiles DEF WireInv
  <2>3. \A x \in 1 .. size : x \in 1 .. MaxFragPayload
    BY DEF MaxFragPayload
  <2>4. \A i \in DOMAIN sent : sent[i].to - sent[i].from \in 1 .. MaxFragPayload
    BY <2>2, <2>3 DEF Tiles
  <2> QED
    BY <2>2, <2>4 DEF Tiles, FragmentsTile
<1> QED
  BY <1>1, WireInvHolds, PTL

(* Whatever records are injected into whatever block, the daemon's file    *)
(* says what a query says, and only a value out of range can make the      *)
(* daemon refuse it (sync_device_config against load_config).              *)
THEOREM DaemonFollowsAlways == Spec => []DaemonFollows
<1>1. WireInv => DaemonFollows
  <2> SUFFICES ASSUME WireInv, block # NoBlock
               PROVE  DaemonFollows
    BY DEF DaemonFollows
  <2> DEFINE r == Reported(device, block)
  <2>1. /\ config = Synced(device, block)
        /\ device \in Devices
    BY DEF WireInv
  <2>2. /\ DOMAIN config = DaemonKeys(device)
        /\ \A k \in DaemonKeys(device) : config[k] = r[k]
    BY <2>1, SyncedReported
  <2>3. /\ "businessIp" \in DaemonKeys(device)
        /\ DOMAIN DaemonRange(device) \subseteq DaemonKeys(device)
    BY DEF DaemonKeys
  <2> HIDE DEF r
  <2>4. DaemonAccepts(device, config)
          <=> /\ r["businessIp"] # NoIp
              /\ \A k \in DOMAIN DaemonRange(device) :
                   r[k] <= DaemonRange(device)[k]
    BY <2>2, <2>3 DEF DaemonAccepts
  <2> QED
    BY <2>2, <2>4 DEF DaemonFollows, r
<1> QED
  BY <1>1, WireInvHolds, PTL

=============================================================================
