--------------------------- MODULE MCRadioProtocol ---------------------------
(* Every field of every record at the edges of its width and of the        *)
(* daemons' ranges, fields set twice, and records of the wrong radio.      *)
EXTENDS RadioProtocol

It(n, v) == [name |-> n, value |-> v]

MCIps == {<<10, 0, 0, 2>>, <<10, 0, 1, 3>>}

Edges(field) ==
  CASE field = "radioFreq" -> {0, 258, 65535, 65536}
    [] field = "freq" -> {22501250, 16777217, 30000001, 51200006}
    [] OTHER -> {-1, 0, 3, 10, 257}

Names == [ckl |-> DOMAIN CklRange,
          xtl |-> DaemonKeys("xtl") \cup {"radioPrime"},
          zzw |-> DaemonKeys("zzw") \cup {"radioPrime"}]

Singles(dev) ==
  UNION {{<<It(n, v)>> : v \in Edges(n)} : n \in Names[dev] \ {"businessIp"}}

Lists(dev) ==
  Singles(dev) \cup
  {<<>>,
   <<It("radioPower", 3), It("hostPrime", 1), It("radioPower", 2)>>}
  \cup IF dev = "ckl"
       THEN {<<It("nodeNo", 7), It("radioFreq", 513), It("workFreqMode", 2),
               It("radioRate", 3)>>}
       ELSE {<<It("nodeNum", 7), It("hostPrime", 1), It("radioPrime", 0),
               It("freq", 22501250), It("userRate", 5), It("freqType", 2)>>}

MCItemLists == [dev \in Devices |-> Lists(dev)]

Rec(dev, items) == [device |-> dev, items |-> items]

(* The radios whose records are as long. *)
Twin == [ckl |-> "ckl", xtl |-> "zzw", zzw |-> "xtl"]

MCPayloads ==
  [dev \in Devices |->
     {<<Rec(dev, items)>> : items \in Lists(dev)}
     \cup {<<Rec(other, <<>>)>> : other \in Devices}
     \cup {<<Rec(a, <<It("radioPower", 3)>>), Rec(b, <<It("hostPrime", 3)>>)>> :
             a \in Devices, b \in Devices}
     \cup {<<Rec(dev, <<It("radioPower", 3)>>), Rec(Twin[dev], <<It("hostPrime", 3)>>),
             Rec(dev, <<It("hostPrime", 10)>>)>>}]

(* What setup_topology.sh writes, or no file at all. *)
MCSetupConfigs ==
  [ckl |-> {<<>>,
            [nodeNo |-> 3, businessIp |-> <<10, 0, 0, 2>>, radioFreq |-> 1000,
             radioPower |-> 1, workFreqMode |-> 1, radioRate |-> 1,
             hostPrime |-> 1]},
   xtl |-> {<<>>,
            [nodeNum |-> 3, businessIp |-> <<10, 0, 0, 2>>, radioPower |-> 1,
             freqType |-> 1, freq |-> 30000000, userRate |-> 1,
             currentChannelNo |-> 0, hostPrime |-> 1]},
   zzw |-> {<<>>,
            [nodeNum |-> 3, businessIp |-> <<10, 0, 0, 2>>, radioPower |-> 1,
             freqType |-> 1, freq |-> 30000000, userRate |-> 1,
             superiorNetNo |-> 0, hostPrime |-> 1]}]

MCMaxPayloads == {0, 255, 256, 617, 1390, 65535}

=============================================================================
