-------------------------- MODULE ParamServiceProofs --------------------------
(***************************************************************************)
(* The parameter service keeps its promises for every set of parameters,   *)
(* every injection and every number of failures.  The invariant behind all *)
(* of them says at each step which of the two files already hold the       *)
(* parameters in memory.                                                   *)
(***************************************************************************)
EXTENDS ParamService, TLAPS

-----------------------------------------------------------------------------
(* Types.                                                                  *)

(* What a restart would restore is always a set of parameters. *)
LEMMA RecoveredType == TypeOK => Recovered \in Bodies
  BY ServiceAssumption DEF TypeOK, Recovered, FromConfig

(* An injection is a non-empty sequence of records. *)
LEMMA BatchType ==
  ASSUME NEW b \in Batches
  PROVE  b \in Seq(Settings \cup {Bad}) /\ Len(b) \in Nat \ {0}
<1>1. b \in Seq(Settings \cup {Bad}) /\ b # <<>>
  BY ServiceAssumption
<1>2. QED
  BY <1>1

(* The record being served is good or bad. *)
LEMMA RecordType ==
  ASSUME TypeOK, pos > 0
  PROVE  batch[pos] \in Settings \cup {Bad} /\ batch \in Batches
<1>1. batch # <<>>
  BY DEF TypeOK
<1>2. batch \in Batches /\ pos \in 1 .. Len(batch)
  BY <1>1 DEF TypeOK
<1>3. QED
  BY <1>2, BatchType

(* The initial states are well typed. *)
LEMMA TypeInit == Init => TypeOK
<1> SUFFICES ASSUME Init PROVE TypeOK
  OBVIOUS
<1>1. body \in Bodies
  BY ServiceAssumption DEF Init, Recovered, FromConfig
<1>2. Len(batch) = 0 /\ pos = 0 /\ acksLeft = 0 /\ faults = 0
  BY DEF Init
<1>3. QED
  BY <1>1, <1>2, ServiceAssumption DEF Init, TypeOK, Locations

(* Every step keeps the types. *)
LEMMA TypeStep == TypeOK /\ [Next]_vars => TypeOK'
<1> SUFFICES ASSUME TypeOK, [Next]_vars PROVE TypeOK'
  OBVIOUS
<1> USE ServiceAssumption DEF TypeOK, Locations
<1>1. CASE Start
  BY <1>1 DEF Start, serving, files
<1>2. CASE LoadParam
  BY <1>2, RecoveredType DEF LoadParam, serving, files
<1>3. ASSUME NEW b \in Batches, NEW ip \in Ips, ReceiveInjection(b, ip)
      PROVE  TypeOK'
  BY <1>3, BatchType DEF ReceiveInjection, files
<1>4. CASE ApplyShortParam
  <2>1. batch[pos] \in Settings
    BY <1>4, RecordType DEF ApplyShortParam
  <2>2. [set |-> batch[pos], ip |-> from] \in Bodies
    BY <2>1 DEF Bodies
  <2>3. QED
    BY <1>4, <2>2 DEF ApplyShortParam, serving, files
<1>5. CASE RejectRecord
  BY <1>5 DEF RejectRecord, files
<1>6. CASE SyncDeviceConfig
  BY <1>6 DEF SyncDeviceConfig, serving
<1>7. CASE SaveParam
  BY <1>7 DEF SaveParam
<1>8. CASE SendAck
  <2>1. batch \in Batches /\ Len(batch) \in Nat
    BY <1>8, RecordType, BatchType DEF SendAck
  <2>2. acksLeft \in 1 .. AckCount /\ acksLeft' = acksLeft - 1
    BY <1>8 DEF SendAck
  <2>3. acksLeft' \in 0 .. AckCount /\ (acksLeft > 1 => acksLeft' > 0)
    BY <2>2
  <2>4. CASE acksLeft > 1
    BY <1>8, <2>1, <2>3, <2>4 DEF SendAck, files
  <2>5. CASE ~(acksLeft > 1)
    BY <1>8, <2>1, <2>3, <2>5 DEF SendAck, files
  <2>. QED  BY <2>4, <2>5
<1>9. ASSUME NEW kind \in Hazards, Exit(kind),
             confFile' \in Bodies \cup {Missing},
             stateFile' \in Bodies \cup {Missing, Damaged}
      PROVE  TypeOK'
  <2>1. faults' \in 0 .. MaxFaults
    BY <1>9 DEF Exit
  <2>2. Len(<<>>) = 0
    OBVIOUS
  <2>. QED  BY <1>9, <2>1, <2>2 DEF Exit, Idle
<1>10. CASE WriteFails \/ Stop \/ PowerLoss
  BY <1>9, <1>10 DEF WriteFails, Stop, PowerLoss, files, Hazards
<1>11. CASE UNCHANGED vars
  BY <1>11 DEF vars, serving, files
<1>. QED
  BY <1>1, <1>2, <1>3, <1>4, <1>5, <1>6, <1>7, <1>8, <1>10, <1>11
  DEF Next, Run

(* Every reachable state of the service is well typed. *)
THEOREM TypeCorrect == Spec => []TypeOK
  BY TypeInit, TypeStep, PTL DEF Spec

-----------------------------------------------------------------------------
(* Where the parameters in memory have been written.                       *)

(* While a record is taken up or acknowledged both files hold the          *)
(* parameters in memory; between the two writes the configuration file     *)
(* does, and what a restart would restore is confirmed, if anything is.    *)
Written ==
  /\ pc \in {"recv", "record", "ack"} => confFile = body /\ stateFile = body
  /\ pc \in {"off", "load"} => pos = 0
  /\ pc = "save" => confFile = body
  /\ pc = "sync" /\ pos > 0 => confFile = stateFile
  /\ pc \in {"sync", "save"} /\ pos = 0 => body = Recovered
  /\ pc \in {"sync", "save"} /\ pos > 0 =>
       stateFile \in Bodies /\ confirmed = NoBody
  /\ confirmed # NoBody => Recovered = confirmed

(* Nothing has been confirmed before the service starts. *)
LEMMA WrittenInit == Init => Written
  BY DEF Init, Written

(* What a restart would restore depends on the two files only. *)
LEMMA SameFiles ==
  ASSUME UNCHANGED files
  PROVE  /\ Recovered' = Recovered
         /\ confFile' = confFile /\ stateFile' = stateFile
  BY DEF files, Recovered, FromConfig

(* Every step keeps the account of the two files right. *)
LEMMA WrittenStep == TypeOK /\ Written /\ [Next]_vars => Written'
<1> SUFFICES ASSUME TypeOK, Written, [Next]_vars PROVE Written'
  OBVIOUS
<1>0. /\ Recovered \in Bodies
      /\ {NoBody, Missing, Damaged} \cap Bodies = {}
  BY RecoveredType, ServiceAssumption
<1>1. CASE Start
  BY <1>1, SameFiles DEF Start, serving, Written
<1>2. CASE LoadParam
  BY <1>2, SameFiles, <1>0 DEF LoadParam, serving, Written, TypeOK
<1>3. ASSUME NEW b \in Batches, NEW ip \in Ips, ReceiveInjection(b, ip)
      PROVE  Written'
  BY <1>3, SameFiles DEF ReceiveInjection, Written, files
<1>4. CASE ApplyShortParam
  <2>1. pos > 0 /\ stateFile \in Bodies
    BY <1>4, <1>0 DEF ApplyShortParam, TypeOK, Written
  <2>. QED  BY <1>4, <2>1, SameFiles DEF ApplyShortParam, serving, files, Written
<1>5. CASE RejectRecord
  BY <1>5, SameFiles DEF RejectRecord, files, Written
<1>6. CASE SyncDeviceConfig
  <2>1. body \in Bodies /\ stateFile' = stateFile /\ confFile' = body
    BY <1>6 DEF SyncDeviceConfig, TypeOK
  <2>2. CASE pos = 0
    <3>1. Recovered' = Recovered
      BY <1>6, <2>1, <2>2 DEF Written, Recovered, FromConfig, SyncDeviceConfig
    <3>. QED  BY <1>6, <2>2, <3>1 DEF SyncDeviceConfig, serving, Written
  <2>3. CASE pos > 0
    BY <1>6, <2>1, <2>3 DEF SyncDeviceConfig, serving, Written
  <2>. QED  BY <2>2, <2>3 DEF TypeOK
<1>7. CASE SaveParam
  <2>1. body \in Bodies /\ confFile = body /\ Recovered' = body
    BY <1>7 DEF SaveParam, TypeOK, Written, Recovered, FromConfig
  <2>2. confirmed # NoBody => body = confirmed
    BY <1>7 DEF SaveParam, Written, TypeOK
  <2>. QED  BY <1>7, <2>1, <2>2 DEF SaveParam, Written
<1>8. CASE SendAck
  <2>1. confFile = body /\ stateFile = body /\ Recovered = body
    BY <1>8 DEF SendAck, Written, TypeOK, Recovered, FromConfig
  <2>. QED  BY <1>8, <2>1, SameFiles DEF SendAck, files, Written
<1>9. CASE WriteFails \/ Stop
  BY <1>9, SameFiles DEF WriteFails, Stop, Exit, Idle, Written
<1>10. CASE PowerLoss
  <2>1. /\ pc' = "off" /\ pos' = 0 /\ confirmed' = confirmed
        /\ confFile' = confFile /\ stateFile' = Damaged
    BY <1>10 DEF PowerLoss, Exit, Idle
  <2>2. confirmed # NoBody => confFile = body /\ stateFile = body
    BY <1>10 DEF PowerLoss, Written, TypeOK, Locations
  <2>3. confirmed # NoBody => Recovered' = confirmed
    BY <1>0, <2>1, <2>2 DEF Written, Recovered, FromConfig, TypeOK
  <2>. QED  BY <2>1, <2>3 DEF Written
<1>11. CASE UNCHANGED vars
  BY <1>11, SameFiles DEF vars, serving, Written
<1>. QED
  BY <1>1, <1>2, <1>3, <1>4, <1>5, <1>6, <1>7, <1>8, <1>9, <1>10, <1>11
  DEF Next, Run

(* The invariant the theorems below rest on. *)
THEOREM ServiceInvariant == Spec => [](TypeOK /\ Written)
  BY TypeInit, TypeStep, WrittenInit, WrittenStep, PTL DEF Spec

(* Whenever the service answers, the daemon's file and the state file hold *)
(* the parameters it answers with.                                         *)
THEOREM FilesInAgreement == Spec => []FilesAgree
<1>1. Written => FilesAgree
  BY DEF Written, FilesAgree
<1>. QED  BY <1>1, ServiceInvariant, PTL

(* Acknowledged parameters survive every failure. *)
THEOREM AcknowledgedSurvives == Spec => []AckedSurvives
<1>1. Written => AckedSurvives
  BY DEF Written, AckedSurvives
<1>. QED  BY <1>1, ServiceInvariant, PTL

-----------------------------------------------------------------------------
(* The service implements DurableParams.                                   *)

(* The initial states are initial states of the promise. *)
LEMMA DurableInit == Init => Durable!Init
<1> SUFFICES ASSUME Init PROVE Durable!Init
  OBVIOUS
<1>1. Recovered \in Bodies
  BY TypeInit, RecoveredType
<1>2. QED
  BY <1>1 DEF Init, Durable!Init

(* Only a good record, the write of the state file, an acknowledgement and *)
(* a failure move the promise; each does it in one of its steps.           *)
LEMMA DurableStep ==
  TypeOK /\ Written /\ [Next]_vars => [Durable!Next]_(Durable!vars)
<1> SUFFICES ASSUME TypeOK, Written, [Next]_vars
             PROVE  [Durable!Next]_(Durable!vars)
  OBVIOUS
<1>0. Recovered \in Bodies /\ {Missing, Damaged} \cap Bodies = {}
  BY RecoveredType, ServiceAssumption
<1> DEFINE target == IF pc \in {"off", "load"} THEN Recovered ELSE body
           Silent == /\ Recovered' = Recovered
                     /\ target' = target
                     /\ confirmed' = confirmed
<1>1. Silent => [Durable!Next]_(Durable!vars)
  BY DEF Durable!vars
<1>2. CASE Start
  <2>1. Silent
    BY <1>2, SameFiles DEF Start
  <2>. QED  BY <1>1, <2>1
<1>3. CASE LoadParam
  <2>1. Silent
    BY <1>3, SameFiles DEF LoadParam
  <2>. QED  BY <1>1, <2>1
<1>4. ASSUME NEW b \in Batches, NEW ip \in Ips, ReceiveInjection(b, ip)
      PROVE  Silent
  BY <1>4, SameFiles DEF ReceiveInjection
<1>5. CASE ApplyShortParam
  <2>1. target = Recovered
    BY <1>5, <1>0 DEF ApplyShortParam, Written, TypeOK, Recovered, FromConfig
  <2>2. body' \in Bodies /\ target' = body'
    BY <1>5, TypeStep DEF ApplyShortParam, TypeOK
  <2>3. Durable!Accept(body')
    BY <1>5, <2>1, <2>2, SameFiles DEF ApplyShortParam, Durable!Accept
  <2>. QED  BY <2>2, <2>3 DEF Durable!Next
<1>6. CASE RejectRecord
  <2>1. Silent
    BY <1>6, SameFiles DEF RejectRecord
  <2>. QED  BY <1>1, <2>1
<1>7. CASE SyncDeviceConfig
  <2>1. /\ pc = "sync" /\ pc' = "save" /\ body' = body
        /\ confirmed' = confirmed /\ stateFile' = stateFile /\ confFile' = body
    BY <1>7 DEF SyncDeviceConfig
  <2>2. Recovered' = Recovered
    <3>1. CASE pos = 0
      BY <2>1, <3>1, <1>0 DEF Written, Recovered, FromConfig, TypeOK
    <3>2. CASE pos > 0
      BY <2>1, <3>2 DEF Written, Recovered, FromConfig
    <3>. QED  BY <3>1, <3>2 DEF TypeOK
  <2>3. Silent
    BY <2>1, <2>2
  <2>. QED  BY <1>1, <2>3
<1>8. CASE SaveParam
  <2>1. Recovered' = body /\ target = body /\ target' = body
    BY <1>8 DEF SaveParam, TypeOK, Recovered, FromConfig
  <2>2. confirmed' = confirmed
    BY <1>8 DEF SaveParam
  <2>3. Durable!Install
    BY <2>1, <2>2 DEF Durable!Install
  <2>. QED  BY <2>3 DEF Durable!Next
<1>9. CASE SendAck
  <2>1. Recovered = body /\ target = body
    BY <1>9 DEF SendAck, Written, TypeOK, Recovered, FromConfig
  <2>2. Recovered' = Recovered /\ target' = target
    BY <1>9, <2>1, SameFiles DEF SendAck
  <2>3. CASE batch[pos] # Bad
    <3>1. Durable!Confirm
      BY <1>9, <2>1, <2>2, <2>3 DEF SendAck, Durable!Confirm
    <3>. QED  BY <3>1 DEF Durable!Next
  <2>4. CASE batch[pos] = Bad
    <3>1. Silent
      BY <1>9, <2>2, <2>4 DEF SendAck
    <3>. QED  BY <1>1, <3>1
  <2>. QED  BY <2>3, <2>4
<1>10. CASE WriteFails \/ Stop
  <2>1. Recovered' = Recovered /\ target' = Recovered' /\ confirmed' = confirmed
    BY <1>10, SameFiles DEF WriteFails, Stop, Exit
  <2>2. Durable!Crash
    BY <2>1 DEF Durable!Crash
  <2>. QED  BY <2>2 DEF Durable!Next
<1>11. CASE PowerLoss
  <2>1. /\ pc' = "off" /\ confirmed' = confirmed
        /\ confFile' = confFile /\ stateFile' = Damaged
    BY <1>11 DEF PowerLoss, Exit
  <2>2. target' = Recovered'
    BY <2>1
  <2>3. CASE pc = "save"
    <3>1. Recovered' = body /\ target = body
      BY <1>0, <2>1, <2>3 DEF Written, Recovered, FromConfig, TypeOK
    <3>2. Durable!Install
      BY <2>1, <2>2, <3>1 DEF Durable!Install
    <3>. QED  BY <3>2 DEF Durable!Next
  <2>4. CASE pc # "save"
    <3>1. pc \in {"sync", "recv", "record", "ack"} /\ (pc = "sync" => pos > 0)
      BY <1>11, <2>4 DEF PowerLoss, Written, TypeOK, Locations
    <3>2. confFile = stateFile /\ stateFile \in Bodies
      BY <3>1 DEF Written, TypeOK
    <3>3. Recovered' = Recovered
      BY <1>0, <2>1, <3>2 DEF Recovered, FromConfig
    <3>4. Durable!Crash
      BY <2>1, <2>2, <3>3 DEF Durable!Crash
    <3>. QED  BY <3>4 DEF Durable!Next
  <2>. QED  BY <2>3, <2>4
<1>12. CASE UNCHANGED vars
  <2>1. Silent
    BY <1>12, SameFiles DEF vars
  <2>. QED  BY <1>1, <2>1
<1>. QED
  BY <1>1, <1>2, <1>3, <1>4, <1>5, <1>6, <1>7, <1>8, <1>9, <1>10, <1>11, <1>12
  DEF Next, Run

(* The service keeps the promise of DurableParams: load_param, the two     *)
(* writes and the acknowledgements together move one set of parameters in  *)
(* one step.                                                               *)
THEOREM ServiceIsDurable == Spec => DurableSpec
<1>1. Spec => Durable!Init /\ [][Durable!Next]_(Durable!vars)
  BY ServiceInvariant, DurableInit, DurableStep, PTL DEF Spec
<1>. QED  BY <1>1 DEF DurableSpec, Durable!Spec

-----------------------------------------------------------------------------
(* The last good record of an injection.                                   *)

(* The records of the injection taken up so far. *)
TakenUp == IF pc = "record" THEN pos - 1 ELSE pos

(* The parameters in memory are those of the last good record taken up,    *)
(* and an injection is left only after its last record.                    *)
Served ==
  /\ \A k \in GoodRecords :
       k <= TakenUp /\ (\A j \in GoodRecords : j <= TakenUp => j <= k) =>
         body = [set |-> batch[k], ip |-> from]
  /\ pc = "recv" => pos = Len(batch)
  /\ pos = 0 => batch = <<>>

(* An empty injection has no good record. *)
LEMMA NoneGood == batch = <<>> => GoodRecords = {}
  BY DEF GoodRecords

(* No injection has been received before the service starts. *)
LEMMA ServedInit == Init => Served
  BY NoneGood DEF Init, Served

(* Every step keeps the account of the records taken up right. *)
LEMMA ServedStep == TypeOK /\ Written /\ Served /\ [Next]_vars => Served'
<1> SUFFICES ASSUME TypeOK, Written, Served, [Next]_vars PROVE Served'
  OBVIOUS
<1>0. pos \in Nat /\ Len(batch) \in Nat /\ GoodRecords \subseteq Nat
  <2>1. batch \in Batches \/ batch = <<>>
    BY DEF TypeOK
  <2>2. Len(batch) \in Nat
    BY <2>1, BatchType
  <2>. QED  BY <2>2 DEF TypeOK, GoodRecords
<1>1. ASSUME UNCHANGED <<batch, from, pos, body>>,
             pc = "record" <=> pc' = "record",
             pc' = "recv" => pc = "recv"
      PROVE  Served'
  BY <1>1 DEF Served, TakenUp, GoodRecords
<1>2. CASE Start
  BY <1>1, <1>2 DEF Start, serving
<1>3. CASE LoadParam
  <2>1. pos = 0 /\ pos' = 0 /\ pc' = "sync" /\ GoodRecords' = GoodRecords
    BY <1>3 DEF LoadParam, Written, serving, GoodRecords
  <2>2. \A k \in GoodRecords : k > 0
    BY <1>0 DEF GoodRecords
  <2>. QED  BY <1>0, <2>1, <2>2, <1>3 DEF Served, TakenUp, LoadParam, serving
<1>4. ASSUME NEW b \in Batches, NEW ip \in Ips, ReceiveInjection(b, ip)
      PROVE  Served'
  <2>1. pc' = "record" /\ pos' = 1 /\ batch' = b
    BY <1>4 DEF ReceiveInjection
  <2>2. TakenUp' = 0 /\ \A k \in GoodRecords' : k \in Nat /\ k > 0
    BY <2>1, BatchType DEF TakenUp, GoodRecords
  <2>. QED  BY <2>1, <2>2 DEF Served
<1>5. CASE ApplyShortParam
  <2>1. /\ pc' = "sync" /\ pos' = pos /\ batch' = batch /\ from' = from
        /\ batch[pos] # Bad /\ body' = [set |-> batch[pos], ip |-> from]
    BY <1>5 DEF ApplyShortParam, serving
  <2>2. pos \in GoodRecords /\ GoodRecords' = GoodRecords
    BY <1>5, <2>1 DEF ApplyShortParam, GoodRecords, TypeOK
  <2>3. TakenUp' = pos
    BY <2>1 DEF TakenUp
  <2>4. ASSUME NEW k \in GoodRecords, k <= pos, pos <= k PROVE k = pos
    BY <1>0, <2>4
  <2>. QED  BY <1>0, <2>1, <2>2, <2>3, <2>4 DEF Served
<1>6. CASE RejectRecord
  <2>1. /\ pc = "record" /\ pc' = "ack" /\ batch[pos] = Bad
        /\ UNCHANGED <<body, batch, from, pos>>
    BY <1>6 DEF RejectRecord
  <2>2. \A k \in GoodRecords : k <= pos <=> k <= pos - 1
    BY <1>0, <2>1 DEF GoodRecords
  <2>3. GoodRecords' = GoodRecords /\ TakenUp = pos - 1 /\ TakenUp' = pos
    BY <2>1 DEF GoodRecords, TakenUp
  <2>. QED  BY <2>1, <2>2, <2>3 DEF Served
<1>7. CASE SyncDeviceConfig
  BY <1>1, <1>7 DEF SyncDeviceConfig, serving
<1>8. CASE SaveParam
  <2>1. CASE pos = 0
    <3>1. pos' = 0 /\ batch' = <<>> /\ GoodRecords' = {}
      BY <1>8, <2>1, NoneGood DEF SaveParam, Served, GoodRecords
    <3>. QED  BY <3>1 DEF Served
  <2>2. CASE pos # 0
    BY <1>1, <1>8, <2>2 DEF SaveParam
  <2>. QED  BY <2>1, <2>2
<1>9. CASE SendAck
  <2>1. /\ pc = "ack" /\ UNCHANGED <<body, batch, from>>
        /\ GoodRecords' = GoodRecords /\ TakenUp = pos
    BY <1>9 DEF SendAck, GoodRecords, TakenUp
  <2>2. TakenUp' = TakenUp
    BY <1>0, <1>9, <2>1 DEF SendAck, TakenUp
  <2>3. pc' = "recv" => pos' = Len(batch)
    BY <1>0, <1>9 DEF SendAck, TypeOK
  <2>4. pos' # 0
    BY <1>0, <1>9 DEF SendAck, TypeOK
  <2>. QED  BY <2>1, <2>2, <2>3, <2>4 DEF Served
<1>10. ASSUME NEW kind, Exit(kind) PROVE Served'
  <2>1. batch' = <<>> /\ pc' = "off"
    BY <1>10 DEF Exit, Idle
  <2>2. GoodRecords' = {}
    BY <2>1 DEF GoodRecords
  <2>. QED  BY <2>1, <2>2 DEF Served
<1>11. CASE WriteFails \/ Stop \/ PowerLoss
  BY <1>10, <1>11 DEF WriteFails, Stop, PowerLoss
<1>12. CASE UNCHANGED vars
  BY <1>1, <1>12 DEF vars, serving
<1>. QED
  BY <1>2, <1>3, <1>4, <1>5, <1>6, <1>7, <1>8, <1>9, <1>11, <1>12
  DEF Next, Run

(* An injection served to its end leaves its last good record, whichever   *)
(* of its records are bad.                                                 *)
THEOREM LastGoodRecordWins == Spec => []LastGoodWins
<1>1. TypeOK /\ Served => LastGoodWins
  <2> SUFFICES ASSUME TypeOK, Served, pc = "recv" PROVE LastGoodWins
    BY DEF LastGoodWins
  <2>1. TakenUp = Len(batch) /\ \A k \in GoodRecords : k <= Len(batch)
    BY DEF Served, TakenUp, GoodRecords
  <2>. QED  BY <2>1 DEF Served, LastGoodWins
<1>. QED
  BY <1>1, ServiceInvariant, ServedInit, ServedStep, PTL DEF Spec

=============================================================================
