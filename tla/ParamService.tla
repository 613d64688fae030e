----------------------------- MODULE ParamService -----------------------------
(***************************************************************************)
(* The parameter service of a radio container (radio_param_service.py, the *)
(* same code for CKL, XTL and ZZW): one thread that restores the           *)
(* parameters of the radio, rewrites the daemon's configuration file and   *)
(* its own state file from them, then answers datagrams.  An injection     *)
(* carries one or more short records; each good record replaces the        *)
(* parameters, takes the requester's address as businessIp, and is written *)
(* to the configuration file, then to the state file, then acknowledged    *)
(* field by field.                                                         *)
(*                                                                         *)
(* Both files are replaced by os.replace, so a crash leaves each of them   *)
(* old or new; but it may fall between the two.  A write that fails        *)
(* (OSError) ends the process, as nothing catches it.                      *)
(***************************************************************************)
EXTENDS Integers, Sequences

CONSTANTS
  Settings,    \* what a good record carries; it names every networking field
  Bad,         \* a record of another version or radio type
  Ips,         \* addresses of requesters
  Batches,     \* the injections: sequences of records
  AckCount,    \* fields of a record: 6 for CKL, 7 for XTL and ZZW
  Default,     \* the parameters of a radio without any file
  NoBody,      \* nothing is confirmed
  Missing,     \* a file that is not there
  Damaged,     \* a state file that cannot be parsed
  Env,         \* what may go wrong, a subset of Hazards
  MaxFaults    \* bound on what goes wrong in a behaviour

(* The parameters of the radio; the fields no record carries are constant. *)
Bodies == [set : Settings, ip : Ips]

Hazards == {"write",   \* a file cannot be written
            "stop",    \* the process ends and is started again
            "power"}   \* power fails, and the state file is lost

ASSUME ServiceAssumption ==
  /\ Bad \notin Settings
  /\ Batches \subseteq Seq(Settings \cup {Bad}) \ {<<>>}
  /\ AckCount \in Nat \ {0}
  /\ Default \in Bodies
  /\ {NoBody, Missing, Damaged} \cap Bodies = {}
  /\ Env \subseteq Hazards
  /\ MaxFaults \in Nat

VARIABLES
  pc,         \* the step the thread takes next
  body,       \* the parameters in memory
  batch,      \* the injection being served, and the address it came from
  from,
  pos,        \* the record being served; 0 during start-up
  acksLeft,   \* acknowledgements of that record still to send
  confFile,   \* the daemon's configuration file
  stateFile,  \* <device>_params.json
  confirmed,  \* history: the parameters acknowledged, until the next record
  faults      \* what went wrong so far

serving == <<batch, from, pos, acksLeft>>
files   == <<confFile, stateFile>>
vars    == <<pc, body, serving, files, confirmed, faults>>

-----------------------------------------------------------------------------

(* The parameters the configuration file stands for (default_device_param): *)
(* it names every field a record carries, and the address.                 *)
FromConfig == IF confFile \in Bodies THEN confFile ELSE Default

(* An error load_param could make: an unreadable state file ends in the    *)
(* defaults, without a look at the configuration file.                     *)
RecoveredUndamaged ==
  IF stateFile \in Bodies THEN stateFile
  ELSE IF stateFile = Missing THEN FromConfig ELSE Default

(* load_param: the state file, else the configuration file, else defaults. *)
Recovered == IF stateFile \in Bodies THEN stateFile ELSE FromConfig

Idle == /\ batch' = <<>> /\ pos' = 0 /\ acksLeft' = 0
        /\ UNCHANGED from

Init ==
  /\ pc = "off"
  /\ batch = <<>> /\ from \in Ips /\ pos = 0 /\ acksLeft = 0
  /\ confFile \in Bodies \cup {Missing}
  /\ stateFile \in Bodies \cup {Missing}
  /\ body = Recovered
  /\ confirmed = NoBody
  /\ faults = 0

Start ==
  /\ pc = "off"
  /\ pc' = "load"
  /\ UNCHANGED <<body, serving, files, confirmed, faults>>

LoadParam ==
  /\ pc = "load"
  /\ body' = Recovered
  /\ pc' = "sync"
  /\ UNCHANGED <<serving, files, confirmed, faults>>

(* A datagram with an injection.  One that cannot be split into records is *)
(* treated as a single bad record.                                         *)
ReceiveInjection(b, ip) ==
  /\ pc = "recv"
  /\ batch' = b
  /\ from' = ip
  /\ pos' = 1
  /\ pc' = "record"
  /\ UNCHANGED <<body, acksLeft, files, confirmed, faults>>

(* apply_injections, one record. *)
ApplyShortParam ==
  /\ pc = "record"
  /\ batch[pos] # Bad
  /\ body' = [set |-> batch[pos], ip |-> from]
  /\ confirmed' = NoBody
  /\ pc' = "sync"
  /\ UNCHANGED <<serving, files, faults>>

(* An error apply_injections could make: a bad record ends the batch. *)
BadEndsBatch ==
  /\ pc = "record"
  /\ batch[pos] = Bad
  /\ acksLeft' = 1
  /\ pos' = Len(batch)
  /\ pc' = "ack"
  /\ UNCHANGED <<body, batch, from, files, confirmed, faults>>

RejectRecord ==
  /\ pc = "record"
  /\ batch[pos] = Bad
  /\ acksLeft' = 1
  /\ pc' = "ack"
  /\ UNCHANGED <<body, batch, from, pos, files, confirmed, faults>>

(* An error sync_device_config could make: it keeps the address. *)
SyncWithoutAddress ==
  /\ pc = "sync"
  /\ confFile' = [body EXCEPT !.ip = IF confFile \in Bodies THEN confFile.ip ELSE @]
  /\ pc' = "save"
  /\ UNCHANGED <<body, serving, stateFile, confirmed, faults>>

(* sync_device_config. *)
SyncDeviceConfig ==
  /\ pc = "sync"
  /\ confFile' = body
  /\ pc' = "save"
  /\ UNCHANGED <<body, serving, stateFile, confirmed, faults>>

(* An error save_param could make: it never replaces a file that is there. *)
SaveParamOnce ==
  /\ pc = "save"
  /\ stateFile' = IF stateFile = Missing THEN body ELSE stateFile
  /\ IF pos = 0
     THEN pc' = "recv" /\ UNCHANGED acksLeft
     ELSE pc' = "ack" /\ acksLeft' = AckCount
  /\ UNCHANGED <<body, batch, from, pos, confFile, confirmed, faults>>

(* save_param; during start-up the service then begins to listen. *)
SaveParam ==
  /\ pc = "save"
  /\ stateFile' = body
  /\ IF pos = 0
     THEN pc' = "recv" /\ UNCHANGED acksLeft
     ELSE pc' = "ack" /\ acksLeft' = AckCount
  /\ UNCHANGED <<body, batch, from, pos, confFile, confirmed, faults>>

(* An error the loop could make: it runs past the last record. *)
SendAckPastEnd ==
  /\ pc = "ack"
  /\ acksLeft' = acksLeft - 1
  /\ confirmed' = IF batch[pos] # Bad THEN body ELSE confirmed
  /\ IF acksLeft > 1
     THEN UNCHANGED <<pc, pos>>
     ELSE IF pos <= Len(batch)
          THEN pc' = "record" /\ pos' = pos + 1
          ELSE pc' = "recv" /\ UNCHANGED pos
  /\ UNCHANGED <<body, batch, from, files, faults>>

SendAck ==
  /\ pc = "ack"
  /\ acksLeft' = acksLeft - 1
  /\ confirmed' = IF batch[pos] # Bad THEN body ELSE confirmed
  /\ IF acksLeft > 1
     THEN UNCHANGED <<pc, pos>>
     ELSE IF pos < Len(batch)
          THEN pc' = "record" /\ pos' = pos + 1
          ELSE pc' = "recv" /\ UNCHANGED pos
  /\ UNCHANGED <<body, batch, from, files, faults>>

-----------------------------------------------------------------------------
(* The environment.                                                        *)

Exit(kind) ==
  /\ kind \in Env
  /\ faults < MaxFaults
  /\ faults' = faults + 1
  /\ pc' = "off"
  /\ Idle
  /\ UNCHANGED <<body, confirmed>>

WriteFails ==
  /\ pc \in {"sync", "save"}
  /\ Exit("write")
  /\ UNCHANGED files

Stop ==
  /\ pc # "off"
  /\ Exit("stop")
  /\ UNCHANGED files

(* Power fails while the service runs.  The state file was never forced to *)
(* the disk, and comes back cut short.  The configuration file, exposed in *)
(* the same way, is assumed to survive: the two copies are not lost at     *)
(* once.                                                                   *)
PowerLoss ==
  /\ pc = "recv" \/ pos > 0
  /\ Exit("power")
  /\ stateFile' = Damaged
  /\ UNCHANGED confFile

-----------------------------------------------------------------------------

Run ==
  \/ Start \/ LoadParam
  \/ \E b \in Batches, ip \in Ips : ReceiveInjection(b, ip)
  \/ ApplyShortParam \/ RejectRecord
  \/ SyncDeviceConfig \/ SaveParam \/ SendAck

Next == Run \/ WriteFails \/ Stop \/ PowerLoss

Spec == Init /\ [][Next]_vars

-----------------------------------------------------------------------------
(* Properties.                                                             *)

Locations == {"off", "load", "sync", "save", "recv", "record", "ack"}

(* Every variable keeps its type, the position stays within the injection, *)
(* and the count of acknowledgements within the fields of a record.        *)
TypeOK ==
  /\ pc \in Locations
  /\ body \in Bodies
  /\ batch \in Batches \cup {<<>>}
  /\ from \in Ips
  /\ pos \in 0 .. Len(batch)
  /\ pc \in {"record", "ack"} => pos > 0
  /\ acksLeft \in 0 .. AckCount
  /\ pc = "ack" => acksLeft > 0
  /\ confFile \in Bodies \cup {Missing}
  /\ stateFile \in Bodies \cup {Missing, Damaged}
  /\ confirmed \in Bodies \cup {NoBody}
  /\ faults \in 0 .. MaxFaults

(* Whenever the service can answer a query or acknowledges a record, the   *)
(* answer is what the daemon reads and what a restart would restore        *)
(* (serve: sync_device_config and save_param after each good record).      *)
FilesAgree ==
  pc \in {"recv", "record", "ack"} => confFile = body /\ stateFile = body

(* Parameters whose acknowledgement was sent are what a restart restores,  *)
(* whatever failed meanwhile, until the next good record is taken up       *)
(* (serve acknowledges after save_param; load_param falls back).           *)
AckedSurvives == confirmed # NoBody => Recovered = confirmed

GoodRecords == {k \in 1 .. Len(batch) : batch[k] # Bad}

(* An injection served to its end leaves the parameters of its last good   *)
(* record and the address of its sender, whichever records between were    *)
(* bad (apply_injections goes on after a bad one).                         *)
LastGoodWins ==
  pc = "recv" =>
    \A k \in GoodRecords :
      (\A j \in GoodRecords : j <= k) =>
        body = [set |-> batch[k], ip |-> from]

(* The service keeps the promise of DurableParams: a restart restores what *)
(* was there before an injection or what it carries, nothing else, and     *)
(* only what it would restore is ever confirmed.                           *)
Durable == INSTANCE DurableParams WITH
             stored <- Recovered,
             target <- IF pc \in {"off", "load"} THEN Recovered ELSE body

DurableSpec == Durable!Spec

=============================================================================
