# A verified model of the radio emulator

This directory holds TLA+ specifications of the CKL, XTL and ZZW radio
containers of this repository, the runs that check them with TLC, and proofs
about them that TLAPS checks. Paths below are relative to `src/ziwang/`.

## 1. The system

A *radio* is a container with three processes around one configuration file.
The *NS* (network software, the operator's side) reaches the radios through a
*relay*. Radios of a kind hear each other's management broadcasts on an OVS
bridge.

```
 client --udp--> relay --RLY1 envelope--> parameter service --file--> daemon <--0x88B5 frames--> other radios
    ^              |                          | state file              | flow table, peers.json
    +--------------+ <------ answers ---------+         topology reporter reads peers.json, reports via the relay
```

| Component | State | Operations | Talks to |
|---|---|---|---|
| CKL daemon `ckl/ckl_daemon/ckl_daemon.c` | configuration in force, stat of its file, 64 neighbour slots, `changed`, `policy_applied`, two timers | receive a frame, broadcast, reload, age out, classify, write `peers.json`, reprogram OVS | configuration file (shared with the service), OVS, other radios, reporter |
| XTL and ZZW daemons `*/subnet_daemon/subnet_daemon.c` | the same, with another loop | the same | the same |
| Configuration store `ckl/ckl_config/config_store.c` | none | parse and validate the file | daemon |
| Parameter service `*/radio_protocol/radio_param_service.py` | the parameters in memory, configuration file, state file | restore, query, inject | relay or client, daemon (through the file) |
| Relay `relay/relay.py` | sockets only, no table of requests | validate and wrap requests, unwrap and return answers | client, services, reporters |
| Parameter client `tools/radio_param_client.py` | one call per process: fragments or acknowledgements so far | query, inject | relay or service |
| Topology reporter `*/radio_protocol/topology_reporter.py` | none | read `peers.json`, send a report every 2 s | relay |
| Radio parameter protocol `*/radio_protocol/radio_protocol_common.py`, `tools/` (one file, four copies) | none | build, split, parse and apply records, blocks and fragments | client, services |
| NS display tools `tools/ns_listener.py`, `tools/topology_receiver.py` | none | parse reports, print | |
| Scripts `scripts/`, `relay/setup_network.sh`, entry points | none | create containers, bridges, flows | OVS, Docker |

**What is hard.** The daemon is one thread, but its three outside states are
touched by others between any two of its steps: the service replaces the
configuration file, the kernel forwards with a half-built flow table, the
reporter reads `peers.json`. A reprogramming is a sequence of `ovs-ofctl`
processes of which any can fail. Whether a peer is admitted depends on *all*
neighbours (exactly one master among those with equal parameters), so one
frame, one time-out or one reload changes the verdict on everybody, and the
program has to notice (`changed`). The service writes two files that have to
agree after any crash. On the request path every hop is UDP, answers are
matched to calls by port alone (or by the second a query was sent in), and the
relay remembers nothing. Between radios nothing is agreed: each counts masters
in its own table, and what the NS sees of that goes through a file that is
rewritten under the reader's hands and through reports without numbers. The
protocol's fields live in nine hand-written tables of offsets and keys.
`PROJECT.json` lists these hazards line by line.

**What makes the parts correct.** Daemon: the flow table follows the
membership rule, peers.json tells the same story, no node counts twice, a new
configuration takes effect, no flow that the rule forbids is ever added.
Service: what it acknowledges survives; files and answers agree. Path: an
answer goes to the host that asked; what a query prints was true while it ran,
and acknowledged means done, unless an earlier call of the host gave up and left
look-alikes under way (the protocol cannot tell them apart); a call that waits
although nothing was lost and nothing is to come has been refused; a call that
got what it waited for leaves nothing behind.
Protocol: what was asked is what is queried, what the daemon reads, and what a
restart restores. Network: the members of a subnet decide alike; the NS ends up
with the true picture.

## 2. Modules

| Module | Models | Notes |
|---|---|---|
| `PeerPolicy` | the neighbour table, the membership rule, the flows and the status file, common to the three daemons | operators only; the *reference* rule (`Whitelist`, `Admissible`, `Consistent`) is stated independently of the code's loop over slots (`CountMatchingMasters`, `UpdatePeerReachability`) |
| `CklDaemon` | `main` of the CKL daemon, step by step | `pc` names the line the thread is at; every access to the configuration file, the flow table and `peers.json` is a step |
| `SubnetDaemon` | the XTL and ZZW daemon | these two sources differ in lines 23-27 only (names) |
| `ParamService` | the parameter service, write by write | |
| `DurableParams` | what the service promises, as a four-action specification | `ParamService` implements it (`DurableSpec`) |
| `RequestPath` | clients, relay and services, datagram by datagram | an injection at the service is one step here; `ServiceIsDurable` is the reason it may be |
| `Membership` | the membership rule over sets of configurations, without slots | `PeerPolicyProofs!PictureGiven` relates the daemons' computation to it |
| `Radio` | what a daemon promises about what it has heard and about `peers.json` | `CklDaemon` and `SubnetDaemon` implement it (`ImplementsRadio`) |
| `RadioLayouts` | the byte layouts of `radio_protocol_common.py`, the keys `sync_device_config` writes, what the daemons accept | operators; each table of the code is a table here |
| `RadioProtocol` | a radio's parameters from the client's `--set` to the daemon's file and back to a query | one datagram is one step; `ParamService` has the steps in between |
| `Topology` | a network of daemons as `Radio` describes them, the reporter, the receiver | one radio's table, file and reports are kept, the others broadcast |
| `CklDaemonProofs`, `SubnetDaemonProofs`, `PeerPolicyProofs`, `ParamServiceProofs`, `RequestPathProofs`, `RadioProtocolProofs`, `TopologyProofs` | theorems and proofs | |
| `NumberLemmas` | least and greatest numbers, and the run of a loop | used by `RequestPathProofs` and `RadioProtocolProofs` |
| `MCRadios`, `MCCklDaemon`, `MCSubnetDaemon`, `MCParamService`, `MCRequestPath`, `MCRadioProtocol`, `MCTopology` | small sets for TLC | |

### How the state corresponds to the code

*Daemons.* `local` is `local_cfg`, `cfgStat` `cfg_stat` (`lastStat` and
`currentStat` in the other daemon), `policyApplied` `policy_applied`.
`neighbors` is the array of slots, indexed as in the code, because
`find_neighbor` and `alloc_neighbor` search it in order. A configuration is
`[node, ip, params, prime]`: `params` stands for the fields
`same_subnet_params` compares, as one value. `txIn` and `cfgIn` are the
distances to `next_tx_ms` and `next_cfg_check_ms`. `age` replaces
`time(NULL) - last_seen`, so ages rise with `Tick`. `baseFlows` counts the base
flows in the groups `ovs_reset_base_flows` adds (a group half added counts as
absent); `peerFlows` are whitelist flows, `cursor` says how many groups or slots
the current reprogramming has done. `peersJson` is `Absent`, `Torn` or the
content. `cfgFile` has a content and a stamp; the stamp is what `stat` tells.
One action is one block of the loop: `PollTimeout`/`FrameArrives`,
`ReceiveProbe`, `SendProbe`, `ReadConfigStat`, `Reload`, `Prune`, `Decide`, the
steps of the status file and of OVS.

*Service.* `pc` names the call of `serve` that comes next. `Recovered` is
`load_param`. `confirmed` is a history variable: the parameters whose
acknowledgement was sent, until the next good record. Parameters are a value
for what a record carries plus the address; fields no record carries never
change. `apply_injections` parses the whole injection before the first write;
the model takes its records up one by one, which no one else can see.

*Path.* `net` is the set of datagrams in transit; `hop` says who receives one
next, `wrapped` whether it is in an RLY1 envelope. `client[h]` is the call of
host `h`: running, or how it ended, with the datagrams it counted. A call ends
when it has what it waits for, or at any moment by `TimeOut`: `--timeout` is any
number (`radio_param_client.py:225`), and a process can be interrupted and
started again within the same second, whose number (`NextTid`) it then shares.
What it has caused stays in `net` and meets the next call of the host.

No program reads the history fields: `id` names the call a datagram belongs
to, `seen` every value the device held since the call began, `stale` the earlier
calls that had a datagram under way, when it began, which it could count as its
own (`MayCount`), and `used` the numbers of the host's earlier queries for
fragments.

The client and the services go by the tables of `radio_protocol_common.py`
(`SHORT_PARAM_LEN`, `RADIO_TYPE`, `QUERY_EQUIP`), the relay by its own
(`DEVICE_SHORT_LENGTHS`, `DEVICE_SHORT_MARKERS`, `DEVICE_QUERY_CODES`), with
another test for each: the relay compares codes and two-byte markers, the
service tests a bit of the code, and the two header bytes one after the other.
A payload is a sequence as long as its bytes: at each byte, what one finds who
begins to read a record there. Programs that cut it at different lengths read
different records: 36 bytes are three records to one and four to another, when
the client means one device and the first record names another (`CutAlike` says
when they cut alike). The CLI sends one record in a datagram;
`docs/ckl-业务说明.md:165` allows several, and so does the model.

`Target` is the device a call reaches: the client hands a payload given in hex
to the relay unread, and the relay goes by its first record, so that may be
another device than the one on the command line; a query, and whatever goes past
the relay, reaches the device it names. Receiving on a port no call has bound
drops the datagram. Services answer to the requester's address when a request
has no envelope, as without `--response-ip`.

*Protocol.* `block` is `body`, the parameter block, restricted to the bytes that
some operation writes (`Window`); it is in memory and in the state file alike,
since `ParamService` shows that the two agree. `config` is the configuration
file, a function from keys to numbers; frequencies are integers in units of
10 Hz (`freq * 100000.0`), rounded where the code packs a float32. Their text in
MHz in the file loses nothing: Python prints a double so that it reads back as
itself, and the error of division and product is far below half a unit. `asked`
is a history variable, the record accepted last.

*Network.* `heard[r]` is the table of daemon `r` as a set, `file[r]` its
`peers.json`, `net[r]` the reports under way, `view[r]` what `parse_report` made
of the last one. A reload is one step here (`Reconfigure`), as are ageing and
classification: `RadioImplemented` is the reason they may be, for what is in
the file; that ageing ends in a removal is `SilentForgotten`.

## 3. Runs

All bounds are named constants of the cfg files.

| Run | Question | Bounds and why they are enough |
|---|---|---|
| `ckl_safety`, `subnet_safety` | Do the flow table and `peers.json` follow the rule whenever the daemon waits, and is nothing forbidden ever added (`TypeOK`, `OneSlotPerNode`, `FlowsInSync`, `StatusMatchesFlows`, `StatVouches`, `OnlyAdmittedAdded`), and is the daemon a `Radio` at every step (`ImplementsRadio`)? | two slots; a peer that changes subnet, role and interface and another beside it: zero, one and two masters, gaps and reuse of slots all occur (frames that find the table full: in the liveness runs), and two peers are the least for which a third party's role changes a verdict. The local node moves and takes a peer's number. One failing OVS command or one kill, with what it leaves behind. |
| `ckl_liveness`, `subnet_liveness` | Does a settled configuration take effect (`ConfigTakesEffect`), do silent neighbours make room (`SilentForgotten`), does the flow table become right again (`FlowsHeal`, CKL)? | two peers that compete for one slot, one restart or failing status file |
| `service_restarts` | Types, `FilesAgree`, `AckedSurvives`, `LastGoodWins`, and the promise of `DurableParams` | injections of up to three records with a bad one first, last and between; two failures of three kinds, so that a second crash meets the leftovers of the first |
| `path_hosts` | Two hosts, two devices: `TypeOK`, `RelayAgrees`, `AnswersStayHome`; who waits in vain (`OnlyRefusedWait`), and who leaves something behind (`NothingLeft`)? | two calls, of one host or of two at once; queries in one datagram and in two fragments; injections the relay drops (for a marker, for the length) or takes to a device the client did not name and, past the relay, one of which the service refuses the first of two records; a device that reports meanwhile, in an envelope and without; one loss; two fields per record, so that one acknowledgement is less than all |
| `path_late` | When does something late get into a later call: `QueryCurrent`, `FragmentsCurrent`, `AckedMeansTaken`? | three calls of one host: one that gives up, what changes the value, and one that finds answers to the first; within one second or two, with numbers modulo 2, so that they are shared by calls of one second and none is left for the third; fragments through the relay, the rest past it; three fields per record, so that one late acknowledgement cannot make up for a refused record and two can; one loss |
| `wire` | For each kind of radio: `TypeOK`, `AskedIsQueried`, `DaemonFollows`, `RestoredFromConfig`, `FragmentsTile` | every field alone at 0 and at −1, on both sides of the daemons' limits, at the limit of its width and beyond, frequencies between float32 values and halfway, fields set twice and under both names, all set at once; datagrams of one and of two records of any kinds (`MaxRecords`) and of three of the right length, with and without the state file, from the file of the set-up script and from none |
| `topology` | A network: `TypeOK`, `SubnetsAgree`, `PictureSettles` | three radios, the least with a third party whose role and parameters change the verdict; three changes (`MaxChanges`), so that a radio can be renumbered and die while touch is lost with another; two reports under way (`MaxInFlight`), so that one can overtake another |

`Stamps` are interchangeable and symmetric in the safety runs. Three stamps
(four in `subnet_safety`, whose daemon keeps two) let the file be replaced twice
between two looks of the daemon; a replacement takes a stamp that nobody
remembers, as times only grow (two replacements within one granule of `st_mtime`
are the hazard `"same_stamp"`).

Deadlock is checked except in the `path_*` runs: calls are bounded there, and
the system rightly stops when all have ended.

### Fairness

`FairSpec` of the CKL daemon asks weak fairness of `Run` (the thread goes on:
no call in its loop blocks but `poll`, which has a time-out) and of `Tick` (time
passes). In the other daemon it is asked of `Run \/ ReceiveProbe`. Nothing is
asked of the environment: neighbours and the service may be silent for ever,
and failures are finitely many by their bound. How long a silent neighbour stays
is not bounded: the model lets time pass at every step of a round, as a loaded
host does, so `SilentForgotten` says only that it leaves.

`FairSpec` of `Topology` asks weak fairness of what a running daemon does by
itself (hear a broadcast that is repeated every second, age out, rewrite its
file) and strong fairness of `Report` and of the delivery of some report: the
file is half written for microseconds of every second and the reporter looks
every two seconds, so not every look falls into a rewrite; and not every report
is lost.

### What the runs found

Each of these is a run that TLC ends with a counterexample.

- `ckl_startup_race`: `main` loads the configuration, then reads its stat
  (`ckl_daemon.c:828-833`). If the service replaces the file in between, the
  daemon keeps the old configuration for good. The setup script starts both
  processes at once.
- `ckl_ovs_failure`: an `ovs-ofctl` command that fails in the loop leaves the
  flow table half built, and nothing makes the loop try again before something
  else changes (`ckl_daemon.c:930`).
- `wire_refused`: the service acknowledges any value that fits a record. The
  daemons refuse the whole file when one is out of range
  (`ckl_config/config_store.c:33-52`, `load_config` of the others), so an
  injection that was acknowledged six or seven times over never takes effect,
  and a daemon that restarts on that file exits. `DaemonFollows` shows that
  ranges are the only reason for such a refusal.

Three more disagreements with the documents were met; no run is kept for them.
The service writes the daemon's file before its own state file
(`radio_param_service.py:298-299`), `docs/ckl-业务说明.md:171-172` says the other
way round: after a crash between the two, the daemon runs on parameters that
the restarted service takes back (`DurableParams` allows it, since nothing was
acknowledged). Acknowledgements carry nothing that says what they acknowledge:
late ones of an injection that timed out can make the client report the next as
done. `AckedMeansTaken` says exactly how far they reach, and `NothingLeft` that
only calls that fail leave any; the same goes for plain answers (`QueryCurrent`)
and for fragments of an equal number (`FragmentsCurrent`). The relay drops malformed
injections in silence (`relay.py:219`), where the acceptance tests expect a
failure acknowledgement.

## 4. Proofs

All theorems are about `Spec`, for every value of the constants that satisfies
the named assumption of the module: any number of slots, nodes, parameters,
hosts, devices, radios, calls, any injections, any number of failures.
Assumptions about the environment: a power failure takes the state file only;
the neighbour time-out is below `AgeCap`; node numbers in frames are within the
type; `--set` values are any integers, but frequencies are at most 21 GHz
(`MaxFreq`) and not negative; a set-up file has no keys but those its daemon
knows, with numbers for values.

| Theorem | States |
|---|---|
| `CklDaemonProofs`, `SubnetDaemonProofs`: `TypeCorrect`, `SlotsUnique`, `FlowTableInSync`, `StatusFileSound`, `StatusTellsFlows`, `NothingElseAdded`, `StatIsHonest`, `RadioImplemented` | `TypeOK`, `OneSlotPerNode`, `FlowsInSync`, `StatusSound` (a file is consistent in itself), `StatusMatchesFlows`, `OnlyAdmittedAdded`, `StatVouches`, `ImplementsRadio` |
| `ParamServiceProofs`: `TypeCorrect`, `FilesInAgreement`, `AcknowledgedSurvives`, `LastGoodRecordWins`, `ServiceIsDurable` | `TypeOK`, `FilesAgree`, `AckedSurvives`, `LastGoodWins`, and that the service implements `DurableParams` |
| `RequestPathProofs`: `AnswersFindHome`, `RelayAndServiceAgree`, `TypeCorrect`, `QueriesAreCurrent`, `FragmentsAreCurrent`, `AckedIsTaken`, `OnlyTheRefusedWait`, `NothingIsLeft` | `AnswersStayHome`, `RelayAgrees`, `TypeOK`, `QueryCurrent`, `FragmentsCurrent`, `AckedMeansTaken`, `OnlyRefusedWait`, `NothingLeft` |
| `RadioProtocolProofs`: `TypeCorrect`, `RequestsAreQueried`, `NothingIsLost`, `FragmentsTileAlways`, `DaemonFollowsAlways` | `TypeOK`, `AskedIsQueried`, `RestoredFromConfig`, `FragmentsTile`, `DaemonFollows` |
| `TopologyProofs`: `TypeCorrect`, `RadiosAgree` | `TypeOK`, `SubnetsAgree` |

*The daemons.* `FlowsInSync` says nothing while the table is being built, and
nothing of the steps that forget to set `changed`; it is not inductive.
`PolicyInv` strengthens it: unless `changed` is set or a failure is on record,
the table is that of the current configuration and neighbours; while the
table is being built, the verdicts in the neighbour table are those of the
reference rule and the flows are the rule's flows of the slots below `cursor`.
The lemmas of `PeerPolicyProofs` carry the rest: `ReasonCorrect` and
`UpdateClassifies` (the loop over the slots computes the reference rule, by
counting finite sets), `AgedKeeps`, `AgedQuiet` and `NoFrameShrinks` (a round
that leaves `changed` alone leaves the rule's view alone), `OneMoreSlot` (one
slot more in the whitelist). `StatInv` says when the stat that is kept is older
than the content in force: always safe, since it will then be read again.

`StatusMatchesFlows` relates two outputs that are written one after the other,
seconds apart from what caused them. `StatusInv` says that, when the daemon
waits or a round has left `changed` alone, and nothing failed, the file is
complete and reports the configuration in force and what the rule says of the
neighbours as they are now (`Reports`). A step that leaves `changed` alone
leaves that view alone (`FrameNoticed`, `ReportedKept`), and when the daemon
waits `PolicyInv` says the same of the flows (`ReportedFlows` puts the two
together).

`RadioImplemented` maps every step of a daemon to one of `Radio` or to a
stutter. `WriteStatus` is the step that carries weight: the verdicts in the
table were computed before the file was truncated, and the proof needs that
nothing has touched the table since (`TornFirst`, `PolicyInv`) and that counting
slots counts radios (`HeardMasters`, by a bijection that rests on
`OneSlotPerNode`). `FrameHeard` and `ShrinksHeard` do the same for the steps
that change the table.

*The service.* `Written` says, at each step, which of the two files already
hold the parameters in memory; `Served` says which records of the injection
are in force. `ServiceIsDurable` shows that each step is one of Accept,
Install, Confirm, Crash or a stutter: with a crash between the two writes, the
state file is the old one and the step is Crash; if the state file is lost
there, what the restart restores is the new configuration file, and the same
step is Install.

*The path.* The relay keeps no table, so the invariants are about datagrams:
whatever is addressed is addressed to the host its call came from, and what
comes to the relay without an envelope belongs to no call. `RelayAgrees` rests
on a comparison of tables (`TablesAgree`): of each device, the relay's length is
the service's, its marker is the service's two header bytes, and its code has
the service's bit; so both cut a payload of any length at the same bytes and
find the same there (`PassedIsServed`). Another entry in one of the tables, or a
relay that looks at the first marker only, breaks it.

*The calls.* Nothing in a plain answer or in an acknowledgement says which call
it belongs to, so none of the other properties is inductive, nor are they
together. `CallInv` keeps an account of every call, running or ended: `Pending`
is what it has caused and is in transit, `Own` what its host has counted of
that. `Accounted` says that either its request is on its way, lost or refused,
and nothing of it is counted (`Asking`), or the device has served it, holding
one value that is in `seen`, and each reply exists at most once, in transit or
counted (`Answering`); if nothing is lost (`Lossless`), each exists exactly
once until the call ends. Three more parts separate a call from the earlier ones
of its host: what it may count and is not its own belongs to the calls in
`stale`, as nothing starts such a call again (`Foreign`); fragments under way
carry numbers their host has used, so a query with an unused number has found
none (`Numbers`); and a query for fragments still lacks one (`Short`). None of
this asks how long calls last: they may give up at once, the clock may stand
still, and numbers may repeat after any `TidModulus`.

The rest is counting, by injections of sets of replies into intervals and
products of intervals (`AcksCount`, `Products`, `RepliesCount`): how many
acknowledgements a service sends for records of which it refuses some, and how
many of them a call that cuts the payload in the same way waits for. A call
that has all it waited for, and nothing late, has therefore had everything
(`Complete`); if it has late ones, as many as a refused record leaves wanting,
all fields but one, the client cannot know (`CountedToTheEnd`). For a refused
call the same numbers say what it has when it waits in vain.

*The protocol.* `DaemonFollows` follows from the two tables that read the block,
`parse_*_param` behind the query and `sync_device_config`, by comparing them key
by key; the invariant is that the file is what the block syncs to.
`FragmentsTile` is the arithmetic of rounding up a quotient, for any size.

`RestoredFromConfig` says that the file holds the whole block, `AskedIsQueried`
that the block holds what was asked; neither is inductive, because neither says
what is in the bytes where no parameter is kept, and a restart makes those anew.
`Shape` does: the bytes outside `Free` are plain, an XTL radio keeps its
channel number twice, and the four bytes of the frequency are those of a value
that a float32 holds (`Exact`). `DefaultShaped` and `Applied` keep it;
`Restored` shows that a block of that shape is rebuilt byte by byte from the
file it syncs to, since packing an exact frequency again loses nothing
(`ExactKept`). `RadioInv` adds that the block reports what was asked last,
`Near` enough: equal up to the width, or within half a unit for a frequency
(`Rounded`).

A record is built item by item, and a datagram is applied record by record: two
loops, over inputs of any length. `NumberLemmas` derives what that takes from
the well-foundedness of the numbers: `LoopRuns` says that the run of a loop
exists (so that the recursive function of the model is one), `ReachesAll` is
induction up to a bound; both are stated of sets and functions, as the prover
cannot instantiate the library's induction rules. `Built` then says that after
any `--set` items each field of the record is what the last item that names it
asks for, other names and cut values included (`Write`, one item; `MeantStep`,
what was asked so far), and `AllApplied` that after any records the block says
what the last good one said.

*The network.* `RadiosAgree` is set counting: the radio's own case plus the
masters among those heard is the number of masters of its subnet, because the
radios that run have different numbers and so are as many as their
configurations.

**Only model-checked.** Liveness (`ConfigTakesEffect`, `FlowsHeal`,
`SilentForgotten`, `PictureSettles`), which is beyond the prover. Every other
property that a passing run checks is also proved.

**What the proofs found.** The assumption on the devices' first parameters
(`Factory[d].dev = d`) was missing from `RequestPath`, and `AckedMeansTaken` was
stated of the device on the command line; both came to light where a leaf of a
proof could not be closed. So did the case `CutAlike` leaves out: a service whose
records are shorter than the client thinks finds more of them in the payload,
and sends acknowledgements after the client has counted enough. In `RadioProtocol` an assumption on the set-up files
was missing: a key such as `nodeSize`, which `default_ckl_param` reads and
`sync_device_config` does not write back, would be lost with the state file. No
file of the repository has one, and the daemon refuses a file that does.

## 5. Not modelled, and why

- That management frames pass at every moment: each reprogramming deletes their
  flows before it adds them again (`ClearFlows`, `AddBaseFlows`), so the gap is
  in the model, but there is nothing to check about it.
- JSON, the text of commands and of numbers: no property here is about them.
- The fields of a parameter block that neither a record nor the configuration
  file can change: they are zero from the start, or what a state file of
  another origin held.
- What the XML files of the client say: it turns them into the same records.
- The reporter's random signal strengths, and a destination it takes from the
  configuration when none is given; the set-up script always gives one.
- What `ns_listener.py` prints of datagrams. It checks no length of a report and
  expects query responses of 11985 bytes, which no service sends; it keeps no
  state.
- Radios configured with one node number: `Topology` assumes that they differ,
  as the deployment script makes them.
- The last picture of a radio whose daemon has died, which the reporter goes on
  sending: it is in the model, and nothing says what should happen instead.
- Frames that are malformed, of another type, outgoing or of the own node:
  `IgnoreFrame`, one action without effect.
- A configuration file that is missing or whose stat fails while the daemon
  runs: the service replaces it by rename, which leaves no gap.
- A wall clock that jumps; two replacements of the file within a granule of
  `st_mtime` and of equal size (the model has the switch, the documents make no
  promise).
- The loss of both files of the service at a power failure: neither is forced
  to the disk, and nothing is left to restore.
- `--response-ip` for requests that reach a service past the relay; two calls of
  one host that run at the same time; datagrams that arrive twice, which the
  bridges between NS, relay and radios do not cause.
- The relay's unused packet-rewriting helpers, the checks of its configuration,
  the display tools, and the scripts, which are straight-line calls of external
  programs.

## 6. Plan

1. Compose `ParamService` with a daemon over the shared configuration file, so
   that `wire_refused` and the start-up race appear in one model, with the
   liveness of the whole container.
2. Several observed radios in `Topology`, and symmetric admission while tables
   still differ.
3. The parsers of the configuration file on text, against a reference
   definition.
4. Proofs: `Topology` with the daemons in place of `Radio`; of the composition
   of item 1, that it implements both of its parts.
