------------------------------- MODULE Topology -------------------------------
(***************************************************************************)
(* A network of radios of one kind and what the network side (NS) learns   *)
(* of it.  Each daemon broadcasts its configuration, hears the others, and *)
(* rewrites peers.json; beside it, in the same container but in a process  *)
(* of its own, topology_reporter.py reads that file every few seconds,     *)
(* builds a report of it and sends it over UDP; the NS parses what arrives *)
(* (topology_receiver.py, ns_listener.py).                                 *)
(*                                                                         *)
(* The daemons are those of Radio, which CklDaemon and SubnetDaemon        *)
(* implement.  A configuration takes effect at once here.  Tables, files   *)
(* and reports are kept of some radios only: the others just broadcast.    *)
(***************************************************************************)
EXTENDS Membership, Sequences, SequencesExt

CONSTANTS
  Radios,
  Observed,       \* the radios whose tables and reports are modelled
  FirstConfig,    \* the configuration each radio starts with
  NextConfigs,    \* the configurations the parameter service may give it
  ROUTE_NUM,      \* the code of the kind of radio in a report
  Absent, Torn,   \* peers.json: no such file; one that is being rewritten
  NoView,         \* no report has arrived yet
  MaxInFlight,    \* bound on the reports on their way
  MaxChanges      \* bound on new configurations, deaths and losses

ASSUME TopologyAssumption ==
  /\ Observed \subseteq Radios
  /\ IsFiniteSet(Radios)
  /\ FirstConfig \in [Radios -> RadioConfig]
  /\ NextConfigs \in [Radios -> SUBSET RadioConfig]
  /\ \A r, s \in Radios :
       \A c \in {FirstConfig[r]} \cup NextConfigs[r],
          d \in {FirstConfig[s]} \cup NextConfigs[s] :
         r # s => c.node # d.node
  /\ Absent # Torn
  /\ MaxInFlight \in Nat \ {0}
  /\ MaxChanges \in Nat

VARIABLES
  cfg,      \* the configuration of each radio
  up,       \* the radios whose daemon runs
  heard,    \* the neighbour table of each observed radio
  file,     \* peers.json of each observed radio
  net,      \* the reports on their way, by sender
  view,     \* what the NS parsed of the last report that arrived
  changes   \* how often the environment has interfered

radio == <<cfg, up, heard>>
vars  == <<radio, file, net, view, changes>>

-----------------------------------------------------------------------------
(* The reporter: read_status and build_report.                             *)

(* Without a status file the reporter falls back on the configuration. *)
Fallback(c) == [local |-> c, peers |-> {}]

(* The peers are listed in the order of their slots; any order here. *)
Links(peers) ==
  [i \in 1 .. Cardinality(peers) |->
     LET p == SetToSeq(peers)[i]
     IN  [targetAddress |-> p.cfg.ip, isSync |-> IF p.reachable THEN 1 ELSE 0]]

(* An error: the length leaves out the last two fields of the header. *)
LengthWithoutRoute(n) == 4 + 13 * n

BodyLength(n) == 6 + 13 * n

(* The random signal strengths are left out. *)
BuildReport(picture) ==
  LET n == Cardinality(picture.peers)
  IN  [info1 |-> 20, length1 |-> 1 + 2 + BodyLength(n),
       info2 |-> 51, length2 |-> BodyLength(n),
       nodeIP |-> picture.local.ip, routeNum |-> ROUTE_NUM,
       chainPathNum |-> n, links |-> Links(picture.peers)]

(* parse_report; the length of the datagram is that of its fields. *)
WellFormed(m) ==
  /\ m.info1 = 20 /\ m.info2 = 51
  /\ Len(m.links) = m.chainPathNum
  /\ m.length2 = 6 + 13 * m.chainPathNum
  /\ m.length1 = 1 + 2 + m.length2

ParseReport(m) ==
  [nodeIP |-> m.nodeIP, routeNum |-> m.routeNum, links |-> m.links]

-----------------------------------------------------------------------------
Init ==
  /\ cfg = FirstConfig
  /\ up = Radios
  /\ heard = [r \in Observed |-> {}]
  /\ file = [r \in Observed |-> Absent]
  /\ net = [r \in Observed |-> {}]
  /\ view = [r \in Observed |-> NoView]
  /\ changes = 0

(* A broadcast of s reaches r; r drops its own number. *)
Hear(r, s) ==
  /\ {r, s} \subseteq up
  /\ r # s
  /\ cfg[s].node # cfg[r].node
  /\ heard' = [heard EXCEPT ![r] = Hearing(@, cfg[s])]
  /\ UNCHANGED <<cfg, up, file, net, view, changes>>

(* Nobody broadcasts under the number of the entry any more: it ages out. *)
Silent(c) == \A s \in up : cfg[s].node # c.node

AgeOut(r, c) ==
  /\ r \in up
  /\ c \in heard[r]
  /\ Silent(c)
  /\ heard' = [heard EXCEPT ![r] = @ \ {c}]
  /\ UNCHANGED <<cfg, up, file, net, view, changes>>

(* write_peer_status: fopen empties the file, fclose completes it. *)
Truncate(r) ==
  /\ r \in up
  /\ file[r] # Torn
  /\ file' = [file EXCEPT ![r] = Torn]
  /\ UNCHANGED <<radio, net, view, changes>>

WriteStatus(r) ==
  /\ r \in up
  /\ file[r] = Torn
  /\ file' = [file EXCEPT ![r] = Picture(cfg[r], heard[r])]
  /\ UNCHANGED <<radio, net, view, changes>>

Send(r, picture) ==
  /\ net' = IF Cardinality(net[r]) < MaxInFlight
            THEN [net EXCEPT ![r] = @ \cup {BuildReport(picture)}]
            ELSE net
  /\ UNCHANGED <<radio, file, view, changes>>

(* The reporter samples the file, whether or not the daemon still runs.    *)
(* Half a file is no JSON: that report is skipped.                         *)
Report(r) ==
  /\ file[r] \notin {Absent, Torn}
  /\ Send(r, file[r])

ReportFallback(r) ==
  /\ file[r] = Absent
  /\ Send(r, Fallback(cfg[r]))

(* Reports overtake each other and get lost. *)
Deliver(r, m) ==
  /\ m \in net[r]
  /\ net' = [net EXCEPT ![r] = @ \ {m}]
  /\ view' = IF WellFormed(m) THEN [view EXCEPT ![r] = ParseReport(m)] ELSE view
  /\ UNCHANGED <<radio, file, changes>>

Lose(r, m) ==
  /\ m \in net[r]
  /\ net' = [net EXCEPT ![r] = @ \ {m}]
  /\ UNCHANGED <<radio, file, view, changes>>

-----------------------------------------------------------------------------
(* What interferes, MaxChanges times.                                      *)

Interfere == changes < MaxChanges /\ changes' = changes + 1

(* New parameters, also another number or business address. *)
Reconfigure(r, c) ==
  /\ Interfere
  /\ c # cfg[r]
  /\ cfg' = [cfg EXCEPT ![r] = c]
  /\ UNCHANGED <<up, heard, file, net, view>>

(* The daemon ends, and later starts again; files stay where they are. *)
Die(r) ==
  /\ Interfere
  /\ r \in up
  /\ up' = up \ {r}
  /\ heard' = [s \in Observed |-> IF s = r THEN {} ELSE heard[s]]
  /\ UNCHANGED <<cfg, file, net, view>>

Restart(r) ==
  /\ r \notin up
  /\ up' = up \cup {r}
  /\ UNCHANGED <<cfg, heard, file, net, view, changes>>

(* Broadcasts get lost for so long that r forgets a radio that is there. *)
LoseTouch(r, c) ==
  /\ Interfere
  /\ r \in up /\ c \in heard[r] /\ ~Silent(c)
  /\ heard' = [heard EXCEPT ![r] = @ \ {c}]
  /\ UNCHANGED <<cfg, up, file, net, view>>

Environment ==
  \/ \E r \in Radios : \/ \E c \in NextConfigs[r] : Reconfigure(r, c)
                       \/ Die(r) \/ Restart(r)
  \/ \E r \in Observed : \E c \in heard[r] : LoseTouch(r, c)

Next ==
  \/ \E r \in Observed :
       \/ \E s \in Radios : Hear(r, s)
       \/ \E c \in heard[r] : AgeOut(r, c)
       \/ Truncate(r) \/ WriteStatus(r)
       \/ Report(r) \/ ReportFallback(r)
       \/ \E m \in net[r] : Deliver(r, m) \/ Lose(r, m)
  \/ Environment

Spec == Init /\ [][Next]_vars

(* A radio that runs broadcasts and rewrites its file every second, and    *)
(* the reporter sends every few seconds: not every sample falls into the   *)
(* microseconds of a rewrite, and not every report is lost.                *)
Fairness ==
  \A r \in Observed :
       /\ \A s \in Radios : WF_vars(Hear(r, s))
       /\ WF_vars(\E c \in heard[r] : AgeOut(r, c))
       /\ WF_vars(Truncate(r)) /\ WF_vars(WriteStatus(r))
       /\ SF_vars(Report(r))
       /\ SF_vars(\E m \in net[r] : Deliver(r, m))

FairSpec == Spec /\ Fairness

-----------------------------------------------------------------------------
(* Properties.                                                             *)

Configs(r) == {FirstConfig[r]} \cup NextConfigs[r]

Pictures == [local : RadioConfig,
             peers : SUBSET [cfg : RadioConfig, reachable : BOOLEAN,
                             reason : {"OK", "PARAM_MISMATCH", "NO_MASTER",
                                       "MULTI_MASTER"}]]

(* The types, and: whatever is lost, restarted or renumbered, no table     *)
(* holds two radios under one number or the radio itself, though all       *)
(* change their configurations on their own (update_neighbor).             *)
TypeOK ==
  /\ cfg \in [Radios -> RadioConfig]
  /\ \A r \in Radios : cfg[r] \in Configs(r)
  /\ up \subseteq Radios
  /\ heard \in [Observed -> SUBSET RadioConfig]
  /\ \A r \in Observed : \A c, d \in heard[r] :
       /\ c.node = d.node => c = d
       /\ \E s \in Radios \ {r} : c \in Configs(s)
  /\ file \in [Observed -> {Absent, Torn} \cup Pictures]
  /\ changes \in 0 .. MaxChanges

(* The radios as r hears them when it hears all that run, and no others. *)
Others(r) == {cfg[s] : s \in up \ {r}}

Informed(r) == r \in up /\ heard[r] = Others(r)

(* The radios that run with the parameters of r, itself included. *)
Subnet(r) == {s \in up : cfg[s].params = cfg[r].params}

(* Each daemon decides for itself, from its own table, with a sum in which *)
(* the local radio is a case of its own.  Radios that have heard all that  *)
(* run still agree: r exchanges traffic with its whole subnet when that    *)
(* has one master, and with nobody otherwise, so no radio forwards to one  *)
(* that refuses it.                                                        *)
SubnetsAgree ==
  \A r \in Observed : Informed(r) =>
    Admitted(cfg[r], heard[r]) =
      IF Cardinality({s \in Subnet(r) : cfg[s].prime}) = 1
      THEN {cfg[s] : s \in Subnet(r) \ {r}}
      ELSE {}

(* What the NS should know of r: whom it hears, and with whom the network  *)
(* lets it talk.                                                           *)
TrueView(r) == ParseReport(BuildReport(Picture(cfg[r], Others(r))))

(* When the changes, deaths and silences end and r runs, the NS comes to   *)
(* know the neighbourhood of r as it is, and no ghost of a radio that died *)
(* or took another number, no report sent earlier and overtaken, and no    *)
(* file that was read while it was rewritten brings back an older view.    *)
PictureSettles ==
  \A r \in Observed : <>[](r \in up) => <>[](view[r] = TrueView(r))

=============================================================================
