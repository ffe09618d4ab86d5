--------------------------- MODULE Health_proofs ----------------------------
(***************************************************************************)
(* What holds of Health whatever is read and whenever, for any number of   *)
(* packets and polls, and any times.                                       *)
(***************************************************************************)
EXTENDS Health, TLAPS

(* What a GET /health may know. *)
Reports == [elapsed : Nat, lost : BOOLEAN, last : Ages, inbound : Nat,
            quiet : Ages, since : Nat]

(* A poll that was late is one that was made, and answered for. *)
PollsAgree ==
  /\ polls.late <= polls.made
  /\ tool = "installer" /\ Pending => polls.late < polls.made

(* What --check has to reject. *)
Rejects(read) ==
  \/ Has(read, "unreadable") \/ ~Validates(read)
  \/ ~BuildsTransport(read) \/ Has(read, "no key")

(* The start gets as far as the node with acceptable readings only; a new  *)
(* one forgets the last failure, so what was read tells whether it ended   *)
(* with the configuration; and --check has made up its mind about what it  *)
(* has read at once.                                                       *)
StartIsConsistent ==
  /\ service \notin {"down", "failed", "loading"} => Acceptable(loaded)
  /\ service = "loading" => failure = "none"
  /\ loaded # Unread => (failure = "config" <=> ~Acceptable(loaded))
  /\ tool = "check" =>
       checked \in Settings /\ (verdict = "rejected" <=> Rejects(checked))

(* The stamp comes before the count, *)
StampFirst == age = Never => inbound = 0 /\ stamping = FALSE

(* and is the one of a packet of another node unless an own one was taken  *)
(* for it.                                                                 *)
StampIsOthers == age <= quiet /\ (age = quiet \/ early = TRUE)

(* A report is about the packets there were, or that came meanwhile. *)
ReportSoFar ==
  /\ ~Pending => probe = NoProbe
  /\ probe.last <= probe.quiet
  /\ probe.last = probe.quiet \/ early = TRUE
  /\ phase = "reading count" /\ probe.last = Never /\ probe.lost = FALSE =>
       /\ inbound <= probe.since
       /\ stamping = TRUE => inbound + 1 <= probe.since

(* A probe does not last longer than the agent may keep it. *)
ProbeInTime == probe.elapsed <= CheckTimeout + Lateness

(* Every packet of the sniffer is counted, waits, was looked at too early, *)
(* or is another's.                                                        *)
SniffedIsCounted ==
  sniffed.total =
    sniffed.own + sniffed.between + sniffed.others + sniffed.early

IInv ==
  /\ TypeOK
  /\ PollsAgree
  /\ StartIsConsistent
  /\ StampFirst
  /\ StampIsOthers
  /\ ReportSoFar
  /\ ReportsAgree
  /\ ProbeInTime
  /\ SniffedIsCounted

----------------------------------------------------------------------------
(* The steps of Startup, and what they leave alone                         *)

(* What such a step does to the service and to the tool. *)
LEMMA StartupStep ==
  ASSUME TypeOK, StartupNext
  PROVE  /\ loaded' \in Settings \union {Unread}
         /\ checked' \in Settings \union {Unread}
         /\ node' \in {"absent", "mute", "answering"}
         /\ agent' \in {"answering", "refusing", "silent"}
         /\ portFree' \in BOOLEAN /\ wanted' \in BOOLEAN
         /\ service' \in {"down", "failed", "loading", "opening"} \union Reading
         /\ failure' \in {"none", "config", "node", "port", "crash"}
         /\ \/ UNCHANGED tools
            \/ /\ phase = "idle" /\ tool' = "check"
               /\ phase' \in {"idle", "asking the agent"}
               /\ verdict' \in {"rejected", "so far", "failed"}
            \/ /\ tool = "check" /\ tool' = "check"
               /\ phase = "asking the agent" /\ phase' = "idle"
               /\ verdict' \in {verdict, "passed", "failed"}
<1> USE DEF TypeOK, world, unit, tools, Reading
<1>1. ASSUME NEW read \in Settings, Check(read)
      PROVE  /\ UNCHANGED <<world, unit>> /\ checked' \in Settings
             /\ phase = "idle" /\ tool' = "check"
             /\ phase' \in {"idle", "asking the agent"}
             /\ verdict' \in {"rejected", "so far", "failed"}
  BY <1>1 DEF Check, OperatorFree
<1>2. CASE CheckAgent
  <2>1. /\ UNCHANGED <<checked, world, unit>>
        /\ tool = "check" /\ tool' = "check"
        /\ phase = "asking the agent" /\ phase' = "idle"
    BY <1>2 DEF CheckAgent, End
  <2>2. verdict' \in {verdict, "passed", "failed"}
    <3>1. CASE verdict # "so far"
      BY <1>2, <3>1 DEF CheckAgent, End
    <3>2. CASE verdict = "so far" /\ AgentFor(checked) = "answering"
      BY <1>2, <3>2 DEF CheckAgent, End
    <3>3. CASE verdict = "so far" /\ AgentFor(checked) # "answering"
      BY <1>2, <3>3 DEF CheckAgent, End
    <3> QED
      BY <3>1, <3>2, <3>3
  <2>3. /\ loaded' = loaded /\ checked' = checked /\ node' = node
        /\ agent' = agent /\ portFree' = portFree /\ wanted' = wanted
        /\ service' = service /\ failure' = failure
    BY <2>1
  <2>4. /\ loaded' \in Settings \union {Unread}
        /\ checked' \in Settings \union {Unread}
        /\ node' \in {"absent", "mute", "answering"}
        /\ agent' \in {"answering", "refusing", "silent"}
        /\ portFree' \in BOOLEAN /\ wanted' \in BOOLEAN
        /\ service' \in {"down", "failed", "loading", "opening"}
                         \union Reading
        /\ failure' \in {"none", "config", "node", "port", "crash"}
    BY <2>3
  <2> QED
    BY ONLY <2>1, <2>2, <2>4, Zenon
<1>3. CASE Start \/ Stop \/ Crash
  BY <1>3 DEF Start, Stop, Crash, Fails, Begins
<1>4. CASE Restart \/ Open \/ ConnectReturns \/ Bind
  BY <1>4 DEF Restart, Begins, Open, ConnectReturns, Bind, Step, Fails
<1>5. ASSUME NEW read \in Settings, Load(read)
      PROVE  /\ UNCHANGED <<checked, world, wanted, tools>>
             /\ loaded' \in Settings /\ service' \in {"opening", "failed"}
             /\ failure' \in {failure, "config"}
  BY <1>5 DEF Load
<1>6. CASE NodeChanges \/ AgentChanges \/ PortChanges
  <2>1. UNCHANGED <<checked, unit, tools>>
    BY <1>6 DEF NodeChanges, AgentChanges, PortChanges
  <2>2. /\ node' \in {"absent", "mute", "answering"}
        /\ agent' \in {"answering", "refusing", "silent"}
    BY <1>6 DEF NodeChanges, AgentChanges, PortChanges
  <2>3. portFree' \in BOOLEAN
    BY <1>6 DEF NodeChanges, AgentChanges, PortChanges
  <2> QED
    BY <2>1, <2>2, <2>3
<1>7. CASE \E read \in Settings : Check(read)
  BY <1>1, <1>7
<1>8. CASE \E read \in Settings : Load(read)
  BY <1>5, <1>8
<1> QED
  BY <1>2, <1>3, <1>4, <1>6, <1>7, <1>8 DEF StartupNext, StartUp

(* --check stays right about a start through every step of the service. *)
LEMMA StartupStartIsConsistent ==
  ASSUME TypeOK, StartIsConsistent, StartupNext
  PROVE  StartIsConsistent'
<1> USE DEF world, unit, tools
<1>1. ASSUME NEW read \in Settings, Check(read)
      PROVE  StartIsConsistent'
  <2>1. UNCHANGED unit /\ tool' = "check" /\ checked' = read
    BY <1>1 DEF Check
  <2>2. verdict' = "rejected" <=> Rejects(read)
    BY <1>1 DEF Check, Rejects
  <2> QED
    BY <2>1, <2>2 DEF StartIsConsistent
<1>2. CASE CheckAgent
  <2>1. UNCHANGED <<unit, checked>> /\ tool = "check"
    BY <1>2 DEF CheckAgent
  <2>2. verdict' = "rejected" <=> verdict = "rejected"
    <3>1. CASE verdict # "so far"
      BY <1>2, <3>1 DEF CheckAgent, End
    <3>2. CASE verdict = "so far" /\ AgentFor(checked) = "answering"
      BY <1>2, <3>2 DEF CheckAgent, End
    <3>3. CASE verdict = "so far" /\ AgentFor(checked) # "answering"
      BY <1>2, <3>3 DEF CheckAgent, End
    <3> QED
      BY <3>1, <3>2, <3>3
  <2> QED
    BY <2>1, <2>2 DEF StartIsConsistent
<1>3. CASE Start \/ Stop \/ Restart
  <2>1. /\ loaded' = Unread /\ service' \in {"down", "loading"}
        /\ failure' = "none" /\ UNCHANGED <<checked, tools>>
    BY <1>3 DEF Start, Stop, Restart, Begins
  <2> QED
    BY <2>1 DEF StartIsConsistent
<1>4. ASSUME NEW read \in Settings, Load(read)
      PROVE  StartIsConsistent'
  <2>1. /\ service = "loading" /\ loaded' = read
        /\ UNCHANGED <<checked, tools>>
    BY <1>4 DEF Load
  <2>2. CASE Acceptable(read)
    <3>1. service' = "opening" /\ failure' = "none"
      BY <1>4, <2>1, <2>2 DEF Load, StartIsConsistent
    <3> QED
      BY <2>1, <2>2, <3>1 DEF StartIsConsistent
  <2>3. CASE ~Acceptable(read)
    <3>1. service' = "failed" /\ failure' = "config"
      BY <1>4, <2>3 DEF Load
    <3> QED
      BY <2>1, <2>3, <3>1 DEF StartIsConsistent
  <2> QED
    BY <2>2, <2>3
<1>5. CASE Open \/ ConnectReturns \/ Bind \/ Crash
  <2>1. /\ service \in {"opening", "subscribed", "binding", "up"}
        /\ service' # "loading" /\ UNCHANGED <<checked, loaded, tools>>
        /\ failure' = failure \/ failure' \in {"node", "port", "crash"}
    BY <1>5 DEF Open, ConnectReturns, Bind, Crash, Step, Fails
  <2>2. Acceptable(loaded)
    BY <2>1 DEF StartIsConsistent
  <2> QED
    BY <2>1, <2>2 DEF StartIsConsistent
<1>6. CASE NodeChanges \/ AgentChanges \/ PortChanges
  BY <1>6 DEF NodeChanges, AgentChanges, PortChanges, StartIsConsistent
<1> QED
  BY <1>1, <1>2, <1>3, <1>4, <1>5, <1>6 DEF StartupNext, StartUp

(* What follows a step of the service. *)
LEMMA FollowsTypes ==
  ASSUME TypeOK, RadioFollows
  PROVE  /\ link' \in BOOLEAN
         /\ \/ UNCHANGED <<age, inbound, own, stamping, quiet, early>>
            \/ /\ age' = Never /\ quiet' = Never /\ inbound' = 0 /\ own' = 0
               /\ stamping' = FALSE /\ early' = FALSE
BY DEF TypeOK, RadioFollows

(* The times are numbers, *)
LEMMA TimesAreNat ==
  /\ CheckTimeout \in Nat /\ Lateness \in Nat /\ VerifyPatience \in Nat
  /\ Polls \in Nat /\ Fresh \in Nat
BY TimesAssumption

(* and so are the ages; no packet yet is one of them, and is not 0. *)
LEMMA NeverIsAge ==
  /\ Never \in Ages /\ 0 \in Ages /\ Never \in Nat /\ Never # 0
  /\ Ages \subseteq Nat
BY TimesAreNat DEF Never, Ages

(* The two probes that nothing is known of. *)
LEMMA NewProbes ==
  ASSUME NEW p, p = NoProbe \/ p = [NoProbe EXCEPT !.lost = TRUE]
  PROVE  /\ p \in Reports
         /\ p.elapsed = 0 /\ p.last = Never /\ p.quiet = Never
         /\ p.inbound = 0 /\ p.since = 0
<1>1. NoProbe \in Reports
  BY NeverIsAge DEF NoProbe, Reports
<1>2. /\ NoProbe.elapsed = 0 /\ NoProbe.last = Never /\ NoProbe.quiet = Never
      /\ NoProbe.inbound = 0 /\ NoProbe.since = 0
  BY DEF NoProbe
<1>3. CASE p = NoProbe
  BY <1>1, <1>2, <1>3
<1>4. CASE p = [NoProbe EXCEPT !.lost = TRUE]
  BY <1>1, <1>2, <1>4 DEF Reports
<1> QED
  BY <1>3, <1>4

(* What is counted and measured is a number. *)
LEMMA AgesAreNat ==
  ASSUME TypeOK
  PROVE  /\ age \in Nat /\ quiet \in Nat /\ inbound \in Nat /\ own \in Nat
         /\ probe.last \in Nat /\ probe.quiet \in Nat /\ probe.since \in Nat
         /\ probe.inbound \in Nat /\ probe.elapsed \in Nat
<1>1. /\ age \in Ages /\ quiet \in Ages /\ inbound \in Nat /\ own \in Nat
      /\ probe \in Reports
  BY DEF TypeOK, Reports
<1>2. /\ probe.last \in Ages /\ probe.quiet \in Ages /\ probe.since \in Nat
      /\ probe.inbound \in Nat /\ probe.elapsed \in Nat
  BY <1>1 DEF Reports
<1> QED
  BY <1>1, <1>2, NeverIsAge

(* The flags are what they are compared with. *)
LEMMA Flags ==
  ASSUME TypeOK
  PROVE  /\ stamping <=> stamping = TRUE
         /\ ~stamping <=> stamping = FALSE
         /\ early <=> early = TRUE
         /\ ~early <=> early = FALSE
         /\ probe.lost <=> probe.lost = TRUE
         /\ ~probe.lost <=> probe.lost = FALSE
<1>1. probe.lost \in BOOLEAN
  <2>1. probe \in Reports
    BY DEF TypeOK, Reports
  <2> QED
    BY <2>1 DEF Reports
<1>2. stamping \in BOOLEAN /\ early \in BOOLEAN
  BY DEF TypeOK
<1> QED
  BY <1>1, <1>2, Zenon

(* The types of the service, those of what looks at it, *)
Tools == {"none", "check", "verify", "installer", "sniffer"}
Phases ==
  {"idle", "asking the agent", "polling", "opening", "listening"}
    \union Probing
Verdicts ==
  {"none", "rejected", "so far", "passed", "failed", "heard", "own only",
   "nothing", "gave up", "no answer", "installed", "not active", "no API",
   "receives", "deaf"}

(* and what the sniffer counts. *)
Counts ==
  [total : Nat, own : Nat, between : 0 .. 1, others : Nat, early : Nat]

StartupTypes ==
  /\ loaded \in Settings \union {Unread}
  /\ checked \in Settings \union {Unread}
  /\ node \in {"absent", "mute", "answering"}
  /\ agent \in {"answering", "refusing", "silent"}
  /\ portFree \in BOOLEAN /\ wanted \in BOOLEAN
  /\ service \in {"down", "failed", "loading", "opening"} \union Reading
  /\ failure \in {"none", "config", "node", "port", "crash"}
  /\ tool \in Tools /\ phase \in Phases /\ verdict \in Verdicts

HealthTypes ==
  /\ link \in BOOLEAN /\ stamping \in BOOLEAN /\ early \in BOOLEAN
  /\ age \in Ages /\ quiet \in Ages
  /\ inbound \in Nat /\ own \in Nat
  /\ probe \in Reports
  /\ polls \in [made : 0 .. Polls, late : 0 .. Polls]
  /\ sniffed \in Counts

(* Together they are TypeOK. *)
LEMMA TypeParts ==
  TypeOK <=> StartupTypes /\ HealthTypes
BY Zenon
DEF TypeOK, StartupTypes, HealthTypes, Reports, Tools, Phases, Verdicts, Counts

(* The same of the next state. *)
LEMMA TypePartsPrimed ==
  TypeOK' <=> StartupTypes' /\ HealthTypes'
BY Zenon
DEF TypeOK, StartupTypes, HealthTypes, Reports, Tools, Phases, Verdicts, Counts

----------------------------------------------------------------------------
(* Every step keeps the invariant                                          *)

(* A step of the service, and what follows it. *)
LEMMA StartupInvariant ==
  ASSUME IInv, StartupNext, Follows
  PROVE  IInv'
<1> USE DEF IInv
<1>0. RadioFollows /\ ProbeFollows /\ polls' = polls /\ sniffed' = sniffed
  BY DEF Follows
<1>1. /\ link' \in BOOLEAN
      /\ \/ UNCHANGED <<age, inbound, own, stamping, quiet, early>>
         \/ /\ age' = Never /\ quiet' = Never /\ inbound' = 0 /\ own' = 0
            /\ stamping' = FALSE /\ early' = FALSE
  BY <1>0, FollowsTypes
<1>2. probe' = probe \/ probe' = [NoProbe EXCEPT !.lost = TRUE]
  BY <1>0 DEF ProbeFollows
<1>3. Pending' <=> Pending
  <2>1. \/ phase' = phase
        \/ phase = "idle" /\ phase' \in {"idle", "asking the agent"}
        \/ phase = "asking the agent" /\ phase' = "idle"
    BY StartupStep DEF tools
  <2> QED
    BY <2>1 DEF Pending, Probing
<1>4. Pending => phase' = phase /\ tool' = tool
  BY StartupStep DEF tools, Pending, Probing
<1>5. \/ ~Pending /\ probe' = probe /\ probe = NoProbe
      \/ Pending /\ probe' = [NoProbe EXCEPT !.lost = TRUE]
      \/ /\ Pending /\ probe' = probe
         /\ UNCHANGED <<age, inbound, own, stamping, quiet, early>>
  BY <1>0 DEF ProbeFollows, RadioFollows, Reading, ReportSoFar
<1>6. TypeOK'
  <2>1. probe' \in Reports
    BY <1>2, NewProbes DEF TypeOK, Reports
  <2>2. /\ link' \in BOOLEAN /\ stamping' \in BOOLEAN /\ early' \in BOOLEAN
        /\ age' \in Ages /\ quiet' \in Ages /\ inbound' \in Nat /\ own' \in Nat
    BY <1>1, NeverIsAge DEF TypeOK
  <2> QED
    BY <1>0, <2>1, <2>2, StartupStep DEF TypeOK, Reports, tools
<1>7. PollsAgree'
  <2>1. tool' = "installer" /\ Pending' => tool = "installer" /\ Pending
    BY <1>3, <1>4
  <2> QED
    BY <1>0, <2>1 DEF PollsAgree
<1>8. StartIsConsistent'
  BY StartupStartIsConsistent
<1>9. StampFirst' /\ StampIsOthers'
  BY <1>1, NeverIsAge DEF StampFirst, StampIsOthers
<1>10. ReportSoFar'
  <2>1. CASE ~Pending /\ probe' = probe /\ probe = NoProbe
    <3>1. phase' # "reading count"
      BY <1>3, <2>1 DEF Pending, Probing
    <3> QED
      BY <1>3, <2>1, <3>1, NewProbes, NeverIsAge DEF ReportSoFar
  <2>2. CASE Pending /\ probe' = [NoProbe EXCEPT !.lost = TRUE]
    <3>1. probe'.lost = TRUE /\ probe'.last = Never /\ probe'.quiet = Never
      BY <2>2 DEF NoProbe
    <3>2. probe'.last <= probe'.quiet
      BY <3>1, NeverIsAge
    <3> QED
      BY <1>3, <2>2, <3>1, <3>2, Zenon DEF ReportSoFar
  <2>3. CASE /\ Pending /\ probe' = probe
             /\ UNCHANGED <<age, inbound, own, stamping, quiet, early>>
    BY <1>3, <1>4, <2>3 DEF ReportSoFar
  <2> QED
    BY <1>5, <2>1, <2>2, <2>3
<1>11. ReportsAgree'
  <2>1. CASE probe' = [NoProbe EXCEPT !.lost = TRUE]
    BY <2>1, NewProbes DEF ReportsAgree
  <2>2. CASE probe' = probe
    <3>1. phase' = "answering" => phase = "answering"
      BY <1>3, <1>4 DEF Pending, Probing
    <3> QED
      BY <2>2, <3>1 DEF ReportsAgree
  <2> QED
    BY <1>2, <2>1, <2>2
<1>12. ProbeInTime'
  BY <1>2, NewProbes, TimesAreNat DEF ProbeInTime
<1>13. SniffedIsCounted'
  BY <1>0 DEF SniffedIsCounted
<1> QED
  BY <1>6, <1>7, <1>8, <1>9, <1>10, <1>11, <1>12, <1>13

(* The conjuncts that a step keeps because of what it leaves alone. *)
LEMMA SameStart ==
  ASSUME StartIsConsistent, UNCHANGED <<loaded, service, failure>>,
         tool' # "check" \/ UNCHANGED <<tool, verdict, checked>>
  PROVE  StartIsConsistent'
BY DEF StartIsConsistent

(* A step of a tool keeps the types of the service. *)
LEMMA ToolTypes ==
  ASSUME StartupTypes, UNCHANGED <<world, unit>>,
         checked' \in {checked, Unread},
         tool' \in Tools, phase' \in Phases, verdict' \in Verdicts
  PROVE  StartupTypes'
<1>1. /\ loaded' = loaded /\ node' = node /\ agent' = agent
      /\ portFree' = portFree /\ wanted' = wanted /\ service' = service
      /\ failure' = failure
  BY DEF world, unit
<1>2. /\ loaded' \in Settings \union {Unread}
      /\ checked' \in Settings \union {Unread}
      /\ node' \in {"absent", "mute", "answering"}
  BY <1>1 DEF StartupTypes
<1>3. portFree' \in BOOLEAN /\ wanted' \in BOOLEAN
  BY <1>1 DEF StartupTypes
<1>4. service' \in {"down", "failed", "loading", "opening"} \union Reading'
  BY <1>1 DEF StartupTypes
<1>5. agent' \in {"answering", "refusing", "silent"}
  BY <1>1 DEF StartupTypes
<1>6. failure' \in {"none", "config", "node", "port", "crash"}
  BY <1>1 DEF StartupTypes
<1>7. Tools' = Tools /\ Phases' = Phases /\ Verdicts' = Verdicts
  BY DEF Tools, Phases, Verdicts, Probing
<1> QED
  BY <1>2, <1>3, <1>4, <1>5, <1>6, <1>7 DEF StartupTypes

(* So does one that leaves the service and the tools alone. *)
LEMMA SameStartupTypes ==
  ASSUME StartupTypes, UNCHANGED startupVars
  PROVE  StartupTypes'
<1>1. UNCHANGED <<checked, world, unit, tool, phase, verdict>>
  BY DEF startupVars, tools
<1>2. tool' \in Tools /\ phase' \in Phases /\ verdict' \in Verdicts
  BY <1>1 DEF StartupTypes
<1> QED
  BY <1>1, <1>2, ToolTypes

(* What has to be shown of the types when the counters stay. *)
LEMMA SameHealthTypes ==
  ASSUME HealthTypes, UNCHANGED radio, probe' \in Reports,
         polls' \in [made : 0 .. Polls, late : 0 .. Polls],
         sniffed' \in Counts
  PROVE  HealthTypes'
<1>1. link' \in BOOLEAN /\ stamping' \in BOOLEAN /\ early' \in BOOLEAN
  BY DEF HealthTypes, radio
<1>2. age' \in Ages /\ quiet' \in Ages
  BY DEF HealthTypes, radio
<1>3. inbound' \in Nat /\ own' \in Nat
  BY DEF HealthTypes, radio
<1> QED
  BY <1>1, <1>2, <1>3 DEF HealthTypes

(* The stamps stay true when the counters stay. *)
LEMMA SameRadio ==
  ASSUME StampFirst, StampIsOthers, UNCHANGED radio
  PROVE  StampFirst' /\ StampIsOthers'
BY DEF StampFirst, StampIsOthers, radio

(* The comparisons of a report that knows nothing. *)
LEMMA AtMost ==
  Never <= Never /\ 0 <= 0 /\ 0 <= CheckTimeout + Lateness
BY NeverIsAge, TimesAreNat

(* A probe that begins, or is over, knows nothing yet. *)
LEMMA ResetProbe ==
  ASSUME probe' = NoProbe, phase' # "reading count"
  PROVE  /\ probe' \in Reports
         /\ ReportSoFar' /\ ReportsAgree' /\ ProbeInTime'
<1>1. /\ probe'.elapsed = 0 /\ probe'.last = Never /\ probe'.quiet = Never
      /\ probe'.inbound = 0 /\ probe'.since = 0
  BY NewProbes
<1>2. Never <= Never /\ 0 <= 0 /\ 0 <= CheckTimeout + Lateness
  BY AtMost
<1>3. ReportSoFar' /\ ReportsAgree' /\ ProbeInTime'
  BY <1>1, <1>2, Zenon DEF ReportSoFar, ReportsAgree, ProbeInTime
<1> QED
  BY <1>3, NewProbes DEF Reports

(* The reader thread. *)
LEMMA ReaderInvariant ==
  ASSUME IInv, Reader
  PROVE  IInv'
<1> USE DEF IInv
<1>0. probe \in Reports /\ TypeOK /\ StartupTypes /\ HealthTypes
  BY TypeParts DEF HealthTypes
<1>1. Order[1] = "last" /\ Order[2] = "count"
  BY DEF Order
<1>2. /\ age \in Nat /\ quiet \in Nat /\ inbound \in Nat /\ own \in Nat
      /\ probe.last \in Nat /\ probe.quiet \in Nat /\ probe.since \in Nat
  BY AgesAreNat
<1>3. CASE Stamp
  <2> USE <1>3
  <2>1. /\ age' = 0 /\ inbound' = inbound /\ stamping' = TRUE
        /\ stamping = FALSE /\ probe' = Raced
        /\ \/ quiet' = 0 /\ early' = early
           \/ quiet' = quiet /\ early' = TRUE
        /\ UNCHANGED <<startupVars, link, own, polls, sniffed>>
    BY <1>1, Flags DEF Stamp, Write, CanRead
  <2>2. /\ probe'.last = probe.last /\ probe'.quiet = probe.quiet
        /\ probe'.lost = probe.lost /\ probe'.elapsed = probe.elapsed
        /\ probe'.inbound = probe.inbound /\ probe' \in Reports
    <3>1. CASE phase = "reading count"
      <4>1. probe' = [probe EXCEPT !.since = probe.since + 1]
        BY <2>1, <3>1 DEF Raced
      <4> QED
        BY <4>1, <1>0, <1>2 DEF Reports
    <3>2. CASE phase # "reading count"
      <4>1. probe' = [probe EXCEPT !.since = probe.since]
        BY <2>1, <3>2 DEF Raced
      <4> QED
        BY <4>1, <1>0, <1>2 DEF Reports
    <3> QED
      BY <3>1, <3>2
  <2>3. /\ phase = "reading count" => probe'.since = probe.since + 1
        /\ phase # "reading count" => probe' = probe
    BY <2>1, <1>0, <1>2 DEF Raced, Reports
  <2>4. TypeOK'
    <3>1. StartupTypes'
      BY <2>1, <1>0, SameStartupTypes
    <3>2. HealthTypes'
      BY <2>1, <2>2, <1>0, NeverIsAge DEF HealthTypes
    <3> QED
      BY <3>1, <3>2, TypePartsPrimed
  <2>5. PollsAgree' /\ SniffedIsCounted'
    BY <2>1 DEF PollsAgree, Pending, SniffedIsCounted, startupVars, tools
  <2>6. StartIsConsistent'
    BY <2>1, SameStart DEF startupVars, unit, tools
  <2>7. StampFirst' /\ StampIsOthers'
    BY <2>1, <1>2, NeverIsAge DEF StampFirst, StampIsOthers
  <2>8. ReportSoFar'
    <3>1. ~Pending' => probe' = NoProbe
      BY <2>1, <2>3 DEF ReportSoFar, Pending, Probing, startupVars, tools
    <3>2. probe'.last <= probe'.quiet
            /\ (probe'.last = probe'.quiet \/ early' = TRUE)
      BY <2>1, <2>2 DEF ReportSoFar
    <3>3. ASSUME phase' = "reading count", probe'.last = Never,
                 probe'.lost = FALSE
          PROVE  inbound' <= probe'.since /\ inbound' + 1 <= probe'.since
      <4>1. phase = "reading count"
        BY <2>1, <3>3 DEF startupVars, tools
      <4>2. inbound <= probe.since
        BY <2>2, <3>3, <4>1 DEF ReportSoFar
      <4>3. inbound' = inbound /\ probe'.since = probe.since + 1
        BY <2>1, <2>3, <4>1
      <4> QED
        BY <1>2, <4>2, <4>3
    <3> QED
      BY <3>1, <3>2, <3>3 DEF ReportSoFar
  <2>9. ReportsAgree' /\ ProbeInTime'
    BY <2>1, <2>2, <2>3 DEF ReportsAgree, ProbeInTime, startupVars, tools
  <2> QED
    BY <2>4, <2>5, <2>6, <2>7, <2>8, <2>9
<1>4. CASE Count
  <2> USE <1>4
  <2>1. /\ stamping = TRUE /\ stamping' = FALSE
        /\ inbound' = inbound + 1 /\ age' = age
        /\ UNCHANGED <<startupVars, link, own, quiet, early, probe, polls,
                       sniffed>>
    BY <1>1, Flags DEF Count, Write
  <2>2. TypeOK'
    <3>1. StartupTypes'
      BY <2>1, <1>0, SameStartupTypes
    <3>2. inbound' \in Nat
      BY <2>1, <1>2
    <3>3. stamping' \in BOOLEAN
      BY <2>1
    <3>4. HealthTypes'
      BY <2>1, <1>0, <3>2, <3>3 DEF HealthTypes
    <3> QED
      BY <3>1, <3>4, TypePartsPrimed
  <2>3. PollsAgree' /\ SniffedIsCounted'
    BY <2>1 DEF PollsAgree, Pending, SniffedIsCounted, startupVars, tools
  <2>4. StartIsConsistent'
    BY <2>1, SameStart DEF startupVars, unit, tools
  <2>5. StampFirst' /\ StampIsOthers'
    BY <2>1 DEF StampFirst, StampIsOthers
  <2>6. ReportSoFar' /\ ReportsAgree' /\ ProbeInTime'
    BY <2>1 DEF ReportSoFar, ReportsAgree, ProbeInTime, Pending, startupVars,
       tools
  <2> QED
    BY <2>2, <2>3, <2>4, <2>5, <2>6
<1>5. CASE CountOwn
  <2>1. /\ own' = own + 1
        /\ UNCHANGED <<startupVars, link, age, inbound, stamping, quiet, early,
                       probe, polls, sniffed>>
    BY <1>5 DEF CountOwn
  <2>2. TypeOK'
    <3>1. StartupTypes'
      BY <2>1, <1>0, SameStartupTypes
    <3>2. HealthTypes'
      BY <2>1, <1>0 DEF HealthTypes
    <3> QED
      BY <3>1, <3>2, TypePartsPrimed
  <2>3. PollsAgree' /\ SniffedIsCounted'
    BY <2>1 DEF PollsAgree, Pending, SniffedIsCounted, startupVars, tools
  <2>4. StartIsConsistent'
    BY <2>1, SameStart DEF startupVars, unit, tools
  <2>5. StampFirst' /\ StampIsOthers'
    BY <2>1 DEF StampFirst, StampIsOthers
  <2>6. ReportSoFar' /\ ReportsAgree' /\ ProbeInTime'
    BY <2>1 DEF ReportSoFar, ReportsAgree, ProbeInTime, Pending, startupVars,
       tools
  <2> QED
    BY <2>2, <2>3, <2>4, <2>5, <2>6
<1> QED
  BY <1>3, <1>4, <1>5 DEF Reader

(* The answer of /health. *)
LEMMA HandlerInvariant ==
  ASSUME IInv, Handler
  PROVE  IInv'
<1> USE DEF IInv
<1>0. /\ StartupTypes /\ HealthTypes /\ probe \in Reports
      /\ polls \in [made : 0 .. Polls, late : 0 .. Polls]
      /\ sniffed \in Counts
  BY TypeParts DEF HealthTypes
<1>1. /\ age \in Ages /\ quiet \in Ages /\ inbound \in Nat /\ age \in Nat
      /\ quiet \in Nat /\ probe.since \in Nat
  BY <1>0, AgesAreNat DEF HealthTypes
<1>2. /\ UNCHANGED <<checked, world, unit, tool, verdict, radio, polls,
                     sniffed>>
      /\ Pending /\ phase' \in Phases /\ phase' # "idle"
  BY DEF Handler, AgentAsked, ReadLast, ReadCount, Pending, Probing, Phases
<1>3. StartupTypes'
  <2>1. tool' \in Tools /\ verdict' \in Verdicts
    BY <1>0, <1>2 DEF StartupTypes
  <2> QED
    BY <1>0, <1>2, <2>1, ToolTypes
<1>4. PollsAgree' /\ SniffedIsCounted'
  BY <1>2 DEF PollsAgree, SniffedIsCounted
<1>5. StartIsConsistent'
  BY <1>2, SameStart DEF unit
<1>6. StampFirst' /\ StampIsOthers'
  BY <1>2, SameRadio
<1>7. UNCHANGED <<age, inbound, stamping, quiet, early>>
  BY <1>2 DEF radio
<1>8. /\ probe' \in Reports
      /\ ReportSoFar' /\ ReportsAgree' /\ ProbeInTime'
  <2>1. CASE AgentAsked
    <3>1. probe' = probe /\ phase' = "reading last"
      BY <2>1 DEF AgentAsked
    <3>2. Pending'
      BY <3>1 DEF Pending, Probing
    <3> QED
      BY <1>0, <1>7, <3>1, <3>2 DEF ReportSoFar, ReportsAgree, ProbeInTime
  <2>2. CASE ReadLast
    <3>1. /\ probe' = [probe EXCEPT !.last = age, !.quiet = quiet]
          /\ phase' = "reading count"
      BY <2>2 DEF ReadLast
    <3>2. Pending'
      BY <3>1 DEF Pending, Probing
    <3>3. /\ probe' \in Reports /\ probe'.last = age /\ probe'.quiet = quiet
          /\ probe'.since = probe.since /\ probe'.elapsed = probe.elapsed
      BY <1>0, <1>1, <3>1 DEF Reports
    <3>4. age = Never => inbound <= probe.since /\ stamping = FALSE
      BY <1>1 DEF StampFirst
    <3>5. ReportSoFar'
      <4>1. stamping = FALSE => ~(stamping = TRUE)
        OBVIOUS
      <4> QED
        BY <1>7, <3>2, <3>3, <3>4, <4>1, Zenon DEF ReportSoFar, StampIsOthers
    <3> QED
      BY <3>1, <3>3, <3>5 DEF ReportsAgree, ProbeInTime
  <2>3. CASE ReadCount
    <3>1. /\ probe' = [probe EXCEPT !.inbound = inbound]
          /\ phase = "reading count" /\ phase' = "answering"
          /\ probe.lost = FALSE
      BY <2>3, Flags DEF ReadCount
    <3>2. Pending' /\ phase' # "reading count"
      BY <3>1 DEF Pending, Probing
    <3>3. /\ probe' \in Reports /\ probe'.last = probe.last
          /\ probe'.quiet = probe.quiet /\ probe'.inbound = inbound
          /\ probe'.since = probe.since /\ probe'.elapsed = probe.elapsed
      BY <1>0, <1>1, <3>1 DEF Reports
    <3>4. ReportSoFar'
      BY <1>7, <3>2, <3>3 DEF ReportSoFar
    <3>5. ReportsAgree'
      BY <3>1, <3>3 DEF ReportSoFar, ReportsAgree
    <3> QED
      BY <3>3, <3>4, <3>5 DEF ProbeInTime
  <2> QED
    BY <2>1, <2>2, <2>3 DEF Handler
<1>9. HealthTypes'
  BY <1>0, <1>2, <1>8, SameHealthTypes
<1> QED
  BY <1>3, <1>4, <1>5, <1>6, <1>8, <1>9, TypePartsPrimed

(* verify_bridge.sh. *)
LEMMA VerifierInvariant ==
  ASSUME IInv, Verifier
  PROVE  IInv'
<1> USE DEF IInv
<1>0. /\ StartupTypes /\ HealthTypes /\ probe \in Reports
      /\ polls \in [made : 0 .. Polls, late : 0 .. Polls]
      /\ sniffed \in Counts
  BY TypeParts DEF HealthTypes
<1>1. /\ UNCHANGED <<world, unit, radio, polls, sniffed>>
      /\ checked' \in {checked, Unread}
      /\ tool' = "verify" /\ phase' \in {"idle", "asking"}
      /\ verdict' \in {"none", "no answer", "gave up", "heard", "own only",
                       "nothing"}
      /\ probe' = NoProbe
  <2>1. CASE Verify
    BY <2>1 DEF Verify, Ask, OperatorFree, ReportSoFar, Pending, Probing
  <2>2. CASE Verified
    BY <2>2 DEF Verified, End
  <2>3. CASE VerifyGivesUp
    BY <2>3 DEF VerifyGivesUp, End
  <2> QED
    BY <2>1, <2>2, <2>3 DEF Verifier
<1>2. tool' \in Tools /\ phase' \in Phases /\ verdict' \in Verdicts
  BY <1>1 DEF Tools, Phases, Probing, Verdicts
<1>3. StartupTypes'
  BY <1>0, <1>1, <1>2, ToolTypes
<1>4. PollsAgree' /\ SniffedIsCounted'
  BY <1>1 DEF PollsAgree, SniffedIsCounted
<1>5. StartIsConsistent'
  BY <1>1, SameStart DEF unit
<1>6. StampFirst' /\ StampIsOthers'
  BY <1>1, SameRadio
<1>7. /\ probe' \in Reports
      /\ ReportSoFar' /\ ReportsAgree' /\ ProbeInTime'
  BY <1>1, ResetProbe
<1>8. HealthTypes'
  BY <1>0, <1>1, <1>7, SameHealthTypes
<1> QED
  BY <1>3, <1>4, <1>5, <1>6, <1>7, <1>8, TypePartsPrimed

(* The polls are numbers within the bound. *)
LEMMA PollTypes ==
  ASSUME polls \in [made : 0 .. Polls, late : 0 .. Polls]
  PROVE  /\ polls.made \in Nat /\ polls.late \in Nat
         /\ polls.made <= Polls /\ polls.late <= Polls
BY TimesAreNat

(* The poll of install.sh. *)
LEMMA InstallerInvariant ==
  ASSUME IInv, Installer
  PROVE  IInv'
<1> USE DEF IInv
<1>0. /\ StartupTypes /\ HealthTypes /\ probe \in Reports
      /\ polls \in [made : 0 .. Polls, late : 0 .. Polls]
      /\ sniffed \in Counts
  BY TypeParts DEF HealthTypes
<1>1. CASE Install
  <2>1. /\ UNCHANGED <<world, probe, polls, sniffed>>
        /\ loaded' = Unread /\ checked' = Unread
        /\ ~Pending /\ probe' = NoProbe
        /\ tool' = "installer" /\ phase' = "polling" /\ verdict' = "none"
        /\ wanted' = TRUE /\ service' = "loading" /\ failure' = "none"
        /\ RadioFollows
    BY <1>1 DEF Install, Begins, OperatorFree, ReportSoFar, Pending, Probing
  <2>2. /\ age' = Never /\ quiet' = Never /\ inbound' = 0 /\ own' = 0
        /\ stamping' = FALSE /\ early' = FALSE /\ link' \in BOOLEAN
    BY <2>1 DEF RadioFollows, Reading
  <2>3. StartupTypes'
    <3>1. node' = node /\ agent' = agent /\ portFree' = portFree
      BY <2>1 DEF world
    <3>2. tool' \in Tools' /\ phase' \in Phases' /\ verdict' \in Verdicts'
      BY <2>1 DEF Tools, Phases, Verdicts
    <3>3. portFree' \in BOOLEAN /\ wanted' \in BOOLEAN
      BY <1>0, <2>1, <3>1 DEF StartupTypes
    <3> QED
      BY <1>0, <2>1, <3>1, <3>2, <3>3 DEF StartupTypes
  <2>4. ~Pending' /\ phase' # "reading count"
    BY <2>1 DEF Pending, Probing
  <2>5. /\ probe' \in Reports
        /\ ReportSoFar' /\ ReportsAgree' /\ ProbeInTime'
    BY <2>1, <2>4, ResetProbe
  <2>6. HealthTypes'
    <3>1. stamping' \in BOOLEAN /\ early' \in BOOLEAN /\ link' \in BOOLEAN
      BY <2>2
    <3>2. age' \in Ages /\ quiet' \in Ages /\ inbound' \in Nat /\ own' \in Nat
      BY <2>2, NeverIsAge
    <3>3. polls' = polls /\ sniffed' = sniffed
      BY <2>1
    <3> QED
      BY <1>0, <2>5, <3>1, <3>2, <3>3 DEF HealthTypes
  <2>7. PollsAgree' /\ SniffedIsCounted'
    BY <2>1, <2>4 DEF PollsAgree, SniffedIsCounted
  <2>8. StartIsConsistent'
    BY <2>1 DEF StartIsConsistent
  <2>9. StampFirst' /\ StampIsOthers'
    BY <2>2, AtMost DEF StampFirst, StampIsOthers
  <2> QED
    BY <2>3, <2>5, <2>6, <2>7, <2>8, <2>9, TypePartsPrimed
<1>2. ASSUME Poll \/ PollsEnd \/ Installed \/ PollGivesUp
      PROVE  IInv'
  <2>1. /\ UNCHANGED <<checked, world, unit, radio, sniffed>>
        /\ tool = "installer" /\ tool' = "installer"
    BY <1>2 DEF Poll, PollsEnd, Installed, PollGivesUp, InstallerEnds, End
  <2>2. /\ phase' \in {"idle", "polling", "asking"}
        /\ verdict' \in {verdict, "no API", "not active", "installed"}
        /\ probe' = NoProbe
    <3>1. CASE Poll
      BY <3>1 DEF Poll, Ask, ReportSoFar, Pending, Probing
    <3>2. CASE PollsEnd \/ Installed \/ PollGivesUp
      BY <3>2 DEF PollsEnd, Installed, PollGivesUp, InstallerEnds, End
    <3> QED
      BY <1>2, <3>1, <3>2
  <2>3. StartupTypes'
    <3>1. tool' \in Tools /\ phase' \in Phases
      BY <2>1, <2>2 DEF Tools, Phases, Probing
    <3>2. verdict' \in Verdicts
      BY <1>0, <2>2 DEF StartupTypes, Verdicts
    <3> QED
      BY <1>0, <2>1, <3>1, <3>2, ToolTypes
  <2>4. /\ polls' \in [made : 0 .. Polls, late : 0 .. Polls]
        /\ PollsAgree'
    <3>1. /\ polls.made \in Nat /\ polls.late \in Nat
          /\ polls.made <= Polls /\ polls.late <= Polls /\ Polls \in Nat
          /\ polls.late <= polls.made
      BY <1>0, PollTypes, TimesAreNat DEF PollsAgree
    <3>2. CASE Poll
      <4>1. /\ polls.made < Polls /\ polls' = [polls EXCEPT !.made = @ + 1]
        BY <3>2 DEF Poll
      <4>2. /\ polls' \in [made : 0 .. Polls, late : 0 .. Polls]
            /\ polls'.late = polls.late /\ polls'.made = polls.made + 1
        BY <1>0, <3>1, <4>1
      <4> QED
        BY <3>1, <4>2 DEF PollsAgree
    <3>3. CASE PollsEnd \/ Installed
      <4>1. polls' = NoPolls /\ phase' = "idle"
        BY <3>3 DEF PollsEnd, Installed, InstallerEnds, End
      <4>2. /\ polls' \in [made : 0 .. Polls, late : 0 .. Polls]
            /\ polls'.late = 0 /\ polls'.made = 0
        BY <4>1, <3>1 DEF NoPolls
      <4>3. ~Pending'
        BY <4>1 DEF Pending, Probing
      <4> QED
        BY <4>2, <4>3 DEF PollsAgree
    <3>4. CASE PollGivesUp
      <4>1. /\ Pending /\ phase' = "polling"
            /\ polls' = [polls EXCEPT !.late =
                           IF probe.lost THEN polls.late ELSE polls.late + 1]
        BY <3>4 DEF PollGivesUp, Pending
      <4>2. ~Pending'
        BY <4>1 DEF Pending, Probing
      <4>3. polls.late < polls.made
        BY <2>1, <4>1 DEF PollsAgree
      <4>4. PICK late \in {polls.late, polls.late + 1} :
              polls' = [polls EXCEPT !.late = late]
        BY <4>1
      <4>5. late \in 0 .. Polls /\ late <= polls.made
        BY <3>1, <4>3, <4>4
      <4>6. /\ polls' \in [made : 0 .. Polls, late : 0 .. Polls]
            /\ polls'.late = late /\ polls'.made = polls.made
        BY <1>0, <4>4, <4>5
      <4> QED
        BY <4>2, <4>5, <4>6 DEF PollsAgree
    <3> QED
      BY <1>2, <3>2, <3>3, <3>4
  <2>5. SniffedIsCounted'
    BY <2>1 DEF SniffedIsCounted
  <2>6. StartIsConsistent'
    BY <2>1, SameStart DEF unit
  <2>7. StampFirst' /\ StampIsOthers'
    BY <2>1, SameRadio
  <2>8. /\ probe' \in Reports
        /\ ReportSoFar' /\ ReportsAgree' /\ ProbeInTime'
    BY <2>2, ResetProbe
  <2>9. HealthTypes'
    BY <1>0, <2>1, <2>4, <2>8, SameHealthTypes
  <2> QED
    BY <2>3, <2>4, <2>5, <2>6, <2>7, <2>8, <2>9, TypePartsPrimed
<1> QED
  BY <1>1, <1>2 DEF Installer

(* mesh_sniffer.py. *)
LEMMA SnifferInvariant ==
  ASSUME IInv, Sniffer
  PROVE  IInv'
<1> USE DEF IInv
<1>0. /\ StartupTypes /\ HealthTypes /\ probe \in Reports
      /\ polls \in [made : 0 .. Polls, late : 0 .. Polls]
      /\ sniffed \in Counts
  BY TypeParts DEF HealthTypes
<1>1. /\ UNCHANGED <<world, unit, radio, probe, polls>>
      /\ checked' \in {checked, Unread}
      /\ tool' = "sniffer" /\ probe = NoProbe
      /\ phase' \in {"idle", "opening", "listening"}
      /\ verdict' \in {verdict, "none", "receives", "deaf"}
  <2>1. CASE Sniff
    BY <2>1 DEF Sniff, OperatorFree, ReportSoFar, Pending, Probing
  <2>2. CASE LearnNumber
    BY <2>2 DEF LearnNumber, ReportSoFar, Pending, Probing
  <2>3. CASE Sniffed
    BY <2>3 DEF Sniffed, End, ReportSoFar, Pending, Probing
  <2>4. ASSUME Recognises \/ \E mine \in BOOLEAN : Sniffs(mine)
        PROVE  /\ UNCHANGED <<checked, world, unit, radio, probe, polls>>
               /\ tool' = "sniffer" /\ probe = NoProbe
               /\ phase' \in {"idle", "opening", "listening"}
               /\ verdict' = verdict
    BY <2>4 DEF Sniffs, Recognises, Sniffing, ReportSoFar, Pending, Probing,
       startupVars, tools
  <2> QED
    BY <2>1, <2>2, <2>3, <2>4 DEF Sniffer
<1>2. sniffed' \in Counts /\ SniffedIsCounted'
  <2>0. /\ sniffed.total \in Nat /\ sniffed.own \in Nat
        /\ sniffed.between \in 0 .. 1 /\ sniffed.others \in Nat
        /\ sniffed.early \in Nat
    BY <1>0 DEF Counts
  <2>1. CASE Sniff \/ LearnNumber
    <3>1. sniffed' = sniffed
      BY <2>1 DEF Sniff, LearnNumber
    <3> QED
      BY <1>0, <3>1 DEF SniffedIsCounted
  <2>2. CASE Sniffed
    <3>1. sniffed' = NothingSniffed
      BY <2>2 DEF Sniffed
    <3> QED
      BY <3>1 DEF SniffedIsCounted, NothingSniffed, Counts
  <2>5. /\ sniffed.total + 1 \in Nat /\ sniffed.others + 1 \in Nat
        /\ sniffed.own + 1 \in Nat /\ sniffed.early + 1 \in Nat
        /\ 0 \in 0 .. 1 /\ 1 \in 0 .. 1
    BY <2>0
  <2>3. ASSUME NEW mine \in BOOLEAN, Sniffs(mine)
        PROVE  sniffed' \in Counts /\ SniffedIsCounted'
    <3>1. CASE mine
      <4>1. sniffed' = [sniffed EXCEPT !.total = sniffed.total + 1,
                          !.others = sniffed.others, !.between = 1]
        BY <2>3, <3>1 DEF Sniffs
      <4>2. sniffed' \in Counts
        BY <1>0, <2>0, <2>5, <4>1 DEF Counts
      <4>3. /\ sniffed'.total = sniffed.total + 1 /\ sniffed'.own = sniffed.own
            /\ sniffed'.others = sniffed.others /\ sniffed'.between = 1
            /\ sniffed'.early = sniffed.early
        BY <1>0, <4>1 DEF Counts
      <4>4. sniffed.between = 0
        BY <2>3 DEF Sniffs
      <4> QED
        BY <2>0, <4>2, <4>3, <4>4 DEF SniffedIsCounted
    <3>2. CASE ~mine
      <4>1. sniffed' = [sniffed EXCEPT !.total = sniffed.total + 1,
                          !.others = sniffed.others + 1, !.between = 0]
        BY <2>3, <3>2 DEF Sniffs
      <4>2. sniffed' \in Counts
        BY <1>0, <2>0, <2>5, <4>1 DEF Counts
      <4>3. /\ sniffed'.total = sniffed.total + 1 /\ sniffed'.own = sniffed.own
            /\ sniffed'.others = sniffed.others + 1 /\ sniffed'.between = 0
            /\ sniffed'.early = sniffed.early
        BY <1>0, <4>1 DEF Counts
      <4>4. sniffed.between = 0
        BY <2>3 DEF Sniffs
      <4> QED
        BY <2>0, <4>2, <4>3, <4>4 DEF SniffedIsCounted
    <3> QED
      BY <3>1, <3>2
  <2>4. CASE Recognises
    <3>0. sniffed.between = 1
      BY <2>4 DEF Recognises
    <3>1. CASE phase = "listening"
      <4>1. sniffed' = [sniffed EXCEPT !.between = 0,
                          !.own = sniffed.own + 1]
        BY <2>4, <3>1 DEF Recognises
      <4>2. sniffed' \in Counts
        BY <1>0, <2>0, <2>5, <4>1 DEF Counts
      <4>3. /\ sniffed'.total = sniffed.total
            /\ sniffed'.own = sniffed.own + 1
            /\ sniffed'.others = sniffed.others /\ sniffed'.between = 0
            /\ sniffed'.early = sniffed.early
        BY <1>0, <4>1 DEF Counts
      <4> QED
        BY <2>0, <3>0, <4>2, <4>3 DEF SniffedIsCounted
    <3>2. CASE phase # "listening"
      <4>1. sniffed' = [sniffed EXCEPT !.between = 0,
                          !.early = sniffed.early + 1]
        BY <2>4, <3>2 DEF Recognises
      <4>2. sniffed' \in Counts
        BY <1>0, <2>0, <2>5, <4>1 DEF Counts
      <4>3. /\ sniffed'.total = sniffed.total /\ sniffed'.own = sniffed.own
            /\ sniffed'.others = sniffed.others /\ sniffed'.between = 0
            /\ sniffed'.early = sniffed.early + 1
        BY <1>0, <4>1 DEF Counts
      <4> QED
        BY <2>0, <3>0, <4>2, <4>3 DEF SniffedIsCounted
    <3> QED
      BY <3>1, <3>2
  <2> QED
    BY <2>1, <2>2, <2>3, <2>4 DEF Sniffer
<1>3. StartupTypes'
  <2>1. tool' \in Tools /\ phase' \in Phases
    BY <1>1 DEF Tools, Phases
  <2>2. verdict' \in Verdicts
    BY <1>0, <1>1 DEF StartupTypes, Verdicts
  <2> QED
    BY <1>0, <1>1, <2>1, <2>2, ToolTypes
<1>4. PollsAgree'
  BY <1>1 DEF PollsAgree
<1>5. StartIsConsistent'
  BY <1>1, SameStart DEF unit
<1>6. StampFirst' /\ StampIsOthers'
  BY <1>1, SameRadio
<1>7. phase' # "reading count" /\ probe' = NoProbe
  BY <1>1
<1>8. /\ probe' \in Reports
      /\ ReportSoFar' /\ ReportsAgree' /\ ProbeInTime'
  BY <1>7, ResetProbe
<1>9. HealthTypes'
  BY <1>0, <1>1, <1>2, <1>8, SameHealthTypes
<1> QED
  BY <1>2, <1>3, <1>4, <1>5, <1>6, <1>8, <1>9, TypePartsPrimed

(* Getting older keeps the order of two ages. *)
LEMMA OlderAges ==
  ASSUME NEW a \in Ages, NEW q \in Ages
  PROVE  /\ Older(a) \in Ages
         /\ Older(a) = Never <=> a = Never
         /\ a <= q => Older(a) <= Older(q)
         /\ a = q => Older(a) = Older(q)
BY TimesAreNat DEF Ages, Never, Older

(* The passing of time. *)
LEMMA TickInvariant ==
  ASSUME IInv, Tick
  PROVE  IInv'
<1> USE DEF IInv
<1>0. /\ StartupTypes /\ HealthTypes /\ probe \in Reports
      /\ age \in Ages /\ quiet \in Ages
  BY TypeParts DEF HealthTypes
<1>1. /\ UNCHANGED <<startupVars, link, inbound, own, stamping, early, polls,
                     sniffed>>
      /\ age' = Older(age) /\ quiet' = Older(quiet)
      /\ \/ Pending /\ probe' = [probe EXCEPT !.elapsed = probe.elapsed + 1]
              /\ probe.elapsed < CheckTimeout + Lateness
         \/ ~Pending /\ probe' = probe
  BY DEF Tick, Due
<1>2. /\ probe' \in Reports /\ probe'.last = probe.last
      /\ probe'.quiet = probe.quiet /\ probe'.inbound = probe.inbound
      /\ probe'.lost = probe.lost /\ probe'.since = probe.since
      /\ ProbeInTime' /\ (~Pending => probe' = probe)
  <2>1. CASE /\ Pending
             /\ probe' = [probe EXCEPT !.elapsed = probe.elapsed + 1]
             /\ probe.elapsed < CheckTimeout + Lateness
    <3>1. /\ probe.elapsed \in Nat /\ probe.elapsed + 1 \in Nat
          /\ probe.elapsed + 1 <= CheckTimeout + Lateness
      BY <1>0, <2>1, AgesAreNat, TimesAreNat
    <3>2. /\ probe' \in Reports /\ probe'.last = probe.last
          /\ probe'.quiet = probe.quiet /\ probe'.inbound = probe.inbound
          /\ probe'.lost = probe.lost /\ probe'.since = probe.since
          /\ probe'.elapsed = probe.elapsed + 1
      BY <1>0, <2>1, <3>1 DEF Reports
    <3> QED
      BY <2>1, <3>1, <3>2 DEF ProbeInTime
  <2>2. CASE ~Pending /\ probe' = probe
    BY <1>0, <2>2 DEF ProbeInTime
  <2> QED
    BY <1>1, <2>1, <2>2
<1>3. /\ age' \in Ages /\ quiet' \in Ages /\ age' <= quiet'
      /\ age' = Never => age = Never
      /\ age = quiet => age' = quiet'
  BY <1>0, <1>1, OlderAges DEF StampIsOthers
<1>4. StartupTypes'
  BY <1>0, <1>1, SameStartupTypes
<1>5. HealthTypes'
  BY <1>0, <1>1, <1>2, <1>3 DEF HealthTypes
<1>6. PollsAgree' /\ SniffedIsCounted'
  BY <1>1 DEF PollsAgree, Pending, SniffedIsCounted, startupVars, tools
<1>7. StartIsConsistent'
  BY <1>1, SameStart DEF startupVars, unit, tools
<1>8. StampFirst' /\ StampIsOthers'
  BY <1>1, <1>3 DEF StampFirst, StampIsOthers
<1>9. phase' = phase /\ (Pending' <=> Pending)
  BY <1>1 DEF startupVars, tools, Pending
<1>10. ReportSoFar' /\ ReportsAgree'
  BY <1>1, <1>2, <1>9 DEF ReportSoFar, ReportsAgree
<1> QED
  BY <1>2, <1>4, <1>5, <1>6, <1>7, <1>8, <1>10, TypePartsPrimed

(* The initial states. *)
LEMMA InitInvariant ==
  ASSUME HealthInit
  PROVE  IInv
<1> USE DEF HealthInit, Init
<1>1. ~Pending
  BY DEF Pending, Probing
<1>2. /\ probe \in Reports /\ probe.elapsed = 0 /\ probe.last = Never
      /\ probe.quiet = Never /\ probe.inbound = 0 /\ probe.since = 0
  BY NewProbes DEF Reports
<1>3. StartupTypes
  <2>1. portFree \in BOOLEAN /\ wanted \in BOOLEAN
    OBVIOUS
  <2>2. tool \in Tools /\ phase \in Phases /\ verdict \in Verdicts
    BY DEF Tools, Phases, Verdicts
  <2> QED
    BY <2>1, <2>2 DEF StartupTypes
<1>4. HealthTypes
  <2>1. link \in BOOLEAN /\ stamping \in BOOLEAN /\ early \in BOOLEAN
    OBVIOUS
  <2>2. age \in Ages /\ quiet \in Ages /\ inbound \in Nat /\ own \in Nat
    BY NeverIsAge
  <2>3. polls \in [made : 0 .. Polls, late : 0 .. Polls]
    BY TimesAreNat DEF NoPolls
  <2>4. sniffed \in Counts
    BY DEF NothingSniffed, Counts
  <2> QED
    BY <1>2, <2>1, <2>2, <2>3, <2>4 DEF HealthTypes
<1>5. PollsAgree /\ SniffedIsCounted
  BY <1>1 DEF PollsAgree, SniffedIsCounted, NoPolls, NothingSniffed
<1>6. StartIsConsistent
  BY DEF StartIsConsistent
<1>7. StampFirst /\ StampIsOthers
  BY AtMost DEF StampFirst, StampIsOthers
<1>8. ReportSoFar /\ ReportsAgree /\ ProbeInTime
  BY <1>2, AtMost DEF ReportSoFar, ReportsAgree, ProbeInTime
<1> QED
  BY <1>3, <1>4, <1>5, <1>6, <1>7, <1>8, TypeParts DEF IInv

(* Every step. *)
LEMMA NextInvariant ==
  ASSUME IInv, [Next]_vars
  PROVE  IInv'
<1>1. CASE StartupNext /\ Follows
  BY <1>1, StartupInvariant
<1>2. CASE Reader
  BY <1>2, ReaderInvariant
<1>3. CASE Handler
  BY <1>3, HandlerInvariant
<1>4. CASE Verifier
  BY <1>4, VerifierInvariant
<1>5. CASE Installer
  BY <1>5, InstallerInvariant
<1>6. CASE Sniffer
  BY <1>6, SnifferInvariant
<1>7. CASE Tick
  BY <1>7, TickInvariant
<1>8. CASE UNCHANGED vars
  <2>1. UNCHANGED <<startupVars, radio, probe, polls, sniffed>>
    BY <1>8 DEF vars
  <2>2. TypeOK'
    <3>1. StartupTypes' /\ StartupTypes
      BY <2>1, TypeParts, SameStartupTypes DEF IInv
    <3>2. HealthTypes'
      BY <2>1, TypeParts, SameHealthTypes DEF IInv, HealthTypes
    <3> QED
      BY <3>1, <3>2, TypePartsPrimed
  <2>3. PollsAgree' /\ SniffedIsCounted'
    BY <2>1 DEF IInv, PollsAgree, Pending, SniffedIsCounted, startupVars, tools
  <2>4. StartIsConsistent'
    BY <2>1, SameStart DEF IInv, startupVars, unit, tools
  <2>5. StampFirst' /\ StampIsOthers'
    BY <2>1, SameRadio DEF IInv
  <2>6. ReportSoFar' /\ ReportsAgree' /\ ProbeInTime'
    BY <2>1 DEF IInv, ReportSoFar, ReportsAgree, ProbeInTime, Pending,
       startupVars, tools, radio
  <2> QED
    BY <2>2, <2>3, <2>4, <2>5, <2>6 DEF IInv
<1> QED
  BY <1>1, <1>2, <1>3, <1>4, <1>5, <1>6, <1>7, <1>8 DEF Next

(* The invariant that the properties follow from. *)
THEOREM Invariant == Spec => []IInv
<1>1. HealthInit => IInv
  BY InitInvariant
<1>2. IInv /\ [Next]_vars => IInv'
  BY NextInvariant
<1> QED
  BY <1>1, <1>2, PTL DEF Spec

----------------------------------------------------------------------------
(* What follows                                                            *)

(* The variables of Health have their types in every reachable state.      *)
THEOREM TypeCorrect == Spec => []TypeOK
<1>1. IInv => TypeOK
  BY DEF IInv
<1> QED
  BY <1>1, Invariant, PTL

(* Whatever --check and the service read, if it was the same, the start    *)
(* has ended with the configuration exactly if --check rejects it, but for *)
(* the log level (main.py:276-370, config.py:246-286,                      *)
(* transport.py:225-235).                                                  *)
THEOREM Predicted == Spec => []CheckPredictsTheStart
<1>1. IInv => CheckPredictsTheStart
  <2> SUFFICES ASSUME IInv, tool = "check", checked = loaded
               PROVE  failure = "config" <=>
                        verdict = "rejected" \/ Has(loaded, "log level")
    BY DEF CheckPredictsTheStart
  <2>1. loaded \in Settings /\ (verdict = "rejected" <=> Rejects(loaded))
    BY DEF IInv, StartIsConsistent
  <2>2. failure = "config" <=> ~Acceptable(loaded)
    BY <2>1, SettingsAssumption DEF IInv, StartIsConsistent
  <2>3. ~Acceptable(loaded) <=> Rejects(loaded) \/ Has(loaded, "log level")
    BY DEF Rejects, Acceptable, Validates
  <2> QED
    BY <2>1, <2>2, <2>3
<1> QED
  BY <1>1, Invariant, PTL

(* A report without a packet counts only those that came while it was put  *)
(* together (main.py:115-125, 241-259).                                    *)
THEOREM ReportsOfOneMoment == Spec => []ReportsAgree
<1>1. IInv => ReportsAgree
  BY DEF IInv
<1> QED
  BY <1>1, Invariant, PTL

(* A probe within the time of the bridge is within that of curl. *)
LEMMA StillInTime ==
  ASSUME CheckTimeout + Lateness < VerifyPatience,
         NEW e \in Nat, e <= CheckTimeout + Lateness
  PROVE  ~(e >= VerifyPatience)
BY TimesAreNat

(* If the patience of verify_bridge.sh exceeds what check_health and the   *)
(* loop may take together, a bridge that is up is never given up           *)
(* (http_client.py:307, verify_bridge.sh:27).                              *)
THEOREM Answered ==
  ASSUME CheckTimeout + Lateness < VerifyPatience
  PROVE  Spec => []VerificationIsAnswered
<1>1. HealthInit => VerificationIsAnswered
  BY DEF HealthInit, Init, VerificationIsAnswered
<1>2. IInv /\ VerificationIsAnswered /\ [Next]_vars => VerificationIsAnswered'
  <2> SUFFICES ASSUME IInv, VerificationIsAnswered, [Next]_vars
               PROVE  VerificationIsAnswered'
    OBVIOUS
  <2> USE DEF VerificationIsAnswered
  <2>1. CASE StartupNext /\ Follows
    BY <2>1, StartupStep DEF IInv, tools
  <2>2. CASE Reader \/ Handler \/ Tick
    BY <2>2
    DEF Reader, Stamp, Count, CountOwn, Handler, AgentAsked, ReadLast,
        ReadCount, Tick, startupVars, tools
  <2>3. CASE Verify \/ Verified
    BY <2>3 DEF Verify, Verified, End
  <2>4. CASE VerifyGivesUp
    <3>1. probe.elapsed <= CheckTimeout + Lateness
      BY DEF IInv, ProbeInTime
    <3>2. probe.elapsed \in Nat
      BY AgesAreNat DEF IInv
    <3>3. ~(probe.elapsed >= VerifyPatience)
      BY <3>1, <3>2, StillInTime
    <3> QED
      BY <2>4, <3>3 DEF VerifyGivesUp, End, Unanswered, Patience
  <2>5. CASE Installer
    BY <2>5
    DEF Installer, Install, Poll, PollsEnd, Installed, PollGivesUp,
        InstallerEnds, End
  <2>6. CASE Sniffer
    BY <2>6
    DEF Sniffer, Sniff, LearnNumber, Sniffed, Sniffs, Recognises,
        End, startupVars, tools
  <2>7. CASE UNCHANGED vars
    BY <2>7 DEF vars, startupVars, tools
  <2> QED
    BY <2>1, <2>2, <2>3, <2>4, <2>5, <2>6, <2>7 DEF Next, Verifier
<1> QED
  BY <1>1, <1>2, Invariant, PTL DEF Spec

(* verify_bridge.sh tells a radio that heard another node lately from one  *)
(* that did not, but for own packets that were taken for another's         *)
(* (main.py:115-125, 241-259, verify_bridge.sh:57-67).                     *)
THEOREM VerdictFollows == Spec => VerdictIsTrue
<1>1. ASSUME IInv, [Next]_vars
      PROVE  [tool = "verify" /\ phase = "answering" /\ phase' = "idle" =>
               /\ verdict' = "heard" => probe.quiet < Fresh \/ early
               /\ verdict' \in {"own only", "nothing"} =>
                    probe.quiet >= Fresh]_vars
  <2> SUFFICES ASSUME tool = "verify", phase = "answering", phase' = "idle"
               PROVE  /\ verdict' = "heard" => probe.quiet < Fresh \/ early
                      /\ verdict' \in {"own only", "nothing"} =>
                           probe.quiet >= Fresh
    OBVIOUS
  <2>1. Verified \/ VerifyGivesUp
    <3>1. ~(StartupNext /\ Follows)
      <4> SUFFICES ASSUME StartupNext
                   PROVE  FALSE
        OBVIOUS
      <4> QED
        BY <1>1, StartupStep DEF IInv, tools
    <3>2. ~Reader /\ ~Handler /\ ~Tick
      BY DEF Reader, Stamp, Count, CountOwn, Handler, AgentAsked, ReadLast,
         ReadCount, Tick, startupVars, tools
    <3>3. ~Verify /\ ~Installer
      BY DEF Verify, OperatorFree, Installer, Install, Poll, PollsEnd,
         Installed, PollGivesUp
    <3>4. ~Sniffer
      BY DEF Sniffer, Sniff, OperatorFree, LearnNumber, Sniffed, Sniffs,
         Recognises, Sniffing
    <3>5. ~UNCHANGED vars
      BY DEF vars, startupVars, tools
    <3> QED
      BY <1>1, <3>1, <3>2, <3>3, <3>4, <3>5 DEF Next, Verifier
  <2>2. CASE VerifyGivesUp
    BY <2>2 DEF VerifyGivesUp, End
  <2>3. CASE Verified
    <3>1. /\ probe.last \in Nat /\ probe.quiet \in Nat
          /\ probe.last <= probe.quiet
          /\ probe.last = probe.quiet \/ early = TRUE
      BY <1>1, AgesAreNat DEF IInv, ReportSoFar
    <3>2. CASE probe.last < Fresh
      <4>1. ~(probe.last >= Fresh)
        BY <3>1, <3>2, TimesAreNat
      <4>2. verdict' = "heard"
        BY <2>3, <3>2, <4>1, Zenon DEF Verified, End
      <4> QED
        BY <3>1, <3>2, <4>2
    <3>3. CASE ~(probe.last < Fresh)
      <4>1. verdict' # "heard"
        BY <2>3, <3>1, <3>3, TimesAreNat DEF Verified, End
      <4>2. probe.quiet >= Fresh
        BY <3>1, <3>3, TimesAreNat
      <4> QED
        BY <4>1, <4>2
    <3> QED
      BY <3>2, <3>3
  <2> QED
    BY <2>1, <2>2, <2>3
<1> QED
  BY <1>1, Invariant, PTL DEF Spec, VerdictIsTrue

(* mesh_sniffer.py calls deaf only what heard nobody else, and receiving   *)
(* only what did, but for own packets that it looked at too early or not   *)
(* yet (mesh_sniffer.py:28-86).                                            *)
THEOREM SnifferFollows == Spec => SnifferIsRight
<1>1. ASSUME IInv, [Next]_vars
      PROVE  [tool = "sniffer" /\ phase = "listening" /\ phase' = "idle" =>
               /\ verdict' = "deaf" => sniffed.others = 0
               /\ verdict' = "receives" =>
                    \/ sniffed.others > 0
                    \/ sniffed.early > 0 \/ sniffed.between > 0]_vars
  <2> SUFFICES ASSUME tool = "sniffer", phase = "listening", phase' = "idle"
               PROVE  /\ verdict' = "deaf" => sniffed.others = 0
                      /\ verdict' = "receives" =>
                           \/ sniffed.others > 0
                           \/ sniffed.early > 0 \/ sniffed.between > 0
    OBVIOUS
  <2>1. Sniffed
    <3>1. ~(StartupNext /\ Follows)
      <4> SUFFICES ASSUME StartupNext
                   PROVE  FALSE
        OBVIOUS
      <4> QED
        BY <1>1, StartupStep DEF IInv, tools
    <3>2. ~Reader /\ ~Handler /\ ~Tick
      BY DEF Reader, Stamp, Count, CountOwn, Handler, AgentAsked, ReadLast,
         ReadCount, Tick, startupVars, tools
    <3>3. ~Verifier /\ ~Installer
      BY DEF Verifier, Verify, Verified, VerifyGivesUp, OperatorFree, Installer,
         Install, Poll, PollsEnd, Installed, PollGivesUp
    <3>4. /\ ~Sniff /\ ~LearnNumber /\ ~Recognises
          /\ ~(\E mine \in BOOLEAN : Sniffs(mine))
      BY DEF Sniff, OperatorFree, LearnNumber, Recognises, Sniffs, startupVars,
         tools
    <3>5. ~UNCHANGED vars
      BY DEF vars, startupVars, tools
    <3> QED
      BY <1>1, <3>1, <3>2, <3>3, <3>4, <3>5 DEF Next, Sniffer
  <2>2. /\ sniffed.total \in Nat /\ sniffed.own \in Nat
        /\ sniffed.others \in Nat /\ sniffed.early \in Nat
        /\ sniffed.between \in 0 .. 1
        /\ sniffed.total =
             sniffed.own + sniffed.between + sniffed.others + sniffed.early
    <3>1. sniffed \in Counts
      BY <1>1, TypeParts DEF IInv, HealthTypes
    <3> QED
      BY <1>1, <3>1 DEF IInv, SniffedIsCounted, Counts
  <2>3. CASE sniffed.total > sniffed.own
    <3>1. verdict' = "receives"
      BY <2>1, <2>3 DEF Sniffed, End
    <3> QED
      BY <2>2, <2>3, <3>1
  <2>4. CASE ~(sniffed.total > sniffed.own)
    <3>1. verdict' = "deaf"
      BY <2>1, <2>4 DEF Sniffed, End
    <3> QED
      BY <2>2, <2>4, <3>1
  <2> QED
    BY <2>3, <2>4
<1> QED
  BY <1>1, Invariant, PTL DEF Spec, SnifferIsRight
=============================================================================
