------------------------------- MODULE Health --------------------------------
(***************************************************************************)
(* What /health says of the radio, and the tools that look at it:          *)
(* scripts/verify_bridge.sh, the wait for the API in deploy/install.sh,    *)
(* and scripts/mesh_sniffer.py, which listens to the node itself.          *)
(*                                                                         *)
(* The reader thread counts packets (_on_packet in bridge/main.py) in two  *)
(* writes, while the loop answers /health (_get_health) in several reads,  *)
(* after it has waited for the agent. Startup has the life of the service. *)
(***************************************************************************)
EXTENDS Startup, Integers

CONSTANTS
  CheckTimeout,    \* how long check_health waits for the agent
  VerifyPatience,  \* curl --max-time in verify_bridge.sh
  PollPatience,    \* curl --max-time in install.sh
  Polls,           \* how often install.sh asks
  Lateness,        \* how much later than due the loop may resume a coroutine
  Fresh,           \* the age from which verify_bridge.sh distrusts a packet
  MaxPackets       \* bound: packets of one run of the bridge or the sniffer

ASSUME TimesAssumption ==
  {CheckTimeout, VerifyPatience, PollPatience, Polls, Lateness, Fresh,
   MaxPackets} \subseteq Nat

VARIABLES
  link,      \* the interface hears the node: not once it was unplugged
  age,       \* _last_packet_at, as the time since then
  inbound,   \* _packet_count
  own,       \* _own_packet_count
  stamping,  \* the reader is between its two writes
  quiet,     \* history: the time since a packet of another node
  early,     \* history: the bridge took a packet of its own for another's
  probe,     \* the GET /health of the tool
  polls,     \* install.sh: polls made; history: those that a bridge which
             \* was up did not answer in time
  sniffed    \* mesh_sniffer.py: total and own; an own packet between them;
             \* history: the packets of others, and own ones that were looked
             \* at too early

radio == <<link, age, inbound, own, stamping, quiet, early>>
vars == <<startupVars, radio, probe, polls, sniffed>>

Never == Fresh + 1                  \* no packet yet
Ages == 0 .. Never
Older(a) == IF a < Fresh THEN a + 1 ELSE a

NoProbe == [elapsed |-> 0, lost |-> FALSE, last |-> Never, inbound |-> 0,
            quiet |-> Never, since |-> 0]
NoPolls == [made |-> 0, late |-> 0]
NothingSniffed ==
  [total |-> 0, own |-> 0, between |-> 0, others |-> 0, early |-> 0]

HealthInit ==
  /\ Init
  /\ link = FALSE
  /\ age = Never /\ quiet = Never
  /\ inbound = 0 /\ own = 0 /\ stamping = FALSE /\ early = FALSE
  /\ probe = NoProbe
  /\ polls = NoPolls
  /\ sniffed = NothingSniffed

----------------------------------------------------------------------------
(* The counters follow the service: a new process starts from nothing      *)

Reading == {"subscribed", "binding", "up"}

RadioFollows ==
  /\ link' = (service' \in Reading /\ node' = "answering"
                /\ (link \/ service = "opening"))
  /\ IF service' \in Reading
     THEN UNCHANGED <<age, inbound, own, stamping, quiet, early>>
     ELSE /\ age' = Never /\ quiet' = Never
          /\ inbound' = 0 /\ own' = 0 /\ stamping' = FALSE /\ early' = FALSE

Probing == {"asking", "reading last", "reading count", "answering"}
Pending == phase \in Probing

(* A request is lost with the process that has it. *)
ProbeFollows ==
  probe' = IF Pending /\ service' # "up" THEN [NoProbe EXCEPT !.lost = TRUE]
                                         ELSE probe

Follows == RadioFollows /\ ProbeFollows /\ UNCHANGED <<polls, sniffed>>

----------------------------------------------------------------------------
(* _on_packet                                                              *)

CanRead == link /\ service \in Reading /\ ~stamping
             /\ inbound + own < MaxPackets

OwnIdKnown == service # "subscribed"

(* A packet that began while /health was being put together. *)
Raced == [probe EXCEPT !.since = IF phase = "reading count" THEN @ + 1 ELSE @]

(* _last_packet_at, then _packet_count. Mutant: the other way round. *)
MutOrder == <<"count", "last">>
Order == <<"last", "count">>
Write(i) ==
  IF Order[i] = "last" THEN age' = 0 /\ UNCHANGED inbound
                       ELSE inbound' = inbound + 1 /\ UNCHANGED age

(* A packet of another node, or of this one while its id is unknown. *)
Stamp ==
  /\ CanRead
  /\ Write(1) /\ stamping' = TRUE /\ probe' = Raced
  /\ \/ quiet' = 0 /\ UNCHANGED early
     \/ ~OwnIdKnown /\ early' = TRUE /\ UNCHANGED quiet
  /\ UNCHANGED <<startupVars, link, own, polls, sniffed>>

Count ==
  /\ stamping /\ stamping' = FALSE
  /\ Write(2)
  /\ UNCHANGED <<startupVars, link, own, quiet, early, probe, polls, sniffed>>

(* Mutant: the bridge's own packets are stamped too. *)
MutCountOwn ==
  /\ CanRead /\ OwnIdKnown
  /\ own' = own + 1 /\ age' = 0
  /\ UNCHANGED <<startupVars, link, inbound, stamping, quiet, early, probe,
                 polls, sniffed>>

CountOwn ==
  /\ CanRead /\ OwnIdKnown
  /\ own' = own + 1
  /\ UNCHANGED <<startupVars, link, age, inbound, stamping, quiet, early, probe,
                 polls, sniffed>>

----------------------------------------------------------------------------
(* GET /health: the agent is asked, then the fields are read               *)

Ask == phase' = "asking" /\ probe' = NoProbe

(* check_health returns, at the latest CheckTimeout after it asked; what   *)
(* it returns is reported, but decides nothing here.                       *)
AgentAsked ==
  /\ phase = "asking" /\ ~probe.lost
  /\ AgentFor(loaded) # "silent" \/ probe.elapsed >= CheckTimeout
  /\ phase' = "reading last"
  /\ UNCHANGED <<checked, world, unit, tool, verdict, radio, probe, polls,
                 sniffed>>

(* Only verify_bridge.sh looks at the fields. *)
ReadLast ==
  /\ tool = "verify" /\ phase = "reading last" /\ ~probe.lost
  /\ probe' = [probe EXCEPT !.last = age, !.quiet = quiet]
  /\ phase' = "reading count"
  /\ UNCHANGED <<checked, world, unit, tool, verdict, radio, polls, sniffed>>

ReadCount ==
  /\ phase = "reading count" /\ ~probe.lost
  /\ probe' = [probe EXCEPT !.inbound = inbound]
  /\ phase' = "answering"
  /\ UNCHANGED <<checked, world, unit, tool, verdict, radio, polls, sniffed>>

(* The client's side: what curl waits for at most, and how it ends when    *)
(* the service is gone.                                                    *)
MutPatience == PollPatience   \* mutant: one patience for both
Patience == IF tool = "verify" THEN VerifyPatience ELSE PollPatience
Unanswered == probe.elapsed >= Patience \/ probe.lost

----------------------------------------------------------------------------
(* verify_bridge.sh                                                        *)

Verify ==
  /\ OperatorFree
  /\ tool' = "verify" /\ checked' = Unread
  /\ IF service = "up" THEN Ask /\ verdict' = "none"
     ELSE phase' = "idle" /\ verdict' = "no answer" /\ UNCHANGED probe
  /\ UNCHANGED <<world, unit, radio, polls, sniffed>>

(* own_packets is read last. *)
Verified ==
  /\ tool = "verify" /\ phase = "answering" /\ ~probe.lost
  /\ End(CASE probe.last < Fresh -> "heard"
           [] probe.last >= Fresh /\ own > 0 -> "own only"
           [] OTHER -> "nothing")
  /\ probe' = NoProbe
  /\ UNCHANGED <<checked, world, unit, radio, polls, sniffed>>

VerifyGivesUp ==
  /\ tool = "verify" /\ phase \in Probing /\ Unanswered
  /\ End(IF probe.lost THEN "no answer" ELSE "gave up")
  /\ probe' = NoProbe
  /\ UNCHANGED <<checked, world, unit, radio, polls, sniffed>>

----------------------------------------------------------------------------
(* install.sh, step 7: restart the service, then poll                      *)

Install ==
  /\ OperatorFree
  /\ tool' = "installer" /\ phase' = "polling" /\ verdict' = "none"
  /\ checked' = Unread
  /\ Begins /\ RadioFollows
  /\ UNCHANGED <<world, probe, polls, sniffed>>

(* systemctl is-active, before each poll. *)
Active == service \notin {"down", "failed"}

InstallerEnds(result) ==
  /\ End(result)
  /\ probe' = NoProbe /\ polls' = NoPolls
  /\ UNCHANGED <<checked, world, unit, radio, sniffed>>

PollsEnd ==
  /\ tool = "installer" /\ phase = "polling"
  /\ \/ polls.made = Polls /\ InstallerEnds("no API")
     \/ polls.made < Polls /\ ~Active /\ InstallerEnds("not active")

(* Mutant: the polls are not limited. *)
MutPoll ==
  /\ tool = "installer" /\ phase = "polling" /\ Active
  /\ polls' = [polls EXCEPT !.made = @ + 1]
  /\ IF service = "up" THEN Ask ELSE UNCHANGED <<phase, probe>>
  /\ UNCHANGED <<checked, world, unit, tool, verdict, radio, sniffed>>

Poll ==
  /\ tool = "installer" /\ phase = "polling"
  /\ polls.made < Polls /\ Active
  /\ polls' = [polls EXCEPT !.made = @ + 1]
  /\ IF service = "up" THEN Ask ELSE UNCHANGED <<phase, probe>>
  /\ UNCHANGED <<checked, world, unit, tool, verdict, radio, sniffed>>

Installed ==
  /\ tool = "installer" /\ phase = "reading last" /\ ~probe.lost
  /\ InstallerEnds("installed")

PollGivesUp ==
  /\ tool = "installer" /\ phase \in Probing /\ Unanswered
  /\ phase' = "polling" /\ probe' = NoProbe
  /\ polls' = [polls EXCEPT !.late = IF probe.lost THEN @ ELSE @ + 1]
  /\ UNCHANGED <<checked, world, unit, tool, verdict, radio, sniffed>>

----------------------------------------------------------------------------
(* mesh_sniffer.py: subscribes, opens the port, learns its own number,     *)
(* listens; packets are handled in a thread of their own, also after the   *)
(* port is closed                                                          *)

BridgeHoldsPort == OnSerial /\ service \in {"opening"} \union Reading

Sniff ==
  /\ OperatorFree
  /\ tool' = "sniffer" /\ verdict' = "none" /\ checked' = Unread
  /\ phase' = IF node = "answering" /\ ~BridgeHoldsPort
              THEN "opening" ELSE "idle"
  /\ UNCHANGED <<world, unit, radio, probe, polls, sniffed>>

Sniffing == tool = "sniffer" /\ phase \in {"opening", "listening"}

(* on_receive counts a packet, *)
Sniffs(mine) ==
  /\ Sniffing /\ node = "answering"
  /\ sniffed.total < MaxPackets /\ sniffed.between = 0
  /\ sniffed' = [sniffed EXCEPT !.total = @ + 1,
                                !.others = IF mine THEN @ ELSE @ + 1,
                                !.between = IF mine THEN 1 ELSE 0]
  /\ UNCHANGED <<startupVars, radio, probe, polls>>

(* and then looks whether it is one of its own. Mutant: the number is not  *)
(* the one that packets have.                                              *)
MutRecognises ==
  /\ Sniffing /\ sniffed.between = 1
  /\ sniffed' = [sniffed EXCEPT !.between = 0,
                    !.early = IF phase = "opening" THEN @ + 1 ELSE @]
  /\ UNCHANGED <<startupVars, radio, probe, polls>>

Recognises ==
  /\ Sniffing /\ sniffed.between = 1
  /\ sniffed' = IF phase = "listening"
                THEN [sniffed EXCEPT !.between = 0, !.own = @ + 1]
                ELSE [sniffed EXCEPT !.between = 0, !.early = @ + 1]
  /\ UNCHANGED <<startupVars, radio, probe, polls>>

LearnNumber ==
  /\ tool = "sniffer" /\ phase = "opening"
  /\ phase' = "listening"
  /\ UNCHANGED <<checked, world, unit, tool, verdict, radio, probe, polls,
                 sniffed>>

Sniffed ==
  /\ tool = "sniffer" /\ phase = "listening"
  /\ End(IF sniffed.total > sniffed.own THEN "receives" ELSE "deaf")
  /\ sniffed' = NothingSniffed
  /\ UNCHANGED <<checked, world, unit, radio, probe, polls>>

----------------------------------------------------------------------------
(* Time passes, but the loop does not leave a handler waiting for longer   *)
(* than Lateness, nor curl a request for longer than it was told.          *)
Due == probe.elapsed < CheckTimeout + Lateness

Tick ==
  /\ \/ Pending /\ ~Unanswered /\ Due
        /\ probe' = [probe EXCEPT !.elapsed = @ + 1]
     \/ ~Pending /\ UNCHANGED probe
  /\ age' = Older(age) /\ quiet' = Older(quiet)
  /\ UNCHANGED <<startupVars, link, inbound, own, stamping, early, polls,
                 sniffed>>

Reader == Stamp \/ Count \/ CountOwn
Handler == AgentAsked \/ ReadLast \/ ReadCount
Verifier == Verify \/ Verified \/ VerifyGivesUp
Installer == Install \/ Poll \/ PollsEnd \/ Installed \/ PollGivesUp
Sniffer ==
  \/ Sniff \/ LearnNumber \/ Sniffed
  \/ Recognises \/ (\E mine \in BOOLEAN : Sniffs(mine))

Next ==
  \/ StartupNext /\ Follows
  \/ Reader \/ Handler \/ Verifier \/ Installer \/ Sniffer
  \/ Tick

(* The process and systemd go on; nothing is asked of the operator, of the *)
(* node, the agent and the port, of the mesh, or of the tools.             *)
Spec == HealthInit /\ [][Next]_vars /\ WF_vars(StartUp /\ Follows)

----------------------------------------------------------------------------
(* Types                                                                   *)

TypeOK ==
  /\ loaded \in Settings \union {Unread}
  /\ checked \in Settings \union {Unread}
  /\ node \in {"absent", "mute", "answering"}
  /\ agent \in {"answering", "refusing", "silent"}
  /\ portFree \in BOOLEAN /\ wanted \in BOOLEAN
  /\ service \in {"down", "failed", "loading", "opening"} \union Reading
  /\ failure \in {"none", "config", "node", "port", "crash"}
  /\ tool \in {"none", "check", "verify", "installer", "sniffer"}
  /\ phase \in {"idle", "asking the agent", "polling", "opening", "listening"}
                 \union Probing
  /\ verdict \in {"none", "rejected", "so far", "passed", "failed", "heard",
                   "own only", "nothing", "gave up", "no answer", "installed",
                   "not active", "no API", "receives", "deaf"}
  /\ link \in BOOLEAN /\ stamping \in BOOLEAN /\ early \in BOOLEAN
  /\ age \in Ages /\ quiet \in Ages
  /\ inbound \in Nat /\ own \in Nat
  /\ probe \in [elapsed : Nat, lost : BOOLEAN, last : Ages, inbound : Nat,
                quiet : Ages, since : Nat]
  /\ polls \in [made : 0 .. Polls, late : 0 .. Polls]
  /\ sniffed \in [total : Nat, own : Nat, between : 0 .. 1, others : Nat,
                  early : Nat]

----------------------------------------------------------------------------
(* Starting                                                                *)

(* --check and the start agree on what both have read, the file as well as *)
(* the environment, though they test it in different places, in another    *)
(* order, and twice where the other does once: such a start ends with the  *)
(* configuration exactly if --check rejects it, but for the log level,     *)
(* which --check does not look at (main.py:276-370, config.py:246-286,     *)
(* transport.py:225-235). Nothing follows when the service has read        *)
(* another environment than that of the shell, or before an edit.          *)
CheckPredictsTheStart ==
  tool = "check" /\ phase = "idle" /\ checked = loaded =>
    (failure = "config" <=>
       verdict = "rejected" \/ Has(loaded, "log level"))

(* A service that is neither stopped nor restarted by hand comes up again  *)
(* and again while the node answers, nobody else holds it or the port, and *)
(* what it reads is in order, whatever made it fail before, a mistake that *)
(* was corrected since included (main.py:85-96, 276-303,                   *)
(* deploy/meshtastic-bridge.service:18).                                   *)
LeftAlone == wanted /\ ~(tool = "installer" /\ phase # "idle")
ReadsWell == loaded # Unread => Acceptable(loaded)
RestartsUntilItRuns ==
  <>[](LeftAlone /\ ReadsWell /\ NodeOpens /\ portFree)
    => []<>(service = "up")

----------------------------------------------------------------------------
(* What the tools say                                                      *)

(* A report that knows of no packet counts only packets that came while it *)
(* was put together: the time is written before the count, and read before *)
(* it (main.py:115-125, 241-259).                                          *)
ReportsAgree ==
  phase = "answering" /\ probe.last = Never => probe.inbound <= probe.since

(* verify_bridge.sh says that the radio heard another node if and only if  *)
(* one was heard lately, when the report was made, except where the bridge *)
(* took its own packets for another's while it was connecting              *)
(* (main.py:115-125, 241-259, verify_bridge.sh:57-67).                     *)
VerdictIsTrue ==
  [][tool = "verify" /\ phase = "answering" /\ phase' = "idle" =>
       /\ verdict' = "heard" => probe.quiet < Fresh \/ early
       /\ verdict' \in {"own only", "nothing"} => probe.quiet >= Fresh]_vars

(* verify_bridge.sh waits longer than a silent agent can keep /health, so  *)
(* "no answer" is never said of a bridge that is up (http_client.py:307,   *)
(* verify_bridge.sh:27).                                                   *)
VerificationIsAnswered == verdict # "gave up"

(* mesh_sniffer.py: what it calls deaf heard no other node. What it calls  *)
(* receiving did, but for own packets that it looked at before it knew its *)
(* number, or one that it was still looking at when it gave its verdict;   *)
(* no other own packet turns it (mesh_sniffer.py:28-86).                   *)
SnifferIsRight ==
  [][tool = "sniffer" /\ phase = "listening" /\ phase' = "idle" =>
       /\ verdict' = "deaf" => sniffed.others = 0
       /\ verdict' = "receives" =>
            \/ sniffed.others > 0
            \/ sniffed.early > 0 \/ sniffed.between > 0]_vars

(* install.sh, before it polls: "poll for it instead of guessing a fixed   *)
(* delay"; an agent that is not there is to be a warning. Not what the     *)
(* code does: each poll asks /health, which waits for a silent agent       *)
(* longer than the poll does, so the installation of a bridge that runs    *)
(* all along is given up.                                                  *)
InstallerFindsTheBridge ==
  [][verdict' = "no API" /\ tool = "installer" => polls.late < Polls]_vars
=============================================================================
