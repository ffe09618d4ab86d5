------------------------------ MODULE Startup --------------------------------
(***************************************************************************)
(* How the bridge comes up: cli(), Config.load and validate, main() and    *)
(* start() (bridge/main.py, config.py, transport.py) under systemd, which  *)
(* restarts what fails (deploy/meshtastic-bridge.service), and             *)
(* meshtastic-bridge --check, which is to predict it. The node, the agent  *)
(* and the HTTP port change meanwhile. One operator runs one tool at a     *)
(* time; Health adds the other tools. Bridge has the detail of stopping.   *)
(*                                                                         *)
(* A process reads its configuration once, when it begins: a file, and the *)
(* variables of its own environment. The service has those of its          *)
(* EnvironmentFile, --check those of the shell it is run from, and the     *)
(* operator may edit any of it at any time: what two processes read need   *)
(* not be the same, so each reading is a choice of its own.                *)
(***************************************************************************)

CONSTANT
  Settings  \* what a process may read: a connection and the mistakes in the
            \* rest, those of its environment included

VARIABLES
  node,     \* "absent", "mute" (there, but no answer) or "answering"
  agent,    \* the agent: "answering", "refusing" or "silent"
  portFree, \* nobody else holds the HTTP port
  service,  \* where the process stands
  loaded,   \* what it has read, Unread before; kept when it has failed
  wanted,   \* started and not stopped again
  failure,  \* why the process exited with 1, until it is restarted
  tool,     \* what the operator ran last
  phase,    \* what it is doing, "idle" once it has ended
  verdict,  \* its result
  checked   \* what --check has read, Unread once another tool is run

world == <<node, agent, portFree>>
unit == <<service, loaded, wanted, failure>>
tools == <<tool, phase, verdict>>
startupVars == <<world, unit, tools, checked>>

(* What can be wrong with the file: not YAML or an unknown key; no port,   *)
(* address or host for the connection; a number out of range; a log level  *)
(* that logging does not have. And with the environment: no agent key; no  *)
(* agent host, so that the placeholder stays in the url.                   *)
Mistakes == {"unreadable", "no endpoint", "out of range", "log level",
             "no key", "no agent host"}
Has(read, mistake) == mistake \in read.mistakes

Unread == [connection |-> "none", mistakes |-> {}]

ASSUME SettingsAssumption ==
  /\ Settings \subseteq [connection : STRING, mistakes : SUBSET Mistakes]
  /\ Unread \notin Settings

Init ==
  /\ node = "answering" /\ agent = "answering" /\ portFree = TRUE
  /\ service = "down" /\ wanted = FALSE /\ failure = "none"
  /\ loaded = Unread /\ checked = Unread
  /\ tool = "none" /\ phase = "idle" /\ verdict = "none"

----------------------------------------------------------------------------
(* What the configuration is tested for                                    *)

Registered == {"serial", "ble", "tcp"}   \* TRANSPORTS

(* strip().lower(), of the spellings that are used here *)
Canonical(name) == IF name = "Serial" THEN "serial" ELSE name

(* Mutant: the key is left to the first call of the agent. *)
MutValidates(read) ==
  /\ read.connection \in Registered
  /\ ~Has(read, "no endpoint") /\ ~Has(read, "out of range")

(* Config.validate: compares the name as it is written. *)
Validates(read) ==
  /\ read.connection \in Registered
  /\ ~Has(read, "no endpoint") /\ ~Has(read, "out of range")
  /\ ~Has(read, "no key")

(* build_transport: compares the canonical name; serial needs no port yet. *)
BuildsTransport(read) ==
  /\ Canonical(read.connection) \in Registered
  /\ Canonical(read.connection) # "serial" => ~Has(read, "no endpoint")

(* prerequisites_met: the device exists, the host accepts; for BLE only    *)
(* that there is an adapter.                                               *)
PrerequisitesMet(read) ==
  \/ Canonical(read.connection) = "ble"
  \/ node # "absent" /\ ~Has(read, "no endpoint")

(* What check_health meets at the url that was read. *)
AgentFor(read) == IF Has(read, "no agent host") THEN "refusing" ELSE agent

----------------------------------------------------------------------------
(* cli --check                                                             *)

OperatorFree == phase = "idle"

End(result) == phase' = "idle" /\ verdict' = result /\ UNCHANGED tool

(* Everything but the agent. "rejected": the configuration itself fails. *)
Check(read) ==
  /\ OperatorFree
  /\ tool' = "check" /\ checked' = read
  /\ IF Has(read, "unreadable")
     THEN phase' = "idle" /\ verdict' = "rejected"
     ELSE /\ phase' = "asking the agent"
          /\ verdict' =
               IF \/ ~Validates(read) \/ ~BuildsTransport(read)
                  \/ Has(read, "no key")
               THEN "rejected"
               ELSE IF PrerequisitesMet(read) THEN "so far" ELSE "failed"
  /\ UNCHANGED <<world, unit>>

CheckAgent ==
  /\ tool = "check" /\ phase = "asking the agent"
  /\ End(CASE verdict # "so far" -> verdict
           [] verdict = "so far" /\ AgentFor(checked) = "answering" -> "passed"
           [] OTHER -> "failed")
  /\ UNCHANGED <<checked, world, unit>>

----------------------------------------------------------------------------
(* cli, main() and start(), under systemd                                  *)

Step(from, to) ==
  /\ service = from /\ service' = to
  /\ UNCHANGED <<checked, world, loaded, wanted, failure, tools>>

Fails(from, why) ==
  /\ service = from /\ service' = "failed"
  /\ failure' = why
  /\ UNCHANGED <<checked, world, loaded, wanted, tools>>

(* A new process, which has read nothing yet. *)
Begins ==
  /\ wanted' = TRUE
  /\ service' = "loading" /\ failure' = "none" /\ loaded' = Unread

(* systemctl start. *)
Start == ~wanted /\ Begins /\ UNCHANGED <<checked, world, tools>>

(* systemctl stop. *)
Stop ==
  /\ wanted /\ wanted' = FALSE
  /\ service' = "down" /\ failure' = "none" /\ loaded' = Unread
  /\ UNCHANGED <<checked, world, tools>>

(* Restart=on-failure, RestartSec later. *)
Restart ==
  /\ wanted /\ service = "failed"
  /\ Begins
  /\ UNCHANGED <<checked, world, tools>>

(* The file, the log level (an AttributeError), validate and the transport *)
(* are gone through in this order; each ends the process with 1.           *)
Acceptable(read) ==
  /\ ~Has(read, "unreadable") /\ ~Has(read, "log level")
  /\ Validates(read) /\ BuildsTransport(read)

Load(read) ==
  /\ service = "loading" /\ loaded' = read
  /\ IF Acceptable(read) THEN service' = "opening" /\ UNCHANGED failure
                         ELSE service' = "failed" /\ failure' = "config"
  /\ UNCHANGED <<checked, world, wanted, tools>>

(* A serial port has one user. *)
OnSerial == Canonical(loaded.connection) = "serial"
HeldBySniffer == OnSerial /\ tool = "sniffer" /\ phase # "idle"

NodeOpens == node = "answering" /\ ~HeldBySniffer

(* Mutant: start() returns when connect() fails, so the process ends well. *)
MutOpen ==
  IF NodeOpens THEN Step("opening", "subscribed") ELSE Step("opening", "down")

Open == IF NodeOpens THEN Step("opening", "subscribed")
                     ELSE Fails("opening", "node")

ConnectReturns == Step("subscribed", "binding")

Bind == IF portFree THEN Step("binding", "up") ELSE Fails("binding", "port")

(* Killed while it runs; before that it makes no difference to a failed    *)
(* start.                                                                  *)
Crash == Fails("up", "crash")

----------------------------------------------------------------------------
(* The world                                                               *)

NodeChanges ==
  /\ node' \in {"absent", "mute", "answering"} \ {node}
  /\ UNCHANGED <<checked, agent, portFree, unit, tools>>

AgentChanges ==
  /\ agent' \in {"answering", "refusing", "silent"} \ {agent}
  /\ UNCHANGED <<checked, node, portFree, unit, tools>>

(* The port changes hands only while the bridge does not hold it. *)
PortChanges ==
  /\ service # "up" /\ portFree' = ~portFree
  /\ UNCHANGED <<checked, node, agent, unit, tools>>

StartUp ==
  \/ Restart \/ Open \/ ConnectReturns \/ Bind
  \/ \E read \in Settings : Load(read)

StartupNext ==
  \/ CheckAgent \/ (\E read \in Settings : Check(read))
  \/ Start \/ Stop \/ Crash \/ StartUp
  \/ NodeChanges \/ AgentChanges \/ PortChanges
=============================================================================
