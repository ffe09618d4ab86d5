------------------------------- MODULE Bridge -------------------------------
(***************************************************************************)
(* The bridge as a whole: MeshtasticBridge (bridge/main.py) with the life  *)
(* of its radio (connect and disconnect in bridge/radio.py), its agent     *)
(* client and its HTTP server (bridge/http_server.py).                     *)
(*                                                                         *)
(* The main coroutine starts and stops the parts in order. The reader      *)
(* thread of the meshtastic library calls _on_packet and _on_receive; each *)
(* message becomes a _forward_to_agent task on the event loop, each        *)
(* request to the HTTP server a handler. A turn of the agent and a sendText*)
(* in the executor are awaited, so tasks, handlers, reader and main        *)
(* coroutine interleave there. AgentClient and Delivery model what happens *)
(* inside those two calls.                                                 *)
(***************************************************************************)
EXTENDS Integers, Sequences, FiniteSets, NodeIds

CONSTANTS
  Nodes,       \* the other nodes of the mesh, by their numbers
  Me,          \* this bridge's own node
  Broadcast,   \* the destination of a channel message
  Allowlists,  \* the values of allowed_nodes: sets of documented spellings
  Msgs,        \* the messages _on_receive takes during one run
  Posts,       \* the POSTs to /send and /callback during one run
  MaxPackets   \* bound: packets of any kind the reader handles

ASSUME NodesAssumption == Me \notin Nodes /\ Broadcast \notin Nodes \union {Me}
ASSUME NumbersAssumption == Nodes \union {Me} \subseteq NodeNumbers
ASSUME AllowlistsAssumption ==
  \A list \in Allowlists : \A id \in list :
    \E node \in NodeNumbers : Names(id, node)
ASSUME SendersAssumption == Msgs \intersect Posts = {}

Senders == Msgs \union Posts   \* what runs a coroutine that may transmit

VARIABLES
  config,     \* direct_messages_only and allowed_nodes, fixed at the start
  main,       \* where the main coroutine stands in run()
  shutdown,   \* _shutdown_event is set
  lost,       \* the link to the node is gone, e.g. it was unplugged
  msg,        \* the packet each task works on
  stage,      \* where each task and each handler stands
  outcome,    \* how it ended
  target,     \* the destination each handler was given
  turn,       \* history: did the message get a turn of the agent, a reply
  air,        \* history: what the node was handed for transmission
  inbound,    \* _packet_count
  own,        \* _own_packet_count
  others      \* history: the packets from other nodes among those handled

vars == <<config, main, shutdown, lost, msg, stage, outcome, target, turn,
          air, inbound, own, others>>
counters == <<inbound, own, others>>
tasks == <<msg, stage, outcome, target, turn>>
process == <<config, main, shutdown, lost>>

(* A packet: "text" for the agent, a "notification" that matches           *)
(* ignore_patterns, or "other": not text, empty, or without a sender id.   *)
Packets == [from : Nodes \union {Me}, to : Nodes \union {Me, Broadcast},
            kind : {"text", "notification", "other"}]
NoPacket == [from |-> Me, to |-> Me, kind |-> "none"]

Init ==
  /\ config \in [directOnly : BOOLEAN, allowed : Allowlists]
  /\ main = "opening"
  /\ shutdown = FALSE
  /\ lost = FALSE
  /\ msg = [m \in Msgs |-> NoPacket]
  /\ stage = [x \in Senders |-> "idle"]
  /\ outcome = [x \in Senders |-> "none"]
  /\ target = [p \in Posts |-> Broadcast]
  /\ turn = [m \in Msgs |-> "none"]
  /\ air = <<>>
  /\ inbound = 0 /\ own = 0 /\ others = 0

----------------------------------------------------------------------------
(* What the parts see of the life cycle                                    *)

Exited == main \in {"exit 0", "exit 1"}

(* _interface is set when connect() resumes, after the subscription. *)
OwnIdKnown == main \notin {"opening", "subscribed"}

(* _connected: from connect() to the end of disconnect(). *)
Connected == main \in {"binding", "running", "stopping http", "disconnecting",
                       "closed"}

(* The interface can still put packets on the air; nothing closes it when  *)
(* the process is left by an exception.                                    *)
TransportOpen == ~lost /\ (Connected \/ main = "exit 1") /\ main # "closed"

----------------------------------------------------------------------------
(* run(): start(), the wait for the shutdown event, stop()                 *)

Advance(from, to) == main = from /\ main' = to

(* The executor opens the transport and subscribes the reader; connect()   *)
(* resumes on the loop later.                                              *)
OpenTransport ==
  /\ Advance("opening", "subscribed")
  /\ UNCHANGED <<config, shutdown, lost, tasks, air, counters>>

(* connect() returns False and start() leaves by sys.exit(1). *)
OpenFails ==
  /\ Advance("opening", "exit 1")
  /\ UNCHANGED <<config, shutdown, lost, tasks, air, counters>>

ConnectReturns ==
  /\ Advance("subscribed", "binding")
  /\ UNCHANGED <<config, shutdown, lost, tasks, air, counters>>

(* Mutant: the event is cleared when the start is complete. *)
MutBind ==
  /\ Advance("binding", "running") \/ Advance("binding", "exit 1")
  /\ shutdown' = FALSE
  /\ UNCHANGED <<config, lost, tasks, air, counters>>

(* The HTTP server binds its port, or raises: main() exits with the radio  *)
(* still open.                                                             *)
Bind ==
  /\ Advance("binding", "running") \/ Advance("binding", "exit 1")
  /\ UNCHANGED <<config, shutdown, lost, tasks, air, counters>>

(* SIGTERM or SIGINT, at any time; start() does not look at the event. *)
Signal ==
  /\ ~shutdown /\ ~Exited
  /\ shutdown' = TRUE
  /\ UNCHANGED <<config, main, lost, tasks, air, counters>>

BeginStop ==
  /\ shutdown
  /\ Advance("running", "stopping http")
  /\ UNCHANGED <<config, shutdown, lost, tasks, air, counters>>

Live(x) == stage[x] \notin {"idle", "abandoned", "done"}

(* Mutant: the radio is disconnected under the handlers. *)
MutHttpStopped ==
  /\ Advance("stopping http", "disconnecting")
  /\ UNCHANGED <<config, shutdown, lost, tasks, air, counters>>

(* The runner's cleanup waits for the handlers, cancelling them in the end *)
(* (Cancel below).                                                         *)
HttpStopped ==
  /\ \A p \in Posts : ~Live(p)
  /\ Advance("stopping http", "disconnecting")
  /\ UNCHANGED <<config, shutdown, lost, tasks, air, counters>>

(* transport.close in the executor, or its exception, which ends run(). *)
CloseTransport ==
  /\ Advance("disconnecting", "closed") \/ Advance("disconnecting", "exit 1")
  /\ UNCHANGED <<config, shutdown, lost, tasks, air, counters>>

Disconnected ==
  /\ Advance("closed", "stopping agent")
  /\ UNCHANGED <<config, shutdown, lost, tasks, air, counters>>

AgentStopped ==
  /\ Advance("stopping agent", "exit 0")
  /\ UNCHANGED <<config, shutdown, lost, tasks, air, counters>>

(* The node is unplugged. Nothing in the code listens for it. *)
Unplug ==
  /\ TransportOpen /\ ~Exited
  /\ lost' = TRUE
  /\ UNCHANGED <<config, main, shutdown, tasks, air, counters>>

----------------------------------------------------------------------------
(* The reader thread: _handle_receive calls _on_packet, then _on_receive   *)

(* Mutants of _on_packet: an own packet is taken back from the count of    *)
(* the others; or, while the own id is unknown, every packet is own.       *)
MutCountBack(packet) ==
  /\ inbound + own < MaxPackets
  /\ IF OwnIdKnown /\ packet.from = Me
     THEN own' = own + 1 /\ inbound' = inbound - 1
     ELSE inbound' = inbound + 1 /\ UNCHANGED own
  /\ others' = IF packet.from = Me THEN others ELSE others + 1
MutCountOwn(packet) ==
  /\ inbound + own < MaxPackets
  /\ IF OwnIdKnown => packet.from = Me
     THEN own' = own + 1 /\ UNCHANGED inbound
     ELSE inbound' = inbound + 1 /\ UNCHANGED own
  /\ others' = IF packet.from = Me THEN others ELSE others + 1

(* _on_packet. *)
Count(packet) ==
  /\ inbound + own < MaxPackets
  /\ IF OwnIdKnown /\ packet.from = Me
     THEN own' = own + 1 /\ UNCHANGED inbound
     ELSE inbound' = inbound + 1 /\ UNCHANGED own
  /\ others' = IF packet.from = Me THEN others ELSE others + 1

(* _on_receive: a text that has a sender becomes a task of the loop. *)
Schedule(packet) ==
  IF packet.kind = "other"
  THEN UNCHANGED <<msg, stage>>
  ELSE \E m \in Msgs :
         /\ stage[m] = "idle"
         /\ msg' = [msg EXCEPT ![m] = packet]
         /\ stage' = [stage EXCEPT ![m] = "scheduled"]

Hear(packet) ==
  /\ main # "opening" /\ ~Exited
  /\ Count(packet)
  /\ Schedule(packet)
  /\ UNCHANGED <<process, outcome, target, turn, air>>

HearAnother(packet) == ~lost /\ packet.from \in Nodes /\ Hear(packet)

(* The interface hands back the node's own packets: telemetry and the like *)
(* at any time, and the texts the bridge transmitted.                      *)
HearOwn(packet) == packet.from = Me /\ packet.kind = "other" /\ Hear(packet)
HearEcho(i) == Hear([from |-> Me, to |-> air[i].to, kind |-> "text"])

----------------------------------------------------------------------------
(* _forward_to_agent                                                       *)

(* Node ids as texts: those of a packet come from the library, the own id  *)
(* from my_node_id, the list from the configuration.                       *)
SameId(id, other) == Normalize(id) = Normalize(other)

(* Mutant: the entries of the list are compared as they are written. *)
MutIsAllowed(node) == config.allowed # {} => IdOf(node) \in config.allowed

IsAllowed(node) ==
  config.allowed # {} => \E id \in config.allowed : SameId(id, IdOf(node))

IsToMe(packet) ==
  OwnIdKnown /\ packet.to # Broadcast /\ SameId(IdOf(packet.to), IdOf(Me))

(* Mutant: whom the message is addressed to is not looked at. *)
MutAdmits(packet) ==
  /\ config.directOnly => OwnIdKnown
  /\ IsAllowed(packet.from)
  /\ packet.kind # "notification"

(* The policy, in the order of the code; without its own id the bridge     *)
(* fails closed.                                                           *)
Admits(packet) ==
  /\ config.directOnly => IsToMe(packet)
  /\ IsAllowed(packet.from)
  /\ packet.kind # "notification"

Finish(x, how) ==
  /\ stage' = [stage EXCEPT ![x] = "done"]
  /\ outcome' = [outcome EXCEPT ![x] = how]

Drop(m) ==
  /\ stage[m] = "scheduled" /\ ~Exited
  /\ ~Admits(msg[m])
  /\ Finish(m, IF config.directOnly /\ ~OwnIdKnown THEN "fail closed"
                                                 ELSE "dropped")
  /\ UNCHANGED <<process, msg, target, turn, air, counters>>

AskAgent(m) ==
  /\ stage[m] = "scheduled" /\ ~Exited
  /\ Admits(msg[m])
  /\ stage' = [stage EXCEPT ![m] = "asking"]
  /\ turn' = [turn EXCEPT ![m] = "asked"]
  /\ UNCHANGED <<process, msg, outcome, target, air, counters>>

(* send_text tests the connection and queues sendText for the executor. *)
StartSend(x) ==
  IF Connected
  THEN stage' = [stage EXCEPT ![x] = "sending"] /\ UNCHANGED outcome
  ELSE Finish(x, "refused")

(* The agent's reply goes straight to send_text; without one (None or "")  *)
(* nothing is sent.                                                        *)
AgentReplies(m) ==
  /\ stage[m] = "asking" /\ ~Exited
  /\ turn' = [turn EXCEPT ![m] = "replied"]
  /\ StartSend(m)
  /\ UNCHANGED <<process, msg, target, air, counters>>

(* Mutant: a failure is announced on the mesh. *)
MutAgentIsSilent(m) ==
  /\ stage[m] = "asking" /\ ~Exited
  /\ StartSend(m)
  /\ UNCHANGED <<process, msg, target, turn, air, counters>>

AgentIsSilent(m) ==
  /\ stage[m] = "asking" /\ ~Exited
  /\ Finish(m, "silent")
  /\ UNCHANGED <<process, msg, target, turn, air, counters>>

----------------------------------------------------------------------------
(* POST /send and POST /callback                                           *)

(* A request arrives; the handler awaits its body. *)
Receive(p, dest) ==
  /\ main = "running"
  /\ stage[p] = "idle"
  /\ stage' = [stage EXCEPT ![p] = "reading"]
  /\ target' = [target EXCEPT ![p] = dest]
  /\ UNCHANGED <<process, msg, outcome, turn, air, counters>>

(* 400 for a body that is not JSON or has no text; else _send_to_radio. *)
Handle(p) ==
  /\ stage[p] = "reading" /\ ~Exited
  /\ Finish(p, "bad request") \/ StartSend(p)
  /\ UNCHANGED <<process, msg, target, turn, air, counters>>

----------------------------------------------------------------------------
(* sendText in the executor, and the rest of send_text (see Delivery)      *)

Transmission(x) ==
  [cause |-> x,
   to |-> IF x \in Msgs THEN msg[x].from ELSE target[x]]

(* A call that is running when its task is cancelled runs to its end. *)
Transmit(x) ==
  /\ (stage[x] = "sending" /\ ~Exited) \/ stage[x] = "abandoned"
  /\ TransportOpen
  /\ air' = Append(air, Transmission(x))
  /\ stage' = [stage EXCEPT ![x] = IF @ = "sending" THEN "confirming"
                                                   ELSE "done"]
  /\ UNCHANGED <<process, msg, outcome, target, turn, counters>>

SendFails(x) ==
  /\ \/ stage[x] = "sending" /\ ~Exited /\ Finish(x, "failed")
     \/ /\ stage[x] = "abandoned"
        /\ stage' = [stage EXCEPT ![x] = "done"]
        /\ UNCHANGED outcome
  /\ UNCHANGED <<process, msg, target, turn, air, counters>>

(* Mutant: an unconfirmed text is sent again. *)
MutSendReturns(x) ==
  /\ stage[x] = "confirming" /\ ~Exited
  /\ Finish(x, "sent") \/ (stage' = [stage EXCEPT ![x] = "sending"]
                            /\ UNCHANGED outcome)
  /\ UNCHANGED <<process, msg, target, turn, air, counters>>

SendReturns(x) ==
  /\ stage[x] = "confirming" /\ ~Exited
  /\ Finish(x, "sent")
  /\ UNCHANGED <<process, msg, target, turn, air, counters>>

(* Mutant: only the handlers of the HTTP server are cancelled. *)
MutCancel(x) ==
  /\ Live(x) /\ x \in Posts
  /\ Exited \/ main = "stopping http"
  /\ Finish(x, "cancelled")
  /\ UNCHANGED <<process, msg, target, turn, air, counters>>

(* asyncio.run cancels every task that is left when main() is over; the    *)
(* runner's cleanup cancels the handlers that outlast it. A sendText that  *)
(* still waits for a thread is cancelled with its task, a running one is   *)
(* not.                                                                    *)
Cancel(x) ==
  /\ Live(x)
  /\ Exited \/ (x \in Posts /\ main = "stopping http")
  /\ \/ Finish(x, "cancelled")
     \/ /\ stage[x] = "sending"
        /\ stage' = [stage EXCEPT ![x] = "abandoned"]
        /\ outcome' = [outcome EXCEPT ![x] = "cancelled"]
  /\ UNCHANGED <<process, msg, target, turn, air, counters>>

----------------------------------------------------------------------------

Lifecycle ==
  \/ OpenTransport \/ OpenFails \/ ConnectReturns \/ Bind
  \/ BeginStop \/ HttpStopped \/ CloseTransport \/ Disconnected \/ AgentStopped

Reader ==
  \/ \E packet \in Packets : HearAnother(packet) \/ HearOwn(packet)
  \/ \E i \in DOMAIN air : HearEcho(i)

Forward(m) == Drop(m) \/ AskAgent(m) \/ AgentReplies(m) \/ AgentIsSilent(m)
SendText(x) == Transmit(x) \/ SendFails(x) \/ SendReturns(x)

Next ==
  \/ Lifecycle \/ Signal \/ Unplug
  \/ Reader
  \/ \E m \in Msgs : Forward(m)
  \/ \E p \in Posts : Handle(p)
  \/ \E p \in Posts, dest \in Nodes \union {Me, Broadcast} : Receive(p, dest)
  \/ \E x \in Senders : SendText(x) \/ Cancel(x)

(* The loop and the executor run what is ready; ask() and send_text always *)
(* return (AgentClient!EveryAskReturns, Delivery!EverySendReturns); a      *)
(* signal, an unplugged node and the mesh are not to be relied on.         *)
Fairness ==
  /\ WF_vars(Lifecycle)
  /\ \A m \in Msgs : WF_vars(Forward(m))
  /\ \A p \in Posts : WF_vars(Handle(p))
  /\ \A x \in Senders : WF_vars(SendText(x)) /\ WF_vars(Cancel(x))

Spec == Init /\ [][Next]_vars /\ Fairness

----------------------------------------------------------------------------
(* Types                                                                   *)

TypeOK ==
  /\ config \in [directOnly : BOOLEAN, allowed : Allowlists]
  /\ main \in {"opening", "subscribed", "binding", "running", "stopping http",
               "disconnecting", "closed", "stopping agent", "exit 0", "exit 1"}
  /\ shutdown \in BOOLEAN
  /\ lost \in BOOLEAN
  /\ msg \in [Msgs -> Packets \union {NoPacket}]
  /\ stage \in [Senders -> {"idle", "scheduled", "asking", "reading", "sending",
                            "confirming", "abandoned", "done"}]
  /\ outcome \in [Senders -> {"none", "dropped", "fail closed", "silent",
                              "refused", "failed", "sent", "bad request",
                              "cancelled"}]
  /\ target \in [Posts -> Nodes \union {Me, Broadcast}]
  /\ turn \in [Msgs -> {"none", "asked", "replied"}]
  /\ air \in Seq([cause : Senders, to : Nodes \union {Me, Broadcast}])
  /\ inbound \in Nat /\ own \in Nat /\ others \in Nat

----------------------------------------------------------------------------
(* Safety                                                                  *)

(* What the operator wrote: the list names the node, in some spelling. *)
Listed(node) ==
  config.allowed # {} => \E id \in config.allowed : Names(id, node)

(* What is transmitted because of a message is the agent's reply to it: to *)
(* the node it came from and nobody else, one that the allowlist names,    *)
(* which addressed this node if only direct messages are answered. A       *)
(* failure, a drop or a cancelled task transmits nothing (main.py:155-217).*)
RepliesAreSolicited ==
  \A i \in DOMAIN air :
    LET m == air[i].cause IN
    m \in Msgs =>
      /\ turn[m] = "replied"
      /\ air[i].to = msg[m].from
      /\ Listed(msg[m].from)
      /\ config.directOnly => msg[m].to = Me

(* A message of a node the allowlist names, in whatever documented         *)
(* spelling, and addressed as required, is dropped for one reason only: it *)
(* is a notification. Before the own id is known, messages are dropped     *)
(* only if they would have to be direct (main.py:170-198, config.py:70-97, *)
(* 143-148).                                                               *)
DropsAreJustified ==
  \A m \in Msgs :
    /\ outcome[m] = "dropped" =>
         \/ config.directOnly /\ msg[m].to # Me
         \/ ~Listed(msg[m].from)
         \/ msg[m].kind = "notification"
    /\ outcome[m] = "fail closed" => config.directOnly

(* No message and no request is transmitted twice, and what was reported   *)
(* sent was transmitted (main.py:200-233, radio.py:126-153).               *)
EachSendIsOneTransmission ==
  \A x \in Senders :
    LET times == Cardinality({i \in DOMAIN air : air[i].cause = x}) IN
    /\ times <= 1
    /\ outcome[x] = "sent" => times = 1
    /\ outcome[x] \in {"dropped", "fail closed", "silent", "refused", "failed",
                       "bad request"} => times = 0

(* The bridge's own texts, echoed by the interface, get a turn of the      *)
(* agent, so that it talks to itself, only if an allowlist does not leave  *)
(* the bridge out, and, when only direct messages are answered, somebody   *)
(* posted a text to the bridge's own id (main.py:170-191).                 *)
AgentNeverAnswersItself ==
  (\E m \in Msgs : turn[m] # "none" /\ msg[m].from = Me) =>
    /\ Listed(Me)
    /\ config.directOnly => \E p \in Posts : target[p] = Me

(* The HTTP server is up only while the radio is connected, so a request   *)
(* it takes never fails for want of a connection, even when shutdown       *)
(* begins before its body is read (main.py:85-96, 104-108, 223-225).       *)
RequestsFindTheRadio == \A p \in Posts : outcome[p] # "refused"

(* A radio that hears others never looks deaf: no packet of another node   *)
(* is taken for the bridge's own (main.py:115-125).                        *)
OthersAreCounted == inbound >= others

----------------------------------------------------------------------------
(* Liveness                                                                *)

(* Every message _on_receive takes comes to an end: dropped, answered, or  *)
(* given up, and no task and no call it left running survives the process  *)
(* (main.py:155-217).                                                      *)
EveryMessageConcludes ==
  \A m \in Msgs : stage[m] = "scheduled" ~> stage[m] = "done"

(* The bridge implements Pipeline, its liveness included: each message is  *)
(* concluded once, with at most one reply, to the node that asked; a reply *)
(* that goes out late is one the bridge gave up while the radio had it     *)
(* (main.py:127-217, radio.py:99-153).                                     *)
fate ==
  [m \in Msgs |->
     CASE stage[m] = "idle" -> "new"
       [] outcome[m] \in {"dropped", "fail closed"} -> "dropped"
       [] outcome[m] = "sent" -> "answered"
       [] outcome[m] \in {"silent", "refused", "failed", "cancelled"} ->
            "given up"
       [] OTHER -> "pending"]
(* Whom the first so many transmissions went to, of those for a message. *)
RecipientsOf(m, texts) ==
  LET sent[i \in 0 .. Len(texts)] ==
        IF i = 0 THEN <<>>
        ELSE IF texts[i].cause = m THEN Append(sent[i - 1], texts[i].to)
        ELSE sent[i - 1]
  IN sent
recipients == [m \in Msgs |-> RecipientsOf(m, air)[Len(air)]]

Promise ==
  INSTANCE Pipeline WITH
    Askers <- Nodes \union {Me},
    Unknown <- Broadcast,
    asker <- [m \in Msgs |->
                IF stage[m] = "idle" THEN Broadcast ELSE msg[m].from],
    replies <- recipients
PipelineSpec == Promise!Spec

(* A signal ends the process, whenever it comes: during start(), with      *)
(* requests in flight, or with the node unplugged (main.py:262-273).       *)
SignalEndsTheProcess == shutdown ~> Exited

(* What the troubleshooting table says of "serial": false when the node is *)
(* unplugged. Not what the code does: _connected stays True.               *)
LostLinkShows == lost ~> ~Connected
=============================================================================
