---------------------------- MODULE Bridge_proofs ----------------------------
(***************************************************************************)
(* What holds of Bridge for all nodes, messages, requests and allowlists.  *)
(* Sending is the inductive invariant of the calls and the life cycle,     *)
(* Policy that of what the messages are let through for, on top of it.     *)
(***************************************************************************)
EXTENDS Bridge, NodeIds_proofs, FiniteSetTheorems, SequenceTheorems

(* Only what is over has an outcome, but for a call that outlives its task.*)
OutcomeComesLast ==
  \A x \in Senders :
    /\ stage[x] \notin {"abandoned", "done"} => outcome[x] = "none"
    /\ stage[x] = "abandoned" => outcome[x] = "cancelled"

(* Handlers do not go through the stages of tasks, *)
HandlersAreNoTasks == \A p \in Posts : stage[p] \notin {"scheduled", "asking"}

(* and run only while the HTTP server does. *)
HandlersAreServed ==
  \A p \in Posts : Live(p) => main \in {"running", "stopping http"}

(* What is on the air was sent by a call that has come that far. *)
AirWasSent ==
  \A i \in DOMAIN air :
    /\ stage[air[i].cause] \in {"confirming", "done"}
    /\ outcome[air[i].cause] \in {"none", "sent", "cancelled"}

OneEach == \A i, j \in DOMAIN air : air[i].cause = air[j].cause => i = j

(* What awaits its confirmation, or was reported sent, is on the air. *)
SentIsOnAir ==
  \A x \in Senders :
    stage[x] = "confirming" \/ outcome[x] = "sent" =>
      \E i \in DOMAIN air : air[i].cause = x

Sending ==
  /\ TypeOK
  /\ OutcomeComesLast
  /\ HandlersAreNoTasks
  /\ HandlersAreServed
  /\ AirWasSent
  /\ OneEach
  /\ SentIsOnAir
  /\ RequestsFindTheRadio

(* What the policy is to let through. *)
Admitted(m) == Listed(msg[m].from) /\ (config.directOnly => msg[m].to = Me)

(* Only admitted messages get a turn, and only one with a reply is sent. *)
TurnsAreAdmitted ==
  \A m \in Msgs :
    /\ turn[m] # "none" => stage[m] \notin {"idle", "scheduled"} /\ Admitted(m)
    /\ stage[m] = "asking" => turn[m] # "none"
    /\ stage[m] \in {"sending", "confirming", "abandoned"} =>
         turn[m] = "replied"

(* A request goes where its handler was told, *)
PostsReachTheirTarget ==
  /\ \A p \in Posts : stage[p] = "idle" => target[p] = Broadcast
  /\ \A i \in DOMAIN air :
       air[i].cause \in Posts => air[i].to = target[air[i].cause]

(* and a message from this node is the echo of what it transmitted. *)
OwnTextsAreEchoes ==
  \A m \in Msgs :
    stage[m] # "idle" /\ msg[m].from = Me =>
      \E i \in DOMAIN air : air[i].to = msg[m].to

Policy ==
  /\ TurnsAreAdmitted
  /\ RepliesAreSolicited
  /\ DropsAreJustified
  /\ PostsReachTheirTarget
  /\ OwnTextsAreEchoes
  /\ AgentNeverAnswersItself

----------------------------------------------------------------------------
(* Types                                                                   *)

LEMMA InitTypes == Init => TypeOK
<1> SUFFICES ASSUME Init PROVE TypeOK
  OBVIOUS
<1>1. msg \in [Msgs -> Packets \union {NoPacket}]
  BY DEF Init
<1>2. air \in Seq([cause : Senders, to : Nodes \union {Me, Broadcast}])
  BY EmptySeq DEF Init
<1>3. target \in [Posts -> Nodes \union {Me, Broadcast}]
  BY DEF Init
<1> QED
  BY <1>1, <1>2, <1>3 DEF Init, TypeOK

LEMMA HearTypes ==
  ASSUME TypeOK, NEW packet \in Packets, Hear(packet)
  PROVE  TypeOK'
<1>1. inbound' \in Nat /\ own' \in Nat /\ others' \in Nat
  <2>1. inbound \in Nat /\ own \in Nat /\ others \in Nat
    BY DEF TypeOK
  <2> QED
    BY <2>1 DEF Hear, Count
<1>2. /\ msg' \in [Msgs -> Packets \union {NoPacket}]
      /\ stage' \in [Senders -> {"idle", "scheduled", "asking", "reading",
                                 "sending", "confirming", "abandoned", "done"}]
  <2>1. CASE UNCHANGED <<msg, stage>>
    BY <2>1 DEF TypeOK
  <2>2. ASSUME NEW m \in Msgs, msg' = [msg EXCEPT ![m] = packet],
               stage' = [stage EXCEPT ![m] = "scheduled"]
        PROVE  <1>2!1 /\ <1>2!2
    BY <2>2 DEF TypeOK, Senders
  <2> QED
    BY <2>1, <2>2 DEF Hear, Schedule
<1>3. UNCHANGED <<process, outcome, target, turn, air>>
  BY DEF Hear
<1> QED
  BY <1>1, <1>2, <1>3 DEF TypeOK, process

LEMMA EchoIsPacket ==
  ASSUME TypeOK, NEW i \in DOMAIN air
  PROVE  [from |-> Me, to |-> air[i].to, kind |-> "text"] \in Packets
<1>1. air[i] \in [cause : Senders, to : Nodes \union {Me, Broadcast}]
  <2>1. air \in Seq([cause : Senders, to : Nodes \union {Me, Broadcast}])
    BY DEF TypeOK
  <2> QED
    BY <2>1, ElementOfSeq, LenProperties
<1> QED
  BY <1>1 DEF Packets

LEMMA NextTypes == TypeOK /\ [Next]_vars => TypeOK'
<1> SUFFICES ASSUME TypeOK, [Next]_vars PROVE TypeOK'
  OBVIOUS
<1> USE DEF process, tasks, counters
<1>1. CASE Lifecycle
  BY <1>1 DEF TypeOK, Lifecycle, OpenTransport, OpenFails, ConnectReturns, Bind,
     BeginStop, HttpStopped, CloseTransport, Disconnected, AgentStopped, Advance
<1>2. CASE Signal \/ Unplug
  BY <1>2 DEF TypeOK, Signal, Unplug
<1>3. CASE Reader
  BY <1>3, HearTypes, EchoIsPacket DEF Reader, HearAnother, HearOwn, HearEcho
<1>4. ASSUME NEW m \in Msgs, Forward(m) PROVE TypeOK'
  <2>1. m \in Senders
    BY DEF Senders
  <2>2. CASE Drop(m)
    BY <2>1, <2>2 DEF TypeOK, Drop, Finish
  <2>3. CASE AskAgent(m)
    BY <2>1, <2>3 DEF TypeOK, AskAgent
  <2>4. CASE AgentReplies(m)
    BY <2>1, <2>4 DEF TypeOK, AgentReplies, StartSend, Finish
  <2>5. CASE AgentIsSilent(m)
    BY <2>1, <2>5 DEF TypeOK, AgentIsSilent, Finish
  <2> QED
    BY <1>4, <2>2, <2>3, <2>4, <2>5 DEF Forward
<1>5. ASSUME NEW p \in Posts, Handle(p) PROVE TypeOK'
  BY <1>5 DEF TypeOK, Handle, StartSend, Finish, Senders
<1>6. ASSUME NEW p \in Posts, NEW dest \in Nodes \union {Me, Broadcast},
             Receive(p, dest)
      PROVE  TypeOK'
  BY <1>6 DEF TypeOK, Receive, Senders
<1>7. ASSUME NEW x \in Senders, Transmit(x) PROVE TypeOK'
  <2>1. Transmission(x) \in [cause : Senders, to : Nodes \union {Me, Broadcast}]
    <3>1. CASE x \in Msgs
      <4>1. msg[x] \in Packets \union {NoPacket}
        BY <3>1 DEF TypeOK
      <4>2. msg[x].from \in Nodes \union {Me}
        BY <4>1 DEF Packets, NoPacket
      <4> QED
        BY <3>1, <4>2 DEF Transmission
    <3>2. CASE x \notin Msgs
      <4>1. target[x] \in Nodes \union {Me, Broadcast}
        BY <3>2 DEF TypeOK, Senders
      <4> QED
        BY <3>2, <4>1 DEF Transmission
    <3> QED
      BY <3>1, <3>2
  <2>2. air' \in Seq([cause : Senders, to : Nodes \union {Me, Broadcast}])
    <3>1. air \in Seq([cause : Senders, to : Nodes \union {Me, Broadcast}])
      BY DEF TypeOK
    <3>2. air' = Append(air, Transmission(x))
      BY <1>7 DEF Transmit
    <3> QED
      BY <2>1, <3>1, <3>2, AppendProperties
  <2>3. stage' \in [Senders -> {"idle", "scheduled", "asking", "reading",
                                "sending", "confirming", "abandoned", "done"}]
    BY <1>7 DEF TypeOK, Transmit
  <2> QED
    BY <1>7, <2>2, <2>3 DEF TypeOK, Transmit
<1>8. ASSUME NEW x \in Senders, SendFails(x) \/ SendReturns(x) \/ Cancel(x)
      PROVE  TypeOK'
  BY <1>8 DEF TypeOK, SendFails, SendReturns, Cancel, Finish
<1>9. CASE UNCHANGED vars
  BY <1>9 DEF TypeOK, vars
<1> QED
  BY <1>1, <1>2, <1>3, <1>4, <1>5, <1>6, <1>7, <1>8, <1>9 DEF Next, SendText

(* Every variable keeps its type (main.py, radio.py, http_server.py).      *)
THEOREM TypeCorrect == Spec => []TypeOK
BY InitTypes, NextTypes, PTL DEF Spec

----------------------------------------------------------------------------
(* Sending                                                                 *)

LEMMA InitSending == Init => Sending
<1> SUFFICES ASSUME Init PROVE Sending
  OBVIOUS
<1>1. stage = [x \in Senders |-> "idle"] /\ outcome = [x \in Senders |-> "none"]
        /\ Posts \subseteq Senders /\ DOMAIN air = {}
  BY DEF Init, Senders
<1>2. OutcomeComesLast /\ HandlersAreNoTasks /\ HandlersAreServed
        /\ RequestsFindTheRadio /\ SentIsOnAir
  BY <1>1 DEF OutcomeComesLast, HandlersAreNoTasks, HandlersAreServed, Live,
     RequestsFindTheRadio, SentIsOnAir
<1>3. AirWasSent /\ OneEach
  BY <1>1 DEF AirWasSent, OneEach
<1> QED
  BY <1>2, <1>3, InitTypes DEF Sending

LEMMA AirTypes ==
  ASSUME TypeOK
  PROVE  \A i \in DOMAIN air : air[i].cause \in Senders
<1>1. air \in Seq([cause : Senders, to : Nodes \union {Me, Broadcast}])
  BY DEF TypeOK
<1>2. \A i \in DOMAIN air :
        air[i] \in [cause : Senders, to : Nodes \union {Me, Broadcast}]
  BY <1>1, ElementOfSeq, LenProperties
<1> QED
  BY <1>2

(* A step of one task or handler that puts nothing on the air. *)
LEMMA StepOfOne ==
  ASSUME Sending, TypeOK', UNCHANGED <<main, air>>, NEW x \in Senders,
         \A y \in Senders \ {x} :
           stage'[y] = stage[y] /\ outcome'[y] = outcome[y],
         stage[x] # "done",
         stage'[x] \notin {"abandoned", "done"} => outcome'[x] = "none",
         stage'[x] = "abandoned" => outcome'[x] = "cancelled",
         x \in Posts =>
           /\ stage'[x] \notin {"scheduled", "asking"}
           /\ Live(x)' => main \in {"running", "stopping http"}
           /\ outcome'[x] # "refused",
         stage[x] = "confirming" =>
           /\ stage'[x] \in {"confirming", "done"}
           /\ outcome'[x] \in {"none", "sent", "cancelled"},
         stage'[x] = "confirming" \/ outcome'[x] = "sent" =>
           stage[x] = "confirming"
  PROVE  Sending'
<1> USE DEF Sending
<1>1. Posts \subseteq Senders
  BY DEF Senders
<1>2. OutcomeComesLast'
  BY DEF OutcomeComesLast
<1>3. HandlersAreNoTasks' /\ HandlersAreServed' /\ RequestsFindTheRadio'
  BY <1>1 DEF HandlersAreNoTasks, HandlersAreServed, RequestsFindTheRadio, Live
<1>4. AirWasSent'
  BY AirTypes DEF AirWasSent
<1>5. OneEach' /\ SentIsOnAir'
  BY DEF OneEach, SentIsOnAir
<1> QED
  BY <1>2, <1>3, <1>4, <1>5

(* The air after a transmission. *)
LEMMA AirGrows ==
  ASSUME TypeOK, NEW x \in Senders, Transmit(x)
  PROVE  \E n : /\ n \notin DOMAIN air
               /\ DOMAIN air' = DOMAIN air \union {n}
               /\ air'[n] = Transmission(x)
               /\ \A i \in DOMAIN air : air'[i] = air[i]
<1> DEFINE text == [cause : Senders, to : Nodes \union {Me, Broadcast}]
<1>1. air \in Seq(text) /\ air' = Append(air, Transmission(x))
  BY DEF TypeOK, Transmit
<1>2. Transmission(x) \in text
  <2>1. CASE x \in Msgs
    <3>1. msg[x] \in Packets \union {NoPacket}
      BY <2>1 DEF TypeOK
    <3> QED
      BY <2>1, <3>1 DEF Transmission, Packets, NoPacket
  <2>2. CASE x \notin Msgs
    <3>1. target[x] \in Nodes \union {Me, Broadcast}
      BY <2>2 DEF TypeOK, Senders
    <3> QED
      BY <2>2, <3>1 DEF Transmission
  <2> QED
    BY <2>1, <2>2
<1>3. /\ Len(air) \in Nat /\ DOMAIN air = 1 .. Len(air)
      /\ air' \in Seq(text) /\ Len(air') = Len(air) + 1
      /\ DOMAIN air' = 1 .. Len(air')
      /\ \A i \in 1 .. Len(air) : air'[i] = air[i]
      /\ air'[Len(air) + 1] = Transmission(x)
  <2> HIDE DEF text
  <2> QED
    BY <1>1, <1>2, LenProperties, AppendProperties
<1> WITNESS Len(air) + 1
<1> QED
  BY <1>3

LEMMA TransmitSending ==
  ASSUME Sending, NEW x \in Senders, Transmit(x)
  PROVE  Sending'
<1> USE DEF Sending
<1>1. TypeOK'
  BY NextTypes DEF Next, SendText
<1>2. PICK n : /\ n \notin DOMAIN air
               /\ DOMAIN air' = DOMAIN air \union {n}
               /\ air'[n] = Transmission(x)
               /\ \A i \in DOMAIN air : air'[i] = air[i]
  BY AirGrows
<1>3. air'[n].cause = x
  BY <1>2 DEF Transmission
<1>4. /\ stage[x] \in {"sending", "abandoned"}
      /\ stage'[x] = IF stage[x] = "sending" THEN "confirming" ELSE "done"
      /\ \A y \in Senders \ {x} : stage'[y] = stage[y]
      /\ UNCHANGED <<main, outcome>>
  BY DEF Transmit, TypeOK, process
<1>5. \A i \in DOMAIN air : air[i].cause \in Senders /\ air[i].cause # x
  BY <1>4, AirTypes DEF AirWasSent
<1>6. OutcomeComesLast'
  BY <1>4 DEF OutcomeComesLast
<1>7. HandlersAreNoTasks' /\ HandlersAreServed' /\ RequestsFindTheRadio'
  BY <1>4 DEF HandlersAreNoTasks, HandlersAreServed, RequestsFindTheRadio, Live,
     Senders
<1>8. AirWasSent'
  <2>1. outcome[x] \in {"none", "cancelled"}
    BY <1>4 DEF OutcomeComesLast
  <2> QED
    BY <1>2, <1>3, <1>4, <1>5, <2>1 DEF AirWasSent
<1>9. OneEach'
  BY <1>2, <1>3, <1>5 DEF OneEach
<1>10. SentIsOnAir'
  <2>1. ASSUME NEW y \in Senders,
               stage'[y] = "confirming" \/ outcome'[y] = "sent"
        PROVE  \E i \in DOMAIN air' : air'[i].cause = y
    <3>1. CASE y = x
      BY <1>2, <1>3, <3>1
    <3>2. CASE y # x
      <4>1. PICK i \in DOMAIN air : air[i].cause = y
        BY <1>4, <2>1, <3>2 DEF SentIsOnAir
      <4> QED
        BY <1>2, <4>1
    <3> QED
      BY <3>1, <3>2
  <2> QED
    BY <2>1 DEF SentIsOnAir
<1> QED
  BY <1>1, <1>6, <1>7, <1>8, <1>9, <1>10

(* The life cycle leaves the calls alone, and waits for the handlers. *)
LEMMA LifecycleSending ==
  ASSUME Sending, Lifecycle
  PROVE  Sending'
<1> USE DEF Sending
<1>1. TypeOK'
  BY NextTypes DEF Next
<1>2. UNCHANGED <<stage, outcome, air>>
  BY DEF Lifecycle, OpenTransport, OpenFails, ConnectReturns, Bind, BeginStop,
     HttpStopped, CloseTransport, Disconnected, AgentStopped, tasks
<1>3. HandlersAreServed'
  <2>1. CASE HttpStopped
    BY <1>2, <2>1 DEF HttpStopped, HandlersAreServed, Live
  <2>2. CASE BeginStop
    BY <1>2, <2>2 DEF BeginStop, Advance, HandlersAreServed, Live
  <2>3. CASE ~HttpStopped /\ ~BeginStop
    <3>1. main \notin {"running", "stopping http"}
      BY <2>3 DEF Lifecycle, OpenTransport, OpenFails, ConnectReturns, Bind,
         CloseTransport, Disconnected, AgentStopped, Advance
    <3> QED
      BY <1>2, <3>1 DEF HandlersAreServed, Live
  <2> QED
    BY <2>1, <2>2, <2>3
<1> QED
  BY <1>1, <1>2, <1>3 DEF OutcomeComesLast, HandlersAreNoTasks, AirWasSent,
     OneEach, SentIsOnAir, RequestsFindTheRadio

LEMMA NextSending == Sending /\ [Next]_vars => Sending'
<1> SUFFICES ASSUME Sending, [Next]_vars PROVE Sending'
  OBVIOUS
<1>0. TypeOK /\ TypeOK' /\ Posts \subseteq Senders /\ Msgs \subseteq Senders
        /\ Msgs \intersect Posts = {}
  BY NextTypes, SendersAssumption DEF Sending, Senders
<1>1. CASE Lifecycle
  BY <1>1, LifecycleSending
<1>2. CASE UNCHANGED <<main, stage, outcome, air>>
  BY <1>0, <1>2 DEF Sending, OutcomeComesLast, HandlersAreNoTasks,
     HandlersAreServed, Live, AirWasSent, OneEach, SentIsOnAir,
     RequestsFindTheRadio
<1>3. CASE Signal \/ Unplug
  BY <1>2, <1>3 DEF Signal, Unplug, tasks
<1>4. ASSUME NEW packet \in Packets, Hear(packet) PROVE Sending'
  <2>1. UNCHANGED <<main, outcome, air>>
    BY <1>4 DEF Hear, process
  <2>2. CASE UNCHANGED stage
    BY <1>2, <2>1, <2>2
  <2>3. ASSUME NEW m \in Msgs, stage[m] = "idle",
               stage' = [stage EXCEPT ![m] = "scheduled"]
        PROVE  Sending'
    <3>1. outcome[m] = "none"
      BY <1>0, <2>3 DEF Sending, OutcomeComesLast
    <3>2. /\ stage'[m] = "scheduled"
          /\ \A y \in Senders \ {m} : stage'[y] = stage[y]
      BY <1>0, <2>3 DEF TypeOK
    <3> QED
      BY <1>0, <2>1, <2>3, <3>1, <3>2, StepOfOne
  <2> QED
    BY <1>4, <2>2, <2>3 DEF Hear, Schedule
<1>5. ASSUME NEW m \in Msgs, Forward(m) PROVE Sending'
  <2>1. m \in Senders /\ m \notin Posts /\ UNCHANGED <<main, air>>
    BY <1>0, <1>5 DEF Forward, Drop, AskAgent, AgentReplies, AgentIsSilent,
       process
  <2>2. \A y \in Senders \ {m} :
          stage'[y] = stage[y] /\ outcome'[y] = outcome[y]
    <3>1. CASE Drop(m) \/ AgentIsSilent(m)
      BY <1>0, <3>1 DEF TypeOK, Drop, AgentIsSilent, Finish
    <3>2. CASE AskAgent(m)
      BY <1>0, <3>2 DEF TypeOK, AskAgent
    <3>3. CASE AgentReplies(m)
      <4>1. \/ stage' = [stage EXCEPT ![m] = "sending"] /\ UNCHANGED outcome
            \/ Finish(m, "refused")
        BY <3>3 DEF AgentReplies, StartSend
      <4> QED
        BY <1>0, <4>1 DEF TypeOK, Finish
    <3> QED
      BY <1>5, <3>1, <3>2, <3>3 DEF Forward
  <2>3. stage[m] \in {"scheduled", "asking"} /\ outcome[m] = "none"
    BY <1>5, <2>1 DEF Forward, Drop, AskAgent, AgentReplies, AgentIsSilent,
       Sending, OutcomeComesLast
  <2>4. \/ /\ stage'[m] = "done"
           /\ outcome'[m] \in {"dropped", "fail closed", "refused", "silent"}
        \/ stage'[m] \in {"asking", "sending"} /\ outcome'[m] = outcome[m]
    BY <1>0, <1>5, <2>1 DEF TypeOK, Forward, Drop, AskAgent, AgentReplies,
       AgentIsSilent, StartSend, Finish
  <2> QED
    BY <1>0, <2>1, <2>2, <2>3, <2>4, StepOfOne
<1>6. ASSUME NEW p \in Posts, Handle(p) PROVE Sending'
  <2>1. p \in Senders /\ UNCHANGED <<main, air>> /\ stage[p] = "reading"
    BY <1>0, <1>6 DEF Handle, process
  <2>2. main \in {"running", "stopping http"} /\ outcome[p] = "none"
    BY <2>1 DEF Sending, HandlersAreServed, OutcomeComesLast, Live
  <2>3. /\ \A y \in Senders \ {p} :
             stage'[y] = stage[y] /\ outcome'[y] = outcome[y]
        /\ \/ stage'[p] = "done" /\ outcome'[p] = "bad request"
           \/ stage'[p] = "sending" /\ outcome'[p] = outcome[p]
    BY <1>0, <1>6, <2>1, <2>2 DEF TypeOK, Handle, StartSend, Connected, Finish
  <2> QED
    BY <1>0, <2>1, <2>2, <2>3, StepOfOne
<1>7. ASSUME NEW p \in Posts, NEW dest \in Nodes \union {Me, Broadcast},
             Receive(p, dest)
      PROVE  Sending'
  <2>1. p \in Senders /\ UNCHANGED <<main, outcome, air>> /\ main = "running"
          /\ stage[p] = "idle"
    BY <1>0, <1>7 DEF Receive, process
  <2>2. outcome[p] = "none"
    BY <2>1 DEF Sending, OutcomeComesLast
  <2>3. stage'[p] = "reading" /\ \A y \in Senders \ {p} : stage'[y] = stage[y]
    BY <1>0, <1>7, <2>1 DEF TypeOK, Receive
  <2> QED
    BY <1>0, <2>1, <2>2, <2>3, StepOfOne
<1>8. ASSUME NEW x \in Senders, SendFails(x) \/ SendReturns(x) \/ Cancel(x)
      PROVE  Sending'
  <2>1. UNCHANGED <<main, air>>
    BY <1>8 DEF SendFails, SendReturns, Cancel, process
  <2>2. \A y \in Senders \ {x} :
          stage'[y] = stage[y] /\ outcome'[y] = outcome[y]
    BY <1>0, <1>8 DEF TypeOK, SendFails, SendReturns, Cancel, Finish
  <2>3. \/ /\ stage[x] = "sending" /\ stage'[x] = "done"
           /\ outcome'[x] = "failed"
        \/ /\ stage[x] = "abandoned" /\ stage'[x] = "done"
           /\ outcome'[x] = outcome[x]
        \/ /\ stage[x] = "confirming" /\ stage'[x] = "done"
           /\ outcome'[x] = "sent"
        \/ /\ stage[x] # "done" /\ stage'[x] = "done"
           /\ outcome'[x] = "cancelled"
        \/ /\ stage[x] = "sending" /\ stage'[x] = "abandoned"
           /\ outcome'[x] = "cancelled"
    BY <1>0, <1>8 DEF TypeOK, SendFails, SendReturns, Cancel, Finish, Live
  <2>4. stage[x] = "abandoned" => outcome[x] = "cancelled"
    BY DEF Sending, OutcomeComesLast
  <2>5. ~Live(x)'
    BY <2>3 DEF Live
  <2> QED
    BY <1>0, <2>1, <2>2, <2>3, <2>4, <2>5, StepOfOne
<1>9. ASSUME NEW x \in Senders, Transmit(x) PROVE Sending'
  BY <1>9, TransmitSending
<1>10. CASE Reader
  BY <1>0, <1>4, <1>10, EchoIsPacket DEF Reader, HearAnother, HearOwn, HearEcho
<1>11. CASE UNCHANGED vars
  BY <1>2, <1>11 DEF vars
<1> QED
  BY <1>1, <1>3, <1>5, <1>6, <1>7, <1>8, <1>9, <1>10, <1>11 DEF Next, SendText

THEOREM SendingHolds == Spec => []Sending
BY InitSending, NextSending, PTL DEF Spec

(* A request never finds the radio disconnected, however its handler, the  *)
(* start and the stop interleave (main.py:85-108, 223-225).                *)
THEOREM RequestsServed == Spec => []RequestsFindTheRadio
BY SendingHolds, PTL DEF Sending

LEMMA SendingIsOnce == Sending => EachSendIsOneTransmission
<1> SUFFICES ASSUME Sending, NEW x \in Senders
             PROVE  LET times ==
                          Cardinality({i \in DOMAIN air : air[i].cause = x})
                    IN /\ times <= 1
                       /\ outcome[x] = "sent" => times = 1
                       /\ outcome[x] \in {"dropped", "fail closed", "silent",
                                          "refused", "failed", "bad request"}
                            => times = 0
  BY DEF EachSendIsOneTransmission
<1> DEFINE mine == {i \in DOMAIN air : air[i].cause = x}
<1>1. CASE mine = {}
  <2>1. Cardinality(mine) = 0
    BY <1>1, FS_EmptySet
  <2>2. outcome[x] # "sent"
    BY <1>1 DEF Sending, SentIsOnAir
  <2> QED
    BY <2>1, <2>2
<1>2. CASE mine # {}
  <2>1. PICK i \in mine : TRUE
    BY <1>2
  <2>2. mine = {i}
    BY <2>1 DEF Sending, OneEach
  <2>3. Cardinality(mine) = 1
    BY <2>2, FS_Singleton
  <2>4. outcome[x] \in {"none", "sent", "cancelled"}
    BY <2>1 DEF Sending, AirWasSent
  <2>5. outcome[x] \notin {"dropped", "fail closed", "silent", "refused",
                          "failed", "bad request"}
    BY <2>4
  <2> HIDE DEF mine
  <2>6. Cardinality(mine) <= 1
    BY <2>3
  <2> QED
    BY <2>3, <2>5, <2>6 DEF mine
<1> QED
  BY <1>1, <1>2

(* No message and no request is transmitted twice, and every verdict on it *)
(* is right about the air (main.py:200-233, radio.py:126-153).             *)
THEOREM SentOnce == Spec => []EachSendIsOneTransmission
BY SendingHolds, SendingIsOnce, PTL

----------------------------------------------------------------------------
(* Counting                                                                *)

LEMMA NextCounts ==
  ASSUME TypeOK, OthersAreCounted, [Next]_vars
  PROVE  OthersAreCounted'
<1>1. inbound \in Nat /\ others \in Nat
  BY DEF TypeOK
<1>2. ASSUME NEW packet \in Packets, Hear(packet) PROVE OthersAreCounted'
  BY <1>1, <1>2 DEF Hear, Count, OthersAreCounted
<1>3. CASE Reader
  BY <1>2, <1>3, EchoIsPacket DEF Reader, HearAnother, HearOwn, HearEcho
<1>4. CASE UNCHANGED <<inbound, others>>
  BY <1>4 DEF OthersAreCounted
<1>5. ASSUME Next, ~Reader PROVE UNCHANGED <<inbound, others>>
  <2> USE DEF counters
  <2>1. ASSUME NEW m \in Msgs, Forward(m) PROVE UNCHANGED <<inbound, others>>
    BY <2>1 DEF Forward, Drop, AskAgent, AgentReplies, AgentIsSilent
  <2>2. ASSUME NEW x \in Senders, SendText(x) \/ Cancel(x)
        PROVE  UNCHANGED <<inbound, others>>
    BY <2>2 DEF SendText, Transmit, SendFails, SendReturns, Cancel
  <2>3. ASSUME Lifecycle \/ Signal \/ Unplug PROVE UNCHANGED <<inbound, others>>
    BY <2>3 DEF Lifecycle, OpenTransport, OpenFails, ConnectReturns, Bind,
       BeginStop, HttpStopped, CloseTransport, Disconnected, AgentStopped,
       Signal, Unplug
  <2>4. ASSUME NEW p \in Posts, Handle(p) PROVE UNCHANGED <<inbound, others>>
    BY <2>4 DEF Handle
  <2>5. ASSUME NEW p \in Posts, NEW dest \in Nodes \union {Me, Broadcast},
               Receive(p, dest)
        PROVE  UNCHANGED <<inbound, others>>
    BY <2>5 DEF Receive
  <2> QED
    BY <1>5, <2>1, <2>2, <2>3, <2>4, <2>5 DEF Next
<1> QED
  BY <1>3, <1>4, <1>5 DEF vars

(* No packet of another node is ever taken for the bridge's own, in        *)
(* particular not in the window in which the own id is unknown             *)
(* (main.py:115-125).                                                      *)
THEOREM Counted == Spec => []OthersAreCounted
<1>1. Init => OthersAreCounted
  BY DEF Init, OthersAreCounted
<1> QED
  BY <1>1, NextCounts, TypeCorrect, PTL DEF Spec

----------------------------------------------------------------------------
(* The policy                                                              *)

LEMMA SameIdNames ==
  ASSUME NEW id, NEW node \in Nodes \union {Me},
         \E k \in NodeNumbers : Names(id, k)
  PROVE  SameId(id, IdOf(node)) <=> Names(id, node)
<1>1. node \in NodeNumbers
  BY NumbersAssumption
<1>2. PICK k \in NodeNumbers : id \in Spellings(k)
  BY DEF Names
<1>3. Normalize(id) = Normalize(IdOf(node)) <=> k = node
  BY <1>1, <1>2, EverySpellingIsRead DEF SpellingsAreRead
<1>4. id \in Spellings(node) => Normalize(id) = Normalize(IdOf(node))
  BY <1>1, EverySpellingIsRead DEF SpellingsAreRead
<1> QED
  BY <1>2, <1>3, <1>4 DEF SameId, Names

LEMMA AllowedIsListed ==
  ASSUME TypeOK, NEW node \in Nodes \union {Me}
  PROVE  IsAllowed(node) <=> Listed(node)
<1>1. config.allowed \in Allowlists
  BY DEF TypeOK
<1>2. \A id \in config.allowed : SameId(id, IdOf(node)) <=> Names(id, node)
  BY <1>1, AllowlistsAssumption, SameIdNames
<1> QED
  BY <1>2 DEF IsAllowed, Listed

LEMMA IsToMeIsExact ==
  ASSUME NEW packet,
         packet.to \in Nodes \union {Me, Broadcast}
  PROVE  IsToMe(packet) <=> OwnIdKnown /\ packet.to = Me
<1>1. CASE packet.to = Broadcast
  BY <1>1, NodesAssumption DEF IsToMe
<1>2. CASE packet.to # Broadcast
  <2>1. packet.to \in NodeNumbers /\ Me \in NodeNumbers
    BY <1>2, NumbersAssumption
  <2>2. IdOf(packet.to) \in Spellings(packet.to)
    BY DEF Spellings
  <2>3. SameId(IdOf(packet.to), IdOf(Me)) <=> packet.to = Me
    BY <2>1, <2>2, EverySpellingIsRead
       DEF SpellingsAreRead, SameId
  <2> QED
    BY <1>2, <2>3 DEF IsToMe
<1> QED
  BY <1>1, <1>2

LEMMA PacketTypes ==
  ASSUME TypeOK, NEW m \in Msgs
  PROVE  /\ msg[m].from \in Nodes \union {Me}
         /\ msg[m].to \in Nodes \union {Me, Broadcast}
<1>1. msg[m] \in Packets \union {NoPacket}
  BY DEF TypeOK
<1> QED
  BY <1>1 DEF Packets, NoPacket

(* What the policy lets through, and what it does not, by what the         *)
(* configuration says and not by how it is spelled.                        *)
LEMMA AdmitsIsExact ==
  ASSUME TypeOK, NEW m \in Msgs
  PROVE  Admits(msg[m]) <=>
           /\ config.directOnly => OwnIdKnown /\ msg[m].to = Me
           /\ Listed(msg[m].from)
           /\ msg[m].kind # "notification"
<1>1. IsAllowed(msg[m].from) <=> Listed(msg[m].from)
  BY AllowedIsListed, PacketTypes
<1>2. IsToMe(msg[m]) <=> OwnIdKnown /\ msg[m].to = Me
  BY IsToMeIsExact, PacketTypes
<1> QED
  BY <1>1, <1>2 DEF Admits

LEMMA InitPolicy == Init => Policy
<1> SUFFICES ASSUME Init PROVE Policy
  OBVIOUS
<1>1. DOMAIN air = {} /\ Msgs \subseteq Senders /\ Posts \subseteq Senders
  BY DEF Init, Senders
<1> QED
  BY <1>1 DEF Init, Policy, TurnsAreAdmitted, RepliesAreSolicited,
     DropsAreJustified, PostsReachTheirTarget, OwnTextsAreEchoes,
     AgentNeverAnswersItself

(* A step of one task or handler in which no message is taken, dropped,    *)
(* asked about or answered, and nothing is transmitted.                    *)
LEMMA QuietStep ==
  ASSUME Sending, Policy, UNCHANGED <<config, msg, target, turn, air>>,
         NEW x \in Senders,
         \A y \in Senders \ {x} :
           stage'[y] = stage[y] /\ outcome'[y] = outcome[y],
         stage[x] # "idle",
         \/ stage'[x] = "done"
         \/ stage'[x] = "sending" /\ x \in Posts
         \/ stage'[x] = "abandoned" /\ stage[x] = "sending",
         outcome'[x] \in {"dropped", "fail closed"} => outcome'[x] = outcome[x]
  PROVE  Policy'
<1> USE DEF Policy
<1>1. Msgs \subseteq Senders /\ Posts \subseteq Senders
        /\ Msgs \intersect Posts = {}
  BY SendersAssumption DEF Senders
<1>2. /\ \A node : Listed(node)' = Listed(node)
      /\ \A m \in Msgs : Admitted(m)' = Admitted(m)
  BY DEF Listed, Admitted
<1>3. TurnsAreAdmitted'
  BY <1>1, <1>2 DEF TurnsAreAdmitted
<1>4. RepliesAreSolicited'
  BY <1>2 DEF RepliesAreSolicited
<1>5. DropsAreJustified'
  BY <1>1, <1>2 DEF DropsAreJustified
<1>6. PostsReachTheirTarget'
  BY <1>1 DEF PostsReachTheirTarget
<1>7. OwnTextsAreEchoes'
  BY <1>1 DEF OwnTextsAreEchoes
<1>8. AgentNeverAnswersItself'
  BY <1>2 DEF AgentNeverAnswersItself
<1> QED
  BY <1>3, <1>4, <1>5, <1>6, <1>7, <1>8

(* Taking a message: it has not been asked about, and an own text is the   *)
(* echo of one that is on the air.                                         *)
LEMMA TakePolicy ==
  ASSUME Sending, Policy, NEW packet \in Packets, Hear(packet),
         packet.from = Me /\ packet.kind # "other" =>
           \E i \in DOMAIN air : air[i].to = packet.to
  PROVE  Policy'
<1> USE DEF Policy
<1>1. UNCHANGED <<config, outcome, target, turn, air>>
  BY DEF Hear, process
<1>2. \A node : Listed(node)' = Listed(node)
  BY <1>1 DEF Listed
<1>3. CASE UNCHANGED <<msg, stage>>
  BY <1>1, <1>2, <1>3 DEF TurnsAreAdmitted, Admitted, RepliesAreSolicited,
     DropsAreJustified, PostsReachTheirTarget, OwnTextsAreEchoes,
     AgentNeverAnswersItself
<1>4. ASSUME NEW m \in Msgs, stage[m] = "idle", packet.kind # "other",
             msg' = [msg EXCEPT ![m] = packet],
             stage' = [stage EXCEPT ![m] = "scheduled"]
      PROVE  Policy'
  <2>1. m \in Senders /\ m \notin Posts
    BY SendersAssumption DEF Senders
  <2>2. /\ msg'[m] = packet /\ stage'[m] = "scheduled"
        /\ \A n \in Msgs \ {m} : msg'[n] = msg[n]
        /\ \A y \in Senders \ {m} : stage'[y] = stage[y]
    BY <1>4, <2>1 DEF Sending, TypeOK
  <2>3. turn[m] = "none" /\ outcome[m] = "none"
    BY <1>4, <2>1 DEF TurnsAreAdmitted, Sending, OutcomeComesLast
  <2>4. \A i \in DOMAIN air : air[i].cause # m
    BY <1>4 DEF Sending, AirWasSent
  <2>5. \A n \in Msgs \ {m} : Admitted(n)' = Admitted(n)
    BY <1>1, <1>2, <2>2 DEF Admitted
  <2>6. Msgs \subseteq Senders /\ Posts \subseteq Senders
    BY DEF Senders
  <2>7. TurnsAreAdmitted'
    BY <1>1, <2>2, <2>3, <2>5, <2>6 DEF TurnsAreAdmitted
  <2>8. RepliesAreSolicited'
    BY <1>1, <1>2, <2>2, <2>4 DEF RepliesAreSolicited
  <2>9. DropsAreJustified'
    BY <1>1, <1>2, <2>2, <2>3 DEF DropsAreJustified
  <2>10. PostsReachTheirTarget'
    BY <1>1, <2>1, <2>2, <2>6 DEF PostsReachTheirTarget
  <2>11. OwnTextsAreEchoes'
    BY <1>1, <1>4, <2>2, <2>6 DEF OwnTextsAreEchoes
  <2>12. AgentNeverAnswersItself'
    BY <1>1, <1>2, <2>2, <2>3 DEF AgentNeverAnswersItself
  <2> QED
    BY <2>7, <2>8, <2>9, <2>10, <2>11, <2>12
<1> QED
  BY <1>3, <1>4 DEF Hear, Schedule

(* Dropping a message: what the policy did not let through. *)
LEMMA DropPolicy ==
  ASSUME Sending, Policy, NEW m \in Msgs, Drop(m)
  PROVE  Policy'
<1> USE DEF Policy
<1>1. Msgs \subseteq Senders /\ Posts \subseteq Senders
        /\ Msgs \intersect Posts = {} /\ TypeOK
  BY SendersAssumption DEF Senders, Sending
<1>2. UNCHANGED <<config, msg, target, turn, air>> /\ stage[m] = "scheduled"
  BY DEF Drop, process
<1>3. /\ stage'[m] = "done"
      /\ outcome'[m] = IF config.directOnly /\ ~OwnIdKnown THEN "fail closed"
                                                           ELSE "dropped"
      /\ \A y \in Senders \ {m} :
           stage'[y] = stage[y] /\ outcome'[y] = outcome[y]
  BY <1>1 DEF Drop, Finish, TypeOK
<1>4. /\ \A node : Listed(node)' = Listed(node)
      /\ \A n \in Msgs : Admitted(n)' = Admitted(n)
  BY <1>2 DEF Listed, Admitted
<1>5. ~Admits(msg[m])
  BY DEF Drop
<1>6. TurnsAreAdmitted' /\ RepliesAreSolicited'
  BY <1>1, <1>2, <1>3, <1>4 DEF TurnsAreAdmitted, RepliesAreSolicited
<1>7. DropsAreJustified'
  <2>1. /\ outcome'[m] = "dropped" =>
             \/ config.directOnly /\ msg[m].to # Me
             \/ ~Listed(msg[m].from)
             \/ msg[m].kind = "notification"
        /\ outcome'[m] = "fail closed" => config.directOnly
    BY <1>1, <1>3, <1>5, AdmitsIsExact
  <2> QED
    BY <1>1, <1>2, <1>3, <1>4, <2>1 DEF DropsAreJustified
<1>8. PostsReachTheirTarget' /\ OwnTextsAreEchoes'
  BY <1>1, <1>2, <1>3 DEF PostsReachTheirTarget, OwnTextsAreEchoes
<1>9. AgentNeverAnswersItself'
  BY <1>2, <1>4 DEF AgentNeverAnswersItself
<1> QED
  BY <1>6, <1>7, <1>8, <1>9

(* Asking: if it is the bridge's own text, it is the echo of a request, or *)
(* of a reply to an earlier echo.                                          *)
LEMMA AskPolicy ==
  ASSUME Sending, Policy, NEW m \in Msgs, AskAgent(m)
  PROVE  Policy'
<1> USE DEF Policy
<1>1. Msgs \subseteq Senders /\ Posts \subseteq Senders
        /\ Msgs \intersect Posts = {} /\ TypeOK
  BY SendersAssumption DEF Senders, Sending
<1>2. UNCHANGED <<config, msg, outcome, target, air>> /\ stage[m] = "scheduled"
  BY DEF AskAgent, process
<1>3. /\ stage'[m] = "asking" /\ turn'[m] = "asked"
      /\ \A y \in Senders \ {m} : stage'[y] = stage[y]
      /\ \A n \in Msgs \ {m} : turn'[n] = turn[n]
  BY <1>1 DEF AskAgent, TypeOK
<1>4. /\ \A node : Listed(node)' = Listed(node)
      /\ \A n \in Msgs : Admitted(n)' = Admitted(n)
  BY <1>2 DEF Listed, Admitted
<1>5. Admitted(m)
  BY <1>1, AdmitsIsExact DEF AskAgent, Admitted
<1>6. TurnsAreAdmitted'
  BY <1>1, <1>3, <1>4, <1>5 DEF TurnsAreAdmitted
<1>7. RepliesAreSolicited'
  <2>1. \A i \in DOMAIN air : air[i].cause # m
    BY <1>2 DEF Sending, AirWasSent
  <2> QED
    BY <1>2, <1>3, <1>4, <2>1 DEF RepliesAreSolicited
<1>8. DropsAreJustified'
  BY <1>2, <1>4 DEF DropsAreJustified
<1>9. PostsReachTheirTarget' /\ OwnTextsAreEchoes'
  BY <1>1, <1>2, <1>3 DEF PostsReachTheirTarget, OwnTextsAreEchoes
<1>10. AgentNeverAnswersItself'
  <2>1. CASE msg[m].from # Me
    BY <1>2, <1>3, <1>4, <2>1 DEF AgentNeverAnswersItself
  <2>2. CASE msg[m].from = Me
    <3>1. Listed(Me)
      BY <1>5, <2>2 DEF Admitted
    <3>2. ASSUME config.directOnly PROVE \E p \in Posts : target[p] = Me
      <4>1. PICK i \in DOMAIN air : air[i].to = Me
        BY <1>2, <1>5, <2>2, <3>2 DEF OwnTextsAreEchoes, Admitted
      <4>2. CASE air[i].cause \in Posts
        BY <4>1, <4>2 DEF PostsReachTheirTarget
      <4>3. CASE air[i].cause \in Msgs
        <5>1. /\ turn[air[i].cause] = "replied"
              /\ msg[air[i].cause].from = Me
          BY <4>1, <4>3 DEF RepliesAreSolicited
        <5> QED
          BY <3>2, <4>3, <5>1 DEF AgentNeverAnswersItself
      <4>4. air[i].cause \in Msgs \union Posts
        BY <1>1, AirTypes DEF Senders
      <4> QED
        BY <4>2, <4>3, <4>4
    <3> QED
      BY <1>2, <1>4, <3>1, <3>2 DEF AgentNeverAnswersItself
  <2> QED
    BY <2>1, <2>2
<1> QED
  BY <1>6, <1>7, <1>8, <1>9, <1>10

LEMMA ReplyPolicy ==
  ASSUME Sending, Policy, NEW m \in Msgs, AgentReplies(m)
  PROVE  Policy'
<1> USE DEF Policy
<1>1. Msgs \subseteq Senders /\ Posts \subseteq Senders
        /\ Msgs \intersect Posts = {} /\ TypeOK
  BY SendersAssumption DEF Senders, Sending
<1>2. UNCHANGED <<config, msg, target, air>> /\ stage[m] = "asking"
  BY DEF AgentReplies, process
<1>3. /\ stage'[m] \in {"sending", "done"}
      /\ outcome'[m] \notin {"dropped", "fail closed"}
      /\ \A y \in Senders \ {m} :
           stage'[y] = stage[y] /\ outcome'[y] = outcome[y]
  <2>1. outcome[m] = "none"
    BY <1>1, <1>2 DEF Sending, OutcomeComesLast
  <2>2. \/ stage' = [stage EXCEPT ![m] = "sending"] /\ UNCHANGED outcome
        \/ Finish(m, "refused")
    BY DEF AgentReplies, StartSend
  <2> QED
    BY <1>1, <2>1, <2>2 DEF TypeOK, Finish
<1>4. turn'[m] = "replied" /\ \A n \in Msgs \ {m} : turn'[n] = turn[n]
  BY <1>1 DEF AgentReplies, TypeOK
<1>5. /\ \A node : Listed(node)' = Listed(node)
      /\ \A n \in Msgs : Admitted(n)' = Admitted(n)
  BY <1>2 DEF Listed, Admitted
<1>6. turn[m] # "none" /\ Admitted(m)
  BY <1>2 DEF TurnsAreAdmitted
<1>7. TurnsAreAdmitted'
  BY <1>1, <1>3, <1>4, <1>5, <1>6 DEF TurnsAreAdmitted
<1>8. RepliesAreSolicited'
  BY <1>2, <1>4, <1>5 DEF RepliesAreSolicited
<1>9. DropsAreJustified'
  BY <1>1, <1>2, <1>3, <1>5 DEF DropsAreJustified
<1>10. PostsReachTheirTarget' /\ OwnTextsAreEchoes'
  BY <1>1, <1>2, <1>3 DEF PostsReachTheirTarget, OwnTextsAreEchoes
<1>11. AgentNeverAnswersItself'
  BY <1>2, <1>4, <1>5, <1>6 DEF AgentNeverAnswersItself
<1> QED
  BY <1>7, <1>8, <1>9, <1>10, <1>11

(* A request brings its target along. *)
LEMMA ReceivePolicy ==
  ASSUME Sending, Policy, NEW p \in Posts,
         NEW dest \in Nodes \union {Me, Broadcast}, Receive(p, dest)
  PROVE  Policy'
<1> USE DEF Policy
<1>1. Msgs \subseteq Senders /\ Posts \subseteq Senders
        /\ Msgs \intersect Posts = {} /\ TypeOK
  BY SendersAssumption DEF Senders, Sending
<1>2. UNCHANGED <<config, msg, outcome, turn, air>> /\ stage[p] = "idle"
  BY DEF Receive, process
<1>3. /\ stage'[p] = "reading"
      /\ \A y \in Senders \ {p} : stage'[y] = stage[y]
      /\ \A q \in Posts \ {p} : target'[q] = target[q]
  BY <1>1 DEF Receive, TypeOK
<1>4. /\ \A node : Listed(node)' = Listed(node)
      /\ \A n \in Msgs : Admitted(n)' = Admitted(n)
  BY <1>2 DEF Listed, Admitted
<1>5. TurnsAreAdmitted' /\ RepliesAreSolicited' /\ DropsAreJustified'
  BY <1>1, <1>2, <1>3, <1>4 DEF TurnsAreAdmitted, RepliesAreSolicited,
     DropsAreJustified
<1>6. PostsReachTheirTarget'
  <2>1. \A i \in DOMAIN air : air[i].cause # p
    BY <1>2 DEF Sending, AirWasSent
  <2> QED
    BY <1>1, <1>2, <1>3, <2>1 DEF PostsReachTheirTarget
<1>7. OwnTextsAreEchoes'
  BY <1>1, <1>2, <1>3 DEF OwnTextsAreEchoes
<1>8. AgentNeverAnswersItself'
  <2>1. target[p] # Me
    BY <1>2, NodesAssumption DEF PostsReachTheirTarget
  <2> QED
    BY <1>2, <1>3, <1>4, <2>1 DEF AgentNeverAnswersItself
<1> QED
  BY <1>5, <1>6, <1>7, <1>8

LEMMA TransmitPolicy ==
  ASSUME Sending, Policy, NEW x \in Senders, Transmit(x)
  PROVE  Policy'
<1> USE DEF Policy
<1>1. Msgs \subseteq Senders /\ Posts \subseteq Senders
        /\ Msgs \intersect Posts = {} /\ TypeOK
  BY SendersAssumption DEF Senders, Sending
<1>2. PICK n : /\ n \notin DOMAIN air
               /\ DOMAIN air' = DOMAIN air \union {n}
               /\ air'[n] = Transmission(x)
               /\ \A i \in DOMAIN air : air'[i] = air[i]
  BY <1>1, AirGrows
<1>3. UNCHANGED <<config, msg, outcome, target, turn>>
        /\ stage[x] \in {"sending", "abandoned"}
  BY DEF Transmit, process
<1>4. /\ stage'[x] \in {"confirming", "done"}
      /\ \A y \in Senders \ {x} : stage'[y] = stage[y]
  BY <1>1 DEF Transmit, TypeOK
<1>5. /\ \A node : Listed(node)' = Listed(node)
      /\ \A m \in Msgs : Admitted(m)' = Admitted(m)
  BY <1>3 DEF Listed, Admitted
<1>6. /\ air'[n].cause = x
      /\ x \in Msgs => air'[n].to = msg[x].from
      /\ x \notin Msgs => air'[n].to = target[x]
  BY <1>2 DEF Transmission
<1>7. TurnsAreAdmitted'
  BY <1>1, <1>3, <1>4, <1>5 DEF TurnsAreAdmitted
<1>8. RepliesAreSolicited'
  <2>1. x \in Msgs => turn[x] = "replied" /\ Admitted(x)
    BY <1>3 DEF TurnsAreAdmitted
  <2> QED
    BY <1>2, <1>3, <1>5, <1>6, <2>1 DEF RepliesAreSolicited, Admitted
<1>9. DropsAreJustified'
  BY <1>3, <1>5 DEF DropsAreJustified
<1>10. PostsReachTheirTarget'
  BY <1>1, <1>2, <1>3, <1>4, <1>6 DEF PostsReachTheirTarget
<1>11. OwnTextsAreEchoes'
  <2>1. ASSUME NEW m \in Msgs, stage'[m] # "idle", msg[m].from = Me
        PROVE  \E i \in DOMAIN air' : air'[i].to = msg[m].to
    <3>1. stage[m] # "idle"
      BY <1>1, <1>3, <1>4, <2>1
    <3>2. PICK i \in DOMAIN air : air[i].to = msg[m].to
      BY <2>1, <3>1 DEF OwnTextsAreEchoes
    <3> QED
      BY <1>2, <3>2
  <2> QED
    BY <1>3, <2>1 DEF OwnTextsAreEchoes
<1>12. AgentNeverAnswersItself'
  BY <1>3, <1>5 DEF AgentNeverAnswersItself
<1> QED
  BY <1>7, <1>8, <1>9, <1>10, <1>11, <1>12

LEMMA NextPolicy ==
  ASSUME Sending, Policy, [Next]_vars
  PROVE  Policy'
<1>0. Msgs \subseteq Senders /\ Posts \subseteq Senders
        /\ Msgs \intersect Posts = {} /\ TypeOK
  BY SendersAssumption DEF Senders, Sending
<1>1. CASE UNCHANGED <<config, tasks, air>>
  BY <1>1 DEF tasks, Policy, TurnsAreAdmitted, Admitted, Listed,
     RepliesAreSolicited, DropsAreJustified, PostsReachTheirTarget,
     OwnTextsAreEchoes, AgentNeverAnswersItself
<1>2. CASE Lifecycle \/ Signal \/ Unplug
  <2>1. UNCHANGED <<config, tasks, air>>
    BY <1>2 DEF Lifecycle, OpenTransport, OpenFails, ConnectReturns, Bind,
       BeginStop, HttpStopped, CloseTransport, Disconnected, AgentStopped,
       Signal, Unplug
  <2> QED
    BY <1>1, <2>1
<1>3. CASE Reader
  <2>1. ASSUME NEW packet \in Packets, HearAnother(packet) PROVE Policy'
    BY <2>1, TakePolicy, NodesAssumption DEF HearAnother
  <2>2. ASSUME NEW packet \in Packets, HearOwn(packet) PROVE Policy'
    BY <2>2, TakePolicy DEF HearOwn
  <2>3. ASSUME NEW i \in DOMAIN air, HearEcho(i) PROVE Policy'
    BY <1>0, <2>3, EchoIsPacket, TakePolicy DEF HearEcho
  <2> QED
    BY <1>3, <2>1, <2>2, <2>3 DEF Reader
<1>4. ASSUME NEW m \in Msgs, Forward(m) PROVE Policy'
  <2>1. CASE AgentIsSilent(m)
    <3>1. UNCHANGED <<config, msg, target, turn, air>> /\ stage[m] = "asking"
      BY <2>1 DEF AgentIsSilent, process
    <3>2. /\ stage'[m] = "done" /\ outcome'[m] = "silent"
          /\ \A y \in Senders \ {m} :
               stage'[y] = stage[y] /\ outcome'[y] = outcome[y]
      BY <1>0, <2>1 DEF AgentIsSilent, Finish, TypeOK
    <3> QED
      BY <1>0, <3>1, <3>2, QuietStep
  <2> QED
    BY <1>4, <2>1, DropPolicy, AskPolicy, ReplyPolicy DEF Forward
<1>5. ASSUME NEW p \in Posts, Handle(p) PROVE Policy'
  <2>1. UNCHANGED <<config, msg, target, turn, air>> /\ stage[p] = "reading"
    BY <1>5 DEF Handle, process
  <2>2. outcome[p] = "none"
    BY <1>0, <2>1 DEF Sending, OutcomeComesLast
  <2>3. /\ \A y \in Senders \ {p} :
             stage'[y] = stage[y] /\ outcome'[y] = outcome[y]
        /\ stage'[p] \in {"sending", "done"}
        /\ outcome'[p] \notin {"dropped", "fail closed"}
    <3>1. \/ Finish(p, "bad request") \/ Finish(p, "refused")
          \/ stage' = [stage EXCEPT ![p] = "sending"] /\ UNCHANGED outcome
      BY <1>5 DEF Handle, StartSend
    <3> QED
      BY <1>0, <2>2, <3>1 DEF Finish, TypeOK
  <2> QED
    BY <1>0, <2>1, <2>3, QuietStep
<1>6. ASSUME NEW x \in Senders, SendFails(x) \/ SendReturns(x) \/ Cancel(x)
      PROVE  Policy'
  <2>1. UNCHANGED <<config, msg, target, turn, air>> /\ stage[x] # "idle"
    BY <1>6 DEF SendFails, SendReturns, Cancel, Live, process
  <2>2. \/ stage' = [stage EXCEPT ![x] = "done"] /\ UNCHANGED outcome
        \/ Finish(x, "failed") \/ Finish(x, "sent") \/ Finish(x, "cancelled")
        \/ /\ stage[x] = "sending" /\ stage' = [stage EXCEPT ![x] = "abandoned"]
           /\ outcome' = [outcome EXCEPT ![x] = "cancelled"]
    BY <1>6 DEF SendFails, SendReturns, Cancel
  <2>3. /\ \A y \in Senders \ {x} :
             stage'[y] = stage[y] /\ outcome'[y] = outcome[y]
        /\ \/ stage'[x] = "done"
           \/ stage'[x] = "abandoned" /\ stage[x] = "sending"
        /\ outcome'[x] \in {"dropped", "fail closed"} =>
             outcome'[x] = outcome[x]
    BY <1>0, <2>2 DEF Finish, TypeOK
  <2> QED
    BY <2>1, <2>3, QuietStep
<1>7. ASSUME NEW p \in Posts, NEW dest \in Nodes \union {Me, Broadcast},
             Receive(p, dest)
      PROVE  Policy'
  BY <1>7, ReceivePolicy
<1>8. ASSUME NEW x \in Senders, Transmit(x) PROVE Policy'
  BY <1>8, TransmitPolicy
<1>9. CASE UNCHANGED vars
  BY <1>1, <1>9 DEF vars, tasks
<1> QED
  BY <1>2, <1>3, <1>4, <1>5, <1>6, <1>7, <1>8, <1>9 DEF Next, SendText

THEOREM PolicyHolds == Spec => []Policy
<1>1. Sending /\ Policy /\ [Next]_vars => Policy'
  BY NextPolicy
<1> QED
  BY <1>1, InitPolicy, SendingHolds, PTL DEF Spec

(* Whatever is transmitted for a message is the agent's reply, to its      *)
(* sender, whom the allowlist names in some documented spelling and who    *)
(* addressed this node if that is asked for (main.py:155-217).             *)
THEOREM Solicited == Spec => []RepliesAreSolicited
BY PolicyHolds, PTL DEF Policy

(* and no message that the policy is to let through is dropped.            *)
THEOREM Justified == Spec => []DropsAreJustified
BY PolicyHolds, PTL DEF Policy

(* The bridge talks to itself only if it is listed, or nobody is, and only *)
(* if somebody posted it a text of its own when messages must be direct,   *)
(* however many echoes of replies to echoes there are (main.py:170-191).   *)
THEOREM NoFeedback == Spec => []AgentNeverAnswersItself
BY PolicyHolds, PTL DEF Policy

----------------------------------------------------------------------------
(* The refinement of Pipeline                                              *)

Addressees == Nodes \union {Me, Broadcast}
Transmissions == [cause : Senders, to : Addressees]

(* Whom the replies went to is found by one transmission after the other. *)
LEMMA RecipientsFollow ==
  ASSUME NEW m, NEW texts \in Seq(Transmissions)
  PROVE  /\ \A k \in 0 .. Len(texts) :
              RecipientsOf(m, texts)[k] \in Seq(Addressees)
         /\ RecipientsOf(m, texts)[0] = <<>>
         /\ \A k \in Nat : k < Len(texts) =>
              RecipientsOf(m, texts)[k + 1] =
                IF texts[k + 1].cause = m
                THEN Append(RecipientsOf(m, texts)[k], texts[k + 1].to)
                ELSE RecipientsOf(m, texts)[k]
<1> DEFINE n == Len(texts)
           S == Seq(Addressees)
           move == [i \in 1 .. n |-> [sent \in S |->
                      IF texts[i].cause = m THEN Append(sent, texts[i].to)
                                            ELSE sent]]
           Is(f) == f = [i \in 0 .. n |->
                           IF i = 0 THEN <<>>
                           ELSE IF texts[i].cause = m
                                THEN Append(f[i - 1], texts[i].to)
                           ELSE f[i - 1]]
           g == RecipientsOf(m, texts)
<1>0. \A i \in 1 .. n : texts[i].to \in Addressees
  <2>1. \A i \in 1 .. n : texts[i] \in Transmissions
    OBVIOUS
  <2> QED
    BY <2>1 DEF Transmissions
<1>1. <<>> \in S /\ n \in Nat /\ move \in [1 .. n -> [S -> S]]
  BY <1>0
<1>2. PICK f \in [0 .. n -> S] : Follows(f, <<>>, move, n)
  <2> HIDE DEF move, S, n
  <2> QED
    BY <1>1, RecursionExists
<1>3. f[0] = <<>> /\ \A i \in 1 .. n : f[i] = move[i][f[i - 1]]
  BY <1>2 DEF Follows
<1>4. ASSUME NEW i \in 1 .. n
      PROVE  f[i] = IF texts[i].cause = m THEN Append(f[i - 1], texts[i].to)
                                          ELSE f[i - 1]
  <2>1. f[i - 1] \in S
    <3> HIDE DEF S, n
    <3> QED
      BY <1>1, <1>2
  <2> QED
    BY <1>3, <2>1
<1>5. \E h : Is(h)
  <2>1. ASSUME NEW i \in 0 .. n
        PROVE  f[i] = IF i = 0 THEN <<>>
                      ELSE IF texts[i].cause = m
                           THEN Append(f[i - 1], texts[i].to)
                      ELSE f[i - 1]
    <3>1. i # 0 => i \in 1 .. n
      OBVIOUS
    <3> QED
      BY <1>3, <1>4, <3>1
  <2>2. Is(f)
    <3> HIDE DEF S, n
    <3> QED
      BY <1>2, <2>1
  <2> QED
    BY <2>2
<1>6. Is(g)
  BY <1>5, Zenon DEF RecipientsOf
<1> HIDE DEF g
<1>7. /\ g[0] = <<>>
      /\ \A k \in Nat : k < n =>
           g[k + 1] = IF texts[k + 1].cause = m
                      THEN Append(g[k], texts[k + 1].to) ELSE g[k]
  <2>1. \A i \in 0 .. n :
          g[i] = IF i = 0 THEN <<>>
                 ELSE IF texts[i].cause = m THEN Append(g[i - 1], texts[i].to)
                 ELSE g[i - 1]
    BY <1>6, Zenon
  <2>2. 0 \in 0 .. n
    OBVIOUS
  <2> HIDE DEF S
  <2>3. g[0] = <<>>
    BY <2>1, <2>2
  <2>4. ASSUME NEW k \in Nat, k < n
        PROVE  g[k + 1] = IF texts[k + 1].cause = m
                          THEN Append(g[k], texts[k + 1].to) ELSE g[k]
    <3>1. k + 1 \in 0 .. n /\ k + 1 # 0 /\ k + 1 - 1 = k
      BY <2>4
    <3> QED
      BY <2>1, <3>1
  <2> QED
    BY <2>3, <2>4
<1>8. \A k \in 0 .. n : g[k] \in S
  <2> DEFINE T == {k \in Nat : k <= n => g[k] \in S}
  <2>1. 0 \in T
    <3> HIDE DEF S
    <3> QED
      BY <1>1, <1>7
  <2>2. ASSUME NEW k \in T
        PROVE  k + 1 \in T
    <3> SUFFICES ASSUME k + 1 <= n
                 PROVE  g[k + 1] \in S
      OBVIOUS
    <3>1. /\ k \in Nat /\ k < n /\ k + 1 \in 1 .. n /\ g[k] \in S
      OBVIOUS
    <3>2. texts[k + 1].to \in Addressees
      BY <1>0, <3>1
    <3>3. g[k + 1] = IF texts[k + 1].cause = m
                     THEN Append(g[k], texts[k + 1].to) ELSE g[k]
      BY <1>7, <3>1
    <3> QED
      BY <3>1, <3>2, <3>3
  <2>3. T = Nat
    <3> HIDE DEF T
    <3>1. T \subseteq Nat
      BY DEF T
    <3> QED
      BY <2>1, <2>2, <3>1, Induct
  <2> QED
    BY <2>3
<1> QED
  BY <1>7, <1>8 DEF g

(* Nobody was replied to exactly if nothing was transmitted for m. *)
LEMMA NoRecipients ==
  ASSUME NEW m, NEW texts \in Seq(Transmissions)
  PROVE  RecipientsOf(m, texts)[Len(texts)] = <<>> <=>
           \A i \in DOMAIN texts : texts[i].cause # m
<1> DEFINE g == RecipientsOf(m, texts)
           n == Len(texts)
           T == {k \in Nat : k <= n =>
                   (g[k] = <<>> <=> \A i \in 1 .. k : texts[i].cause # m)}
<1>1. \A k \in 0 .. n : g[k] \in Seq(Addressees)
  BY RecipientsFollow
<1>2. g[0] = <<>>
  BY RecipientsFollow
<1>3. \A k \in Nat : k < n =>
        g[k + 1] = IF texts[k + 1].cause = m
                   THEN Append(g[k], texts[k + 1].to) ELSE g[k]
  BY RecipientsFollow
<1> HIDE DEF g
<1>4. 0 \in T
  BY <1>2
<1>5. ASSUME NEW k \in T
      PROVE  k + 1 \in T
  <2> SUFFICES ASSUME k + 1 <= n
               PROVE  g[k + 1] = <<>> <=>
                        \A i \in 1 .. k + 1 : texts[i].cause # m
    OBVIOUS
  <2>1. /\ k \in Nat /\ k < n /\ k \in 0 .. n
        /\ g[k] = <<>> <=> \A i \in 1 .. k : texts[i].cause # m
    OBVIOUS
  <2>2. (\A i \in 1 .. k + 1 : texts[i].cause # m) <=>
          (\A i \in 1 .. k : texts[i].cause # m) /\ texts[k + 1].cause # m
    BY <2>1
  <2>3. CASE texts[k + 1].cause = m
    <3>1. g[k + 1] = Append(g[k], texts[k + 1].to) /\ g[k] \in Seq(Addressees)
      BY <1>1, <1>3, <2>1, <2>3
    <3>2. g[k + 1] # <<>>
      BY <3>1
    <3> QED
      BY <2>2, <2>3, <3>2
  <2>4. CASE texts[k + 1].cause # m
    <3>1. g[k + 1] = g[k]
      BY <1>3, <2>1, <2>4
    <3> QED
      BY <2>1, <2>2, <2>4, <3>1
  <2> QED
    BY <2>3, <2>4
<1>6. T = Nat
  <2> HIDE DEF T
  <2>1. T \subseteq Nat
    BY DEF T
  <2> QED
    BY <1>4, <1>5, <2>1, Induct
<1>7. n \in T /\ DOMAIN texts = 1 .. n
  BY <1>6
<1> QED
  BY <1>7 DEF g

(* One more transmission is one more recipient of those for its message. *)
LEMMA RecipientsOfAppend ==
  ASSUME NEW m, NEW texts \in Seq(Transmissions), NEW text \in Transmissions
  PROVE  RecipientsOf(m, Append(texts, text))[Len(Append(texts, text))] =
           IF text.cause = m
           THEN Append(RecipientsOf(m, texts)[Len(texts)], text.to)
           ELSE RecipientsOf(m, texts)[Len(texts)]
<1> DEFINE longer == Append(texts, text)
           n == Len(texts)
           f == RecipientsOf(m, texts)
           g == RecipientsOf(m, longer)
           T == {k \in Nat : k <= n => g[k] = f[k]}
<1>1. /\ longer \in Seq(Transmissions) /\ Len(longer) = n + 1 /\ n \in Nat
      /\ longer[n + 1] = text /\ \A i \in 1 .. n : longer[i] = texts[i]
  OBVIOUS
<1> HIDE DEF longer
<1>2. f[0] = <<>>
  BY RecipientsFollow
<1>3. \A k \in Nat : k < n =>
        f[k + 1] = IF texts[k + 1].cause = m
                   THEN Append(f[k], texts[k + 1].to) ELSE f[k]
  BY RecipientsFollow
<1>4. g[0] = <<>>
  BY <1>1, RecipientsFollow
<1>5. ASSUME NEW k \in Nat, k < n + 1
      PROVE  g[k + 1] = IF longer[k + 1].cause = m
                        THEN Append(g[k], longer[k + 1].to) ELSE g[k]
  <2>1. k < Len(longer) /\ longer \in Seq(Transmissions)
    BY <1>1, <1>5
  <2> QED
    BY <2>1, RecipientsFollow
<1> HIDE DEF f, g
<1>6. 0 \in T
  BY <1>2, <1>4
<1>7. ASSUME NEW k \in T
      PROVE  k + 1 \in T
  <2> SUFFICES ASSUME k + 1 <= n
               PROVE  g[k + 1] = f[k + 1]
    OBVIOUS
  <2>1. k \in Nat /\ k < n /\ k < n + 1 /\ k + 1 \in 1 .. n /\ g[k] = f[k]
    OBVIOUS
  <2>2. longer[k + 1] = texts[k + 1]
    BY <1>1, <2>1
  <2> QED
    BY <1>3, <1>5, <2>1, <2>2
<1>8. T = Nat
  <2> HIDE DEF T
  <2>1. T \subseteq Nat
    BY DEF T
  <2> QED
    BY <1>6, <1>7, <2>1, Induct
<1>9. g[n] = f[n]
  BY <1>1, <1>8
<1>10. g[n + 1] = IF text.cause = m THEN Append(g[n], text.to) ELSE g[n]
  <2>1. n \in Nat /\ n < n + 1
    BY <1>1
  <2> QED
    BY <1>1, <1>5, <2>1
<1>11. Len(longer) = n + 1
  BY <1>1
<1> QED
  BY <1>9, <1>10, <1>11 DEF longer, f, g

(* The state of Pipeline that a state of the bridge stands for. *)
FateOf(where, how) ==
  CASE where = "idle" -> "new"
    [] how \in {"dropped", "fail closed"} -> "dropped"
    [] how = "sent" -> "answered"
    [] how \in {"silent", "refused", "failed", "cancelled"} -> "given up"
    [] OTHER -> "pending"
Fates == [m \in Msgs |-> FateOf(stage[m], outcome[m])]
Askers ==
  [m \in Msgs |-> IF stage[m] = "idle" THEN Broadcast ELSE msg[m].from]

LEMMA StateOfPipeline ==
  /\ fate = Fates /\ fate' = Fates'
  /\ recipients = [m \in Msgs |-> RecipientsOf(m, air)[Len(air)]]
  /\ recipients' = [m \in Msgs |-> RecipientsOf(m, air')[Len(air')]]
  BY DEF fate, Fates, FateOf, recipients

(* A step that changes nothing of it, *)
LEMMA Stutters ==
  ASSUME Fates' = Fates, Askers' = Askers, air' = air
  PROVE  UNCHANGED Promise!vars
<1>1. fate' = fate /\ recipients' = recipients
  BY StateOfPipeline
<1> QED
  BY <1>1 DEF Promise!vars, Askers

LEMMA RepliesSoFar ==
  ASSUME TypeOK, NEW m \in Msgs
  PROVE  recipients[m] = <<>> <=> \A i \in DOMAIN air : air[i].cause # m
<1>1. air \in Seq(Transmissions)
  BY DEF TypeOK, Transmissions, Addressees
<1>2. recipients[m] = RecipientsOf(m, air)[Len(air)]
  BY StateOfPipeline
<1> QED
  BY <1>1, <1>2, NoRecipients

(* one that concerns no message, *)
LEMMA ElsewhereStutters ==
  ASSUME air' = air, msg' = msg,
         \A m \in Msgs : stage'[m] = stage[m] /\ outcome'[m] = outcome[m]
  PROVE  UNCHANGED Promise!vars
<1>1. Fates' = Fates /\ Askers' = Askers
  BY DEF Fates, Askers
<1> QED
  BY <1>1, Stutters

(* and one of the task of a message, which may conclude it. *)
LEMMA TaskSteps ==
  ASSUME TypeOK, air' = air, msg' = msg, NEW m \in Msgs,
         \A y \in Msgs \ {m} :
           stage'[y] = stage[y] /\ outcome'[y] = outcome[y],
         stage[m] # "idle", stage'[m] # "idle",
         NEW before, before = FateOf(stage[m], outcome[m]),
         NEW after, after = FateOf(stage'[m], outcome'[m]),
         \/ after = before
         \/ /\ before = "pending"
            /\ after \in {"dropped", "answered", "given up"}
            /\ after = "dropped" => \A i \in DOMAIN air : air[i].cause # m
            /\ after = "answered" => \E i \in DOMAIN air : air[i].cause = m
  PROVE  [Promise!Next]_(Promise!vars)
<1>1. Askers' = Askers
  BY DEF Askers
<1>2. Fates' = [Fates EXCEPT ![m] = after] /\ Fates[m] = before
  BY DEF Fates
<1>3. CASE after = before
  <2>1. Fates' = Fates
    BY <1>2, <1>3 DEF Fates
  <2> QED
    BY <1>1, <2>1, Stutters
<1>4. CASE after # before
  <2>1. fate[m] = "pending" /\ fate' = [fate EXCEPT ![m] = after]
    BY <1>2, <1>4, StateOfPipeline
  <2>2. recipients' = recipients
    BY StateOfPipeline
  <2>3. /\ after = "dropped" => recipients[m] = <<>>
        /\ after = "answered" => recipients[m] # <<>>
    BY <1>4, RepliesSoFar
  <2>4. Promise!Conclude(m, after)
    BY <1>1, <2>1, <2>2, <2>3 DEF Promise!Conclude, Askers
  <2>5. after \in Promise!Ends
    BY <1>4 DEF Promise!Ends
  <2> QED
    BY <2>4, <2>5 DEF Promise!Next
<1> QED
  BY <1>3, <1>4

LEMMA HearRefines ==
  ASSUME TypeOK, OutcomeComesLast, NEW packet \in Packets, Hear(packet)
  PROVE  [Promise!Next]_(Promise!vars)
<1>1. air' = air /\ outcome' = outcome
  BY DEF Hear
<1>2. CASE UNCHANGED <<msg, stage>>
  BY <1>1, <1>2, ElsewhereStutters
<1>3. ASSUME NEW m \in Msgs, stage[m] = "idle",
             msg' = [msg EXCEPT ![m] = packet],
             stage' = [stage EXCEPT ![m] = "scheduled"]
      PROVE  [Promise!Next]_(Promise!vars)
  <2>1. /\ msg'[m] = packet /\ stage'[m] = "scheduled"
        /\ \A y \in Msgs \ {m} : msg'[y] = msg[y] /\ stage'[y] = stage[y]
    BY <1>3 DEF TypeOK, Senders
  <2>2. outcome'[m] = "none" /\ outcome[m] = "none" /\ m \in Senders
    BY <1>1, <1>3 DEF OutcomeComesLast, Senders
  <2>3. FateOf(stage[m], outcome[m]) = "new"
          /\ FateOf(stage'[m], outcome'[m]) = "pending"
    BY <1>3, <2>1, <2>2 DEF FateOf
  <2>4. Fates[m] = "new" /\ Fates' = [Fates EXCEPT ![m] = "pending"]
    <3>1. \A y \in Msgs \ {m} : stage'[y] = stage[y] /\ outcome'[y] = outcome[y]
      BY <1>1, <2>1
    <3> QED
      BY <2>3, <3>1 DEF Fates
  <2>8. Askers' = [Askers EXCEPT ![m] = packet.from]
    <3>1. stage'[m] # "idle"
      BY <2>1
    <3> QED
      BY <2>1, <3>1 DEF Askers
  <2>5. recipients' = recipients
    BY <1>1, StateOfPipeline
  <2>6. Promise!Take(m, packet.from)
    BY <2>4, <2>8, <2>5, StateOfPipeline DEF Promise!Take, Askers
  <2>7. packet.from \in Nodes \union {Me}
    BY DEF Packets
  <2> QED
    BY <2>6, <2>7 DEF Promise!Next
<1> QED
  BY <1>2, <1>3 DEF Hear, Schedule

LEMMA TransmitRefines ==
  ASSUME Sending, NEW x \in Senders, Transmit(x)
  PROVE  [Promise!Next]_(Promise!vars)
<1>0. TypeOK /\ OutcomeComesLast /\ AirWasSent
  BY DEF Sending
<1>1. /\ stage[x] \in {"sending", "abandoned"} /\ outcome' = outcome
      /\ msg' = msg /\ air' = Append(air, Transmission(x))
      /\ stage' = [stage EXCEPT ![x] = IF @ = "sending" THEN "confirming"
                                                       ELSE "done"]
  BY DEF Transmit
<1>2. air \in Seq(Transmissions) /\ Transmission(x) \in Transmissions
  <2>1. CASE x \in Msgs
    <3>1. msg[x] \in Packets \union {NoPacket}
      BY <1>0, <2>1 DEF TypeOK
    <3>2. msg[x].from \in Addressees
      BY <3>1 DEF Packets, NoPacket, Addressees
    <3> QED
      BY <1>0, <2>1, <3>2 DEF TypeOK, Transmission, Transmissions, Addressees
  <2>2. CASE x \notin Msgs
    <3>1. target[x] \in Addressees
      BY <1>0, <2>2 DEF TypeOK, Senders, Addressees
    <3> QED
      BY <1>0, <2>2, <3>1 DEF TypeOK, Transmission, Transmissions, Addressees
  <2> QED
    BY <2>1, <2>2
<1>3. Transmission(x).cause = x
  BY DEF Transmission
<1>4. ASSUME NEW m \in Msgs
      PROVE  recipients'[m] = IF x = m
                              THEN Append(recipients[m], Transmission(x).to)
                              ELSE recipients[m]
  <2>1. /\ recipients[m] = RecipientsOf(m, air)[Len(air)]
        /\ recipients'[m] = RecipientsOf(m, air')[Len(air')]
    BY StateOfPipeline
  <2> QED
    BY <1>1, <1>2, <1>3, <2>1, RecipientsOfAppend
<1>5. Fates' = Fates /\ Askers' = Askers
  <2>1. ASSUME NEW m \in Msgs
        PROVE  /\ FateOf(stage'[m], outcome'[m]) = FateOf(stage[m], outcome[m])
               /\ stage'[m] = "idle" <=> stage[m] = "idle"
    <3>1. CASE x = m
      <4>1. stage'[m] \in {"confirming", "done"}
        BY <1>0, <1>1, <3>1 DEF TypeOK, Senders
      <4> QED
        BY <1>1, <3>1, <4>1 DEF FateOf
    <3>2. CASE x # m
      <4>1. stage'[m] = stage[m]
        BY <1>0, <1>1, <3>2 DEF TypeOK, Senders
      <4> QED
        BY <1>1, <4>1
    <3> QED
      BY <3>1, <3>2
  <2> QED
    BY <1>1, <2>1 DEF Fates, Askers
<1>6. CASE x \in Msgs
  <2>1. \A i \in DOMAIN air : air[i].cause # x
    BY <1>0, <1>1 DEF AirWasSent
  <2>2. recipients[x] = <<>>
    BY <1>0, <1>6, <2>1, RepliesSoFar
  <2>3. Transmission(x).to = Askers[x]
    BY <1>1, <1>6 DEF Transmission, Askers
  <2>4. recipients'[x] = <<Askers[x]>>
    <3>1. recipients'[x] = Append(recipients[x], Transmission(x).to)
      BY <1>4, <1>6
    <3>2. recipients'[x] = Append(<<>>, Askers[x])
      BY <2>2, <2>3, <3>1
    <3>3. \A v : Append(<<>>, v) = <<v>>
      OBVIOUS
    <3> QED
      BY <3>2, <3>3
  <2>5. recipients' = [recipients EXCEPT ![x] = <<Askers[x]>>]
    BY <1>4, <1>6, <2>4, StateOfPipeline
  <2>6. fate[x] \in {"pending", "given up"}
    <3>1. FateOf(stage[x], outcome[x]) \in {"pending", "given up"}
      BY <1>0, <1>1 DEF OutcomeComesLast, FateOf
    <3> QED
      BY <1>6, <3>1, StateOfPipeline DEF Fates
  <2>7. fate' = fate
    BY <1>5, StateOfPipeline
  <2>8. Promise!Reply(x)
    BY <1>5, <2>2, <2>5, <2>6, <2>7 DEF Promise!Reply, Askers
  <2> QED
    BY <1>6, <2>8 DEF Promise!Next
<1>7. CASE x \notin Msgs
  <2>1. recipients' = recipients
    BY <1>4, <1>7, StateOfPipeline
  <2>2. fate' = fate
    BY <1>5, StateOfPipeline
  <2> QED
    BY <1>5, <2>1, <2>2 DEF Promise!vars, Askers
<1> QED
  BY <1>6, <1>7

(* The tasks: what a step of one leaves of its stage and its outcome. *)
LEMMA ForwardRefines ==
  ASSUME Sending, NEW m \in Msgs, Forward(m)
  PROVE  [Promise!Next]_(Promise!vars)
<1>0. TypeOK /\ OutcomeComesLast /\ AirWasSent /\ m \in Senders
  BY DEF Sending, Senders
<1>1. air' = air /\ msg' = msg
  BY DEF Forward, Drop, AskAgent, AgentReplies, AgentIsSilent
<1>2. stage[m] \in {"scheduled", "asking"}
  BY DEF Forward, Drop, AskAgent, AgentReplies, AgentIsSilent
<1>3. \/ Finish(m, "dropped") \/ Finish(m, "fail closed")
      \/ Finish(m, "silent") \/ Finish(m, "refused")
      \/ stage' = [stage EXCEPT ![m] = "asking"] /\ outcome' = outcome
      \/ stage' = [stage EXCEPT ![m] = "sending"] /\ outcome' = outcome
  BY DEF Forward, Drop, AskAgent, AgentReplies, AgentIsSilent, StartSend
<1>4. /\ \A y \in Senders \ {m} :
           stage'[y] = stage[y] /\ outcome'[y] = outcome[y]
      /\ \/ /\ stage'[m] = "done"
            /\ outcome'[m] \in {"dropped", "fail closed", "silent", "refused"}
         \/ stage'[m] \in {"asking", "sending"} /\ outcome'[m] = outcome[m]
  BY <1>0, <1>3 DEF TypeOK, Finish
<1>5. outcome[m] = "none"
  BY <1>0, <1>2 DEF OutcomeComesLast
<1>6. FateOf(stage[m], outcome[m]) = "pending"
  BY <1>2, <1>5 DEF FateOf
<1>7. FateOf(stage'[m], outcome'[m]) \in {"pending", "dropped", "given up"}
  BY <1>4, <1>5 DEF FateOf
<1>8. \A i \in DOMAIN air : air[i].cause # m
  BY <1>0, <1>2 DEF AirWasSent
<1>9. stage[m] # "idle" /\ stage'[m] # "idle"
  BY <1>2, <1>4
<1>10. \A y \in Msgs \ {m} : stage'[y] = stage[y] /\ outcome'[y] = outcome[y]
  BY <1>4 DEF Senders
<1> QED
  BY <1>0, <1>1, <1>6, <1>7, <1>8, <1>9, <1>10, TaskSteps

LEMMA SendEndRefines ==
  ASSUME Sending, NEW m \in Msgs, SendFails(m) \/ SendReturns(m) \/ Cancel(m)
  PROVE  [Promise!Next]_(Promise!vars)
<1>0. TypeOK /\ OutcomeComesLast /\ SentIsOnAir /\ m \in Senders
  BY DEF Sending, Senders
<1>1. air' = air /\ msg' = msg
  BY DEF SendFails, SendReturns, Cancel
<1>2. /\ \A y \in Senders \ {m} :
           stage'[y] = stage[y] /\ outcome'[y] = outcome[y]
      /\ \/ /\ stage[m] \notin {"idle", "abandoned", "done"}
            /\ stage'[m] \in {"abandoned", "done"}
            /\ outcome'[m] \in {"failed", "cancelled"}
         \/ /\ stage[m] = "confirming" /\ stage'[m] = "done"
            /\ outcome'[m] = "sent"
         \/ /\ stage[m] = "abandoned" /\ stage'[m] = "done"
            /\ outcome'[m] = outcome[m]
  BY <1>0 DEF TypeOK, SendFails, SendReturns, Cancel, Finish, Live
<1>3. \A y \in Msgs \ {m} : stage'[y] = stage[y] /\ outcome'[y] = outcome[y]
  BY <1>2 DEF Senders
<1>4. stage[m] # "idle" /\ stage'[m] # "idle"
  BY <1>2
<1>5. CASE stage[m] = "abandoned"
  <2>1. outcome[m] = "cancelled" /\ outcome'[m] = "cancelled"
    BY <1>0, <1>2, <1>5 DEF OutcomeComesLast
  <2>2. FateOf(stage[m], outcome[m]) = FateOf(stage'[m], outcome'[m])
    BY <1>4, <2>1 DEF FateOf
  <2> QED
    BY <1>0, <1>1, <1>3, <1>4, <2>2, TaskSteps
<1>6. CASE stage[m] # "abandoned"
  <2>1. outcome[m] = "none"
    BY <1>0, <1>2, <1>6 DEF OutcomeComesLast
  <2>2. FateOf(stage[m], outcome[m]) = "pending"
    BY <1>4, <2>1 DEF FateOf
  <2>3. CASE outcome'[m] = "sent"
    <3>1. \E i \in DOMAIN air : air[i].cause = m
      BY <1>0, <1>2, <1>6, <2>3 DEF SentIsOnAir
    <3>2. FateOf(stage'[m], outcome'[m]) = "answered"
      BY <1>4, <2>3 DEF FateOf
    <3> QED
      BY <1>0, <1>1, <1>3, <1>4, <2>2, <3>1, <3>2, TaskSteps
  <2>4. CASE outcome'[m] # "sent"
    <3>1. FateOf(stage'[m], outcome'[m]) = "given up"
      BY <1>2, <1>4, <1>6, <2>4 DEF FateOf
    <3>2. /\ "given up" \in {"dropped", "answered", "given up"}
          /\ "given up" # "dropped" /\ "given up" # "answered"
      OBVIOUS
    <3> HIDE DEF FateOf
    <3> QED
      BY <1>0, <1>1, <1>3, <1>4, <2>2, <3>1, <3>2, TaskSteps
  <2> QED
    BY <2>3, <2>4
<1> QED
  BY <1>5, <1>6

LEMMA InitRefines == Init => Promise!Init
<1> SUFFICES ASSUME Init PROVE Promise!Init
  OBVIOUS
<1>1. \A m \in Msgs : stage[m] = "idle" /\ outcome[m] = "none"
  BY DEF Init, Senders
<1>2. fate = [m \in Msgs |-> "new"]
  <2>1. Fates = [m \in Msgs |-> "new"]
    <3>1. \A m \in Msgs : FateOf(stage[m], outcome[m]) = "new"
      BY <1>1 DEF FateOf
    <3> QED
      BY <3>1 DEF Fates
  <2> QED
    BY <2>1, StateOfPipeline
<1>3. Askers = [m \in Msgs |-> Broadcast]
  BY <1>1 DEF Askers
<1>4. recipients = [m \in Msgs |-> <<>>]
  <2>1. TypeOK /\ air = <<>>
    BY InitTypes DEF Init
  <2>2. \A m \in Msgs : recipients[m] = <<>>
    BY <2>1, RepliesSoFar
  <2> QED
    BY <2>2, StateOfPipeline
<1> QED
  BY <1>2, <1>3, <1>4 DEF Promise!Init, Askers

LEMMA NextRefines == Sending /\ [Next]_vars => [Promise!Next]_(Promise!vars)
<1> SUFFICES ASSUME Sending, [Next]_vars PROVE [Promise!Next]_(Promise!vars)
  OBVIOUS
<1>0. TypeOK /\ OutcomeComesLast /\ Msgs \intersect Posts = {}
        /\ Senders = Msgs \union Posts
  BY SendersAssumption DEF Sending, Senders
<1>1. CASE UNCHANGED <<msg, stage, outcome, air>>
  BY <1>1, ElsewhereStutters
<1>2. CASE Lifecycle \/ Signal \/ Unplug \/ UNCHANGED vars
  BY <1>1, <1>2 DEF Lifecycle, OpenTransport, OpenFails, ConnectReturns, Bind,
     BeginStop, HttpStopped, CloseTransport, Disconnected, AgentStopped, Signal,
     Unplug, tasks, vars
<1>3. ASSUME NEW packet \in Packets, Hear(packet)
      PROVE  [Promise!Next]_(Promise!vars)
  BY <1>0, <1>3, HearRefines
<1>4. CASE Reader
  BY <1>0, <1>3, <1>4, EchoIsPacket DEF Reader, HearAnother, HearOwn, HearEcho
<1>5. ASSUME NEW p \in Posts, UNCHANGED <<msg, air>>,
             \A y \in Senders \ {p} :
               stage'[y] = stage[y] /\ outcome'[y] = outcome[y]
      PROVE  [Promise!Next]_(Promise!vars)
  <2>1. \A m \in Msgs : stage'[m] = stage[m] /\ outcome'[m] = outcome[m]
    BY <1>0, <1>5
  <2> QED
    BY <1>5, <2>1, ElsewhereStutters
<1>6. ASSUME NEW p \in Posts,
             \/ Handle(p)
             \/ \E dest \in Nodes \union {Me, Broadcast} : Receive(p, dest)
             \/ SendFails(p) \/ SendReturns(p) \/ Cancel(p)
      PROVE  [Promise!Next]_(Promise!vars)
  <2>1. UNCHANGED <<msg, air>>
    BY <1>6 DEF Handle, Receive, SendFails, SendReturns, Cancel
  <2>2. \A y \in Senders \ {p} :
          stage'[y] = stage[y] /\ outcome'[y] = outcome[y]
    BY <1>0, <1>6 DEF TypeOK, Handle, Receive, SendFails, SendReturns, Cancel,
       StartSend, Finish
  <2> QED
    BY <1>5, <2>1, <2>2
<1>7. ASSUME NEW m \in Msgs,
             \/ Forward(m) \/ SendFails(m) \/ SendReturns(m) \/ Cancel(m)
      PROVE  [Promise!Next]_(Promise!vars)
  BY <1>7, ForwardRefines, SendEndRefines
<1>8. ASSUME NEW x \in Senders, Transmit(x)
      PROVE  [Promise!Next]_(Promise!vars)
  BY <1>8, TransmitRefines
<1> QED
  BY <1>0, <1>2, <1>4, <1>6, <1>7, <1>8 DEF Next, SendText

(* Whatever the reader, the tasks, the handlers, the life cycle and a      *)
(* cancellation do in whatever order, a message comes to at most one end,  *)
(* gets at most one reply, to the node that asked, none if it was dropped  *)
(* and one if it was answered (main.py:127-217, radio.py:99-153).          *)
THEOREM BridgeKeepsThePromise ==
  Spec => Promise!Init /\ [][Promise!Next]_(Promise!vars)
<1>1. Init => Promise!Init
  BY InitRefines
<1>2. Sending /\ [Next]_vars => [Promise!Next]_(Promise!vars)
  BY NextRefines
<1> QED
  BY <1>1, <1>2, SendingHolds, PTL DEF Spec
==============================================================================
