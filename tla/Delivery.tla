------------------------------ MODULE Delivery ------------------------------
(***************************************************************************)
(* Sending a text and confirming its delivery: MeshtasticRadio.send_text,  *)
(* _confirm_delivery, the routing part of _handle_receive and disconnect   *)
(* (bridge/radio.py).                                                      *)
(*                                                                         *)
(* Three kinds of threads meet on the dictionary _pending_acks without a   *)
(* lock: the event loop, which runs one coroutine per send_text call; the  *)
(* executor threads, which run the blocking sendText; and the single       *)
(* thread in which the meshtastic library publishes received packets.      *)
(* Every access to the dictionary is a step of its own.                    *)
(*                                                                         *)
(* The library gives every packet an id of its own, so the id of the       *)
(* packet of send s is s itself.                                           *)
(***************************************************************************)
EXTENDS Integers

CONSTANTS
  Sends,         \* the calls of send_text made during one run
  AckTimeout,    \* ack_timeout, in ticks
  PollInterval,  \* ACK_POLL_INTERVAL, in ticks
  Latency        \* how many ticks late the loop may resume a sleeper

ASSUME TimingAssumption ==
  /\ AckTimeout \in Nat
  /\ PollInterval \in Nat \ {0}
  /\ Latency \in Nat

VARIABLES
  stage,        \* where the coroutine of each send stands
  job,          \* its sendText call in the executor
  confirm,      \* request_ack: the send wants its delivery confirmed
  pendingAcks,  \* _pending_acks; "absent" where the dictionary has no key
  left,         \* ticks from now to the deadline of a waiting send
  nap,          \* ticks until its sleep is due; negative when overdue
  reader,       \* the answer the reader holds between its test and its write
  report,       \* how the send ended: its return value and what it logged
  link,         \* progress of disconnect(); _connected is link # "down"
  heard,        \* history: reasons the reader had handled before the report
  margin        \* history: ticks that were left when a reason was recorded

vars == <<stage, job, confirm, pendingAcks, left, nap, reader, report, link,
          heard, margin>>
timing == <<left, nap>>
history == <<heard, margin>>

(* errorReason is "NONE" for an acknowledgement, which is also the default *)
(* when the field is missing; every other reason is a NAK.                 *)
Reason == {"NONE", "error"}
Matched == [id : Sends, reason : Reason]

Init ==
  /\ stage = [s \in Sends |-> "idle"]
  /\ job = [s \in Sends |-> "none"]
  /\ confirm = [s \in Sends |-> FALSE]
  /\ pendingAcks = [s \in Sends |-> "absent"]
  /\ left = [s \in Sends |-> 0]
  /\ nap = [s \in Sends |-> 0]
  /\ reader = {}
  /\ report = [s \in Sends |-> "none"]
  /\ link = "up"
  /\ heard = [s \in Sends |-> {}]
  /\ margin = [s \in Sends |-> 0]

----------------------------------------------------------------------------
(* send_text on the event loop                                             *)

Finish(s, how) ==
  /\ stage' = [stage EXCEPT ![s] = "done"]
  /\ report' = [report EXCEPT ![s] = how]

(* The guard at the top of send_text: not connected, return False. *)
Refuse(s) ==
  /\ stage[s] = "idle"
  /\ link = "down"
  /\ Finish(s, "refused")
  /\ UNCHANGED <<job, confirm, pendingAcks, timing, reader, link, history>>

(* Otherwise sendText is queued for the executor. *)
Submit(s, wantAck, broadcast) ==
  /\ stage[s] = "idle"
  /\ link # "down"
  /\ stage' = [stage EXCEPT ![s] = "submitted"]
  /\ job' = [job EXCEPT ![s] = "queued"]
  /\ confirm' = [confirm EXCEPT ![s] = wantAck /\ ~broadcast]
  /\ UNCHANGED <<pendingAcks, timing, reader, report, link, history>>

(* The executor thread runs sendText, which hands the packet to the node   *)
(* and returns it, with or without a usable id, or raises.                 *)
Transmit(s) ==
  /\ job[s] = "queued"
  /\ link \in {"up", "closing", "broken"}
  /\ \E packet \in {"sent", "sent without id"} :
       job' = [job EXCEPT ![s] = packet]
  /\ UNCHANGED <<stage, confirm, pendingAcks, timing, reader, report, link,
                 history>>

SendRaises(s) ==
  /\ job[s] = "queued"
  /\ job' = [job EXCEPT ![s] = "raised"]
  /\ UNCHANGED <<stage, confirm, pendingAcks, timing, reader, report, link,
                 history>>

(* The loop resumes send_text: the except clause returns False; a send     *)
(* that needs no confirmation, or whose packet has no id, returns True.    *)
ReturnAtOnce(s) ==
  /\ stage[s] = "submitted"
  /\ \/ /\ job[s] = "raised"
        /\ Finish(s, "refused")
     \/ /\ job[s] \in {"sent", "sent without id"}
        /\ ~(confirm[s] /\ job[s] = "sent")
        /\ Finish(s, "accepted")
  /\ UNCHANGED <<job, confirm, pendingAcks, timing, reader, link, history>>

(* Entry of _confirm_delivery. The first pass through its loop is due now. *)
Register(s) ==
  /\ stage[s] = "submitted"
  /\ confirm[s] /\ job[s] = "sent"
  /\ stage' = [stage EXCEPT ![s] = "waiting"]
  /\ pendingAcks' = [pendingAcks EXCEPT ![s] = "pending"]
  /\ left' = [left EXCEPT ![s] = AckTimeout]
  /\ nap' = [nap EXCEPT ![s] = 0]
  /\ UNCHANGED <<job, confirm, reader, report, link, history>>

(* One pass of the loop of _confirm_delivery: the deadline is tested       *)
(* first, then the dictionary is read.                                     *)
Awake(s) == stage[s] = "waiting" /\ nap[s] <= 0

GiveUp(s) ==
  /\ Awake(s)
  /\ left[s] <= 0
  /\ stage' = [stage EXCEPT ![s] = "closing"]
  /\ report' = [report EXCEPT ![s] = "unconfirmed"]
  /\ UNCHANGED <<job, confirm, pendingAcks, timing, reader, link, history>>

(* Mutant: any answer counts as a confirmation. *)
MutConcludeAny(s) ==
  /\ Awake(s) /\ left[s] > 0 /\ pendingAcks[s] \in Reason
  /\ stage' = [stage EXCEPT ![s] = "closing"]
  /\ report' = [report EXCEPT ![s] = "confirmed"]
  /\ UNCHANGED <<job, confirm, pendingAcks, timing, reader, link, history>>

(* Mutant: no return after the log line, so the loop goes on. *)
MutConcludeGoesOn(s) ==
  /\ Awake(s) /\ left[s] > 0 /\ pendingAcks[s] \in Reason
  /\ report' = [report EXCEPT ![s] = IF pendingAcks[s] = "NONE"
                                     THEN "confirmed" ELSE "nak"]
  /\ nap' = [nap EXCEPT ![s] = PollInterval]
  /\ UNCHANGED <<stage, job, confirm, pendingAcks, left, reader, link, history>>

Conclude(s) ==
  /\ Awake(s)
  /\ left[s] > 0
  /\ pendingAcks[s] \in Reason
  /\ stage' = [stage EXCEPT ![s] = "closing"]
  /\ report' = [report EXCEPT ![s] = IF pendingAcks[s] = "NONE"
                                     THEN "confirmed" ELSE "nak"]
  /\ UNCHANGED <<job, confirm, pendingAcks, timing, reader, link, history>>

(* Mutants of Sleep: it sleeps for two intervals, for the whole timeout,   *)
(* or starts the timeout again.                                            *)
MutSleepFor(s, ticks, deadline) ==
  /\ Awake(s) /\ left[s] > 0 /\ pendingAcks[s] \notin Reason
  /\ nap' = [nap EXCEPT ![s] = ticks]
  /\ left' = [left EXCEPT ![s] = deadline]
  /\ UNCHANGED <<stage, job, confirm, pendingAcks, reader, report, link,
                 history>>
MutSleepTwice(s) == MutSleepFor(s, 2 * PollInterval, left[s])
MutSleepThrough(s) == MutSleepFor(s, AckTimeout, left[s])
MutSleepAgain(s) == MutSleepFor(s, PollInterval, AckTimeout)

Sleep(s) ==
  /\ Awake(s)
  /\ left[s] > 0
  /\ pendingAcks[s] \notin Reason
  /\ nap' = [nap EXCEPT ![s] = PollInterval]
  /\ UNCHANGED <<stage, job, confirm, pendingAcks, left, reader, report, link,
                 history>>

(* Mutant: the timeout path has no finally clause. *)
MutPopForgotten(s) ==
  /\ stage[s] = "closing"
  /\ stage' = [stage EXCEPT ![s] = "done"]
  /\ UNCHANGED <<job, confirm, pendingAcks, timing, reader, report, link,
                 history>>

(* The finally clause; send_text then returns. *)
Pop(s) ==
  /\ stage[s] = "closing"
  /\ stage' = [stage EXCEPT ![s] = "done"]
  /\ pendingAcks' = [pendingAcks EXCEPT ![s] = "absent"]
  /\ left' = [left EXCEPT ![s] = 0]
  /\ nap' = [nap EXCEPT ![s] = 0]
  /\ UNCHANGED <<job, confirm, reader, report, link, history>>

(* The task that runs send_text is cancelled, as asyncio.run does to every *)
(* task left at shutdown. CancelledError passes the except clause; a job   *)
(* still in the executor's queue may be dropped with it, or run anyway.    *)
CancelSubmitted(s) ==
  /\ stage[s] = "submitted"
  /\ Finish(s, "cancelled")
  /\ job' \in {job, [job EXCEPT ![s] = IF @ = "queued" THEN "dropped" ELSE @]}
  /\ UNCHANGED <<confirm, pendingAcks, timing, reader, link, history>>

CancelWaiting(s) ==
  /\ stage[s] = "waiting"
  /\ stage' = [stage EXCEPT ![s] = "closing"]
  /\ report' = [report EXCEPT ![s] = "cancelled"]
  /\ UNCHANGED <<job, confirm, pendingAcks, timing, reader, link, history>>

----------------------------------------------------------------------------
(* _handle_receive in the reader thread                                    *)

(* The reader is done with an answer to send s. *)
Handled(s, reason) ==
  heard' = [heard EXCEPT ![s] = IF report[s] = "none"
                                THEN @ \union {reason} ELSE @]

(* A packet whose requestId names send s arrives. The reader tests that    *)
(* the id is in the dictionary; if it is not, the packet means nothing     *)
(* here. Packets are delayed, repeated and reordered freely.               *)
TestId(s, reason) ==
  /\ reader = {}
  /\ job[s] = "sent"
  /\ IF pendingAcks[s] # "absent"
     THEN reader' = {[id |-> s, reason |-> reason]} /\ UNCHANGED heard
     ELSE Handled(s, reason) /\ UNCHANGED reader
  /\ UNCHANGED <<stage, job, confirm, pendingAcks, timing, report, link,
                 margin>>

(* The write that follows the test, whatever has happened in between. *)
Record(s, reason) ==
  /\ [id |-> s, reason |-> reason] \in reader
  /\ pendingAcks' = [pendingAcks EXCEPT ![s] = reason]
  /\ margin' = [margin EXCEPT ![s] =
       IF stage[s] = "waiting" /\ pendingAcks[s] = "pending"
       THEN left[s] ELSE @]
  /\ reader' = {}
  /\ Handled(s, reason)
  /\ UNCHANGED <<stage, job, confirm, timing, report, link>>

----------------------------------------------------------------------------
(* disconnect(): the executor closes the transport, and only when the loop *)
(* resumes does _connected become False. _interface is never cleared.      *)

BeginDisconnect ==
  /\ link = "up"
  /\ link' = "closing"
  /\ UNCHANGED <<stage, job, confirm, pendingAcks, timing, reader, report,
                 history>>

(* transport.close returns, or raises and leaves the rest of disconnect()  *)
(* undone: the interface half closed, and _connected still True.           *)
CloseTransport ==
  /\ link = "closing"
  /\ link' \in {"closed", "broken"}
  /\ UNCHANGED <<stage, job, confirm, pendingAcks, timing, reader, report,
                 history>>

EndDisconnect ==
  /\ link = "closed"
  /\ link' = "down"
  /\ UNCHANGED <<stage, job, confirm, pendingAcks, timing, reader, report,
                 history>>

(* time.monotonic() advances. The loop resumes a sleeper at most Latency   *)
(* ticks after its sleep is over.                                          *)
Tick ==
  /\ \A s \in Sends : stage[s] = "waiting" => nap[s] > -Latency
  /\ left' = [s \in Sends |-> IF stage[s] = "waiting" THEN left[s] - 1
                              ELSE left[s]]
  /\ nap' = [s \in Sends |-> IF stage[s] = "waiting" THEN nap[s] - 1
                             ELSE nap[s]]
  /\ UNCHANGED <<stage, job, confirm, pendingAcks, reader, report, link,
                 history>>

Poll(s) == GiveUp(s) \/ Conclude(s) \/ Sleep(s)
Cancel(s) == CancelSubmitted(s) \/ CancelWaiting(s)

Next ==
  \/ \E s \in Sends :
       \/ Refuse(s)
       \/ \E wantAck, broadcast \in BOOLEAN : Submit(s, wantAck, broadcast)
       \/ Transmit(s) \/ SendRaises(s)
       \/ ReturnAtOnce(s) \/ Register(s) \/ Poll(s) \/ Pop(s) \/ Cancel(s)
       \/ \E reason \in Reason : TestId(s, reason) \/ Record(s, reason)
  \/ BeginDisconnect \/ CloseTransport \/ EndDisconnect
  \/ Tick

(* The executor runs what is queued, the loop resumes what is ready, time  *)
(* passes. Nothing is assumed of the mesh, of shutdown or of cancellation. *)
Fairness ==
  /\ \A s \in Sends :
       /\ WF_vars(Transmit(s) \/ SendRaises(s))
       /\ WF_vars(ReturnAtOnce(s) \/ Register(s))
       /\ WF_vars(Poll(s))
       /\ WF_vars(Pop(s))
  /\ WF_vars(Tick)

Spec == Init /\ [][Next]_vars /\ Fairness

----------------------------------------------------------------------------
(* Types                                                                   *)

Stages == {"idle", "submitted", "waiting", "closing", "done"}
Jobs == {"none", "queued", "sent", "sent without id", "raised", "dropped"}
Reports == {"none", "refused", "accepted", "confirmed", "nak", "unconfirmed",
            "cancelled"}

(* Every variable has its type; a nap is never longer than the poll        *)
(* interval and never overdue by more than the latency (radio.py:179).     *)
TypeOK ==
  /\ stage \in [Sends -> Stages]
  /\ job \in [Sends -> Jobs]
  /\ confirm \in [Sends -> BOOLEAN]
  /\ pendingAcks \in [Sends -> {"absent", "pending"} \union Reason]
  /\ left \in [Sends -> Int]
  /\ nap \in [Sends -> -Latency .. PollInterval]
  /\ reader \subseteq Matched
  /\ report \in [Sends -> Reports]
  /\ link \in {"up", "closing", "closed", "broken", "down"}
  /\ heard \in [Sends -> SUBSET Reason]
  /\ margin \in [Sends -> Int]

----------------------------------------------------------------------------
(* Safety                                                                  *)

(* "Delivery confirmed" is logged only for a send whose acknowledgement    *)
(* the reader has handled, and a NAK only for one that drew an error: no    *)
(* answer to another packet, and no entry left behind by one, is ever      *)
(* taken for it (radio.py:169-178, 194-197).                               *)
ReportsAreEarned ==
  \A s \in Sends :
    /\ report[s] = "confirmed" => "NONE" \in heard[s]
    /\ report[s] = "nak" => "error" \in heard[s]

(* An answer recorded while more than one poll interval plus the latency   *)
(* was left is never missed: that send is not reported "No routing ACK"    *)
(* (the deadline test before the read, radio.py:168-169).                  *)
TimelyAnswerIsReported ==
  \A s \in Sends :
    report[s] = "unconfirmed" => margin[s] <= PollInterval + Latency

(* send_text never waits for a confirmation more than one poll interval    *)
(* plus the latency past its deadline (radio.py:166-179).                  *)
ConcludesInTime ==
  \A s \in Sends :
    stage[s] = "waiting" => left[s] > -(PollInterval + Latency)

(* A waiting send keeps its key whatever the reader and the other sends    *)
(* do, and an unanswered key has a coroutine that will remove it: only an  *)
(* answer can be left in the dictionary by a send that has returned        *)
(* (radio.py:165, 185-186, 195-197).                                       *)
EntriesHaveWaiters ==
  \A s \in Sends :
    /\ stage[s] \in {"waiting", "closing"} => pendingAcks[s] # "absent"
    /\ pendingAcks[s] = "pending" => stage[s] \in {"waiting", "closing"}

(* What the troubleshooting guide says of the warning "No routing ACK":    *)
(* the handset never acknowledged. Not what the code does: the answer may  *)
(* come before the id is registered, or during the last nap.               *)
UnconfirmedMeansNotAcknowledged ==
  \A s \in Sends : report[s] = "unconfirmed" => "NONE" \notin heard[s]

(* What the tests assert of a send that has returned: its id is no longer  *)
(* in _pending_acks. Not what the code does: the reader may write the key  *)
(* back after the finally clause has removed it.                           *)
ReturnedSendLeavesNoEntry ==
  \A s \in Sends : stage[s] = "done" => pendingAcks[s] = "absent"

----------------------------------------------------------------------------
(* The contract of send_text is kept (radio.py:99-186): a send without a   *)
(* report is open, and the evidence for a verdict is what the reader has   *)
(* handled.                                                                *)
Contract == INSTANCE DeliveryContract WITH
  verdict <- [s \in Sends |->
                IF report[s] # "none" THEN report[s]
                ELSE IF stage[s] = "idle" THEN "idle" ELSE "open"],
  evidence <- heard

ContractSpec == Contract!Spec

----------------------------------------------------------------------------
(* Liveness                                                                *)

(* Every call of send_text that was accepted returns, with the mesh silent *)
(* or not, connected or disconnected meanwhile (radio.py:132-186).         *)
EverySendReturns ==
  \A s \in Sends : stage[s] = "submitted" ~> stage[s] = "done"
=============================================================================
