----------------------------- MODULE AgentClient ----------------------------
(***************************************************************************)
(* Asking the agent: AgentClient.ask, _request, _post and the session that *)
(* start and stop open and close (bridge/http_client.py).                  *)
(*                                                                         *)
(* Every inbound message has a coroutine of its own in ask(), all on one   *)
(* event loop: a step of this module is what runs between two awaits. The  *)
(* coroutines share the HTTP session and the backoff _retry_delay. A reply *)
(* is represented by its length in bytes; the agent is external and may    *)
(* answer, fail, or never answer, in which case the total timeout of the   *)
(* session ends the request.                                               *)
(***************************************************************************)
EXTENDS Integers

CONSTANTS
  Asks,        \* the calls of ask() made during one run
  Budget,      \* max_reply_bytes
  Sizes,       \* the lengths the agent's replies may have
  MaxRetries,  \* agent.max_retries
  Timeout,     \* agent.timeout, in ticks
  BaseDelay,   \* the initial _retry_delay, in ticks
  MaxDelay     \* _max_retry_delay, in ticks

ASSUME BudgetAssumption == Budget \in Nat \ {0} /\ Sizes \subseteq Nat \ {0}
ASSUME RetryAssumption ==
  /\ MaxRetries \in Nat
  /\ Timeout \in Nat \ {0}
  /\ BaseDelay \in Nat \ {0} /\ MaxDelay \in Nat /\ BaseDelay <= MaxDelay

VARIABLES
  shorten,     \* agent.shorten_retry, fixed at the start
  session,     \* _session: "open", being closed by stop(), or None ("none")
  retryDelay,  \* _retry_delay, shared by every ask
  phase,       \* what the coroutine of each ask awaits
  request,     \* which of its two requests it is making
  attempt,     \* attempt, the retries of that request so far
  timer,       \* ticks to the end of the post's timeout, or of the sleep
  first,       \* length of the reply to the first request, 0 if there is none
  answer,      \* what ask() returned: whose text, and its length
  elapsed      \* history: ticks since ask() was called

vars == <<shorten, session, retryDelay, phase, request, attempt, timer, first,
          answer, elapsed>>

Silence == [of |-> "nobody", size |-> 0]   \* None: say nothing on the mesh
Undecided == [of |-> "undecided", size |-> 0]

Init ==
  /\ shorten \in BOOLEAN
  /\ session = "open"
  /\ retryDelay = BaseDelay
  /\ phase = [a \in Asks |-> "idle"]
  /\ request = [a \in Asks |-> "first"]
  /\ attempt = [a \in Asks |-> 0]
  /\ timer = [a \in Asks |-> 0]
  /\ first = [a \in Asks |-> 0]
  /\ answer = [a \in Asks |-> Undecided]
  /\ elapsed = [a \in Asks |-> 0]

----------------------------------------------------------------------------
(* Helpers: how a request begins and how ask() ends                        *)

(* truncate_bytes: what fits is kept, the rest becomes some prefix that    *)
(* fits, marker included.                                                  *)
Truncated(size) == IF size <= Budget THEN {size} ELSE 0 .. Budget

(* ask() returns text of one of the two replies, or None. *)
Return(a, ans) ==
  /\ answer' = [answer EXCEPT ![a] = ans]
  /\ phase' = [phase EXCEPT ![a] = "done"]
  /\ timer' = [timer EXCEPT ![a] = 0]
  /\ UNCHANGED <<request, attempt>>

(* Mutant: a reply that is over budget is returned as it is. *)
MutReturnWhole(a, of, size) == Return(a, [of |-> of, size |-> size])

ReturnTruncated(a, of, size) ==
  \E n \in Truncated(size) : Return(a, [of |-> of, size |-> n])

(* Mutant: shortened alone, instead of "shortened or reply". *)
MutRequestFails(a) == Return(a, Silence)

(* The first request has failed: ask() returns None. The rewrite has       *)
(* failed: the first reply is truncated, not lost.                         *)
RequestFails(a) ==
  IF request[a] = "first" THEN Return(a, Silence)
                          ELSE ReturnTruncated(a, "first", first[a])

----------------------------------------------------------------------------
(* ask, _request and _post                                                 *)

AskWithoutSession(a) ==
  /\ phase[a] = "idle"
  /\ session = "none"
  /\ Return(a, Silence)
  /\ UNCHANGED <<shorten, session, retryDelay, first, elapsed>>

Ask(a) ==
  /\ phase[a] = "idle"
  /\ session # "none"
  /\ phase' = [phase EXCEPT ![a] = "ready"]
  /\ UNCHANGED <<shorten, session, retryDelay, request, attempt, timer, first,
                 answer, elapsed>>

(* _post begins: the session is read now, not when ask() was called. *)
Post(a) ==
  /\ phase[a] = "ready"
  /\ session = "open"
  /\ phase' = [phase EXCEPT ![a] = "posting"]
  /\ timer' = [timer EXCEPT ![a] = Timeout]
  /\ UNCHANGED <<shorten, session, retryDelay, request, attempt, first, answer,
                 elapsed>>

(* Mutant: the request waits until there is a session. *)
MutPostRefused(a) ==
  /\ phase[a] = "ready" /\ session = "closing"
  /\ RequestFails(a)
  /\ UNCHANGED <<shorten, session, retryDelay, first, elapsed>>

(* The session is None, or closed and raises: (None, False). *)
PostRefused(a) ==
  /\ phase[a] = "ready"
  /\ session # "open"
  /\ RequestFails(a)
  /\ UNCHANGED <<shorten, session, retryDelay, first, elapsed>>

(* Mutant: a reply that fits exactly is sent back too. *)
MutReply(a, size) ==
  /\ phase[a] = "posting"
  /\ session # "none"
  /\ retryDelay' = BaseDelay
  /\ first' = [first EXCEPT ![a] = IF request[a] = "first" THEN size ELSE @]
  /\ IF request[a] = "first" /\ size >= Budget /\ shorten
     THEN /\ request' = [request EXCEPT ![a] = "rewrite"]
          /\ attempt' = [attempt EXCEPT ![a] = 0]
          /\ phase' = [phase EXCEPT ![a] = "ready"]
          /\ timer' = [timer EXCEPT ![a] = 0]
          /\ UNCHANGED answer
     ELSE ReturnTruncated(a, request[a], size)
  /\ UNCHANGED <<shorten, session, elapsed>>

(* A 200 with a non-empty text: the backoff is reset; the first reply that *)
(* is over budget is sent back once to be rewritten, with fresh retries.   *)
Reply(a, size) ==
  /\ phase[a] = "posting"
  /\ session # "none"
  /\ retryDelay' = BaseDelay
  /\ first' = [first EXCEPT ![a] = IF request[a] = "first" THEN size ELSE @]
  /\ IF request[a] = "first" /\ size > Budget /\ shorten
     THEN /\ request' = [request EXCEPT ![a] = "rewrite"]
          /\ attempt' = [attempt EXCEPT ![a] = 0]
          /\ phase' = [phase EXCEPT ![a] = "ready"]
          /\ timer' = [timer EXCEPT ![a] = 0]
          /\ UNCHANGED answer
     ELSE ReturnTruncated(a, request[a], size)
  /\ UNCHANGED <<shorten, session, elapsed>>

(* A 4xx other than 429, a malformed or empty answer, an unexpected error. *)
FinalFailure(a) ==
  /\ phase[a] = "posting"
  /\ RequestFails(a)
  /\ UNCHANGED <<shorten, session, retryDelay, first, elapsed>>

(* Mutant: one retry too many. *)
MutRetryTooOften(a) ==
  /\ phase[a] = "posting"
  /\ IF attempt[a] <= MaxRetries
     THEN /\ attempt' = [attempt EXCEPT ![a] = @ + 1]
          /\ phase' = [phase EXCEPT ![a] = "sleeping"]
          /\ timer' = [timer EXCEPT ![a] = retryDelay]
          /\ UNCHANGED <<request, answer>>
     ELSE RequestFails(a)
  /\ UNCHANGED <<shorten, session, retryDelay, first, elapsed>>

(* A 5xx, a 429, the timeout, a broken connection (a session closed by     *)
(* stop() is one): sleep and retry, or fail when the retries are spent.    *)
TransientFailure(a) ==
  /\ phase[a] = "posting"
  /\ IF attempt[a] < MaxRetries
     THEN /\ attempt' = [attempt EXCEPT ![a] = @ + 1]
          /\ phase' = [phase EXCEPT ![a] = "sleeping"]
          /\ timer' = [timer EXCEPT ![a] = retryDelay]
          /\ UNCHANGED <<request, answer>>
     ELSE RequestFails(a)
  /\ UNCHANGED <<shorten, session, retryDelay, first, elapsed>>

(* Mutant: the delay has no cap. *)
MutWake(a) ==
  /\ phase[a] = "sleeping" /\ timer[a] = 0
  /\ retryDelay' = retryDelay * 2
  /\ phase' = [phase EXCEPT ![a] = "ready"]
  /\ UNCHANGED <<shorten, session, request, attempt, timer, first, answer,
                 elapsed>>

(* The sleep is over: the delay is doubled from what it is by now. *)
Wake(a) ==
  /\ phase[a] = "sleeping"
  /\ timer[a] = 0
  /\ retryDelay' = IF retryDelay * 2 <= MaxDelay THEN retryDelay * 2
                                                 ELSE MaxDelay
  /\ phase' = [phase EXCEPT ![a] = "ready"]
  /\ UNCHANGED <<shorten, session, request, attempt, timer, first, answer,
                 elapsed>>

----------------------------------------------------------------------------
(* stop() and time                                                         *)

BeginStop ==
  /\ session = "open"
  /\ session' = "closing"
  /\ UNCHANGED <<shorten, retryDelay, phase, request, attempt, timer, first,
                 answer, elapsed>>

EndStop ==
  /\ session = "closing"
  /\ session' = "none"
  /\ UNCHANGED <<shorten, retryDelay, phase, request, attempt, timer, first,
                 answer, elapsed>>

Busy(a) == phase[a] \in {"ready", "posting", "sleeping"}
Timed(a) == phase[a] \in {"posting", "sleeping"}

(* A timer that has run out, and a coroutine that is ready, are served     *)
(* before time passes.                                                     *)
Tick ==
  /\ \E a \in Asks : Busy(a)
  /\ \A a \in Asks : Busy(a) => Timed(a) /\ timer[a] > 0
  /\ timer' = [a \in Asks |-> IF Timed(a) THEN timer[a] - 1 ELSE timer[a]]
  /\ elapsed' = [a \in Asks |-> IF Busy(a) THEN elapsed[a] + 1 ELSE elapsed[a]]
  /\ UNCHANGED <<shorten, session, retryDelay, phase, request, attempt, first,
                 answer>>

Serve(a) ==
  \/ Post(a) \/ PostRefused(a)
  \/ \E size \in Sizes : Reply(a, size)
  \/ FinalFailure(a) \/ TransientFailure(a) \/ Wake(a)

Next ==
  \/ \E a \in Asks : AskWithoutSession(a) \/ Ask(a) \/ Serve(a)
  \/ BeginStop \/ EndStop
  \/ Tick

(* The loop serves what is ready, and a post whose timeout has run out     *)
(* ends; time passes. Nothing is assumed of the agent or of stop().        *)
Fairness ==
  /\ \A a \in Asks : WF_vars(Serve(a) /\ (Timed(a) => timer[a] = 0))
  /\ WF_vars(Tick)

Spec == Init /\ [][Next]_vars /\ Fairness

----------------------------------------------------------------------------
(* Types                                                                   *)

TypeOK ==
  /\ shorten \in BOOLEAN
  /\ session \in {"open", "closing", "none"}
  /\ retryDelay \in BaseDelay .. MaxDelay
  /\ phase \in [Asks -> {"idle", "ready", "posting", "sleeping", "done"}]
  /\ request \in [Asks -> {"first", "rewrite"}]
  /\ attempt \in [Asks -> 0 .. MaxRetries]
  /\ timer \in [Asks -> Nat]
  /\ first \in [Asks -> Sizes \union {0}]
  /\ answer \in [Asks -> [of : {"undecided", "nobody", "first", "rewrite"},
                          size : Nat]]
  /\ elapsed \in [Asks -> Nat]

----------------------------------------------------------------------------
(* Safety                                                                  *)

(* Once the agent has answered, something of it is returned, whatever      *)
(* happens to the rewrite: final failures, exhausted retries, or stop()    *)
(* closing the session in between (http_client.py:126-149).                *)
FirstReplyIsNotLost ==
  \A a \in Asks : answer[a] = Silence => first[a] = 0

(* What ask() returns fits the LoRa budget, whichever reply it is of.      *)
AnswerFits == \A a \in Asks : answer[a].size <= Budget

(* The longest one request may take: every attempt runs into its timeout,  *)
(* and every backoff was driven to its cap by the other asks.              *)
RequestTime == (MaxRetries + 1) * Timeout + MaxRetries * MaxDelay

(* No message waits longer for its answer than its two requests at their   *)
(* worst, although the backoff is shared and outlives each message         *)
(* (http_client.py:171-186, 219).                                          *)
AnsweredInTime ==
  \A a \in Asks :
    elapsed[a] <= RequestTime * (IF request[a] = "first" THEN 1 ELSE 2)

(* A request is repeated only while nobody knows its outcome: no ask that  *)
(* has a reply within the budget asks again, and the reply it rewrites was *)
(* over the budget (http_client.py:130-139, 175-176).                      *)
NothingIsAskedTwice ==
  \A a \in Asks :
    Busy(a) => (request[a] = "rewrite" <=> first[a] > 0)
               /\ (first[a] > 0 => first[a] > Budget /\ shorten)

----------------------------------------------------------------------------
(* Liveness                                                                *)

(* Every ask() returns: with a dead agent, with others failing at the same *)
(* time, and when stop() runs under it (http_client.py:110-231).           *)
EveryAskReturns == \A a \in Asks : phase[a] = "ready" ~> phase[a] = "done"
=============================================================================
