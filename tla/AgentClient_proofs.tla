------------------------- MODULE AgentClient_proofs -------------------------
(***************************************************************************)
(* What holds of AgentClient for every set of asks, every budget, and all  *)
(* retries and times. The invariants follow from the inductive invariant   *)
(* IInv; the bound on the time of an ask from TimeInv on top of it.        *)
(***************************************************************************)
EXTENDS AgentClient, TLAPS

(* An ask that has not begun carries nothing over. *)
IdleIsFresh ==
  \A a \in Asks :
    phase[a] = "idle" =>
      request[a] = "first" /\ attempt[a] = 0 /\ first[a] = 0 /\ elapsed[a] = 0

(* The answer comes with the end. *)
AnswerComesLast == \A a \in Asks : phase[a] # "done" => answer[a] = Undecided

IInv ==
  /\ TypeOK
  /\ IdleIsFresh
  /\ AnswerComesLast
  /\ NothingIsAskedTwice
  /\ FirstReplyIsNotLost
  /\ AnswerFits

(* What n failed attempts may take, each with the backoff after it. *)
Spent(n) == n * (Timeout + MaxDelay)

(* When the current request of an ask began, at the latest. *)
Begun(a) == IF request[a] = "first" THEN 0 ELSE RequestTime

(* How far an ask may be, by the attempts it has made. *)
InTime(a) ==
  /\ phase[a] = "ready" => elapsed[a] <= Begun(a) + Spent(attempt[a])
  /\ phase[a] = "posting" =>
       elapsed[a] + timer[a] <= Begun(a) + Spent(attempt[a]) + Timeout
  /\ phase[a] = "sleeping" =>
       elapsed[a] + timer[a] <= Begun(a) + Spent(attempt[a])
  /\ phase[a] = "done" => elapsed[a] <= Begun(a) + RequestTime

TimeInv == \A a \in Asks : InTime(a)

----------------------------------------------------------------------------
(* How an ask ends                                                         *)

LEMMA FirstIsLength ==
  ASSUME TypeOK, NEW a \in Asks
  PROVE  first[a] \in Nat
<1>1. first \in [Asks -> Sizes \union {0}]
  BY DEF TypeOK
<1>2. \A n \in Sizes \union {0} : n \in Nat
  BY BudgetAssumption
<1> QED
  BY <1>1, <1>2

(* Whatever ReturnTruncated returns is text, and fits. *)
LEMMA TruncatedReturns ==
  ASSUME TypeOK, NEW a \in Asks, NEW of \in {"first", "rewrite"},
         NEW size \in Nat, ReturnTruncated(a, of, size)
  PROVE  \E n \in Nat : n <= Budget /\ Return(a, [of |-> of, size |-> n])
<1>1. \A n \in Truncated(size) : n \in Nat /\ n <= Budget
  BY BudgetAssumption DEF Truncated
<1> QED
  BY <1>1 DEF ReturnTruncated

(* A request that fails ends the ask: silently if it was the first, with   *)
(* the first reply otherwise.                                              *)
LEMMA FailedReturns ==
  ASSUME TypeOK, NEW a \in Asks, RequestFails(a)
  PROVE  \/ request[a] = "first" /\ Return(a, Silence)
         \/ /\ request[a] = "rewrite"
            /\ \E n \in Nat :
                 n <= Budget /\ Return(a, [of |-> "first", size |-> n])
<1>1. request[a] \in {"first", "rewrite"} /\ first[a] \in Nat
  BY FirstIsLength DEF TypeOK
<1>2. CASE request[a] = "first"
  BY <1>2 DEF RequestFails
<1>3. CASE request[a] = "rewrite"
  BY <1>1, <1>3, TruncatedReturns DEF RequestFails
<1> QED
  BY <1>1, <1>2, <1>3

(* An ask that returns text within the budget keeps the invariant. *)
LEMMA ReturnText ==
  ASSUME IInv, NEW a \in Asks, NEW of \in {"first", "rewrite"},
         NEW n \in Nat, n <= Budget, Return(a, [of |-> of, size |-> n]),
         UNCHANGED <<shorten, session, elapsed>>,
         retryDelay' \in BaseDelay .. MaxDelay,
         first' \in [Asks -> Sizes \union {0}],
         \A b \in Asks \ {a} : first'[b] = first[b]
  PROVE  IInv'
<1> DEFINE text == [of |-> of, size |-> n]
<1> USE DEF IInv
<1>1. /\ answer' = [answer EXCEPT ![a] = text]
      /\ phase' = [phase EXCEPT ![a] = "done"]
      /\ timer' = [timer EXCEPT ![a] = 0]
      /\ UNCHANGED <<request, attempt>>
  BY DEF Return
<1>2. TypeOK'
  BY <1>1 DEF TypeOK
<1>3. answer'[a] = text /\ phase'[a] = "done"
  BY <1>1 DEF TypeOK
<1>4. \A b \in Asks \ {a} : answer'[b] = answer[b] /\ phase'[b] = phase[b]
  BY <1>1 DEF TypeOK
<1>5. IdleIsFresh' /\ AnswerComesLast'
  BY <1>1, <1>3, <1>4 DEF IdleIsFresh, AnswerComesLast
<1>6. NothingIsAskedTwice'
  BY <1>1, <1>3, <1>4 DEF NothingIsAskedTwice, Busy
<1>7. FirstReplyIsNotLost'
  BY <1>3, <1>4 DEF FirstReplyIsNotLost, Silence
<1>8. AnswerFits'
  BY <1>3, <1>4 DEF AnswerFits
<1> QED
  BY <1>2, <1>5, <1>6, <1>7, <1>8

(* An ask that returns nothing keeps it if there was no reply. *)
LEMMA ReturnSilence ==
  ASSUME IInv, NEW a \in Asks, first[a] = 0, Return(a, Silence),
         UNCHANGED <<shorten, session, retryDelay, first, elapsed>>
  PROVE  IInv'
<1> USE DEF IInv
<1>1. /\ answer' = [answer EXCEPT ![a] = Silence]
      /\ phase' = [phase EXCEPT ![a] = "done"]
      /\ timer' = [timer EXCEPT ![a] = 0]
      /\ UNCHANGED <<request, attempt>>
  BY DEF Return
<1>2. TypeOK'
  BY <1>1 DEF TypeOK, Silence
<1>3. answer'[a] = Silence /\ phase'[a] = "done"
  BY <1>1 DEF TypeOK
<1>4. \A b \in Asks \ {a} : answer'[b] = answer[b] /\ phase'[b] = phase[b]
  BY <1>1 DEF TypeOK
<1>5. IdleIsFresh' /\ AnswerComesLast'
  BY <1>1, <1>3, <1>4 DEF IdleIsFresh, AnswerComesLast
<1>6. NothingIsAskedTwice'
  BY <1>1, <1>3, <1>4 DEF NothingIsAskedTwice, Busy
<1>7. FirstReplyIsNotLost'
  BY <1>3, <1>4 DEF FirstReplyIsNotLost
<1>8. AnswerFits'
  BY <1>3, <1>4, BudgetAssumption DEF AnswerFits, Silence
<1> QED
  BY <1>2, <1>5, <1>6, <1>7, <1>8

(* A busy ask whose request fails keeps the invariant: there is no reply   *)
(* while it makes its first request.                                       *)
LEMMA RequestFailure ==
  ASSUME IInv, NEW a \in Asks, Busy(a), RequestFails(a),
         UNCHANGED <<shorten, session, retryDelay, first, elapsed>>
  PROVE  IInv'
<1>1. TypeOK /\ retryDelay' \in BaseDelay .. MaxDelay
        /\ first' \in [Asks -> Sizes \union {0}]
  BY DEF IInv, TypeOK
<1>2. CASE request[a] = "first" /\ Return(a, Silence)
  <2>1. first[a] = 0
    <3>1. first[a] \in Nat
      BY FirstIsLength DEF IInv
    <3> QED
      BY <1>2, <3>1 DEF IInv, NothingIsAskedTwice
  <2> QED
    BY <1>2, <2>1, ReturnSilence
<1>3. ASSUME NEW n \in Nat, n <= Budget,
             Return(a, [of |-> "first", size |-> n])
      PROVE  IInv'
  BY <1>1, <1>3, ReturnText
<1> QED
  BY <1>1, <1>2, <1>3, FailedReturns
----------------------------------------------------------------------------
(* The invariant is inductive                                              *)

LEMMA InitInvariant == Init => IInv
BY BudgetAssumption, RetryAssumption
   DEF Init, IInv, TypeOK, IdleIsFresh, AnswerComesLast, NothingIsAskedTwice,
       FirstReplyIsNotLost, AnswerFits, Busy, Undecided, Silence

LEMMA NextInvariant == IInv /\ [Next]_vars => IInv'
<1> SUFFICES ASSUME IInv, [Next]_vars PROVE IInv'
  OBVIOUS
<1> USE DEF IInv
<1>1. ASSUME NEW a \in Asks, AskWithoutSession(a) PROVE IInv'
  BY <1>1, ReturnSilence DEF AskWithoutSession, IdleIsFresh
<1>2. ASSUME NEW a \in Asks, Ask(a) PROVE IInv'
  <2>1. TypeOK'
    BY <1>2 DEF Ask, TypeOK
  <2> QED
    BY <1>2, <2>1 DEF Ask, TypeOK, IdleIsFresh, AnswerComesLast, Busy,
       NothingIsAskedTwice, FirstReplyIsNotLost, AnswerFits
<1>3. ASSUME NEW a \in Asks, Post(a) PROVE IInv'
  <2>1. TypeOK'
    BY <1>3, RetryAssumption DEF Post, TypeOK
  <2> QED
    BY <1>3, <2>1 DEF Post, TypeOK, IdleIsFresh, AnswerComesLast, Busy,
       NothingIsAskedTwice, FirstReplyIsNotLost, AnswerFits
<1>4. ASSUME NEW a \in Asks, PostRefused(a) PROVE IInv'
  BY <1>4, RequestFailure DEF PostRefused, Busy
<1>5. ASSUME NEW a \in Asks, NEW size \in Sizes, Reply(a, size) PROVE IInv'
  <2>1. retryDelay' \in BaseDelay .. MaxDelay
    <3>1. retryDelay' = BaseDelay
      BY <1>5 DEF Reply
    <3> QED
      BY <3>1, RetryAssumption
  <2>2. /\ first' \in [Asks -> Sizes \union {0}]
        /\ \A b \in Asks \ {a} : first'[b] = first[b]
    BY <1>5 DEF Reply, TypeOK
  <2>3. request[a] \in {"first", "rewrite"} /\ size \in Nat \ {0}
    BY BudgetAssumption DEF TypeOK
  <2>4. CASE request[a] = "first" /\ size > Budget /\ shorten
    <3>1. /\ first'[a] = size /\ request'[a] = "rewrite"
          /\ phase'[a] = "ready" /\ phase[a] = "posting"
          /\ UNCHANGED <<shorten, session, elapsed, answer>>
      BY <1>5, <2>4 DEF Reply, TypeOK
    <3>2. \A b \in Asks \ {a} :
            request'[b] = request[b] /\ phase'[b] = phase[b]
              /\ attempt'[b] = attempt[b]
      BY <1>5, <2>4 DEF Reply, TypeOK
    <3>3. TypeOK'
      <4>1. /\ request' \in [Asks -> {"first", "rewrite"}]
            /\ phase' \in [Asks -> {"idle", "ready", "posting", "sleeping",
                                    "done"}]
            /\ attempt' \in [Asks -> 0 .. MaxRetries]
            /\ timer' \in [Asks -> Nat]
        <5>1. /\ request' = [request EXCEPT ![a] = "rewrite"]
              /\ attempt' = [attempt EXCEPT ![a] = 0]
              /\ phase' = [phase EXCEPT ![a] = "ready"]
              /\ timer' = [timer EXCEPT ![a] = 0]
          BY <1>5, <2>4 DEF Reply
        <5>2. 0 \in 0 .. MaxRetries
          BY RetryAssumption
        <5> QED
          BY <5>1, <5>2 DEF TypeOK
      <4>2. UNCHANGED <<shorten, session, elapsed, answer>> /\ TypeOK
        BY <3>1
      <4> HIDE DEF IInv
      <4> QED
        BY <2>1, <2>2, <4>1, <4>2 DEF TypeOK
    <3>4. IdleIsFresh' /\ AnswerComesLast'
      BY <2>2, <3>1, <3>2 DEF IdleIsFresh, AnswerComesLast
    <3>5. NothingIsAskedTwice'
      <4>1. first'[a] > 0 /\ first'[a] > Budget /\ shorten'
        BY <2>3, <2>4, <3>1
      <4> QED
        BY <2>2, <3>1, <3>2, <4>1 DEF NothingIsAskedTwice, Busy
    <3>6. FirstReplyIsNotLost' /\ AnswerFits'
      BY <2>2, <3>1 DEF FirstReplyIsNotLost, AnswerFits, AnswerComesLast,
         Undecided, Silence
    <3> QED
      BY <3>3, <3>4, <3>5, <3>6
  <2>5. CASE ~(request[a] = "first" /\ size > Budget /\ shorten)
    <3>1. ReturnTruncated(a, request[a], size)
            /\ UNCHANGED <<shorten, session, elapsed>>
      BY <1>5, <2>5 DEF Reply
    <3>2. PICK n \in Nat :
            n <= Budget /\ Return(a, [of |-> request[a], size |-> n])
      BY <2>3, <3>1, TruncatedReturns
    <3>3. ASSUME NEW of \in {"first", "rewrite"}
          PROVE  Return(a, [of |-> of, size |-> n]) => IInv'
      BY <2>1, <2>2, <3>1, <3>2, ReturnText
    <3> QED
      BY <2>3, <3>2, <3>3
  <2> QED
    BY <2>4, <2>5
<1>6. ASSUME NEW a \in Asks, FinalFailure(a) PROVE IInv'
  BY <1>6, RequestFailure DEF FinalFailure, Busy
<1>7. ASSUME NEW a \in Asks, TransientFailure(a) PROVE IInv'
  <2>1. CASE attempt[a] < MaxRetries
    <3>1. TypeOK'
      <4>1. /\ attempt' = [attempt EXCEPT ![a] = @ + 1]
            /\ phase' = [phase EXCEPT ![a] = "sleeping"]
            /\ timer' = [timer EXCEPT ![a] = retryDelay]
            /\ UNCHANGED <<shorten, session, retryDelay, request, first, answer,
                           elapsed>>
        BY <1>7, <2>1 DEF TransientFailure
      <4>2. attempt[a] + 1 \in 0 .. MaxRetries /\ retryDelay \in Nat
        BY <2>1, RetryAssumption DEF TypeOK
      <4> QED
        BY <4>1, <4>2 DEF TypeOK
    <3> QED
      BY <1>7, <2>1, <3>1 DEF TransientFailure, TypeOK, IdleIsFresh,
         AnswerComesLast, Busy, NothingIsAskedTwice, FirstReplyIsNotLost,
         AnswerFits
  <2>2. CASE ~(attempt[a] < MaxRetries)
    BY <1>7, <2>2, RequestFailure DEF TransientFailure, Busy
  <2> QED
    BY <2>1, <2>2
<1>8. ASSUME NEW a \in Asks, Wake(a) PROVE IInv'
  <2>1. TypeOK'
    BY <1>8, RetryAssumption DEF Wake, TypeOK
  <2> QED
    BY <1>8, <2>1 DEF Wake, TypeOK, IdleIsFresh, AnswerComesLast, Busy,
       NothingIsAskedTwice, FirstReplyIsNotLost, AnswerFits
<1>9. CASE BeginStop \/ EndStop
  BY <1>9 DEF BeginStop, EndStop, TypeOK, IdleIsFresh, AnswerComesLast, Busy,
     NothingIsAskedTwice, FirstReplyIsNotLost, AnswerFits
<1>10. CASE Tick
  <2>1. timer' \in [Asks -> Nat] /\ elapsed' \in [Asks -> Nat]
    BY <1>10 DEF Tick, TypeOK, Busy, Timed
  <2>2. \A a \in Asks : phase[a] = "idle" => elapsed'[a] = elapsed[a]
    BY <1>10 DEF Tick, Busy
  <2>3. UNCHANGED <<shorten, session, retryDelay, phase, request, attempt,
                    first, answer>>
    BY <1>10 DEF Tick
  <2> QED
    BY <2>1, <2>2, <2>3 DEF TypeOK, IdleIsFresh, AnswerComesLast, Busy,
       NothingIsAskedTwice, FirstReplyIsNotLost, AnswerFits
<1>11. CASE UNCHANGED vars
  BY <1>11 DEF vars, TypeOK, IdleIsFresh, AnswerComesLast, Busy,
     NothingIsAskedTwice, FirstReplyIsNotLost, AnswerFits
<1> QED
  BY <1>1, <1>2, <1>3, <1>4, <1>5, <1>6, <1>7, <1>8, <1>9, <1>10, <1>11
     DEF Next, Serve

(* Every variable keeps its type; retries and backoff stay within their    *)
(* limits (http_client.py:110-231).                                        *)
THEOREM TypeCorrect == Spec => []TypeOK
BY InitInvariant, NextInvariant, PTL DEF Spec, IInv

(* Once the agent has answered, ask() never comes back with nothing        *)
(* (http_client.py:126-149).                                               *)
THEOREM ReplyKept == Spec => []FirstReplyIsNotLost
BY InitInvariant, NextInvariant, PTL DEF Spec, IInv

(* What ask() returns fits the budget (http_client.py:126-149).            *)
THEOREM Fits == Spec => []AnswerFits
BY InitInvariant, NextInvariant, PTL DEF Spec, IInv

(* Only a first reply over the budget is followed by another request, and  *)
(* only if the configuration wants it (http_client.py:130-139).            *)
THEOREM AskedOnce == Spec => []NothingIsAskedTwice
BY InitInvariant, NextInvariant, PTL DEF Spec, IInv

----------------------------------------------------------------------------
(* Time                                                                    *)

LEMMA SpentIsNat == ASSUME NEW n \in Nat PROVE Spent(n) \in Nat
BY RetryAssumption DEF Spent

LEMMA SpentGrows == ASSUME NEW n \in Nat
                    PROVE  Spent(n + 1) = Spent(n) + Timeout + MaxDelay
BY RetryAssumption DEF Spent

(* All attempts together, the last one without a backoff. *)
LEMMA SpentAtMost ==
  ASSUME NEW n \in 0 .. MaxRetries
  PROVE  Spent(n) + Timeout <= RequestTime /\ RequestTime \in Nat
<1> DEFINE cycle == Timeout + MaxDelay
<1>1. cycle \in Nat /\ Timeout \in Nat /\ MaxDelay \in Nat
        /\ MaxRetries \in Nat /\ n \in Nat /\ n <= MaxRetries
  BY RetryAssumption
<1>2. PICK k \in Nat : MaxRetries = n + k
  BY <1>1
<1>3. (n + k) * cycle = n * cycle + k * cycle /\ k * cycle \in Nat
  <2> HIDE DEF cycle
  <2> QED
    BY <1>1
<1>4. RequestTime = MaxRetries * cycle + Timeout
  BY <1>1 DEF RequestTime
<1>5. n * cycle \in Nat
  <2> HIDE DEF cycle
  <2> QED
    BY <1>1
<1> QED
  BY <1>1, <1>2, <1>3, <1>4, <1>5 DEF Spent

(* What an ask may take holds wherever it stands. *)
LEMMA BusyInTime ==
  ASSUME IInv, NEW a \in Asks, InTime(a), phase[a] # "idle"
  PROVE  elapsed[a] <= Begun(a) + RequestTime
<1>1. /\ phase[a] \in {"ready", "posting", "sleeping", "done"}
      /\ elapsed[a] \in Nat /\ timer[a] \in Nat
      /\ attempt[a] \in 0 .. MaxRetries /\ attempt[a] \in Nat
  BY RetryAssumption DEF IInv, TypeOK
<1>2. /\ Spent(attempt[a]) + Timeout <= RequestTime /\ RequestTime \in Nat
      /\ Spent(attempt[a]) \in Nat /\ Timeout \in Nat
  BY <1>1, SpentAtMost, SpentIsNat, RetryAssumption
<1>3. Begun(a) \in Nat
  BY <1>2 DEF Begun
<1> QED
  BY <1>1, <1>2, <1>3 DEF InTime

(* An ask that returns keeps the bound. *)
LEMMA ReturnInTime ==
  ASSUME IInv, TimeInv, NEW a \in Asks, NEW ans, Return(a, ans),
         phase[a] # "idle" \/ elapsed[a] = 0,
         UNCHANGED elapsed
  PROVE  TimeInv'
<1>1. /\ phase' = [phase EXCEPT ![a] = "done"]
      /\ timer' = [timer EXCEPT ![a] = 0]
      /\ UNCHANGED <<request, attempt>>
  BY DEF Return
<1>2. \A b \in Asks : Begun(b)' = Begun(b)
  BY <1>1 DEF Begun
<1>3. InTime(a)'
  <2>1. phase'[a] = "done" /\ elapsed'[a] = elapsed[a]
    BY <1>1 DEF IInv, TypeOK
  <2>2. elapsed[a] <= Begun(a) + RequestTime
    <3>1. CASE phase[a] # "idle"
      BY <3>1, BusyInTime DEF TimeInv
    <3>2. CASE elapsed[a] = 0
      <4>1. RequestTime \in Nat
        BY SpentAtMost, RetryAssumption
      <4> QED
        BY <3>2, <4>1 DEF Begun
    <3> QED
      BY <3>1, <3>2
  <2> QED
    BY <1>2, <2>1, <2>2 DEF InTime
<1>4. ASSUME NEW b \in Asks \ {a} PROVE InTime(b)'
  <2>1. phase'[b] = phase[b] /\ timer'[b] = timer[b]
    BY <1>1 DEF IInv, TypeOK
  <2> QED
    BY <1>1, <1>2, <2>1 DEF InTime, TimeInv
<1> QED
  BY <1>3, <1>4 DEF TimeInv

LEMMA FailureInTime ==
  ASSUME IInv, TimeInv, NEW a \in Asks, Busy(a), RequestFails(a),
         UNCHANGED elapsed
  PROVE  TimeInv'
<1>1. TypeOK /\ phase[a] # "idle"
  BY DEF IInv, Busy
<1>2. ASSUME NEW ans, Return(a, ans) PROVE TimeInv'
  BY <1>1, <1>2, ReturnInTime
<1> QED
  BY <1>1, <1>2, FailedReturns

(* A step of one ask keeps the bound if it does so for that ask.           *)
LEMMA OneInTime ==
  ASSUME TimeInv, NEW a \in Asks, InTime(a)',
         \A b \in Asks \ {a} :
           /\ phase'[b] = phase[b] /\ request'[b] = request[b]
           /\ attempt'[b] = attempt[b] /\ timer'[b] = timer[b]
           /\ elapsed'[b] = elapsed[b]
  PROVE  TimeInv'
<1>1. ASSUME NEW b \in Asks \ {a} PROVE InTime(b)'
  <2>1. Begun(b)' = Begun(b)
    BY DEF Begun
  <2> QED
    BY <2>1 DEF InTime, TimeInv
<1> QED
  BY <1>1 DEF TimeInv

LEMMA InitInTime == Init => TimeInv
BY DEF Init, TimeInv, InTime

LEMMA NextInTime == IInv /\ TimeInv /\ [Next]_vars => TimeInv'
<1> SUFFICES ASSUME IInv, TimeInv, [Next]_vars PROVE TimeInv'
  OBVIOUS
<1>0. TypeOK
  BY DEF IInv
<1>1. ASSUME NEW a \in Asks, AskWithoutSession(a) PROVE TimeInv'
  <2>1. elapsed[a] = 0
    BY <1>1 DEF AskWithoutSession, IInv, IdleIsFresh
  <2> QED
    BY <1>1, <2>1, ReturnInTime DEF AskWithoutSession
<1>2. ASSUME NEW a \in Asks, Ask(a) PROVE TimeInv'
  <2>1. elapsed[a] = 0 /\ attempt[a] = 0
    BY <1>2 DEF Ask, IInv, IdleIsFresh
  <2>2. phase'[a] = "ready"
    BY <1>0, <1>2 DEF Ask, TypeOK
  <2>3. Begun(a)' \in Nat /\ Spent(0) \in Nat
    BY SpentAtMost, SpentIsNat, RetryAssumption DEF Begun
  <2>4. InTime(a)'
    BY <1>2, <2>1, <2>2, <2>3 DEF Ask, InTime
  <2> QED
    BY <1>0, <1>2, <2>4, OneInTime DEF Ask, TypeOK
<1>3. ASSUME NEW a \in Asks, Post(a) PROVE TimeInv'
  <2>1. phase'[a] = "posting" /\ timer'[a] = Timeout
    BY <1>0, <1>3 DEF Post, TypeOK
  <2>2. Begun(a)' = Begun(a) /\ Begun(a) \in Nat
    BY <1>3, SpentAtMost, RetryAssumption DEF Post, Begun
  <2>3. elapsed[a] <= Begun(a) + Spent(attempt[a])
    BY <1>3 DEF Post, TimeInv, InTime
  <2>4. elapsed[a] \in Nat /\ Spent(attempt[a]) \in Nat /\ Timeout \in Nat
    BY <1>0, SpentIsNat, RetryAssumption DEF TypeOK
  <2>5. InTime(a)'
    BY <1>3, <2>1, <2>2, <2>3, <2>4 DEF Post, InTime
  <2> QED
    BY <1>0, <1>3, <2>5, OneInTime DEF Post, TypeOK
<1>4. ASSUME NEW a \in Asks, PostRefused(a) PROVE TimeInv'
  BY <1>4, FailureInTime DEF PostRefused, Busy
<1>5. ASSUME NEW a \in Asks, NEW size \in Sizes, Reply(a, size)
      PROVE  TimeInv'
  <2>1. phase[a] = "posting" /\ elapsed' = elapsed
    BY <1>5 DEF Reply
  <2>2. CASE request[a] = "first" /\ size > Budget /\ shorten
    <3>1. /\ phase'[a] = "ready" /\ request'[a] = "rewrite"
          /\ attempt'[a] = 0
          /\ \A b \in Asks \ {a} :
               /\ phase'[b] = phase[b] /\ request'[b] = request[b]
               /\ attempt'[b] = attempt[b] /\ timer'[b] = timer[b]
      BY <1>0, <1>5, <2>2 DEF Reply, TypeOK
    <3>2. elapsed[a] <= RequestTime
      <4>1. attempt[a] \in 0 .. MaxRetries /\ attempt[a] \in Nat
              /\ elapsed[a] \in Nat /\ timer[a] \in Nat
        BY <1>0, RetryAssumption DEF TypeOK
      <4>2. elapsed[a] + timer[a] <= Spent(attempt[a]) + Timeout
        <5>1. Begun(a) = 0
          BY <2>2 DEF Begun
        <5>2. Spent(attempt[a]) \in Nat
          BY <4>1, SpentIsNat
        <5> QED
          BY <2>1, <5>1, <5>2 DEF TimeInv, InTime
      <4>3. Spent(attempt[a]) + Timeout <= RequestTime
              /\ RequestTime \in Nat /\ Spent(attempt[a]) \in Nat
        BY <4>1, SpentAtMost, SpentIsNat
      <4> QED
        BY <4>1, <4>2, <4>3, RetryAssumption
    <3>3. Begun(a)' = RequestTime /\ RequestTime \in Nat /\ Spent(0) \in Nat
      BY <3>1, SpentAtMost, SpentIsNat, RetryAssumption DEF Begun
    <3>4. InTime(a)'
      <4>1. elapsed'[a] = elapsed[a] /\ elapsed[a] \in Nat
        BY <1>0, <2>1 DEF TypeOK
      <4> QED
        BY <3>1, <3>2, <3>3, <4>1 DEF InTime
    <3> QED
      BY <2>1, <3>1, <3>4, OneInTime
  <2>3. CASE ~(request[a] = "first" /\ size > Budget /\ shorten)
    <3>1. ReturnTruncated(a, request[a], size)
      BY <1>5, <2>3 DEF Reply
    <3>2. PICK n : Return(a, [of |-> request[a], size |-> n])
      BY <3>1 DEF ReturnTruncated
    <3>3. ASSUME NEW ans, Return(a, ans) PROVE TimeInv'
      BY <2>1, <3>3, ReturnInTime
    <3> QED
      BY <3>2, <3>3
  <2> QED
    BY <2>2, <2>3
<1>6. ASSUME NEW a \in Asks, FinalFailure(a) PROVE TimeInv'
  BY <1>6, FailureInTime DEF FinalFailure, Busy
<1>7. ASSUME NEW a \in Asks, TransientFailure(a) PROVE TimeInv'
  <2>1. phase[a] = "posting" /\ UNCHANGED elapsed
    BY <1>7 DEF TransientFailure
  <2>2. CASE attempt[a] < MaxRetries
    <3>1. /\ phase'[a] = "sleeping" /\ timer'[a] = retryDelay
          /\ attempt'[a] = attempt[a] + 1 /\ request'[a] = request[a]
          /\ \A b \in Asks \ {a} :
               /\ phase'[b] = phase[b] /\ request'[b] = request[b]
               /\ attempt'[b] = attempt[b] /\ timer'[b] = timer[b]
      BY <1>0, <1>7, <2>2 DEF TransientFailure, TypeOK
    <3>2. /\ attempt[a] \in Nat /\ elapsed[a] \in Nat /\ timer[a] \in Nat
          /\ retryDelay \in Nat /\ retryDelay <= MaxDelay
          /\ Timeout \in Nat /\ MaxDelay \in Nat
      BY <1>0, RetryAssumption DEF TypeOK
    <3>3. /\ Spent(attempt[a] + 1) = Spent(attempt[a]) + Timeout + MaxDelay
          /\ Spent(attempt[a]) \in Nat
      BY <3>2, SpentGrows, SpentIsNat
    <3>4. Begun(a)' = Begun(a) /\ Begun(a) \in Nat
      BY <3>1, SpentAtMost, RetryAssumption DEF Begun
    <3>5. elapsed[a] + timer[a] <= Begun(a) + Spent(attempt[a]) + Timeout
      BY <2>1 DEF TimeInv, InTime
    <3>6. InTime(a)'
      <4>1. elapsed'[a] + timer'[a] <= Begun(a)' + Spent(attempt'[a])
        BY <2>1, <3>1, <3>2, <3>3, <3>4, <3>5
      <4> QED
        BY <3>1, <4>1 DEF InTime
    <3> QED
      BY <2>1, <3>1, <3>6, OneInTime
  <2>3. CASE ~(attempt[a] < MaxRetries)
    BY <1>7, <2>1, <2>3, FailureInTime DEF TransientFailure, Busy
  <2> QED
    BY <2>2, <2>3
<1>8. ASSUME NEW a \in Asks, Wake(a) PROVE TimeInv'
  <2>1. phase[a] = "sleeping" /\ timer[a] = 0 /\ phase'[a] = "ready"
          /\ UNCHANGED <<request, attempt, timer, elapsed>>
    BY <1>0, <1>8 DEF Wake, TypeOK
  <2>2. Begun(a)' = Begun(a)
    BY <2>1 DEF Begun
  <2>3. elapsed[a] \in Nat
    BY <1>0 DEF TypeOK
  <2>4. InTime(a)'
    BY <2>1, <2>2, <2>3 DEF TimeInv, InTime
  <2> QED
    BY <1>0, <1>8, <2>4, OneInTime DEF Wake, TypeOK
<1>9. CASE BeginStop \/ EndStop
  BY <1>9 DEF BeginStop, EndStop, TimeInv, InTime, Begun
<1>10. CASE Tick
  <2>1. ASSUME NEW a \in Asks PROVE InTime(a)'
    <3>1. Begun(a)' = Begun(a) /\ UNCHANGED <<phase, attempt>>
      BY <1>10 DEF Tick, Begun
    <3>2. elapsed[a] \in Nat /\ timer[a] \in Nat /\ InTime(a)
      BY <1>0 DEF TypeOK, TimeInv
    <3>3. CASE Busy(a)
      <4>1. phase[a] # "ready" /\ phase[a] # "done" /\ timer[a] > 0
              /\ timer'[a] = timer[a] - 1 /\ elapsed'[a] = elapsed[a] + 1
        BY <1>10, <3>3 DEF Tick, Busy, Timed
      <4>2. elapsed'[a] + timer'[a] = elapsed[a] + timer[a]
        BY <3>2, <4>1
      <4> QED
        BY <3>1, <3>2, <4>1, <4>2 DEF InTime
    <3>4. CASE ~Busy(a)
      <4>1. elapsed'[a] = elapsed[a]
        BY <1>10, <3>4 DEF Tick
      <4> QED
        BY <3>1, <3>2, <3>4, <4>1 DEF InTime, Busy
    <3> QED
      BY <3>3, <3>4
  <2> QED
    BY <2>1 DEF TimeInv
<1>11. CASE UNCHANGED vars
  BY <1>11 DEF vars, TimeInv, InTime, Begun
<1> QED
  BY <1>1, <1>2, <1>3, <1>4, <1>5, <1>6, <1>7, <1>8, <1>9, <1>10, <1>11
     DEF Next, Serve

LEMMA TimeBounds == IInv /\ TimeInv => AnsweredInTime
<1> SUFFICES ASSUME IInv, TimeInv, NEW a \in Asks
             PROVE  elapsed[a] <=
                      RequestTime * (IF request[a] = "first" THEN 1 ELSE 2)
  BY DEF AnsweredInTime
<1>1. RequestTime \in Nat /\ elapsed[a] \in Nat
  BY SpentAtMost, RetryAssumption DEF IInv, TypeOK
<1>2. CASE phase[a] = "idle"
  BY <1>1, <1>2 DEF IInv, IdleIsFresh
<1>3. CASE phase[a] # "idle"
  <2>1. elapsed[a] <= Begun(a) + RequestTime
    BY <1>3, BusyInTime DEF TimeInv
  <2>2. CASE request[a] = "first"
    BY <1>1, <2>1, <2>2 DEF Begun
  <2>3. CASE request[a] # "first"
    BY <1>1, <2>1, <2>3 DEF Begun
  <2> QED
    BY <2>2, <2>3
<1> QED
  BY <1>2, <1>3

(* No ask takes longer than its requests, attempts and backoffs allow,     *)
(* however many asks share the backoff (http_client.py:110-231).           *)
THEOREM InBoundedTime == Spec => []AnsweredInTime
BY InitInvariant, NextInvariant, InitInTime, NextInTime, TimeBounds, PTL
   DEF Spec
=============================================================================
