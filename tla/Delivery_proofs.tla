-------------------------- MODULE Delivery_proofs ---------------------------
(***************************************************************************)
(* What holds of Delivery for every set of sends and every timing. The     *)
(* invariants follow from the inductive invariant Delivery!IInv below.     *)
(***************************************************************************)
EXTENDS Delivery, TLAPS

(* A send without a verdict has not come to the end of its wait, and the   *)
(* other way round.                                                        *)
ReportFollowsStage ==
  \A s \in Sends :
    stage[s] \in {"idle", "submitted", "waiting"} <=> report[s] = "none"

(* A send that has not begun has no packet, so no answer to it is held. *)
IdleIsUnknown ==
  \A s \in Sends :
    stage[s] = "idle" => job[s] = "none" /\ \A m \in reader : m.id # s

(* What an undecided send finds under its key was handled for it. *)
EntriesAreHeard ==
  \A s \in Sends :
    pendingAcks[s] \in Reason /\ report[s] = "none"
      => pendingAcks[s] \in heard[s]

(* The nap now running began before the deadline. *)
NapBeganInTime ==
  \A s \in Sends : stage[s] = "waiting" => left[s] - nap[s] > -PollInterval

(* An answer recorded early enough is still there, and the next poll comes *)
(* before the deadline however late the loop is.                           *)
TimelyAnswerWillBeSeen ==
  \A s \in Sends :
    margin[s] > PollInterval + Latency =>
      /\ stage[s] \notin {"idle", "submitted"}
      /\ stage[s] = "waiting" =>
           pendingAcks[s] \in Reason /\ left[s] - nap[s] > Latency

IInv ==
  /\ TypeOK
  /\ ReportFollowsStage
  /\ IdleIsUnknown
  /\ EntriesAreHeard
  /\ EntriesHaveWaiters
  /\ NapBeganInTime
  /\ TimelyAnswerWillBeSeen
  /\ ReportsAreEarned
  /\ TimelyAnswerIsReported

----------------------------------------------------------------------------

(* Every variable keeps its type (radio.py:99-258). *)
THEOREM TypeCorrect == Spec => []TypeOK
<1>1. Init => TypeOK
  BY TimingAssumption DEF Init, TypeOK, Stages, Jobs, Reports
<1>2. TypeOK /\ [Next]_vars => TypeOK'
  <2> SUFFICES ASSUME TypeOK, [Next]_vars PROVE TypeOK'
    OBVIOUS
  <2> USE DEF TypeOK, timing, history
  <2>1. ASSUME NEW s \in Sends, Refuse(s) PROVE TypeOK'
    BY <2>1 DEF Refuse, Finish, Stages, Reports
  <2>2. ASSUME NEW s \in Sends, NEW wantAck \in BOOLEAN,
               NEW broadcast \in BOOLEAN, Submit(s, wantAck, broadcast)
        PROVE  TypeOK'
    BY <2>2 DEF Submit, Stages, Jobs
  <2>3. ASSUME NEW s \in Sends, Transmit(s) \/ SendRaises(s) PROVE TypeOK'
    BY <2>3 DEF Transmit, SendRaises, Jobs
  <2>4. ASSUME NEW s \in Sends, ReturnAtOnce(s) PROVE TypeOK'
    BY <2>4 DEF ReturnAtOnce, Finish, Stages, Reports
  <2>5. ASSUME NEW s \in Sends, Register(s) PROVE TypeOK'
    <3>1. nap' \in [Sends -> -Latency .. PollInterval]
      BY TimingAssumption, <2>5 DEF Register
    <3>2. left' \in [Sends -> Int]
      BY TimingAssumption, <2>5 DEF Register
    <3> QED
      BY <3>1, <3>2, <2>5 DEF Register, Stages
  <2>6. ASSUME NEW s \in Sends, Poll(s) PROVE TypeOK'
    <3>1. CASE GiveUp(s) \/ Conclude(s)
      BY <3>1 DEF GiveUp, Conclude, Stages, Reports
    <3>2. CASE Sleep(s)
      <4>1. nap' \in [Sends -> -Latency .. PollInterval]
        BY TimingAssumption, <3>2 DEF Sleep
      <4> QED
        BY <3>2, <4>1 DEF Sleep
    <3> QED
      BY <2>6, <3>1, <3>2 DEF Poll
  <2>7. ASSUME NEW s \in Sends, Pop(s) PROVE TypeOK'
    <3>1. nap' \in [Sends -> -Latency .. PollInterval]
      BY TimingAssumption, <2>7 DEF Pop
    <3>2. left' \in [Sends -> Int]
      BY TimingAssumption, <2>7 DEF Pop
    <3> QED
      BY <3>1, <3>2, <2>7 DEF Pop, Stages
  <2>8. ASSUME NEW s \in Sends, Cancel(s) PROVE TypeOK'
    BY <2>8 DEF Cancel, CancelSubmitted, CancelWaiting, Finish, Stages, Jobs,
                Reports
  <2>9. ASSUME NEW s \in Sends, NEW reason \in Reason, TestId(s, reason)
        PROVE  TypeOK'
    <3>1. heard' \in [Sends -> SUBSET Reason]
      BY <2>9 DEF TestId, Handled
    <3>2. reader' \subseteq Matched
      BY <2>9 DEF TestId, Matched
    <3> QED
      BY <3>1, <3>2, <2>9 DEF TestId
  <2>10. ASSUME NEW s \in Sends, NEW reason \in Reason, Record(s, reason)
         PROVE  TypeOK'
    BY <2>10 DEF Record, Handled
  <2>11. CASE BeginDisconnect \/ CloseTransport \/ EndDisconnect
    BY <2>11 DEF BeginDisconnect, CloseTransport, EndDisconnect
  <2>12. CASE Tick
    <3>1. left' \in [Sends -> Int]
      BY <2>12 DEF Tick
    <3>2. nap' \in [Sends -> -Latency .. PollInterval]
      BY TimingAssumption, <2>12 DEF Tick
    <3> QED
      BY <3>1, <3>2, <2>12 DEF Tick
  <2>13. CASE UNCHANGED vars
    BY <2>13 DEF vars
  <2> QED
    BY <2>1, <2>2, <2>3, <2>4, <2>5, <2>6, <2>7, <2>8, <2>9, <2>10, <2>11,
       <2>12, <2>13 DEF Next
<1> QED
  BY <1>1, <1>2, PTL DEF Spec

----------------------------------------------------------------------------

LEMMA InitInvariant == Init => IInv
<1> SUFFICES ASSUME Init PROVE IInv
  OBVIOUS
<1>1. TypeOK
  BY TimingAssumption DEF Init, TypeOK, Stages, Jobs, Reports
<1>2. /\ ReportFollowsStage /\ IdleIsUnknown /\ EntriesAreHeard
      /\ EntriesHaveWaiters
  BY DEF Init, ReportFollowsStage, IdleIsUnknown, EntriesAreHeard,
         EntriesHaveWaiters, Reason
<1>3. NapBeganInTime /\ TimelyAnswerWillBeSeen
  BY TimingAssumption DEF Init, NapBeganInTime, TimelyAnswerWillBeSeen
<1>4. ReportsAreEarned /\ TimelyAnswerIsReported
  BY DEF Init, ReportsAreEarned, TimelyAnswerIsReported
<1> QED
  BY <1>1, <1>2, <1>3, <1>4 DEF IInv

(* The conjuncts of IInv about reports and entries say nothing of time,    *)
(* and those about time nothing of what was heard: the two halves of the   *)
(* invariant are preserved separately.                                     *)
LEMMA NextVerdicts ==
  ASSUME IInv, [Next]_vars
  PROVE  /\ ReportFollowsStage' /\ IdleIsUnknown' /\ EntriesAreHeard'
         /\ EntriesHaveWaiters' /\ ReportsAreEarned'
<1> DEFINE Goal == /\ ReportFollowsStage' /\ IdleIsUnknown' /\ EntriesAreHeard'
                   /\ EntriesHaveWaiters' /\ ReportsAreEarned'
<1> USE DEF IInv, ReportFollowsStage, IdleIsUnknown, EntriesAreHeard,
            EntriesHaveWaiters, ReportsAreEarned
<1>1. ASSUME NEW s \in Sends, Refuse(s) PROVE Goal
  BY <1>1 DEF Refuse, Finish, history, TypeOK
<1>2. ASSUME NEW s \in Sends, NEW wantAck \in BOOLEAN,
             NEW broadcast \in BOOLEAN, Submit(s, wantAck, broadcast)
      PROVE  Goal
  BY <1>2 DEF Submit, history, TypeOK
<1>3. ASSUME NEW s \in Sends, Transmit(s) \/ SendRaises(s) PROVE Goal
  BY <1>3 DEF Transmit, SendRaises, history, TypeOK
<1>4. ASSUME NEW s \in Sends, ReturnAtOnce(s) PROVE Goal
  BY <1>4 DEF ReturnAtOnce, Finish, history, TypeOK
<1>5. ASSUME NEW s \in Sends, Register(s) PROVE Goal
  BY <1>5 DEF Register, history, TypeOK, Reason
<1>6. ASSUME NEW s \in Sends, Poll(s) PROVE Goal
  <2>1. CASE GiveUp(s)
    BY <2>1 DEF GiveUp, Awake, history, TypeOK
  <2>2. CASE Conclude(s)
    BY <2>2 DEF Conclude, Awake, history, TypeOK, Reason
  <2>3. CASE Sleep(s)
    BY <2>3 DEF Sleep, history
  <2> QED
    BY <1>6, <2>1, <2>2, <2>3 DEF Poll
<1>7. ASSUME NEW s \in Sends, Pop(s) PROVE Goal
  BY <1>7 DEF Pop, history, TypeOK, Reason
<1>8. ASSUME NEW s \in Sends, Cancel(s) PROVE Goal
  BY <1>8 DEF Cancel, CancelSubmitted, CancelWaiting, Finish, history, TypeOK
<1>9. ASSUME NEW s \in Sends, NEW reason \in Reason, TestId(s, reason)
      PROVE  Goal
  BY <1>9 DEF TestId, Handled, TypeOK
<1>10. ASSUME NEW s \in Sends, NEW reason \in Reason, Record(s, reason)
       PROVE  Goal
  BY <1>10 DEF Record, Handled, TypeOK, Reason
<1>11. CASE BeginDisconnect \/ CloseTransport \/ EndDisconnect
  BY <1>11 DEF BeginDisconnect, CloseTransport, EndDisconnect, history
<1>12. CASE Tick
  BY <1>12 DEF Tick, history
<1>13. CASE UNCHANGED vars
  BY <1>13 DEF vars
<1> QED
  BY <1>1, <1>2, <1>3, <1>4, <1>5, <1>6, <1>7, <1>8, <1>9, <1>10, <1>11,
     <1>12, <1>13 DEF Next

LEMMA NextTiming ==
  ASSUME IInv, TypeOK', [Next]_vars
  PROVE  NapBeganInTime' /\ TimelyAnswerWillBeSeen' /\ TimelyAnswerIsReported'
<1> DEFINE Goal == /\ NapBeganInTime' /\ TimelyAnswerWillBeSeen'
                   /\ TimelyAnswerIsReported'
<1> USE TimingAssumption
        DEF NapBeganInTime, TimelyAnswerWillBeSeen, TimelyAnswerIsReported
<1>0. /\ NapBeganInTime /\ TimelyAnswerWillBeSeen /\ TimelyAnswerIsReported
      /\ TypeOK /\ ReportFollowsStage
  BY DEF IInv
<1>1. ASSUME NEW s \in Sends, Refuse(s) PROVE Goal
  BY <1>0, <1>1 DEF Refuse, Finish, TypeOK, timing, history
<1>2. ASSUME NEW s \in Sends, NEW wantAck \in BOOLEAN,
             NEW broadcast \in BOOLEAN, Submit(s, wantAck, broadcast)
      PROVE  Goal
  BY <1>0, <1>2 DEF Submit, TypeOK, timing, history
<1>3. ASSUME NEW s \in Sends, Transmit(s) \/ SendRaises(s) PROVE Goal
  BY <1>0, <1>3 DEF Transmit, SendRaises, timing, history
<1>4. ASSUME NEW s \in Sends, ReturnAtOnce(s) PROVE Goal
  BY <1>0, <1>4 DEF ReturnAtOnce, Finish, TypeOK, timing, history
<1>5. ASSUME NEW s \in Sends, Register(s) PROVE Goal
  BY <1>0, <1>5 DEF Register, TypeOK, history
<1>6. ASSUME NEW s \in Sends, Poll(s) PROVE Goal
  <2>1. CASE GiveUp(s)
    BY <1>0, <2>1 DEF GiveUp, Awake, TypeOK, timing, history
  <2>2. CASE Conclude(s)
    BY <1>0, <2>2 DEF Conclude, Awake, TypeOK, timing, history
  <2>3. CASE Sleep(s)
    BY <1>0, <2>3 DEF Sleep, Awake, TypeOK, history
  <2> QED
    BY <1>6, <2>1, <2>2, <2>3 DEF Poll
<1>7. ASSUME NEW s \in Sends, Pop(s) PROVE Goal
  BY <1>0, <1>7 DEF Pop, TypeOK, history
<1>8. ASSUME NEW s \in Sends, Cancel(s) PROVE Goal
  BY <1>0, <1>8 DEF Cancel, CancelSubmitted, CancelWaiting, Finish, TypeOK,
                    timing, history
<1>9. ASSUME NEW s \in Sends, NEW reason \in Reason, TestId(s, reason)
      PROVE  Goal
  BY <1>0, <1>9 DEF TestId, TypeOK, timing
<1>10. ASSUME NEW s \in Sends, NEW reason \in Reason, Record(s, reason)
       PROVE  Goal
  BY <1>0, <1>10 DEF Record, TypeOK, ReportFollowsStage, timing
<1>11. CASE BeginDisconnect \/ CloseTransport \/ EndDisconnect
  BY <1>0, <1>11 DEF BeginDisconnect, CloseTransport, EndDisconnect, timing,
                     history
<1>12. CASE Tick
  BY <1>0, <1>12 DEF Tick, TypeOK, history
<1>13. CASE UNCHANGED vars
  BY <1>0, <1>13 DEF vars
<1> QED
  BY <1>1, <1>2, <1>3, <1>4, <1>5, <1>6, <1>7, <1>8, <1>9, <1>10, <1>11,
     <1>12, <1>13 DEF Next

----------------------------------------------------------------------------

(* IInv is an invariant of send_text, the reader thread and disconnect(). *)
THEOREM Invariance == Spec => []IInv
<1>1. IInv /\ TypeOK' /\ [Next]_vars => IInv'
  BY NextVerdicts, NextTiming DEF IInv
<1> QED
  BY InitInvariant, TypeCorrect, <1>1, PTL DEF Spec

(* A logged confirmation or NAK rests on an answer to that very packet.    *)
THEOREM Earned == Spec => []ReportsAreEarned
<1>1. IInv => ReportsAreEarned
  BY DEF IInv
<1> QED
  BY Invariance, <1>1, PTL

(* Only an answer, never a pending entry, outlives the send it is for.     *)
THEOREM Entries == Spec => []EntriesHaveWaiters
<1>1. IInv => EntriesHaveWaiters
  BY DEF IInv
<1> QED
  BY Invariance, <1>1, PTL

(* With any deadline, poll interval and latency of the loop, an answer     *)
(* recorded more than an interval and a latency early is reported.         *)
THEOREM TimelyAnswer == Spec => []TimelyAnswerIsReported
<1>1. IInv => TimelyAnswerIsReported
  BY DEF IInv
<1> QED
  BY Invariance, <1>1, PTL

(* The wait overruns its deadline by less than an interval and a latency.  *)
THEOREM InTime == Spec => []ConcludesInTime
<1>1. IInv => ConcludesInTime
  BY TimingAssumption DEF IInv, TypeOK, NapBeganInTime, ConcludesInTime
<1> QED
  BY Invariance, <1>1, PTL

LEMMA StepKeepsContract ==
  ASSUME IInv, [Next]_vars
  PROVE  [Contract!Next]_(Contract!vars)
<1> DEFINE Goal == [Contract!Next]_(Contract!vars)
<1>0. TypeOK /\ ReportFollowsStage /\ IdleIsUnknown /\ EntriesAreHeard
  BY DEF IInv
<1> USE <1>0 DEF ReportFollowsStage
<1>1. ASSUME NEW s \in Sends, Refuse(s) PROVE Goal
  <2>1. Contract!Begin(s)
    BY <1>1 DEF Refuse, Finish, history, TypeOK, Contract!Begin
  <2> QED
    BY <2>1 DEF Contract!Next
<1>2. ASSUME NEW s \in Sends, NEW wantAck \in BOOLEAN,
             NEW broadcast \in BOOLEAN, Submit(s, wantAck, broadcast)
      PROVE  Goal
  <2>1. Contract!Begin(s)
    BY <1>2 DEF Submit, history, TypeOK, Contract!Begin
  <2> QED
    BY <2>1 DEF Contract!Next
<1>3. ASSUME NEW s \in Sends, Transmit(s) \/ SendRaises(s) PROVE Goal
  BY <1>3 DEF Transmit, SendRaises, history, Contract!vars
<1>4. ASSUME NEW s \in Sends, ReturnAtOnce(s) PROVE Goal
  <2>0. /\ stage[s] = "submitted"
        /\ Finish(s, "refused") \/ Finish(s, "accepted")
        /\ UNCHANGED heard
    BY <1>4 DEF ReturnAtOnce, history
  <2>1. ASSUME NEW how \in {"refused", "accepted"}, Finish(s, how)
        PROVE  Contract!Decide(s)
    <3>1. how \notin {"none", "confirmed", "nak"}
      OBVIOUS
    <3> QED
      BY <2>0, <2>1, <3>1 DEF Finish, TypeOK, Contract!Decide, Contract!Grounded
  <2> QED
    BY <2>0, <2>1 DEF Contract!Next
<1>5. ASSUME NEW s \in Sends, Register(s) PROVE Goal
  BY <1>5 DEF Register, history, TypeOK, Contract!vars
<1>6. ASSUME NEW s \in Sends, Poll(s) PROVE Goal
  <2>1. CASE GiveUp(s)
    <3>1. Contract!Decide(s)
      BY <2>1 DEF GiveUp, Awake, history, TypeOK, Contract!Decide,
                  Contract!Grounded
    <3> QED
      BY <3>1 DEF Contract!Next
  <2>2. CASE Conclude(s)
    <3>1. Contract!Decide(s)
      BY <2>2 DEF Conclude, Awake, history, TypeOK, EntriesAreHeard, Reason,
                  Contract!Decide, Contract!Grounded
    <3> QED
      BY <3>1 DEF Contract!Next
  <2>3. CASE Sleep(s)
    BY <2>3 DEF Sleep, history, Contract!vars
  <2> QED
    BY <1>6, <2>1, <2>2, <2>3 DEF Poll
<1>7. ASSUME NEW s \in Sends, Pop(s) PROVE Goal
  BY <1>7 DEF Pop, history, TypeOK, Contract!vars
<1>8. ASSUME NEW s \in Sends, Cancel(s) PROVE Goal
  <2>1. Contract!Decide(s)
    BY <1>8 DEF Cancel, CancelSubmitted, CancelWaiting, Finish, history, TypeOK,
                Contract!Decide, Contract!Grounded
  <2> QED
    BY <2>1 DEF Contract!Next
<1>9. ASSUME NEW s \in Sends, NEW reason \in Reason,
             stage[s] # "idle", Handled(s, reason), UNCHANGED <<stage, report>>
      PROVE  Goal
  <2>1. CASE report[s] = "none"
    <3>1. Contract!Answer(s, reason)
      BY <1>9, <2>1 DEF Handled, TypeOK, Contract!Answer
    <3> QED
      BY <3>1 DEF Contract!Next, Reason
  <2>2. CASE report[s] # "none"
    BY <1>9, <2>2 DEF Handled, TypeOK, Contract!vars
  <2> QED
    BY <2>1, <2>2
<1>10. ASSUME NEW s \in Sends, NEW reason \in Reason,
              TestId(s, reason) \/ Record(s, reason)
       PROVE  Goal
  <2>1. stage[s] # "idle" /\ UNCHANGED <<stage, report>>
    BY <1>10 DEF TestId, Record, IdleIsUnknown, timing
  <2>2. CASE Handled(s, reason)
    BY <1>9, <2>1, <2>2
  <2>3. CASE UNCHANGED heard
    BY <2>1, <2>3 DEF Contract!vars
  <2> QED
    BY <1>10, <2>2, <2>3 DEF TestId, Record
<1>11. CASE BeginDisconnect \/ CloseTransport \/ EndDisconnect
  BY <1>11 DEF BeginDisconnect, CloseTransport, EndDisconnect, history,
               Contract!vars
<1>12. CASE Tick
  BY <1>12 DEF Tick, history, Contract!vars
<1>13. CASE UNCHANGED vars
  BY <1>13 DEF vars, Contract!vars
<1> QED
  BY <1>1, <1>2, <1>3, <1>4, <1>5, <1>6, <1>7, <1>8, <1>10, <1>11, <1>12,
     <1>13 DEF Next

(* The steps of Delivery are steps of the contract of send_text, or leave  *)
(* it unchanged.                                                           *)
THEOREM KeepsContract ==
  Spec => Contract!Init /\ [][Contract!Next]_(Contract!vars)
<1>1. Init => Contract!Init
  BY DEF Init, Contract!Init
<1>2. IInv /\ [Next]_vars => [Contract!Next]_(Contract!vars)
  BY StepKeepsContract
<1> QED
  BY <1>1, <1>2, Invariance, PTL DEF Spec
=============================================================================
