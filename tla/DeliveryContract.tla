-------------------------- MODULE DeliveryContract --------------------------
(***************************************************************************)
(* What send_text promises its callers, without threads, polling or time:  *)
(* every send that begins ends with one verdict, which never changes, and  *)
(* a verdict about the other side ("confirmed", "nak") rests on an answer  *)
(* that was received for that very send.                                   *)
(***************************************************************************)
CONSTANT Sends

VARIABLES
  verdict,   \* "idle", "open", or the final verdict of each send
  evidence   \* the reasons received for it so far

vars == <<verdict, evidence>>

Grounded(s, v) ==
  /\ v = "confirmed" => "NONE" \in evidence[s]
  /\ v = "nak" => "error" \in evidence[s]

Init ==
  /\ verdict = [s \in Sends |-> "idle"]
  /\ evidence = [s \in Sends |-> {}]

Begin(s) ==
  /\ verdict[s] = "idle"
  /\ \E v \in {"open", "refused"} : verdict' = [verdict EXCEPT ![s] = v]
  /\ UNCHANGED evidence

Answer(s, reason) ==
  /\ verdict[s] = "open"
  /\ evidence' = [evidence EXCEPT ![s] = @ \union {reason}]
  /\ UNCHANGED verdict

Decide(s) ==
  /\ verdict[s] = "open"
  /\ \E v \in {"refused", "accepted", "confirmed", "nak", "unconfirmed",
               "cancelled"} :
       /\ Grounded(s, v)
       /\ verdict' = [verdict EXCEPT ![s] = v]
  /\ UNCHANGED evidence

Next ==
  \E s \in Sends :
    \/ Begin(s)
    \/ \E reason \in {"NONE", "error"} : Answer(s, reason)
    \/ Decide(s)

Spec == Init /\ [][Next]_vars /\ \A s \in Sends : WF_vars(Decide(s))
=============================================================================
