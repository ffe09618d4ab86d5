------------------------------ MODULE Pipeline -------------------------------
(***************************************************************************)
(* What the bridge promises for each message it takes from the mesh: it    *)
(* comes to one end, and on the way the node that asked, and nobody else,  *)
(* is sent at most one reply. Threads, the policy, the agent, the radio    *)
(* and the life of the process are left out; Bridge implements this.       *)
(***************************************************************************)
EXTENDS Sequences

CONSTANTS
  Msgs,    \* the messages the bridge may take
  Askers,  \* the nodes they come from
  Unknown  \* stands for the node of a message that was not taken yet

VARIABLES
  fate,    \* what has become of each message
  asker,   \* the node it came from
  replies  \* whom its replies were transmitted to

vars == <<fate, asker, replies>>

Init ==
  /\ fate = [m \in Msgs |-> "new"]
  /\ asker = [m \in Msgs |-> Unknown]
  /\ replies = [m \in Msgs |-> <<>>]

Take(m, node) ==
  /\ fate[m] = "new"
  /\ fate' = [fate EXCEPT ![m] = "pending"]
  /\ asker' = [asker EXCEPT ![m] = node]
  /\ UNCHANGED replies

(* A reply the radio had already been given may go out late. *)
Reply(m) ==
  /\ fate[m] \in {"pending", "given up"} /\ replies[m] = <<>>
  /\ replies' = [replies EXCEPT ![m] = <<asker[m]>>]
  /\ UNCHANGED <<fate, asker>>

(* A message that was dropped got no reply, one that was answered did; the *)
(* bridge may give up before or after it transmitted.                      *)
Conclude(m, end) ==
  /\ fate[m] = "pending"
  /\ end = "dropped" => replies[m] = <<>>
  /\ end = "answered" => replies[m] # <<>>
  /\ fate' = [fate EXCEPT ![m] = end]
  /\ UNCHANGED <<asker, replies>>

Ends == {"dropped", "answered", "given up"}

Next ==
  \E m \in Msgs :
    \/ \E node \in Askers : Take(m, node)
    \/ Reply(m)
    \/ \E end \in Ends : Conclude(m, end)

Spec ==
  /\ Init /\ [][Next]_vars
  /\ \A m \in Msgs : WF_vars(\E end \in Ends : Conclude(m, end))
=============================================================================
