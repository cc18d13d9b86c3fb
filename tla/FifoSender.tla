----------------------------- MODULE FifoSender -----------------------------
(***************************************************************************)
(* What a client of the scheduler is promised, and nothing about how: the  *)
(* events of a queue are settled one at a time, in the order they were     *)
(* submitted, each one exactly when it leaves the front of its queue; an   *)
(* event may also be withdrawn, and then only that event leaves.           *)
(***************************************************************************)
EXTENDS Naturals, Sequences

CONSTANTS Events, Queues, QueueOf, NoQueue

VARIABLES
  queue,    \* queue name -> events submitted and not yet settled, in order
  outcome   \* event -> what its submitter has been told

vars == <<queue, outcome>>

Init ==
  /\ queue = [q \in Queues |-> <<>>]
  /\ outcome = [e \in Events |-> "none"]

Submit(e) ==
  /\ QueueOf[e] # NoQueue
  /\ outcome[e] # "pending"
  /\ queue' = [queue EXCEPT ![QueueOf[e]] = Append(@, e)]
  /\ outcome' = [outcome EXCEPT ![e] = "pending"]

Settle(q, result) ==
  /\ queue[q] # <<>>
  /\ outcome[Head(queue[q])] = "pending"
  /\ outcome' = [outcome EXCEPT ![Head(queue[q])] = result]
  /\ queue' = [queue EXCEPT ![q] = Tail(@)]

Withdraw(q, i) ==
  /\ i \in 1..Len(queue[q])
  /\ queue' = [queue EXCEPT ![q] = SubSeq(@, 1, i-1) \o SubSeq(@, i+1, Len(@))]
  /\ UNCHANGED outcome

Next ==
  \/ \E e \in Events : Submit(e)
  \/ \E q \in Queues : \/ Settle(q, "resolved")
                       \/ Settle(q, "rejected")
                       \/ \E i \in 1..Len(queue[q]) : Withdraw(q, i)

Spec == Init /\ [][Next]_vars
==============================================================================
