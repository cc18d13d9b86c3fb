-------------------------- MODULE SchedulerService --------------------------
(***************************************************************************)
(* The scheduler as a service: its handlers, driven by an environment that *)
(* sets the process function, queues events and removes queued ones.       *)
(*                                                                         *)
(* An event is removed only while no chain holds it, which is what the     *)
(* status check of MatrixClient.cancelPendingEvent is for.                 *)
(***************************************************************************)
EXTENDS MatrixScheduler

CONSTANT Cancellable   \* the events the environment may remove from a queue

ASSUME ServiceAssumption == Cancellable \subseteq Events

\* The chain of q has peeked e and will come back to it.
Holds(q, e) == at[q] \in {"called", "sending"} /\ held[q] = e

\* A caller queues an event again only after the previous send was settled.
Queue(e) == defer[e] # "pending" /\ QueueEvent(e)

CancelQueued(e) ==
  /\ e \in Cancellable
  /\ \A q \in Queues : ~Holds(q, e)
  /\ RemoveEventFromQueue(e)

Chain(q) ==
  \/ CallProcFn(q)
  \/ ProcFnResolved(q)
  \/ \E err \in Errors : ProcFnRejected(q, err)
  \/ BackoffElapsed(q)

SchedNext ==
  \/ SetProcessFunction
  \/ \E e \in Events : Queue(e) \/ CancelQueued(e)
  \/ \E q \in Queues : Chain(q)

SchedSpec == SchedInit /\ [][SchedNext]_schedVars

\* The client sets the process function in its constructor; a microtask and a
\* timer run; a request is answered or fails; and the server does not answer
\* every attempt from some time on with a rate limit.
SchedFairness ==
  /\ WF_schedVars(SetProcessFunction)
  /\ \A q \in Queues :
       /\ WF_schedVars(CallProcFn(q))
       /\ WF_schedVars(BackoffElapsed(q))
       /\ WF_schedVars(ProcFnResolved(q) \/ \E err \in Errors : ProcFnRejected(q, err))
       /\ SF_schedVars(ProcFnResolved(q)
                       \/ \E err \in Errors \ {"rateLimit"} : ProcFnRejected(q, err))

FairSpec == SchedSpec /\ SchedFairness

-----------------------------------------------------------------------------
\* A queue is marked active exactly while its chain is suspended somewhere, and
\* once there is a process function no queue with events is without a chain:
\* no path through the handlers leaves a queue parked or started twice.
ActiveIffRunning ==
  \A q \in Queues :
    /\ q \in activeQueues <=> at[q] # "idle"
    /\ procFn /\ queues[q] # <<>> => q \in activeQueues

\* The entry a chain comes back to is still the head of its queue, so the shift
\* after its outcome removes that entry and no other.
HeldIsHead ==
  \A q \in Queues :
    IF at[q] \in {"called", "sending"}
    THEN queues[q] # <<>> /\ held[q] = Head(queues[q])
    ELSE held[q] = NoEvent

\* Every queued event is queued once, in its own queue, and somebody waits for it.
QueuedOnceAndPending ==
  \A q \in Queues :
    /\ \A i \in 1..Len(queues[q]) :
         QueueOf[queues[q][i]] = q /\ defer[queues[q][i]] = "pending"
    /\ \A i, j \in 1..Len(queues[q]) : queues[q][i] = queues[q][j] => i = j

\* The handlers, with their chains, retries and timers, implement the FIFO.
Fifo == INSTANCE FifoSender WITH queue <- queues, outcome <- defer

ImplementsFifo == Fifo!Spec

\* queueEvent: the promise of an event nobody removes is settled in due time.
QueuedPromiseSettles ==
  \A e \in Events \ Cancellable : (defer[e] = "pending") ~> (defer[e] # "pending")
==============================================================================
