--------------------------- MODULE MatrixScheduler ---------------------------
(***************************************************************************)
(* The event scheduler of matrix-js-sdk (src/scheduler.js): one FIFO per   *)
(* queue name, at most one processing chain per queue, and a retry         *)
(* algorithm that decides between a new attempt after a delay and giving   *)
(* up.  Outcomes of the process function are chosen by the environment.    *)
(*                                                                         *)
(* JavaScript runs one callback at a time, so an action is one callback.   *)
(* A chain holds the entry it peeked across two of them: from the peek to  *)
(* the microtask that calls the process function ("called"), and from that *)
(* call to its outcome ("sending").  While a back-off timer runs it holds  *)
(* nothing: the timer's callback peeks again.                              *)
(***************************************************************************)
EXTENDS Naturals, Sequences, SequencesExt

CONSTANTS
  Events,      \* the events that may be handed to the scheduler
  Queues,      \* the queue names the queue algorithm can return
  QueueOf,     \* the queue algorithm: event -> queue name, or NoQueue
  NoQueue,     \* the null answer of the queue algorithm: not queued
  NoEvent,     \* no entry held
  MaxAttempts  \* failed attempts after which ordinary errors give up (4)

ASSUME SchedulerAssumption ==
  /\ NoQueue \notin Queues
  /\ NoEvent \notin Events
  /\ QueueOf \in [Events -> Queues \union {NoQueue}]
  /\ MaxAttempts \in Nat

VARIABLES
  procFn,        \* BOOLEAN: has a process function been set?
  queues,        \* queue name -> sequence of queued events
  activeQueues,  \* names of the queues whose chain is running
  attempts,      \* event -> failed attempts of its entry, saturated
  defer,         \* event -> state of the promise queueEvent returned
  at,            \* queue name -> where its chain is suspended
  held           \* queue name -> the entry the suspended chain holds

schedVars == <<procFn, queues, activeQueues, attempts, defer, at, held>>

\* An error the retry algorithm can see: a 400, 401 or 403 answer, a request
\* rejected for want of a connection, a rate limit with a delay, anything else.
Errors == {"client", "cors", "rateLimit", "other"}

\* The attempt counter only ever meets "attempts > MaxAttempts".
AttemptCap == MaxAttempts + 1

SchedTypeOK ==
  /\ procFn \in BOOLEAN
  /\ queues \in [Queues -> Seq(Events)]
  /\ activeQueues \in SUBSET Queues
  /\ attempts \in [Events -> 0..AttemptCap]
  /\ defer \in [Events -> {"none", "pending", "resolved", "rejected"}]
  /\ at \in [Queues -> {"idle", "called", "sending", "backoff"}]
  /\ held \in [Queues -> Events \union {NoEvent}]

\* A fresh scheduler, its process function apart.
SchedIdle ==
  /\ queues = [q \in Queues |-> <<>>]
  /\ activeQueues = {}
  /\ attempts = [e \in Events |-> 0]
  /\ defer = [e \in Events |-> "none"]
  /\ at = [q \in Queues |-> "idle"]
  /\ held = [q \in Queues |-> NoEvent]

SchedInit == procFn = FALSE /\ SchedIdle

-----------------------------------------------------------------------------
\* Mutant: an ordinary error never makes the retry algorithm give up.
GivesUpOnClientErrorsOnly(err, n) == err \in {"client", "cors"}

\* Mutant: no retries.
GivesUpAtOnce(err, n) == err # "rateLimit"

\* The retry algorithm: TRUE when it answers -1 for error err after n failures.
GivesUp(err, n) ==
  \/ err \in {"client", "cors"}
  \/ err # "rateLimit" /\ n > MaxAttempts

\* _startProcessingQueues: mark every inactive queue that has events active and
\* suspend its chain just before the process function is called on the head.
StartProcessing(qs) ==
  LET woken == {q \in Queues \ activeQueues : qs[q] # <<>>}
  IN /\ activeQueues' = activeQueues \union woken
     /\ at' = [q \in Queues |-> IF q \in woken THEN "called" ELSE at[q]]
     /\ held' = [q \in Queues |-> IF q \in woken THEN Head(qs[q]) ELSE held[q]]

\* Mutant: the emptied queue is not taken off the active list.
ProcessQueueStaysActive(q, qs) ==
  /\ at' = [at EXCEPT ![q] = IF qs[q] = <<>> THEN "idle" ELSE "called"]
  /\ held' = [held EXCEPT ![q] = IF qs[q] = <<>> THEN NoEvent ELSE Head(qs[q])]
  /\ UNCHANGED activeQueues

\* _processQueue: peek the head of queue q, or stop the chain when q is empty.
ProcessQueue(q, qs) ==
  \/ /\ qs[q] = <<>>
     /\ activeQueues' = activeQueues \ {q}
     /\ at' = [at EXCEPT ![q] = "idle"]
     /\ held' = [held EXCEPT ![q] = NoEvent]
  \/ /\ qs[q] # <<>>
     /\ at' = [at EXCEPT ![q] = "called"]
     /\ held' = [held EXCEPT ![q] = Head(qs[q])]
     /\ UNCHANGED activeQueues

\* Mutant: pop, the newest entry leaves instead of the oldest.
ShiftPops(s) == IF s = <<>> THEN s ELSE Front(s)

\* _removeNextEvent: shift whatever is at the head; an empty array stays empty.
Shift(s) == IF s = <<>> THEN s ELSE Tail(s)

\* getQueueForEvent(e) holds e.
InQueue(e) ==
  QueueOf[e] # NoQueue /\ \E i \in 1..Len(queues[QueueOf[e]]) : queues[QueueOf[e]][i] = e

-----------------------------------------------------------------------------
SetProcessFunction ==
  /\ procFn' = TRUE
  /\ StartProcessing(queues)
  /\ UNCHANGED <<queues, attempts, defer>>

QueueEvent(e) ==
  LET q == QueueOf[e]
      qs == [queues EXCEPT ![q] = Append(@, e)]
  IN /\ q # NoQueue
     /\ queues' = qs
     /\ attempts' = [attempts EXCEPT ![e] = 0]
     /\ defer' = [defer EXCEPT ![e] = "pending"]
     /\ IF procFn THEN StartProcessing(qs) ELSE UNCHANGED <<activeQueues, at, held>>
     /\ UNCHANGED procFn

\* The microtask in which the chain of q calls the process function.
CallProcFn(q) ==
  /\ at[q] = "called"
  /\ at' = [at EXCEPT ![q] = "sending"]
  /\ UNCHANGED <<procFn, queues, activeQueues, attempts, defer, held>>

\* Mutant: the sent entry is not removed from the queue.
ProcFnResolvedKeepsEntry(q) ==
  /\ at[q] = "sending"
  /\ defer' = [defer EXCEPT ![held[q]] = "resolved"]
  /\ ProcessQueue(q, queues)
  /\ UNCHANGED <<procFn, queues, attempts>>

\* The process function resolved: shift the queue, resolve, go on.
ProcFnResolved(q) ==
  LET qs == [queues EXCEPT ![q] = Shift(@)]
  IN /\ at[q] = "sending"
     /\ queues' = qs
     /\ defer' = [defer EXCEPT ![held[q]] = "resolved"]
     /\ ProcessQueue(q, qs)
     /\ UNCHANGED <<procFn, attempts>>

\* The process function rejected with err: one more failed attempt.
FailedAttempts(e) == IF attempts[e] < AttemptCap THEN attempts[e] + 1 ELSE AttemptCap

ProcFnGaveUp(q, err) ==
  LET e == held[q]
      qs == [queues EXCEPT ![q] = Shift(@)]
  IN /\ at[q] = "sending"
     /\ GivesUp(err, FailedAttempts(e))
     /\ attempts' = [attempts EXCEPT ![e] = FailedAttempts(e)]
     /\ queues' = qs
     /\ defer' = [defer EXCEPT ![e] = "rejected"]
     /\ ProcessQueue(q, qs)
     /\ UNCHANGED procFn

ProcFnWillRetry(q, err) ==
  LET e == held[q]
  IN /\ at[q] = "sending"
     /\ ~GivesUp(err, FailedAttempts(e))
     /\ attempts' = [attempts EXCEPT ![e] = FailedAttempts(e)]
     /\ at' = [at EXCEPT ![q] = "backoff"]
     /\ held' = [held EXCEPT ![q] = NoEvent]
     /\ UNCHANGED <<procFn, queues, activeQueues, defer>>

ProcFnRejected(q, err) == ProcFnGaveUp(q, err) \/ ProcFnWillRetry(q, err)

\* The back-off timer of q fires.
BackoffElapsed(q) ==
  /\ at[q] = "backoff"
  /\ ProcessQueue(q, queues)
  /\ UNCHANGED <<procFn, queues, attempts, defer>>

\* removeEventFromQueue(e): the first entry with e's id leaves; its promise is
\* neither resolved nor rejected.
RemoveEventFromQueue(e) ==
  LET q == QueueOf[e]
  IN /\ q # NoQueue
     /\ \E i \in 1..Len(queues[q]) :
          /\ queues[q][i] = e
          /\ \A j \in 1..(i-1) : queues[q][j] # e
          /\ queues' = [queues EXCEPT ![q] = RemoveAt(@, i)]
     /\ UNCHANGED <<procFn, activeQueues, attempts, defer, at, held>>
==============================================================================
