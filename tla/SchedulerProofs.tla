--------------------------- MODULE SchedulerProofs ---------------------------
(***************************************************************************)
(* Theorems about the scheduler service, for any events, queues, queue     *)
(* algorithm and retry limit: its types, its safety invariants, and that   *)
(* it implements the abstract FIFO.                                        *)
(*                                                                         *)
(* The four invariants are inductive only together.  Shifting the queue    *)
(* after an outcome removes the right entry because the held entry is the  *)
(* head (HeldIsHead); it stays the head because no second chain can run on *)
(* the queue (ActiveIffRunning); and settling it leaves every other entry  *)
(* pending because no event is queued twice (QueuedOnceAndPending).        *)
(***************************************************************************)
EXTENDS SchedulerService, TLAPS

IInv == SchedTypeOK /\ ActiveIffRunning /\ HeldIsHead /\ QueuedOnceAndPending

-----------------------------------------------------------------------------
\* Removing the i-th element shifts the ones behind it and keeps the others.
LEMMA RemoveAtShifts ==
  ASSUME NEW S, NEW s \in Seq(S), NEW i \in 1..Len(s)
  PROVE  /\ RemoveAt(s, i) \in Seq(S)
         /\ Len(RemoveAt(s, i)) = Len(s) - 1
         /\ \A j \in 1..(Len(s) - 1) :
              RemoveAt(s, i)[j] = IF j < i THEN s[j] ELSE s[j + 1]
<1> DEFINE front == SubSeq(s, 1, i - 1)
           back  == SubSeq(s, i + 1, Len(s))
<1>1. /\ front \in Seq(S)
      /\ Len(front) = i - 1
      /\ \A j \in 1..(i - 1) : front[j] = s[j]
  OBVIOUS
<1>2. /\ back \in Seq(S)
      /\ Len(back) = Len(s) - i
      /\ \A j \in 1..(Len(s) - i) : back[j] = s[i + j]
  OBVIOUS
<1>3. RemoveAt(s, i) = front \o back
  BY DEF RemoveAt
<1> HIDE DEF front, back
<1>4. /\ front \o back \in Seq(S)
      /\ Len(front \o back) = Len(s) - 1
  BY <1>1, <1>2
<1>5. ASSUME NEW j \in 1..(Len(s) - 1)
      PROVE  (front \o back)[j] = IF j < i THEN s[j] ELSE s[j + 1]
  <2>1. CASE j < i
    BY <1>1, <1>2, <2>1
  <2>2. CASE ~(j < i)
    <3>1. (front \o back)[j] = back[j - (i - 1)]
      BY <1>1, <1>2, <2>2
    <3>2. j - (i - 1) \in 1..(Len(s) - i) /\ i + (j - (i - 1)) = j + 1
      BY <2>2
    <3> QED
      BY <1>2, <2>2, <3>1, <3>2
  <2> QED
    BY <2>1, <2>2
<1> QED
  BY <1>3, <1>4, <1>5

\* Shifting a sequence that has a head leaves its tail.
LEMMA ShiftIsTail ==
  ASSUME NEW S, NEW s \in Seq(S), s # <<>>
  PROVE  /\ Shift(s) \in Seq(S)
         /\ Shift(s) = Tail(s)
         /\ Len(Shift(s)) = Len(s) - 1
         /\ \A j \in 1..(Len(s) - 1) : Shift(s)[j] = s[j + 1]
         /\ Head(s) = s[1] /\ Head(s) \in S
  BY DEF Shift

\* A chain that looks at its queue again, whatever happened to the queue since,
\* is suspended on its head or stopped, and the other chains are untouched.
LEMMA ProcessQueueRestores ==
  ASSUME SchedTypeOK, ActiveIffRunning, HeldIsHead,
         NEW q \in Queues, at[q] # "idle",
         queues' \in [Queues -> Seq(Events)],
         \A r \in Queues : r # q => queues'[r] = queues[r],
         ProcessQueue(q, queues'), UNCHANGED procFn
  PROVE  /\ activeQueues' \in SUBSET Queues
         /\ at' \in [Queues -> {"idle", "called", "sending", "backoff"}]
         /\ held' \in [Queues -> Events \union {NoEvent}]
         /\ ActiveIffRunning' /\ HeldIsHead'
<1>1. queues'[q] # <<>> => Head(queues'[q]) \in Events
  OBVIOUS
<1>2. /\ activeQueues' \in SUBSET Queues
      /\ at' \in [Queues -> {"idle", "called", "sending", "backoff"}]
      /\ held' \in [Queues -> Events \union {NoEvent}]
  BY <1>1 DEF SchedTypeOK, ProcessQueue
<1>3. /\ at'[q] = IF queues'[q] = <<>> THEN "idle" ELSE "called"
      /\ held'[q] = IF queues'[q] = <<>> THEN NoEvent ELSE Head(queues'[q])
      /\ q \in activeQueues' <=> queues'[q] # <<>>
      /\ \A r \in Queues : r # q => at'[r] = at[r] /\ held'[r] = held[r]
                                  /\ (r \in activeQueues' <=> r \in activeQueues)
  BY DEF SchedTypeOK, ActiveIffRunning, ProcessQueue
<1>4. ActiveIffRunning'
  BY <1>3 DEF ActiveIffRunning
<1>5. HeldIsHead'
  BY <1>3 DEF HeldIsHead
<1> QED
  BY <1>2, <1>4, <1>5

\* Waking the idle queues that have events leaves none of them parked.
LEMMA StartProcessingRestores ==
  ASSUME SchedTypeOK, HeldIsHead,
         \A q \in Queues : q \in activeQueues <=> at[q] # "idle",
         queues' \in [Queues -> Seq(Events)],
         \A q \in Queues :
           queues[q] # <<>> => queues'[q] # <<>> /\ Head(queues'[q]) = Head(queues[q]),
         StartProcessing(queues')
  PROVE  /\ activeQueues' \in SUBSET Queues
         /\ at' \in [Queues -> {"idle", "called", "sending", "backoff"}]
         /\ held' \in [Queues -> Events \union {NoEvent}]
         /\ ActiveIffRunning' /\ HeldIsHead'
<1>1. \A q \in Queues : queues'[q] # <<>> => Head(queues'[q]) \in Events
  OBVIOUS
<1>2. \A q \in Queues :
        /\ at'[q] = IF q \notin activeQueues /\ queues'[q] # <<>> THEN "called" ELSE at[q]
        /\ held'[q] = IF q \notin activeQueues /\ queues'[q] # <<>>
                      THEN Head(queues'[q]) ELSE held[q]
        /\ q \in activeQueues' <=> q \in activeQueues \/ queues'[q] # <<>>
  BY DEF StartProcessing
<1>3. /\ activeQueues' \in SUBSET Queues
      /\ at' \in [Queues -> {"idle", "called", "sending", "backoff"}]
      /\ held' \in [Queues -> Events \union {NoEvent}]
  BY <1>1 DEF StartProcessing, SchedTypeOK
<1>4. ActiveIffRunning'
  BY <1>2 DEF ActiveIffRunning
<1>5. HeldIsHead'
  BY <1>2 DEF HeldIsHead
<1> QED
  BY <1>3, <1>4, <1>5

-----------------------------------------------------------------------------
\* Settling the held entry: the entries behind it stay queued once and pending.
LEMMA SettleKeepsPending ==
  ASSUME IInv, NEW q \in Queues, queues[q] # <<>>, NEW result,
         queues' = [queues EXCEPT ![q] = Shift(@)],
         defer' = [defer EXCEPT ![Head(queues[q])] = result]
  PROVE  /\ queues' \in [Queues -> Seq(Events)]
         /\ QueuedOnceAndPending'
<1> DEFINE e == Head(queues[q])
<1>1. /\ queues[q] \in Seq(Events) /\ queues \in [Queues -> Seq(Events)]
      /\ defer \in [Events -> {"none", "pending", "resolved", "rejected"}]
  BY DEF IInv, SchedTypeOK
<1>2. /\ Shift(queues[q]) \in Seq(Events)
      /\ Len(Shift(queues[q])) = Len(queues[q]) - 1
      /\ \A j \in 1..(Len(queues[q]) - 1) : Shift(queues[q])[j] = queues[q][j + 1]
      /\ e = queues[q][1] /\ e \in Events
  BY <1>1, ShiftIsTail
<1>3. queues' \in [Queues -> Seq(Events)] /\ queues'[q] = Shift(queues[q])
      /\ \A r \in Queues : r # q => queues'[r] = queues[r]
  BY <1>1, <1>2
<1>4. \A f \in Events : f # e => defer'[f] = defer[f]
  BY <1>1
<1> HIDE DEF e
<1>5. QueueOf[e] = q
  BY <1>1, <1>2 DEF IInv, QueuedOnceAndPending
<1>6. ASSUME NEW r \in Queues, NEW i \in 1..Len(queues'[r]), r # q
      PROVE  QueueOf[queues'[r][i]] = r /\ defer'[queues'[r][i]] = "pending"
  <2>1. queues[r][i] \in Events /\ QueueOf[queues[r][i]] = r /\ defer[queues[r][i]] = "pending"
    BY <1>1, <1>3, <1>6 DEF IInv, QueuedOnceAndPending
  <2> QED
    BY <1>3, <1>4, <1>5, <1>6, <2>1
<1>7. ASSUME NEW i \in 1..Len(queues'[q])
      PROVE  QueueOf[queues'[q][i]] = q /\ defer'[queues'[q][i]] = "pending"
  <2>1. i + 1 \in 1..Len(queues[q]) /\ queues'[q][i] = queues[q][i + 1] /\ i + 1 # 1
    BY <1>1, <1>2, <1>3
  <2>2. /\ queues[q][i + 1] \in Events
        /\ QueueOf[queues[q][i + 1]] = q /\ defer[queues[q][i + 1]] = "pending"
    BY <1>1, <2>1 DEF IInv, QueuedOnceAndPending
  <2>3. 1 \in 1..Len(queues[q])
    BY <1>1
  <2>4. queues[q][i + 1] # queues[q][1]
    BY <2>1, <2>3 DEF IInv, QueuedOnceAndPending
  <2> QED
    BY <1>2, <1>4, <2>1, <2>2, <2>4
<1>8. ASSUME NEW r \in Queues, NEW i \in 1..Len(queues'[r]), NEW j \in 1..Len(queues'[r]),
             queues'[r][i] = queues'[r][j]
      PROVE  i = j
  <2>1. CASE r # q
    BY <1>3, <1>8, <2>1 DEF IInv, QueuedOnceAndPending
  <2>2. CASE r = q
    <3>1. /\ i + 1 \in 1..Len(queues[q]) /\ queues'[q][i] = queues[q][i + 1]
          /\ j + 1 \in 1..Len(queues[q]) /\ queues'[q][j] = queues[q][j + 1]
      BY <1>1, <1>2, <1>3, <2>2
    <3>2. i + 1 = j + 1
      BY <1>8, <2>2, <3>1 DEF IInv, QueuedOnceAndPending
    <3> QED
      BY <2>2, <3>2
  <2> QED
    BY <2>1, <2>2
<1>9. QueuedOnceAndPending'
  BY <1>6, <1>7, <1>8 DEF QueuedOnceAndPending
<1> QED
  BY <1>3, <1>9

\* Queueing an event nobody waits for yet.
LEMMA QueueKeeps ==
  ASSUME IInv, NEW e \in Events, Queue(e)
  PROVE  IInv'
<1> DEFINE q == QueueOf[e]
<1>1. /\ SchedTypeOK /\ q \in Queues /\ defer[e] # "pending"
      /\ queues' = [queues EXCEPT ![q] = Append(@, e)]
      /\ attempts' = [attempts EXCEPT ![e] = 0]
      /\ defer' = [defer EXCEPT ![e] = "pending"]
      /\ UNCHANGED procFn
  BY SchedulerAssumption DEF IInv, Queue, QueueEvent
<1> HIDE DEF q
<1>2. /\ queues' \in [Queues -> Seq(Events)]
      /\ attempts' \in [Events -> 0..AttemptCap]
      /\ defer' \in [Events -> {"none", "pending", "resolved", "rejected"}]
      /\ procFn' \in BOOLEAN
  BY <1>1, SchedulerAssumption DEF SchedTypeOK, AttemptCap
<1>a. /\ queues[q] \in Seq(Events)
      /\ queues'[q] = Append(queues[q], e)
      /\ \A r \in Queues : r # q => queues'[r] = queues[r]
  BY <1>1 DEF SchedTypeOK
<1>3. /\ queues[q] \in Seq(Events)
      /\ Len(queues'[q]) = Len(queues[q]) + 1
      /\ \A i \in 1..Len(queues[q]) : queues'[q][i] = queues[q][i]
      /\ queues'[q][Len(queues[q]) + 1] = e
      /\ queues'[q] # <<>>
      /\ \A r \in Queues : r # q => queues'[r] = queues[r]
  BY <1>a
<1>4. \A r \in Queues :
        queues[r] # <<>> => queues'[r] # <<>> /\ Head(queues'[r]) = Head(queues[r])
  BY <1>1, <1>3 DEF SchedTypeOK
<1>5. /\ activeQueues' \in SUBSET Queues
      /\ at' \in [Queues -> {"idle", "called", "sending", "backoff"}]
      /\ held' \in [Queues -> Events \union {NoEvent}]
      /\ ActiveIffRunning' /\ HeldIsHead'
  <2>1. CASE procFn
    <3>1. StartProcessing(queues')
      BY <1>1, <2>1 DEF Queue, QueueEvent, q
    <3>2. \A r \in Queues : r \in activeQueues <=> at[r] # "idle"
      BY DEF IInv, ActiveIffRunning
    <3>3. HeldIsHead
      BY DEF IInv
    <3> QED
      BY <1>1, <1>2, <1>4, <3>1, <3>2, <3>3, StartProcessingRestores
  <2>2. CASE ~procFn
    <3>1. UNCHANGED <<procFn, activeQueues, at, held>>
      BY <1>1, <2>2 DEF Queue, QueueEvent
    <3>2. ActiveIffRunning'
      BY <2>2, <3>1 DEF IInv, ActiveIffRunning
    <3>3. HeldIsHead'
      BY <1>4, <3>1 DEF IInv, HeldIsHead
    <3> QED
      BY <3>1, <3>2, <3>3 DEF IInv, SchedTypeOK
  <2> QED
    BY <2>1, <2>2
<1>6. QueuedOnceAndPending'
  <2>1. \A r \in Queues : \A i \in 1..Len(queues[r]) : queues[r][i] # e /\ queues[r][i] \in Events
    BY <1>1 DEF IInv, QueuedOnceAndPending, SchedTypeOK
  <2>2. \A f \in Events : defer'[f] = IF f = e THEN "pending" ELSE defer[f]
    BY <1>1 DEF SchedTypeOK
  <2>3. ASSUME NEW r \in Queues, NEW i \in 1..Len(queues'[r])
        PROVE  QueueOf[queues'[r][i]] = r /\ defer'[queues'[r][i]] = "pending"
    <3>1. CASE r = q /\ i = Len(queues[q]) + 1
      BY <1>3, <2>2, <3>1 DEF q
    <3>2. CASE ~(r = q /\ i = Len(queues[q]) + 1)
      <4>1. i \in 1..Len(queues[r]) /\ queues'[r][i] = queues[r][i]
        BY <1>3, <3>2
      <4> QED
        BY <2>1, <2>2, <4>1 DEF IInv, QueuedOnceAndPending
    <3> QED
      BY <3>1, <3>2
  <2>4. ASSUME NEW r \in Queues, NEW i \in 1..Len(queues'[r]), NEW j \in 1..Len(queues'[r]),
               queues'[r][i] = queues'[r][j]
        PROVE  i = j
    <3>1. CASE r # q
      BY <1>3, <2>4, <3>1 DEF IInv, QueuedOnceAndPending
    <3>2. CASE r = q
      <4> DEFINE n == Len(queues[q])
      <4>1. n \in Nat /\ i \in 1..(n + 1) /\ j \in 1..(n + 1)
        BY <1>3, <3>2
      <4>2. \A k \in 1..n : queues'[q][k] = queues[q][k] /\ queues'[q][k] # e
        BY <1>1, <1>3, <2>1
      <4>3. queues'[q][n + 1] = e
        BY <1>3
      <4>4. CASE i \in 1..n /\ j \in 1..n
        <5>1. queues[q][i] = queues[q][j]
          BY <2>4, <3>2, <4>2, <4>4
        <5> QED
          BY <1>1, <4>4, <5>1 DEF IInv, QueuedOnceAndPending
      <4>5. CASE i = n + 1 \/ j = n + 1
        <5>1. i \notin 1..n /\ j \notin 1..n
          BY <2>4, <3>2, <4>1, <4>2, <4>3, <4>5
        <5> QED
          BY <4>1, <5>1
      <4> QED
        BY <4>1, <4>4, <4>5
    <3> QED
      BY <3>1, <3>2
  <2> QED
    BY <2>3, <2>4 DEF QueuedOnceAndPending
<1> QED
  BY <1>2, <1>5, <1>6 DEF IInv, SchedTypeOK

\* Removing a queued event that no chain holds.
LEMMA CancelKeeps ==
  ASSUME IInv, NEW e \in Events, CancelQueued(e)
  PROVE  IInv'
<1> DEFINE q == QueueOf[e]
<1>1. /\ SchedTypeOK /\ q \in Queues
      /\ \A r \in Queues : ~Holds(r, e)
      /\ UNCHANGED <<procFn, activeQueues, attempts, defer, at, held>>
  BY SchedulerAssumption DEF IInv, CancelQueued, RemoveEventFromQueue
<1>2. PICK i \in 1..Len(queues[q]) :
        queues[q][i] = e /\ queues' = [queues EXCEPT ![q] = RemoveAt(@, i)]
  BY DEF CancelQueued, RemoveEventFromQueue
<1> HIDE DEF q
<1>3. queues[q] \in Seq(Events)
  BY <1>1 DEF SchedTypeOK
<1>4. /\ RemoveAt(queues[q], i) \in Seq(Events)
      /\ Len(RemoveAt(queues[q], i)) = Len(queues[q]) - 1
      /\ \A j \in 1..(Len(queues[q]) - 1) :
           RemoveAt(queues[q], i)[j] = IF j < i THEN queues[q][j] ELSE queues[q][j + 1]
  BY <1>2, <1>3, RemoveAtShifts
<1>5. /\ queues' \in [Queues -> Seq(Events)]
      /\ queues'[q] = RemoveAt(queues[q], i)
      /\ \A r \in Queues : r # q => queues'[r] = queues[r]
  BY <1>1, <1>2, <1>4 DEF SchedTypeOK
<1>6. SchedTypeOK'
  BY <1>1, <1>5 DEF SchedTypeOK, AttemptCap
<1>7. ActiveIffRunning'
  <2>1. queues'[q] # <<>> => queues[q] # <<>>
    BY <1>2, <1>3
  <2> QED
    BY <1>1, <1>5, <2>1 DEF IInv, ActiveIffRunning
<1>8. HeldIsHead'
  <2>1. CASE at[q] \in {"called", "sending"}
    <3>1. queues[q] # <<>> /\ held[q] = queues[q][1] /\ held[q] # e
      BY <1>1, <1>3, <2>1 DEF IInv, HeldIsHead, Holds
    <3>2. i # 1
      BY <1>2, <3>1
    <3>3. Len(queues[q]) > 1 /\ 1 < i
      BY <1>2, <1>3, <3>2
    <3>4. queues'[q] # <<>> /\ Head(queues'[q]) = queues[q][1]
      BY <1>3, <1>4, <1>5, <3>3
    <3> QED
      BY <1>1, <1>5, <3>1, <3>4 DEF IInv, HeldIsHead
  <2>2. CASE at[q] \notin {"called", "sending"}
    BY <1>1, <1>5, <2>2 DEF IInv, HeldIsHead
  <2> QED
    BY <2>1, <2>2
<1>9. QueuedOnceAndPending'
  <2>1. ASSUME NEW r \in Queues, NEW j \in 1..Len(queues'[r])
        PROVE  QueueOf[queues'[r][j]] = r /\ defer'[queues'[r][j]] = "pending"
    <3>1. CASE r # q
      <4>1. queues'[r] = queues[r] /\ j \in 1..Len(queues[r]) /\ defer' = defer
        BY <1>1, <1>5, <3>1
      <4>2. QueueOf[queues[r][j]] = r /\ defer[queues[r][j]] = "pending"
        BY <4>1 DEF IInv, QueuedOnceAndPending
      <4> QED
        BY <4>1, <4>2
    <3>2. CASE r = q
      <4> DEFINE k == IF j < i THEN j ELSE j + 1
      <4>1. k \in 1..Len(queues[q]) /\ queues'[q][j] = queues[q][k] /\ defer' = defer
        BY <1>1, <1>3, <1>4, <1>5, <3>2
      <4>2. QueueOf[queues[q][k]] = q /\ defer[queues[q][k]] = "pending"
        BY <1>1, <4>1 DEF IInv, QueuedOnceAndPending
      <4> QED
        BY <3>2, <4>1, <4>2
    <3> QED
      BY <3>1, <3>2
  <2>2. ASSUME NEW r \in Queues, NEW j \in 1..Len(queues'[r]), NEW k \in 1..Len(queues'[r]),
               queues'[r][j] = queues'[r][k]
        PROVE  j = k
    <3>1. CASE r # q
      <4>1. /\ j \in 1..Len(queues[r]) /\ k \in 1..Len(queues[r])
            /\ queues[r][j] = queues[r][k]
        BY <1>5, <2>2, <3>1
      <4> QED
        BY <4>1 DEF IInv, QueuedOnceAndPending
    <3>2. CASE r = q
      <4> DEFINE old(m) == IF m < i THEN m ELSE m + 1
      <4>1. /\ old(j) \in 1..Len(queues[q]) /\ queues'[q][j] = queues[q][old(j)]
            /\ old(k) \in 1..Len(queues[q]) /\ queues'[q][k] = queues[q][old(k)]
        BY <1>3, <1>4, <1>5, <3>2
      <4>2. old(j) = old(k)
        BY <2>2, <3>2, <4>1 DEF IInv, QueuedOnceAndPending
      <4> QED
        BY <1>2, <1>5, <3>2, <4>2
    <3> QED
      BY <3>1, <3>2
  <2> QED
    BY <2>1, <2>2 DEF QueuedOnceAndPending
<1> QED
  BY <1>6, <1>7, <1>8, <1>9 DEF IInv

\* An outcome that settles the held entry: it was the head, and the chain goes on.
LEMMA SettleKeeps ==
  ASSUME IInv, NEW q \in Queues, at[q] = "sending",
         NEW result \in {"resolved", "rejected"},
         queues' = [queues EXCEPT ![q] = Shift(@)],
         defer' = [defer EXCEPT ![held[q]] = result],
         attempts' \in [Events -> 0..AttemptCap],
         ProcessQueue(q, queues'), UNCHANGED procFn
  PROVE  IInv'
<1>1. queues[q] # <<>> /\ held[q] = Head(queues[q])
  BY DEF IInv, HeldIsHead
<1>2. queues' \in [Queues -> Seq(Events)] /\ QueuedOnceAndPending'
  BY <1>1, SettleKeepsPending
<1>3. \A r \in Queues : r # q => queues'[r] = queues[r]
  BY DEF IInv, SchedTypeOK
<1>4. /\ activeQueues' \in SUBSET Queues
      /\ at' \in [Queues -> {"idle", "called", "sending", "backoff"}]
      /\ held' \in [Queues -> Events \union {NoEvent}]
      /\ ActiveIffRunning' /\ HeldIsHead'
  <2>1. SchedTypeOK /\ ActiveIffRunning /\ HeldIsHead /\ at[q] # "idle"
    BY DEF IInv
  <2> QED
    BY <1>2, <1>3, <2>1, ProcessQueueRestores
<1>5. procFn' \in BOOLEAN /\ defer' \in [Events -> {"none", "pending", "resolved", "rejected"}]
  BY DEF IInv, SchedTypeOK
<1> QED
  BY <1>2, <1>4, <1>5 DEF IInv, SchedTypeOK

\* The failure counter stays within its cap.
LEMMA FailedAttemptsBounded ==
  ASSUME SchedTypeOK, NEW e \in Events
  PROVE  FailedAttempts(e) \in 0..AttemptCap
  BY SchedulerAssumption DEF SchedTypeOK, FailedAttempts, AttemptCap

\* One step of the chain of a queue.
LEMMA ChainKeeps ==
  ASSUME IInv, NEW q \in Queues, Chain(q)
  PROVE  IInv'
<1> USE DEF IInv
<1>1. CASE CallProcFn(q)
  <2>1. SchedTypeOK'
    BY <1>1 DEF CallProcFn, SchedTypeOK, AttemptCap
  <2>2. ActiveIffRunning' /\ HeldIsHead'
    BY <1>1 DEF CallProcFn, SchedTypeOK, ActiveIffRunning, HeldIsHead
  <2>3. QueuedOnceAndPending'
    BY <1>1 DEF CallProcFn, QueuedOnceAndPending
  <2> QED
    BY <2>1, <2>2, <2>3
<1>2. CASE ProcFnResolved(q)
  <2>1. attempts' \in [Events -> 0..AttemptCap]
    BY <1>2 DEF ProcFnResolved, SchedTypeOK
  <2> QED
    BY <1>2, <2>1, SettleKeeps DEF ProcFnResolved
<1>3. ASSUME NEW err \in Errors, ProcFnRejected(q, err)
      PROVE  IInv'
  <2>1. at[q] = "sending" /\ held[q] \in Events
    <3>1. at[q] = "sending"
      BY <1>3 DEF ProcFnRejected, ProcFnGaveUp, ProcFnWillRetry
    <3>2. queues[q] # <<>> /\ queues[q] \in Seq(Events) /\ held[q] = Head(queues[q])
      BY <3>1 DEF SchedTypeOK, HeldIsHead
    <3> QED
      BY <3>1, <3>2
  <2>2. FailedAttempts(held[q]) \in 0..AttemptCap
    BY <2>1, FailedAttemptsBounded
  <2>3. [attempts EXCEPT ![held[q]] = FailedAttempts(held[q])] \in [Events -> 0..AttemptCap]
    BY <2>2 DEF SchedTypeOK
  <2>4. CASE ProcFnGaveUp(q, err)
    BY <2>1, <2>3, <2>4, SettleKeeps DEF ProcFnGaveUp
  <2>5. CASE ProcFnWillRetry(q, err)
    <3>1. SchedTypeOK'
      BY <2>3, <2>5 DEF ProcFnWillRetry, SchedTypeOK
    <3>2. ActiveIffRunning' /\ HeldIsHead'
      BY <2>5 DEF ProcFnWillRetry, SchedTypeOK, ActiveIffRunning, HeldIsHead
    <3>3. QueuedOnceAndPending'
      BY <2>5 DEF ProcFnWillRetry, QueuedOnceAndPending
    <3> QED
      BY <3>1, <3>2, <3>3
  <2> QED
    BY <1>3, <2>4, <2>5 DEF ProcFnRejected
<1>4. CASE BackoffElapsed(q)
  <2>1. /\ queues' \in [Queues -> Seq(Events)] /\ queues' = queues
        /\ at[q] # "idle" /\ ProcessQueue(q, queues') /\ UNCHANGED procFn
    BY <1>4 DEF BackoffElapsed, SchedTypeOK
  <2>2. /\ activeQueues' \in SUBSET Queues
        /\ at' \in [Queues -> {"idle", "called", "sending", "backoff"}]
        /\ held' \in [Queues -> Events \union {NoEvent}]
        /\ ActiveIffRunning' /\ HeldIsHead'
    BY <2>1, ProcessQueueRestores
  <2>3. SchedTypeOK'
    BY <1>4, <2>2 DEF BackoffElapsed, SchedTypeOK, AttemptCap
  <2>4. QueuedOnceAndPending'
    BY <1>4 DEF BackoffElapsed, QueuedOnceAndPending
  <2> QED
    BY <2>2, <2>3, <2>4
<1> QED
  BY <1>1, <1>2, <1>3, <1>4 DEF Chain

\* Setting the process function wakes every queue that has events.
LEMMA SetProcessFunctionKeeps ==
  ASSUME IInv, SetProcessFunction
  PROVE  IInv'
<1>1. /\ SchedTypeOK /\ HeldIsHead
      /\ \A q \in Queues : q \in activeQueues <=> at[q] # "idle"
      /\ queues' \in [Queues -> Seq(Events)] /\ queues' = queues
      /\ StartProcessing(queues')
  BY DEF IInv, SetProcessFunction, SchedTypeOK, ActiveIffRunning
<1>2. /\ activeQueues' \in SUBSET Queues
      /\ at' \in [Queues -> {"idle", "called", "sending", "backoff"}]
      /\ held' \in [Queues -> Events \union {NoEvent}]
      /\ ActiveIffRunning' /\ HeldIsHead'
  BY <1>1, StartProcessingRestores
<1>3. SchedTypeOK'
  BY <1>1, <1>2 DEF SetProcessFunction, SchedTypeOK, AttemptCap
<1>4. QueuedOnceAndPending'
  BY DEF IInv, SetProcessFunction, QueuedOnceAndPending
<1> QED
  BY <1>2, <1>3, <1>4 DEF IInv

LEMMA InitEstablishes ==
  ASSUME SchedInit
  PROVE  IInv
<1>1. SchedTypeOK
  <2>1. 0 \in 0..AttemptCap /\ <<>> \in Seq(Events)
    BY SchedulerAssumption DEF AttemptCap
  <2> QED
    BY <2>1 DEF SchedInit, SchedIdle, SchedTypeOK
<1>2. ActiveIffRunning /\ HeldIsHead
  BY DEF SchedInit, SchedIdle, ActiveIffRunning, HeldIsHead
<1>3. QueuedOnceAndPending
  BY DEF SchedInit, SchedIdle, QueuedOnceAndPending
<1> QED
  BY <1>1, <1>2, <1>3 DEF IInv

LEMMA NextKeeps ==
  ASSUME IInv, [SchedNext]_schedVars
  PROVE  IInv'
<1>1. CASE SchedNext
  BY <1>1, QueueKeeps, CancelKeeps, ChainKeeps, SetProcessFunctionKeeps DEF SchedNext
<1>2. CASE UNCHANGED schedVars
  BY <1>2 DEF schedVars, IInv, SchedTypeOK, ActiveIffRunning, HeldIsHead,
              QueuedOnceAndPending, AttemptCap
<1> QED
  BY <1>1, <1>2

-----------------------------------------------------------------------------
\* The invariants of src/scheduler.js hold whatever the constants are.
THEOREM SchedulerInvariant == SchedSpec => []IInv
<1>1. SchedInit => IInv
  BY InitEstablishes
<1>2. IInv /\ [SchedNext]_schedVars => IInv'
  BY NextKeeps
<1> QED
  BY <1>1, <1>2, PTL DEF SchedSpec

\* Every variable of the scheduler stays in its type.
THEOREM SchedulerTypes == SchedSpec => []SchedTypeOK
<1>1. IInv => SchedTypeOK
  BY DEF IInv
<1> QED
  BY <1>1, SchedulerInvariant, PTL

\* A chain always settles the entry it shifts (_removeNextEvent, _processQueue).
THEOREM HeldEntryIsHead == SchedSpec => []HeldIsHead
<1>1. IInv => HeldIsHead
  BY DEF IInv
<1> QED
  BY <1>1, SchedulerInvariant, PTL

\* No queue with events is parked or processed twice (_startProcessingQueues).
THEOREM NoQueueParked == SchedSpec => []ActiveIffRunning
<1>1. IInv => ActiveIffRunning
  BY DEF IInv
<1> QED
  BY <1>1, SchedulerInvariant, PTL

-----------------------------------------------------------------------------
\* Every step of the handlers is a step of the abstract FIFO or a stutter.
LEMMA StepRefines ==
  ASSUME IInv, [SchedNext]_schedVars
  PROVE  [Fifo!Next]_(Fifo!vars)
<1> USE DEF Fifo!Next, Fifo!vars
<1>1. CASE SetProcessFunction
  BY <1>1 DEF SetProcessFunction
<1>2. ASSUME NEW e \in Events, Queue(e)
      PROVE  Fifo!Submit(e)
  BY <1>2 DEF Queue, QueueEvent, Fifo!Submit
<1>3. ASSUME NEW e \in Events, CancelQueued(e)
      PROVE  \E q \in Queues : \E i \in 1..Len(queues[q]) : Fifo!Withdraw(q, i)
  <2>1. QueueOf[e] \in Queues
    BY <1>3, SchedulerAssumption DEF CancelQueued, RemoveEventFromQueue
  <2> QED
    BY <1>3, <2>1 DEF CancelQueued, RemoveEventFromQueue, RemoveAt, Fifo!Withdraw
<1>4. ASSUME NEW q \in Queues, at[q] = "sending",
             NEW result \in {"resolved", "rejected"},
             queues' = [queues EXCEPT ![q] = Shift(@)],
             defer' = [defer EXCEPT ![held[q]] = result]
      PROVE  Fifo!Settle(q, result)
  <2>1. queues[q] # <<>> /\ queues[q] \in Seq(Events) /\ held[q] = Head(queues[q])
    BY <1>4 DEF IInv, HeldIsHead, SchedTypeOK
  <2>2. defer[Head(queues[q])] = "pending"
    <3>1. Head(queues[q]) = queues[q][1] /\ 1 \in 1..Len(queues[q])
      BY <2>1
    <3> QED
      BY <3>1 DEF IInv, QueuedOnceAndPending
  <2>3. Shift(queues[q]) = Tail(queues[q])
    BY <2>1 DEF Shift
  <2> QED
    BY <1>4, <2>1, <2>2, <2>3 DEF Fifo!Settle
<1>5. ASSUME NEW q \in Queues, Chain(q)
      PROVE  Fifo!Settle(q, "resolved") \/ Fifo!Settle(q, "rejected")
             \/ UNCHANGED <<queues, defer>>
  <2>1. CASE ProcFnResolved(q)
    BY <1>4, <2>1 DEF ProcFnResolved
  <2>2. ASSUME NEW err \in Errors, ProcFnGaveUp(q, err)
        PROVE  Fifo!Settle(q, "rejected")
    BY <1>4, <2>2 DEF ProcFnGaveUp
  <2> QED
    BY <1>5, <2>1, <2>2 DEF Chain, CallProcFn, ProcFnRejected, ProcFnWillRetry, BackoffElapsed
<1>6. CASE UNCHANGED schedVars
  BY <1>6 DEF schedVars
<1> QED
  BY <1>1, <1>2, <1>3, <1>5, <1>6 DEF SchedNext

\* No event is queued twice or in a foreign queue, and somebody waits for every queued one.
THEOREM QueuedEventsArePending == SchedSpec => []QueuedOnceAndPending
<1>1. IInv => QueuedOnceAndPending
  BY DEF IInv
<1> QED
  BY <1>1, SchedulerInvariant, PTL

\* The scheduler, with its chains, timers and retries, implements the FIFO that
\* the queue algorithm's documentation promises: "serviced in a FIFO manner".
THEOREM SchedulerImplementsFifo == SchedSpec => ImplementsFifo
<1>1. SchedInit => Fifo!Init
  BY DEF SchedInit, SchedIdle, Fifo!Init
<1>2. IInv /\ [SchedNext]_schedVars => [Fifo!Next]_(Fifo!vars)
  BY StepRefines
<1> QED
  BY <1>1, <1>2, SchedulerInvariant, PTL DEF SchedSpec, ImplementsFifo, Fifo!Spec
==============================================================================
