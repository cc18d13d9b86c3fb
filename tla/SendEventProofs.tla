--------------------------- MODULE SendEventProofs ---------------------------
(***************************************************************************)
(* Theorems about sending, for any events, queues, relations and           *)
(* encrypted rooms: its types, four of its safety properties, and that the *)
(* client drives the scheduler as a FIFO.                                  *)
(*                                                                         *)
(* In the client the entry a chain holds need not be the head of its       *)
(* queue: cancelPendingEvent may take it away between the peek and the     *)
(* microtask that calls the process function.  Such an entry is Forgotten: *)
(* it was only queued, so it has no failed attempt and no request, the     *)
(* process function throws on its status, and a first failure is retried   *)
(* as long as one is allowed.  A chain therefore shifts its queue only     *)
(* while it holds the head (ChainOK).                                      *)
(*                                                                         *)
(* EventOK ties an event's status to the promise chain of its send: only   *)
(* an awaited event is queued or on the wire, and an event that is shown   *)
(* as unsent or sent has no chain left.                                    *)
(***************************************************************************)
EXTENDS SendEvent, TLAPS

\* The events in a queue, and that none of them is in it twice.
Elems(s) == {s[i] : i \in 1..Len(s)}
Distinct(s) == \A i, j \in 1..Len(s) : s[i] = s[j] => i = j

\* The statuses of an event the room shows as a local echo.
LocalEcho == {"encrypting", "sending", "queued", "not_sent", "sent"}

\* Its request is out, or has been answered.
OnWire(e) == request[e] \in {"open", "replied"}

\* The chain of q holds the head of its queue.
HoldsHead(q) == queues[q] # <<>> /\ held[q] = Head(queues[q])

\* A cancelled event that a chain had peeked at.
Forgotten(e) ==
  /\ status[e] \in {"cancelled", "echoed"}
  /\ attempts[e] = 0
  /\ ~OnWire(e)
  /\ e \notin Elems(queues[QueueOf[e]])

\* A queue with events has a chain, and somebody waits for each of them.
QueueOK(q) ==
  /\ q \in activeQueues <=> at[q] # "idle"
  /\ queues[q] # <<>> => q \in activeQueues
  /\ Distinct(queues[q])
  /\ \A e \in Elems(queues[q]) :
       QueueOf[e] = q /\ defer[e] = "pending" /\ status[e] # "cancelled"

\* What a suspended chain holds.
ChainOK(q) ==
  IF at[q] \in {"called", "sending"}
  THEN /\ held[q] \in Events
       /\ QueueOf[held[q]] = q
       /\ defer[held[q]] = "pending"
       /\ HoldsHead(q) \/ Forgotten(held[q])
       /\ at[q] = "sending" => status[held[q]] \notin {"queued", "not_sent"}
  ELSE held[q] = NoEvent

\* What the status of an event says about its send and its request.
EventOK(e) ==
  /\ flow[e] = "encrypting" => e \in Encrypted
  /\ status[e] \in {"none", "not_sent", "sent"} => flow[e] = "none"
  /\ status[e] = "cancelled" => flow[e] \in {"none", "awaiting"}
  /\ status[e] = "queued" => flow[e] = "awaiting" /\ QueueOf[e] # NoQueue /\ attempts[e] = 0
  /\ OnWire(e) => flow[e] = "awaiting" /\ status[e] # "cancelled"
  /\ QueueOf[e] # NoQueue => (flow[e] = "awaiting" <=> defer[e] = "pending")
  /\ QueueOf[e] # NoQueue /\ OnWire(e) =>
       at[QueueOf[e]] = "sending" /\ held[QueueOf[e]] = e /\ HoldsHead(QueueOf[e])

Agree ==
  /\ \A q \in Queues : QueueOK(q) /\ ChainOK(q)
  /\ \A e \in Events : EventOK(e)

IInv == SendTypeOK /\ procFn /\ PendingListMatchesStatus /\ Agree
-----------------------------------------------------------------------------
LEMMA RemovedFrom ==
  ASSUME NEW s \in Seq(Events), NEW i \in 1..Len(s), Distinct(s)
  PROVE  /\ RemoveAt(s, i) \in Seq(Events)
         /\ Distinct(RemoveAt(s, i))
         /\ Elems(RemoveAt(s, i)) = Elems(s) \ {s[i]}
         /\ i # 1 => RemoveAt(s, i) # <<>> /\ Head(RemoveAt(s, i)) = Head(s)
<1> DEFINE t == RemoveAt(s, i)
           old(m) == IF m < i THEN m ELSE m + 1
           new(m) == IF m < i THEN m ELSE m - 1
<1>1. /\ t \in Seq(Events)
      /\ Len(t) = Len(s) - 1
      /\ \A j \in 1..(Len(s) - 1) : t[j] = IF j < i THEN s[j] ELSE s[j + 1]
  <2> DEFINE front == SubSeq(s, 1, i - 1)
             back  == SubSeq(s, i + 1, Len(s))
  <2>1. /\ front \in Seq(Events)
        /\ Len(front) = i - 1
        /\ \A j \in 1..(i - 1) : front[j] = s[j]
    OBVIOUS
  <2>2. /\ back \in Seq(Events)
        /\ Len(back) = Len(s) - i
        /\ \A j \in 1..(Len(s) - i) : back[j] = s[i + j]
    OBVIOUS
  <2>3. t = front \o back
    BY DEF RemoveAt
  <2> HIDE DEF front, back, t
  <2>4. t \in Seq(Events) /\ Len(t) = Len(s) - 1
    BY <2>1, <2>2, <2>3
  <2>5. ASSUME NEW j \in 1..(Len(s) - 1)
        PROVE  t[j] = IF j < i THEN s[j] ELSE s[j + 1]
    <3>1. CASE j < i
      BY <2>1, <2>2, <2>3, <3>1
    <3>2. CASE ~(j < i)
      <4>1. t[j] = back[j - (i - 1)]
        BY <2>1, <2>2, <2>3, <3>2
      <4>2. j - (i - 1) \in 1..(Len(s) - i) /\ i + (j - (i - 1)) = j + 1
        BY <3>2
      <4> QED
        BY <2>2, <3>2, <4>1, <4>2
    <3> QED
      BY <3>1, <3>2
  <2> QED
    BY <2>4, <2>5
<1> HIDE DEF t
<1>2. \A j \in 1..Len(t) : old(j) \in 1..Len(s) /\ old(j) # i /\ t[j] = s[old(j)]
  BY <1>1
<1>3. \A m \in 1..Len(s) : m # i => new(m) \in 1..Len(t) /\ t[new(m)] = s[m]
  BY <1>1
<1>4. Distinct(t)
  <2>1. ASSUME NEW j \in 1..Len(t), NEW k \in 1..Len(t), t[j] = t[k]
        PROVE  j = k
    <3>1. s[old(j)] = s[old(k)] /\ old(j) \in 1..Len(s) /\ old(k) \in 1..Len(s)
      BY <1>2, <2>1
    <3>2. old(j) = old(k)
      BY <3>1 DEF Distinct
    <3> QED
      BY <1>1, <3>2
  <2> QED
    BY <2>1 DEF Distinct
<1>5. Elems(t) = Elems(s) \ {s[i]}
  <2>1. ASSUME NEW x \in Elems(t)
        PROVE  x \in Elems(s) \ {s[i]}
    <3>1. PICK j \in 1..Len(t) : x = t[j]
      BY <2>1 DEF Elems
    <3>2. x = s[old(j)] /\ old(j) \in 1..Len(s) /\ old(j) # i
      BY <1>2, <3>1
    <3>3. x # s[i]
      BY <3>2 DEF Distinct
    <3> QED
      BY <3>2, <3>3 DEF Elems
  <2>2. ASSUME NEW x \in Elems(s), x # s[i]
        PROVE  x \in Elems(t)
    <3>1. PICK m \in 1..Len(s) : x = s[m]
      BY <2>2 DEF Elems
    <3>2. m # i
      BY <2>2, <3>1
    <3>3. new(m) \in 1..Len(t) /\ t[new(m)] = x
      BY <1>3, <3>1, <3>2
    <3> QED
      BY <3>3 DEF Elems
  <2> QED
    BY <2>1, <2>2
<1>6. ASSUME i # 1
      PROVE  t # <<>> /\ Head(t) = Head(s)
  <2>1. Len(t) >= 1 /\ 1 < i
    BY <1>1, <1>6
  <2>2. t[1] = s[1]
    BY <1>1, <2>1
  <2> QED
    BY <1>1, <2>1, <2>2
<1> QED
  BY <1>1, <1>4, <1>5, <1>6 DEF t

LEMMA Shifted ==
  ASSUME NEW s \in Seq(Events), s # <<>>, Distinct(s)
  PROVE  /\ Shift(s) \in Seq(Events)
         /\ Shift(s) = Tail(s)
         /\ Distinct(Shift(s))
         /\ Elems(Shift(s)) = Elems(s) \ {Head(s)}
         /\ Head(s) \in Elems(s)
<1> DEFINE t == Shift(s)
<1>1. /\ t \in Seq(Events)
      /\ t = Tail(s)
      /\ Len(t) = Len(s) - 1
      /\ \A j \in 1..(Len(s) - 1) : t[j] = s[j + 1]
      /\ Head(s) = s[1]
  BY DEF Shift
<1> HIDE DEF t
<1>2. 1 \in 1..Len(s) /\ Len(s) \in Nat
  OBVIOUS
<1>3. \A j \in 1..Len(t) : j + 1 \in 1..Len(s) /\ t[j] = s[j + 1]
  BY <1>1, <1>2
<1>4. Distinct(t)
  <2>1. ASSUME NEW j \in 1..Len(t), NEW k \in 1..Len(t), t[j] = t[k]
        PROVE  j = k
    <3>1. j + 1 = k + 1
      BY <1>3, <2>1 DEF Distinct
    <3> QED
      BY <3>1
  <2> QED
    BY <2>1 DEF Distinct
<1>5. Elems(t) = Elems(s) \ {Head(s)}
  <2>1. ASSUME NEW x \in Elems(t)
        PROVE  x \in Elems(s) \ {s[1]}
    <3>1. PICK j \in 1..Len(t) : x = t[j]
      BY <2>1 DEF Elems
    <3>2. x = s[j + 1] /\ j + 1 \in 1..Len(s) /\ j + 1 # 1
      BY <1>3, <3>1
    <3>3. x # s[1]
      BY <1>2, <3>2 DEF Distinct
    <3> QED
      BY <3>2, <3>3 DEF Elems
  <2>2. ASSUME NEW x \in Elems(s), x # s[1]
        PROVE  x \in Elems(t)
    <3>1. PICK m \in 1..Len(s) : x = s[m]
      BY <2>2 DEF Elems
    <3>2. m - 1 \in 1..Len(t) /\ t[m - 1] = x
      <4>1. m # 1
        BY <2>2, <3>1
      <4>2. m - 1 \in 1..(Len(s) - 1) /\ (m - 1) + 1 = m
        BY <1>2, <4>1
      <4> QED
        BY <1>1, <3>1, <4>2
    <3> QED
      BY <3>2 DEF Elems
  <2> QED
    BY <1>1, <2>1, <2>2
<1>6. Head(s) \in Elems(s)
  BY <1>1, <1>2 DEF Elems
<1> QED
  BY <1>1, <1>4, <1>5, <1>6 DEF t

LEMMA Appended ==
  ASSUME NEW s \in Seq(Events), NEW e \in Events, Distinct(s), e \notin Elems(s)
  PROVE  /\ Append(s, e) \in Seq(Events)
         /\ Append(s, e) # <<>>
         /\ Distinct(Append(s, e))
         /\ Elems(Append(s, e)) = Elems(s) \union {e}
         /\ s # <<>> => Head(Append(s, e)) = Head(s)
         /\ s = <<>> => Head(Append(s, e)) = e
<1> DEFINE t == Append(s, e)
           n == Len(s)
<1>1. /\ t \in Seq(Events) /\ t # <<>>
      /\ n \in Nat /\ Len(t) = n + 1
      /\ \A j \in 1..n : t[j] = s[j]
      /\ t[n + 1] = e
      /\ Head(t) = t[1]
  OBVIOUS
<1>h. /\ s # <<>> => Head(t) = Head(s)
      /\ s = <<>> => Head(t) = e
  OBVIOUS
<1> HIDE DEF t, n
<1>2. \A j \in 1..n : s[j] \in Elems(s)
  BY DEF Elems, n
<1>3. Distinct(t)
  <2>1. ASSUME NEW j \in 1..(n + 1), NEW k \in 1..(n + 1), t[j] = t[k]
        PROVE  j = k
    <3>1. CASE j \in 1..n /\ k \in 1..n
      BY <1>1, <2>1, <3>1 DEF Distinct, n
    <3>2. CASE j = n + 1 \/ k = n + 1
      BY <1>1, <1>2, <2>1, <3>2
    <3> QED
      BY <1>1, <3>1, <3>2
  <2> QED
    BY <1>1, <2>1 DEF Distinct
<1>4. Elems(t) = Elems(s) \union {e}
  <2>1. ASSUME NEW x \in Elems(t)
        PROVE  x \in Elems(s) \union {e}
    <3>1. PICK j \in 1..(n + 1) : x = t[j]
      BY <1>1, <2>1 DEF Elems
    <3>2. j \in 1..n \/ j = n + 1
      BY <1>1
    <3> QED
      BY <1>1, <1>2, <3>1, <3>2
  <2>2. ASSUME NEW x \in Elems(s)
        PROVE  x \in Elems(t)
    <3>1. PICK j \in 1..n : x = s[j]
      BY <2>2 DEF Elems, n
    <3>2. j \in 1..Len(t) /\ x = t[j]
      BY <1>1, <3>1
    <3> QED
      BY <3>2 DEF Elems
  <2>3. e \in Elems(t)
    <3>1. n + 1 \in 1..Len(t)
      BY <1>1
    <3> QED
      BY <1>1, <3>1 DEF Elems
  <2> QED
    BY <2>1, <2>2, <2>3
<1> QED
  BY <1>1, <1>h, <1>3, <1>4 DEF t
-----------------------------------------------------------------------------
\* A step of the client that leaves the scheduler and the wire alone.  While
\* somebody awaits the event its status can only become that of its echo.
LEMMA ClientStepKeeps ==
  ASSUME IInv, UNCHANGED schedVars, UNCHANGED request,
         NEW e \in Events,
         \A d \in Events : d # e => status'[d] = status[d] /\ flow'[d] = flow[d],
         flow'[e] = "encrypting" => e \in Encrypted,
         flow'[e] = "awaiting" <=> flow[e] = "awaiting",
         flow[e] = "awaiting" => status'[e] \in {status[e], "echoed"},
         status'[e] \in {"none", "not_sent", "sent"} => flow'[e] = "none",
         status'[e] \in {"cancelled", "queued"} => status'[e] = status[e] /\ flow'[e] = flow[e]
  PROVE  Agree'
<1>1. \A d \in Events : d # e => status'[d] = status[d] /\ flow'[d] = flow[d]
  OBVIOUS
<1>2. ASSUME NEW q \in Queues
      PROVE  QueueOK(q)' /\ ChainOK(q)'
  <2>1. QueueOK(q) /\ ChainOK(q)
    BY DEF IInv, Agree
  <2>2. QueueOK(q)'
    <3>1. Elems(queues[q]) \subseteq Events
      BY DEF IInv, SendTypeOK, SchedTypeOK, Elems
    <3>2. ASSUME NEW d \in Elems(queues[q])
          PROVE  status'[d] # "cancelled"
      BY <1>1, <2>1, <3>1 DEF QueueOK
    <3> QED
      BY <2>1, <3>2 DEF QueueOK, schedVars
  <2>3. ChainOK(q)'
    <3>1. CASE at[q] \in {"called", "sending"}
      <4>1. /\ held[q] \in Events /\ QueueOf[held[q]] = q /\ defer[held[q]] = "pending"
            /\ HoldsHead(q) \/ Forgotten(held[q])
            /\ at[q] = "sending" => status[held[q]] \notin {"queued", "not_sent"}
        BY <2>1, <3>1 DEF ChainOK
      <4>2. flow[held[q]] = "awaiting"
        BY <4>1, SchedulerAssumption DEF IInv, Agree, EventOK
      <4>3. status'[held[q]] \in {status[held[q]], "echoed"}
        BY <1>1, <4>1, <4>2
      <4>4. Forgotten(held[q]) => Forgotten(held[q])'
        BY <4>3 DEF Forgotten, OnWire, schedVars
      <4> QED
        BY <3>1, <4>1, <4>3, <4>4 DEF ChainOK, HoldsHead, schedVars
    <3>2. CASE at[q] \notin {"called", "sending"}
      BY <2>1, <3>2 DEF ChainOK, schedVars
    <3> QED
      BY <3>1, <3>2
  <2> QED
    BY <2>2, <2>3
<1>3. ASSUME NEW d \in Events
      PROVE  EventOK(d)'
  <2>1. EventOK(d)
    BY DEF IInv, Agree
  <2>2. CASE d # e
    BY <1>1, <2>1, <2>2 DEF EventOK, OnWire, HoldsHead, schedVars
  <2>3. CASE d = e
    BY <1>1, <2>1, <2>3 DEF EventOK, OnWire, HoldsHead, schedVars
  <2> QED
    BY <2>2, <2>3
<1> QED
  BY <1>2, <1>3 DEF Agree

\* The chain goes on after an outcome: the entry it shifts is the one it held.
LEMMA SettleKeeps ==
  ASSUME IInv, NEW q \in Queues, at[q] = "sending", HoldsHead(q),
         NEW result \in {"resolved", "rejected"},
         queues' = [queues EXCEPT ![q] = Shift(@)],
         defer' = [defer EXCEPT ![held[q]] = result],
         flow' = [flow EXCEPT ![held[q]] = result],
         \A d \in Events : d # held[q] => attempts'[d] = attempts[d] /\ request'[d] = request[d],
         request'[held[q]] \notin {"open", "replied"},
         ProcessQueue(q, queues'), UNCHANGED status
  PROVE  /\ Agree'
         /\ queues' \in [Queues -> Seq(Events)]
         /\ defer' \in [Events -> {"none", "pending", "resolved", "rejected"}]
         /\ flow' \in [Events -> Flows]
         /\ activeQueues' \in SUBSET Queues
         /\ at' \in [Queues -> {"idle", "called", "sending", "backoff"}]
         /\ held' \in [Queues -> Events \union {NoEvent}]
<1>1. /\ queues \in [Queues -> Seq(Events)]
      /\ activeQueues \in SUBSET Queues
      /\ at \in [Queues -> {"idle", "called", "sending", "backoff"}]
      /\ held \in [Queues -> Events \union {NoEvent}]
      /\ defer \in [Events -> {"none", "pending", "resolved", "rejected"}]
      /\ flow \in [Events -> Flows]
      /\ status \in [Events -> Statuses]
  BY DEF IInv, SendTypeOK, SchedTypeOK
<1>2. /\ \A r \in Queues : QueueOK(r) /\ ChainOK(r)
      /\ \A d \in Events : EventOK(d)
  BY DEF IInv, Agree
<1>a. held[q] \in Events
  BY <1>2 DEF ChainOK
<1>b. PICK e \in Events : e = held[q]
  BY <1>a
<1>3. /\ QueueOf[e] = q /\ defer[e] = "pending"
      /\ status[e] \notin {"queued", "not_sent"}
      /\ queues[q] # <<>> /\ e = Head(queues[q]) /\ queues[q] \in Seq(Events)
      /\ Distinct(queues[q])
  BY <1>1, <1>2, <1>b DEF ChainOK, HoldsHead, QueueOK
<1>4. /\ Shift(queues[q]) \in Seq(Events)
      /\ Distinct(Shift(queues[q]))
      /\ Elems(Shift(queues[q])) = Elems(queues[q]) \ {e}
      /\ e \in Elems(queues[q])
  BY <1>3, Shifted
<1>5. /\ queues' \in [Queues -> Seq(Events)] /\ queues'[q] = Shift(queues[q])
      /\ \A r \in Queues : r # q => queues'[r] = queues[r]
  BY <1>1, <1>4
<1>6. /\ \A d \in Events : defer'[d] = IF d = e THEN result ELSE defer[d]
      /\ \A d \in Events : flow'[d] = IF d = e THEN result ELSE flow[d]
      /\ defer' \in [Events -> {"none", "pending", "resolved", "rejected"}]
      /\ flow' \in [Events -> Flows]
  BY <1>1, <1>b DEF Flows
<1>7. queues'[q] # <<>> => Head(queues'[q]) \in Events /\ Head(queues'[q]) \in Elems(queues'[q])
  <2>1. ASSUME queues'[q] # <<>>
        PROVE  1 \in 1..Len(queues'[q]) /\ Head(queues'[q]) = queues'[q][1]
    BY <1>4, <1>5, <2>1
  <2> QED
    BY <1>4, <1>5, <2>1 DEF Elems
<1>8. /\ at'[q] = IF queues'[q] = <<>> THEN "idle" ELSE "called"
      /\ held'[q] = IF queues'[q] = <<>> THEN NoEvent ELSE Head(queues'[q])
      /\ q \in activeQueues' <=> queues'[q] # <<>>
      /\ \A r \in Queues : r # q => at'[r] = at[r] /\ held'[r] = held[r]
                                  /\ (r \in activeQueues' <=> r \in activeQueues)
      /\ activeQueues' \in SUBSET Queues
      /\ at' \in [Queues -> {"idle", "called", "sending", "backoff"}]
      /\ held' \in [Queues -> Events \union {NoEvent}]
  <2>1. q \in activeQueues
    BY <1>2 DEF QueueOK
  <2>a. activeQueues' \in SUBSET Queues
    BY <1>1 DEF ProcessQueue
  <2>b. at' \in [Queues -> {"idle", "called", "sending", "backoff"}]
    <3>1. \/ at' = [at EXCEPT ![q] = "idle"]
          \/ at' = [at EXCEPT ![q] = "called"]
      BY DEF ProcessQueue
    <3>2. at \in [Queues -> {"idle", "called", "sending", "backoff"}]
      BY <1>1
    <3> QED
      BY <3>1, <3>2
  <2>c. held' \in [Queues -> Events \union {NoEvent}]
    BY <1>1, <1>7 DEF ProcessQueue
  <2>3. /\ at'[q] = IF queues'[q] = <<>> THEN "idle" ELSE "called"
        /\ held'[q] = IF queues'[q] = <<>> THEN NoEvent ELSE Head(queues'[q])
        /\ q \in activeQueues' <=> queues'[q] # <<>>
        /\ \A r \in Queues : r # q => at'[r] = at[r] /\ held'[r] = held[r]
                                    /\ (r \in activeQueues' <=> r \in activeQueues)
    BY <1>1, <2>1 DEF ProcessQueue
  <2> QED
    BY <2>a, <2>b, <2>c, <2>3
<1>9. ASSUME NEW r \in Queues
      PROVE  QueueOK(r)'
  <2>1. CASE r # q
    <3>1. ASSUME NEW d \in Elems(queues[r])
          PROVE  d # e /\ d \in Events
      BY <1>1, <1>2, <1>3, <2>1 DEF QueueOK, Elems
    <3>2. queues'[r] = queues[r] /\ at'[r] = at[r] /\ (r \in activeQueues' <=> r \in activeQueues)
      BY <1>5, <1>8, <2>1
    <3> QED
      BY <1>2, <1>6, <3>1, <3>2 DEF QueueOK
  <2>2. CASE r = q
    <3>1. ASSUME NEW d \in Elems(queues'[q])
          PROVE  /\ d \in Elems(queues[q]) /\ d # e
                 /\ QueueOf[d] = q /\ defer'[d] = "pending" /\ status'[d] # "cancelled"
      <4>0. d \in Elems(queues[q]) /\ d # e
        BY <1>4, <1>5, <3>1
      <4>1. d \in Elems(queues[q]) /\ d # e /\ d \in Events
        BY <1>3, <4>0 DEF Elems
      <4> QED
        BY <1>2, <1>6, <4>1 DEF QueueOK
    <3>2. Distinct(queues'[q])
      BY <1>4, <1>5
    <3>3. /\ q \in activeQueues' <=> at'[q] # "idle"
          /\ queues'[q] # <<>> => q \in activeQueues'
      BY <1>8
    <3>4. QueueOK(q)'
      BY <3>1, <3>2, <3>3 DEF QueueOK
    <3> QED
      BY <2>2, <3>4
  <2> QED
    BY <2>1, <2>2
<1>10. ASSUME NEW r \in Queues
       PROVE  ChainOK(r)'
  <2>1. CASE r # q
    <3>1. queues'[r] = queues[r] /\ at'[r] = at[r] /\ held'[r] = held[r] /\ ChainOK(r)
      BY <1>2, <1>5, <1>8, <2>1
    <3>2. CASE at[r] \in {"called", "sending"}
      <4>1. held[r] \in Events /\ QueueOf[held[r]] = r /\ held[r] # e
        BY <1>3, <2>1, <3>1, <3>2 DEF ChainOK
      <4>2. Forgotten(held[r]) => Forgotten(held[r])'
        BY <3>1, <4>1, <1>1, <1>b DEF Forgotten, OnWire
      <4> QED
        BY <1>6, <3>1, <3>2, <4>1, <4>2 DEF ChainOK, HoldsHead
    <3>3. CASE at[r] \notin {"called", "sending"}
      BY <3>1, <3>3 DEF ChainOK
    <3> QED
      BY <3>2, <3>3
  <2>2. CASE r = q
    <3>1. CASE queues'[q] = <<>>
      BY <1>8, <2>2, <3>1 DEF ChainOK
    <3>2. CASE queues'[q] # <<>>
      <4>1. /\ held'[q] = Head(queues'[q]) /\ at'[q] = "called"
            /\ held'[q] \in Events /\ held'[q] \in Elems(queues'[q])
        BY <1>7, <1>8, <3>2
      <4>2. QueueOf[held'[q]] = q /\ defer'[held'[q]] = "pending"
        BY <1>9, <4>1 DEF QueueOK
      <4> QED
        BY <2>2, <3>2, <4>1, <4>2 DEF ChainOK, HoldsHead
    <3> QED
      BY <3>1, <3>2
  <2> QED
    BY <2>1, <2>2
<1>11. ASSUME NEW d \in Events
       PROVE  EventOK(d)'
  <2>1. EventOK(d)
    BY <1>2
  <2>2. CASE d = e
    <3>1. status[e] \notin {"none", "not_sent", "sent", "cancelled", "queued"}
      <4>1. flow[e] = "awaiting" /\ EventOK(e)
        BY <1>2, <1>3, SchedulerAssumption DEF EventOK
      <4>2. status[e] # "cancelled"
        BY <1>2, <1>3, <1>4 DEF QueueOK
      <4> QED
        BY <1>3, <4>1, <4>2 DEF EventOK
    <3>2. flow'[e] = result /\ defer'[e] = result /\ ~OnWire(e)'
      BY <1>3, <1>6, <1>b DEF OnWire
    <3> QED
      BY <2>2, <3>1, <3>2 DEF EventOK
  <2>3. CASE d # e
    <3>1. /\ flow'[d] = flow[d] /\ defer'[d] = defer[d] /\ attempts'[d] = attempts[d]
          /\ request'[d] = request[d]
      BY <1>6, <1>b, <2>3
    <3>2. ASSUME QueueOf[d] # NoQueue, OnWire(d)
          PROVE  /\ at'[QueueOf[d]] = "sending" /\ held'[QueueOf[d]] = d
                 /\ HoldsHead(QueueOf[d])'
      <4>1. /\ QueueOf[d] \in Queues /\ at[QueueOf[d]] = "sending"
            /\ held[QueueOf[d]] = d /\ HoldsHead(QueueOf[d])
        BY <2>1, <3>2, SchedulerAssumption DEF EventOK
      <4>2. QueueOf[d] # q
        BY <1>b, <2>3, <4>1
      <4> QED
        BY <1>5, <1>8, <4>1, <4>2 DEF HoldsHead
    <3>3. OnWire(d)' <=> OnWire(d)
      BY <3>1 DEF OnWire
    <3> QED
      BY <2>1, <3>1, <3>2, <3>3 DEF EventOK
  <2> QED
    BY <2>2, <2>3
<1> QED
  BY <1>5, <1>6, <1>8, <1>9, <1>10, <1>11 DEF Agree
-----------------------------------------------------------------------------
\* A status update other than a cancellation: the event stays, or stays not, one
\* that the room shows as a local echo.
LEMMA UpdateStatusStep ==
  ASSUME IInv, NEW e \in Events,
         NEW new \in {"encrypting", "sending", "queued", "not_sent", "sent"},
         UpdateStatus(e, new)
  PROVE  /\ status' \in [Events -> Statuses]
         /\ \A d \in Events : d # e => status'[d] = status[d]
         /\ status'[e] \in {status[e], new}
         /\ status[e] \in {"none", "sent", "cancelled", "echoed"} => status'[e] = status[e]
         /\ status[e] \in LocalEcho <=> status'[e] \in LocalEcho
<1>1. status \in [Events -> Statuses]
  BY DEF IInv, SendTypeOK
<1>2. new \in Statuses /\ new \in LocalEcho
  BY DEF Statuses, LocalEcho
<1>3. Legal(e, new) => status[e] \in {"encrypting", "sending", "queued", "not_sent"}
  BY DEF Legal, AllowedTransitions
<1>4. status' = [status EXCEPT ![e] = IF Legal(e, new) THEN new ELSE @]
  BY DEF UpdateStatus
<1>5. CASE Legal(e, new)
  BY <1>1, <1>2, <1>3, <1>4, <1>5 DEF LocalEcho
<1>6. CASE ~Legal(e, new)
  BY <1>1, <1>2, <1>4, <1>6
<1> QED
  BY <1>5, <1>6

\* The pending list follows a step that moves no event into or out of it.
LEMMA SamePendingList ==
  ASSUME PendingListMatchesStatus, UNCHANGED pendingEventList,
         NEW e \in Events,
         \A d \in Events : d # e => status'[d] = status[d],
         status[e] \in LocalEcho <=> status'[e] \in LocalEcho
  PROVE  PendingListMatchesStatus'
  BY DEF PendingListMatchesStatus, LocalEcho

LEMMA SendEventKeeps ==
  ASSUME IInv, NEW e \in Events, SendEvent(e)
  PROVE  IInv'
<1>1. /\ status[e] = "none" /\ EventOK(e)
      /\ status \in [Events -> Statuses] /\ flow \in [Events -> Flows]
  BY DEF IInv, SendEvent, SendTypeOK, Agree
<1>2. PICK s, f : /\ <<s, f>> \in {<<"not_sent", "none">>, <<"sending", "start">>}
                  /\ status' = [status EXCEPT ![e] = s]
                  /\ flow' = [flow EXCEPT ![e] = f]
  BY DEF SendEvent
<1>3. /\ status' \in [Events -> Statuses] /\ flow' \in [Events -> Flows]
      /\ \A d \in Events : d # e => status'[d] = status[d] /\ flow'[d] = flow[d]
      /\ status'[e] = s /\ flow'[e] = f /\ flow[e] = "none"
  BY <1>1, <1>2 DEF Statuses, Flows, EventOK
<1>4. Agree'
  BY <1>1, <1>2, <1>3, ClientStepKeeps DEF SendEvent
<1>5. SendTypeOK'
  <2>1. SchedTypeOK'
    BY DEF IInv, SendTypeOK, SchedTypeOK, SendEvent, schedVars
  <2>2. RelatesTo[e] # NoEvent \/ localRef' = localRef
    BY SchedulerAssumption DEF IInv, SendTypeOK, SendEvent
  <2> QED
    BY <1>3, <2>1, <2>2 DEF IInv, SendTypeOK, SendEvent
<1>6. PendingListMatchesStatus'
  BY <1>2, <1>3 DEF IInv, PendingListMatchesStatus, SendEvent
<1> QED
  BY <1>4, <1>5, <1>6 DEF IInv, SendEvent, schedVars

\* A step of one event that leaves the scheduler and the request of every event.
LEMMA FlowStepKeeps ==
  ASSUME IInv, UNCHANGED <<schedVars, request, pendingEventList, txnToEvent, timeline, server>>,
         localId' \subseteq Events, localRef' \subseteq localRef, encrypted' \subseteq Encrypted,
         NEW e \in Events, NEW f \in Flows,
         flow[e] # "awaiting", f # "awaiting", f = "encrypting" => e \in Encrypted,
         flow' = [flow EXCEPT ![e] = f],
         status' \in [Events -> Statuses],
         \A d \in Events : d # e => status'[d] = status[d],
         status[e] \in LocalEcho <=> status'[e] \in LocalEcho,
         status'[e] \in {"none", "not_sent", "sent"} => f = "none",
         status'[e] \in {"cancelled", "queued"} => status'[e] = status[e] /\ f = flow[e]
  PROVE  IInv'
<1>1. /\ flow' \in [Events -> Flows] /\ flow'[e] = f
      /\ \A d \in Events : d # e => flow'[d] = flow[d]
  BY DEF IInv, SendTypeOK
<1>2. Agree'
  BY <1>1, ClientStepKeeps
<1>3. SchedTypeOK'
  BY DEF IInv, SendTypeOK, SchedTypeOK, schedVars
<1>4. SendTypeOK'
  BY <1>1, <1>3 DEF IInv, SendTypeOK
<1>5. PendingListMatchesStatus'
  BY SamePendingList DEF IInv
<1> QED
  BY <1>2, <1>4, <1>5 DEF IInv, schedVars

LEMMA ResendEventKeeps ==
  ASSUME IInv, NEW e \in Events, ResendEvent(e)
  PROVE  IInv'
<1>1. /\ status[e] = "not_sent" /\ EventOK(e) /\ UpdateStatus(e, "sending")
      /\ localId \subseteq Events /\ encrypted \subseteq Encrypted
  BY DEF IInv, ResendEvent, Agree, SendTypeOK
<1>2. /\ status' \in [Events -> Statuses]
      /\ \A d \in Events : d # e => status'[d] = status[d]
      /\ status[e] \in LocalEcho <=> status'[e] \in LocalEcho
  BY <1>1, UpdateStatusStep
<1>3. status'[e] = "sending"
  BY <1>1 DEF UpdateStatus, Legal, AllowedTransitions, IInv, SendTypeOK
<1>4. flow[e] = "none" /\ "start" \in Flows
  BY <1>1 DEF EventOK, Flows
<1> QED
  BY <1>1, <1>2, <1>3, <1>4, FlowStepKeeps DEF ResendEvent

LEMMA StartSendKeeps ==
  ASSUME IInv, NEW e \in Events, StartSend(e)
  PROVE  IInv'
<1>1. /\ flow[e] = "start" /\ EventOK(e)
      /\ localId \subseteq Events /\ encrypted \subseteq Encrypted /\ status \in [Events -> Statuses]
  BY DEF IInv, StartSend, Agree, SendTypeOK
<1>2. status[e] \notin {"none", "not_sent", "sent", "cancelled", "queued"}
  BY <1>1 DEF EventOK
<1>3. CASE NeedsEncryption(e)
  <2>1. UpdateStatus(e, "encrypting") /\ flow' = [flow EXCEPT ![e] = "encrypting"]
    BY <1>3 DEF StartSend
  <2>2. /\ status' \in [Events -> Statuses]
        /\ \A d \in Events : d # e => status'[d] = status[d]
        /\ status[e] \in LocalEcho <=> status'[e] \in LocalEcho
        /\ status'[e] \in {status[e], "encrypting"}
    BY <2>1, UpdateStatusStep
  <2>3. "encrypting" \in Flows /\ e \in Encrypted
    BY <1>3 DEF Flows, NeedsEncryption
  <2> QED
    BY <1>1, <1>2, <2>1, <2>2, <2>3, FlowStepKeeps DEF StartSend
<1>4. CASE ~NeedsEncryption(e)
  <2>1. UNCHANGED status /\ flow' = [flow EXCEPT ![e] = "enqueue"]
    BY <1>4 DEF StartSend
  <2>2. "enqueue" \in Flows
    BY DEF Flows
  <2> QED
    BY <1>1, <1>2, <2>1, <2>2, FlowStepKeeps DEF StartSend
<1> QED
  BY <1>3, <1>4

LEMMA EncryptionKeeps ==
  ASSUME IInv, NEW e \in Events, Encryption(e)
  PROVE  IInv'
<1>1. /\ flow[e] = "encrypting" /\ EventOK(e) /\ localId \subseteq Events
      /\ encrypted \subseteq Encrypted /\ status \in [Events -> Statuses]
  BY DEF IInv, Encryption, EncryptionDone, EncryptionFailed, Agree, SendTypeOK
<1>2. status[e] \notin {"none", "not_sent", "sent", "cancelled", "queued"}
  BY <1>1 DEF EventOK
<1>3. "enqueue" \in Flows /\ "rejected" \in Flows
  BY DEF Flows
<1>4. CASE EncryptionDone(e)
  <2>1. /\ status' \in [Events -> Statuses]
        /\ \A d \in Events : d # e => status'[d] = status[d]
        /\ status[e] \in LocalEcho <=> status'[e] \in LocalEcho
        /\ status'[e] \in {status[e], "sending"}
    BY <1>4, UpdateStatusStep DEF EncryptionDone
  <2>2. e \in Encrypted
    BY <1>1 DEF EventOK
  <2> QED
    BY <1>1, <1>2, <1>3, <1>4, <2>1, <2>2, FlowStepKeeps DEF EncryptionDone
<1>5. CASE EncryptionFailed(e)
  BY <1>1, <1>2, <1>3, <1>5, FlowStepKeeps DEF EncryptionFailed
<1> QED
  BY <1>4, <1>5 DEF Encryption

LEMMA HandleSentKeeps ==
  ASSUME IInv, NEW e \in Events, HandleSent(e)
  PROVE  IInv'
<1>1. /\ flow[e] = "resolved" /\ EventOK(e) /\ localId \subseteq Events
      /\ encrypted \subseteq Encrypted /\ status \in [Events -> Statuses]
  BY DEF IInv, HandleSent, Agree, SendTypeOK
<1>2. status[e] \notin {"none", "not_sent", "sent", "cancelled", "queued"}
  BY <1>1 DEF EventOK
<1>3. "none" \in Flows
  BY DEF Flows
<1>4. CASE e \notin timeline /\ Legal(e, "sent")
  <2>1. UpdateStatus(e, "sent") /\ ReplaceLocalId(e)
    BY <1>4 DEF HandleSent
  <2>2. /\ status' \in [Events -> Statuses]
        /\ \A d \in Events : d # e => status'[d] = status[d]
        /\ status[e] \in LocalEcho <=> status'[e] \in LocalEcho
        /\ status'[e] \in {status[e], "sent"}
    BY <2>1, UpdateStatusStep
  <2>3. localId' \subseteq Events /\ localRef' \subseteq localRef
    BY <1>1, <2>1 DEF ReplaceLocalId
  <2> QED
    BY <1>1, <1>2, <1>3, <2>1, <2>2, <2>3, FlowStepKeeps DEF HandleSent
<1>5. CASE ~(e \notin timeline /\ Legal(e, "sent"))
  <2>1. UNCHANGED <<status, localId, localRef>>
    BY <1>5 DEF HandleSent
  <2> QED
    BY <1>1, <1>2, <1>3, <2>1, FlowStepKeeps DEF HandleSent
<1> QED
  BY <1>4, <1>5

LEMMA HandleFailedKeeps ==
  ASSUME IInv, NEW e \in Events, HandleFailed(e)
  PROVE  IInv'
<1>1. /\ flow[e] = "rejected" /\ EventOK(e) /\ localId \subseteq Events
      /\ encrypted \subseteq Encrypted /\ UpdateStatus(e, "not_sent")
  BY DEF IInv, HandleFailed, Agree, SendTypeOK
<1>2. status[e] \notin {"none", "not_sent", "sent", "cancelled", "queued"}
  BY <1>1 DEF EventOK
<1>3. /\ status' \in [Events -> Statuses]
      /\ \A d \in Events : d # e => status'[d] = status[d]
      /\ status[e] \in LocalEcho <=> status'[e] \in LocalEcho
      /\ status'[e] \in {status[e], "not_sent"}
  BY <1>1, UpdateStatusStep
<1>4. "none" \in Flows
  BY DEF Flows
<1> QED
  BY <1>1, <1>2, <1>3, <1>4, FlowStepKeeps DEF HandleFailed

\* The echo replaces the local event, whatever its send is doing.
LEMMA EchoKeeps ==
  ASSUME IInv, NEW e \in Events, RemoteEcho(e) \/ EchoSkipped(e) \/ Backfilled(e)
  PROVE  IInv'
<1>1. /\ status \in [Events -> Statuses] /\ server \in [Events -> {"unseen", "accepted", "skipped", "synced"}]
      /\ UNCHANGED schedVars /\ UNCHANGED request /\ UNCHANGED flow
  BY DEF IInv, SendTypeOK, RemoteEcho, EchoSkipped, Backfilled
<1>2. /\ SchedTypeOK' /\ procFn'
  BY <1>1 DEF IInv, SendTypeOK, SchedTypeOK, schedVars
<1>3. CASE RemoteEcho(e)
  <2>1. /\ status' \in [Events -> Statuses] /\ status'[e] = "echoed"
        /\ \A d \in Events : d # e => status'[d] = status[d]
        /\ pendingEventList' = pendingEventList \ {e}
    BY <1>1, <1>3 DEF RemoteEcho, Statuses
  <2>2. Agree'
    <3>1. EventOK(e)
      BY DEF IInv, Agree
    <3> QED
      BY <1>1, <2>1, <3>1, ClientStepKeeps DEF EventOK
  <2>3. SendTypeOK'
    BY <1>1, <1>2, <1>3, <2>1 DEF IInv, SendTypeOK, RemoteEcho, ReplaceLocalId
  <2>4. PendingListMatchesStatus'
    BY <2>1 DEF IInv, PendingListMatchesStatus
  <2> QED
    BY <1>2, <2>2, <2>3, <2>4 DEF IInv
<1>4. CASE EchoSkipped(e) \/ Backfilled(e)
  <2>1. UNCHANGED <<status, pendingEventList>>
    BY <1>4 DEF EchoSkipped, Backfilled
  <2>2. Agree'
    <3>1. EventOK(e)
      BY DEF IInv, Agree
    <3> QED
      BY <1>1, <2>1, <3>1, ClientStepKeeps DEF EventOK
  <2>3. SendTypeOK'
    BY <1>1, <1>2, <1>4, <2>1 DEF IInv, SendTypeOK, EchoSkipped, Backfilled
  <2>4. PendingListMatchesStatus'
    BY <2>1 DEF IInv, PendingListMatchesStatus
  <2> QED
    BY <1>2, <2>2, <2>3, <2>4 DEF IInv
<1> QED
  BY <1>3, <1>4
-----------------------------------------------------------------------------
\* The wire moves without the client noticing.
LEMMA ServerKeeps ==
  ASSUME IInv, NEW e \in Events, ServerAccepts(e)
  PROVE  IInv'
<1>1. /\ request \in [Events -> {"none", "open", "replied", "stray"}]
      /\ server \in [Events -> {"unseen", "accepted", "skipped", "synced"}]
      /\ request[e] \in {"open", "stray"}
      /\ request' = [request EXCEPT ![e] = IF @ = "open" THEN "replied" ELSE "none"]
      /\ server' = [server EXCEPT ![e] = IF @ = "unseen" THEN "accepted" ELSE @]
      /\ UNCHANGED <<procFn, queues, activeQueues, attempts, defer, at, held, status, flow,
                     pendingEventList, txnToEvent, localId, localRef, encrypted, timeline>>
  BY DEF IInv, SendTypeOK, ServerAccepts, schedVars
<1>2. \A d \in Events : OnWire(d)' <=> OnWire(d)
  BY <1>1 DEF OnWire
<1>3. ASSUME NEW q \in Queues
      PROVE  QueueOK(q)' /\ ChainOK(q)'
  <2>1. QueueOK(q) /\ ChainOK(q)
    BY DEF IInv, Agree
  <2>2. QueueOK(q)'
    BY <1>1, <2>1 DEF QueueOK
  <2>3. held[q] \in Events => (Forgotten(held[q]) => Forgotten(held[q])')
    BY <1>1, <1>2 DEF Forgotten
  <2>4. ChainOK(q)'
    BY <1>1, <2>1, <2>3 DEF ChainOK, HoldsHead
  <2> QED
    BY <2>2, <2>4
<1>4. ASSUME NEW d \in Events
      PROVE  EventOK(d)'
  <2>1. EventOK(d) /\ (OnWire(d)' <=> OnWire(d))
    BY <1>2 DEF IInv, Agree
  <2> QED
    BY <1>1, <2>1 DEF EventOK, HoldsHead
<1>5. request' \in [Events -> {"none", "open", "replied", "stray"}]
      /\ server' \in [Events -> {"unseen", "accepted", "skipped", "synced"}]
  BY <1>1
<1>6. SendTypeOK'
  BY <1>1, <1>5 DEF IInv, SendTypeOK, SchedTypeOK, AttemptCap
<1>7. PendingListMatchesStatus'
  BY <1>1 DEF IInv, PendingListMatchesStatus
<1> QED
  BY <1>1, <1>3, <1>4, <1>6, <1>7 DEF IInv, Agree

\* A step of an event that no scheduler knows about.
LEMMA DirectStepKeeps ==
  ASSUME IInv, UNCHANGED <<schedVars, status, pendingEventList, txnToEvent, localId, localRef,
                           encrypted, timeline, server>>,
         NEW e \in Events, QueueOf[e] = NoQueue,
         NEW f \in Flows, f # "encrypting",
         NEW r \in {"none", "open", "replied", "stray"},
         flow' = [flow EXCEPT ![e] = f],
         request' = [request EXCEPT ![e] = r],
         status[e] \notin {"none", "not_sent", "sent", "cancelled", "queued"},
         r \in {"open", "replied"} => f = "awaiting"
  PROVE  IInv'
<1>1. /\ request \in [Events -> {"none", "open", "replied", "stray"}]
      /\ flow \in [Events -> Flows]
      /\ UNCHANGED <<procFn, queues, activeQueues, attempts, defer, at, held>>
  BY DEF IInv, SendTypeOK, schedVars
<1>2. /\ \A d \in Events : d # e => flow'[d] = flow[d] /\ request'[d] = request[d]
      /\ flow'[e] = f /\ request'[e] = r
      /\ flow' \in [Events -> Flows]
      /\ request' \in [Events -> {"none", "open", "replied", "stray"}]
  BY <1>1
<1>3. ASSUME NEW q \in Queues
      PROVE  QueueOK(q)' /\ ChainOK(q)'
  <2>1. QueueOK(q) /\ ChainOK(q)
    BY DEF IInv, Agree
  <2>2. QueueOK(q)'
    BY <1>1, <2>1 DEF QueueOK
  <2>3. ChainOK(q)'
    <3>1. CASE at[q] \in {"called", "sending"}
      <4>1. held[q] \in Events /\ held[q] # e
        BY <2>1, <3>1, SchedulerAssumption DEF ChainOK
      <4>2. Forgotten(held[q]) => Forgotten(held[q])'
        BY <1>1, <1>2, <4>1 DEF Forgotten, OnWire
      <4> QED
        BY <1>1, <2>1, <3>1, <4>2 DEF ChainOK, HoldsHead
    <3>2. CASE at[q] \notin {"called", "sending"}
      BY <1>1, <2>1, <3>2 DEF ChainOK
    <3> QED
      BY <3>1, <3>2
  <2> QED
    BY <2>2, <2>3
<1>4. ASSUME NEW d \in Events
      PROVE  EventOK(d)'
  <2>1. EventOK(d)
    BY DEF IInv, Agree
  <2>2. CASE d # e
    BY <1>1, <1>2, <2>1, <2>2 DEF EventOK, OnWire, HoldsHead
  <2>3. CASE d = e
    BY <1>1, <1>2, <2>1, <2>3 DEF EventOK, OnWire
  <2> QED
    BY <2>2, <2>3
<1>5. SendTypeOK'
  BY <1>1, <1>2 DEF IInv, SendTypeOK, SchedTypeOK, AttemptCap
<1>6. PendingListMatchesStatus'
  BY DEF IInv, PendingListMatchesStatus
<1> QED
  BY <1>1, <1>3, <1>4, <1>5, <1>6 DEF IInv, Agree

LEMMA SendDirectlyKeeps ==
  ASSUME IInv, NEW e \in Events, SendDirectly(e)
  PROVE  IInv'
<1>1. flow[e] = "enqueue" /\ EventOK(e)
  BY DEF IInv, SendDirectly, Agree
<1>2. status[e] \notin {"none", "not_sent", "sent", "cancelled", "queued"}
  BY <1>1 DEF EventOK
<1>3. "awaiting" \in Flows
  BY DEF Flows
<1> QED
  BY <1>2, <1>3, DirectStepKeeps DEF SendDirectly

LEMMA DirectRequestEndsKeeps ==
  ASSUME IInv, NEW e \in Events, DirectRequestEnds(e)
  PROVE  IInv'
<1>1. OnWire(e) /\ QueueOf[e] = NoQueue /\ EventOK(e)
  BY DEF IInv, DirectRequestEnds, DirectSucceeded, DirectFailed, Failure, OnWire, Agree
<1>2. status[e] \notin {"none", "not_sent", "sent", "cancelled", "queued"}
  BY <1>1 DEF EventOK
<1>3. "resolved" \in Flows /\ "rejected" \in Flows
  BY DEF Flows
<1>4. CASE DirectSucceeded(e)
  BY <1>1, <1>2, <1>3, <1>4, DirectStepKeeps DEF DirectSucceeded
<1>5. CASE DirectFailed(e)
  <2>1. PICK r \in {"none", "stray"} : request' = [request EXCEPT ![e] = r]
    BY <1>5 DEF DirectFailed, Failure
  <2> QED
    BY <1>1, <1>2, <1>3, <1>5, <2>1, DirectStepKeeps DEF DirectFailed
<1> QED
  BY <1>4, <1>5 DEF DirectRequestEnds

-----------------------------------------------------------------------------
\* The process function: it throws for an event whose status has moved on, and
\* otherwise the request it opens is for the head of the queue.
LEMMA ProcessEventKeeps ==
  ASSUME IInv, NEW q \in Queues, ProcessEvent(q)
  PROVE  IInv'
<1>1. /\ at[q] = "called" /\ QueueOK(q) /\ ChainOK(q)
      /\ at' = [at EXCEPT ![q] = "sending"]
      /\ UNCHANGED <<procFn, queues, activeQueues, attempts, defer, held, flow,
                     pendingEventList, txnToEvent, localId, localRef, encrypted, timeline, server>>
  BY DEF IInv, Agree, ProcessEvent, CallProcFn
<1>2. held[q] \in Events
  BY <1>1 DEF ChainOK
<1>3. PICK e \in Events : e = held[q]
  BY <1>2
<1>4. /\ QueueOf[e] = q /\ defer[e] = "pending" /\ EventOK(e)
      /\ HoldsHead(q) \/ Forgotten(e)
  BY <1>1, <1>3 DEF ChainOK, IInv, Agree
<1>5. /\ at \in [Queues -> {"idle", "called", "sending", "backoff"}]
      /\ request \in [Events -> {"none", "open", "replied", "stray"}]
      /\ status \in [Events -> Statuses]
  BY DEF IInv, SendTypeOK, SchedTypeOK
<1>6. /\ at'[q] = "sending" /\ \A r \in Queues : r # q => at'[r] = at[r]
      /\ at' \in [Queues -> {"idle", "called", "sending", "backoff"}]
  BY <1>1, <1>5
<1>7. /\ status' \in [Events -> Statuses]
      /\ \A d \in Events : d # e => status'[d] = status[d]
      /\ status[e] \in LocalEcho <=> status'[e] \in LocalEcho
      /\ status'[e] \in {status[e], "sending"}
      /\ status[e] \in {"cancelled", "echoed"} => status'[e] = status[e]
  BY <1>3, UpdateStatusStep DEF ProcessEvent
<1>8. /\ request' \in [Events -> {"none", "open", "replied", "stray"}]
      /\ \A d \in Events : d # e => request'[d] = request[d]
      /\ request'[e] \in {request[e], "open"}
      /\ status[e] \in {"cancelled", "echoed"} => request'[e] = request[e]
  <2>1. status[e] \in {"cancelled", "echoed"} => ~(status[e] = "sending" \/ Legal(e, "sending"))
    BY DEF Legal, AllowedTransitions
  <2>2. request' = IF status[e] = "sending" \/ Legal(e, "sending")
                   THEN [request EXCEPT ![e] = "open"] ELSE request
    BY <1>3 DEF ProcessEvent
  <2> QED
    BY <1>5, <2>1, <2>2
<1>9. status'[e] \notin {"queued", "not_sent"}
  BY <1>3, <1>5 DEF ProcessEvent, UpdateStatus, Legal, AllowedTransitions
<1>10. flow[e] = "awaiting"
  BY <1>4, SchedulerAssumption DEF EventOK
<1>11. ASSUME NEW r \in Queues
       PROVE  QueueOK(r)' /\ ChainOK(r)'
  <2>1. QueueOK(r) /\ ChainOK(r)
    BY DEF IInv, Agree
  <2>2. QueueOK(r)'
    <3>1. ASSUME NEW d \in Elems(queues[r])
          PROVE  QueueOf[d] = r /\ defer[d] = "pending" /\ status'[d] # "cancelled"
      <4>1. d \in Events
        BY <3>1 DEF IInv, SendTypeOK, SchedTypeOK, Elems
      <4> QED
        BY <1>7, <2>1, <4>1 DEF QueueOK
    <3>2. (at'[r] # "idle") <=> (at[r] # "idle")
      BY <1>1, <1>6
    <3> QED
      BY <1>1, <2>1, <3>1, <3>2 DEF QueueOK
  <2>3. CASE r = q
    <3>1. Forgotten(e) => Forgotten(e)'
      BY <1>1, <1>7, <1>8 DEF Forgotten, OnWire
    <3>2. HoldsHead(q) => HoldsHead(q)'
      BY <1>1 DEF HoldsHead
    <3>3. held'[q] = e
      BY <1>1, <1>3
    <3>4. ChainOK(q)'
      BY <1>1, <1>4, <1>6, <1>9, <3>1, <3>2, <3>3 DEF ChainOK
    <3> QED
      BY <2>2, <2>3, <3>4
  <2>4. CASE r # q
    <3>1. at'[r] = at[r]
      BY <1>6, <2>4
    <3>2. CASE at[r] \in {"called", "sending"}
      <4>1. held[r] \in Events /\ held[r] # e
        BY <1>4, <2>1, <2>4, <3>2 DEF ChainOK
      <4>2. Forgotten(held[r]) => Forgotten(held[r])'
        BY <1>1, <1>7, <1>8, <4>1 DEF Forgotten, OnWire
      <4>3. status'[held[r]] = status[held[r]]
        BY <1>7, <4>1
      <4>4. ChainOK(r)'
        BY <1>1, <2>1, <3>1, <3>2, <4>2, <4>3 DEF ChainOK, HoldsHead
      <4> QED
        BY <2>2, <4>4
    <3>3. CASE at[r] \notin {"called", "sending"}
      BY <1>1, <2>1, <2>2, <3>1, <3>3 DEF ChainOK
    <3> QED
      BY <3>2, <3>3
  <2> QED
    BY <2>3, <2>4
<1>12. ASSUME NEW d \in Events
       PROVE  EventOK(d)'
  <2>1. EventOK(d)
    BY DEF IInv, Agree
  <2>2. CASE d # e
    <3>1. OnWire(d)' <=> OnWire(d)
      BY <1>8, <2>2 DEF OnWire
    <3>2. QueueOf[d] # NoQueue /\ OnWire(d) => QueueOf[d] \in Queues /\ at'[QueueOf[d]] = "sending"
      BY <1>6, <2>1, SchedulerAssumption DEF EventOK
    <3> QED
      BY <1>1, <1>7, <2>1, <2>2, <3>1, <3>2 DEF EventOK, HoldsHead
  <2>3. CASE d = e
    <3>1. OnWire(e)' => HoldsHead(q)' /\ status'[e] # "cancelled"
      <4>1. ASSUME Forgotten(e)
            PROVE  ~OnWire(e)'
        BY <1>7, <1>8, <4>1 DEF Forgotten, OnWire
      <4>2. ASSUME HoldsHead(q)
            PROVE  HoldsHead(q)' /\ status'[e] # "cancelled"
        <5>1. e \in Elems(queues[q])
          <6>1. queues[q] \in Seq(Events)
            BY DEF IInv, SendTypeOK, SchedTypeOK
          <6> QED
            BY <1>1, <1>3, <4>2, <6>1, Shifted DEF HoldsHead, QueueOK
        <5>2. status[e] # "cancelled"
          BY <1>1, <5>1 DEF QueueOK
        <5> QED
          BY <1>1, <1>7, <4>2, <5>2 DEF HoldsHead
      <4> QED
        BY <1>4, <4>1, <4>2
    <3>2. held'[q] = e /\ at'[q] = "sending"
      BY <1>1, <1>3, <1>6
    <3>3. status'[e] \notin {"none", "not_sent", "sent", "queued"}
      BY <1>7, <1>9, <1>10, <2>1, <2>3 DEF EventOK
    <3> QED
      BY <1>1, <1>4, <1>10, <2>3, <3>1, <3>2, <3>3 DEF EventOK
  <2> QED
    BY <2>2, <2>3
<1>13. SendTypeOK'
  BY <1>1, <1>6, <1>7, <1>8 DEF IInv, SendTypeOK, SchedTypeOK, AttemptCap
<1>14. PendingListMatchesStatus'
  BY <1>1, <1>7, SamePendingList DEF IInv
<1> QED
  BY <1>1, <1>11, <1>12, <1>13, <1>14 DEF IInv, Agree
\* A failed attempt that is not the last: the chain waits and holds nothing.
LEMMA WillRetryKeeps ==
  ASSUME IInv, NEW q \in Queues, NEW err, ProcFnWillRetry(q, err),
         UNCHANGED <<status, flow, pendingEventList, txnToEvent, localId, localRef, encrypted,
                     timeline, server>>,
         request' \in [Events -> {"none", "open", "replied", "stray"}],
         \A d \in Events : d # held[q] => request'[d] = request[d],
         request'[held[q]] \notin {"open", "replied"}
  PROVE  IInv'
<1>1. /\ at[q] = "sending" /\ QueueOK(q) /\ ChainOK(q)
      /\ at' = [at EXCEPT ![q] = "backoff"]
      /\ held' = [held EXCEPT ![q] = NoEvent]
      /\ UNCHANGED <<procFn, queues, activeQueues, defer>>
  BY DEF IInv, Agree, ProcFnWillRetry
<1>2. held[q] \in Events
  BY <1>1 DEF ChainOK
<1>3. PICK e \in Events : e = held[q]
  BY <1>2
<1>4. /\ QueueOf[e] = q /\ status[e] \notin {"queued", "not_sent"}
      /\ request'[e] \notin {"open", "replied"}
      /\ \A d \in Events : d # e => request'[d] = request[d]
  BY <1>1, <1>3 DEF ChainOK
<1>5. /\ attempts' \in [Events -> 0..AttemptCap]
      /\ \A d \in Events : d # e => attempts'[d] = attempts[d]
  <2>1. attempts \in [Events -> 0..AttemptCap] /\ MaxAttempts \in Nat
    BY SchedulerAssumption DEF IInv, SendTypeOK, SchedTypeOK
  <2>2. FailedAttempts(e) \in 0..AttemptCap
    BY <2>1 DEF FailedAttempts, AttemptCap
  <2>3. attempts' = [attempts EXCEPT ![e] = FailedAttempts(e)]
    BY <1>3 DEF ProcFnWillRetry
  <2> QED
    BY <2>1, <2>2, <2>3
<1>6. /\ at'[q] = "backoff" /\ held'[q] = NoEvent
      /\ \A r \in Queues : r # q => at'[r] = at[r] /\ held'[r] = held[r]
      /\ at' \in [Queues -> {"idle", "called", "sending", "backoff"}]
      /\ held' \in [Queues -> Events \union {NoEvent}]
  BY <1>1 DEF IInv, SendTypeOK, SchedTypeOK
<1>7. ASSUME NEW r \in Queues
      PROVE  QueueOK(r)' /\ ChainOK(r)'
  <2>1. QueueOK(r) /\ ChainOK(r)
    BY DEF IInv, Agree
  <2>2. QueueOK(r)'
    BY <1>1, <1>6, <2>1 DEF QueueOK
  <2>3. CASE r = q
    <3>1. ChainOK(q)'
      BY <1>6 DEF ChainOK
    <3> QED
      BY <2>2, <2>3, <3>1
  <2>4. CASE r # q
    <3>1. CASE at[r] \in {"called", "sending"}
      <4>1. held[r] \in Events /\ held[r] # e /\ at'[r] = at[r] /\ held'[r] = held[r]
        BY <1>4, <1>6, <2>1, <2>4, <3>1 DEF ChainOK
      <4>2. Forgotten(held[r]) => Forgotten(held[r])'
        BY <1>1, <1>4, <1>5, <4>1 DEF Forgotten, OnWire
      <4> QED
        BY <1>1, <2>1, <2>2, <3>1, <4>1, <4>2 DEF ChainOK, HoldsHead
    <3>2. CASE at[r] \notin {"called", "sending"}
      BY <1>6, <2>1, <2>2, <2>4, <3>2 DEF ChainOK
    <3> QED
      BY <3>1, <3>2
  <2> QED
    BY <2>3, <2>4
<1>8. ASSUME NEW d \in Events
      PROVE  EventOK(d)'
  <2>1. EventOK(d)
    BY DEF IInv, Agree
  <2>2. CASE d = e
    BY <1>1, <1>4, <2>1, <2>2 DEF EventOK, OnWire
  <2>3. CASE d # e
    <3>1. (OnWire(d)' <=> OnWire(d)) /\ attempts'[d] = attempts[d]
      BY <1>4, <1>5, <2>3 DEF OnWire
    <3>2. QueueOf[d] # NoQueue /\ OnWire(d) => QueueOf[d] \in Queues /\ QueueOf[d] # q
      BY <1>3, <2>1, <2>3, SchedulerAssumption DEF EventOK
    <3> QED
      BY <1>1, <1>6, <2>1, <3>1, <3>2 DEF EventOK, HoldsHead
  <2> QED
    BY <2>2, <2>3
<1>9. SendTypeOK'
  BY <1>1, <1>5, <1>6 DEF IInv, SendTypeOK, SchedTypeOK, AttemptCap
<1>10. PendingListMatchesStatus'
  BY DEF IInv, PendingListMatchesStatus
<1> QED
  BY <1>1, <1>7, <1>8, <1>9, <1>10 DEF IInv, Agree

\* A settled attempt, with the variables the scheduler does not have.
LEMMA SettledStepKeeps ==
  ASSUME IInv, NEW q \in Queues, at[q] = "sending", HoldsHead(q),
         NEW result \in {"resolved", "rejected"},
         queues' = [queues EXCEPT ![q] = Shift(@)],
         defer' = [defer EXCEPT ![held[q]] = result],
         flow' = [flow EXCEPT ![held[q]] = result],
         attempts' \in [Events -> 0..AttemptCap],
         request' \in [Events -> {"none", "open", "replied", "stray"}],
         \A d \in Events : d # held[q] => attempts'[d] = attempts[d] /\ request'[d] = request[d],
         request'[held[q]] \notin {"open", "replied"},
         ProcessQueue(q, queues'),
         UNCHANGED <<procFn, status, pendingEventList, txnToEvent, localId, localRef, encrypted,
                     timeline, server>>
  PROVE  IInv'
<1>1. /\ Agree'
      /\ queues' \in [Queues -> Seq(Events)]
      /\ defer' \in [Events -> {"none", "pending", "resolved", "rejected"}]
      /\ flow' \in [Events -> Flows]
      /\ activeQueues' \in SUBSET Queues
      /\ at' \in [Queues -> {"idle", "called", "sending", "backoff"}]
      /\ held' \in [Queues -> Events \union {NoEvent}]
  BY SettleKeeps
<1>2. SendTypeOK'
  BY <1>1 DEF IInv, SendTypeOK, SchedTypeOK, AttemptCap
<1>3. PendingListMatchesStatus'
  BY DEF IInv, PendingListMatchesStatus
<1> QED
  BY <1>1, <1>2, <1>3 DEF IInv

\* An event whose request is out is the head that its chain holds.
LEMMA OnWireIsHead ==
  ASSUME IInv, NEW q \in Queues, at[q] = "sending"
  PROVE  /\ held[q] \in Events
         /\ HoldsHead(q) \/ Forgotten(held[q])
         /\ OnWire(held[q]) => HoldsHead(q)
  BY DEF IInv, Agree, ChainOK, Forgotten

LEMMA RequestSucceededKeeps ==
  ASSUME IInv, NEW q \in Queues, RequestSucceeded(q)
  PROVE  IInv'
<1>1. at[q] = "sending" /\ HoldsHead(q) /\ held[q] \in Events
  BY OnWireIsHead DEF RequestSucceeded, OnWire
<1>2. /\ attempts' \in [Events -> 0..AttemptCap] /\ attempts' = attempts
      /\ request \in [Events -> {"none", "open", "replied", "stray"}]
      /\ request' = [request EXCEPT ![held[q]] = "none"]
  BY DEF IInv, SendTypeOK, SchedTypeOK, RequestSucceeded, ProcFnResolved
<1>3. /\ request' \in [Events -> {"none", "open", "replied", "stray"}]
      /\ \A d \in Events : d # held[q] => attempts'[d] = attempts[d] /\ request'[d] = request[d]
      /\ request'[held[q]] \notin {"open", "replied"}
  BY <1>1, <1>2
<1> QED
  BY <1>1, <1>2, <1>3, SettledStepKeeps DEF RequestSucceeded, ProcFnResolved

\* A failed attempt, whether there was a request or the process function threw.
LEMMA RejectedKeeps ==
  ASSUME IInv, NEW q \in Queues, NEW err,
         ProcFnRejected(q, err),
         HoldsHead(q) \/ ~GivesUp(err, FailedAttempts(held[q])),
         flow' = IF defer' # defer THEN [flow EXCEPT ![held[q]] = "rejected"] ELSE flow,
         request' \in [Events -> {"none", "open", "replied", "stray"}],
         \A d \in Events : d # held[q] => request'[d] = request[d],
         request'[held[q]] \notin {"open", "replied"},
         UNCHANGED <<status, pendingEventList, txnToEvent, localId, localRef, encrypted,
                     timeline, server>>
  PROVE  IInv'
<1>1. at[q] = "sending" /\ held[q] \in Events
  BY OnWireIsHead DEF ProcFnRejected, ProcFnGaveUp, ProcFnWillRetry
<1>2. CASE ProcFnGaveUp(q, err)
  <2>1. HoldsHead(q)
    BY <1>2 DEF ProcFnGaveUp
  <2>2. /\ defer' = [defer EXCEPT ![held[q]] = "rejected"]
        /\ queues' = [queues EXCEPT ![q] = Shift(@)]
        /\ attempts' = [attempts EXCEPT ![held[q]] = FailedAttempts(held[q])]
        /\ ProcessQueue(q, queues') /\ UNCHANGED procFn
    BY <1>2 DEF ProcFnGaveUp
  <2>3. flow' = [flow EXCEPT ![held[q]] = "rejected"]
    <3>1. defer[held[q]] = "pending" /\ defer \in [Events -> {"none", "pending", "resolved", "rejected"}]
      BY <1>1 DEF IInv, Agree, ChainOK, SendTypeOK, SchedTypeOK
    <3>2. defer'[held[q]] = "rejected"
      BY <1>1, <2>2, <3>1
    <3> QED
      BY <3>1, <3>2
  <2>4. /\ attempts' \in [Events -> 0..AttemptCap]
        /\ \A d \in Events : d # held[q] => attempts'[d] = attempts[d]
    <3>1. attempts \in [Events -> 0..AttemptCap] /\ MaxAttempts \in Nat
      BY SchedulerAssumption DEF IInv, SendTypeOK, SchedTypeOK
    <3>2. FailedAttempts(held[q]) \in 0..AttemptCap
      BY <1>1, <3>1 DEF FailedAttempts, AttemptCap
    <3> QED
      BY <1>1, <2>2, <3>1, <3>2
  <2> QED
    BY <1>1, <2>1, <2>2, <2>3, <2>4, SettledStepKeeps
<1>3. CASE ProcFnWillRetry(q, err)
  <2>1. flow' = flow
    BY <1>3 DEF ProcFnWillRetry
  <2> QED
    BY <1>1, <1>3, <2>1, WillRetryKeeps
<1> QED
  BY <1>2, <1>3 DEF ProcFnRejected

LEMMA RequestFailedKeeps ==
  ASSUME IInv, NEW q \in Queues, NEW err \in Errors, RequestFailed(q, err)
  PROVE  IInv'
<1>1. at[q] = "sending" /\ HoldsHead(q) /\ held[q] \in Events
  BY OnWireIsHead DEF RequestFailed, Failure, OnWire
<1>2. PICK r \in {"none", "stray"} : request' = [request EXCEPT ![held[q]] = r]
  BY DEF RequestFailed, Failure
<1>3. /\ request' \in [Events -> {"none", "open", "replied", "stray"}]
      /\ \A d \in Events : d # held[q] => request'[d] = request[d]
      /\ request'[held[q]] \notin {"open", "replied"}
  BY <1>1, <1>2 DEF IInv, SendTypeOK
<1> QED
  BY <1>1, <1>3, RejectedKeeps DEF RequestFailed

\* A forgotten entry is only retried: this is its first failed attempt.
LEMMA ForgottenIsRetried ==
  ASSUME NEW e, Forgotten(e)
  PROVE  ~GivesUp("other", FailedAttempts(e))
<1>1. MaxAttempts \in Nat /\ MaxAttempts > 0
  BY SchedulerAssumption, SendAssumption
<1>2. FailedAttempts(e) = 1
  BY <1>1 DEF Forgotten, FailedAttempts, AttemptCap
<1> QED
  BY <1>1, <1>2 DEF GivesUp

LEMMA ProcessEventThrewKeeps ==
  ASSUME IInv, NEW q \in Queues, ProcessEventThrew(q)
  PROVE  IInv'
<1>1. at[q] = "sending" /\ held[q] \in Events /\ (HoldsHead(q) \/ Forgotten(held[q]))
  BY OnWireIsHead DEF ProcessEventThrew, Refused
<1>2. Forgotten(held[q]) => ~GivesUp("other", FailedAttempts(held[q]))
  BY ForgottenIsRetried
<1>3. /\ request' \in [Events -> {"none", "open", "replied", "stray"}]
      /\ \A d \in Events : d # held[q] => request'[d] = request[d]
      /\ request'[held[q]] \notin {"open", "replied"}
  BY DEF IInv, SendTypeOK, ProcessEventThrew, Refused
<1> QED
  BY <1>1, <1>2, <1>3, RejectedKeeps DEF ProcessEventThrew

\* The back-off timer: the chain peeks again, whatever has left its queue since.
LEMMA RetryTimerKeeps ==
  ASSUME IInv, NEW q \in Queues, RetryTimer(q)
  PROVE  IInv'
<1>1. /\ at[q] = "backoff" /\ ProcessQueue(q, queues)
      /\ UNCHANGED <<procFn, queues, attempts, defer>>
      /\ UNCHANGED <<status, flow, pendingEventList, txnToEvent, localId, localRef, encrypted,
                     timeline, request, server>>
  BY DEF RetryTimer, BackoffElapsed, sendVars
<1>2. /\ queues \in [Queues -> Seq(Events)] /\ activeQueues \in SUBSET Queues
      /\ at \in [Queues -> {"idle", "called", "sending", "backoff"}]
      /\ held \in [Queues -> Events \union {NoEvent}]
  BY DEF IInv, SendTypeOK, SchedTypeOK
<1>3. /\ \A r \in Queues : QueueOK(r) /\ ChainOK(r)
      /\ \A d \in Events : EventOK(d)
  BY DEF IInv, Agree
<1>4. ASSUME queues[q] # <<>>
      PROVE  Head(queues[q]) \in Events /\ Head(queues[q]) \in Elems(queues[q])
  BY <1>2, <1>3, <1>4, Shifted DEF QueueOK
<1>5. q \in activeQueues
  BY <1>1, <1>3 DEF QueueOK
<1>6. /\ \/ queues[q] = <<>> /\ at'[q] = "idle" /\ held'[q] = NoEvent /\ q \notin activeQueues'
         \/ queues[q] # <<>> /\ at'[q] = "called" /\ held'[q] = Head(queues[q]) /\ q \in activeQueues'
      /\ \A r \in Queues : r # q => at'[r] = at[r] /\ held'[r] = held[r]
                                  /\ (r \in activeQueues' <=> r \in activeQueues)
  BY <1>1, <1>2, <1>5 DEF ProcessQueue
<1>7. /\ activeQueues' \in SUBSET Queues
      /\ held' \in [Queues -> Events \union {NoEvent}]
  BY <1>1, <1>2, <1>4 DEF ProcessQueue
<1>8. at' \in [Queues -> {"idle", "called", "sending", "backoff"}]
  <2>1. \/ at' = [at EXCEPT ![q] = "idle"]
        \/ at' = [at EXCEPT ![q] = "called"]
    BY <1>1 DEF ProcessQueue
  <2> QED
    BY <1>2, <2>1
<1>9. ASSUME NEW r \in Queues
      PROVE  QueueOK(r)' /\ ChainOK(r)'
  <2>1. QueueOK(r)'
    BY <1>1, <1>3, <1>6 DEF QueueOK
  <2>2. CASE r # q
    <3>1. at'[r] = at[r] /\ held'[r] = held[r] /\ ChainOK(r)
      BY <1>3, <1>6, <2>2
    <3>2. Forgotten(held[r]) => Forgotten(held[r])'
      BY <1>1, <3>1 DEF Forgotten, OnWire
    <3>3. ChainOK(r)'
      BY <1>1, <3>1, <3>2 DEF ChainOK, HoldsHead
    <3> QED
      BY <2>1, <3>3
  <2>3. CASE r = q
    <3>1. CASE queues[q] = <<>>
      BY <1>6, <2>1, <2>3, <3>1 DEF ChainOK
    <3>2. CASE queues[q] # <<>>
      <4>1. QueueOf[Head(queues[q])] = q /\ defer[Head(queues[q])] = "pending"
        BY <1>3, <1>4, <3>2 DEF QueueOK
      <4>2. ChainOK(q)'
        BY <1>1, <1>4, <1>6, <3>2, <4>1 DEF ChainOK, HoldsHead
      <4> QED
        BY <2>1, <2>3, <4>2
    <3> QED
      BY <3>1, <3>2
  <2> QED
    BY <2>2, <2>3
<1>10. ASSUME NEW d \in Events
       PROVE  EventOK(d)'
  <2>1. EventOK(d)
    BY <1>3
  <2>2. QueueOf[d] # NoQueue /\ OnWire(d) => QueueOf[d] \in Queues /\ QueueOf[d] # q
    BY <1>1, <2>1, SchedulerAssumption DEF EventOK
  <2> QED
    BY <1>1, <1>6, <2>1, <2>2 DEF EventOK, OnWire, HoldsHead
<1>11. SendTypeOK'
  BY <1>1, <1>7, <1>8 DEF IInv, SendTypeOK, SchedTypeOK, AttemptCap
<1>12. PendingListMatchesStatus'
  BY <1>1 DEF IInv, PendingListMatchesStatus
<1> QED
  BY <1>1, <1>9, <1>10, <1>11, <1>12 DEF IInv, Agree
-----------------------------------------------------------------------------
\* cancelPendingEvent.  The entry leaves its queue; if the chain has peeked it,
\* it is forgotten, and otherwise the head stays where it is.
LEMMA CancelKeeps ==
  ASSUME IInv, NEW e \in Events, CancelPendingEvent(e)
  PROVE  IInv'
<1> DEFINE q == QueueOf[e]
<1>1. /\ status[e] \in {"queued", "not_sent"} /\ EventOK(e)
      /\ UpdateStatus(e, "cancelled")
      /\ pendingEventList' = pendingEventList \ {e}
      /\ UNCHANGED <<flow, txnToEvent, localId, localRef, encrypted, timeline, request, server>>
      /\ IF InQueue(e) THEN RemoveEventFromQueue(e) ELSE UNCHANGED schedVars
  BY DEF IInv, Agree, CancelPendingEvent, Cancellable
<1>2. /\ status \in [Events -> Statuses] /\ queues \in [Queues -> Seq(Events)]
      /\ \A r \in Queues : QueueOK(r) /\ ChainOK(r)
      /\ \A d \in Events : EventOK(d)
  BY DEF IInv, Agree, SendTypeOK, SchedTypeOK
<1>3. /\ status'[e] = "cancelled" /\ status' \in [Events -> Statuses]
      /\ \A d \in Events : d # e => status'[d] = status[d]
  BY <1>1, <1>2 DEF UpdateStatus, Legal, AllowedTransitions, Statuses
<1>4. UNCHANGED <<procFn, activeQueues, attempts, defer, at, held>>
  BY <1>1 DEF RemoveEventFromQueue, schedVars
<1>5. ~OnWire(e)
  <2>1. ASSUME OnWire(e)
        PROVE  FALSE
    <3>1. flow[e] = "awaiting" /\ status[e] = "queued" /\ q # NoQueue
      BY <1>1, <2>1 DEF EventOK
    <3>2. q \in Queues /\ at[q] = "sending" /\ held[q] = e
      BY <1>1, <2>1, <3>1, SchedulerAssumption DEF EventOK
    <3> QED
      BY <1>2, <3>1, <3>2 DEF ChainOK
  <2> QED
    BY <2>1
<1>6. InQueue(e) <=> q # NoQueue /\ e \in Elems(queues[q])
  BY DEF InQueue, Elems
<1>7. /\ queues' \in [Queues -> Seq(Events)]
      /\ \A r \in Queues : r # q => queues'[r] = queues[r]
      /\ q \in Queues => /\ Elems(queues'[q]) = Elems(queues[q]) \ {e}
                         /\ Distinct(queues'[q])
                         /\ queues[q] = <<>> => queues'[q] = <<>>
                         /\ queues[q] # <<>> /\ Head(queues[q]) # e =>
                              queues'[q] # <<>> /\ Head(queues'[q]) = Head(queues[q])
  <2>1. CASE InQueue(e)
    <3>1. q \in Queues /\ queues[q] \in Seq(Events) /\ Distinct(queues[q])
      BY <1>2, <1>6, <2>1, SchedulerAssumption DEF QueueOK
    <3>2. PICK i \in 1..Len(queues[q]) :
            queues[q][i] = e /\ queues' = [queues EXCEPT ![q] = RemoveAt(@, i)]
      BY <1>1, <2>1 DEF RemoveEventFromQueue
    <3>3. /\ RemoveAt(queues[q], i) \in Seq(Events)
          /\ Distinct(RemoveAt(queues[q], i))
          /\ Elems(RemoveAt(queues[q], i)) = Elems(queues[q]) \ {e}
          /\ i # 1 => /\ RemoveAt(queues[q], i) # <<>>
                      /\ Head(RemoveAt(queues[q], i)) = Head(queues[q])
      BY <3>1, <3>2, RemovedFrom
    <3>4. /\ queues' \in [Queues -> Seq(Events)] /\ queues'[q] = RemoveAt(queues[q], i)
          /\ \A r \in Queues : r # q => queues'[r] = queues[r]
      BY <1>2, <3>1, <3>2, <3>3
    <3>5. queues[q] # <<>> /\ (Head(queues[q]) # e => i # 1)
      BY <3>1, <3>2
    <3> QED
      BY <3>3, <3>4, <3>5
  <2>2. CASE ~InQueue(e)
    <3>1. queues' = queues
      BY <1>1, <2>2 DEF schedVars
    <3>2. q \in Queues => e \notin Elems(queues[q])
      BY <1>6, <2>2, SchedulerAssumption
    <3> QED
      BY <1>2, <3>1, <3>2 DEF QueueOK
  <2> QED
    BY <2>1, <2>2
<1> HIDE DEF q
<1>8. ASSUME NEW r \in Queues
      PROVE  QueueOK(r)'
  <2>1. QueueOK(r)
    BY <1>2
  <2>2. Elems(queues'[r]) = Elems(queues[r]) \ {e} /\ Distinct(queues'[r])
    <3>1. CASE r = q
      BY <1>7, <3>1
    <3>2. CASE r # q
      <4>1. e \notin Elems(queues[r])
        BY <2>1, <3>2 DEF QueueOK, q
      <4> QED
        BY <1>7, <2>1, <3>2, <4>1 DEF QueueOK
    <3> QED
      BY <3>1, <3>2
  <2>3. ASSUME NEW d \in Elems(queues'[r])
        PROVE  QueueOf[d] = r /\ defer'[d] = "pending" /\ status'[d] # "cancelled"
    <3>1. d \in Elems(queues[r]) /\ d # e
      BY <2>2
    <3>2. d \in Events
      BY <1>2, <3>1 DEF Elems
    <3> QED
      BY <1>3, <1>4, <2>1, <3>1, <3>2 DEF QueueOK
  <2>4. queues'[r] # <<>> => queues[r] # <<>>
    BY <1>7
  <2> QED
    BY <1>4, <2>1, <2>2, <2>3, <2>4 DEF QueueOK
<1>9. ASSUME NEW r \in Queues
      PROVE  ChainOK(r)'
  <2>1. ChainOK(r) /\ QueueOK(r)
    BY <1>2
  <2>2. CASE at[r] \in {"called", "sending"}
    <3>1. /\ held[r] \in Events /\ QueueOf[held[r]] = r /\ defer[held[r]] = "pending"
          /\ HoldsHead(r) \/ Forgotten(held[r])
      BY <2>1, <2>2 DEF ChainOK
    <3>2. CASE held[r] = e
      <4>1. status[e] = "queued" /\ attempts[e] = 0
        <5>1. flow[e] = "awaiting"
          BY <1>1, <3>1, <3>2, SchedulerAssumption DEF EventOK
        <5> QED
          BY <1>1, <5>1 DEF EventOK
      <4>2. at[r] # "sending"
        BY <2>1, <3>2, <4>1 DEF ChainOK
      <4>3. e \notin Elems(queues'[QueueOf[e]])
        BY <1>7, <3>1, <3>2 DEF q
      <4>4. Forgotten(held[r])'
        BY <1>1, <1>3, <1>4, <1>5, <3>2, <4>1, <4>3 DEF Forgotten, OnWire
      <4> QED
        BY <1>4, <2>2, <3>1, <4>2, <4>4 DEF ChainOK
    <3>3. CASE held[r] # e
      <4>1. status'[held[r]] = status[held[r]]
        BY <1>3, <3>1, <3>3
      <4>2. HoldsHead(r) => HoldsHead(r)'
        BY <1>4, <1>7, <3>3 DEF HoldsHead
      <4>3. Forgotten(held[r]) => Forgotten(held[r])'
        BY <1>1, <1>4, <1>7, <3>1, <4>1 DEF Forgotten, OnWire
      <4> QED
        BY <1>4, <2>1, <2>2, <3>1, <4>1, <4>2, <4>3 DEF ChainOK
    <3> QED
      BY <3>2, <3>3
  <2>3. CASE at[r] \notin {"called", "sending"}
    BY <1>4, <2>1, <2>3 DEF ChainOK
  <2> QED
    BY <2>2, <2>3
<1>10. ASSUME NEW d \in Events
       PROVE  EventOK(d)'
  <2>1. EventOK(d) /\ (OnWire(d)' <=> OnWire(d))
    BY <1>1, <1>2 DEF OnWire
  <2>2. CASE d = e
    <3>1. flow[e] \in {"none", "awaiting"}
      BY <1>1 DEF EventOK
    <3> QED
      BY <1>1, <1>3, <1>4, <1>5, <2>1, <2>2, <3>1 DEF EventOK
  <2>3. CASE d # e
    <3>1. ASSUME QueueOf[d] # NoQueue, OnWire(d)
          PROVE  HoldsHead(QueueOf[d])' /\ at'[QueueOf[d]] = "sending" /\ held'[QueueOf[d]] = d
      <4>1. /\ QueueOf[d] \in Queues /\ at[QueueOf[d]] = "sending" /\ held[QueueOf[d]] = d
            /\ HoldsHead(QueueOf[d])
        BY <2>1, <3>1, SchedulerAssumption DEF EventOK
      <4> QED
        BY <1>4, <1>7, <2>3, <4>1 DEF HoldsHead
    <3> QED
      BY <1>1, <1>3, <1>4, <2>1, <2>3, <3>1 DEF EventOK
  <2> QED
    BY <2>2, <2>3
<1>11. SendTypeOK'
  BY <1>1, <1>3, <1>4, <1>7 DEF IInv, SendTypeOK, SchedTypeOK, AttemptCap
<1>12. PendingListMatchesStatus'
  BY <1>1, <1>3 DEF IInv, PendingListMatchesStatus
<1> QED
  BY <1>4, <1>8, <1>9, <1>10, <1>11, <1>12 DEF IInv, Agree

\* The scheduler takes the event: nobody awaited it, so it is in no queue.
LEMMA EnqueueKeeps ==
  ASSUME IInv, NEW e \in Events, Enqueue(e)
  PROVE  IInv'
<1>1. QueueOf[e] \in Queues
  BY SchedulerAssumption DEF Enqueue, QueueEvent
<1>2. PICK q \in Queues : q = QueueOf[e]
  BY <1>1
<1>3. /\ queues \in [Queues -> Seq(Events)] /\ activeQueues \in SUBSET Queues
      /\ attempts \in [Events -> 0..AttemptCap] /\ 0 \in 0..AttemptCap
      /\ defer \in [Events -> {"none", "pending", "resolved", "rejected"}]
      /\ at \in [Queues -> {"idle", "called", "sending", "backoff"}]
      /\ held \in [Queues -> Events \union {NoEvent}]
      /\ flow \in [Events -> Flows] /\ status \in [Events -> Statuses]
  BY SchedulerAssumption DEF IInv, SendTypeOK, SchedTypeOK, AttemptCap
<1>4. /\ \A r \in Queues : QueueOK(r) /\ ChainOK(r)
      /\ \A d \in Events : EventOK(d)
      /\ procFn
  BY DEF IInv, Agree
<1>5. /\ flow[e] = "enqueue"
      /\ queues' = [queues EXCEPT ![q] = Append(@, e)]
      /\ attempts' = [attempts EXCEPT ![e] = 0]
      /\ defer' = [defer EXCEPT ![e] = "pending"]
      /\ flow' = [flow EXCEPT ![e] = "awaiting"]
      /\ StartProcessing(queues')
      /\ UNCHANGED <<procFn, pendingEventList, txnToEvent, localId, localRef, encrypted,
                     timeline, request, server>>
      /\ UpdateStatus(e, "queued") \/ status' = status
  BY <1>2, <1>4 DEF Enqueue, QueueEvent
<1>6. /\ defer[e] # "pending" /\ ~OnWire(e)
      /\ status[e] \notin {"none", "not_sent", "sent", "cancelled", "queued"}
  BY <1>1, <1>4, <1>5, SchedulerAssumption DEF EventOK
<1>7. e \notin Elems(queues[q]) /\ queues[q] \in Seq(Events) /\ Distinct(queues[q])
  BY <1>3, <1>4, <1>6 DEF QueueOK
<1>8. /\ Append(queues[q], e) \in Seq(Events)
      /\ Append(queues[q], e) # <<>>
      /\ Distinct(Append(queues[q], e))
      /\ Elems(Append(queues[q], e)) = Elems(queues[q]) \union {e}
      /\ queues[q] # <<>> => Head(Append(queues[q], e)) = Head(queues[q])
      /\ queues[q] = <<>> => Head(Append(queues[q], e)) = e
  BY <1>7, Appended
<1>9. /\ queues' \in [Queues -> Seq(Events)] /\ queues'[q] = Append(queues[q], e)
      /\ \A r \in Queues : r # q => queues'[r] = queues[r]
  BY <1>3, <1>5, <1>8
<1>10. /\ attempts' \in [Events -> 0..AttemptCap] /\ attempts'[e] = 0
       /\ defer' \in [Events -> {"none", "pending", "resolved", "rejected"}] /\ defer'[e] = "pending"
       /\ flow' \in [Events -> Flows] /\ flow'[e] = "awaiting"
       /\ \A d \in Events : d # e => /\ attempts'[d] = attempts[d]
                                     /\ defer'[d] = defer[d] /\ flow'[d] = flow[d]
  BY <1>3, <1>5 DEF Flows
<1>11. /\ status' \in [Events -> Statuses]
       /\ \A d \in Events : d # e => status'[d] = status[d]
       /\ status[e] \in LocalEcho <=> status'[e] \in LocalEcho
       /\ status'[e] \in {status[e], "queued"}
  BY <1>3, <1>5, UpdateStatusStep
<1>12. /\ activeQueues' = activeQueues \union {q}
       /\ \A r \in Queues : r # q \/ r \in activeQueues => at'[r] = at[r] /\ held'[r] = held[r]
       /\ q \notin activeQueues => at'[q] = "called" /\ held'[q] = e
  <2>1. \A r \in Queues : r # q /\ r \notin activeQueues => queues'[r] = <<>>
    BY <1>4, <1>9 DEF QueueOK
  <2>2. queues'[q] # <<>> /\ (q \notin activeQueues => Head(queues'[q]) = e)
    BY <1>4, <1>8, <1>9 DEF QueueOK
  <2> QED
    BY <1>3, <1>5, <2>1, <2>2 DEF StartProcessing
<1>13. /\ at' \in [Queues -> {"idle", "called", "sending", "backoff"}]
       /\ held' \in [Queues -> Events \union {NoEvent}]
  <2>1. \A r \in Queues : queues'[r] # <<>> => Head(queues'[r]) \in Events
    BY <1>9
  <2> QED
    BY <1>3, <1>5, <2>1 DEF StartProcessing
<1>14. ASSUME NEW r \in Queues
       PROVE  QueueOK(r)'
  <2>1. QueueOK(r)
    BY <1>4
  <2>2. CASE r = q
    <3>1. ASSUME NEW d \in Elems(queues'[q])
          PROVE  QueueOf[d] = q /\ defer'[d] = "pending" /\ status'[d] # "cancelled"
      <4>1. CASE d = e
        BY <1>2, <1>6, <1>10, <1>11, <4>1
      <4>2. CASE d # e
        <5>1. d \in Elems(queues[q])
          BY <1>8, <1>9, <4>2
        <5>2. d \in Events
          BY <1>3, <5>1 DEF Elems
        <5> QED
          BY <1>4, <1>10, <1>11, <4>2, <5>1, <5>2 DEF QueueOK
      <4> QED
        BY <4>1, <4>2
    <3>2. Distinct(queues'[q])
      BY <1>8, <1>9
    <3>3. q \in activeQueues' /\ at'[q] # "idle"
      BY <1>4, <1>12 DEF QueueOK
    <3>4. QueueOK(q)'
      BY <3>1, <3>2, <3>3 DEF QueueOK
    <3> QED
      BY <2>2, <3>4
  <2>3. CASE r # q
    <3>1. ASSUME NEW d \in Elems(queues[r])
          PROVE  d # e /\ d \in Events
      BY <1>3, <1>6, <2>1, <3>1 DEF QueueOK, Elems
    <3>2. queues'[r] = queues[r] /\ at'[r] = at[r] /\ (r \in activeQueues' <=> r \in activeQueues)
      BY <1>9, <1>12, <2>3
    <3> QED
      BY <1>10, <1>11, <2>1, <3>1, <3>2 DEF QueueOK
  <2> QED
    BY <2>2, <2>3
<1>15. ASSUME NEW r \in Queues
       PROVE  ChainOK(r)'
  <2>1. CASE r = q /\ q \notin activeQueues
    <3>1. at'[q] = "called" /\ held'[q] = e /\ queues[q] = <<>>
      BY <1>4, <1>12, <2>1 DEF QueueOK
    <3>2. ChainOK(q)'
      BY <1>2, <1>8, <1>9, <1>10, <3>1 DEF ChainOK, HoldsHead
    <3> QED
      BY <2>1, <3>2
  <2>2. CASE r # q \/ q \in activeQueues
    <3>1. at'[r] = at[r] /\ held'[r] = held[r] /\ ChainOK(r)
      BY <1>4, <1>12, <2>2
    <3>2. CASE at[r] \in {"called", "sending"}
      <4>1. held[r] \in Events /\ held[r] # e
        BY <1>6, <3>1, <3>2 DEF ChainOK
      <4>2. HoldsHead(r) => HoldsHead(r)'
        BY <1>8, <1>9, <3>1 DEF HoldsHead
      <4>3. QueueOf[held[r]] = r => (Forgotten(held[r]) => Forgotten(held[r])')
        <5>1. \A d \in Elems(queues'[r]) : d = e \/ d \in Elems(queues[r])
          BY <1>8, <1>9
        <5> QED
          BY <1>5, <1>10, <1>11, <3>1, <4>1, <5>1 DEF Forgotten, OnWire
      <4> QED
        BY <1>10, <1>11, <3>1, <3>2, <4>1, <4>2, <4>3 DEF ChainOK
    <3>3. CASE at[r] \notin {"called", "sending"}
      BY <3>1, <3>3 DEF ChainOK
    <3> QED
      BY <3>2, <3>3
  <2> QED
    BY <2>1, <2>2
<1>16. ASSUME NEW d \in Events
       PROVE  EventOK(d)'
  <2>1. EventOK(d) /\ (OnWire(d)' <=> OnWire(d))
    BY <1>4, <1>5 DEF OnWire
  <2>2. CASE d = e
    BY <1>1, <1>6, <1>10, <1>11, <2>1, <2>2, SchedulerAssumption DEF EventOK
  <2>3. CASE d # e
    <3>1. ASSUME QueueOf[d] # NoQueue, OnWire(d)
          PROVE  HoldsHead(QueueOf[d])' /\ at'[QueueOf[d]] = "sending" /\ held'[QueueOf[d]] = d
      <4>1. /\ QueueOf[d] \in Queues /\ at[QueueOf[d]] = "sending" /\ held[QueueOf[d]] = d
            /\ HoldsHead(QueueOf[d])
        BY <2>1, <3>1, SchedulerAssumption DEF EventOK
      <4>2. QueueOf[d] \in activeQueues
        BY <1>4, <4>1 DEF QueueOK
      <4> QED
        BY <1>8, <1>9, <1>12, <4>1, <4>2 DEF HoldsHead
    <3> QED
      BY <1>10, <1>11, <2>1, <2>3, <3>1 DEF EventOK
  <2> QED
    BY <2>2, <2>3
<1>17. SendTypeOK'
  BY <1>3, <1>5, <1>9, <1>10, <1>11, <1>12, <1>13 DEF IInv, SendTypeOK, SchedTypeOK, AttemptCap
<1>18. PendingListMatchesStatus'
  BY <1>5, <1>11, SamePendingList DEF IInv
<1> QED
  BY <1>4, <1>5, <1>14, <1>15, <1>16, <1>17, <1>18 DEF IInv, Agree
-----------------------------------------------------------------------------
LEMMA InitEstablishes ==
  ASSUME Init
  PROVE  IInv
<1>1. SendTypeOK
  <2>1. 0 \in 0..AttemptCap /\ <<>> \in Seq(Events)
    BY SchedulerAssumption DEF AttemptCap
  <2> QED
    BY <2>1 DEF Init, SchedIdle, SendTypeOK, SchedTypeOK, Statuses, Flows
<1>2. ASSUME NEW q \in Queues
      PROVE  QueueOK(q) /\ ChainOK(q)
  <2>1. queues[q] = <<>> /\ at[q] = "idle" /\ held[q] = NoEvent /\ activeQueues = {}
    BY DEF Init, SchedIdle
  <2>2. Elems(queues[q]) = {} /\ Distinct(queues[q])
    BY <2>1 DEF Elems, Distinct
  <2> QED
    BY <2>1, <2>2 DEF QueueOK, ChainOK
<1>3. ASSUME NEW e \in Events
      PROVE  EventOK(e)
  BY DEF Init, SchedIdle, EventOK, OnWire
<1>4. PendingListMatchesStatus
  BY DEF Init, PendingListMatchesStatus
<1> QED
  BY <1>1, <1>2, <1>3, <1>4 DEF IInv, Agree, Init

LEMMA NextKeeps ==
  ASSUME IInv, [Next]_vars
  PROVE  IInv'
<1>1. ASSUME NEW e \in Events, Application(e)
      PROVE  IInv'
  BY <1>1, SendEventKeeps, ResendEventKeeps, CancelKeeps DEF Application
<1>2. ASSUME NEW e \in Events, Encryption(e) \/ DirectRequestEnds(e)
      PROVE  IInv'
  BY <1>2, EncryptionKeeps, DirectRequestEndsKeeps
<1>3. ASSUME NEW e \in Events, Network(e)
      PROVE  IInv'
  BY <1>3, ServerKeeps, EchoKeeps DEF Network
<1>4. ASSUME NEW q \in Queues, RequestEnds(q) \/ RetryTimer(q)
      PROVE  IInv'
  BY <1>4, RequestSucceededKeeps, RequestFailedKeeps, RetryTimerKeeps DEF RequestEnds
<1>5. ASSUME Microtask
      PROVE  IInv'
  BY <1>5, StartSendKeeps, EnqueueKeeps, SendDirectlyKeeps, HandleSentKeeps, HandleFailedKeeps,
     ProcessEventKeeps, ProcessEventThrewKeeps DEF Microtask
<1>6. CASE UNCHANGED vars
  <2>1. /\ UNCHANGED <<procFn, queues, activeQueues, attempts, defer, at, held>>
        /\ UNCHANGED <<status, flow, pendingEventList, txnToEvent, localId, localRef, encrypted,
                       timeline, request, server>>
    BY <1>6 DEF vars, schedVars, sendVars
  <2>2. ASSUME NEW q \in Queues
        PROVE  QueueOK(q)' /\ ChainOK(q)'
    BY <2>1 DEF IInv, Agree, QueueOK, ChainOK, HoldsHead, Forgotten, OnWire
  <2>3. ASSUME NEW e \in Events
        PROVE  EventOK(e)'
    BY <2>1 DEF IInv, Agree, EventOK, HoldsHead, OnWire
  <2>4. SendTypeOK'
    BY <2>1 DEF IInv, SendTypeOK, SchedTypeOK, AttemptCap
  <2>5. PendingListMatchesStatus'
    BY <2>1 DEF IInv, PendingListMatchesStatus
  <2> QED
    BY <2>1, <2>2, <2>3, <2>4, <2>5 DEF IInv, Agree
<1> QED
  BY <1>1, <1>2, <1>3, <1>4, <1>5, <1>6 DEF Next

\* What the room, the client, the scheduler and the wire know of an event agrees
\* in every reachable state.
THEOREM SendInvariant == Spec => []IInv
<1>1. Init => IInv
  BY InitEstablishes
<1>2. IInv /\ [Next]_vars => IInv'
  BY NextKeeps
<1> QED
  BY <1>1, <1>2, PTL DEF Spec

\* Every variable of the client, the scheduler and the wire stays in its type.
THEOREM SendTypes == Spec => []SendTypeOK
<1>1. IInv => SendTypeOK
  BY DEF IInv
<1> QED
  BY <1>1, SendInvariant, PTL

\* The room shows an event as a local echo exactly while its status is one of a
\* local echo (Room.updatePendingEvent, addPendingEvent, _handleRemoteEcho).
THEOREM PendingListIsRight == Spec => []PendingListMatchesStatus
<1>1. IInv => PendingListMatchesStatus
  BY DEF IInv
<1> QED
  BY <1>1, SendInvariant, PTL

\* A sent, unsent or cancelled event is neither queued nor on its way: no retry,
\* timer or late answer sends it (cancelPendingEvent, resendEvent, _sendEvent).
THEOREM SettledEventsAreGone == Spec => []SettledLeavesScheduler
<1>1. ASSUME IInv, NEW e \in Events, status[e] \in {"sent", "not_sent", "cancelled"}
      PROVE  ~InQueue(e) /\ request[e] \notin {"open", "replied"}
  <2>1. EventOK(e)
    BY <1>1 DEF IInv, Agree
  <2>2. ~OnWire(e)
    BY <1>1, <2>1 DEF EventOK
  <2>3. ASSUME InQueue(e)
        PROVE  FALSE
    <3>1. QueueOf[e] \in Queues /\ e \in Elems(queues[QueueOf[e]])
      BY <2>3, SchedulerAssumption DEF InQueue, Elems
    <3>2. defer[e] = "pending" /\ status[e] # "cancelled"
      BY <1>1, <3>1 DEF IInv, Agree, QueueOK
    <3>3. flow[e] = "awaiting"
      BY <2>1, <3>1, <3>2, SchedulerAssumption DEF EventOK
    <3> QED
      BY <1>1, <2>1, <3>2, <3>3 DEF EventOK
  <2> QED
    BY <2>2, <2>3 DEF OnWire
<1>2. IInv => SettledLeavesScheduler
  BY <1>1 DEF SettledLeavesScheduler
<1> QED
  BY <1>2, SendInvariant, PTL

\* A queue has one request at a time, that of its head (_processQueue).
THEOREM OneRequestAtATime == Spec => []OneRequestPerQueue
<1>1. IInv => OneRequestPerQueue
  BY DEF IInv, Agree, EventOK, OnWire, HoldsHead, OneRequestPerQueue
<1> QED
  BY <1>1, SendInvariant, PTL

-----------------------------------------------------------------------------
\* What a step may do to the status of an event.
Kept(e) ==
  /\ status[e] = "echoed" => status'[e] = "echoed"
  /\ status[e] \in {"sent", "cancelled"} => status'[e] \in {status[e], "echoed"}

LEMMA StatusStep ==
  ASSUME IInv, [Next]_vars, NEW e \in Events
  PROVE  Kept(e)
<1>1. status \in [Events -> Statuses]
  BY DEF IInv, SendTypeOK
<1>2. ASSUME NEW d \in Events, NEW new, UpdateStatus(d, new)
      PROVE  Kept(e)
  BY <1>1, <1>2 DEF Kept, UpdateStatus, Legal, AllowedTransitions
<1>3. ASSUME NEW d \in Events, SendEvent(d)
      PROVE  Kept(e)
  BY <1>1, <1>3 DEF Kept, SendEvent
<1>4. ASSUME NEW d \in Events, RemoteEcho(d)
      PROVE  Kept(e)
  BY <1>1, <1>4 DEF Kept, RemoteEcho
<1>5. ASSUME UNCHANGED status
      PROVE  Kept(e)
  BY <1>5 DEF Kept
<1>6. ASSUME NEW d \in Events, Application(d)
      PROVE  Kept(e)
  BY <1>2, <1>3, <1>6 DEF Application, ResendEvent, CancelPendingEvent
<1>7. ASSUME NEW d \in Events, Encryption(d) \/ DirectRequestEnds(d) \/ Network(d)
      PROVE  Kept(e)
  BY <1>2, <1>4, <1>5, <1>7 DEF Encryption, EncryptionDone, EncryptionFailed, DirectRequestEnds,
     DirectSucceeded, DirectFailed, Network, ServerAccepts, EchoSkipped, Backfilled
<1>8. ASSUME NEW q \in Queues, RequestEnds(q) \/ RetryTimer(q)
      PROVE  Kept(e)
  BY <1>5, <1>8 DEF RequestEnds, RequestSucceeded, RequestFailed, RetryTimer, sendVars
<1>9. ASSUME NEW d \in Events,
             StartSend(d) \/ Enqueue(d) \/ SendDirectly(d) \/ HandleSent(d) \/ HandleFailed(d)
      PROVE  Kept(e)
  BY <1>2, <1>5, <1>9 DEF StartSend, Enqueue, SendDirectly, HandleSent, HandleFailed
<1>10. ASSUME NEW q \in Queues, ProcessEvent(q)
       PROVE  Kept(e)
  <2>1. at[q] = "called" /\ UpdateStatus(held[q], "sending")
    BY <1>10 DEF ProcessEvent, CallProcFn
  <2>2. held[q] \in Events
    BY <2>1 DEF IInv, Agree, ChainOK
  <2>3. PICK d \in Events : d = held[q]
    BY <2>2
  <2> QED
    BY <1>2, <2>1, <2>3
<1>11. ASSUME NEW q \in Queues, ProcessEventThrew(q)
       PROVE  Kept(e)
  BY <1>5, <1>11 DEF ProcessEventThrew
<1>12. CASE UNCHANGED vars
  BY <1>5, <1>12 DEF vars, sendVars
<1>13. ASSUME Microtask
       PROVE  Kept(e)
  BY <1>9, <1>10, <1>11, <1>13 DEF Microtask
<1>14. CASE Next
  BY <1>6, <1>7, <1>8, <1>13, <1>14 DEF Next
<1> QED
  BY <1>12, <1>14

\* Nothing revives an event whose echo has come: no late answer, retry, failure
\* or cancellation (updatePendingEvent, _handleRemoteEcho).
THEOREM EchoesAreFinal == Spec => EchoIsFinal
<1>1. IInv /\ [Next]_vars =>
        [\A e \in Events :
           /\ status[e] = "echoed" => status'[e] = "echoed"
           /\ status[e] \in {"sent", "cancelled"} => status'[e] \in {status[e], "echoed"}]_vars
  BY StatusStep DEF Kept
<1> QED
  BY <1>1, SendInvariant, PTL DEF Spec, EchoIsFinal

-----------------------------------------------------------------------------
\* Every step of the client is a step of the abstract FIFO or a stutter.
LEMMA StepRefines ==
  ASSUME IInv, [Next]_vars
  PROVE  [Fifo!Next]_(Fifo!vars)
<1>1. ASSUME UNCHANGED <<queues, defer>>
      PROVE  [Fifo!Next]_(Fifo!vars)
  BY <1>1 DEF Fifo!vars
<1>2. ASSUME NEW e \in Events, Enqueue(e)
      PROVE  Fifo!Next
  <2>1. QueueOf[e] \in Queues
    BY <1>2, SchedulerAssumption DEF Enqueue, QueueEvent
  <2>2. defer[e] # "pending"
    BY <1>2, <2>1, SchedulerAssumption DEF IInv, Agree, EventOK, Enqueue
  <2>3. Fifo!Submit(e)
    BY <1>2, <2>1, <2>2 DEF Enqueue, QueueEvent, Fifo!Submit
  <2> QED
    BY <2>3 DEF Fifo!Next
<1>3. ASSUME NEW e \in Events, CancelPendingEvent(e)
      PROVE  [Fifo!Next]_(Fifo!vars)
  <2>1. CASE InQueue(e)
    <3>1. RemoveEventFromQueue(e) /\ QueueOf[e] \in Queues
      BY <1>3, <2>1, SchedulerAssumption DEF CancelPendingEvent, InQueue
    <3>2. \E i \in 1..Len(queues[QueueOf[e]]) : Fifo!Withdraw(QueueOf[e], i)
      BY <3>1 DEF RemoveEventFromQueue, RemoveAt, Fifo!Withdraw
    <3> QED
      BY <3>1, <3>2 DEF Fifo!Next
  <2>2. CASE ~InQueue(e)
    BY <1>1, <1>3, <2>2 DEF CancelPendingEvent, schedVars
  <2> QED
    BY <2>1, <2>2
<1>4. ASSUME NEW q \in Queues, at[q] = "sending", HoldsHead(q),
             NEW result \in {"resolved", "rejected"},
             queues' = [queues EXCEPT ![q] = Shift(@)],
             defer' = [defer EXCEPT ![held[q]] = result]
      PROVE  Fifo!Next
  <2>1. /\ queues[q] # <<>> /\ held[q] = Head(queues[q]) /\ queues[q] \in Seq(Events)
        /\ defer[held[q]] = "pending"
    BY <1>4 DEF IInv, Agree, ChainOK, HoldsHead, SendTypeOK, SchedTypeOK
  <2>2. Shift(queues[q]) = Tail(queues[q])
    BY <2>1 DEF Shift
  <2>3. Fifo!Settle(q, result)
    BY <1>4, <2>1, <2>2 DEF Fifo!Settle
  <2> QED
    BY <2>3 DEF Fifo!Next
<1>5. ASSUME NEW q \in Queues, RequestSucceeded(q)
      PROVE  Fifo!Next
  <2>1. at[q] = "sending" /\ HoldsHead(q)
    BY <1>5, OnWireIsHead DEF RequestSucceeded, OnWire
  <2> QED
    BY <1>4, <1>5, <2>1 DEF RequestSucceeded, ProcFnResolved
<1>6. ASSUME NEW q \in Queues, NEW err, ProcFnRejected(q, err),
             HoldsHead(q) \/ ~GivesUp(err, FailedAttempts(held[q]))
      PROVE  [Fifo!Next]_(Fifo!vars)
  <2>1. CASE ProcFnGaveUp(q, err)
    <3>1. at[q] = "sending" /\ HoldsHead(q)
      BY <1>6, <2>1 DEF ProcFnGaveUp
    <3>2. Fifo!Next
      BY <1>4, <2>1, <3>1 DEF ProcFnGaveUp
    <3> QED
      BY <3>2
  <2>2. CASE ProcFnWillRetry(q, err)
    BY <1>1, <2>2 DEF ProcFnWillRetry
  <2> QED
    BY <1>6, <2>1, <2>2 DEF ProcFnRejected
<1>7. ASSUME NEW q \in Queues, NEW err \in Errors, RequestFailed(q, err)
      PROVE  [Fifo!Next]_(Fifo!vars)
  <2>1. at[q] = "sending" /\ HoldsHead(q)
    BY <1>7, OnWireIsHead DEF RequestFailed, Failure, OnWire
  <2> QED
    BY <1>6, <1>7, <2>1 DEF RequestFailed
<1>8. ASSUME NEW q \in Queues, ProcessEventThrew(q)
      PROVE  [Fifo!Next]_(Fifo!vars)
  <2>1. HoldsHead(q) \/ ~GivesUp("other", FailedAttempts(held[q]))
    BY <1>8, ForgottenIsRetried, OnWireIsHead DEF ProcessEventThrew, Refused
  <2> QED
    BY <1>6, <1>8, <2>1 DEF ProcessEventThrew
<1>9. ASSUME NEW e \in Events,
             \/ SendEvent(e) \/ ResendEvent(e) \/ Encryption(e) \/ DirectRequestEnds(e) \/ Network(e)
             \/ StartSend(e) \/ SendDirectly(e) \/ HandleSent(e) \/ HandleFailed(e)
      PROVE  [Fifo!Next]_(Fifo!vars)
  <2>1. UNCHANGED schedVars
    BY <1>9 DEF SendEvent, ResendEvent, Encryption, EncryptionDone, EncryptionFailed,
       DirectRequestEnds, DirectSucceeded, DirectFailed, Network, ServerAccepts, RemoteEcho,
       EchoSkipped, Backfilled, StartSend, SendDirectly, HandleSent, HandleFailed
  <2> QED
    BY <1>1, <2>1 DEF schedVars
<1>10. ASSUME NEW q \in Queues, ProcessEvent(q) \/ RetryTimer(q)
       PROVE  [Fifo!Next]_(Fifo!vars)
  BY <1>1, <1>10 DEF ProcessEvent, CallProcFn, RetryTimer, BackoffElapsed
<1>11. CASE UNCHANGED vars
  BY <1>1, <1>11 DEF vars, schedVars
<1> QED
  BY <1>2, <1>3, <1>5, <1>7, <1>8, <1>9, <1>10, <1>11
     DEF Next, Application, Microtask, RequestEnds

\* The client, whatever its users cancel, drives the scheduler as the FIFO that
\* the queue algorithm's documentation promises: "serviced in a FIFO manner".
THEOREM ClientImplementsFifo == Spec => ImplementsFifo
<1>1. Init => Fifo!Init
  BY DEF Init, SchedIdle, Fifo!Init
<1>2. IInv /\ [Next]_vars => [Fifo!Next]_(Fifo!vars)
  BY StepRefines
<1> QED
  BY <1>1, <1>2, SendInvariant, PTL DEF Spec, ImplementsFifo, Fifo!Spec
-----------------------------------------------------------------------------
\* The room knows an event by its local id until it has been sent or echoed.  A
\* send that has been resolved without either is about to be handled, unless
\* back-pagination brought the event first: HandleSent then finds it there.
LocalOK(e) ==
  /\ flow[e] \in {"start", "enqueue", "awaiting", "resolved"} => status[e] # "encrypting"
  /\ QueueOf[e] = NoQueue => defer[e] = "none"
  /\ e \in localId => status[e] # "echoed" /\ (e \in timeline => server[e] = "skipped")
  /\ e \in localId /\ defer[e] = "resolved" /\ server[e] # "skipped" =>
       flow[e] = "resolved" /\ status[e] = "sending"

\* A relation names the local id of another event, and waits for its handlers.
RelationOK(r) ==
  /\ RelatesTo[r] \in localId /\ RelatesTo[r] # r
  /\ defer[RelatesTo[r]] = "resolved" /\ server[RelatesTo[r]] # "skipped" => ~OnWire(r)

RInv ==
  /\ \A e \in Events : LocalOK(e)
  /\ \A r \in localRef : RelationOK(r)

\* A step that takes no relation to the wire and resolves no promise.
LEMMA RelationsKept ==
  ASSUME RInv, localRef' \subseteq localRef,
         \A r \in localRef' : RelatesTo[r] \in localId',
         \A r \in localRef' : OnWire(r)' => OnWire(r),
         \A r \in localRef' : defer'[RelatesTo[r]] = "resolved" => defer[RelatesTo[r]] = "resolved",
         \A r \in localRef' : server[RelatesTo[r]] = "skipped" => server'[RelatesTo[r]] = "skipped"
  PROVE  \A r \in localRef' : RelationOK(r)'
<1>1. ASSUME NEW r \in localRef'
      PROVE  RelationOK(r)'
  <2>1. RelationOK(r)
    BY DEF RInv
  <2> QED
    BY <2>1 DEF RelationOK
<1> QED
  BY <1>1

\* The application, and the steps of a send that stay in the client.
LEMMA ClientStepKeepsRelations ==
  ASSUME IInv, RInv, NEW e \in Events,
         ResendEvent(e) \/ CancelPendingEvent(e) \/ StartSend(e) \/ Encryption(e) \/ HandleFailed(e)
  PROVE  RInv'
<1>1. /\ UNCHANGED <<localId, localRef, timeline, server, request, defer>>
      /\ \A d \in Events : d # e => flow'[d] = flow[d] /\ status'[d] = status[d]
  BY DEF IInv, SendTypeOK, ResendEvent, CancelPendingEvent, StartSend, Encryption, EncryptionDone,
     EncryptionFailed, HandleFailed, UpdateStatus, RemoveEventFromQueue, schedVars
<1>2. /\ status \in [Events -> Statuses] /\ flow \in [Events -> Flows]
      /\ LocalOK(e) /\ EventOK(e)
  BY DEF IInv, SendTypeOK, RInv, Agree
<1>3. status[e] # "echoed" => status'[e] # "echoed"
  BY <1>2 DEF ResendEvent, CancelPendingEvent, StartSend, Encryption, EncryptionDone,
     EncryptionFailed, HandleFailed, UpdateStatus
<1>4. /\ flow[e] # "resolved" \/ status[e] # "sending"
      /\ flow'[e] \in {"start", "enqueue", "awaiting", "resolved"} => status'[e] # "encrypting"
  <2>1. CASE ResendEvent(e)
    BY <1>2, <2>1 DEF ResendEvent, UpdateStatus, Legal, AllowedTransitions
  <2>2. CASE CancelPendingEvent(e)
    BY <1>2, <2>2 DEF CancelPendingEvent, UpdateStatus, Legal, AllowedTransitions, Cancellable
  <2>3. CASE StartSend(e)
    BY <1>2, <2>3 DEF StartSend, LocalOK
  <2>4. CASE Encryption(e)
    BY <1>2, <2>4 DEF Encryption, EncryptionDone, EncryptionFailed, UpdateStatus, Legal,
       AllowedTransitions
  <2>5. CASE HandleFailed(e)
    BY <1>2, <2>5 DEF HandleFailed
  <2> QED
    BY <2>1, <2>2, <2>3, <2>4, <2>5
<1>5. ASSUME NEW d \in Events
      PROVE  LocalOK(d)'
  <2>1. LocalOK(d)
    BY DEF RInv
  <2>2. CASE d = e
    BY <1>1, <1>3, <1>4, <2>1, <2>2 DEF LocalOK
  <2>3. CASE d # e
    BY <1>1, <2>1, <2>3 DEF LocalOK
  <2> QED
    BY <2>2, <2>3
<1>6. \A r \in localRef : RelatesTo[r] \in localId
  BY DEF RInv, RelationOK
<1>7. \A r \in localRef' : RelationOK(r)'
  BY <1>1, <1>6, RelationsKept DEF OnWire
<1> QED
  BY <1>5, <1>7 DEF RInv

\* A relation is made against a local id while its target is a local echo: its
\* own send is yet to start.
LEMMA SendEventKeepsRelations ==
  ASSUME IInv, RInv, NEW e \in Events, SendEvent(e)
  PROVE  RInv'
<1>1. /\ UNCHANGED <<localId, timeline, server, request, defer>>
      /\ status[e] = "none"
      /\ flow'[e] \in {"none", "start"} /\ status'[e] \in {"sending", "not_sent"}
      /\ \A d \in Events : d # e => flow'[d] = flow[d] /\ status'[d] = status[d]
      /\ \/ localRef' = localRef
         \/ /\ localRef' = localRef \union {e}
            /\ RelatesTo[e] \in localId
            /\ RelatesTo[e] # NoEvent => status[RelatesTo[e]] # "none"
  BY DEF IInv, SendTypeOK, SendEvent, schedVars
<1>2. EventOK(e) /\ localId \subseteq Events
  BY DEF IInv, Agree, SendTypeOK
<1>3. ~OnWire(e) /\ flow[e] = "none"
  BY <1>1, <1>2 DEF EventOK
<1>4. ASSUME NEW d \in Events
      PROVE  LocalOK(d)'
  <2>1. LocalOK(d)
    BY DEF RInv
  <2>2. CASE d = e
    BY <1>1, <1>3, <2>1, <2>2 DEF LocalOK
  <2>3. CASE d # e
    BY <1>1, <2>1, <2>3 DEF LocalOK
  <2> QED
    BY <2>2, <2>3
<1>5. ASSUME NEW r \in localRef'
      PROVE  RelationOK(r)'
  <2>1. CASE r \in localRef
    BY <1>1, <2>1 DEF RInv, RelationOK, OnWire
  <2>2. CASE r = e /\ r \notin localRef
    <3>1. RelatesTo[e] \in localId /\ RelatesTo[e] # e
      BY <1>1, <1>2, <2>2, SchedulerAssumption
    <3>2. ~OnWire(e)'
      BY <1>1, <1>3 DEF OnWire
    <3> QED
      BY <1>1, <2>2, <3>1, <3>2 DEF RelationOK
  <2> QED
    BY <1>1, <2>1, <2>2
<1> QED
  BY <1>4, <1>5 DEF RInv

\* The handlers of a successful send: the event is no longer known by its local
\* id, and the relations to it name its remote one.
LEMMA HandleSentKeepsRelations ==
  ASSUME IInv, RInv, NEW e \in Events, HandleSent(e)
  PROVE  RInv'
<1>1. /\ UNCHANGED <<timeline, server, request, defer>>
      /\ flow[e] = "resolved" /\ flow'[e] = "none"
      /\ \A d \in Events : d # e => flow'[d] = flow[d] /\ status'[d] = status[d]
      /\ status'[e] \in {status[e], "sent"}
      /\ localId' \subseteq localId /\ localRef' \subseteq localRef
  BY DEF IInv, SendTypeOK, HandleSent, UpdateStatus, ReplaceLocalId, schedVars
<1>2. LocalOK(e)
  BY DEF RInv
<1>3. e \in localId' /\ defer[e] = "resolved" => server[e] = "skipped"
  <2>1. CASE e \notin timeline /\ Legal(e, "sent")
    BY <2>1 DEF HandleSent, ReplaceLocalId
  <2>2. CASE ~(e \notin timeline /\ Legal(e, "sent"))
    <3>1. UNCHANGED <<status, localId, localRef>>
      BY <2>2 DEF HandleSent
    <3> QED
      BY <1>2, <2>2, <3>1 DEF LocalOK, Legal, AllowedTransitions
  <2> QED
    BY <2>1, <2>2
<1>4. ASSUME NEW d \in Events
      PROVE  LocalOK(d)'
  <2>1. LocalOK(d)
    BY DEF RInv
  <2>2. CASE d = e
    BY <1>1, <1>3, <2>1, <2>2 DEF LocalOK
  <2>3. CASE d # e
    BY <1>1, <2>1, <2>3 DEF LocalOK
  <2> QED
    BY <2>2, <2>3
<1>5. \A r \in localRef' : RelatesTo[r] \in localId'
  <2>1. \A r \in localRef : RelatesTo[r] \in localId
    BY DEF RInv, RelationOK
  <2> QED
    BY <2>1 DEF HandleSent, ReplaceLocalId
<1>6. \A r \in localRef' : RelationOK(r)'
  BY <1>1, <1>5, RelationsKept DEF OnWire
<1> QED
  BY <1>4, <1>6 DEF RInv

\* The server takes an event, and sync or back-pagination shows it.
LEMMA NetworkKeepsRelations ==
  ASSUME IInv, RInv, NEW e \in Events, Network(e)
  PROVE  RInv'
<1>1. /\ UNCHANGED <<flow, defer>>
      /\ server \in [Events -> {"unseen", "accepted", "skipped", "synced"}]
      /\ request \in [Events -> {"none", "open", "replied", "stray"}]
      /\ status \in [Events -> Statuses] /\ timeline \subseteq Events
  BY DEF IInv, SendTypeOK, Network, ServerAccepts, RemoteEcho, EchoSkipped, Backfilled, schedVars
<1>2. /\ \A d \in Events : server[d] = "skipped" => server'[d] = "skipped"
      /\ \A d \in Events : OnWire(d)' <=> OnWire(d)
      /\ localRef' \subseteq localRef /\ localId' \subseteq localId
      /\ \A d \in localId' : status'[d] = status[d]
      /\ \A d \in localId' : d \in timeline' /\ d \notin timeline => server'[d] = "skipped"
  <2>1. CASE ServerAccepts(e)
    BY <1>1, <2>1 DEF ServerAccepts, OnWire
  <2>2. CASE RemoteEcho(e)
    BY <1>1, <2>2 DEF RemoteEcho, OnWire, ReplaceLocalId
  <2>3. CASE EchoSkipped(e) \/ Backfilled(e)
    BY <1>1, <2>3 DEF EchoSkipped, Backfilled, OnWire
  <2> QED
    BY <2>1, <2>2, <2>3 DEF Network
<1>3. ASSUME NEW d \in Events
      PROVE  LocalOK(d)'
  <2>1. LocalOK(d)
    BY DEF RInv
  <2>2. flow'[d] \in {"start", "enqueue", "awaiting", "resolved"} => status'[d] # "encrypting"
    <3>1. status'[d] \in {status[d], "echoed"}
      BY <1>1 DEF Network, ServerAccepts, RemoteEcho, EchoSkipped, Backfilled
    <3> QED
      BY <1>1, <2>1, <3>1 DEF LocalOK
  <2> QED
    BY <1>1, <1>2, <2>1, <2>2 DEF LocalOK
<1>4. \A r \in localRef' : RelatesTo[r] \in localId'
  <2>1. \A r \in localRef : RelatesTo[r] \in localId
    BY DEF RInv, RelationOK
  <2> QED
    BY <2>1 DEF Network, ServerAccepts, RemoteEcho, EchoSkipped, Backfilled, ReplaceLocalId
<1>5. ASSUME NEW r \in localRef'
      PROVE  /\ OnWire(r)' => OnWire(r)
             /\ server[RelatesTo[r]] = "skipped" => server'[RelatesTo[r]] = "skipped"
  <2>1. r \in Events /\ RelatesTo[r] \in Events
    BY <1>2, <1>4 DEF IInv, SendTypeOK
  <2> QED
    BY <1>2, <2>1
<1>6. \A r \in localRef' : RelationOK(r)'
  BY <1>1, <1>2, <1>4, <1>5, RelationsKept
<1> QED
  BY <1>3, <1>6 DEF RInv

\* An event that is not queued has no promise of the scheduler.
LEMMA DirectStepKeepsRelations ==
  ASSUME IInv, RInv, NEW e \in Events, SendDirectly(e) \/ DirectRequestEnds(e)
  PROVE  RInv'
<1>1. /\ UNCHANGED <<status, localId, localRef, timeline, server, defer>>
      /\ QueueOf[e] = NoQueue
      /\ \A d \in Events : d # e => flow'[d] = flow[d] /\ request'[d] = request[d]
      /\ flow'[e] \in {"awaiting", "resolved", "rejected"}
      /\ flow[e] \in {"enqueue", "awaiting"} \/ OnWire(e)
  BY DEF IInv, SendTypeOK, SendDirectly, DirectRequestEnds, DirectSucceeded, DirectFailed, Failure,
     schedVars, OnWire
<1>2. LocalOK(e) /\ EventOK(e)
  BY DEF RInv, IInv, Agree
<1>3. flow[e] \in {"enqueue", "awaiting"}
  BY <1>1, <1>2 DEF EventOK
<1>4. ASSUME NEW d \in Events
      PROVE  LocalOK(d)'
  <2>1. LocalOK(d)
    BY DEF RInv
  <2>2. CASE d = e
    BY <1>1, <1>2, <1>3, <2>2 DEF LocalOK
  <2>3. CASE d # e
    BY <1>1, <2>1, <2>3 DEF LocalOK
  <2> QED
    BY <2>2, <2>3
<1>5. ASSUME NEW r \in localRef
      PROVE  RelatesTo[r] \in localId /\ request'[r] = request[r]
  <2>1. r \in Events /\ RelatesTo[r] # NoEvent
    BY DEF IInv, SendTypeOK
  <2>2. r # e
    BY <1>1, <2>1, RelationAssumption
  <2> QED
    BY <1>1, <2>1, <2>2 DEF RInv, RelationOK
<1>6. \A r \in localRef' : RelationOK(r)'
  BY <1>1, <1>5, RelationsKept DEF OnWire
<1> QED
  BY <1>4, <1>6 DEF RInv

LEMMA EnqueueKeepsRelations ==
  ASSUME IInv, RInv, NEW e \in Events, Enqueue(e)
  PROVE  RInv'
<1>1. /\ UNCHANGED <<localId, localRef, timeline, server, request>>
      /\ flow[e] = "enqueue" /\ flow'[e] = "awaiting" /\ defer'[e] = "pending"
      /\ QueueOf[e] # NoQueue
      /\ \A d \in Events : d # e => /\ flow'[d] = flow[d] /\ status'[d] = status[d]
                                    /\ defer'[d] = defer[d]
      /\ status'[e] \in {status[e], "queued"}
  BY DEF IInv, SendTypeOK, SchedTypeOK, Enqueue, QueueEvent, UpdateStatus
<1>2. ASSUME NEW d \in Events
      PROVE  LocalOK(d)'
  <2>1. LocalOK(d)
    BY DEF RInv
  <2>2. CASE d = e
    BY <1>1, <2>1, <2>2 DEF LocalOK
  <2>3. CASE d # e
    BY <1>1, <2>1, <2>3 DEF LocalOK
  <2> QED
    BY <2>2, <2>3
<1>3. ASSUME NEW r \in localRef
      PROVE  /\ RelatesTo[r] \in localId
             /\ defer'[RelatesTo[r]] = "resolved" => defer[RelatesTo[r]] = "resolved"
  <2>1. RelatesTo[r] \in localId /\ localId \subseteq Events
    BY DEF RInv, RelationOK, IInv, SendTypeOK
  <2> QED
    BY <1>1, <2>1
<1>4. \A r \in localRef' : RelationOK(r)'
  BY <1>1, <1>3, RelationsKept DEF OnWire
<1> QED
  BY <1>2, <1>4 DEF RInv

\* The process function is called when no handler of a resolved send waits.
LEMMA ProcessEventKeepsRelations ==
  ASSUME IInv, RInv, NEW q \in Queues, ProcessEvent(q)
  PROVE  RInv'
<1>1. held[q] \in Events /\ defer[held[q]] = "pending" /\ flow[held[q]] = "awaiting"
  <2>1. held[q] \in Events /\ defer[held[q]] = "pending" /\ QueueOf[held[q]] = q
    BY DEF IInv, Agree, ChainOK, ProcessEvent, CallProcFn
  <2> QED
    BY <2>1, SchedulerAssumption DEF IInv, Agree, EventOK
<1>2. PICK e \in Events : e = held[q]
  BY <1>1
<1>3. /\ UNCHANGED <<flow, localId, localRef, timeline, server, defer>>
      /\ HandlersDone
      /\ \A d \in Events : d # e => status'[d] = status[d]
      /\ status'[e] \in {status[e], "sending"}
  BY <1>2 DEF IInv, SendTypeOK, ProcessEvent, CallProcFn, UpdateStatus
<1>4. ASSUME NEW d \in Events
      PROVE  LocalOK(d)'
  <2>1. LocalOK(d)
    BY DEF RInv
  <2>2. CASE d = e
    BY <1>1, <1>2, <1>3, <2>1, <2>2 DEF LocalOK
  <2>3. CASE d # e
    BY <1>3, <2>1, <2>3 DEF LocalOK
  <2> QED
    BY <2>2, <2>3
<1>5. ASSUME NEW r \in localRef
      PROVE  RelationOK(r)'
  <2>1. RelationOK(r) /\ localId \subseteq Events
    BY DEF RInv, IInv, SendTypeOK
  <2>2. LocalOK(RelatesTo[r]) /\ flow[RelatesTo[r]] # "resolved"
    BY <1>3, <2>1 DEF RInv, RelationOK, HandlersDone
  <2> QED
    BY <1>3, <2>1, <2>2 DEF RelationOK, LocalOK
<1> QED
  BY <1>3, <1>4, <1>5 DEF RInv

\* A failed or refused attempt resolves nothing.
LEMMA RejectedKeepsRelations ==
  ASSUME IInv, RInv, NEW q \in Queues,
         ProcessEventThrew(q) \/ (\E err \in Errors : RequestFailed(q, err))
  PROVE  RInv'
<1>1. at[q] = "sending"
  BY DEF ProcessEventThrew, RequestFailed, Refused
<1>2. held[q] \in Events /\ QueueOf[held[q]] = q /\ defer[held[q]] = "pending"
  BY <1>1 DEF IInv, Agree, ChainOK
<1>3. PICK e \in Events : e = held[q]
  BY <1>2
<1>4. /\ UNCHANGED <<status, localId, localRef, timeline, server>>
      /\ \A d \in Events : d # e => /\ flow'[d] = flow[d] /\ defer'[d] = defer[d]
                                    /\ request'[d] = request[d]
      /\ OnWire(e)' => OnWire(e)
      /\ flow'[e] \in {flow[e], "rejected"}
      /\ defer'[e] # "resolved"
  <2>1. /\ request \in [Events -> {"none", "open", "replied", "stray"}]
        /\ flow \in [Events -> Flows]
        /\ defer \in [Events -> {"none", "pending", "resolved", "rejected"}]
    BY DEF IInv, SendTypeOK, SchedTypeOK
  <2>2. CASE ProcessEventThrew(q)
    BY <1>2, <1>3, <2>1, <2>2 DEF ProcessEventThrew, ProcFnRejected, ProcFnGaveUp, ProcFnWillRetry,
       OnWire
  <2>3. CASE \E err \in Errors : RequestFailed(q, err)
    BY <1>2, <1>3, <2>1, <2>3 DEF RequestFailed, Failure, ProcFnRejected, ProcFnGaveUp,
       ProcFnWillRetry, OnWire
  <2> QED
    BY <2>2, <2>3
<1>5. QueueOf[e] # NoQueue
  BY <1>2, <1>3, SchedulerAssumption
<1>6. ASSUME NEW d \in Events
      PROVE  LocalOK(d)'
  <2>1. LocalOK(d)
    BY DEF RInv
  <2>2. CASE d = e
    BY <1>4, <1>5, <2>1, <2>2 DEF LocalOK
  <2>3. CASE d # e
    BY <1>4, <2>1, <2>3 DEF LocalOK
  <2> QED
    BY <2>2, <2>3
<1>7. ASSUME NEW r \in localRef
      PROVE  /\ RelatesTo[r] \in localId
             /\ OnWire(r)' => OnWire(r)
             /\ defer'[RelatesTo[r]] = "resolved" => defer[RelatesTo[r]] = "resolved"
  <2>1. r \in Events /\ RelatesTo[r] \in localId /\ localId \subseteq Events
    BY DEF RInv, RelationOK, IInv, SendTypeOK
  <2>2. OnWire(r)' => OnWire(r)
    BY <1>4, <2>1 DEF OnWire
  <2> QED
    BY <1>4, <2>1, <2>2
<1>8. \A r \in localRef' : RelationOK(r)'
  BY <1>4, <1>7, RelationsKept
<1> QED
  BY <1>6, <1>8 DEF RInv

\* An answered request is the only one of its queue: no relation to the sent
\* event is on the wire.
LEMMA RequestSucceededKeepsRelations ==
  ASSUME IInv, RInv, NEW q \in Queues, RequestSucceeded(q)
  PROVE  RInv'
<1>1. at[q] = "sending" /\ request[held[q]] = "replied"
  BY DEF RequestSucceeded
<1>2. /\ held[q] \in Events /\ QueueOf[held[q]] = q /\ defer[held[q]] = "pending"
      /\ status[held[q]] \notin {"queued", "not_sent"}
  BY <1>1 DEF IInv, Agree, ChainOK
<1>3. PICK e \in Events : e = held[q]
  BY <1>2
<1>4. EventOK(e) /\ LocalOK(e) /\ QueueOf[e] # NoQueue /\ OnWire(e)
  BY <1>1, <1>2, <1>3, SchedulerAssumption DEF IInv, Agree, RInv, OnWire
<1>5. e \in localId => status[e] = "sending"
  <2>1. flow[e] = "awaiting" /\ status[e] \in Statuses
    BY <1>4 DEF EventOK, IInv, SendTypeOK
  <2>2. status[e] \notin {"none", "not_sent", "sent", "cancelled", "queued", "encrypting"}
    BY <1>2, <1>3, <1>4, <2>1 DEF EventOK, LocalOK
  <2> QED
    BY <1>4, <2>1, <2>2 DEF LocalOK, Statuses
<1>6. /\ UNCHANGED <<status, localId, localRef, timeline, server>>
      /\ \A d \in Events : d # e => /\ flow'[d] = flow[d] /\ defer'[d] = defer[d]
                                    /\ request'[d] = request[d]
      /\ request'[e] = "none" /\ flow'[e] = "resolved"
  BY <1>3 DEF IInv, SendTypeOK, SchedTypeOK, RequestSucceeded, ProcFnResolved
<1>7. ASSUME NEW d \in Events
      PROVE  LocalOK(d)'
  <2>1. LocalOK(d)
    BY DEF RInv
  <2>2. CASE d = e
    BY <1>4, <1>5, <1>6, <2>1, <2>2 DEF LocalOK, EventOK
  <2>3. CASE d # e
    BY <1>6, <2>1, <2>3 DEF LocalOK
  <2> QED
    BY <2>2, <2>3
<1>8. ASSUME NEW r \in localRef
      PROVE  RelationOK(r)'
  <2>1. /\ r \in Events /\ RelatesTo[r] # NoEvent /\ RelationOK(r)
        /\ RelatesTo[r] \in Events /\ RelatesTo[r] # r
    BY DEF RInv, RelationOK, IInv, SendTypeOK
  <2>2. CASE r = e
    BY <1>6, <2>1, <2>2 DEF RelationOK, OnWire
  <2>3. CASE r # e /\ RelatesTo[r] # e
    BY <1>6, <2>1, <2>3 DEF RelationOK, OnWire
  <2>4. CASE r # e /\ RelatesTo[r] = e
    <3>1. QueueOf[r] = q /\ QueueOf[r] # NoQueue
      BY <1>2, <1>3, <1>4, <2>1, <2>4, RelationAssumption
    <3>2. ~OnWire(r)
      BY <1>3, <2>1, <2>4, <3>1 DEF IInv, Agree, EventOK
    <3> QED
      BY <1>6, <2>1, <2>4, <3>2 DEF RelationOK, OnWire
  <2> QED
    BY <2>2, <2>3, <2>4
<1> QED
  BY <1>6, <1>7, <1>8 DEF RInv

LEMMA NextKeepsRelations ==
  ASSUME IInv, RInv, [Next]_vars
  PROVE  RInv'
<1>1. ASSUME NEW e \in Events, Application(e) \/ Encryption(e) \/ DirectRequestEnds(e) \/ Network(e)
      PROVE  RInv'
  BY <1>1, SendEventKeepsRelations, ClientStepKeepsRelations, DirectStepKeepsRelations,
     NetworkKeepsRelations DEF Application
<1>2. ASSUME NEW q \in Queues, RequestEnds(q)
      PROVE  RInv'
  BY <1>2, RequestSucceededKeepsRelations, RejectedKeepsRelations DEF RequestEnds
<1>3. ASSUME Microtask
      PROVE  RInv'
  BY <1>3, ClientStepKeepsRelations, EnqueueKeepsRelations, DirectStepKeepsRelations,
     HandleSentKeepsRelations, ProcessEventKeepsRelations, RejectedKeepsRelations DEF Microtask
<1>4. ASSUME UNCHANGED <<sendVars, defer>>
      PROVE  RInv'
  <2>1. UNCHANGED <<status, flow, localId, localRef, timeline, request, server, defer>>
    BY <1>4 DEF sendVars
  <2>2. ASSUME NEW e \in Events
        PROVE  LocalOK(e)'
    BY <2>1 DEF RInv, LocalOK
  <2>3. ASSUME NEW r \in localRef'
        PROVE  RelationOK(r)'
    BY <2>1 DEF RInv, RelationOK, OnWire
  <2> QED
    BY <2>2, <2>3 DEF RInv
<1>5. ASSUME NEW q \in Queues, RetryTimer(q)
      PROVE  RInv'
  BY <1>4, <1>5 DEF RetryTimer, BackoffElapsed
<1>6. CASE UNCHANGED vars
  BY <1>4, <1>6 DEF vars, schedVars
<1> QED
  BY <1>1, <1>2, <1>3, <1>5, <1>6 DEF Next

\* When the send of an event has been resolved, no request still names its local
\* id, unless back-pagination brought the event first: _processQueue waits for a
\* microtask so that relations and redactions learn the remote id of their target.
THEOREM RelationsLearnTheirTarget == Spec => []RelationWaitsForTarget
<1>1. Init => IInv /\ RInv
  <2>1. ASSUME Init
        PROVE  RInv
    BY <2>1 DEF Init, SchedIdle, RInv, LocalOK, RelationOK
  <2> QED
    BY <2>1, InitEstablishes
<1>2. IInv /\ RInv /\ [Next]_vars => (IInv /\ RInv)'
  BY NextKeeps, NextKeepsRelations
<1>3. IInv /\ RInv => RelationWaitsForTarget
  BY DEF RInv, RelationOK, OnWire, RelationWaitsForTarget
<1> QED
  BY <1>1, <1>2, <1>3, PTL DEF Spec
==============================================================================
