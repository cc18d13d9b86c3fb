-------------------------- MODULE KeySharingProofs --------------------------
(***************************************************************************)
(* Theorems about room key requests, for any tabs over one store, any      *)
(* failures and reloads: a request that waits to be sent or cancelled has  *)
(* somebody who will; a record that goes was called off; and a request     *)
(* that was called off does not wait for a dialog at the other device.     *)
(*                                                                         *)
(* The invariant says who that is.  A request that is UNSENT has a timer,  *)
(* for whoever made it UNSENT has started one, or is a loop, whose timer   *)
(* counts as running until it has found nothing to do (LoopHasTimer).  A   *)
(* request that is being cancelled has one too, or the cancellation that   *)
(* the call has sent at once is still in flight (SenderForPending); what   *)
(* such a job may carry is JobsCarry.                                      *)
(*                                                                         *)
(* What the server has taken is known from the transaction ids (TxnInv):   *)
(* an id is made for one message about one record, so an id the server     *)
(* knows says that the message is in the other device's queue.             *)
(* CancelledIsNoted follows a cancellation through the receiver's queues.  *)
(***************************************************************************)
EXTENDS KeySharing, TLAPS

USE OutgoingAssumption, KeySharingAssumption

InFlight == {"out", "accepted"}

\* What a job in a slot carries.
Carries(s, j) ==
  /\ j.stage \in InFlight <=> j.kind \in Messages
  /\ j.kind \notin {"none", "read", "add"} => j.req \in Record
  /\ j.kind \in {"cancel", "cancelResend"} => j.req.cancelTxn # 0
  /\ s = "cancel" => j.kind \in {"none", "cancel"}
  /\ s = "call" => j.kind \notin {"request", "cancel"}

JobsCarry == \A t \in Tabs, s \in Slots : Carries(s, job[t][s])

LoopHasTimer == \A t \in Tabs : job[t]["loop"].kind # "none" => timer[t] # "none"

CancelTxnMade == store.state \in {"cancelling", "cancellingWillResend"} => store.cancelTxn # 0

Sends(t) ==
  \/ timer[t] # "none"
  \/ /\ store.state = "cancelling"
     /\ job[t]["cancel"].stage \in InFlight /\ job[t]["cancel"].req.id = store.id
  \/ store.state = "cancellingWillResend" /\ job[t]["call"].stage \in InFlight

SenderForPending == store.state \in Pending => \E t \in Tabs : Sends(t)

OutInv ==
  /\ OutTypeOK /\ JobsCarry /\ LoopHasTimer /\ CancelTxnMade /\ SenderForPending

TimerStates == {"none", "set", "running"}

-----------------------------------------------------------------------------
\* A job takes the place of another in its slot.
LEMMA JobStep ==
  ASSUME OutInv, NEW t \in Tabs, NEW s \in Slots, NEW j \in Job, Carries(s, j),
         job' = [job EXCEPT ![t][s] = j],
         timer' \in [Tabs -> TimerStates], \A u \in Tabs : u # t => timer'[u] = timer[u],
         s = "loop" /\ j.kind # "none" => timer'[t] # "none",
         s # "loop" /\ timer[t] # "none" => timer'[t] # "none"
  PROVE  /\ job' \in [Tabs -> [Slots -> Job]]
         /\ job'[t][s] = j
         /\ \A u \in Tabs, r \in Slots : u # t \/ r # s => job'[u][r] = job[u][r]
         /\ JobsCarry' /\ LoopHasTimer'
<1>1. /\ job' \in [Tabs -> [Slots -> Job]]
      /\ job'[t][s] = j
      /\ \A u \in Tabs, r \in Slots : u # t \/ r # s => job'[u][r] = job[u][r]
  BY DEF OutInv, OutTypeOK
<1>2. JobsCarry'
  BY <1>1 DEF OutInv, JobsCarry, Carries
<1>3. LoopHasTimer'
  BY <1>1 DEF OutInv, LoopHasTimer, Slots
<1> QED
  BY <1>1, <1>2, <1>3

LEMMA NoJobType == NoJob \in Job /\ \A s \in Slots : Carries(s, NoJob)
BY DEF NoJob, Job, Carries, Stages, InFlight, Messages

\* A timer that may be started keeps running where it ran.
LEMMA TimerStep ==
  ASSUME OutTypeOK, NEW t \in Tabs, StartTimer(t) \/ UNCHANGED timer
  PROVE  /\ timer' \in [Tabs -> TimerStates]
         /\ \A u \in Tabs : u # t => timer'[u] = timer[u]
         /\ \A u \in Tabs : timer[u] # "none" => timer'[u] # "none"
         /\ StartTimer(t) => timer'[t] # "none"
BY DEF OutTypeOK, StartTimer, TimerStates

\* The record of a request, or none.
LEMMA RecordType ==
  ASSUME OutTypeOK
  PROVE  /\ store.state \in States => store \in Record
         /\ store # NoRequest => store \in Record
         /\ store = NoRequest => store.state = "none"
BY DEF OutTypeOK, Record, NoRequest, States

-----------------------------------------------------------------------------
\* A call reads the record, and starts a job in its slot, or ends.
LEMMA ReadForSendKeeps ==
  ASSUME OutInv, NEW t \in Tabs, NEW resend \in BOOLEAN, ReadForSend(t, resend),
         job[t]["call"].stage = "store",
         UNCHANGED <<store, txns, wireVars>>
  PROVE  OutInv'
<1>1. PICK j \in Job : Carries("call", j) /\ job' = [job EXCEPT ![t]["call"] = j]
  <2>1. ASSUME NEW kind \in StoreSteps,
               store \in Record \/ (kind = "add" /\ store = NoRequest),
               Begin(t, "call", kind, "store", store)
        PROVE  \E j \in Job : Carries("call", j) /\ job' = [job EXCEPT ![t]["call"] = j]
    <3> DEFINE j == [kind |-> kind, stage |-> "store", req |-> store]
    <3>1. j \in Job /\ Carries("call", j)
      BY <2>1 DEF Job, Carries, Stages, InFlight, Messages, StoreSteps
    <3>2. job' = [job EXCEPT ![t]["call"] = j]
      BY <2>1 DEF Begin
    <3> QED
      BY <3>1, <3>2
  <2>2. CASE End(t, "call")
    BY <2>2, NoJobType DEF End, Slots
  <2>3. CASE store = NoRequest /\ Begin(t, "call", "add", "store", store)
    BY <2>1, <2>3 DEF StoreSteps
  <2>4. CASE store.state = "cancelling" /\ Begin(t, "call", IF resend THEN "uncancelResend" ELSE "uncancel", "store", store)
    <3>1. store \in Record
      BY <2>4, RecordType DEF States, OutInv
    <3> DEFINE kind == IF resend THEN "uncancelResend" ELSE "uncancel"
    <3>2. kind \in StoreSteps /\ Begin(t, "call", kind, "store", store)
      BY <2>4 DEF StoreSteps
    <3> HIDE DEF kind
    <3> QED
      BY <2>1, <3>1, <3>2
  <2>5. CASE store.state = "sent" /\ Begin(t, "call", "markResend", "store", store)
    <3>1. store \in Record
      BY <2>5, RecordType DEF States, OutInv
    <3>2. "markResend" \in StoreSteps
      BY DEF StoreSteps
    <3> QED
      BY <2>1, <2>5, <3>1, <3>2
  <2> QED
    BY <2>2, <2>3, <2>4, <2>5 DEF ReadForSend
<1>2. StartTimer(t) \/ UNCHANGED timer
  BY DEF ReadForSend
<1>3. /\ timer' \in [Tabs -> TimerStates]
      /\ \A u \in Tabs : u # t => timer'[u] = timer[u]
      /\ \A u \in Tabs : timer[u] # "none" => timer'[u] # "none"
  BY <1>2, TimerStep DEF OutInv
<1>4. /\ job' \in [Tabs -> [Slots -> Job]]
      /\ job'[t]["call"] = j
      /\ \A u \in Tabs, r \in Slots : u # t \/ r # "call" => job'[u][r] = job[u][r]
      /\ JobsCarry' /\ LoopHasTimer'
  BY <1>1, <1>3, JobStep DEF Slots
<1>5. OutTypeOK'
  BY <1>3, <1>4 DEF OutInv, OutTypeOK, wireVars, TimerStates
<1>6. SenderForPending'
  <2> SUFFICES ASSUME store.state \in Pending PROVE \E u \in Tabs : Sends(u)'
    BY DEF SenderForPending
  <2>1. PICK u \in Tabs : Sends(u)
    BY DEF OutInv, SenderForPending
  <2>2. job'[u]["cancel"] = job[u]["cancel"] /\ (u # t => job'[u]["call"] = job[u]["call"])
    BY <1>4 DEF Slots
  <2>3. Sends(u)'
    BY <1>3, <2>1, <2>2 DEF Sends, InFlight
  <2> QED
    BY <2>3
<1> QED
  BY <1>4, <1>5, <1>6 DEF OutInv, CancelTxnMade

\* A job of a call ends, or makes way for one that is not in flight, and the record stays.
LEMMA QuietCallKeeps ==
  ASSUME OutInv, NEW t \in Tabs, NEW j \in Job, Carries("call", j),
         job[t]["call"].stage = "store", job' = [job EXCEPT ![t]["call"] = j],
         UNCHANGED <<timer, txns, wireVars>>,
         store' = store \/ store' = NoRequest
  PROVE  OutInv'
<1>1. /\ job' \in [Tabs -> [Slots -> Job]]
      /\ job'[t]["call"] = j
      /\ \A u \in Tabs, r \in Slots : u # t \/ r # "call" => job'[u][r] = job[u][r]
      /\ JobsCarry' /\ LoopHasTimer'
  BY JobStep DEF Slots, OutInv, OutTypeOK, TimerStates
<1>2. OutTypeOK'
  BY <1>1 DEF OutInv, OutTypeOK, wireVars
<1>3. CancelTxnMade'
  BY DEF OutInv, CancelTxnMade, NoRequest
<1>4. SenderForPending'
  <2> SUFFICES ASSUME store'.state \in Pending PROVE \E u \in Tabs : Sends(u)'
    BY DEF SenderForPending
  <2>1. store' = store /\ store.state \in Pending
    BY DEF NoRequest, Pending
  <2>2. PICK u \in Tabs : Sends(u)
    BY <2>1 DEF OutInv, SenderForPending
  <2>3. job'[u]["cancel"] = job[u]["cancel"] /\ (u # t => job'[u]["call"] = job[u]["call"])
    BY <1>1 DEF Slots
  <2>4. Sends(u)'
    BY <2>1, <2>2, <2>3 DEF Sends, InFlight
  <2> QED
    BY <2>4
<1> QED
  BY <1>1, <1>2, <1>3, <1>4 DEF OutInv

\* A job ends or goes on, and the timer of its tab is set or runs.
LEMMA TimedStepKeeps ==
  ASSUME OutInv, NEW t \in Tabs, NEW s \in Slots, NEW j \in Job, Carries(s, j),
         job' = [job EXCEPT ![t][s] = j],
         timer' \in [Tabs -> TimerStates], \A u \in Tabs : u # t => timer'[u] = timer[u],
         timer'[t] # "none",
         store' \in Record \union {NoRequest}, CancelTxnMade',
         txns' \in 0..MaxTxns, seen' = seen, toDevice' = toDevice,
         failures' \in 0..MaxFailures, reloads' = reloads
  PROVE  OutInv'
<1>1. job' \in [Tabs -> [Slots -> Job]] /\ JobsCarry' /\ LoopHasTimer'
  BY JobStep
<1>2. OutTypeOK'
  BY <1>1 DEF OutInv, OutTypeOK, TimerStates
<1>3. SenderForPending'
  BY DEF SenderForPending, Sends
<1> QED
  BY <1>1, <1>2, <1>3 DEF OutInv

-----------------------------------------------------------------------------
LEMMA SendRoomKeyRequestKeeps ==
  ASSUME OutInv, NEW t \in Tabs, NEW resend \in BOOLEAN, SendRoomKeyRequest(t, resend)
  PROVE  OutInv'
<1>1. job[t]["call"].stage = "store"
  BY DEF SendRoomKeyRequest, Idle, NoJob
<1> QED
  BY <1>1, ReadForSendKeeps DEF SendRoomKeyRequest

LEMMA AddRequestKeeps ==
  ASSUME OutInv, NEW t \in Tabs, AddRequest(t)
  PROVE  OutInv'
<1>1. store' \in Record \union {NoRequest} /\ CancelTxnMade' /\ txns' \in 0..MaxTxns
  <2>1. CASE store = NoRequest
    <3>1. store' = [id |-> txns', state |-> "unsent", requestTxn |-> txns', cancelTxn |-> 0]
          /\ txns' = txns + 1 /\ txns < MaxTxns /\ txns \in Nat
      BY <2>1 DEF AddRequest, FreshTxn, OutInv, OutTypeOK
    <3> QED
      BY <3>1 DEF Record, States, CancelTxnMade
  <2>2. CASE store # NoRequest
    BY <2>2 DEF AddRequest, OutInv, OutTypeOK, CancelTxnMade
  <2> QED
    BY <2>1, <2>2
<1>2. StartTimer(t) /\ job' = [job EXCEPT ![t]["call"] = NoJob]
  BY DEF AddRequest, End
<1>3. /\ timer' \in [Tabs -> TimerStates] /\ timer'[t] # "none"
      /\ \A u \in Tabs : u # t => timer'[u] = timer[u]
  BY <1>2, TimerStep DEF OutInv
<1> QED
  BY <1>1, <1>2, <1>3, TimedStepKeeps, NoJobType DEF AddRequest, wireVars, Slots, OutInv, OutTypeOK

LEMMA UncancelKeeps ==
  ASSUME OutInv, NEW t \in Tabs, Uncancel(t)
  PROVE  OutInv'
<1>1. store' \in Record \union {NoRequest} /\ CancelTxnMade' /\ txns' \in 0..MaxTxns
  <2>1. CASE Matches(job[t]["call"].req, "cancelling")
    <3>1. store \in Record /\ txns \in Nat
      BY <2>1, RecordType DEF Matches, States, OutInv, OutTypeOK
    <3>2. txns < MaxTxns /\ txns' = txns + 1
      BY <2>1 DEF Uncancel, FreshTxn
    <3>3. PICK state \in {"sent", "cancellingWillResend"} :
            store' = [store EXCEPT !.state = state, !.cancelTxn = txns']
      BY <2>1 DEF Uncancel
    <3>4. txns' \in 0..MaxTxns /\ txns' # 0 /\ state \in States
      BY <3>1, <3>2 DEF States
    <3>5. store' \in Record /\ store'.cancelTxn = txns'
      <4>1. store' = [id |-> store.id, state |-> state,
                      requestTxn |-> store.requestTxn, cancelTxn |-> txns']
        BY <3>1, <3>3 DEF Record
      <4> QED
        BY <3>1, <3>4, <4>1 DEF Record
    <3> QED
      BY <3>4, <3>5 DEF CancelTxnMade
  <2>2. CASE ~Matches(job[t]["call"].req, "cancelling")
    BY <2>2 DEF Uncancel, OutInv, OutTypeOK, CancelTxnMade
  <2> QED
    BY <2>1, <2>2
<1>2. StartTimer(t) /\ job' = [job EXCEPT ![t]["call"] = NoJob]
  BY DEF Uncancel, End
<1>3. /\ timer' \in [Tabs -> TimerStates] /\ timer'[t] # "none"
      /\ \A u \in Tabs : u # t => timer'[u] = timer[u]
  BY <1>2, TimerStep DEF OutInv
<1> QED
  BY <1>1, <1>2, <1>3, TimedStepKeeps, NoJobType DEF Uncancel, wireVars, Slots, OutInv, OutTypeOK

\* The cancellation that a call sends at once, of a record that is there to be cancelled.
LEMMA CancellationCarries ==
  ASSUME NEW req \in Record, req.cancelTxn # 0, NEW kind \in {"cancel", "cancelResend"},
         NEW s \in Slots, s = "cancel" => kind = "cancel", s = "call" => kind = "cancelResend"
  PROVE  /\ [kind |-> kind, stage |-> "out", req |-> req] \in Job
         /\ Carries(s, [kind |-> kind, stage |-> "out", req |-> req])
BY DEF Job, Carries, Stages, InFlight, Messages, Slots

LEMMA MarkResendKeeps ==
  ASSUME OutInv, NEW t \in Tabs, MarkResend(t)
  PROVE  OutInv'
<1> DEFINE updated == [id |-> store.id, state |-> "cancellingWillResend",
                       requestTxn |-> txns + 1, cancelTxn |-> txns + 2]
           j == [kind |-> "cancelResend", stage |-> "out", req |-> updated]
<1>1. CASE Matches(job[t]["call"].req, "sent")
  <2>1. store \in Record /\ txns \in Nat
    BY <1>1, RecordType DEF Matches, States, OutInv, OutTypeOK
  <2>2. /\ txns + 2 <= MaxTxns /\ txns' = txns + 2 /\ store' = updated
        /\ job' = [job EXCEPT ![t]["call"] = j] /\ UNCHANGED <<timer, wireVars>>
    BY <1>1 DEF MarkResend, Begin
  <2>3. updated \in Record /\ updated.cancelTxn # 0 /\ updated.state = "cancellingWillResend"
    <3>1. txns + 1 \in 1..MaxTxns /\ txns + 2 \in 0..MaxTxns /\ txns + 2 # 0
      BY <2>1, <2>2
    <3>2. "cancellingWillResend" \in States
      BY DEF States
    <3> QED
      BY <2>1, <3>1, <3>2 DEF Record
  <2>4. j \in Job /\ Carries("call", j)
    BY <2>3, CancellationCarries DEF Slots
  <2>5. /\ job' \in [Tabs -> [Slots -> Job]] /\ job'[t]["call"] = j
        /\ JobsCarry' /\ LoopHasTimer'
    BY <2>2, <2>4, JobStep DEF Slots, OutInv, OutTypeOK, TimerStates
  <2>6. OutTypeOK' /\ CancelTxnMade'
    BY <2>1, <2>2, <2>3, <2>5 DEF OutInv, OutTypeOK, CancelTxnMade, wireVars
  <2>7. Sends(t)'
    BY <2>2, <2>3, <2>5 DEF Sends, InFlight
  <2> QED
    BY <2>5, <2>6, <2>7 DEF OutInv, SenderForPending
<1>2. CASE ~Matches(job[t]["call"].req, "sent")
  <2>1. job[t]["call"].kind = "markResend" /\ Carries("call", job[t]["call"])
    BY DEF MarkResend, OutInv, JobsCarry, Slots
  <2>2. job[t]["call"].stage \in Stages
    BY DEF OutInv, OutTypeOK, Job, Slots
  <2>3. job[t]["call"].stage = "store"
    BY <2>1, <2>2 DEF Carries, InFlight, Messages, Stages
  <2> QED
    BY <1>2, <2>3, ReadForSendKeeps DEF MarkResend
<1> QED
  BY <1>1, <1>2

LEMMA CancelRoomKeyRequestKeeps ==
  ASSUME OutInv, NEW t \in Tabs, CancelRoomKeyRequest(t)
  PROVE  OutInv'
<1>1. store \in Record
  BY RecordType DEF CancelRoomKeyRequest, States, OutInv
<1>2. PICK kind \in {"delete", "markCancel"} : Begin(t, "call", kind, "store", store)
  BY DEF CancelRoomKeyRequest
<1> DEFINE j == [kind |-> kind, stage |-> "store", req |-> store]
<1>3. j \in Job /\ Carries("call", j)
  BY <1>1 DEF Job, Carries, Stages, InFlight, Messages, StoreSteps
<1>4. job[t]["call"].stage = "store" /\ job' = [job EXCEPT ![t]["call"] = j]
  BY <1>2 DEF CancelRoomKeyRequest, Idle, NoJob, Begin
<1> QED
  BY <1>3, <1>4, QuietCallKeeps DEF CancelRoomKeyRequest

LEMMA DeleteUnsentKeeps ==
  ASSUME OutInv, NEW t \in Tabs, DeleteUnsent(t)
  PROVE  OutInv'
<1>1. job[t]["call"].kind = "delete" /\ Carries("call", job[t]["call"])
  BY DEF DeleteUnsent, OutInv, JobsCarry, Slots
<1>2. job[t]["call"].stage \in Stages
  BY DEF OutInv, OutTypeOK, Job, Slots
<1>3. job[t]["call"].stage = "store"
  BY <1>1, <1>2 DEF Carries, InFlight, Messages, Stages
<1>4. job' = [job EXCEPT ![t]["call"] = NoJob] /\ (store' = store \/ store' = NoRequest)
  BY DEF DeleteUnsent, End
<1>5. NoJob \in Job /\ Carries("call", NoJob)
  BY NoJobType DEF Slots
<1> QED
  BY <1>3, <1>4, <1>5, QuietCallKeeps DEF DeleteUnsent

LEMMA MarkCancelKeeps ==
  ASSUME OutInv, NEW t \in Tabs, MarkCancel(t)
  PROVE  OutInv'
<1>0. job[t]["call"].stage = "store" /\ NoJob \in Job /\ Carries("call", NoJob)
  <2>1. job[t]["call"].kind = "markCancel" /\ Carries("call", job[t]["call"])
    BY DEF MarkCancel, OutInv, JobsCarry, Slots
  <2>2. job[t]["call"].stage \in Stages
    BY DEF OutInv, OutTypeOK, Job, Slots
  <2> QED
    BY <2>1, <2>2, NoJobType DEF Carries, InFlight, Messages, Stages, Slots
<1>1. CASE Matches(job[t]["call"].req, "sent")
  <2> DEFINE updated == [id |-> store.id, state |-> "cancelling",
                         requestTxn |-> store.requestTxn, cancelTxn |-> txns + 1]
             j == [kind |-> "cancel", stage |-> "out", req |-> updated]
  <2>1. store \in Record /\ txns \in Nat
    BY <1>1, RecordType DEF Matches, States, OutInv, OutTypeOK
  <2>2. /\ txns < MaxTxns /\ txns' = txns + 1 /\ store' = updated
        /\ job' = [job EXCEPT ![t]["call"] = NoJob, ![t]["cancel"] = j]
        /\ UNCHANGED <<timer, wireVars>>
    BY <1>1 DEF MarkCancel, FreshTxn
  <2>3. updated \in Record /\ updated.cancelTxn # 0 /\ updated.state = "cancelling"
    <3>1. txns + 1 \in 0..MaxTxns /\ txns + 1 # 0 /\ "cancelling" \in States
      BY <2>1, <2>2 DEF States
    <3> QED
      BY <2>1, <3>1 DEF Record
  <2>4. j \in Job /\ Carries("cancel", j)
    BY <2>3, CancellationCarries DEF Slots
  <2>5. /\ job' \in [Tabs -> [Slots -> Job]]
        /\ job'[t]["cancel"] = j /\ job'[t]["call"] = NoJob
        /\ \A u \in Tabs, r \in Slots :
             u # t \/ r \notin {"call", "cancel"} => job'[u][r] = job[u][r]
    <3> HIDE DEF j
    <3> QED
      BY <1>0, <2>2, <2>4 DEF OutInv, OutTypeOK, Slots
  <2>6. JobsCarry' /\ LoopHasTimer'
    <3>1. JobsCarry'
      <4> HIDE DEF j
      <4> SUFFICES ASSUME NEW u \in Tabs, NEW r \in Slots PROVE Carries(r, job'[u][r])
        BY DEF JobsCarry, Carries
      <4>1. CASE u = t /\ r = "call"
        BY <1>0, <2>5, <4>1
      <4>2. CASE u = t /\ r = "cancel"
        BY <2>4, <2>5, <4>2
      <4>3. CASE u # t \/ r \notin {"call", "cancel"}
        BY <2>5, <4>3 DEF OutInv, JobsCarry
      <4> QED
        BY <4>1, <4>2, <4>3
    <3>2. LoopHasTimer'
      BY <2>2, <2>5 DEF OutInv, LoopHasTimer, Slots
    <3> QED
      BY <3>1, <3>2
  <2>7. OutTypeOK' /\ CancelTxnMade'
    <3>1. txns' \in 0..MaxTxns /\ store' \in Record /\ store'.cancelTxn # 0
      BY <2>1, <2>2, <2>3
    <3> QED
      BY <2>2, <2>5, <3>1 DEF OutInv, OutTypeOK, CancelTxnMade, wireVars
  <2>8. Sends(t)'
    BY <2>2, <2>3, <2>5 DEF Sends, InFlight
  <2> QED
    BY <2>6, <2>7, <2>8 DEF OutInv, SenderForPending
<1>2. CASE ~Matches(job[t]["call"].req, "sent")
  <2>1. job' = [job EXCEPT ![t]["call"] = NoJob] /\ UNCHANGED <<store, timer, txns, wireVars>>
    BY <1>2 DEF MarkCancel, End
  <2> QED
    BY <1>0, <2>1, QuietCallKeeps
<1> QED
  BY <1>1, <1>2

-----------------------------------------------------------------------------
(* The messages and the loop. *)

LEMMA ServerAcceptsKeeps ==
  ASSUME OutInv, NEW t \in Tabs, NEW s \in Slots, ServerAccepts(t, s)
  PROVE  OutInv'
<1> DEFINE j == job[t][s]
           k == [kind |-> j.kind, stage |-> "accepted", req |-> j.req]
<1>1. j \in Job /\ j.stage = "out" /\ Carries(s, j)
  BY DEF ServerAccepts, OutInv, OutTypeOK, JobsCarry
<1>2. j.kind \in Messages /\ j.req \in Record /\ k \in Job /\ Carries(s, k)
  BY <1>1 DEF Carries, InFlight, Messages, Job, Stages
<1>3. job' = [job EXCEPT ![t][s] = k]
  <2>1. job' = [job EXCEPT ![t][s] = [j EXCEPT !.stage = "accepted"]]
    BY DEF ServerAccepts
  <2>2. [j EXCEPT !.stage = "accepted"] = k
    BY <1>1 DEF Job
  <2> QED
    BY <2>1, <2>2
<1>4. UNCHANGED <<store, timer, txns, failures, reloads>>
  BY DEF ServerAccepts
<1>5. s = "loop" => timer[t] # "none"
  BY <1>2 DEF OutInv, LoopHasTimer, Messages
<1>6. /\ job' \in [Tabs -> [Slots -> Job]]
      /\ job'[t][s] = k
      /\ \A u \in Tabs, r \in Slots : u # t \/ r # s => job'[u][r] = job[u][r]
      /\ JobsCarry' /\ LoopHasTimer'
  <2> HIDE DEF k
  <2> QED
    BY <1>2, <1>3, <1>4, <1>5, JobStep DEF OutInv, OutTypeOK, TimerStates
<1>7. Txn(j) \in 1..MaxTxns /\ j.req.id \in 1..MaxTxns
  <2>1. j.kind = "request" \/ j.req.cancelTxn # 0
    BY <1>1, <1>2 DEF Carries, Messages
  <2> QED
    BY <1>2, <2>1 DEF Txn, Record
<1>8. OutTypeOK'
  <2>1. seen' \subseteq 1..MaxTxns
    BY <1>7 DEF ServerAccepts, OutInv, OutTypeOK
  <2>2. toDevice' \in Seq([action : {"request", "cancel"}, id : 1..MaxTxns])
    <3>1. [action |-> Action(j), id |-> j.req.id] \in [action : {"request", "cancel"}, id : 1..MaxTxns]
      BY <1>7 DEF Action
    <3> QED
      <4> DEFINE m == [action |-> Action(j), id |-> j.req.id]
                 M == [action : {"request", "cancel"}, id : 1..MaxTxns]
      <4>1. toDevice \in Seq(M) /\ m \in M
        BY <3>1 DEF OutInv, OutTypeOK
      <4>2. toDevice' = toDevice \/ toDevice' = Append(toDevice, m)
        BY DEF ServerAccepts
      <4> HIDE DEF m, M
      <4>3. toDevice' \in Seq(M)
        BY <4>1, <4>2
      <4> QED
        BY <4>3 DEF M
  <2> QED
    BY <1>4, <1>6, <2>1, <2>2 DEF OutInv, OutTypeOK
<1>9. SenderForPending'
  <2>1. \A u \in Tabs, r \in Slots :
          /\ job[u][r].stage \in InFlight => job'[u][r].stage \in InFlight
          /\ job'[u][r].req = job[u][r].req
    BY <1>6 DEF InFlight
  <2> QED
    BY <1>4, <2>1 DEF OutInv, SenderForPending, Sends, Slots
<1> QED
  BY <1>4, <1>6, <1>8, <1>9 DEF OutInv, CancelTxnMade

\* The job that follows a message of the loop: the loop looks again.
LEMMA ReadingType ==
  LET j == [kind |-> "read", stage |-> "store", req |-> NoRequest]
  IN j \in Job /\ Carries("loop", j)
BY DEF Job, Carries, Stages, InFlight, Messages, StoreSteps

\* What the answer to a message does to the record.
LEMMA UpdatedType ==
  ASSUME OutInv, NEW j
  PROVE  /\ Updated(j) \in Record \union {NoRequest}
         /\ Updated(j).state \in {"cancelling", "cancellingWillResend"} => Updated(j) = store
         /\ Updated(j) = store \/ Updated(j) = NoRequest \/ Updated(j).state = "sent"
              \/ (j.kind = "cancelResend" /\ Updated(j).state = "unsent")
<1>1. store \in Record \union {NoRequest}
  BY DEF OutInv, OutTypeOK
<1>2. ASSUME store \in Record, NEW state \in States
      PROVE  [store EXCEPT !.state = state] \in Record /\ [store EXCEPT !.state = state].state = state
  BY <1>2 DEF Record
<1>3. \A st : Matches(j.req, st) /\ st \in States => store \in Record
  BY RecordType DEF Matches, OutInv
<1>4. {"unsent", "sent", "cancelling", "cancellingWillResend"} \subseteq States
  BY DEF States
<1>5. CASE j.kind = "request" /\ Matches(j.req, "unsent")
  BY <1>2, <1>3, <1>4, <1>5 DEF Updated
<1>6. CASE j.kind = "cancel" /\ Matches(j.req, "cancelling")
  BY <1>6 DEF Updated, NoRequest
<1>7. CASE j.kind = "cancelResend" /\ Matches(j.req, "cancellingWillResend")
  BY <1>2, <1>3, <1>4, <1>7 DEF Updated
<1>8. CASE /\ ~(j.kind = "request" /\ Matches(j.req, "unsent"))
           /\ ~(j.kind = "cancel" /\ Matches(j.req, "cancelling"))
           /\ ~(j.kind = "cancelResend" /\ Matches(j.req, "cancellingWillResend"))
  BY <1>1, <1>8 DEF Updated
<1> QED
  BY <1>5, <1>6, <1>7, <1>8

LEMMA MessageSentKeeps ==
  ASSUME OutInv, NEW t \in Tabs, NEW s \in Slots, MessageSent(t, s)
  PROVE  OutInv'
<1> DEFINE j == job[t][s]
<1>1. /\ j.stage = "accepted" /\ store' = Updated(j) /\ Carries(s, j)
      /\ UNCHANGED <<txns, seen, toDevice, failures, reloads>>
  BY DEF MessageSent, OutInv, JobsCarry, wireVars
<1>2. j.kind \in Messages
  BY <1>1 DEF Carries, InFlight
<1>3. store' \in Record \union {NoRequest} /\ CancelTxnMade'
  BY <1>1, UpdatedType DEF CancelTxnMade, OutInv
<1>4. CASE s = "loop"
  <2> DEFINE k == [kind |-> "read", stage |-> "store", req |-> NoRequest]
  <2>1. timer[t] # "none" /\ timer' = timer
    BY <1>2, <1>4 DEF OutInv, LoopHasTimer, Messages, MessageSent
  <2>2. job' = [job EXCEPT ![t][s] = k]
    BY <1>4 DEF MessageSent, Begin
  <2>3. k \in Job /\ Carries(s, k)
    BY <1>4, ReadingType
  <2> HIDE DEF k
  <2> QED
    BY <1>1, <1>3, <2>1, <2>2, <2>3, TimedStepKeeps DEF OutInv, OutTypeOK, TimerStates
<1>5. CASE s = "call"
  <2>1. j.kind = "cancelResend"
    BY <1>1, <1>2, <1>5 DEF Carries, Messages
  <2>2. StartTimer(t) /\ job' = [job EXCEPT ![t][s] = NoJob]
    BY <1>5, <2>1 DEF MessageSent, End
  <2>3. /\ timer' \in [Tabs -> TimerStates] /\ timer'[t] # "none"
        /\ \A u \in Tabs : u # t => timer'[u] = timer[u]
    BY <2>2, TimerStep DEF OutInv
  <2> QED
    BY <1>1, <1>3, <2>2, <2>3, NoJobType, TimedStepKeeps DEF OutInv, OutTypeOK
<1>6. CASE s = "cancel"
  <2>1. j.kind = "cancel"
    BY <1>1, <1>2, <1>6 DEF Carries, Messages
  <2>2. timer' = timer /\ job' = [job EXCEPT ![t][s] = NoJob]
    BY <1>6 DEF MessageSent, End
  <2>3. NoJob \in Job /\ Carries(s, NoJob)
    BY NoJobType
  <2>4. /\ job' \in [Tabs -> [Slots -> Job]]
        /\ \A u \in Tabs, r \in Slots : u # t \/ r # s => job'[u][r] = job[u][r]
        /\ JobsCarry' /\ LoopHasTimer'
    <3>2. timer' \in [Tabs -> TimerStates]
      BY <2>2 DEF OutInv, OutTypeOK, TimerStates
    <3>3. JobsCarry'
      BY <1>6, <2>2, <2>3, <3>2, JobStep
    <3>4. LoopHasTimer'
      BY <1>6, <2>2, <2>3, <3>2, JobStep
    <3>5. job' \in [Tabs -> [Slots -> Job]]
      BY <1>6, <2>2, <2>3, <3>2, JobStep
    <3>6. \A u \in Tabs, r \in Slots : u # t \/ r # s => job'[u][r] = job[u][r]
      BY <1>6, <2>2, <2>3, <3>2, JobStep
    <3> QED
      BY <3>3, <3>4, <3>5, <3>6
  <2>5. OutTypeOK'
    BY <1>1, <1>3, <2>2, <2>4 DEF OutInv, OutTypeOK
  <2>6. SenderForPending'
    <3> SUFFICES ASSUME store'.state \in Pending PROVE \E u \in Tabs : Sends(u)'
      BY DEF SenderForPending
    <3>1. store' = store
      BY <1>1, <2>1 DEF Updated, NoRequest, Pending
    <3>2. PICK u \in Tabs : Sends(u)
      BY <3>1 DEF OutInv, SenderForPending
    <3>3. ~(store.state = "cancelling" /\ j.req.id = store.id)
      BY <1>1, <2>1, <3>1 DEF Updated, Matches, NoRequest
    <3>4. Sends(u)'
      BY <1>6, <2>2, <2>4, <3>1, <3>2, <3>3 DEF Sends, Slots
    <3> QED
      BY <3>4
  <2> QED
    BY <1>3, <2>4, <2>5, <2>6 DEF OutInv
<1> QED
  BY <1>4, <1>5, <1>6 DEF Slots

LEMMA MessageFailedKeeps ==
  ASSUME OutInv, NEW t \in Tabs, NEW s \in Slots, MessageFailed(t, s)
  PROVE  OutInv'
<1>1. /\ timer' \in [Tabs -> TimerStates] /\ timer'[t] # "none"
      /\ \A u \in Tabs : u # t => timer'[u] = timer[u]
  <2>1. CASE LoopRestartsTimer(t)
    BY <2>1 DEF LoopRestartsTimer, OutInv, OutTypeOK, TimerStates
  <2>2. CASE StartTimer(t)
    BY <2>2, TimerStep DEF OutInv
  <2> QED
    BY <2>1, <2>2 DEF MessageFailed
<1>2. job' = [job EXCEPT ![t][s] = NoJob] /\ UNCHANGED <<store, txns, seen, toDevice, reloads>>
  BY DEF MessageFailed, End
<1>3. failures' \in 0..MaxFailures
  BY DEF MessageFailed, OutInv, OutTypeOK
<1>4. store' \in Record \union {NoRequest} /\ CancelTxnMade'
  BY <1>2 DEF OutInv, OutTypeOK, CancelTxnMade
<1> QED
  BY <1>1, <1>2, <1>3, <1>4, NoJobType, TimedStepKeeps DEF OutInv, OutTypeOK

LEMMA TimerFiresKeeps ==
  ASSUME OutInv, NEW t \in Tabs, TimerFires(t)
  PROVE  OutInv'
<1> DEFINE k == [kind |-> "read", stage |-> "store", req |-> NoRequest]
<1>1. /\ job' = [job EXCEPT ![t]["loop"] = k] /\ UNCHANGED <<store, txns, wireVars>>
      /\ timer' = [timer EXCEPT ![t] = "running"]
  BY DEF TimerFires, Begin
<1>2. /\ timer' \in [Tabs -> TimerStates] /\ timer'[t] # "none"
      /\ \A u \in Tabs : u # t => timer'[u] = timer[u]
  BY <1>1 DEF OutInv, OutTypeOK, TimerStates
<1>3. k \in Job /\ Carries("loop", k) /\ "loop" \in Slots
  BY ReadingType DEF Slots
<1>4. store' \in Record \union {NoRequest} /\ CancelTxnMade'
  BY <1>1 DEF OutInv, OutTypeOK, CancelTxnMade
<1> HIDE DEF k
<1> QED
  BY <1>1, <1>2, <1>3, <1>4, TimedStepKeeps DEF OutInv, OutTypeOK, wireVars

LEMMA LoopReadsKeeps ==
  ASSUME OutInv, NEW t \in Tabs, LoopReads(t)
  PROVE  OutInv'
<1>0. job[t]["loop"].kind = "read" /\ UNCHANGED <<store, txns, wireVars>> /\ "loop" \in Slots
  BY DEF LoopReads, Slots
<1>1. store' \in Record \union {NoRequest} /\ CancelTxnMade'
  BY <1>0 DEF OutInv, OutTypeOK, CancelTxnMade
<1>2. CASE store.state \in Pending
  <2>1. PICK kind \in Messages :
          /\ job' = [job EXCEPT ![t]["loop"] = [kind |-> kind, stage |-> "out", req |-> store]]
          /\ kind \in {"cancel", "cancelResend"} =>
               store.state \in {"cancelling", "cancellingWillResend"}
    <3>1. CASE store.state = "unsent"
      BY <1>2, <3>1 DEF LoopReads, WantedStates, Begin, Messages
    <3>2. CASE store.state = "cancelling"
      BY <1>2, <3>2 DEF LoopReads, WantedStates, Begin, Messages
    <3>3. CASE store.state = "cancellingWillResend"
      BY <1>2, <3>3 DEF LoopReads, WantedStates, Begin, Messages
    <3> QED
      BY <1>2, <3>1, <3>2, <3>3 DEF Pending
  <2> DEFINE j == [kind |-> kind, stage |-> "out", req |-> store]
  <2>2. store \in Record
    BY <1>2, RecordType DEF Pending, States, OutInv
  <2>3. j \in Job /\ Carries("loop", j)
    BY <2>1, <2>2 DEF Job, Carries, Stages, InFlight, Messages, OutInv, CancelTxnMade
  <2>4. timer' = timer /\ timer[t] # "none"
    BY <1>0, <1>2 DEF LoopReads, WantedStates, OutInv, LoopHasTimer
  <2> HIDE DEF j
  <2>5. job' = [job EXCEPT ![t]["loop"] = j]
    BY <2>1 DEF j
  <2> QED
    BY <1>0, <1>1, <2>3, <2>4, <2>5, TimedStepKeeps DEF OutInv, OutTypeOK, TimerStates, wireVars
<1>3. CASE store.state \notin Pending
  <2>1. timer' = [timer EXCEPT ![t] = "none"] /\ job' = [job EXCEPT ![t]["loop"] = NoJob]
    BY <1>3 DEF LoopReads, WantedStates, End
  <2>2. timer' \in [Tabs -> TimerStates] /\ \A u \in Tabs : u # t => timer'[u] = timer[u]
    BY <2>1 DEF OutInv, OutTypeOK, TimerStates
  <2>3. NoJob \in Job /\ Carries("loop", NoJob) /\ NoJob.kind = "none"
    BY <1>0, NoJobType DEF NoJob
  <2>4. job' \in [Tabs -> [Slots -> Job]] /\ JobsCarry' /\ LoopHasTimer'
    BY <1>0, <2>1, <2>2, <2>3, JobStep
  <2> QED
    BY <1>0, <1>1, <1>3, <2>2, <2>4 DEF OutInv, OutTypeOK, SenderForPending, wireVars, TimerStates
<1> QED
  BY <1>2, <1>3

LEMMA ReloadKeeps ==
  ASSUME OutInv, NEW t \in Tabs, Reload(t)
  PROVE  OutInv'
<1>1. /\ job' = [job EXCEPT ![t] = [s \in Slots |-> NoJob]]
      /\ timer' = [timer EXCEPT ![t] = "set"]
      /\ UNCHANGED <<store, txns, seen, toDevice, failures>>
      /\ reloads' \in 0..MaxReloads
  BY DEF Reload, OutInv, OutTypeOK
<1>2. /\ timer' \in [Tabs -> TimerStates] /\ timer'[t] = "set"
      /\ \A u \in Tabs : u # t => timer'[u] = timer[u]
  BY <1>1 DEF OutInv, OutTypeOK, TimerStates
<1>3. /\ job' \in [Tabs -> [Slots -> Job]]
      /\ \A r \in Slots : job'[t][r] = NoJob
      /\ \A u \in Tabs : u # t => job'[u] = job[u]
  BY <1>1, NoJobType DEF OutInv, OutTypeOK
<1>4. JobsCarry'
  BY <1>3, NoJobType DEF OutInv, JobsCarry, Carries
<1>5. LoopHasTimer'
  BY <1>2, <1>3 DEF OutInv, LoopHasTimer
<1>6. OutTypeOK' /\ CancelTxnMade' /\ SenderForPending'
  BY <1>1, <1>2, <1>3 DEF OutInv, OutTypeOK, CancelTxnMade, SenderForPending, Sends, TimerStates
<1> QED
  BY <1>4, <1>5, <1>6 DEF OutInv

LEMMA OutNextKeeps ==
  ASSUME OutInv, NEW t \in Tabs, OutNext(t)
  PROVE  OutInv'
BY SendRoomKeyRequestKeeps, CancelRoomKeyRequestKeeps, AddRequestKeeps, UncancelKeeps,
   MarkResendKeeps, DeleteUnsentKeeps, MarkCancelKeeps, ServerAcceptsKeeps, MessageSentKeeps,
   MessageFailedKeeps, TimerFiresKeeps, LoopReadsKeeps, ReloadKeeps DEF OutNext, CallSteps

-----------------------------------------------------------------------------
(* What the transaction ids of the records say about the messages the      *)
(* server has taken.                                                       *)

Tried == {"sent", "cancelling", "cancellingWillResend"}
Cancels == {"cancel", "cancelResend"}

\* The messages about a request that are with the server.
Requested(id) == \E i \in 1..Len(toDevice) : toDevice[i] = [action |-> "request", id |-> id]
Cancelled(id) == \E i \in 1..Len(toDevice) : toDevice[i] = [action |-> "cancel", id |-> id]

\* The record in the store, and the copies of it that jobs have.
Records == {r \in Record : r = store \/ \E t \in Tabs, s \in Slots : r = job[t][s].req}

\* A transaction id is made once, for the request or the cancellation of one record.
TxnsNameMessages ==
  /\ seen \subseteq 1..txns
  /\ \A r \in Records : r.requestTxn <= txns /\ r.cancelTxn <= txns
  /\ \A r, q \in Records :
       /\ r.requestTxn # q.cancelTxn
       /\ r.requestTxn = q.requestTxn => r.id = q.id
       /\ r.cancelTxn = q.cancelTxn /\ r.cancelTxn # 0 => r.id = q.id

\* What the server has taken under a record's ids is with the other device's messages.
SeenWasTaken ==
  \A r \in Records :
    /\ r.requestTxn \in seen => Requested(r.id)
    /\ r.cancelTxn \in seen => Cancelled(r.id)

AcceptedIsSeen ==
  \A t \in Tabs, s \in Slots : job[t][s].stage = "accepted" => Txn(job[t][s]) \in seen

\* Only a request the server has is cancelled.
CancelsAreRequested ==
  /\ store.state \in Tried => Requested(store.id)
  /\ \A t \in Tabs, s \in Slots : job[t][s].kind \in Cancels => Requested(job[t][s].req.id)

CancelsFollow ==
  \A k \in 1..Len(toDevice) : toDevice[k].action = "cancel" =>
    \E i \in 1..k-1 : toDevice[i] = [action |-> "request", id |-> toDevice[k].id]

TxnInv ==
  /\ TxnsNameMessages /\ SeenWasTaken /\ AcceptedIsSeen /\ CancelsAreRequested /\ CancelsFollow

\* Two states of one record, under the same transaction ids.
Same(r, q) == r.id = q.id /\ r.requestTxn = q.requestTxn /\ r.cancelTxn = q.cancelTxn

\* A record under new transaction ids, those of the step from "made" ids to "now".
Made(r, made, now) ==
  /\ r.requestTxn # r.cancelTxn /\ r.requestTxn <= now /\ r.cancelTxn <= now
  /\ r.cancelTxn = 0 \/ r.cancelTxn > made
  /\ r.requestTxn > made \/ (r.id = store.id /\ r.requestTxn = store.requestTxn /\ store \in Record)

\* A job that starts about one of these records.
Starts(j, records) ==
  /\ j.stage # "accepted"
  /\ j.req \in records \union {NoRequest}
  /\ j.kind \in Cancels => Requested(j.req.id)

\* A step of the sender that sends nothing: jobs go on, end or start, the record stays
\* under its transaction ids, goes, or gets new ones.
LEMMA SilentStep ==
  ASSUME OutInv, OutTypeOK', TxnInv,
         txns <= txns', UNCHANGED <<seen, toDevice>>,
         \A u \in Tabs, r \in Slots : job'[u][r] = job[u][r] \/ Starts(job'[u][r], {store, store'}),
         store' = NoRequest \/ Same(store', store) \/ Made(store', txns, txns'),
         store'.state \in Tried => Requested(store'.id)
  PROVE  TxnInv'
<1>1. txns \in Nat /\ txns' \in Nat /\ NoRequest \notin Record
  BY DEF OutInv, OutTypeOK, NoRequest, Record
<1>2. \A r \in Records' : r \in Records \/ r = store'
  <2> SUFFICES ASSUME NEW r \in Records', r # store' PROVE r \in Records
    OBVIOUS
  <2>1. r \in Record
    BY DEF Records
  <2>2. PICK u \in Tabs, s \in Slots : r = job'[u][s].req
    BY DEF Records
  <2>3. r = job[u][s].req \/ r = store
    BY <1>1, <2>1, <2>2 DEF Starts
  <2> QED
    BY <2>1, <2>3 DEF Records
<1>3. store \in Record => store \in Records
  BY DEF Records
<1>5. \A r \in Records' : \/ \E q \in Records : Same(r, q)
                          \/ r = store' /\ Made(store', txns, txns')
  <2> SUFFICES ASSUME NEW r \in Records'
               PROVE  (\E q \in Records : Same(r, q)) \/ (r = store' /\ Made(store', txns, txns'))
    OBVIOUS
  <2>1. CASE r \in Records
    BY <2>1 DEF Same
  <2>2. CASE r = store' /\ Same(store', store)
    <3>1. store # NoRequest
      BY <1>1, <2>2 DEF Same, Records, NoRequest, Record
    <3> QED
      BY <1>3, <2>2, <3>1 DEF OutInv, OutTypeOK
  <2>3. CASE r = store' /\ store' = NoRequest
    BY <1>1, <2>3 DEF Records
  <2> QED
    BY <1>2, <2>1, <2>2, <2>3
<1>6. \A r \in Records' \union Records : r.requestTxn \in Nat \ {0} /\ r.cancelTxn \in Nat
  BY DEF Records, Record
<1>7. TxnsNameMessages'
  <2>1. seen' \subseteq 1..txns'
    BY <1>1 DEF TxnInv, TxnsNameMessages
  <2>2. \A r \in Records' : r.requestTxn <= txns' /\ r.cancelTxn <= txns'
    BY <1>1, <1>5, <1>6 DEF TxnInv, TxnsNameMessages, Same, Made
  <2>3. ASSUME NEW r \in Records', NEW q \in Records'
        PROVE  /\ r.requestTxn # q.cancelTxn
               /\ r.requestTxn = q.requestTxn => r.id = q.id
               /\ r.cancelTxn = q.cancelTxn /\ r.cancelTxn # 0 => r.id = q.id
    <3>1. \A a, b \in Records : /\ a.requestTxn # b.cancelTxn
                                /\ a.requestTxn = b.requestTxn => a.id = b.id
                                /\ a.cancelTxn = b.cancelTxn /\ a.cancelTxn # 0 => a.id = b.id
      BY DEF TxnInv, TxnsNameMessages
    <3>2. \A a \in Records : a.requestTxn <= txns /\ a.cancelTxn <= txns
      BY DEF TxnInv, TxnsNameMessages
    <3>3. CASE (\E a \in Records : Same(r, a)) /\ (\E b \in Records : Same(q, b))
      BY <3>1, <3>3 DEF Same
    <3>4. CASE (\E a \in Records : Same(r, a)) /\ q = store' /\ Made(store', txns, txns')
      <4>1. PICK a \in Records : Same(r, a)
        BY <3>4
      <4>2. /\ r.requestTxn # q.cancelTxn
            /\ r.cancelTxn = q.cancelTxn /\ r.cancelTxn # 0 => r.id = q.id
        BY <1>1, <1>6, <3>2, <3>4, <4>1 DEF Same, Made
      <4>3. CASE q.requestTxn > txns
        BY <1>1, <1>6, <3>2, <4>1, <4>2, <4>3 DEF Same
      <4>4. CASE q.id = store.id /\ q.requestTxn = store.requestTxn /\ store \in Record
        BY <1>3, <3>1, <4>1, <4>2, <4>4 DEF Same
      <4> QED
        BY <3>4, <4>3, <4>4 DEF Made
    <3>5. CASE (\E b \in Records : Same(q, b)) /\ r = store' /\ Made(store', txns, txns')
      <4>1. PICK b \in Records : Same(q, b)
        BY <3>5
      <4>2. r.cancelTxn = q.cancelTxn /\ r.cancelTxn # 0 => r.id = q.id
        BY <1>1, <1>6, <3>2, <3>5, <4>1 DEF Same, Made
      <4>3. CASE r.requestTxn > txns
        BY <1>1, <1>6, <3>2, <4>1, <4>2, <4>3 DEF Same
      <4>4. CASE r.id = store.id /\ r.requestTxn = store.requestTxn /\ store \in Record
        BY <1>3, <3>1, <4>1, <4>2, <4>4 DEF Same
      <4> QED
        BY <3>5, <4>3, <4>4 DEF Made
    <3>6. CASE r = store' /\ q = store' /\ Made(store', txns, txns')
      BY <3>6 DEF Made
    <3> QED
      BY <1>5, <3>3, <3>4, <3>5, <3>6
  <2> QED
    BY <2>1, <2>2, <2>3 DEF TxnsNameMessages
<1>8. SeenWasTaken'
  <2> SUFFICES ASSUME NEW r \in Records'
               PROVE  /\ r.requestTxn \in seen => Requested(r.id)
                      /\ r.cancelTxn \in seen => Cancelled(r.id)
    BY DEF SeenWasTaken, Requested, Cancelled
  <2>1. CASE \E q \in Records : Same(r, q)
    BY <2>1 DEF TxnInv, SeenWasTaken, Same
  <2>2. CASE r = store' /\ Made(store', txns, txns')
    <3>1. \A n \in seen : n \in Nat /\ n <= txns /\ n # 0
      BY <1>1 DEF TxnInv, TxnsNameMessages
    <3>2. r.cancelTxn \notin seen
      BY <1>1, <1>6, <2>2, <3>1 DEF Made
    <3>3. r.requestTxn \notin seen \/ (r.id = store.id /\ r.requestTxn = store.requestTxn /\ store \in Record)
      BY <1>1, <1>6, <2>2, <3>1 DEF Made
    <3> QED
      BY <1>3, <3>2, <3>3 DEF TxnInv, SeenWasTaken
  <2> QED
    BY <1>5, <2>1, <2>2
<1>9. AcceptedIsSeen'
  BY DEF TxnInv, AcceptedIsSeen, Starts, Txn
<1>10. CancelsAreRequested'
  BY DEF TxnInv, CancelsAreRequested, Starts, Requested
<1>11. CancelsFollow'
  BY DEF TxnInv, CancelsFollow
<1> QED
  BY <1>7, <1>8, <1>9, <1>10, <1>11 DEF TxnInv

\* A job takes the place of another: what SilentStep asks of the jobs.
LEMMA OneJobStarts ==
  ASSUME OutInv, NEW t \in Tabs, NEW s \in Slots, NEW j, NEW records, Starts(j, records),
         job' = [job EXCEPT ![t][s] = j]
  PROVE  \A u \in Tabs, r \in Slots : job'[u][r] = job[u][r] \/ Starts(job'[u][r], records)
BY DEF OutInv, OutTypeOK

LEMMA NoJobStarts == \A records : Starts(NoJob, records)
BY DEF Starts, NoJob, Cancels

LEMMA ReadForSendNames ==
  ASSUME OutInv, OutTypeOK', TxnInv, NEW t \in Tabs, NEW resend \in BOOLEAN, ReadForSend(t, resend),
         UNCHANGED <<store, txns, wireVars>>
  PROVE  TxnInv'
<1>1. ASSUME NEW kind \in StoreSteps, Begin(t, "call", kind, "store", store)
      PROVE  \A u \in Tabs, r \in Slots : job'[u][r] = job[u][r] \/ Starts(job'[u][r], {store, store'})
  <2> DEFINE j == [kind |-> kind, stage |-> "store", req |-> store]
  <2>1. Starts(j, {store, store'}) /\ job' = [job EXCEPT ![t]["call"] = j] /\ "call" \in Slots
    BY <1>1 DEF Starts, StoreSteps, Cancels, Begin, Slots
  <2> HIDE DEF j
  <2> QED
    BY <2>1, OneJobStarts
<1>2. ASSUME End(t, "call")
      PROVE  \A u \in Tabs, r \in Slots : job'[u][r] = job[u][r] \/ Starts(job'[u][r], {store, store'})
  BY <1>2, OneJobStarts, NoJobStarts DEF End, Slots
<1>3. \A u \in Tabs, r \in Slots : job'[u][r] = job[u][r] \/ Starts(job'[u][r], {store, store'})
  <2>1. {"add", "uncancel", "uncancelResend", "markResend"} \subseteq StoreSteps
    BY DEF StoreSteps
  <2>2. End(t, "call") \/ \E kind \in StoreSteps : Begin(t, "call", kind, "store", store)
    BY <2>1 DEF ReadForSend
  <2> QED
    BY <1>1, <1>2, <2>2
<1>4. Same(store', store) /\ txns <= txns' /\ (store'.state \in Tried => Requested(store'.id))
  BY DEF Same, OutInv, OutTypeOK, TxnInv, CancelsAreRequested
<1> QED
  BY <1>3, <1>4, SilentStep DEF wireVars

LEMMA AddRequestNames ==
  ASSUME OutInv, OutTypeOK', TxnInv, NEW t \in Tabs, AddRequest(t)
  PROVE  TxnInv'
<1>1. \A u \in Tabs, r \in Slots : job'[u][r] = job[u][r] \/ Starts(job'[u][r], {store, store'})
  BY OneJobStarts, NoJobStarts DEF AddRequest, End, Slots
<1>2. CASE store = NoRequest
  <2>1. /\ store' = [id |-> txns', state |-> "unsent", requestTxn |-> txns', cancelTxn |-> 0]
        /\ txns' = txns + 1 /\ txns \in Nat
    BY <1>2 DEF AddRequest, FreshTxn, OutInv, OutTypeOK
  <2>2. Made(store', txns, txns') /\ store'.state \notin Tried
    BY <2>1 DEF Made, Tried
  <2>3. txns <= txns' /\ UNCHANGED <<seen, toDevice>>
    BY <2>1 DEF AddRequest, wireVars
  <2> QED
    BY <1>1, <2>2, <2>3, SilentStep
<1>3. CASE store # NoRequest
  <2>1. store' = store /\ txns' = txns /\ UNCHANGED wireVars
    BY <1>3 DEF AddRequest
  <2>2. Same(store', store) /\ txns <= txns' /\ (store'.state \in Tried => Requested(store'.id))
    BY <2>1 DEF Same, OutInv, OutTypeOK, TxnInv, CancelsAreRequested
  <2> QED
    BY <1>1, <2>1, <2>2, SilentStep DEF wireVars
<1> QED
  BY <1>2, <1>3

LEMMA UncancelNames ==
  ASSUME OutInv, OutTypeOK', TxnInv, NEW t \in Tabs, Uncancel(t)
  PROVE  TxnInv'
<1>1. \A u \in Tabs, r \in Slots : job'[u][r] = job[u][r] \/ Starts(job'[u][r], {store, store'})
  BY OneJobStarts, NoJobStarts DEF Uncancel, End, Slots
<1>2. CASE Matches(job[t]["call"].req, "cancelling")
  <2>1. store \in Record /\ txns \in Nat /\ Requested(store.id)
    BY <1>2, RecordType DEF Matches, States, OutInv, OutTypeOK, TxnInv, CancelsAreRequested, Tried
  <2>2. txns' = txns + 1
    BY <1>2 DEF Uncancel, FreshTxn
  <2>3. store'.id = store.id /\ store'.requestTxn = store.requestTxn /\ store'.cancelTxn = txns'
    BY <1>2, <2>1 DEF Uncancel, Record
  <2>4. store.requestTxn <= txns
    BY <2>1 DEF TxnInv, TxnsNameMessages, Records
  <2>5. store.requestTxn \in Nat
    BY <2>1 DEF Record
  <2>6. Made(store', txns, txns')
    BY <2>1, <2>2, <2>3, <2>4, <2>5 DEF Made
  <2> QED
    BY <1>1, <2>1, <2>2, <2>3, <2>6, SilentStep DEF Uncancel, wireVars
<1>3. CASE ~Matches(job[t]["call"].req, "cancelling")
  <2>1. store' = store /\ txns' = txns /\ UNCHANGED wireVars
    BY <1>3 DEF Uncancel
  <2>2. Same(store', store) /\ txns <= txns' /\ (store'.state \in Tried => Requested(store'.id))
    BY <2>1 DEF Same, OutInv, OutTypeOK, TxnInv, CancelsAreRequested
  <2> QED
    BY <1>1, <2>1, <2>2, SilentStep DEF wireVars
<1> QED
  BY <1>2, <1>3

LEMMA MarkResendNames ==
  ASSUME OutInv, OutTypeOK', TxnInv, NEW t \in Tabs, MarkResend(t)
  PROVE  TxnInv'
<1>1. CASE Matches(job[t]["call"].req, "sent")
  <2> DEFINE updated == [id |-> store.id, state |-> "cancellingWillResend",
                         requestTxn |-> txns + 1, cancelTxn |-> txns + 2]
             j == [kind |-> "cancelResend", stage |-> "out", req |-> updated]
  <2>1. store \in Record /\ txns \in Nat /\ Requested(store.id)
    BY <1>1, RecordType DEF Matches, States, OutInv, OutTypeOK, TxnInv, CancelsAreRequested, Tried
  <2>2. /\ txns' = txns + 2 /\ store' = updated
        /\ job' = [job EXCEPT ![t]["call"] = j] /\ UNCHANGED wireVars
    BY <1>1 DEF MarkResend, Begin
  <2>3. Made(store', txns, txns')
    BY <2>1, <2>2 DEF Made
  <2>4. Starts(j, {store, store'})
    BY <2>1, <2>2 DEF Starts
  <2>5. \A u \in Tabs, r \in Slots : job'[u][r] = job[u][r] \/ Starts(job'[u][r], {store, store'})
    <3> HIDE DEF j
    <3> QED
      BY <2>2, <2>4, OneJobStarts DEF Slots
  <2>6. /\ txns <= txns' /\ UNCHANGED <<seen, toDevice>>
        /\ store'.state \in Tried => Requested(store'.id)
    BY <2>1, <2>2 DEF wireVars
  <2> QED
    BY <2>3, <2>5, <2>6, SilentStep
<1>2. CASE ~Matches(job[t]["call"].req, "sent")
  BY <1>2, ReadForSendNames DEF MarkResend
<1> QED
  BY <1>1, <1>2

LEMMA MarkCancelNames ==
  ASSUME OutInv, OutTypeOK', TxnInv, NEW t \in Tabs, MarkCancel(t)
  PROVE  TxnInv'
<1>1. CASE Matches(job[t]["call"].req, "sent")
  <2> DEFINE updated == [id |-> store.id, state |-> "cancelling",
                         requestTxn |-> store.requestTxn, cancelTxn |-> txns + 1]
             j == [kind |-> "cancel", stage |-> "out", req |-> updated]
  <2>1. store \in Record /\ txns \in Nat /\ Requested(store.id)
    BY <1>1, RecordType DEF Matches, States, OutInv, OutTypeOK, TxnInv, CancelsAreRequested, Tried
  <2>2. /\ txns' = txns + 1 /\ store' = updated /\ UNCHANGED wireVars
        /\ job' = [job EXCEPT ![t]["call"] = NoJob, ![t]["cancel"] = j]
    BY <1>1 DEF MarkCancel, FreshTxn
  <2>3. store.requestTxn <= txns /\ store.requestTxn \in Nat
    BY <2>1 DEF TxnInv, TxnsNameMessages, Records, Record
  <2>4. Made(store', txns, txns')
    BY <2>1, <2>2, <2>3 DEF Made
  <2>5. Starts(j, {store, store'})
    BY <2>1, <2>2 DEF Starts
  <2>6. \A u \in Tabs, r \in Slots : job'[u][r] = job[u][r] \/ Starts(job'[u][r], {store, store'})
    <3> HIDE DEF j
    <3>1. \A u \in Tabs, r \in Slots : job'[u][r] = job[u][r] \/ job'[u][r] = NoJob \/ job'[u][r] = j
      BY <2>2 DEF OutInv, OutTypeOK, Slots
    <3> QED
      BY <2>5, <3>1, NoJobStarts
  <2>7. /\ txns <= txns' /\ UNCHANGED <<seen, toDevice>>
        /\ store'.state \in Tried => Requested(store'.id)
    BY <2>1, <2>2 DEF wireVars
  <2> QED
    BY <2>4, <2>6, <2>7, SilentStep
<1>2. CASE ~Matches(job[t]["call"].req, "sent")
  <2>1. store' = store /\ txns' = txns /\ UNCHANGED wireVars /\ job' = [job EXCEPT ![t]["call"] = NoJob]
    BY <1>2 DEF MarkCancel, End
  <2>2. Same(store', store) /\ txns <= txns' /\ (store'.state \in Tried => Requested(store'.id))
    BY <2>1 DEF Same, OutInv, OutTypeOK, TxnInv, CancelsAreRequested
  <2>3. \A u \in Tabs, r \in Slots : job'[u][r] = job[u][r] \/ Starts(job'[u][r], {store, store'})
    BY <2>1, OneJobStarts, NoJobStarts DEF Slots
  <2> QED
    BY <2>1, <2>2, <2>3, SilentStep DEF wireVars
<1> QED
  BY <1>1, <1>2

\* The steps that leave the record as it is, or delete it, and start or end one job.
LEMMA QuietStepNames ==
  ASSUME OutInv, OutTypeOK', TxnInv, NEW t \in Tabs, NEW s \in Slots, NEW j,
         Starts(j, {store, store'}), job' = [job EXCEPT ![t][s] = j],
         store' = store \/ store' = NoRequest, UNCHANGED <<txns, seen, toDevice>>
  PROVE  TxnInv'
<1>1. \A u \in Tabs, r \in Slots : job'[u][r] = job[u][r] \/ Starts(job'[u][r], {store, store'})
  BY OneJobStarts
<1>2. (store' = NoRequest \/ Same(store', store)) /\ (store'.state \in Tried => Requested(store'.id))
  BY DEF Same, NoRequest, Tried, TxnInv, CancelsAreRequested
<1>3. txns <= txns'
  BY DEF OutInv, OutTypeOK
<1> QED
  BY <1>1, <1>2, <1>3, SilentStep

LEMMA OtherStepsName ==
  ASSUME OutInv, OutTypeOK', TxnInv, NEW t \in Tabs,
         \/ CancelRoomKeyRequest(t) \/ DeleteUnsent(t) \/ TimerFires(t) \/ LoopReads(t) \/ Reload(t)
         \/ \E s \in Slots : MessageFailed(t, s)
  PROVE  TxnInv'
<1>1. CASE CancelRoomKeyRequest(t)
  <2>1. PICK kind \in {"delete", "markCancel"} : Begin(t, "call", kind, "store", store)
    BY <1>1 DEF CancelRoomKeyRequest
  <2> DEFINE j == [kind |-> kind, stage |-> "store", req |-> store]
  <2>2. Starts(j, {store, store'}) /\ job' = [job EXCEPT ![t]["call"] = j] /\ "call" \in Slots
    BY <2>1 DEF Starts, Cancels, Begin, Slots
  <2> HIDE DEF j
  <2> QED
    BY <1>1, <2>2, QuietStepNames DEF CancelRoomKeyRequest, wireVars
<1>2. CASE DeleteUnsent(t)
  BY <1>2, NoJobStarts, QuietStepNames DEF DeleteUnsent, End, wireVars, Slots
<1>3. CASE TimerFires(t)
  <2> DEFINE j == [kind |-> "read", stage |-> "store", req |-> NoRequest]
  <2>1. Starts(j, {store, store'}) /\ job' = [job EXCEPT ![t]["loop"] = j] /\ "loop" \in Slots
    BY <1>3 DEF TimerFires, Starts, Cancels, Begin, Slots
  <2> HIDE DEF j
  <2> QED
    BY <1>3, <2>1, QuietStepNames DEF TimerFires, wireVars
<1>4. CASE LoopReads(t)
  <2>1. CASE store.state \in Pending
    <3>1. PICK kind \in Messages :
            /\ job' = [job EXCEPT ![t]["loop"] = [kind |-> kind, stage |-> "out", req |-> store]]
            /\ kind \in Cancels => store.state \in Tried
      BY <1>4, <2>1 DEF LoopReads, WantedStates, Begin, Messages, Cancels, Tried, Pending
    <3> DEFINE j == [kind |-> kind, stage |-> "out", req |-> store]
    <3>2. Starts(j, {store, store'})
      BY <3>1 DEF Starts, TxnInv, CancelsAreRequested
    <3>3. job' = [job EXCEPT ![t]["loop"] = j] /\ "loop" \in Slots
      BY <3>1 DEF Slots
    <3> HIDE DEF j
    <3> QED
      BY <1>4, <3>2, <3>3, QuietStepNames DEF LoopReads, wireVars
  <2>2. CASE store.state \notin Pending
    BY <1>4, <2>2, NoJobStarts, QuietStepNames DEF LoopReads, WantedStates, End, wireVars, Slots
  <2> QED
    BY <2>1, <2>2
<1>5. CASE Reload(t)
  <2>1. \A u \in Tabs, r \in Slots : job'[u][r] = job[u][r] \/ Starts(job'[u][r], {store, store'})
    BY <1>5, NoJobStarts DEF Reload, OutInv, OutTypeOK
  <2>2. Same(store', store) /\ txns <= txns' /\ (store'.state \in Tried => Requested(store'.id))
    BY <1>5 DEF Reload, Same, OutInv, OutTypeOK, TxnInv, CancelsAreRequested
  <2> QED
    BY <1>5, <2>1, <2>2, SilentStep DEF Reload
<1>6. ASSUME NEW s \in Slots, MessageFailed(t, s)
      PROVE  TxnInv'
  BY <1>6, NoJobStarts, QuietStepNames DEF MessageFailed, End
<1> QED
  BY <1>1, <1>2, <1>3, <1>4, <1>5, <1>6

\* The server has the messages that were answered.
LEMMA AnsweredHasArrived ==
  ASSUME OutInv, TxnInv, NEW t \in Tabs, NEW s \in Slots, job[t][s].stage = "accepted"
  PROVE  /\ job[t][s].kind = "request" => Requested(job[t][s].req.id)
         /\ job[t][s].kind # "request" => Cancelled(job[t][s].req.id)
<1>1. Txn(job[t][s]) \in seen
  BY DEF TxnInv, AcceptedIsSeen
<1>2. job[t][s].req \in Records
  BY DEF OutInv, JobsCarry, Carries, InFlight, Messages, Records
<1> QED
  BY <1>1, <1>2 DEF TxnInv, SeenWasTaken, Txn

LEMMA MessageSentNames ==
  ASSUME OutInv, OutTypeOK', TxnInv, NEW t \in Tabs, NEW s \in Slots, MessageSent(t, s)
  PROVE  TxnInv'
<1> DEFINE j == job[t][s]
           k == IF s = "loop" THEN [kind |-> "read", stage |-> "store", req |-> NoRequest] ELSE NoJob
<1>1. /\ j.stage = "accepted" /\ store' = Updated(j)
      /\ job' = [job EXCEPT ![t][s] = k] /\ UNCHANGED <<txns, seen, toDevice>>
  BY DEF MessageSent, wireVars, Begin, End
<1>2. Starts(k, {store, store'})
  BY NoJobStarts DEF Starts, Cancels
<1>3. \A u \in Tabs, r \in Slots : job'[u][r] = job[u][r] \/ Starts(job'[u][r], {store, store'})
  <2> HIDE DEF k
  <2> QED
    BY <1>1, <1>2, OneJobStarts
<1>4. /\ store' = NoRequest \/ Same(store', store)
      /\ store'.state \in Tried => Requested(store'.id)
  <2>1. CASE j.kind = "request" /\ Matches(j.req, "unsent")
    <3>1. store \in Record /\ store' = [store EXCEPT !.state = "sent"] /\ store.id = j.req.id
      BY <1>1, <2>1, RecordType DEF Updated, Matches, States, OutInv
    <3>2. Same(store', store) /\ store'.id = j.req.id
      BY <3>1 DEF Same, Record
    <3> QED
      BY <1>1, <2>1, <3>2, AnsweredHasArrived
  <2>2. CASE j.kind = "cancel" /\ Matches(j.req, "cancelling")
    BY <1>1, <2>2 DEF Updated, NoRequest, Tried
  <2>3. CASE j.kind = "cancelResend" /\ Matches(j.req, "cancellingWillResend")
    <3>1. store \in Record /\ store' = [store EXCEPT !.state = "unsent"]
      BY <1>1, <2>3, RecordType DEF Updated, Matches, States, OutInv
    <3>2. Same(store', store) /\ store'.state = "unsent"
      BY <3>1 DEF Same, Record
    <3> QED
      BY <3>2 DEF Tried
  <2>4. CASE store' = store
    BY <2>4 DEF Same, TxnInv, CancelsAreRequested
  <2> QED
    BY <1>1, <2>1, <2>2, <2>3, <2>4 DEF Updated
<1>5. txns <= txns'
  BY <1>1 DEF OutInv, OutTypeOK
<1> QED
  BY <1>1, <1>3, <1>4, <1>5, SilentStep

\* The server takes a message, under an id that it does not know or knows already.
LEMMA ServerAcceptsNames ==
  ASSUME OutInv, OutInv', TxnInv, NEW t \in Tabs, NEW s \in Slots, ServerAccepts(t, s)
  PROVE  TxnInv'
<1> DEFINE j == job[t][s]
           m == [action |-> Action(j), id |-> j.req.id]
<1>1. /\ j.stage = "out" /\ seen' = seen \union {Txn(j)}
      /\ toDevice' = IF Txn(j) \notin seen THEN Append(toDevice, m) ELSE toDevice
      /\ UNCHANGED <<store, txns>>
  BY DEF ServerAccepts, Unknown
<1>2. /\ j.kind \in Messages /\ j.req \in Record /\ j.req \in Records
      /\ j.kind # "request" => j.kind \in Cancels /\ j.req.cancelTxn # 0
  BY <1>1 DEF OutInv, JobsCarry, Carries, InFlight, Messages, Cancels, Records
<1>3. /\ job'[t][s] = [j EXCEPT !.stage = "accepted"]
      /\ \A u \in Tabs, r \in Slots : u # t \/ r # s => job'[u][r] = job[u][r]
  BY DEF ServerAccepts, OutInv, OutTypeOK
<1>4. \A u \in Tabs, r \in Slots : job'[u][r].req = job[u][r].req /\ job'[u][r].kind = job[u][r].kind
  <2>1. j \in Job
    BY DEF OutInv, OutTypeOK
  <2>2. [j EXCEPT !.stage = "accepted"].req = j.req /\ [j EXCEPT !.stage = "accepted"].kind = j.kind
    BY <2>1 DEF Job
  <2> QED
    BY <1>3, <2>2
<1>0. PICK id : id = j.req.id
  OBVIOUS
<1>5. Records' = Records
  BY <1>1, <1>4 DEF Records
<1> HIDE DEF m
<1>6. /\ Len(toDevice) \in Nat /\ Len(toDevice') \in Nat /\ Len(toDevice) <= Len(toDevice')
      /\ \A i \in 1..Len(toDevice) : i \in 1..Len(toDevice') /\ toDevice'[i] = toDevice[i]
      /\ \A i \in 1..Len(toDevice') : i \in 1..Len(toDevice) \/ (i = Len(toDevice) + 1 /\ toDevice'[i] = m)
      /\ Txn(j) \notin seen => Len(toDevice') = Len(toDevice) + 1 /\ toDevice'[Len(toDevice')] = m
  <2>1. toDevice \in Seq([action : {"request", "cancel"}, id : 1..MaxTxns])
    BY DEF OutInv, OutTypeOK
  <2>2. CASE Txn(j) \notin seen
    BY <1>1, <2>1, <2>2
  <2>3. CASE Txn(j) \in seen
    BY <1>1, <2>1, <2>3
  <2> QED
    BY <2>2, <2>3
<1>7. \A n : (Requested(n) => Requested(n)') /\ (Cancelled(n) => Cancelled(n)')
  BY <1>6 DEF Requested, Cancelled
<1>8. Txn(j) \in 1..txns
  BY <1>2 DEF Txn, TxnInv, TxnsNameMessages, Record, OutInv, OutTypeOK
<1>9. TxnsNameMessages'
  BY <1>1, <1>5, <1>8 DEF TxnInv, TxnsNameMessages
<1>10. j.kind = "request" => Requested(id)'
  <2>1. CASE j.kind = "request" /\ Txn(j) \in seen
    BY <1>0, <1>2, <1>7, <2>1 DEF Txn, TxnInv, SeenWasTaken
  <2>2. CASE j.kind = "request" /\ Txn(j) \notin seen
    <3>1. Len(toDevice') \in 1..Len(toDevice') /\ m = [action |-> "request", id |-> j.req.id]
      BY <1>6, <2>2 DEF m, Action
    <3> QED
      BY <1>0, <1>6, <2>2, <3>1 DEF Requested
  <2> QED
    BY <2>1, <2>2
<1>11. j.kind # "request" => Cancelled(id)'
  <2>1. CASE j.kind # "request" /\ Txn(j) \in seen
    BY <1>0, <1>2, <1>7, <2>1 DEF Txn, TxnInv, SeenWasTaken
  <2>2. CASE j.kind # "request" /\ Txn(j) \notin seen
    <3>1. Len(toDevice') \in 1..Len(toDevice') /\ m = [action |-> "cancel", id |-> j.req.id]
      BY <1>6, <2>2 DEF m, Action
    <3> QED
      BY <1>0, <1>6, <2>2, <3>1 DEF Cancelled
  <2> QED
    BY <2>1, <2>2
<1>12. SeenWasTaken'
  <2> SUFFICES ASSUME NEW r \in Records
               PROVE  /\ r.requestTxn \in seen' => Requested(r.id)'
                      /\ r.cancelTxn \in seen' => Cancelled(r.id)'
    BY <1>5 DEF SeenWasTaken
  <2>1. (r.requestTxn \in seen => Requested(r.id)') /\ (r.cancelTxn \in seen => Cancelled(r.id)')
    BY <1>7 DEF TxnInv, SeenWasTaken
  <2>2. /\ r.requestTxn # j.req.cancelTxn /\ j.req.requestTxn # r.cancelTxn
        /\ r.requestTxn = j.req.requestTxn => r.id = j.req.id
        /\ r.cancelTxn = j.req.cancelTxn /\ r.cancelTxn # 0 => r.id = j.req.id
    BY <1>2 DEF TxnInv, TxnsNameMessages
  <2>3. CASE j.kind = "request"
    BY <1>0, <1>1, <1>10, <2>1, <2>2, <2>3 DEF Txn
  <2>4. CASE j.kind # "request"
    BY <1>0, <1>1, <1>2, <1>11, <2>1, <2>2, <2>4 DEF Txn
  <2> QED
    BY <2>3, <2>4
<1>13. AcceptedIsSeen'
  <2> SUFFICES ASSUME NEW u \in Tabs, NEW r \in Slots, job'[u][r].stage = "accepted"
               PROVE  Txn(job'[u][r]) \in seen'
    BY DEF AcceptedIsSeen, Txn
  <2>1. CASE u = t /\ r = s
    <3>1. Txn(job'[u][r]) = Txn(j)
      BY <1>4, <2>1 DEF Txn
    <3> QED
      BY <1>1, <3>1
  <2>2. CASE u # t \/ r # s
    BY <1>1, <1>3, <2>2 DEF TxnInv, AcceptedIsSeen, Txn
  <2> QED
    BY <2>1, <2>2
<1>14. CancelsAreRequested'
  <2>1. ASSUME store.state \in Tried PROVE Requested(store.id)'
    <3>1. PICK n : n = store.id
      OBVIOUS
    <3>2. Requested(n)'
      BY <1>7, <2>1, <3>1 DEF TxnInv, CancelsAreRequested
    <3> QED
      BY <1>1, <3>1, <3>2
  <2>2. ASSUME NEW u \in Tabs, NEW r \in Slots, job'[u][r].kind \in Cancels
        PROVE  Requested(job[u][r].req.id)'
    <3>1. PICK n : n = job[u][r].req.id
      OBVIOUS
    <3>2. Requested(n)'
      BY <1>4, <1>7, <2>2, <3>1 DEF TxnInv, CancelsAreRequested
    <3> QED
      BY <1>4, <3>1, <3>2
  <2> QED
    BY <1>1, <2>1, <2>2 DEF CancelsAreRequested
<1>15. CancelsFollow'
  <2> SUFFICES ASSUME NEW k \in 1..Len(toDevice'), toDevice'[k].action = "cancel"
               PROVE  \E i \in 1..k-1 : toDevice'[i] = [action |-> "request", id |-> toDevice'[k].id]
    BY DEF CancelsFollow
  <2>1. CASE k \in 1..Len(toDevice)
    <3>1. PICK i \in 1..k-1 : toDevice[i] = [action |-> "request", id |-> toDevice[k].id]
      BY <1>6, <2>1 DEF TxnInv, CancelsFollow
    <3>2. i \in 1..Len(toDevice)
      BY <1>6, <2>1, <3>1
    <3> QED
      BY <1>6, <2>1, <3>1, <3>2
  <2>2. CASE k = Len(toDevice) + 1 /\ toDevice'[k] = m
    <3>1. j.kind \in Cancels /\ m.id = j.req.id
      BY <1>2, <2>2 DEF m, Action
    <3>2. PICK i \in 1..Len(toDevice) : toDevice[i] = [action |-> "request", id |-> j.req.id]
      BY <3>1 DEF TxnInv, CancelsAreRequested, Requested
    <3> QED
      BY <1>6, <2>2, <3>1, <3>2
  <2> QED
    BY <1>6, <2>1, <2>2
<1> QED
  BY <1>9, <1>12, <1>13, <1>14, <1>15 DEF TxnInv

LEMMA OutNextNames ==
  ASSUME OutInv, TxnInv, NEW t \in Tabs, OutNext(t)
  PROVE  TxnInv'
<1>1. OutInv' /\ OutTypeOK'
  BY OutNextKeeps DEF OutInv
<1>2. ASSUME NEW resend \in BOOLEAN, SendRoomKeyRequest(t, resend) PROVE TxnInv'
  BY <1>1, <1>2, ReadForSendNames DEF SendRoomKeyRequest
<1> QED
  BY <1>1, <1>2, AddRequestNames, UncancelNames, MarkResendNames, MarkCancelNames, OtherStepsName,
     MessageSentNames, ServerAcceptsNames DEF OutNext, CallSteps

\* A record that goes, though it was sent: its cancellation has been answered, or an
\* earlier one of a request that was sent again.
LEMMA DeletedIsCalledOff ==
  ASSUME OutInv, TxnInv, NEW t \in Tabs, OutNext(t),
         store.state \notin {"none", "unsent"}, store' = NoRequest
  PROVE  CalledOff(store.id, Len(toDevice)) \/ SentAgain(store.id)
<1>1. PICK s \in Slots : MessageSent(t, s)
  <2>1. store # NoRequest /\ store'.state = "none"
    BY DEF NoRequest
  <2> QED
    BY <2>1 DEF OutNext, CallSteps, SendRoomKeyRequest, CancelRoomKeyRequest, AddRequest, Uncancel,
           MarkResend, DeleteUnsent, MarkCancel, ServerAccepts, MessageFailed, Matches,
           TimerFires, LoopReads, Reload, NoRequest, OutInv, OutTypeOK, Record
<1> DEFINE j == job[t][s]
<1>2. j.kind = "cancel" /\ j.req.id = store.id /\ j.stage = "accepted"
  <2>1. store # NoRequest /\ store \in Record /\ store' = Updated(j) /\ j.stage = "accepted"
    BY <1>1 DEF MessageSent, OutInv, OutTypeOK, NoRequest
  <2>2. \A state : [store EXCEPT !.state = state] # NoRequest
    BY <2>1 DEF NoRequest, Record
  <2> QED
    BY <2>1, <2>2 DEF Updated, Matches
<1>3. PICK k \in 1..Len(toDevice) : toDevice[k] = [action |-> "cancel", id |-> store.id]
  BY <1>2, AnsweredHasArrived DEF Cancelled
<1>4. PICK i \in 1..k-1 : toDevice[i] = [action |-> "request", id |-> store.id]
  BY <1>3 DEF TxnInv, CancelsFollow
<1>5. Len(toDevice) \in Nat
  BY DEF OutInv, OutTypeOK
<1>6. ASSUME NEW l \in 1..Len(toDevice), toDevice[l] = [action |-> "request", id |-> store.id],
             ~ \E m \in l+1 .. Len(toDevice) : toDevice[m] = [action |-> "cancel", id |-> store.id]
      PROVE  SentAgain(store.id)
  <2>1. k < l
    <3>1. k # l
      BY <1>3, <1>6
    <3> QED
      BY <1>3, <1>5, <1>6, <3>1
  <2>2. i \in 1..Len(toDevice) /\ i < l
    BY <1>4, <1>5, <2>1
  <2> QED
    BY <1>4, <1>6, <2>2 DEF SentAgain
<1> QED
  BY <1>6 DEF CalledOff

-----------------------------------------------------------------------------
(* The receiver, which changes nothing of the sender's. *)

IInv == OutInv /\ KeySharingTypeOK

\* A run takes its requests and its cancellations together.
IdleProcessing == ~processing.busy => processing.requests = {} /\ processing.cancellations = {}

\* The cancellation of a request is in a queue behind it, or is taken with it or later.
CancelledIsNoted ==
  /\ \A id \in received : CalledOff(id, delivered) => id \in cancellations
  /\ \A id \in processing.requests :
       CalledOff(id, delivered) => id \in cancellations \union processing.cancellations
  /\ dialog # "sender" => \A id \in waiting :
       CalledOff(id, delivered) => id \in cancellations \union processing.cancellations

SharingInv == IInv /\ TxnInv /\ IdleProcessing /\ CancelledIsNoted

LEMMA ReceiverKeepsSender ==
  ASSUME OutInv, UNCHANGED outVars
  PROVE  OutInv'
BY DEF outVars, OutInv, OutTypeOK, JobsCarry, Carries, LoopHasTimer, CancelTxnMade, SenderForPending, Sends

\* The server's queue of messages only grows.
LEMMA QueueGrows ==
  ASSUME OutInv, NEW t \in Tabs, OutNext(t)
  PROVE  Len(toDevice) <= Len(toDevice')
<1>1. \A m : Len(toDevice) <= Len(Append(toDevice, m)) /\ Len(toDevice) <= Len(toDevice)
  BY DEF OutInv, OutTypeOK
<1>2. toDevice' = toDevice \/ \E m : toDevice' = Append(toDevice, m)
  BY DEF OutNext, CallSteps, SendRoomKeyRequest, CancelRoomKeyRequest, AddRequest, Uncancel,
         MarkResend, DeleteUnsent, MarkCancel, ServerAccepts, MessageSent, MessageFailed,
         TimerFires, LoopReads, Reload, wireVars
<1> QED
  BY <1>1, <1>2

LEMMA SyncKeepsTypes ==
  ASSUME IInv, NEW n \in Nat, NEW catchingUp \in BOOLEAN, Sync(n, catchingUp)
  PROVE  KeySharingTypeOK'
<1> DEFINE requests == Queued(received, Named(n, "request"))
           cancelled == Queued(cancellations, Named(n, "cancel"))
<1>1. /\ n \in 0 .. Len(toDevice) - delivered /\ delivered' = delivered + n
      /\ delivered \in 0..Len(toDevice) /\ Len(toDevice) \in Nat
      /\ toDevice \in Seq([action : {"request", "cancel"}, id : 1..MaxTxns])
  BY DEF Sync, NextBatch, IInv, KeySharingTypeOK, OutTypeOK
<1>2. \A action : Named(n, action) \subseteq Ids
  <2> SUFFICES ASSUME NEW i \in delivered + 1 .. delivered + n PROVE toDevice[i].id \in Ids
    BY DEF Named
  <2>1. i \in 1..Len(toDevice)
    BY <1>1
  <2>2. toDevice[i] \in [action : {"request", "cancel"}, id : 1..MaxTxns]
    <3> DEFINE M == [action : {"request", "cancel"}, id : 1..MaxTxns]
    <3>1. toDevice \in Seq(M)
      BY <1>1
    <3> HIDE DEF M
    <3>2. toDevice[i] \in M
      BY <2>1, <3>1
    <3> QED
      BY <3>2 DEF M
  <2> QED
    BY <2>2 DEF Ids
<1>3. requests \subseteq Ids /\ cancelled \subseteq Ids
  BY <1>2 DEF Queued, IInv, KeySharingTypeOK
<1> HIDE DEF requests, cancelled
<1>4. delivered' \in 0..Len(toDevice)
  BY <1>1
<1>5. /\ received' \subseteq Ids /\ cancellations' \subseteq Ids
      /\ processing' \in [busy : BOOLEAN, requests : SUBSET Ids, cancellations : SUBSET Ids]
  <2>1. processing \in [busy : BOOLEAN, requests : SUBSET Ids, cancellations : SUBSET Ids]
    BY DEF IInv, KeySharingTypeOK
  <2>2. CASE received' = requests /\ cancellations' = cancelled /\ UNCHANGED processing
    BY <1>3, <2>1, <2>2
  <2>3. CASE /\ received' = {} /\ cancellations' = {}
             /\ processing' = [busy |-> TRUE, requests |-> requests, cancellations |-> cancelled]
    BY <1>3, <2>3
  <2> QED
    BY <2>2, <2>3 DEF Sync, requests, cancelled
<1>6. OutTypeOK' /\ toDevice' = toDevice
  BY ReceiverKeepsSender DEF Sync, IInv, OutInv, outVars
<1> QED
  BY <1>4, <1>5, <1>6 DEF Sync, IInv, KeySharingTypeOK

LEMMA ReceiverKeepsTypes ==
  ASSUME IInv, Receiver
  PROVE  KeySharingTypeOK'
<1>1. ASSUME NEW n \in 0..Len(toDevice), NEW catchingUp \in BOOLEAN, Sync(n, catchingUp)
      PROVE  KeySharingTypeOK'
  <2>1. n \in Nat
    BY DEF IInv, KeySharingTypeOK, OutTypeOK
  <2> QED
    BY <1>1, <2>1, SyncKeepsTypes
<1>2. ASSUME NEW id \in Ids, ProcessRequest(id)
      PROVE  KeySharingTypeOK'
  <2>1. OutTypeOK' /\ toDevice' = toDevice
    BY <1>2, ReceiverKeepsSender DEF ProcessRequest, IInv, OutInv, outVars
  <2> QED
    BY <1>2, <2>1 DEF ProcessRequest, IInv, KeySharingTypeOK
<1>3. CASE ProcessCancellations
  <2>1. OutTypeOK' /\ toDevice' = toDevice
    BY <1>3, ReceiverKeepsSender DEF ProcessCancellations, IInv, OutInv, outVars
  <2> QED
    BY <1>3, <2>1 DEF ProcessCancellations, NotProcessing, IInv, KeySharingTypeOK
<1>4. CASE OtherDeviceAsks
  <2>1. OutTypeOK' /\ toDevice' = toDevice
    BY <1>4, ReceiverKeepsSender DEF OtherDeviceAsks, IInv, OutInv, outVars
  <2> QED
    BY <1>4, <2>1 DEF OtherDeviceAsks, IInv, KeySharingTypeOK
<1>5. CASE DialogFinished
  <2>1. OutTypeOK' /\ toDevice' = toDevice
    BY <1>5, ReceiverKeepsSender DEF DialogFinished, IInv, OutInv, outVars
  <2> QED
    BY <1>5, <2>1 DEF DialogFinished, IInv, KeySharingTypeOK
<1> QED
  BY <1>1, <1>2, <1>3, <1>4, <1>5 DEF Receiver

\* What a sync brings: a request that is called off after it was, or its cancellation
\* comes with the sync.
LEMMA CalledOffBefore ==
  ASSUME IInv, NEW n \in 0 .. Len(toDevice) - delivered, NEW id, CalledOff(id, delivered + n),
         id \notin Named(n, "cancel")
  PROVE  CalledOff(id, delivered) /\ id \notin Named(n, "request")
<1>1. /\ delivered \in Nat /\ n \in Nat /\ Len(toDevice) \in Nat
      /\ delivered <= Len(toDevice) /\ delivered + n <= Len(toDevice)
  BY DEF IInv, KeySharingTypeOK, OutTypeOK
<1>2. \A k \in 1 .. delivered + n : toDevice[k] = [action |-> "cancel", id |-> id] => k <= delivered
  BY <1>1 DEF Named
<1>3. CalledOff(id, delivered)
  <2> SUFFICES ASSUME NEW i \in 1..delivered, toDevice[i] = [action |-> "request", id |-> id]
               PROVE  \E k \in i+1 .. delivered : toDevice[k] = [action |-> "cancel", id |-> id]
    BY DEF CalledOff
  <2>1. PICK k \in i+1 .. delivered + n : toDevice[k] = [action |-> "cancel", id |-> id]
    BY <1>1 DEF CalledOff
  <2> QED
    BY <1>1, <1>2, <2>1
<1>4. ASSUME id \in Named(n, "request") PROVE FALSE
  <2>1. PICK i \in delivered + 1 .. delivered + n : toDevice[i].action = "request" /\ toDevice[i].id = id
    BY <1>4 DEF Named
  <2>2. i \in 1..Len(toDevice) /\ i \in 1 .. delivered + n
    BY <1>1, <2>1
  <2>3. toDevice[i] = [action |-> "request", id |-> id]
    <3> DEFINE M == [action : {"request", "cancel"}, id : 1..MaxTxns]
    <3>1. toDevice \in Seq(M)
      BY DEF IInv, KeySharingTypeOK, OutTypeOK
    <3> HIDE DEF M
    <3>2. toDevice[i] \in M
      BY <2>2, <3>1
    <3> QED
      BY <2>1, <3>2 DEF M
  <2>4. PICK k \in i+1 .. delivered + n : toDevice[k] = [action |-> "cancel", id |-> id]
    BY <2>2, <2>3 DEF CalledOff
  <2> QED
    BY <1>1, <1>2, <2>1, <2>4
<1> QED
  BY <1>3, <1>4

LEMMA SyncNotes ==
  ASSUME SharingInv, NEW n \in Nat, NEW catchingUp \in BOOLEAN, Sync(n, catchingUp)
  PROVE  IdleProcessing' /\ CancelledIsNoted'
<1> DEFINE requests == received \union Named(n, "request")
           cancelled == cancellations \union Named(n, "cancel")
<1>1. /\ n \in 0 .. Len(toDevice) - delivered /\ delivered' = delivered + n
      /\ UNCHANGED <<toDevice, waiting, dialog>>
  BY DEF Sync, NextBatch, outVars
<1>2. \A id : CalledOff(id, delivered)' => id \in cancelled \/ (CalledOff(id, delivered) /\ id \notin Named(n, "request"))
  <2> SUFFICES ASSUME NEW id, CalledOff(id, delivered)', id \notin Named(n, "cancel")
               PROVE  CalledOff(id, delivered) /\ id \notin Named(n, "request")
    OBVIOUS
  <2>1. CalledOff(id, delivered + n)
    BY <1>1 DEF CalledOff
  <2> QED
    BY <1>1, <2>1, CalledOffBefore DEF SharingInv
<1>3. \A id \in requests : CalledOff(id, delivered)' => id \in cancelled
  BY <1>2 DEF SharingInv, CancelledIsNoted
<1>4. \A id \in processing.requests : CalledOff(id, delivered)' => id \in cancelled \union processing.cancellations
  BY <1>2 DEF SharingInv, CancelledIsNoted
<1>5. dialog # "sender" => \A id \in waiting :
        CalledOff(id, delivered)' => id \in cancelled \union processing.cancellations
  BY <1>2 DEF SharingInv, CancelledIsNoted
<1> HIDE DEF requests, cancelled
<1>6. CASE received' = requests /\ cancellations' = cancelled /\ UNCHANGED processing
  BY <1>1, <1>3, <1>4, <1>5, <1>6 DEF SharingInv, IdleProcessing, CancelledIsNoted
<1>7. CASE /\ ~processing.busy /\ received' = {} /\ cancellations' = {}
           /\ processing' = [busy |-> TRUE, requests |-> requests, cancellations |-> cancelled]
  <2>1. processing.cancellations = {}
    BY <1>7 DEF SharingInv, IdleProcessing
  <2>2. dialog' # "sender" => \A id \in waiting' : CalledOff(id, delivered)' => id \in cancelled
    BY <1>1, <1>5, <2>1
  <2> QED
    BY <1>3, <1>7, <2>2 DEF IdleProcessing, CancelledIsNoted
<1> QED
  BY <1>6, <1>7 DEF Sync, Queued, ProcessingDone, requests, cancelled

LEMMA ReceiverNotes ==
  ASSUME SharingInv, Receiver
  PROVE  IdleProcessing' /\ CancelledIsNoted'
<1>1. ASSUME NEW n \in 0..Len(toDevice), NEW catchingUp \in BOOLEAN, Sync(n, catchingUp)
      PROVE  IdleProcessing' /\ CancelledIsNoted'
  <2>1. n \in Nat
    BY DEF SharingInv, IInv, KeySharingTypeOK, OutTypeOK
  <2> QED
    BY <1>1, <2>1, SyncNotes
<1>2. ASSUME NEW id \in Ids, ProcessRequest(id)
      PROVE  IdleProcessing' /\ CancelledIsNoted'
  <2>1. /\ UNCHANGED <<toDevice, delivered, received, cancellations>>
        /\ waiting' = waiting \union {id} /\ id \in processing.requests
        /\ dialog' # "sender" => dialog # "sender"
    BY <1>2 DEF ProcessRequest, outVars
  <2>2. /\ processing'.busy = processing.busy /\ processing'.cancellations = processing.cancellations
        /\ processing'.requests = processing.requests \ {id}
    BY <1>2 DEF ProcessRequest, SharingInv, IInv, KeySharingTypeOK
  <2>3. \A i : CalledOff(i, delivered)' = CalledOff(i, delivered)
    BY <2>1 DEF CalledOff
  <2> QED
    BY <2>1, <2>2, <2>3 DEF SharingInv, IdleProcessing, CancelledIsNoted
<1>3. CASE ProcessCancellations
  <2>1. \A i : CalledOff(i, delivered)' = CalledOff(i, delivered)
    BY <1>3 DEF ProcessCancellations, outVars, CalledOff
  <2> QED
    BY <1>3, <2>1 DEF ProcessCancellations, NotProcessing, SharingInv, IdleProcessing, CancelledIsNoted
<1>4. CASE OtherDeviceAsks
  <2>1. \A i : CalledOff(i, delivered)' = CalledOff(i, delivered)
    BY <1>4 DEF OtherDeviceAsks, outVars, CalledOff
  <2> QED
    BY <1>4, <2>1 DEF OtherDeviceAsks, SharingInv, IdleProcessing, CancelledIsNoted
<1>5. CASE DialogFinished
  <2>1. \A i : CalledOff(i, delivered)' = CalledOff(i, delivered)
    BY <1>5 DEF DialogFinished, outVars, CalledOff
  <2> QED
    BY <1>5, <2>1 DEF DialogFinished, SharingInv, IdleProcessing, CancelledIsNoted
<1> QED
  BY <1>1, <1>2, <1>3, <1>4, <1>5 DEF Receiver

\* The sender's steps do not change what has been delivered.
LEMMA SenderKeepsNotes ==
  ASSUME SharingInv, NEW t \in Tabs, OutNext(t), UNCHANGED inVars
  PROVE  IdleProcessing' /\ CancelledIsNoted'
<1>1. toDevice' = toDevice \/ \E m : toDevice' = Append(toDevice, m)
  BY DEF OutNext, CallSteps, SendRoomKeyRequest, CancelRoomKeyRequest, AddRequest, Uncancel,
         MarkResend, DeleteUnsent, MarkCancel, ServerAccepts, MessageSent, MessageFailed,
         TimerFires, LoopReads, Reload, wireVars
<1>2. toDevice \in Seq([action : {"request", "cancel"}, id : 1..MaxTxns]) /\ delivered \in 0..Len(toDevice)
  BY DEF SharingInv, IInv, KeySharingTypeOK, OutTypeOK
<1>3. \A m, i : i \in 1..Len(toDevice) => Append(toDevice, m)[i] = toDevice[i]
  BY <1>2
<1>4. \A i \in 1..delivered : toDevice'[i] = toDevice[i]
  <2>1. \A i \in 1..delivered : i \in 1..Len(toDevice)
    BY <1>2
  <2> QED
    BY <1>1, <1>3, <2>1
<1>5. \A id : CalledOff(id, delivered)' <=> CalledOff(id, delivered)
  <2> TAKE id
  <2>1. \A i \in 1..delivered : \A k \in i+1 .. delivered : k \in 1..delivered
    BY <1>2
  <2>2. delivered' = delivered
    BY DEF inVars
  <2> QED
    BY <1>4, <2>1, <2>2 DEF CalledOff
<1> QED
  BY <1>5 DEF inVars, SharingInv, IdleProcessing, CancelledIsNoted

LEMMA InitHolds == Init => IInv
<1> SUFFICES ASSUME Init PROVE IInv
  OBVIOUS
<1>1. OutTypeOK
  BY NoJobType DEF Init, OutInit, OutTypeOK
<1>2. JobsCarry /\ LoopHasTimer
  BY NoJobType DEF Init, OutInit, JobsCarry, LoopHasTimer
<1>3. CancelTxnMade /\ SenderForPending
  BY DEF Init, OutInit, NoRequest, CancelTxnMade, SenderForPending, Pending
<1>4. KeySharingTypeOK
  BY <1>1 DEF Init, OutInit, KeySharingTypeOK, NotProcessing
<1> QED
  BY <1>1, <1>2, <1>3, <1>4 DEF IInv, OutInv

LEMMA StepHolds == IInv /\ [Next]_vars => IInv'
<1> SUFFICES ASSUME IInv, [Next]_vars PROVE IInv'
  OBVIOUS
<1>1. ASSUME NEW t \in Tabs, OutNext(t), UNCHANGED inVars
      PROVE  IInv'
  <2>1. OutInv' /\ Len(toDevice) <= Len(toDevice')
    BY <1>1, OutNextKeeps, QueueGrows DEF IInv
  <2>2. toDevice' \in Seq([action : {"request", "cancel"}, id : 1..MaxTxns])
    BY <2>1 DEF OutInv, OutTypeOK
  <2>3. delivered \in 0..Len(toDevice')
    BY <2>1, <2>2 DEF IInv, KeySharingTypeOK, OutTypeOK
  <2> QED
    BY <1>1, <2>1, <2>3 DEF IInv, OutInv, KeySharingTypeOK, inVars
<1>2. CASE Receiver
  <2>1. UNCHANGED outVars
    BY <1>2 DEF Receiver, Sync, ProcessRequest, ProcessCancellations, OtherDeviceAsks, DialogFinished
  <2> QED
    BY <1>2, <2>1, ReceiverKeepsSender, ReceiverKeepsTypes DEF IInv
<1>3. CASE UNCHANGED vars
  <2>1. OutInv'
    BY <1>3, ReceiverKeepsSender DEF IInv, vars
  <2> QED
    BY <1>3, <2>1 DEF IInv, OutInv, KeySharingTypeOK, vars, outVars, inVars
<1> QED
  BY <1>1, <1>2, <1>3 DEF Next

LEMMA SharingInitHolds == Init => SharingInv
<1> SUFFICES ASSUME Init PROVE SharingInv
  OBVIOUS
<1>1. /\ Records = {} /\ toDevice = <<>> /\ Len(toDevice) = 0
      /\ \A t \in Tabs, s \in Slots : job[t][s] = NoJob
  BY DEF Init, OutInit, Records, NoJob, NoRequest, Record
<1>2. TxnInv
  BY <1>1 DEF Init, OutInit, TxnInv, TxnsNameMessages, SeenWasTaken, AcceptedIsSeen, CancelsAreRequested,
              CancelsFollow, NoJob, NoRequest, Tried, Cancels
<1>3. IdleProcessing /\ CancelledIsNoted
  BY DEF Init, NotProcessing, IdleProcessing, CancelledIsNoted
<1> QED
  BY <1>2, <1>3, InitHolds DEF SharingInv

LEMMA SharingStepHolds == SharingInv /\ [Next]_vars => SharingInv'
<1> SUFFICES ASSUME SharingInv, [Next]_vars PROVE SharingInv'
  OBVIOUS
<1>1. IInv'
  BY StepHolds DEF SharingInv
<1>2. ASSUME UNCHANGED outVars PROVE TxnInv'
  BY <1>2 DEF outVars, SharingInv, TxnInv, TxnsNameMessages, SeenWasTaken, AcceptedIsSeen,
              CancelsAreRequested, CancelsFollow, Records, Requested, Cancelled, Txn
<1>3. ASSUME NEW t \in Tabs, OutNext(t), UNCHANGED inVars PROVE SharingInv'
  BY <1>1, <1>3, OutNextNames, SenderKeepsNotes DEF SharingInv, IInv
<1>4. CASE Receiver
  BY <1>1, <1>2, <1>4, ReceiverNotes DEF SharingInv, Receiver, Sync, ProcessRequest, ProcessCancellations,
     OtherDeviceAsks, DialogFinished
<1>5. CASE UNCHANGED vars
  BY <1>1, <1>2, <1>5 DEF vars, outVars, inVars, SharingInv, IdleProcessing, CancelledIsNoted, CalledOff
<1> QED
  BY <1>3, <1>4, <1>5 DEF Next

(* Every variable of the sender and the receiver keeps its type.           *)
THEOREM KeySharingTypes == Spec => []KeySharingTypeOK
<1>1. IInv => KeySharingTypeOK
  BY DEF IInv
<1> QED
  BY <1>1, InitHolds, StepHolds, PTL DEF Spec

(* However many tabs race over the store, and whatever fails, a request    *)
(* that waits to be sent or cancelled has a timer, or a message of its own *)
(* in flight, that will see to it.                                         *)
THEOREM PendingRequestHasSender == Spec => []PendingHasASender
<1>1. IInv => PendingHasASender
  BY DEF IInv, OutInv, SenderForPending, Sends, PendingHasASender, Slots, InFlight
<1> QED
  BY <1>1, InitHolds, StepHolds, PTL DEF Spec

(* Whatever tabs, calls and loops race, and whatever is sent twice, a      *)
(* record that was sent is deleted only when the other device was told     *)
(* last that the request is off, or the request had been sent again.       *)
THEOREM DeletedRequestIsCalledOff == Spec => CancelledLast
<1> DEFINE Safe == store.state \notin {"none", "unsent"} /\ store' = NoRequest =>
                     CalledOff(store.id, Len(toDevice)) \/ SentAgain(store.id)
<1>1. SharingInv /\ [Next]_vars => [Safe]_outVars
  <2> SUFFICES ASSUME SharingInv, Next, ~UNCHANGED outVars PROVE Safe
    BY DEF vars
  <2>1. PICK t \in Tabs : OutNext(t)
    BY DEF Next, Receiver, Sync, ProcessRequest, ProcessCancellations, OtherDeviceAsks, DialogFinished
  <2> QED
    BY <2>1, DeletedIsCalledOff DEF SharingInv, IInv
<1> QED
  BY <1>1, SharingInitHolds, SharingStepHolds, PTL DEF Spec, CancelledLast

(* However the messages are split over syncs and runs of the crypto layer, *)
(* a request whose cancellation was the last the server delivered about it *)
(* does not wait for a dialog once the cancellation has been processed.    *)
THEOREM CancelledRequestDoesNotWait == Spec => []NoCancelledRequestWaits
<1>1. SharingInv => NoCancelledRequestWaits
  BY DEF SharingInv, IdleProcessing, CancelledIsNoted, NoCancelledRequestWaits, ProcessingDone
<1> QED
  BY <1>1, SharingInitHolds, SharingStepHolds, PTL DEF Spec

==============================================================================
