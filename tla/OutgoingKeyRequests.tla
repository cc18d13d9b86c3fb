------------------------ MODULE OutgoingKeyRequests ------------------------
(***************************************************************************)
(* The room key requests of one session (request body) that our device     *)
(* sends to another one (src/crypto/OutgoingRoomKeyRequestManager.js),     *)
(* from several tabs over one IndexedDB                                    *)
(* (src/crypto/store/indexeddb-crypto-store-backend.js), and the           *)
(* homeserver's to-device queue.                                           *)
(*                                                                         *)
(* A step is one IndexedDB transaction or one network event.  Every tab    *)
(* runs up to three jobs: its send loop, a call by the crypto layer, and a *)
(* cancellation that a call has sent and does not wait for.                *)
(***************************************************************************)
EXTENDS Naturals, Sequences

CONSTANTS
  Tabs,         \* the tabs that share the store and the access token
  MaxTxns,      \* bound on transaction ids made
  MaxFailures,  \* bound on failing HTTP requests
  MaxReloads    \* bound on page reloads

ASSUME OutgoingAssumption == {MaxTxns, MaxFailures, MaxReloads} \subseteq Nat

VARIABLES
  store,     \* the record of the request, or NoRequest
  job,       \* tab and slot -> what runs there
  timer,     \* tab -> _sendOutgoingRoomKeyRequestsTimer
  txns,      \* transaction ids made so far
  seen,      \* transaction ids the server has taken
  toDevice,  \* the messages the server has for the other device, in order
  failures,
  reloads

outVars == <<store, job, timer, txns, seen, toDevice, failures, reloads>>

Slots == {"loop", "call", "cancel"}
States == {"unsent", "sent", "cancelling", "cancellingWillResend"}
Pending == {"cancelling", "cancellingWillResend", "unsent"}

\* A record is named by its request id, which is its first transaction id too.
Record == [id : 1..MaxTxns, state : States, requestTxn : 1..MaxTxns, cancelTxn : 0..MaxTxns]
NoRequest == [id |-> 0, state |-> "none", requestTxn |-> 0, cancelTxn |-> 0]

\* What a job is about to do: a store transaction, or a message and its answer.
StoreSteps == {"read", "add", "uncancel", "uncancelResend", "markResend", "markCancel", "delete"}
Messages == {"request", "cancel", "cancelResend"}
Stages == {"store", "out", "accepted"}

Job == [kind : StoreSteps \union Messages \union {"none"}, stage : Stages,
        req : Record \union {NoRequest}]
NoJob == [kind |-> "none", stage |-> "store", req |-> NoRequest]

OutTypeOK ==
  /\ store \in Record \union {NoRequest}
  /\ job \in [Tabs -> [Slots -> Job]]
  /\ timer \in [Tabs -> {"none", "set", "running"}]
  /\ txns \in 0..MaxTxns
  /\ seen \subseteq 1..MaxTxns
  /\ toDevice \in Seq([action : {"request", "cancel"}, id : 1..MaxTxns])
  /\ failures \in 0..MaxFailures
  /\ reloads \in 0..MaxReloads

\* start(): every client starts with its timer set.
OutInit ==
  /\ store = NoRequest
  /\ job = [t \in Tabs |-> [s \in Slots |-> NoJob]]
  /\ timer = [t \in Tabs |-> "set"]
  /\ txns = 0
  /\ seen = {}
  /\ toDevice = <<>>
  /\ failures = 0
  /\ reloads = 0

wireVars == <<seen, toDevice, failures, reloads>>

-----------------------------------------------------------------------------
Idle(t, s) == job[t][s] = NoJob

Begin(t, s, kind, stage, req) ==
  job' = [job EXCEPT ![t][s] = [kind |-> kind, stage |-> stage, req |-> req]]

End(t, s) == job' = [job EXCEPT ![t][s] = NoJob]

\* Mutant: the timer is not started.
NoTimer(t) == UNCHANGED timer

\* _startTimer, unless the timer is set or its callback still runs.
StartTimer(t) == timer' = [timer EXCEPT ![t] = IF @ = "none" THEN "set" ELSE @]

\* The record is still req's and in the state its updater expects.
Matches(req, state) == store.id = req.id /\ store.state = state

\* A call of makeTxnId for an update that is applied only if its record matches.
FreshTxn == txns < MaxTxns /\ txns' = txns + 1

-----------------------------------------------------------------------------
(* sendRoomKeyRequest *)

\* The first transaction, getOutgoingRoomKeyRequest, and the switch on its result.
ReadForSend(t, resend) ==
  \/ store = NoRequest /\ Begin(t, "call", "add", "store", store) /\ UNCHANGED timer
  \/ /\ store.state = "cancelling"
     /\ Begin(t, "call", IF resend THEN "uncancelResend" ELSE "uncancel", "store", store)
     /\ UNCHANGED timer
  \/ /\ store.state = "sent" /\ resend
     /\ Begin(t, "call", "markResend", "store", store) /\ UNCHANGED timer
  \/ store.state = "sent" /\ ~resend /\ StartTimer(t) /\ End(t, "call")
  \/ /\ store.state \in {"cancellingWillResend", "unsent"}
     /\ End(t, "call") /\ UNCHANGED timer

SendRoomKeyRequest(t, resend) ==
  /\ Idle(t, "call")
  /\ ReadForSend(t, resend)
  /\ UNCHANGED <<store, txns, wireVars>>

\* getOrAddOutgoingRoomKeyRequest: a record another call has added is kept.
AddRequest(t) ==
  /\ job[t]["call"].kind = "add"
  /\ IF store = NoRequest
     THEN /\ FreshTxn
          /\ store' = [id |-> txns', state |-> "unsent", requestTxn |-> txns', cancelTxn |-> 0]
     ELSE UNCHANGED <<store, txns>>
  /\ StartTimer(t)
  /\ End(t, "call")
  /\ UNCHANGED wireVars

\* A request that is about to be cancelled is wanted again.
Uncancel(t) ==
  LET j == job[t]["call"]
  IN /\ j.kind \in {"uncancel", "uncancelResend"}
     /\ IF Matches(j.req, "cancelling")
        THEN /\ FreshTxn
             /\ store' = [store EXCEPT
                  !.state = IF j.kind = "uncancel" THEN "sent" ELSE "cancellingWillResend",
                  !.cancelTxn = txns']
        ELSE UNCHANGED <<store, txns>>
     /\ StartTimer(t)
     /\ End(t, "call")
     /\ UNCHANGED wireVars

\* A sent request is to be sent again under a new transaction id, once it is
\* cancelled: its cancellation goes out at once.  If
\* it is not SENT any more, the whole call starts again.
MarkResend(t) ==
  LET j == job[t]["call"]
      updated == [id |-> store.id, state |-> "cancellingWillResend",
                  requestTxn |-> txns + 1, cancelTxn |-> txns + 2]
  IN /\ j.kind = "markResend"
     /\ IF Matches(j.req, "sent")
        THEN /\ txns + 2 <= MaxTxns /\ txns' = txns + 2
             /\ store' = updated
             /\ Begin(t, "call", "cancelResend", "out", updated)
             /\ UNCHANGED timer
        ELSE UNCHANGED <<store, txns>> /\ ReadForSend(t, TRUE)
     /\ UNCHANGED wireVars

-----------------------------------------------------------------------------
(* cancelRoomKeyRequest *)

CancelRoomKeyRequest(t) ==
  /\ Idle(t, "call")
  /\ \/ store.state = "unsent" /\ Begin(t, "call", "delete", "store", store)
     \/ store.state = "sent" /\ Begin(t, "call", "markCancel", "store", store)
  /\ UNCHANGED <<store, timer, txns, wireVars>>

DeleteUnsent(t) ==
  LET j == job[t]["call"]
  IN /\ j.kind = "delete"
     /\ store' = IF Matches(j.req, "unsent") THEN NoRequest ELSE store
     /\ End(t, "call")
     /\ UNCHANGED <<timer, txns, wireVars>>

\* The cancellation of a sent request goes out at once, and the call returns.
\* (Bound: one such cancellation in flight for each tab.)
MarkCancel(t) ==
  LET j == job[t]["call"]
      updated == [id |-> store.id, state |-> "cancelling",
                  requestTxn |-> store.requestTxn, cancelTxn |-> txns + 1]
  IN /\ j.kind = "markCancel"
     /\ IF Matches(j.req, "sent")
        THEN /\ FreshTxn
             /\ store' = updated
             /\ Idle(t, "cancel")
             /\ job' = [job EXCEPT ![t]["call"] = NoJob,
                                   ![t]["cancel"] = [kind |-> "cancel", stage |-> "out", req |-> updated]]
        ELSE UNCHANGED <<store, txns>> /\ End(t, "call")
     /\ UNCHANGED <<timer, wireVars>>

-----------------------------------------------------------------------------
(* The messages, of the send loop and of a call that sends at once. *)

\* The server takes a transaction id once.
Unknown(txn) == txn \notin seen

\* Mutant: a cancellation is sent under the transaction id of its request.
RequestTxn(j) == j.req.requestTxn

\* The transaction id a message is sent under.
Txn(j) == IF j.kind = "request" THEN j.req.requestTxn ELSE j.req.cancelTxn

Action(j) == IF j.kind = "request" THEN "request" ELSE "cancel"

\* The PUT of a message reaches the server.
ServerAccepts(t, s) ==
  LET j == job[t][s]
  IN /\ j.stage = "out"
     /\ seen' = seen \union {Txn(j)}
     /\ toDevice' = IF Unknown(Txn(j))
                    THEN Append(toDevice, [action |-> Action(j), id |-> j.req.id])
                    ELSE toDevice
     /\ job' = [job EXCEPT ![t][s].stage = "accepted"]
     /\ UNCHANGED <<store, timer, txns, failures, reloads>>

\* The record after the answer to a message: each update expects a state.
Updated(j) ==
  CASE j.kind = "request" /\ Matches(j.req, "unsent") -> [store EXCEPT !.state = "sent"]
    [] j.kind = "cancel" /\ Matches(j.req, "cancelling") -> NoRequest
    [] j.kind = "cancelResend" /\ Matches(j.req, "cancellingWillResend") ->
         [store EXCEPT !.state = "unsent"]
    [] OTHER -> store

\* The answer arrives and the record is updated.  The loop looks for the next
\* record; a call that resends starts the timer.
MessageSent(t, s) ==
  LET j == job[t][s]
  IN /\ j.stage = "accepted"
     /\ store' = Updated(j)
     /\ IF s = "loop" THEN Begin(t, s, "read", "store", NoRequest) ELSE End(t, s)
     /\ IF s = "call" /\ j.kind = "cancelResend" THEN StartTimer(t) ELSE UNCHANGED timer
     /\ UNCHANGED <<txns, wireVars>>

\* Mutant: the loop keeps the handle of its timer when a message fails.
LoopKeepsHandle(t) == UNCHANGED timer

\* The loop gives up its timer's handle and starts a new timer.
LoopRestartsTimer(t) == timer' = [timer EXCEPT ![t] = "set"]

\* The request fails, before or after the server has taken it.
MessageFailed(t, s) ==
  /\ job[t][s].stage \in {"out", "accepted"}
  /\ failures < MaxFailures
  /\ failures' = failures + 1
  /\ IF s = "loop" THEN LoopRestartsTimer(t) ELSE StartTimer(t)
  /\ End(t, s)
  /\ UNCHANGED <<store, txns, seen, toDevice, reloads>>

TimerFires(t) ==
  /\ timer[t] = "set"
  /\ timer' = [timer EXCEPT ![t] = "running"]
  /\ Begin(t, "loop", "read", "store", NoRequest)
  /\ UNCHANGED <<store, txns, wireVars>>

\* The states getOutgoingRoomKeyRequestByState is asked for.
WantedStates == Pending

\* _sendOutgoingRoomKeyRequests: send what is pending, or stop.
LoopReads(t) ==
  /\ job[t]["loop"].kind = "read"
  /\ IF store.state \in WantedStates
     THEN /\ Begin(t, "loop",
                   CASE store.state = "unsent" -> "request"
                     [] store.state = "cancelling" -> "cancel"
                     [] store.state = "cancellingWillResend" -> "cancelResend",
                   "out", store)
          /\ UNCHANGED timer
     ELSE timer' = [timer EXCEPT ![t] = "none"] /\ End(t, "loop")
  /\ UNCHANGED <<store, txns, wireVars>>

\* A tab is closed and opened again.
Reload(t) ==
  /\ reloads < MaxReloads
  /\ reloads' = reloads + 1
  /\ job' = [job EXCEPT ![t] = [s \in Slots |-> NoJob]]
  /\ timer' = [timer EXCEPT ![t] = "set"]
  /\ UNCHANGED <<store, txns, seen, toDevice, failures>>

-----------------------------------------------------------------------------
CallSteps(t) == AddRequest(t) \/ Uncancel(t) \/ MarkResend(t) \/ DeleteUnsent(t) \/ MarkCancel(t)

OutNext(t) ==
  \/ \E resend \in BOOLEAN : SendRoomKeyRequest(t, resend)
  \/ CancelRoomKeyRequest(t)
  \/ CallSteps(t)
  \/ \E s \in Slots : ServerAccepts(t, s) \/ MessageSent(t, s) \/ MessageFailed(t, s)
  \/ TimerFires(t)
  \/ LoopReads(t)
  \/ Reload(t)


-----------------------------------------------------------------------------
\* Whatever calls and loops of several tabs race, a record that waits to be sent
\* or cancelled has somebody who will: a timer, a loop that has not looked yet or
\* is sending, or a call that will start the timer (_startTimer, "it doesn't hurt
\* to start it").
PendingHasASender ==
  store.state \in Pending =>
    \E t \in Tabs :
      \/ timer[t] # "none"
      \/ \E s \in Slots : job[t][s].stage \in {"out", "accepted"}

\* Among the first n messages every request of this id is followed by a cancellation
\* of it: the other device was told last that the request is off.
CalledOff(id, n) ==
  \A i \in 1..n : toDevice[i] = [action |-> "request", id |-> id] =>
    \E k \in i+1 .. n : toDevice[k] = [action |-> "cancel", id |-> id]

\* The request has been sent again, under a new transaction id.
SentAgain(id) ==
  \E i, k \in 1..Len(toDevice) :
    i < k /\ toDevice[i] = [action |-> "request", id |-> id] /\ toDevice[k] = toDevice[i]

\* A record that was sent is deleted only when its request is called off at the
\* other device, whoever else has cancelled it, or wants it again, in the meantime
\* ("even if we make the request twice, we'll do it with the same transaction_id").
\* Only the late answer to an earlier cancellation of a request that was sent again
\* may delete it before its own cancellation has arrived.
CancelledLast ==
  [][store.state \notin {"none", "unsent"} /\ store' = NoRequest =>
       CalledOff(store.id, Len(toDevice)) \/ SentAgain(store.id)]_outVars
==============================================================================
