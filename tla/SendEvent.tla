------------------------------ MODULE SendEvent ------------------------------
(***************************************************************************)
(* Sending an event: MatrixClient._sendCompleteEvent and _sendEvent        *)
(* (src/client.js), the room's local echo (src/models/room.js), the        *)
(* scheduler, and the homeserver as the client sees it.                    *)
(*                                                                         *)
(* An event is named by its transaction id, so one element of Events is    *)
(* one call of sendEvent with all its resends.  The room runs with         *)
(* pendingEventOrdering "detached", as the application creates it.         *)
(*                                                                         *)
(* JavaScript empties its microtask queue before it takes the next network *)
(* answer, timer or sync response.  Application code may call the client   *)
(* at any moment: from a callback, a listener or a click.                  *)
(***************************************************************************)
EXTENDS MatrixScheduler

CONSTANTS
  Encrypted,   \* the events sent into an encrypted room
  RelatesTo,   \* relation or redaction -> the event it names, else NoEvent
  Gappy        \* the events whose echo may fall into a gap of a limited sync

ASSUME SendAssumption ==
  /\ Encrypted \subseteq Events
  /\ Gappy \subseteq Events
  /\ MaxAttempts > 0
  /\ RelatesTo \in [Events -> Events \union {NoEvent}]

\* QUEUE_MESSAGES queues every relation and redaction, and the events it queues
\* share one queue.
ASSUME RelationAssumption ==
  \A r \in Events :
    RelatesTo[r] # NoEvent =>
      /\ QueueOf[r] # NoQueue
      /\ QueueOf[RelatesTo[r]] \in {QueueOf[r], NoQueue}

VARIABLES
  status,            \* event -> EventStatus, "none" before, "echoed" for null
  flow,              \* event -> where its _sendEvent promise chain is
  pendingEventList,  \* the room's detached pending list, as a set
  txnToEvent,        \* transaction ids whose remote echo is awaited
  localId,           \* events whose id is still the local "~" one
  localRef,          \* relations and redactions that name a local id
  encrypted,         \* events whose content has been encrypted
  timeline,          \* events in the room's timeline under their remote id
  request,           \* event -> its HTTP request
  server             \* event -> what the homeserver did with it

sendVars == <<status, flow, pendingEventList, txnToEvent, localId, localRef,
              encrypted, timeline, request, server>>

vars == <<schedVars, sendVars>>

Statuses == {"none", "encrypting", "sending", "queued", "sent", "not_sent",
             "cancelled", "echoed"}

Flows == {"none", "start", "encrypting", "enqueue", "awaiting", "resolved", "rejected"}

SendTypeOK ==
  /\ SchedTypeOK
  /\ status \in [Events -> Statuses]
  /\ flow \in [Events -> Flows]
  /\ pendingEventList \in SUBSET Events
  /\ txnToEvent \in SUBSET Events
  /\ localId \in SUBSET Events
  /\ localRef \in SUBSET {e \in Events : RelatesTo[e] # NoEvent}
  /\ encrypted \in SUBSET Encrypted
  /\ timeline \in SUBSET Events
  /\ request \in [Events -> {"none", "open", "replied", "stray"}]
  /\ server \in [Events -> {"unseen", "accepted", "skipped", "synced"}]

\* The client's constructor has set the process function.
Init ==
  /\ procFn = TRUE
  /\ SchedIdle
  /\ status = [e \in Events |-> "none"]
  /\ flow = [e \in Events |-> "none"]
  /\ pendingEventList = {}
  /\ txnToEvent = {}
  /\ localId = Events
  /\ localRef = {}
  /\ encrypted = {}
  /\ timeline = {}
  /\ request = [e \in Events |-> "none"]
  /\ server = [e \in Events |-> "unseen"]

-----------------------------------------------------------------------------
\* ALLOWED_TRANSITIONS: the statuses updatePendingEvent accepts after one.  The
\* null status of an echoed event and the unknown ones have none: it throws.
AllowedTransitions(from) ==
  CASE from = "encrypting" -> {"sending", "not_sent"}
    [] from = "sending" -> {"encrypting", "queued", "not_sent", "sent"}
    [] from = "queued" -> {"sending", "cancelled"}
    [] from = "not_sent" -> {"sending", "queued", "cancelled"}
    [] OTHER -> {}

Legal(e, new) == new \in AllowedTransitions(status[e])

\* Mutant: no transition is refused.
UpdateStatusUnchecked(e, new) == status' = [status EXCEPT ![e] = new]

\* updatePendingEvent(e, new), for the statuses that change nothing else; an
\* exception leaves the status as it was.
UpdateStatus(e, new) ==
  status' = [status EXCEPT ![e] = IF Legal(e, new) THEN new ELSE @]

\* The event takes its remote id, and "Event.localEventIdReplaced" corrects the
\* relations and redactions that were made against its local one.
ReplaceLocalId(e) ==
  /\ localId' = localId \ {e}
  /\ localRef' = {r \in localRef : RelatesTo[r] # e}

\* The chain of q called the process function, which threw before its request.
Refused(q) == at[q] = "sending" /\ request[held[q]] \notin {"open", "replied"}

\* Mutant: the process function does not wait for the handlers.
HandlersNotAwaited == TRUE

\* No handler of a settled promise waits to run before the process function.
HandlersDone == \A e \in Events : flow[e] \notin {"resolved", "rejected"}

\* No send is between its call and the scheduler.  Calls made in one callback
\* reach the scheduler in the order they were made.
NoSendStarting == \A e \in Events : flow[e] \notin {"start", "enqueue"}

\* The microtask queue is empty.
MicrotasksDone ==
  /\ HandlersDone
  /\ NoSendStarting
  /\ \A q \in Queues : at[q] # "called" /\ ~Refused(q)

-----------------------------------------------------------------------------
(* The application's calls. *)

\* _sendCompleteEvent and addPendingEvent.  A relation to a local event needs
\* that event in the pending list, else the call throws before it does anything.
SendEvent(e) ==
  LET target == RelatesTo[e]
      blocked == \E f \in pendingEventList : status[f] = "not_sent"
  IN /\ status[e] = "none"
     /\ NoSendStarting
     /\ target # NoEvent =>
          /\ status[target] # "none"
          /\ target \in localId => target \in pendingEventList
     /\ status' = [status EXCEPT ![e] = IF blocked THEN "not_sent" ELSE "sending"]
     /\ flow' = [flow EXCEPT ![e] = IF blocked THEN "none" ELSE "start"]
     /\ pendingEventList' = pendingEventList \union {e}
     /\ txnToEvent' = txnToEvent \union {e}
     /\ localRef' = IF target \in localId THEN localRef \union {e} ELSE localRef
     /\ UNCHANGED <<schedVars, localId, encrypted, timeline, request, server>>

\* resendEvent, which the application offers for unsent events.
ResendEvent(e) ==
  /\ status[e] = "not_sent"
  /\ NoSendStarting
  /\ UpdateStatus(e, "sending")
  /\ flow' = [flow EXCEPT ![e] = "start"]
  /\ UNCHANGED <<schedVars, pendingEventList, txnToEvent, localId, localRef,
                 encrypted, timeline, request, server>>

\* Mutant: an event may also be cancelled while it is being sent.
CancellableWhileSending(e) == status[e] \in {"queued", "not_sent", "sending"}

\* The statuses in which an event may be cancelled.
Cancellable(e) == status[e] \in {"queued", "not_sent"}

\* Mutant: the scheduler is not told to forget the event.
CancelLeavesQueue(e) ==
  /\ Cancellable(e)
  /\ UpdateStatus(e, "cancelled")
  /\ pendingEventList' = pendingEventList \ {e}
  /\ UNCHANGED <<schedVars, flow, txnToEvent, localId, localRef, encrypted,
                 timeline, request, server>>

\* cancelPendingEvent.  The event keeps its place in txnToEvent.
CancelPendingEvent(e) ==
  /\ Cancellable(e)
  /\ IF InQueue(e) THEN RemoveEventFromQueue(e) ELSE UNCHANGED schedVars
  /\ UpdateStatus(e, "cancelled")
  /\ pendingEventList' = pendingEventList \ {e}
  /\ UNCHANGED <<flow, txnToEvent, localId, localRef, encrypted, timeline,
                 request, server>>

-----------------------------------------------------------------------------
(* The promise chain of _sendEvent. *)

NeedsEncryption(e) == e \in Encrypted \ encrypted

StartSend(e) ==
  /\ flow[e] = "start"
  /\ IF NeedsEncryption(e)
     THEN /\ UpdateStatus(e, "encrypting")
          /\ flow' = [flow EXCEPT ![e] = "encrypting"]
     ELSE /\ flow' = [flow EXCEPT ![e] = "enqueue"]
          /\ UNCHANGED status
  /\ UNCHANGED <<schedVars, pendingEventList, txnToEvent, localId, localRef,
                 encrypted, timeline, request, server>>

EncryptionDone(e) ==
  /\ flow[e] = "encrypting"
  /\ MicrotasksDone
  /\ encrypted' = encrypted \union {e}
  /\ UpdateStatus(e, "sending")
  /\ flow' = [flow EXCEPT ![e] = "enqueue"]
  /\ UNCHANGED <<schedVars, pendingEventList, txnToEvent, localId, localRef,
                 timeline, request, server>>

EncryptionFailed(e) ==
  /\ flow[e] = "encrypting"
  /\ MicrotasksDone
  /\ flow' = [flow EXCEPT ![e] = "rejected"]
  /\ UNCHANGED <<schedVars, status, pendingEventList, txnToEvent, localId,
                 localRef, encrypted, timeline, request, server>>

\* Hand the event to the scheduler; it is QUEUED when others are before it.
Enqueue(e) ==
  /\ flow[e] = "enqueue"
  /\ QueueEvent(e)
  /\ IF Len(queues'[QueueOf[e]]) > 1 THEN UpdateStatus(e, "queued") ELSE UNCHANGED status
  /\ flow' = [flow EXCEPT ![e] = "awaiting"]
  /\ UNCHANGED <<pendingEventList, txnToEvent, localId, localRef, encrypted,
                 timeline, request, server>>

\* An event the queue algorithm does not queue is sent at once.
SendDirectly(e) ==
  /\ flow[e] = "enqueue"
  /\ QueueOf[e] = NoQueue
  /\ flow' = [flow EXCEPT ![e] = "awaiting"]
  /\ request' = [request EXCEPT ![e] = "open"]
  /\ UNCHANGED <<schedVars, status, pendingEventList, txnToEvent, localId,
                 localRef, encrypted, timeline, server>>

\* The request was sent OK: SENT, unless /sync has already delivered the event.
HandleSent(e) ==
  /\ flow[e] = "resolved"
  /\ flow' = [flow EXCEPT ![e] = "none"]
  /\ IF e \notin timeline /\ Legal(e, "sent")
     THEN UpdateStatus(e, "sent") /\ ReplaceLocalId(e)
     ELSE UNCHANGED <<status, localId, localRef>>
  /\ UNCHANGED <<schedVars, pendingEventList, txnToEvent, encrypted, timeline,
                 request, server>>

\* It failed: NOT_SENT; an exception of the status update is swallowed.
HandleFailed(e) ==
  /\ flow[e] = "rejected"
  /\ flow' = [flow EXCEPT ![e] = "none"]
  /\ UpdateStatus(e, "not_sent")
  /\ UNCHANGED <<schedVars, pendingEventList, txnToEvent, localId, localRef,
                 encrypted, timeline, request, server>>

-----------------------------------------------------------------------------
(* The scheduler's chain and the client's process function. *)

\* The process function: status SENDING, then the request.  When the status may
\* not change any more it throws, and there is no request.
ProcessEvent(q) ==
  LET e == held[q]
      ok == status[e] = "sending" \/ Legal(e, "sending")
  IN /\ HandlersDone
     /\ CallProcFn(q)
     /\ UpdateStatus(e, "sending")
     /\ request' = IF ok THEN [request EXCEPT ![e] = "open"] ELSE request
     /\ UNCHANGED <<flow, pendingEventList, txnToEvent, localId, localRef,
                    encrypted, timeline, server>>

ProcessEventThrew(q) ==
  /\ Refused(q)
  /\ HandlersDone
  /\ ProcFnRejected(q, "other")
  /\ flow' = IF defer' # defer THEN [flow EXCEPT ![held[q]] = "rejected"] ELSE flow
  /\ UNCHANGED <<status, pendingEventList, txnToEvent, localId, localRef,
                 encrypted, timeline, request, server>>

\* The answer to a queued event's request arrives.
RequestSucceeded(q) ==
  /\ MicrotasksDone
  /\ at[q] = "sending" /\ request[held[q]] = "replied"
  /\ ProcFnResolved(q)
  /\ request' = [request EXCEPT ![held[q]] = "none"]
  /\ flow' = [flow EXCEPT ![held[q]] = "resolved"]
  /\ UNCHANGED <<status, pendingEventList, txnToEvent, localId, localRef,
                 encrypted, timeline, server>>

\* The errors a request can end with: the server refuses only what it has not
\* accepted; a connection may break at any time, and the request may yet arrive.
Failure(e, err) ==
  /\ request[e] \in {"open", "replied"}
  /\ err \in {"client", "rateLimit"} => request[e] = "open"
  /\ err = "client" => server[e] = "unseen"
  /\ request' = [request EXCEPT ![e] =
       IF @ = "replied" \/ err \in {"client", "rateLimit"} THEN "none" ELSE "stray"]

RequestFailed(q, err) ==
  /\ MicrotasksDone
  /\ at[q] = "sending"
  /\ Failure(held[q], err)
  /\ ProcFnRejected(q, err)
  /\ flow' = IF defer' # defer THEN [flow EXCEPT ![held[q]] = "rejected"] ELSE flow
  /\ UNCHANGED <<status, pendingEventList, txnToEvent, localId, localRef,
                 encrypted, timeline, server>>

RetryTimer(q) ==
  /\ MicrotasksDone
  /\ BackoffElapsed(q)
  /\ UNCHANGED sendVars

\* The answer to a request that no scheduler knows about.
DirectSucceeded(e) ==
  /\ MicrotasksDone
  /\ QueueOf[e] = NoQueue /\ request[e] = "replied"
  /\ request' = [request EXCEPT ![e] = "none"]
  /\ flow' = [flow EXCEPT ![e] = "resolved"]
  /\ UNCHANGED <<schedVars, status, pendingEventList, txnToEvent, localId,
                 localRef, encrypted, timeline, server>>

DirectFailed(e) ==
  /\ MicrotasksDone
  /\ QueueOf[e] = NoQueue
  /\ \E err \in Errors : Failure(e, err)
  /\ flow' = [flow EXCEPT ![e] = "rejected"]
  /\ UNCHANGED <<schedVars, status, pendingEventList, txnToEvent, localId,
                 localRef, encrypted, timeline, server>>

-----------------------------------------------------------------------------
(* The homeserver: it accepts a transaction once and answers every copy of it. *)

ServerAccepts(e) ==
  /\ request[e] \in {"open", "stray"}
  /\ request' = [request EXCEPT ![e] = IF @ = "open" THEN "replied" ELSE "none"]
  /\ server' = [server EXCEPT ![e] = IF @ = "unseen" THEN "accepted" ELSE @]
  /\ UNCHANGED <<schedVars, status, flow, pendingEventList, txnToEvent, localId,
                 localRef, encrypted, timeline>>

\* Mutant: the echoed event stays in the pending list.
RemoteEchoStaysPending(e) ==
  /\ MicrotasksDone
  /\ server[e] = "accepted"
  /\ server' = [server EXCEPT ![e] = "synced"]
  /\ txnToEvent' = txnToEvent \ {e}
  /\ status' = [status EXCEPT ![e] = "echoed"]
  /\ timeline' = timeline \union {e}
  /\ ReplaceLocalId(e)
  /\ UNCHANGED <<schedVars, flow, pendingEventList, encrypted, request>>

\* /sync delivers the event with its transaction id: _handleRemoteEcho.
RemoteEcho(e) ==
  /\ MicrotasksDone
  /\ server[e] = "accepted"
  /\ server' = [server EXCEPT ![e] = "synced"]
  /\ txnToEvent' = txnToEvent \ {e}
  /\ pendingEventList' = pendingEventList \ {e}
  /\ status' = [status EXCEPT ![e] = "echoed"]
  /\ timeline' = timeline \union {e}
  /\ ReplaceLocalId(e)
  /\ UNCHANGED <<schedVars, flow, encrypted, request>>

\* The sync response that would have held the event is limited and skips it.
EchoSkipped(e) ==
  /\ MicrotasksDone
  /\ e \in Gappy
  /\ server[e] = "accepted"
  /\ server' = [server EXCEPT ![e] = "skipped"]
  /\ UNCHANGED <<schedVars, status, flow, pendingEventList, txnToEvent, localId,
                 localRef, encrypted, timeline, request>>

\* Back-pagination adds the skipped event, as an event nobody has seen before.
Backfilled(e) ==
  /\ MicrotasksDone
  /\ server[e] = "skipped"
  /\ e \notin timeline
  /\ timeline' = timeline \union {e}
  /\ UNCHANGED <<schedVars, status, flow, pendingEventList, txnToEvent, localId,
                 localRef, encrypted, request, server>>

-----------------------------------------------------------------------------
Application(e) == SendEvent(e) \/ ResendEvent(e) \/ CancelPendingEvent(e)

Microtask ==
  \/ \E e \in Events : StartSend(e) \/ Enqueue(e) \/ SendDirectly(e)
                       \/ HandleSent(e) \/ HandleFailed(e)
  \/ \E q \in Queues : ProcessEvent(q) \/ ProcessEventThrew(q)

Encryption(e) == EncryptionDone(e) \/ EncryptionFailed(e)

RequestEnds(q) == RequestSucceeded(q) \/ \E err \in Errors : RequestFailed(q, err)

DirectRequestEnds(e) == DirectSucceeded(e) \/ DirectFailed(e)

Network(e) == ServerAccepts(e) \/ RemoteEcho(e) \/ EchoSkipped(e) \/ Backfilled(e)

Next ==
  \/ \E e \in Events : Application(e) \/ Encryption(e) \/ DirectRequestEnds(e) \/ Network(e)
  \/ \E q \in Queues : RequestEnds(q) \/ RetryTimer(q)
  \/ Microtask

Spec == Init /\ [][Next]_vars

\* The microtask queue is emptied; encryption, timers and requests end; the
\* server does not answer every attempt from some time on with a rate limit.
\* Each of the latter gets its turn between two bursts of microtasks.
Fairness ==
  /\ WF_vars(Microtask)
  /\ \A e \in Events : SF_vars(Encryption(e)) /\ SF_vars(DirectRequestEnds(e))
  /\ \A q \in Queues :
       /\ SF_vars(RetryTimer(q))
       /\ SF_vars(RequestSucceeded(q)
                  \/ \E err \in Errors \ {"rateLimit"} : RequestFailed(q, err))

FairSpec == Spec /\ Fairness

-----------------------------------------------------------------------------
\* Whatever races on an event (cancel, echo, retry, failure), the room shows it
\* as a local echo exactly while its status is one of a local echo.
PendingListMatchesStatus ==
  \A e \in Events :
    e \in pendingEventList <=>
      status[e] \in {"encrypting", "sending", "queued", "not_sent", "sent"}

\* An event shown as sent, unsent or cancelled is neither queued nor on its way:
\* nothing will send it behind the user's back.
SettledLeavesScheduler ==
  \A e \in Events :
    status[e] \in {"sent", "not_sent", "cancelled"} =>
      ~InQueue(e) /\ request[e] \notin {"open", "replied"}

\* A queued event's request is open only while the event heads its queue, so a
\* queue has one request at a time and no event overtakes another.
OneRequestPerQueue ==
  \A e \in Events :
    LET q == QueueOf[e]
    IN q # NoQueue /\ request[e] \in {"open", "replied"} =>
         /\ at[q] = "sending" /\ held[q] = e
         /\ queues[q] # <<>> /\ Head(queues[q]) = e

\* _processQueue waits for a microtask so that "relations/redactions to enqueued
\* events can receive the remote id of their target before being sent": no
\* request names a local id when its target's send has been resolved, unless
\* back-pagination brought the target first.
RelationWaitsForTarget ==
  \A r \in localRef :
    request[r] \in {"open", "replied"} /\ server[RelatesTo[r]] # "skipped" =>
      defer[RelatesTo[r]] # "resolved"

\* Once the echo has replaced the local event nothing revives it: no late answer,
\* retry or failure.  A sent or cancelled event can only become its echo.
EchoIsFinal ==
  [][\A e \in Events :
       /\ status[e] = "echoed" => status'[e] = "echoed"
       /\ status[e] \in {"sent", "cancelled"} => status'[e] \in {status[e], "echoed"}]_vars

\* Driven by the client, the scheduler implements the FIFO of its documentation,
\* although cancelPendingEvent may take an entry away that the chain has peeked:
\* the process function throws on it, but its first attempt is not its last.
Fifo == INSTANCE FifoSender WITH queue <- queues, outcome <- defer

ImplementsFifo == Fifo!Spec

\* Every send ends: its promise settles, unless the event is cancelled.
SendSettles ==
  \A e \in Events : (flow[e] = "start") ~> (flow[e] = "none" \/ status[e] = "cancelled")
==============================================================================
