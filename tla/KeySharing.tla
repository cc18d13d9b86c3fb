----------------------------- MODULE KeySharing -----------------------------
(***************************************************************************)
(* Room key requests from the device that misses a key to the device that  *)
(* has it: the sender's store and loops (OutgoingKeyRequests), the         *)
(* homeserver's to-device queue, and the receiver, with its crypto layer   *)
(* (src/crypto/index.js) and the application's queue of dialogs            *)
(* (matrix-react-sdk/src/KeyRequestHandler.js).                            *)
(*                                                                         *)
(* The receiver has the key, both devices are the user's own and the       *)
(* sender is not verified there, so that the user is asked.                *)
(***************************************************************************)
EXTENDS OutgoingKeyRequests

CONSTANT MaxDialogs   \* bound on dialogs for another device

ASSUME KeySharingAssumption == MaxDialogs \in Nat

VARIABLES
  delivered,      \* how many to-device messages have been delivered
  received,       \* _receivedRoomKeyRequests
  cancellations,  \* _receivedRoomKeyRequestCancellations
  processing,     \* what _processReceivedRoomKeyRequests has taken, and where it is
  waiting,        \* _pendingKeyRequests of the sender's device
  dialog,         \* the device a dialog is open for
  dialogs         \* dialogs for another device so far

inVars == <<delivered, received, cancellations, processing, waiting, dialog, dialogs>>
vars == <<outVars, inVars>>

Ids == 1..MaxTxns

\* Nothing is being processed.
NotProcessing == [busy |-> FALSE, requests |-> {}, cancellations |-> {}]

KeySharingTypeOK ==
  /\ OutTypeOK
  /\ delivered \in 0..Len(toDevice)
  /\ received \subseteq Ids /\ cancellations \subseteq Ids
  /\ processing \in [busy : BOOLEAN, requests : SUBSET Ids, cancellations : SUBSET Ids]
  /\ waiting \subseteq Ids
  /\ dialog \in {"none", "other", "sender"}
  /\ dialogs \in 0..MaxDialogs

Init ==
  /\ OutInit
  /\ delivered = 0
  /\ received = {}
  /\ cancellations = {}
  /\ processing = NotProcessing
  /\ waiting = {}
  /\ dialog = "none"
  /\ dialogs = 0

-----------------------------------------------------------------------------
\* The ids that the messages of a sync name in an action.
Named(n, action) ==
  {toDevice[i].id : i \in {i \in delivered + 1 .. delivered + n : toDevice[i].action = action}}

\* Mutant: what a sync brings replaces what is queued already.
Replaced(queue, ids) == ids

\* A queue of requests or cancellations, and those of a sync.
Queued(queue, ids) == queue \union ids

\* "we're still processing last time's requests"
ProcessingDone == ~processing.busy

\* Where the queue of to-device messages is after a sync of n messages.
NextBatch(n) == delivered + n

\* A sync delivers the next n messages.  _onRoomKeyRequestEvent queues them up;
\* onSyncCompleted, unless the client is catching up, takes both queues at once.
Sync(n, catchingUp) ==
  LET requests == Queued(received, Named(n, "request"))
      cancelled == Queued(cancellations, Named(n, "cancel"))
  IN /\ n \in 0 .. Len(toDevice) - delivered
     /\ delivered' = NextBatch(n)
     /\ IF catchingUp \/ ~ProcessingDone \/ requests \union cancelled = {}
        THEN received' = requests /\ cancellations' = cancelled /\ UNCHANGED processing
        ELSE /\ received' = {} /\ cancellations' = {}
             /\ processing' = [busy |-> TRUE, requests |-> requests, cancellations |-> cancelled]
     /\ UNCHANGED <<outVars, waiting, dialog, dialogs>>

\* _processReceivedRoomKeyRequest, after hasKeysForKeyRequest, and
\* handleKeyRequest: a request that waits already is ignored; the dialog is
\* opened unless one is open.
ProcessRequest(id) ==
  /\ id \in processing.requests
  /\ processing' = [processing EXCEPT !.requests = @ \ {id}]
  /\ waiting' = waiting \union {id}
  /\ dialog' = IF id \notin waiting /\ dialog = "none" THEN "sender" ELSE dialog
  /\ UNCHANGED <<outVars, delivered, received, cancellations, dialogs>>

\* All the requests have been processed: it is the cancellations' turn.
\* handleKeyRequestCancellation ignores them while the device's dialog is open.
ProcessCancellations ==
  /\ processing.busy
  /\ processing.requests = {}
  /\ processing' = NotProcessing
  /\ waiting' = IF dialog = "sender" THEN waiting ELSE waiting \ processing.cancellations
  /\ UNCHANGED <<outVars, delivered, received, cancellations, dialog, dialogs>>

\* Another device asks for keys, and its dialog is open first.
OtherDeviceAsks ==
  /\ dialog = "none"
  /\ dialogs < MaxDialogs
  /\ dialogs' = dialogs + 1
  /\ dialog' = "other"
  /\ UNCHANGED <<outVars, delivered, received, cancellations, processing, waiting>>

\* The user closes the dialog, having shared the keys or not: the device's requests
\* are dealt with, and the next device's dialog opens.
DialogFinished ==
  /\ dialog # "none"
  /\ IF dialog = "sender" THEN waiting' = {} /\ dialog' = "none"
     ELSE dialog' = (IF waiting = {} THEN "none" ELSE "sender") /\ UNCHANGED waiting
  /\ UNCHANGED <<outVars, delivered, received, cancellations, processing, dialogs>>

Receiver ==
  \/ \E n \in 0..Len(toDevice), catchingUp \in BOOLEAN : Sync(n, catchingUp)
  \/ \E id \in Ids : ProcessRequest(id)
  \/ ProcessCancellations
  \/ OtherDeviceAsks
  \/ DialogFinished

Next ==
  \/ (\E t \in Tabs : OutNext(t)) /\ UNCHANGED inVars
  \/ Receiver

Spec == Init /\ [][Next]_vars

\* Fairness of the sender; the receiver goes on syncing, and its promises settle.
Fairness ==
  /\ \A t \in Tabs :
       /\ WF_vars(CallSteps(t) /\ UNCHANGED inVars)
       /\ WF_vars(TimerFires(t) /\ UNCHANGED inVars)
       /\ WF_vars(LoopReads(t) /\ UNCHANGED inVars)
       /\ \A s \in Slots : /\ WF_vars(ServerAccepts(t, s) /\ UNCHANGED inVars)
                           /\ WF_vars(MessageSent(t, s) /\ UNCHANGED inVars)

FairSpec == Spec /\ Fairness

-----------------------------------------------------------------------------
\* "Process all of the requests, *then* all of the cancellations": a request whose
\* cancellation has been processed does not wait for a dialog any more, however
\* the two were split over syncs and runs.
NoCancelledRequestWaits ==
  ProcessingDone /\ dialog # "sender" =>
    \A id \in waiting : CalledOff(id, delivered) => id \in cancellations

\* A request that waits to be sent, cancelled, or cancelled and sent again is not
\* forgotten when messages fail: in the end it is sent or deleted ("will retry
\* later").
PendingIsSettled == (store.state \in Pending) ~> (store.state \notin Pending)
==============================================================================
