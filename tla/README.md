# Tchap web: specifications, checks and proofs

Tchap web is a Matrix client for the browser (and Electron).  It is one
repository with four layers: `matrix-js-sdk` (the protocol engine: sync loop,
event sending, end-to-end encryption, stores, calls), `matrix-react-sdk` (the
user interface, its stores and its session life cycle), `src/vector` (the page
that loads them) and `electron_app`/`origin_migrator` (desktop shell).  This
directory models the protocol engine in TLA+, checks the models with TLC and
proves the most important results with TLAPS.  Paths below are relative to the
repository root; `sdk/` abbreviates `src/matrix-js-sdk/src/` and `react/`
abbreviates `src/matrix-react-sdk/src/`.

## 1. Inventory

| Component | State it keeps | Operations | What is hard |
|---|---|---|---|
| Event scheduler, `sdk/scheduler.js` | queues of entries, active queue names, attempts | queueEvent, removeEventFromQueue, setProcessFunction, the processing chain | a chain keeps an entry across a microtask, a request and a timer while other callbacks change its queue |
| Sending and local echo, `sdk/client.js`, `sdk/models/room.js` | event status, pending list, txn-id map, timeline | sendEvent, resendEvent, cancelPendingEvent, status updates, remote echo | the sync echo, the send response, a cancel and a retry race on one event |
| Device lists, `sdk/crypto/DeviceList.js` | tracking status, in-flight download per user, stored devices, dirty flag and save promise | track, mark outdated, refresh, query, process, save, load | one request at a time with a queue behind it; changes while a request is out; crash between the two stores |
| Room key requests, `sdk/crypto/OutgoingRoomKeyRequestManager.js` | request records in IndexedDB, timer, send loop | queue, send, cancel, resend | several tabs on one store; a cancel while the request is in flight |
| Key backup, `sdk/crypto/index.js`, crypto store | sessions needing backup, in-progress flag | mark, schedule, send batches, retry | a session that changes while its batch is being uploaded |
| Sync loop, `sdk/sync.js` | sync token, state, keep-alive timer, failed count | start, sync, keep-alive, stop, restore from store | lost connection, catch-up, saved sync versus live one |
| Sync accumulator and IndexedDB stores, `sdk/sync-accumulator.js`, `sdk/store/*` | rolled-up sync, pending writes | accumulate, getJSON, save, load | what survives a crash must be a prefix of what was processed |
| Timelines, `sdk/models/event-timeline*.js`, `sdk/timeline-window.js` | linked timelines, pagination tokens, id map | add, join, reset, paginate | overlapping pages from both ends, gappy syncs |
| Megolm/Olm, `sdk/crypto/algorithms/*.js`, `sdk/crypto/OlmDevice.js` | outbound session, devices it was shared with | prepare, share, rotate, re-share, withhold, decrypt, retry | the session set-up is serialised per room while devices come and go |
| Incoming key requests, `sdk/crypto/index.js` | received requests, cancellations | receive, process, share, ignore | a cancellation overtaking its request |
| Verification, `sdk/crypto/verification/*.js` | transaction phase, expected event, timeout | start, accept, key, mac, cancel | two devices, out-of-order messages, timeout |
| Calls, `sdk/webrtc/call.js` | call state, candidate queue, timers | place, answer, reject, replace, hang up | glare, candidates before answer, hang-up race |
| Room state and members, `sdk/models/room-state.js`, `room-member.js`, `room.js` | state events, lazy-loaded members | set state, load members out of band | out-of-band members racing live state |
| Relations, receipts, search, push rules, filters | aggregations, receipts, rules | add, redact, evaluate | pure data algorithms |
| HTTP and uploads, `sdk/http-api.js`, `sdk/interactive-auth.js` | uploads, auth attempt | request, retry, abort | time-outs and aborted uploads |
| Session life cycle, `react/Lifecycle.js`, `react/MatrixClientPeg.js` | stored session, current client | login, restore, log out, soft log-out | partial failure while replacing a session |
| UI stores and services, `react/stores/*`, `react/CallHandler.js`, `react/UserActivity.js`, `react/Presence.js`, `react/utils/MultiInviter.js`, ... | per-store state | dispatcher actions | dispatcher order, timers, partial failure |
| React components, i18n, themes, editor, autocomplete | view state | rendering | none a model checker reaches |
| Page loader, Electron shell, origin migrator, build scripts | window, updater | start, update | platform I/O |

The components meet in three ways.  Calls: the client hands an event to the
scheduler, which calls back the client's process function; the crypto layer
asks the device list for keys before a send.  Messages: the homeserver answers
requests and, independently, delivers sync responses; either can arrive first.
Shared state: an event object is shared by client, room and scheduler; the
IndexedDB stores are shared by the sync loop, the crypto layer and by other
tabs.  JavaScript runs one callback at a time, so a model action is one
callback or one microtask: everything between two awaits is atomic, and
anything may run at an await.

## 2. Modules and the code they model

| Module | Role | Code |
|---|---|---|
| `MatrixScheduler` | the scheduler's state and handlers | `sdk/scheduler.js` |
| `SchedulerService` | the scheduler alone, driven by an environment | callers of `sdk/scheduler.js` |
| `FifoSender` | abstract specification: what a user of the scheduler is promised | doc of `MatrixScheduler.QUEUE_MESSAGES` |
| `SendEvent` | client, room and homeserver around `MatrixScheduler` | `sdk/client.js`, `sdk/models/room.js` |
| `DeviceList` | the device list, its download serialiser, its save | `sdk/crypto/DeviceList.js` |
| `DeviceSync` | the sync loop, crypto hooks, other callers, homeserver and reloads around `DeviceList` | `sdk/sync.js`, `sdk/crypto/index.js` |
| `SyncLoop` | the connection of a client: start-up, saved sync, loop, keep-alives | `sdk/sync.js` |
| `OutgoingKeyRequests` | the request manager in several tabs over one store | `sdk/crypto/OutgoingRoomKeyRequestManager.js`, `sdk/crypto/store/indexeddb-crypto-store-backend.js` |
| `KeySharing` | the to-device queue, the asked device and its dialogs, around `OutgoingKeyRequests` | `sdk/crypto/index.js`, `react/KeyRequestHandler.js` |
| `KeyBackup` | marking and uploading sessions, versions of the backup | `sdk/crypto/index.js`, `sdk/client.js` |
| `MegolmOutbound` | the outbound group session of a room | `sdk/crypto/algorithms/megolm.js` |
| `OlmSessions` | concurrent calls that set up Olm sessions | `sdk/crypto/olmlib.js` |
| `Calls` | two parties with their calls, call list and incoming-call box | `sdk/webrtc/call.js`, `sdk/client.js`, `react/CallHandler.js` |
| `SchedulerProofs`, `SendEventProofs`, `DeviceSyncProofs`, `SyncLoopProofs`, `KeySharingProofs`, `KeyBackupProofs`, `SessionsProofs`, `CallsProofs` | theorems; `SessionsProofs` is about both `MegolmOutbound` and `OlmSessions` | |
| `MC...` | instances for TLC | |

`SendEvent`, `DeviceSync` and `KeySharing` compose a component with the ones it
talks to.  `MCSessions` puts two independent specifications under one run: its
variable `explored` chooses once which of them moves.

Throughout, one action is one callback: what the code does between two awaits
happens at once.  A promise that has been settled but whose handlers have not
run is a state of its own where the order matters.

**Scheduler.**  `queues`, `activeQueues` and `procFn` are `_queues`,
`_activeQueues` and `_procFn`; `attempts` is the entry's counter, saturated one
above the value the retry algorithm compares it with; `defer` is the promise
`queueEvent` returned.  `at` and `held` are what lives in the closures of
`_processQueue`: where a queue's chain is suspended and the entry it peeked.
`StartProcessing` and `ProcessQueue` are the two internal functions, used by the
handlers that call them.  `RemoveEventFromQueue` neither settles the promise nor
touches the chain, as in the code.

**Sending.**  `flow` is where the promise chain of `_sendEvent` is for an event;
`status`, `pendingEventList`, `txnToEvent` and `timeline` are the event status
and the room's three indexes; `localId` and `localRef` say which events, and
which relations' contents, still carry a local id.  `request` and `server` are
the wire and the homeserver: a request can be open, answered, or a *stray* whose
answer the client no longer waits for but which the server may still accept.
`Legal` is the `ALLOWED_TRANSITIONS` check that `updatePendingEvent` throws on.
Two lists of actions that may run at different times make up the interleaving:
microtasks run before the next answer, timer or sync response; the application
may call `sendEvent`, `resendEvent` or `cancelPendingEvent` at any moment.
`RelationAssumption` says which relations there are: a relation or redaction is a
message that the scheduler queues (`sdk/scheduler.js:179-187`), in the queue of
its target if that one is queued.

**Device lists.**  The server's device changes form a log.  A sync token is a
position of it, and a stored device list is named by the position it was
queried at.  So "the list is fresh at token *t*" is a statement about the log
and nothing is assumed about the contents of device records.  `trackingStatus`,
`inProgress`, `dirty` and `syncToken` are the members of those names;
`inProgress` also tells whether the registered promise is the running batch's
or the queue's, which is all the identity comparison in `finished()` can see.
`writes` are snapshots on their way to IndexedDB, `disk` is what it holds;
`awaited` marks the one the sync loop waits for.  `sync` follows one pass of
`_sync`: `rooms` (the response is being processed), `left`
(`handleDeviceListChanges` awaits the room members), `saving`
(`saveDeviceList(0)` is awaited), `polling` (the next request is out).
`store.save()` writes the sync data to its own database (`storeWrite`,
`storeDisk`).  `PageReload` starts a new client from what the two databases
hold.

The options of that environment are constants: `Lagging` (a `/keys/query` answer
may be as old as the token it was given), `CutsWrites` (a reload may cut off a
crypto-store write), `SyncMayThrow` (an exception skips the rest of a
response), `LazyLoadMembers` (the client option).  Each run says which world it
is about.

**Connection.**  `at` is where the one flow of control is, from the push rules
of start-up over the saved sync to the loop's request, processing and save; the
saved sync, keep-alive timers, pokes, the browser's `online` event,
`retryImmediately` and `stop` run beside it.  `handle` is the timer whose handle
`_keepAliveTimer` holds and `lost` counts those that run although their handle
was overwritten, which the code allows.  `connection` is whether a
`_connectionReturnedDefer` exists.  Tokens are positions of the server's stream.

Things to know when reading it: a poke that was sent before a reconnection, or
before `stop`, and fails after it still shows `ERROR` and goes on poking; the
first sync can be an initial one when the saved token has not been read yet;
`online` makes a promise nobody waits for when the loop is not waiting.

**Key requests.**  One request body.  `store` is its IndexedDB record, and every
transaction on it is an action.  A tab has three slots for work: its send loop,
a call of the crypto layer, and the cancellation that `cancelRoomKeyRequest`
sends without waiting for it.  A message has two steps, accepted by the server
and answered, and fails before or after the first; `seen` is the server's
deduplication by transaction id.  `KeySharing` adds what the other device does
with the to-device messages: the two queues of `crypto/index.js`, the processing
run that takes them both, and the dialogs of `KeyRequestHandler.js`.

The model shows (and the properties are worded around) these behaviours: with
two tabs a record may be `SENT` though only a cancellation was delivered; a
request that is wanted again while its cancellation is in flight is `SENT` for a
cancelled request; a resend keeps the old transaction id of the request; a
cancellation of an `UNSENT` record whose message is in flight deletes it and
cancels nothing (the `FIXME` at `OutgoingRoomKeyRequestManager.js:255`).  With two
tabs and four transactions there is one more, which the attempt to prove
`CancelledLast` brought to light: the late answer to an earlier cancellation
deletes the record after the request was sent again under a new transaction,
while a newer cancellation is still on its way; if that one fails, nothing is
left to "retry later".  In the run a tab has one cancellation in flight, which
hides it; the property therefore excepts requests that were `SentAgain`.

**Key backup.**  `marked` is `sessions_needing_backup`; `marking` are sessions
whose handler, having stored them and found the backup enabled, has not ended the
transaction that marks them, since that is a transaction of its own.  `send` is where `scheduleKeyBackupSend` is and the
batch it holds; `version` is what this client believes in and `current` what the
server has, which this and another device change.  `backedUp` keeps the contents
of every version that ever was.

Behaviours the model has: a batch is one larger than the limit, since the
cursor is compared after it was pushed; a session received before the mark's
transaction, or while the backup is off, is not marked until everything is; a
session improved while its batch is uploaded is unmarked with it
(`crypto/index.js:1266`); a batch encrypted for one version may be uploaded to
the next; a late answer of a check may switch back to an older version; after a
switch sessions may wait without a send (`crypto/index.js:1195`).  The property
claims only what survives all of that.

**Megolm.**  A message goes through `stage` `waiting` (in the chain of
`_setupPromise`), `preparing` (its turn), `ready`, `sent`.  `turn` is the turn of
the chain that runs; `marked` is `sharedWithDevices` and `given` what was really
delivered, which differ when the answer of a delivered request is lost
(`unacknowledged`, a history of these devices) or a device has no one-time key
(`keyless`).  Continuations run before responses (`Calm`).  The
audience is the list of devices at the time of the call, and may be stale when
the turn comes; `deviceInfoByDeviceId` (keyed by device id alone) is abstracted
by devices with distinct ids.  A slice holds one device more than its limit
(`megolm.js:345` tests `>`), and one message more than the rotation limit may use
a session, because the next turn begins before the message is counted.  A device
whose slice was delivered but whose answer was lost has the key and is not
recorded (`megolm.js:417`): when it leaves the room before the slice is repeated,
the code sees no device too many, keeps the session, and the next message can be
read by that device.  `KeyStaysInAudience` excepts exactly these devices, and TLC
refutes it without the exception.

**Olm sessions.**  `inProgress` is `_sessionsInProgress`, `next` the loop index,
`without` and `starting` the devices a call claims keys for and verifies.
A failing read of the store leaves the call `broken` with its marks.  The
`force` option, which claims without a mark, and inbound decryption, which also
waits for marks (`OlmDevice.js:464`), are left out.

**Calls.**  A party is a record: its `MatrixCall` objects by call id, `callList`
(`listed`), the incoming-call box (`active`, `rings`), the callbacks of
`getUserMedia` and the peer connection that are to come (`doing`), and the
events to be sent (`outbox`).  Call events do not go through the scheduler, so
`sends` is a set: they overtake each other.  Each party places at most one call,
which carries its name; the name also orders the two in a glare.  `CallsAssumption`
says that there are exactly two parties: who is the other one, and who has the
lower call id, is all the code asks.

Until its first sync a client only collects call events (`client.js:4109-4161`).
The model leaves them in the `inbox`, and `Prepared` takes a prefix of it as the
buffer: calls it answers or hangs up are dropped, what is left is handled.  The
hangup of such a call is **not** put into `callList`, so that an invite which
comes with a later sync rings.  A hangup that a prepared client receives is
remembered for good.  The user interface is shown when the client is prepared
(`MatrixChat.js:1345-1370`), hence the guard of `PlaceCall`.

Behaviours the model has: a call that has ended comes back when the response to
its invite or answer is late; an answer that overtakes the invite's own response
connects the call and is then put back to `invite_sent`, whose timer hangs it
up; a glare in which both are still in `create_offer` replaces both calls; two
calls may be connected at once; a call answered in a glare is never shown; a call
without permission for the devices only receives, and when it is to be replaced
in a glare the code throws (`call.js:652`), which leaves the incoming call ringing
but not shown and loses the rest of the sync response; the end of the remote
stream, which a browser may report for the own `close()` as well, is a second
"hangup" of a call that is over (`call.js:946`) and takes the box from another.
All of these are outside of the three properties, which are what remains true.
In the model the stream's end may be reported more than once: the properties hold
for more than the browser does.

## 3. Runs

All runs finish within five minutes on two workers.

| Run | Question | Bounds |
|---|---|---|
| `scheduler` | can any interleaving of queueing, removal, retries and timers park, drop, duplicate or reorder an entry? | two queues, three events in one of them, one in the other, one removable in each, one failed attempt before giving up |
| `send_local_echo` | do the local echo, the scheduler and the wire agree whatever races? | an encrypted message whose echo may be skipped, a relation to it, an event that is not queued |
| `send_liveness` | does every send end? | a message and its relation |
| `device_list_memory` | can a list marked up to date miss a change? | two users, one of whom is also asked for by callers; two changes; a failing batch; no lazy loading |
| `device_list_store` | does what is stored stay consistent, and is it trustworthy after a reload? | one user, two changes, two writes in flight, one reload, a lagging server |
| `device_list_liveness` | is an outdated list refreshed, does the loop go on? | one user, one change, exceptions while a response is processed |
| `sync_loop` | can a client wait for a connection nobody tests, or its token go back? does it sync again? | threshold 3, four failures, two events of the browser or user, two positions, one store that degrades |
| `key_sharing` | can a key request be forgotten in some state, or a cancelled one keep asking the user? | one tab, three transaction ids, one failure, one reload, one dialog for another device |
| `key_backup` | can a session be unmarked that no backup holds, or the send lock stay taken? | three sessions, batches of at most two, two versions; each session received once; one failure, check and reload |
| `calls` | do ringing, answering, hanging up and glare leave the two parties in states that fit, from before their first sync on? | two parties, one call each, three mishaps (a second call uses them up), two unsynced events |
| `sessions` | does every message reach the devices it is meant for, and no other but those whose request was answered to nobody? are one-time keys claimed once? does anybody wait for ever? | two devices, three messages, rotation after one, slices of one, four sessions, a mishap and a change; apart from it two Olm peers, three calls in one order, one failure |
| `olm_deadlock` | the same three calls, two of them in opposite orders | no failures |

*Why the bounds are enough for the question.*  The scheduler's handlers look at
the head of one queue and at whether it is empty; three entries give a head, an
entry behind it that can be removed and one that must then move up, and the
second queue shows that queues do not disturb each other.  One attempt before
giving up meets both answers of the retry algorithm.  Sends interact through a
relation and its target or through the shared queue, so that two events suffice
and the third adds the path without a queue.  In the device list users interact
only through the batch they share: one in the batch and one in the queue behind
it is every case of `finished()`.  Two changes allow one before and one after
each step of a download.  Two writes in flight give one that is awaited behind
one that is not.

Four failures of the sync loop bring it over its threshold of three and leave
one; two nudges let one find the loop waiting and the other find the poke of the
first in flight.  Three transaction ids are a request, its cancellation, and a
new request or cancellation while one of them is in flight.  Two tabs multiply
the states beyond what a run can hold; a search of ten million states of two
tabs found nothing, and `PendingHasASender` is proved for any tabs.  Three
sessions with a batch of two leave one for the next batch, and two versions are
what a switch needs; a session that is received again, improved, is too much for
the run and covered by the theorem.  One device per slice and two devices give a share that can
fail between its slices; a rotation after one message with three messages gives
every position of a rotation among messages that wait, share and are encrypted,
and a mishap between any two.  Two Olm peers and three calls give a call that
waits, one it waits for, and one that meets both.  The theorems of section 5
lift the safety results that matter most to any number of users, events, queues,
sessions, devices, calls, changes and failures.

The properties, run by run:

- `ActiveIffRunning`, `QueuedOnceAndPending`: the chain's private knowledge (it
  keeps an entry over a microtask and a request, then shifts whatever heads the
  queue) still agrees with the shared queue.  `ImplementsFifo`: the handlers
  refine `FifoSender`, both alone and as the client drives them.
  `QueuedPromiseSettles`: what nobody removes is settled.
- `PendingListMatchesStatus`, `SettledLeavesScheduler`, `OneRequestPerQueue`,
  `RelationWaitsForTarget`, `EchoIsFinal`: the four places that know about an
  event (its status, the pending list, the scheduler, the wire) agree after
  every order of answer, echo, cancel, retry and resend.  `SendSettles`: every
  send ends or is cancelled.
- `UpToDateIsFresh`, `InProgressIsInABatch`: an answer that was overtaken by an
  invalidation is never trusted, and no user is shown as being downloaded by
  nobody.
- `StoredListMatchesToken`, `StoredListCoversStoredSync`, `CleanMeansSaved`: the
  stored list fits the token in its own record and the token in the other
  database; the dirty flag never hides an unsaved change.
- `OutdatedGetsRefreshed`, `DownloadSettles`, `SyncGoesOn`: progress.
- `WaitingIsPoked`: keep-alives, error path and `retryImmediately` share one
  promise and one timer, yet nobody waits in vain.  `TokenNeverGoesBack`: the
  saved sync and early requests never take the store back.  `SyncsAgain`.
- `PendingHasASender`: a record that is not final has a call, a loop or a timer
  that will look at it, also after reloads.  `CancelledLast`: a deleted request
  was called off last at the other device, or had been sent again under a new
  transaction.  `NoCancelledRequestWaits`:
  requests and cancellations that were split over syncs and processing runs
  leave no cancelled request behind a dialog.  `PendingIsSettled`: progress.
- `UnmarkedWasUploaded`, `SendingEnds`: no mark is dropped without an upload, no
  attempt keeps `_sendingBackups`.
- `OfferedIsRinging`, `ConnectedToACaller`, `HungUpNeverRings`: the box follows
  the call; nobody is connected to a party that is still setting up; a hangup
  that overtakes its invite is remembered by a prepared client, and counts in the
  start-up buffer it is in.
- `AudienceCanRead`, `KeyStaysInAudience`, `RotatedInTime`: confidentiality
  (devices of unacknowledged requests apart) and readability of each message over
  turns that overlap with membership changes and failures.  `MessagesSettle`: a failing share blocks nobody.
- `NothingLeftInProgress`, `DoneHasSessions`, `ClaimedOnce`, `EveryCallEnds`: the
  marks are locks that are always released, and are looked at again after a wait.

Every property has a mutant of a modelled definition that violates it, an
operator of the same module marked `Mutant:` (a dropped guard, a missing
hand-over, a swapped order).

Deadlock is checked in the scheduler, device list, sync loop, key sharing and
`sessions` runs.  The others really stop: when every event is echoed or cancelled, when
there is nothing to back up, when both have hung up, when each call waits for the
other (`olm_deadlock`).

**Fairness.**  Microtasks and timers run (weak fairness); requests end, and the
server does not answer every attempt with a rate limit for ever (strong
fairness of the other outcomes, since a rate limit is retried without a bound).
In `SendEvent`, network and timers get their turn between two bursts of
microtasks, hence strong fairness.  In `DeviceSync`, the loop asks again as soon
as it is done, queries are answered, the save timer fires and databases finish
their writes.  `DownloadSettles` and `OutdatedGetsRefreshed` hold only while no
query fails (`MaxFailures = 0`): the batch queued behind one that fails is not
started (section 4).

In `SyncLoop` each timer, with or without its handle, each poke and the flow
itself make progress, one way or the other; in `KeySharing` the steps of a call,
the timers, the loops, and the two steps of each message; in `KeyBackup` the
send, the marking of received sessions and the answers of checks; in
`MegolmOutbound` and `OlmSessions` some continuation or answer (success or
failure alike) as long as one is to come.  Failures are bounded, so progress
means that they end.  No fairness is assumed of users, membership and device
changes, other devices, reloads or failures.

## 4. Where code and text disagree

`olm_deadlock` is a counterexample to what the code says of itself.  A call
marks each device it finds without a session and goes on to the next; if another
call has marked that one, it waits while it keeps its own marks
(`sdk/crypto/olmlib.js`).  Two rooms that list two devices in opposite orders
then wait for each other for ever, and every later message of both rooms waits
behind them.  In the `sessions` run, where all calls go through their devices in
one order, the same property holds.

Other places where the code does not do what its text says, met while modelling;
the models follow the code:

- A reaction is never encrypted, so it can be queued before the message it
  reacts to, which is still being encrypted, and is sent with the message's
  local id (`sdk/client.js:1798`, `1862`).
- The echo of an event arrives while its retry waits: the process function
  throws on its null status, the back-offs are spent and the send of a delivered
  event is rejected (`sdk/client.js:195`).
- Back-pagination adds an event before its answer arrives:
  `updatePendingEvent` returns early and it stays `SENDING` in the pending list
  (`sdk/models/room.js:1318`).
- The dirty flag goes down before the write is done, so `saveDeviceList(0)` does
  not wait for a write in flight; a page closed in between trusts a stale list
  after its reload (`sdk/sync.js:806`; constant `CutsWrites`).
- `setRoomEncryption` tests `this.inhibitDeviceQuery`, which nobody sets, instead
  of its argument (`sdk/crypto/index.js:1023`).
- The batch queued behind one that fails is not started: those who wait for it
  wait until somebody else needs another user (`sdk/crypto/DeviceList.js:751`).
- The start-up buffer is there "to correctly determine if an incoming call has had
  a matching answer/hangup" (`sdk/client.js:4114`), but what it finds is forgotten
  with the buffer: an invite that follows its hangup in a later sync rings, which
  line 4285 prevents at any other time.

## 5. Proofs

`tlapm <Module>Proofs.tla` checks every leaf.  The type invariant of every
specification below is proved too; the runs do not repeat it.

**Scheduler** (any sets of events and queues, any `MaxAttempts`).  `HeldIsHead`
and `ActiveIffRunning` are not inductive alone: a removal could take the held
entry away if an event could be in a queue twice or in a foreign queue, and a
queue that is settled must have somebody waiting.  The invariant adds
`QueuedOnceAndPending` and the types; a shift of the head and a removal of an
entry that is not held are the two lemmas on sequences that carry the argument.
`SchedulerImplementsFifo` then maps each handler to `Submit`, `Settle`,
`Withdraw` or a stutter, with the invariant supplying that the settled entry is
the head and pending.

**Sending** (any events, queues, relations and encrypted rooms,
`MaxAttempts > 0`).  In the client `HeldIsHead` is false: `cancelPendingEvent` may
take an entry away between the chain's peek and the microtask that calls the
process function.  Such an entry is `Forgotten`: it has no failed attempt and no
request, the process function throws on its status, and a first failure is
retried as long as one attempt is allowed, which finds the new head.  Hence a
chain shifts its queue only while it holds the head (`ChainOK`), and hence the
assumption on `MaxAttempts`.  `EventOK` ties the status of an event to the promise
chain of its send.  From the two follow `PendingListIsRight`,
`SettledEventsAreGone`, `OneRequestAtATime`, `EchoesAreFinal` and
`ClientImplementsFifo`.  `RelationsLearnTheirTarget` follows the local ids in
`RInv`: an event whose promise is resolved keeps its local id only until the next
microtask of its send (`LocalOK`), and until then a relation that names this
local id is not on the wire (`RelationOK`).  `RelationAssumption` is needed: two
queues would not order a relation and its target.

**Device list.**  `DeviceSyncInABatch` needs the types and no assumption on the
environment: every path that leaves a user `in_progress` also leaves the
promise of a batch or of the queue registered for that user.  `DeviceSyncSaved`
needs none either: every step that changes a status beyond what a reload would
undo raises the dirty flag, and a cut-off write takes the memory with it.

`DeviceSyncUpToDate` and `DeviceSyncStored` share one inductive invariant, `IInv`,
which rests on `CleanMeansSaved`:

- `MemoryFresh`: up-to-date lists are fresh up to the *horizon*, the token that
  has been handled, or during an initial sync (which names no changes, and
  has stopped all tracking) already the new one;
- `AnswerFresh`: while a batch is processed, its answer is fresh up to the
  horizon for every user it would still mark (`in_progress` under the batch's own
  promise) or who is up to date already, and users already processed hold it;
- `SnapshotsFresh`: the newest snapshot on its way to the disk, or on it, is
  fresh for the token the sync store holds, for the one it is writing, for the
  new one if the loop awaits the save, and up to the horizon if the flag is down;
- `OneAwaited`: the loop awaits one save at a time;
- `Tokens`: the order of the five tokens.

`Looked` states what the handlers of a response may do to the statuses before
`onSyncCompleted`; both paths to the end of a sync establish it, and one lemma
(`SyncCompletedKeeps`) carries the invariant over the end of the sync, download
included.

`DeviceSyncTokenMatches` is about the token in the *record*, which after a reload
may be ahead of the horizon: the sync store may hold an older token than the
crypto store.  `IInv` says nothing of that stretch, so a second invariant, `TInv`,
does: the memory is fresh at `syncToken`, the answer being processed at the same
(`AnswerFreshAtToken`), and each snapshot at the token that is in it
(`StoredFresh`).

The three theorems on freshness assume `~SyncMayThrow`, `~CutsWrites` and
`OnlySyncsAskIfLagging`, and all are needed (TLC refutes `UpToDateIsFresh` without
any one of them).  An exception skips the changes of a response for good, and with
cut-off writes a reloaded client trusts a stale list (section 4).  The third says
that with a lagging server nobody but the end of a sync asks for keys, as in
`device_list_store`: there are no other callers, and members are loaded lazily, so
that `OnCryptoEvent` does not ask either.  A query that is sent between an
invalidation and the end of its sync, or during an initial sync, carries the
previous token, and the server may answer as of then.  Where only the end of a
sync asks, `QueriesFresh` is an invariant too: a query is fresh up to the horizon
before it is answered, for every user its answer may still mark, and so is the
queue behind it.

**Sync loop** (any threshold, stream and number of failures).  `WaitingIsPoked`
is inductive on its types: whoever takes the timer's handle leaves a timer or a
poke behind, and only `success()` gives up the promise, which ends the wait.
`TokenGoesForward` needs `SavedFirst`: nothing sets the token before the saved sync
is read, and the loop is not entered before it is done.

**Key requests** (any tabs over one store, failures, reloads).
`PendingRequestHasSender`: the invariant names the sender.  `UNSENT` has a timer,
or a loop whose timer counts as running until it found nothing to do
(`LoopHasTimer`); a record being cancelled has one too, or the message the call
sent at once (`SenderForPending`).  What a job may carry is `JobsCarry`.

`DeletedRequestIsCalledOff` relates transaction ids to messages, over the record
and all the copies of it that jobs carry: an id names one message
(`TxnsNameMessages`); a message whose id the server has seen is among those it
passes on (`SeenWasTaken`), so is every message a job believes accepted
(`AcceptedIsSeen`); only a request the server has is cancelled
(`CancelsAreRequested`), so that each cancellation follows its request
(`CancelsFollow`).  `CancelledRequestDoesNotWait` is about the other device:
a cancellation that was delivered is in a queue no earlier than its request, or
was taken with it or after it (`CancelledIsNoted`), so that when a run of
processing ends no cancelled request is among those that wait.

**Key backup** (any sessions, batch limit, versions).  `OnlyUploadedAreUnmarked`:
a batch goes to a version that exists, and when it is about to be unmarked that
version holds it (`SentBatch`).  Backups only grow, so neither a switch nor a
deletion matters; marking everything drops no mark because only received
sessions are marked.

**Megolm** (any devices, messages, slices, changes).  The invariant follows a
session from turn to turn: during a turn the devices left and those marked make
up the audience (`TurnShares`); at its end the marked ones are the audience and
stay so until the message is encrypted, for no turn moves while a message is
ready (`ReadyIsShared`); a marked device was given the key or had no one-time key,
at an index the session has reached (`MarksAreKeys`); a device that was given the
key is marked or was given it by an unacknowledged request (`KeysAreMarked`); and `UsedInTime` counts the
messages a session may still be used for.  This gives `SentMessagesCanBeRead`,
`KeysStayInAudience` and `SessionsAreRotated`.

**Olm sessions** (any devices, calls, orders of devices, failures).  A call's
marks are on the device it looks at and on those without session
(`MarksOfCalls`); a device that was looked at has a session or is among those
(`LookedAt`); and when a call has a device without session but not the mark, some
call for it came to nothing (`MarkOrTrouble`), which is what makes `ClaimedOnce`
inductive.  None of this excludes the deadlock, which is a liveness failure.

**Calls** (two parties; any number of mishaps and unsynced events).  Each of the
properties speaks of one side of a call, and what a side does depends on events
that are on their way, so the invariant (`CallsInvariant`) says what may be on its
way while a side is in a given state:

- the box offers a call that rings (`OfferOK`);
- a party's own call is neither listed nor replaced while it is `fledgling`, has at
  most one offer to come, and is in a late state once the answer's description is
  set (`OwnOK`);
  a call of the other one that it does not know has no callbacks to come (`OtherOK`);
- events in the air and in the inbox are of calls their sender has left the
  `fledgling` state of (`SendsOK`, `InboxOK`);
- a call has one invite, and none is on its way any more once the other side knows
  the call (`InviteOK`);
- an answer comes from a side that knows the call, and a side is connected only to
  a caller that has its answer (`LinkOK`).

A step changes one party and the events it sends: `Touches` and `Leaves` say what it may make of the party,
`MaySend` what it may send, and the lemmas `MovesKeeps` and `ArrivesKeeps` carry
the whole invariant over any such step, so that each handler is examined once, for
the party it runs in.  A glare is the case in which two calls of a party change in
one step.  What is read may be one event, the start-up buffer or what an exception
takes with it (`Reads`): since a call has one invite, a prefix that holds it leaves
none behind (`TakesPrefix`), and a hangup of the buffer is of the call its invite
would be of (`HungUpIsFinished`).  From it follow `OfferIsOfARingingCall`, `NoCallerIsBehind` and
`HangupIsRemembered`.

Every safety property of the runs is now a theorem, under the assumptions named
above.  Only model-checked are the liveness properties (`QueuedPromiseSettles`,
`SendSettles`, `OutdatedGetsRefreshed`, `DownloadSettles`, `SyncGoesOn`,
`SyncsAgain`, `PendingIsSettled`, `SendingEnds`, `MessagesSettle`,
`EveryCallEnds`), since fairness and `ENABLED` are out of the prover's reach.
Induction over data and recursive operators are out of its reach too; no module
declares one.

## 6. What is left out

Event contents, formats, back-off durations and log output; the "chronological"
ordering of pending events, which the application does not use; failing writes of
the crypto store (its promise has no reject path, so the loop would stop at
once); the contents and signatures of device records; the identity of the server
(federation): one query answers for all users; guests; lost responses other than
those a failure stands for; ICE candidates, screen sharing and conferences;
restoring a backup and the trust in its signatures; the cryptography of libolm.
Timers are guards: they may fire at any time after they were set, which allows
every duration.

**Not modelled.**  Most of the repository is user interface (React components,
editor, themes, translations), wrappers around HTTP requests, and
transformations of data (filters, push rules, search, relations, formatting).
They keep little state between callbacks, and their unit tests reach them: the
models cover a small share of the lines, and the share of the protocol engine
whose steps interleave.  Components without a model are listed, with the
reason, in `PROJECT.json`.

## 7. Plan

The modules of the first plan are written, in its order: scheduler, sending,
device lists, sync loop, key requests, key backup, Megolm and Olm sessions,
calls, each with its theorems.  What later work would add:

1. `Verification`: the exchange of `sdk/crypto/verification/*.js` between two
   devices with its timeout and cancellation; both end in the same way.
2. `Timeline`: linking of overlapping pages against a reference definition.
3. Candidates of a call and their re-sending by a timer (`call.js:1202`).
4. Out-of-band members against live state; `MultiInviter`; replacing a session.
5. Several request bodies in `KeySharing`.

## 8. Running

    tlc -workers 2 -config Scheduler.cfg MCSchedulerService.tla
    tlc -workers 2 -config SendEventSafety.cfg MCSendEvent.tla
    tlc -workers 2 -config SendEventLiveness.cfg MCSendEvent.tla
    tlc -workers 2 -config DeviceSyncMemory.cfg MCDeviceSync.tla
    tlc -workers 2 -config DeviceSyncStore.cfg MCDeviceSync.tla
    tlc -workers 2 -config DeviceSyncLiveness.cfg MCDeviceSync.tla
    tlc -workers 2 -config SyncLoop.cfg SyncLoop.tla
    tlc -workers 2 -config KeySharing.cfg MCKeySharing.tla
    tlc -workers 2 -config KeyBackup.cfg MCKeyBackup.tla
    tlc -workers 2 -config Calls.cfg MCCalls.tla
    tlc -workers 2 -config Sessions.cfg MCSessions.tla
    tlc -workers 2 -config OlmDeadlock.cfg MCOlmSessions.tla
    for m in *Proofs.tla; do tlapm $m; done

`PROJECT.json` pairs every run with its configuration and properties, every
property with its mutant, every definition with its source lines and every
hazard with the properties that guard against it.
