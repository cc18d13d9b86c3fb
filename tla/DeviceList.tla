------------------------------ MODULE DeviceList ------------------------------
(***************************************************************************)
(* The device lists a client keeps of the users it encrypts for            *)
(* (src/crypto/DeviceList.js), with the serialiser of /keys/query calls    *)
(* and the write-behind save to the crypto store.                          *)
(*                                                                         *)
(* A device list is named by the position in the server's log of device    *)
(* changes as of which it was queried; a sync token is such a position     *)
(* too.  So "list p is fresh at token t" means no change of that user in   *)
(* between.  Each action is one callback; the operators are the methods a  *)
(* callback runs several of.                                               *)
(***************************************************************************)
EXTENDS Integers, Sequences

CONSTANTS
  Users,       \* the users whose devices may be tracked
  MaxWrites    \* bound on store writes in flight

ASSUME DeviceListAssumption == MaxWrites \in Nat

VARIABLES
  trackingStatus,  \* _deviceTrackingStatus: user -> TRACKING_STATUS_*
  devices,         \* _devices: user -> position of the stored list
  syncToken,       \* _syncToken
  inProgress,      \* _keyDownloadsInProgressByUser: user -> whose promise it is
  phase,           \* the running batch: none, request out, answer being processed
  batchAt,         \* its token while requested, its answer's position after
  running,         \* its users (downloadUsers)
  toProcess,       \* those whose answer is still to be processed
  queued,          \* _keyDownloadsQueuedByUser
  queryToken,      \* the serialiser's own _syncToken, while there is a queue
  dirty,           \* _dirty
  saveTimer,       \* the pending save timer, and whether its delay was 0
  writes,          \* snapshots being written to the crypto store, oldest first
  disk             \* the snapshot the crypto store holds

memVars == <<trackingStatus, devices, syncToken>>
batchVars == <<phase, batchAt, running, toProcess, queued, queryToken, inProgress>>
diskVars == <<writes, disk>>
listVars == <<memVars, batchVars, dirty, saveTimer, diskVars>>

NoToken == -1
Positions == Nat \union {NoToken}
Statuses == {"not_tracked", "pending", "in_progress", "up_to_date"}

\* What storeEndToEndDeviceData puts in one record.
Snapshot == [trackingStatus : [Users -> Statuses],
             devices : [Users -> Positions],
             syncToken : Positions]

DeviceListTypeOK ==
  /\ trackingStatus \in [Users -> Statuses]
  /\ devices \in [Users -> Positions]
  /\ syncToken \in Positions
  /\ inProgress \in [Users -> {"none", "running", "queued"}]
  /\ phase \in {"idle", "requested", "processing"}
  /\ batchAt \in Positions
  /\ running \in SUBSET Users
  /\ toProcess \in SUBSET running
  /\ queued \in SUBSET Users
  /\ queryToken \in Positions
  /\ dirty \in BOOLEAN
  /\ saveTimer \in {"none", "short", "long"}
  /\ writes \in Seq([data : Snapshot, awaited : BOOLEAN])
  /\ Len(writes) <= MaxWrites
  /\ disk \in Snapshot

EmptySnapshot ==
  [trackingStatus |-> [u \in Users |-> "not_tracked"],
   devices |-> [u \in Users |-> NoToken],
   syncToken |-> NoToken]

\* A fresh object has no request out, nothing queued and nothing to save.
ListIdle ==
  /\ inProgress = [u \in Users |-> "none"]
  /\ phase = "idle"
  /\ batchAt = NoToken
  /\ running = {}
  /\ toProcess = {}
  /\ queued = {}
  /\ queryToken = NoToken
  /\ dirty = FALSE
  /\ saveTimer = "none"
  /\ writes = <<>>

ListInit ==
  /\ trackingStatus = EmptySnapshot.trackingStatus
  /\ devices = EmptySnapshot.devices
  /\ syncToken = EmptySnapshot.syncToken
  /\ disk = EmptySnapshot
  /\ ListIdle

-----------------------------------------------------------------------------
(* Methods that mark users: each maps the tracking status to a new one. *)

SetStatus(st, us, s) == [u \in Users |-> IF u \in us THEN s ELSE st[u]]

Tracked(st) == {u \in Users : st[u] # "not_tracked"}

StartTrackingDeviceList(st, us) == SetStatus(st, us \ Tracked(st), "pending")

StopTrackingDeviceList(st, us) == SetStatus(st, us \intersect Tracked(st), "not_tracked")

\* Mutant: a user who is being downloaded is taken to be covered by that.
InvalidateUnlessInProgress(st, us) ==
  SetStatus(st, {u \in us \intersect Tracked(st) : st[u] # "in_progress"}, "pending")

InvalidateUserDeviceList(st, us) == SetStatus(st, us \intersect Tracked(st), "pending")

-----------------------------------------------------------------------------
(* saveIfDirty and the write it starts. *)

\* saveIfDirty: the timer after the call.  A pending timer of 500ms makes way
\* for one of 0ms; any other pending timer is kept.
SaveIfDirty(isDirty, timer, delay) ==
  IF isDirty /\ (timer = "none" \/ delay = "short") THEN delay ELSE timer

\* Mutant: the timer's callback forgets who waits before it starts the write.
ForgetsPromise == FALSE

\* Does the sync loop await the pending save?  It alone asks for a delay of 0.
SaveAwaited == saveTimer = "short"

\* The save timer fires: the flag is cleared, then the write starts.
SaveTimerFires ==
  /\ saveTimer # "none"
  /\ Len(writes) < MaxWrites
  /\ writes' = Append(writes, [data |-> [trackingStatus |-> trackingStatus,
                                         devices |-> devices,
                                         syncToken |-> syncToken],
                               awaited |-> SaveAwaited])
  /\ saveTimer' = "none"
  /\ dirty' = FALSE
  /\ UNCHANGED <<memVars, batchVars, disk>>

\* IndexedDB runs writes to one object store in the order they were started.
WriteDone ==
  /\ writes # <<>>
  /\ disk' = Head(writes).data
  /\ writes' = Tail(writes)
  /\ UNCHANGED <<memVars, batchVars, dirty, saveTimer>>

-----------------------------------------------------------------------------
(* Downloads: _doKeyDownload and the serialiser. *)

\* Mutant: the promise of the queue is not handed over to the batch.
StartBatchKeepsQueuePromise(us, reg, token) ==
  /\ phase' = "requested"
  /\ batchAt' = token
  /\ running' = us
  /\ queued' = {}
  /\ queryToken' = NoToken
  /\ inProgress' = reg
  /\ toProcess' = {}

\* _doQueuedQueries: the users us leave the queue in one request.  The promise
\* registered for a user who was queued is now that of the running batch.
StartBatch(us, reg, token) ==
  /\ phase' = "requested"
  /\ batchAt' = token
  /\ running' = us
  /\ queued' = {}
  /\ queryToken' = NoToken
  /\ inProgress' = [u \in Users |-> IF reg[u] = "queued" THEN "running" ELSE reg[u]]
  /\ toProcess' = {}

\* _doKeyDownload(us) with updateDevicesForUsers, given the status st and the
\* sync token at the call: queue the users, and start a batch if none runs.
DoKeyDownload(st, us, token) ==
  /\ trackingStatus' = SetStatus(st, {u \in us : st[u] = "pending"}, "in_progress")
  /\ IF us = {} THEN UNCHANGED batchVars
     ELSE LET reg == [u \in Users |-> IF u \in us THEN "queued" ELSE inProgress[u]]
          IN IF phase = "idle" THEN StartBatch(queued \union us, reg, token)
             ELSE /\ queued' = queued \union us
                  /\ queryToken' = token
                  /\ inProgress' = reg
                  /\ UNCHANGED <<phase, batchAt, running, toProcess>>

\* downloadKeys(us, forceDownload): users who have a download registered wait
\* for it; the others are downloaded if they are outdated or that was asked for.
DownloadKeys(us, forceDownload) ==
  LET wanted == {u \in us : /\ inProgress[u] = "none"
                            /\ forceDownload \/ trackingStatus[u] # "up_to_date"}
  IN /\ wanted # {}
     /\ DoKeyDownload(trackingStatus, wanted, syncToken)
     /\ UNCHANGED <<devices, syncToken, dirty, saveTimer, diskVars>>

\* The homeserver answers with the device lists as of position p.
QueryAnswered(p) ==
  /\ phase = "requested"
  /\ phase' = "processing"
  /\ batchAt' = p
  /\ toProcess' = running
  /\ UNCHANGED <<memVars, running, queued, queryToken, inProgress, dirty, saveTimer, diskVars>>

\* _processQueryResponseForUser, in a timer of its own for every user.
ProcessQueryResponse(u) ==
  /\ u \in toProcess
  /\ devices' = [devices EXCEPT ![u] = batchAt]
  /\ toProcess' = toProcess \ {u}
  /\ UNCHANGED <<trackingStatus, syncToken, phase, batchAt, running, queued,
                 queryToken, inProgress, dirty, saveTimer, diskVars>>

\* Mutant: whatever was registered last, a finished download marks its users.
OwnsEveryUser == {u \in running : inProgress[u] # "none"}

\* The users whose registered promise is the running batch's: finished() leaves
\* the others to the download queued for them.
Owned == {u \in running : inProgress[u] = "running"}

\* finished(success), of every caller of the batch: the status of its users who
\* were not invalidated meanwhile, then a save.
Finish(success) ==
  /\ trackingStatus' = SetStatus(trackingStatus,
                          {u \in Owned : trackingStatus[u] = "in_progress"},
                          IF success THEN "up_to_date" ELSE "pending")
  /\ dirty' = TRUE
  /\ saveTimer' = SaveIfDirty(TRUE, saveTimer, "long")
  /\ UNCHANGED <<devices, syncToken, diskVars>>

Released == [u \in Users |-> IF u \in Owned THEN "none" ELSE inProgress[u]]

NoBatch ==
  /\ phase' = "idle"
  /\ batchAt' = NoToken
  /\ running' = {}
  /\ toProcess' = {}
  /\ inProgress' = Released
  /\ UNCHANGED <<queued, queryToken>>

\* Mutant: a completed batch leaves the queue where it is.
BatchCompletedAlone ==
  /\ phase = "processing"
  /\ toProcess = {}
  /\ Finish(TRUE)
  /\ NoBatch

\* The batch is processed: its promise is resolved and the queue gets its turn.
BatchCompleted ==
  /\ phase = "processing"
  /\ toProcess = {}
  /\ Finish(TRUE)
  /\ IF queued = {} THEN NoBatch ELSE StartBatch(queued, Released, queryToken)

\* The request or its processing failed: the promise is rejected, and nothing
\* else is started.
BatchFailed ==
  /\ phase # "idle"
  /\ Finish(FALSE)
  /\ NoBatch

-----------------------------------------------------------------------------
\* Mutant: a download that was in progress at the shut-down is taken as it is.
LoadAsStored(st) == st

\* load: no download survives a restart.
Loaded(st) == SetStatus(st, {u \in Users : st[u] = "in_progress"}, "pending")

\* The page is closed and a new one loads the stored data.  Writes in flight are
\* lost with the page.
Reload ==
  /\ trackingStatus' = Loaded(disk.trackingStatus)
  /\ devices' = disk.devices
  /\ syncToken' = disk.syncToken
  /\ inProgress' = [u \in Users |-> "none"]
  /\ phase' = "idle"
  /\ batchAt' = NoToken
  /\ running' = {}
  /\ toProcess' = {}
  /\ queued' = {}
  /\ queryToken' = NoToken
  /\ dirty' = FALSE
  /\ saveTimer' = "none"
  /\ writes' = <<>>
  /\ UNCHANGED disk
==============================================================================
