------------------------------ MODULE DeviceSync ------------------------------
(***************************************************************************)
(* Who drives the device list: the sync loop (src/sync.js) through the     *)
(* crypto layer (src/crypto/index.js), callers that need a user's keys, a  *)
(* homeserver whose users change their devices, failing requests and page  *)
(* reloads.                                                                *)
(***************************************************************************)
EXTENDS DeviceList

CONSTANTS
  Self,             \* the client's own user
  MaxChanges,       \* bound on device changes
  MaxFailures,      \* bound on failing downloads
  MaxReloads,       \* bound on page reloads
  Lagging,          \* may /keys/query answer as of its token instead of now?
  CutsWrites,       \* may a reload cut off a write to the crypto store?
  SyncMayThrow,     \* may processing a sync response end in an exception?
  LazyLoadMembers,  \* the client's option: rooms do not know all their members
  Callers           \* the users whose keys are asked for besides the sync loop

ASSUME DeviceSyncAssumption ==
  /\ Self \in Users
  /\ Callers \subseteq Users
  /\ MaxChanges \in Nat /\ MaxFailures \in Nat /\ MaxReloads \in Nat
  /\ {Lagging, CutsWrites, SyncMayThrow, LazyLoadMembers} \subseteq BOOLEAN

VARIABLES
  changeLog,   \* the users who changed their devices, in order
  sync,        \* where the sync loop is
  since,       \* the token the response in hand was asked with
  next,        \* its next_batch, which the client's store has already taken
  storeWrite,  \* next_batch of the sync data being saved, or NoToken
  storeDisk,   \* the sync token the IndexedDB sync store holds
  failures,    \* failed downloads so far
  reloads      \* page reloads so far

syncVars == <<sync, since, next>>
storeVars == <<storeWrite, storeDisk>>
envVars == <<changeLog, failures, reloads>>
vars == <<listVars, syncVars, storeVars, envVars>>

DeviceSyncTypeOK ==
  /\ DeviceListTypeOK
  /\ changeLog \in Seq(Users)
  /\ Len(changeLog) <= MaxChanges
  /\ sync \in {"polling", "rooms", "left", "saving"}
  /\ {since, next, storeWrite, storeDisk} \subseteq Positions
  /\ failures \in 0..MaxFailures
  /\ reloads \in 0..MaxReloads

Init ==
  /\ ListInit
  /\ changeLog = <<>>
  /\ sync = "polling"
  /\ since = NoToken
  /\ next = NoToken
  /\ storeWrite = NoToken
  /\ storeDisk = NoToken
  /\ failures = 0
  /\ reloads = 0

-----------------------------------------------------------------------------
\* onSyncWillProcess: an initial sync starts all tracking from scratch.
OnSyncWillProcess ==
  IF since = NoToken
  THEN /\ trackingStatus' = StopTrackingDeviceList(trackingStatus, Users)
       /\ dirty' = TRUE
  ELSE UNCHANGED <<trackingStatus, dirty>>

\* Mutant: the device list takes the new token before the changes are handled.
SyncReceivedSetsToken ==
  /\ sync = "polling"
  /\ next' \in {n \in 0..Len(changeLog) : n >= since}
  /\ sync' = "rooms"
  /\ syncToken' = next'
  /\ OnSyncWillProcess
  /\ UNCHANGED <<devices, batchVars, saveTimer, diskVars, since, storeVars, envVars>>

\* A /sync answer, computed at any moment since the request was sent.
SyncReceived ==
  /\ sync = "polling"
  /\ next' \in {n \in 0..Len(changeLog) : n >= since}
  /\ sync' = "rooms"
  /\ OnSyncWillProcess
  /\ UNCHANGED <<devices, syncToken, batchVars, saveTimer, diskVars, since, storeVars, envVars>>

\* The loop asks for the next response, with the token its store has.
NextSync == sync' = "polling" /\ since' = next

\* store.save(): the sync data as accumulated so far goes to its own database.
StoreSave == storeWrite' = next

\* Mutant: the sync data is saved without waiting for the device list.
NeverAwaitsSave(isDirty) == FALSE

\* saveDeviceList(0) is a wait only if there is something to save.
AwaitsSave(isDirty) == isDirty

\* refreshOutdatedDeviceLists: the users to download.
Outdated(st) == {u \in Users : st[u] = "pending"}

\* onSyncCompleted and the end of _sync, with the status and dirty flag that
\* processing the response left: the token, our own user, a download of what is
\* outdated and, when the store is due to be saved, the device list first.
SyncCompleted(st, isDirty, wantsSave) ==
  LET tracking == StartTrackingDeviceList(st, {Self})
      dirtyNow == isDirty \/ tracking # st
      timer == SaveIfDirty(dirtyNow, saveTimer, "long")
  IN /\ syncToken' = next
     /\ dirty' = dirtyNow
     /\ DoKeyDownload(tracking, Outdated(tracking), next)
     /\ saveTimer' = IF wantsSave THEN SaveIfDirty(dirtyNow, timer, "short") ELSE timer
     /\ \/ wantsSave /\ AwaitsSave(dirtyNow) /\ sync' = "saving" /\ UNCHANGED <<since, storeWrite>>
        \/ wantsSave /\ ~AwaitsSave(dirtyNow) /\ StoreSave /\ NextSync
        \/ ~wantsSave /\ NextSync /\ UNCHANGED storeWrite
     /\ UNCHANGED <<devices, diskVars, next, storeDisk, envVars>>

\* The users a response with these tokens names as changed.
Changed(a, b) == {changeLog[i] : i \in {j \in DOMAIN changeLog : a < j /\ j <= b}}

\* handleDeviceListChanges: an initial sync has no list of changes.
OutdatedBy == IF since = NoToken THEN {} ELSE Changed(since, next)

\* Mutant: invalidating a user does not raise the dirty flag.
MarkingKeepsClean(us) == dirty

\* The dirty flag after us were marked: it is raised if one of them is tracked.
MarkedDirty(us) == dirty \/ us \intersect Tracked(trackingStatus) # {}

\* The rooms of the response have been processed.  handleDeviceListChanges up
\* to its await: the changed users are outdated.  If anyone is said to have
\* left, the members of the encrypted rooms are awaited; else the sync ends.
DeviceListsChanged(someLeft, wantsSave) ==
  LET st == InvalidateUserDeviceList(trackingStatus, OutdatedBy)
      isDirty == MarkedDirty(OutdatedBy)
  IN /\ sync = "rooms"
     /\ someLeft => since # NoToken
     /\ IF someLeft
        THEN /\ sync' = "left"
             /\ trackingStatus' = st
             /\ dirty' = isDirty
             /\ UNCHANGED <<devices, syncToken, batchVars, saveTimer, diskVars, since, next,
                            storeVars, envVars>>
        ELSE SyncCompleted(st, isDirty, wantsSave)

\* The rest of it: users who left and share no encrypted room any more.
DeviceListsLeft(us, wantsSave) ==
  /\ sync = "left"
  /\ Self \notin us
  /\ SyncCompleted(StopTrackingDeviceList(trackingStatus, us),
                   MarkedDirty(us), wantsSave)

\* An exception skips what is left of _processSyncResponse.
SyncThrows(wantsSave) ==
  /\ SyncMayThrow
  /\ sync = "rooms"
  /\ SyncCompleted(trackingStatus, dirty, wantsSave)

\* The crypto store has written a snapshot; a sync loop that awaited it goes on.
DeviceListSaved ==
  /\ WriteDone
  /\ IF Head(writes).awaited THEN StoreSave /\ NextSync ELSE UNCHANGED <<sync, since, storeWrite>>
  /\ UNCHANGED <<next, storeDisk, envVars>>

SyncStoreSaved ==
  /\ storeWrite # NoToken
  /\ storeDisk' = storeWrite
  /\ storeWrite' = NoToken
  /\ UNCHANGED <<listVars, syncVars, envVars>>

-----------------------------------------------------------------------------
(* The other callers. *)

\* setRoomEncryption for an m.room.encryption event of the response, without
\* lazy loading: the room's members are tracked, then the outdated lists are
\* downloaded.  The code tests this.inhibitDeviceQuery, which nobody sets.
OnCryptoEvent(us) ==
  LET st == StartTrackingDeviceList(trackingStatus, us)
      isDirty == dirty \/ st # trackingStatus
  IN /\ sync = "rooms"
     /\ ~LazyLoadMembers
     /\ dirty' = isDirty
     /\ saveTimer' = SaveIfDirty(isDirty, saveTimer, "long")
     /\ DoKeyDownload(st, Outdated(st), syncToken)
     /\ UNCHANGED <<devices, syncToken, diskVars, syncVars, storeVars, envVars>>

\* trackRoomDevices, for the first message to a room, and _onRoomMembership, for
\* members who arrive.
StartTracking(u) ==
  /\ u \notin Tracked(trackingStatus)
  /\ trackingStatus' = StartTrackingDeviceList(trackingStatus, {u})
  /\ dirty' = TRUE
  /\ UNCHANGED <<devices, syncToken, batchVars, saveTimer, diskVars, syncVars, storeVars, envVars>>

\* Preparing a message, or a caller of client.downloadKeys.  The application shows
\* its rooms once the initial sync is done.
KeysWanted(us, forceDownload) ==
  /\ since # NoToken
  /\ DownloadKeys(us, forceDownload)
  /\ UNCHANGED <<syncVars, storeVars, envVars>>

SaveTimer == SaveTimerFires /\ UNCHANGED <<syncVars, storeVars, envVars>>

(* The homeserver, and what goes wrong. *)

DevicesChange(u) ==
  /\ Len(changeLog) < MaxChanges
  /\ changeLog' = Append(changeLog, u)
  /\ UNCHANGED <<listVars, syncVars, storeVars, failures, reloads>>

\* A lagging server only promises to know what the token covers.
AnswerPositions ==
  IF Lagging THEN {p \in 0..Len(changeLog) : p >= batchAt} ELSE {Len(changeLog)}

ServerAnswers ==
  /\ \E p \in AnswerPositions : QueryAnswered(p)
  /\ UNCHANGED <<syncVars, storeVars, envVars>>

ProcessUser(u) == ProcessQueryResponse(u) /\ UNCHANGED <<syncVars, storeVars, envVars>>

DownloadCompleted == BatchCompleted /\ UNCHANGED <<syncVars, storeVars, envVars>>

DownloadFailed ==
  /\ failures < MaxFailures
  /\ failures' = failures + 1
  /\ BatchFailed
  /\ UNCHANGED <<syncVars, storeVars, changeLog, reloads>>

\* The page is closed and opened again: the sync starts from the stored token.
PageReload ==
  /\ reloads < MaxReloads
  /\ CutsWrites \/ writes = <<>>
  /\ reloads' = reloads + 1
  /\ Reload
  /\ sync' = "polling"
  /\ since' = storeDisk
  /\ next' = storeDisk
  /\ storeWrite' = NoToken
  /\ UNCHANGED <<storeDisk, changeLog, failures>>

\* IndexedDBStore.wantsSave: are five minutes over since the last save?  Never,
\* in a run that leaves no room for a write.
WantsSave == IF MaxWrites = 0 THEN {FALSE} ELSE BOOLEAN

Next ==
  \/ SyncReceived
  \/ \E someLeft \in BOOLEAN, wantsSave \in WantsSave : DeviceListsChanged(someLeft, wantsSave)
  \/ \E us \in SUBSET Users, wantsSave \in WantsSave : DeviceListsLeft(us, wantsSave)
  \/ \E wantsSave \in WantsSave : SyncThrows(wantsSave)
  \/ DeviceListSaved
  \/ SyncStoreSaved
  \/ \E us \in SUBSET Users : OnCryptoEvent(us)
  \/ \E u \in Callers : StartTracking(u)
  \/ \E us \in SUBSET Callers, force \in BOOLEAN : KeysWanted(us, force)
  \/ SaveTimer
  \/ \E u \in Users : DevicesChange(u)
  \/ ServerAnswers
  \/ \E u \in Users : ProcessUser(u)
  \/ DownloadCompleted
  \/ DownloadFailed
  \/ PageReload

\* The loop asks again as soon as it is done, the server answers, timers fire
\* and the databases finish their writes.
Fairness ==
  /\ WF_vars(SyncReceived)
  /\ WF_vars(\E someLeft \in BOOLEAN, wantsSave \in WantsSave :
                DeviceListsChanged(someLeft, wantsSave))
  /\ WF_vars(\E us \in SUBSET Users, wantsSave \in WantsSave :
                DeviceListsLeft(us, wantsSave))
  /\ WF_vars(SaveTimer)
  /\ WF_vars(DeviceListSaved)
  /\ WF_vars(ServerAnswers)
  /\ WF_vars(\E u \in Users : ProcessUser(u))
  /\ WF_vars(DownloadCompleted)

Spec == Init /\ [][Next]_vars
FairSpec == Spec /\ Fairness

-----------------------------------------------------------------------------
(* Properties. *)

\* The token up to which device changes have been looked at: a later sync will
\* not name them again.
Handled == IF sync \in {"left", "saving"} THEN next ELSE since

Fresh(u, p, t) == u \notin Changed(p, t)

\* A list marked up to date misses no change the client has been told about,
\* whatever was invalidated, re-queued or forgotten while a query was out
\* (_doKeyDownload, finished, invalidateUserDeviceList).
UpToDateIsFresh ==
  \A u \in Users :
    trackingStatus[u] = "up_to_date" => Fresh(u, devices[u], Handled)

\* The doc of setSyncToken: what the crypto store holds is consistent with the
\* token stored with it, so that a new client may start from that token.
StoredListMatchesToken ==
  \A u \in Users :
    disk.trackingStatus[u] = "up_to_date" => Fresh(u, disk.devices[u], disk.syncToken)

\* Once the crypto store has finished its writes, a client that starts from the
\* stored sync token misses no change (saveDeviceList before store.save in
\* _sync).
StoredListCoversStoredSync ==
  writes = <<>> =>
    \A u \in Users :
      disk.trackingStatus[u] = "up_to_date" => Fresh(u, disk.devices[u], storeDisk)

\* A user shown as being downloaded is in the running batch or in the queue
\* behind it, with that batch's promise registered (_keyDownloadsInProgressByUser).
InProgressIsInABatch ==
  \A u \in Users :
    /\ trackingStatus[u] = "in_progress" => inProgress[u] # "none"
    /\ inProgress[u] = "running" => phase # "idle" /\ u \in running
    /\ inProgress[u] = "queued" => u \in queued

LastSnapshot == IF writes = <<>> THEN disk ELSE writes[Len(writes)].data

\* With the dirty flag down, the last save holds the tracking status as it is,
\* but for downloads that have started since (_dirty).
CleanMeansSaved ==
  ~dirty => Loaded(LastSnapshot.trackingStatus) = Loaded(trackingStatus)

\* An outdated user is refreshed, or is not tracked any more
\* (refreshOutdatedDeviceLists at the end of every sync).
OutdatedGetsRefreshed ==
  \A u \in Users :
    trackingStatus[u] = "pending" ~> trackingStatus[u] \in {"up_to_date", "not_tracked"}

\* The promise of a download settles (updateDevicesForUsers: "resolves when all
\* the users listed have been updated.  rejects if there was a problem").
DownloadSettles == \A u \in Users : inProgress[u] # "none" ~> inProgress[u] = "none"

\* The sync loop does not wait for ever for the device list.
SyncGoesOn == []<>(sync = "polling")
==============================================================================
