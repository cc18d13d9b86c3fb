--------------------------- MODULE DeviceSyncProofs ---------------------------
(***************************************************************************)
(* Theorems about the device list and the sync loop that drives it, for    *)
(* every set of users and every bound.                                     *)
(***************************************************************************)
EXTENDS DeviceSync, SequenceTheorems, TLAPS

USE DEF NoToken, Positions, Statuses

-----------------------------------------------------------------------------
(* The operators that map a tracking status to a new one. *)

LEMMA SetStatusType ==
  ASSUME NEW st \in [Users -> Statuses], NEW us, NEW s \in Statuses
  PROVE  SetStatus(st, us, s) \in [Users -> Statuses]
BY DEF SetStatus

LEMMA MarkingTypes ==
  ASSUME NEW st \in [Users -> Statuses], NEW us
  PROVE  /\ StartTrackingDeviceList(st, us) \in [Users -> Statuses]
         /\ StopTrackingDeviceList(st, us) \in [Users -> Statuses]
         /\ InvalidateUserDeviceList(st, us) \in [Users -> Statuses]
         /\ Loaded(st) \in [Users -> Statuses]
BY DEF SetStatus, StartTrackingDeviceList, StopTrackingDeviceList,
       InvalidateUserDeviceList, Loaded

LEMMA SaveIfDirtyType ==
  ASSUME NEW d \in BOOLEAN, NEW timer \in {"none", "short", "long"},
         NEW delay \in {"short", "long"}
  PROVE  SaveIfDirty(d, timer, delay) \in {"none", "short", "long"}
BY DEF SaveIfDirty

\* The types of the running batch and the queue behind it.
BatchTypes ==
  /\ inProgress \in [Users -> {"none", "running", "queued"}]
  /\ phase \in {"idle", "requested", "processing"}
  /\ batchAt \in Positions
  /\ running \in SUBSET Users
  /\ toProcess \in SUBSET running
  /\ queued \in SUBSET Users
  /\ queryToken \in Positions

LEMMA StartBatchType ==
  ASSUME NEW us \in SUBSET Users, NEW token \in Positions,
         NEW reg \in [Users -> {"none", "running", "queued"}],
         StartBatch(us, reg, token)
  PROVE  BatchTypes'
BY DEF StartBatch, BatchTypes

LEMMA DoKeyDownloadType ==
  ASSUME BatchTypes, NEW st \in [Users -> Statuses], NEW us \in SUBSET Users,
         NEW token \in Positions, DoKeyDownload(st, us, token)
  PROVE  trackingStatus' \in [Users -> Statuses] /\ BatchTypes'
<1>1. trackingStatus' \in [Users -> Statuses]
  BY SetStatusType DEF DoKeyDownload
<1>2. CASE us = {}
  BY <1>1, <1>2 DEF DoKeyDownload, BatchTypes, batchVars
<1>3. CASE us # {}
  <2> DEFINE reg == [u \in Users |-> IF u \in us THEN "queued" ELSE inProgress[u]]
  <2>1. reg \in [Users -> {"none", "running", "queued"}]
    BY DEF BatchTypes
  <2>2. CASE phase = "idle"
    <3>1. queued \union us \in SUBSET Users
      BY DEF BatchTypes
    <3>2. StartBatch(queued \union us, reg, token)
      BY <1>3, <2>2 DEF DoKeyDownload
    <3> QED BY <1>1, <2>1, <3>1, <3>2, StartBatchType
  <2>3. CASE phase # "idle"
    BY <1>1, <1>3, <2>1, <2>3 DEF DoKeyDownload, BatchTypes
  <2> QED BY <2>2, <2>3
<1> QED BY <1>2, <1>3

\* The types of what is not in BatchTypes.
MemoryTypes ==
  /\ trackingStatus \in [Users -> Statuses]
  /\ devices \in [Users -> Positions]
  /\ syncToken \in Positions

SaveTypes ==
  /\ dirty \in BOOLEAN
  /\ saveTimer \in {"none", "short", "long"}

DiskTypes ==
  /\ writes \in Seq([data : Snapshot, awaited : BOOLEAN])
  /\ Len(writes) <= MaxWrites
  /\ disk \in Snapshot

LoopTypes ==
  /\ sync \in {"polling", "rooms", "left", "saving"}
  /\ since \in Positions /\ next \in Positions
  /\ storeWrite \in Positions /\ storeDisk \in Positions

EnvTypes ==
  /\ changeLog \in Seq(Users)
  /\ Len(changeLog) <= MaxChanges
  /\ failures \in 0..MaxFailures
  /\ reloads \in 0..MaxReloads

Types == MemoryTypes /\ BatchTypes /\ SaveTypes /\ DiskTypes /\ LoopTypes /\ EnvTypes

LEMMA TypesSplit == DeviceSyncTypeOK <=> Types
BY DEF DeviceSyncTypeOK, DeviceListTypeOK, Types, MemoryTypes, BatchTypes, SaveTypes,
       DiskTypes, LoopTypes, EnvTypes

LEMMA SyncCompletedType ==
  ASSUME Types, NEW st \in [Users -> Statuses], NEW isDirty \in BOOLEAN,
         NEW wantsSave \in BOOLEAN, SyncCompleted(st, isDirty, wantsSave)
  PROVE  Types'
<1> DEFINE tracking == StartTrackingDeviceList(st, {Self})
           dirtyNow == isDirty \/ tracking # st
           timer == SaveIfDirty(dirtyNow, saveTimer, "long")
<1>1. tracking \in [Users -> Statuses]
  BY MarkingTypes
<1>2. /\ timer \in {"none", "short", "long"}
      /\ SaveIfDirty(dirtyNow, timer, "short") \in {"none", "short", "long"}
  BY SaveIfDirtyType DEF Types, SaveTypes
<1>3. /\ syncToken' = next
      /\ dirty' = dirtyNow
      /\ DoKeyDownload(tracking, Outdated(tracking), next)
      /\ saveTimer' = IF wantsSave THEN SaveIfDirty(dirtyNow, timer, "short") ELSE timer
      /\ UNCHANGED <<devices, diskVars, next, storeDisk, envVars>>
  BY DEF SyncCompleted
<1>4. trackingStatus' \in [Users -> Statuses] /\ BatchTypes'
  BY <1>1, <1>3, DoKeyDownloadType DEF Types, LoopTypes, Outdated
<1>5. MemoryTypes' /\ SaveTypes' /\ DiskTypes' /\ EnvTypes'
  BY <1>2, <1>3, <1>4 DEF Types, MemoryTypes, SaveTypes, DiskTypes, LoopTypes, EnvTypes,
       diskVars, envVars
<1>6. LoopTypes'
  BY <1>3 DEF SyncCompleted, StoreSave, NextSync, Types, LoopTypes
<1> QED BY <1>4, <1>5, <1>6 DEF Types

LEMMA FinishType ==
  ASSUME Types, NEW success \in BOOLEAN, Finish(success)
  PROVE  MemoryTypes' /\ SaveTypes' /\ DiskTypes'
<1>1. trackingStatus' \in [Users -> Statuses]
  BY SetStatusType DEF Finish, Types, MemoryTypes
<1>2. saveTimer' \in {"none", "short", "long"}
  BY SaveIfDirtyType DEF Finish, Types, SaveTypes
<1> QED BY <1>1, <1>2 DEF Finish, Types, MemoryTypes, SaveTypes, DiskTypes, diskVars

LEMMA NoBatchType ==
  ASSUME BatchTypes, NoBatch
  PROVE  BatchTypes'
BY DEF NoBatch, BatchTypes, Released

LEMMA InitType == Init => Types
<1> SUFFICES ASSUME Init PROVE Types
  OBVIOUS
<1>1. EmptySnapshot \in Snapshot
  BY DEF EmptySnapshot, Snapshot
<1>2. MemoryTypes
  BY <1>1 DEF Init, ListInit, MemoryTypes, Snapshot
<1>3. BatchTypes /\ SaveTypes
  BY DEF Init, ListInit, ListIdle, BatchTypes, SaveTypes
<1>4. DiskTypes
  BY <1>1, DeviceListAssumption DEF Init, ListInit, ListIdle, DiskTypes
<1>5. LoopTypes /\ EnvTypes
  BY DeviceSyncAssumption DEF Init, LoopTypes, EnvTypes
<1> QED BY <1>2, <1>3, <1>4, <1>5 DEF Types

LEMMA NextType ==
  ASSUME Types, [Next]_vars
  PROVE  Types'
<1> USE DEF Types
<1>1. CASE SyncReceived
  <2>1. next' \in Positions
    BY <1>1 DEF SyncReceived, EnvTypes
  <2>2. trackingStatus' \in [Users -> Statuses] /\ dirty' \in BOOLEAN
    <3>1. StopTrackingDeviceList(trackingStatus, Users) \in [Users -> Statuses]
      BY MarkingTypes DEF MemoryTypes
    <3> QED BY <1>1, <3>1 DEF SyncReceived, OnSyncWillProcess, MemoryTypes, SaveTypes
  <2> QED BY <1>1, <2>1, <2>2 DEF SyncReceived, MemoryTypes, BatchTypes, SaveTypes, DiskTypes,
       LoopTypes, EnvTypes, batchVars, diskVars, storeVars, envVars
<1>2. ASSUME NEW someLeft \in BOOLEAN, NEW wantsSave \in WantsSave,
             DeviceListsChanged(someLeft, wantsSave)
      PROVE  Types'
  <2> DEFINE st == InvalidateUserDeviceList(trackingStatus, OutdatedBy)
  <2>1. /\ st \in [Users -> Statuses]
        /\ MarkedDirty(OutdatedBy) \in BOOLEAN
        /\ wantsSave \in BOOLEAN
    BY MarkingTypes DEF MemoryTypes, SaveTypes, MarkedDirty, WantsSave
  <2>2. CASE someLeft
    BY <1>2, <2>1, <2>2 DEF DeviceListsChanged, MemoryTypes, BatchTypes, SaveTypes, DiskTypes,
       LoopTypes, EnvTypes, batchVars, diskVars, storeVars, envVars
  <2>3. CASE ~someLeft
    <3>1. SyncCompleted(st, MarkedDirty(OutdatedBy), wantsSave)
      BY <1>2, <2>3 DEF DeviceListsChanged
    <3> QED BY <2>1, <3>1, SyncCompletedType
  <2> QED BY <2>2, <2>3
<1>3. ASSUME NEW us \in SUBSET Users, NEW wantsSave \in WantsSave,
             DeviceListsLeft(us, wantsSave)
      PROVE  Types'
  <2>1. /\ StopTrackingDeviceList(trackingStatus, us) \in [Users -> Statuses]
        /\ MarkedDirty(us) \in BOOLEAN
        /\ wantsSave \in BOOLEAN
    BY MarkingTypes DEF MemoryTypes, SaveTypes, MarkedDirty, WantsSave
  <2> QED BY <1>3, <2>1, SyncCompletedType DEF DeviceListsLeft
<1>4. ASSUME NEW wantsSave \in WantsSave, SyncThrows(wantsSave)
      PROVE  Types'
  BY <1>4, SyncCompletedType DEF SyncThrows, MemoryTypes, SaveTypes, WantsSave
<1>5. CASE DeviceListSaved
  <2>1. /\ Head(writes) \in [data : Snapshot, awaited : BOOLEAN]
        /\ Tail(writes) \in Seq([data : Snapshot, awaited : BOOLEAN])
        /\ Len(Tail(writes)) <= MaxWrites
    <3>1. writes # <<>> /\ writes \in Seq([data : Snapshot, awaited : BOOLEAN])
      BY <1>5 DEF DeviceListSaved, WriteDone, DiskTypes
    <3>2. /\ Head(writes) \in [data : Snapshot, awaited : BOOLEAN]
          /\ Tail(writes) \in Seq([data : Snapshot, awaited : BOOLEAN])
          /\ Len(Tail(writes)) = Len(writes) - 1
      BY <3>1, HeadTailProperties
    <3> QED BY <3>1, <3>2, DeviceListAssumption DEF DiskTypes
  <2>2. DiskTypes'
    BY <1>5, <2>1 DEF DeviceListSaved, WriteDone, DiskTypes
  <2>3. LoopTypes'
    BY <1>5 DEF DeviceListSaved, StoreSave, NextSync, LoopTypes
  <2> QED BY <1>5, <2>2, <2>3 DEF DeviceListSaved, WriteDone, MemoryTypes, BatchTypes,
       SaveTypes, EnvTypes, memVars, batchVars, envVars
<1>6. CASE SyncStoreSaved
  BY <1>6 DEF SyncStoreSaved, MemoryTypes, BatchTypes, SaveTypes, DiskTypes, LoopTypes, EnvTypes,
     listVars, memVars, batchVars, diskVars, syncVars, envVars
<1>7. ASSUME NEW us \in SUBSET Users, OnCryptoEvent(us)
      PROVE  Types'
  <2> DEFINE st == StartTrackingDeviceList(trackingStatus, us)
             isDirty == dirty \/ st # trackingStatus
  <2>1. st \in [Users -> Statuses]
    BY MarkingTypes DEF MemoryTypes
  <2>2. DoKeyDownload(st, Outdated(st), syncToken)
    BY <1>7 DEF OnCryptoEvent
  <2>3. trackingStatus' \in [Users -> Statuses] /\ BatchTypes'
    BY <2>1, <2>2, DoKeyDownloadType DEF MemoryTypes, Outdated
  <2>4. isDirty \in BOOLEAN /\ SaveIfDirty(isDirty, saveTimer, "long") \in {"none", "short", "long"}
    BY SaveIfDirtyType DEF SaveTypes
  <2>5. dirty' = isDirty /\ saveTimer' = SaveIfDirty(isDirty, saveTimer, "long")
    BY <1>7 DEF OnCryptoEvent
  <2> QED BY <1>7, <2>3, <2>4, <2>5 DEF OnCryptoEvent, MemoryTypes, SaveTypes, DiskTypes,
       LoopTypes, EnvTypes, diskVars, syncVars, storeVars, envVars
<1>8. ASSUME NEW u \in Callers, StartTracking(u)
      PROVE  Types'
  <2>1. StartTrackingDeviceList(trackingStatus, {u}) \in [Users -> Statuses]
    BY MarkingTypes DEF MemoryTypes
  <2>2. MemoryTypes' /\ SaveTypes'
    BY <1>8, <2>1 DEF StartTracking, MemoryTypes, SaveTypes
  <2> QED BY <1>8, <2>2 DEF StartTracking, BatchTypes, DiskTypes, LoopTypes, EnvTypes,
       batchVars, diskVars, syncVars, storeVars, envVars
<1>9. ASSUME NEW us \in SUBSET Callers, NEW force \in BOOLEAN, KeysWanted(us, force)
      PROVE  Types'
  <2> DEFINE wanted == {u \in us : /\ inProgress[u] = "none"
                                   /\ force \/ trackingStatus[u] # "up_to_date"}
  <2>1. wanted \in SUBSET Users
    BY DeviceSyncAssumption
  <2>2. DoKeyDownload(trackingStatus, wanted, syncToken)
    BY <1>9 DEF KeysWanted, DownloadKeys
  <2>3. trackingStatus' \in [Users -> Statuses] /\ BatchTypes'
    BY <2>1, <2>2, DoKeyDownloadType DEF MemoryTypes
  <2> QED BY <1>9, <2>3 DEF KeysWanted, DownloadKeys, MemoryTypes, SaveTypes, DiskTypes,
       LoopTypes, EnvTypes, diskVars, syncVars, storeVars, envVars
<1>10. CASE SaveTimer
  <2> DEFINE new == [data |-> [trackingStatus |-> trackingStatus,
                               devices |-> devices, syncToken |-> syncToken],
                     awaited |-> SaveAwaited]
  <2>1. new \in [data : Snapshot, awaited : BOOLEAN]
    BY DEF MemoryTypes, Snapshot, SaveAwaited
  <2>2. writes' = Append(writes, new) /\ Len(writes) < MaxWrites
    BY <1>10 DEF SaveTimer, SaveTimerFires
  <2>3. writes' \in Seq([data : Snapshot, awaited : BOOLEAN]) /\ Len(writes') <= MaxWrites
    BY <2>1, <2>2, DeviceListAssumption DEF DiskTypes
  <2> QED BY <1>10, <2>3 DEF SaveTimer, SaveTimerFires, MemoryTypes, BatchTypes, SaveTypes,
       DiskTypes, LoopTypes, EnvTypes, memVars, batchVars, syncVars, storeVars, envVars
<1>11. ASSUME NEW u \in Users, DevicesChange(u)
       PROVE  Types'
  <2>1. EnvTypes'
    BY <1>11, DeviceSyncAssumption DEF DevicesChange, EnvTypes
  <2> QED BY <1>11, <2>1 DEF DevicesChange, MemoryTypes, BatchTypes, SaveTypes, DiskTypes,
       LoopTypes, listVars, memVars, batchVars, diskVars, syncVars, storeVars
<1>12. CASE ServerAnswers
  <2>1. PICK p \in AnswerPositions : QueryAnswered(p)
    BY <1>12 DEF ServerAnswers
  <2>2. p \in Positions
    BY DEF AnswerPositions, EnvTypes
  <2>3. BatchTypes'
    BY <2>1, <2>2 DEF QueryAnswered, BatchTypes
  <2> QED BY <1>12, <2>1, <2>3 DEF ServerAnswers, QueryAnswered, MemoryTypes, SaveTypes, DiskTypes,
       LoopTypes, EnvTypes, memVars, diskVars, syncVars, storeVars, envVars
<1>13. ASSUME NEW u \in Users, ProcessUser(u)
       PROVE  Types'
  BY <1>13 DEF ProcessUser, ProcessQueryResponse, MemoryTypes, BatchTypes, SaveTypes, DiskTypes,
     LoopTypes, EnvTypes, diskVars, syncVars, storeVars, envVars
<1>14. CASE DownloadCompleted
  <2>1. MemoryTypes' /\ SaveTypes' /\ DiskTypes'
    BY <1>14, FinishType DEF DownloadCompleted, BatchCompleted
  <2>2. BatchTypes'
    <3>1. CASE queued = {}
      BY <1>14, <3>1, NoBatchType DEF DownloadCompleted, BatchCompleted
    <3>2. CASE queued # {}
      <4>1. StartBatch(queued, Released, queryToken)
        BY <1>14, <3>2 DEF DownloadCompleted, BatchCompleted
      <4>2. Released \in [Users -> {"none", "running", "queued"}]
        BY DEF Released, BatchTypes
      <4> QED BY <4>1, <4>2, StartBatchType DEF BatchTypes
    <3> QED BY <3>1, <3>2
  <2> QED BY <1>14, <2>1, <2>2 DEF DownloadCompleted, LoopTypes, EnvTypes, syncVars, storeVars,
       envVars
<1>15. CASE DownloadFailed
  <2>1. MemoryTypes' /\ SaveTypes' /\ DiskTypes' /\ BatchTypes'
    BY <1>15, FinishType, NoBatchType DEF DownloadFailed, BatchFailed
  <2>2. failures' \in 0..MaxFailures
    BY <1>15, DeviceSyncAssumption DEF DownloadFailed, EnvTypes
  <2> QED BY <1>15, <2>1, <2>2 DEF DownloadFailed, LoopTypes, EnvTypes, syncVars, storeVars
<1>16. CASE PageReload
  <2>1. Reload /\ writes' = <<>>
    BY <1>16 DEF PageReload, Reload
  <2>2. MemoryTypes'
    BY <2>1, MarkingTypes DEF Reload, MemoryTypes, DiskTypes, Snapshot
  <2>3. BatchTypes' /\ SaveTypes'
    BY <2>1 DEF Reload, BatchTypes, SaveTypes
  <2>5. DiskTypes'
    BY <2>1, DeviceListAssumption DEF Reload, DiskTypes
  <2>4. LoopTypes' /\ EnvTypes'
    BY <1>16, DeviceSyncAssumption DEF PageReload, LoopTypes, EnvTypes
  <2> QED BY <2>2, <2>3, <2>4, <2>5
<1>17. CASE UNCHANGED vars
  BY <1>17 DEF vars, listVars, memVars, batchVars, diskVars, syncVars, storeVars, envVars,
     MemoryTypes, BatchTypes, SaveTypes, DiskTypes, LoopTypes, EnvTypes
<1> QED
  BY <1>1, <1>2, <1>3, <1>4, <1>5, <1>6, <1>7, <1>8, <1>9, <1>10, <1>11, <1>12, <1>13, <1>14,
     <1>15, <1>16, <1>17 DEF Next

\* Every variable of the device list, of the loop that drives it and of the
\* environment stays in its type (the state of DeviceList.js, sync.js).
THEOREM DeviceSyncTypes == Spec => []DeviceSyncTypeOK
<1>1. Init => Types
  BY InitType
<1>2. Types /\ [Next]_vars => Types'
  BY NextType
<1>3. Types => DeviceSyncTypeOK
  BY TypesSplit
<1> QED BY <1>1, <1>2, <1>3, PTL DEF Spec

-----------------------------------------------------------------------------
(***************************************************************************)
(* Freshness, for a sync loop that does not throw and pages that are not   *)
(* closed during a write, with a server that answers a query as of now or, *)
(* if nothing but the end of a sync asks, as of the query's token.         *)
(*                                                                         *)
(* UpToDateIsFresh is not inductive.  What a query answers is trusted when *)
(* its batch is done, so the answer must be fresh for the users it may     *)
(* still mark (AnswerFresh); an initial sync hands over its token without  *)
(* naming changes, so that its lists must be fresh at the new token before *)
(* the old one is given up (Horizon); and after a reload the stored list   *)
(* is trusted, so that every snapshot is fresh for the sync data that is   *)
(* or will be stored beside it (SnapshotCovers), which in turn rests on    *)
(* the dirty flag (CleanMeansSaved) and on one save being awaited at a     *)
(* time (OneAwaited).                                                      *)
(***************************************************************************)

\* Fresh, with the log as a parameter.
FreshIn(log, u, p, t) == u \notin {log[i] : i \in {j \in DOMAIN log : p < j /\ j <= t}}

Covers(log, st, dev, t) == \A u \in Users : st[u] = "up_to_date" => FreshIn(log, u, dev[u], t)

SnapshotCovers(t) ==
  Covers(changeLog, LastSnapshot.trackingStatus, LastSnapshot.devices, t)

\* The token up to which up-to-date lists are fresh: Handled, or the new token
\* while an initial sync is being processed.
Horizon == IF sync = "rooms" /\ since # NoToken THEN since ELSE next

Tokens ==
  /\ since <= next
  /\ next <= Len(changeLog)
  /\ sync = "polling" => since = next
  /\ storeWrite <= since
  /\ storeDisk <= since

SomeAwaited == \E i \in 1..Len(writes) : writes[i].awaited

OneAwaited ==
  /\ saveTimer = "short" => sync = "saving" /\ ~SomeAwaited
  /\ SomeAwaited => sync = "saving"
  /\ \A i, j \in 1..Len(writes) : writes[i].awaited /\ writes[j].awaited => i = j

MemoryFresh == Covers(changeLog, trackingStatus, devices, Horizon)

\* Does the running batch's answer make, or keep, the list of a user with the
\* status s and the registered promise r up to date?
Trusting(s, r) == s = "up_to_date" \/ (s = "in_progress" /\ r = "running")

AnswerFresh ==
  /\ toProcess # {} => phase = "processing"
  /\ phase = "processing" =>
       \A u \in running :
         /\ Trusting(trackingStatus[u], inProgress[u]) => FreshIn(changeLog, u, batchAt, Horizon)
         /\ u \notin toProcess => devices[u] = batchAt

SnapshotsFresh ==
  /\ SnapshotCovers(storeDisk)
  /\ SnapshotCovers(storeWrite)
  /\ SomeAwaited => SnapshotCovers(next)
  /\ ~dirty => SnapshotCovers(Horizon)

IInv ==
  /\ Types
  /\ Tokens
  /\ OneAwaited
  /\ MemoryFresh
  /\ AnswerFresh
  /\ SnapshotsFresh

-----------------------------------------------------------------------------
(* Positions in the log. *)

LEMMA FreshIsFreshIn ==
  ASSUME NEW u, NEW p, NEW t
  PROVE  Fresh(u, p, t) <=> FreshIn(changeLog, u, p, t)
BY DEF Fresh, Changed, FreshIn

LEMMA FreshEarlier ==
  ASSUME NEW log \in Seq(Users), NEW u, NEW p \in Positions, NEW t \in Positions,
         NEW s \in Positions, s <= t, FreshIn(log, u, p, t)
  PROVE  FreshIn(log, u, p, s)
BY DEF FreshIn

LEMMA FreshLater ==
  ASSUME NEW log \in Seq(Users), NEW u, NEW p \in Positions, NEW s \in Positions,
         NEW t \in Positions, FreshIn(log, u, p, s), FreshIn(log, u, s, t)
  PROVE  FreshIn(log, u, p, t)
BY DEF FreshIn

LEMMA FreshUpTo ==
  ASSUME NEW log \in Seq(Users), NEW u, NEW p \in Positions, NEW t \in Positions, t <= p
  PROVE  FreshIn(log, u, p, t)
BY DEF FreshIn

LEMMA FreshAppend ==
  ASSUME NEW log \in Seq(Users), NEW x \in Users, NEW u, NEW p \in Positions,
         NEW t \in Positions, t <= Len(log), FreshIn(log, u, p, t)
  PROVE  FreshIn(Append(log, x), u, p, t)
<1>1. /\ DOMAIN log = 1..Len(log) /\ DOMAIN Append(log, x) = 1..(Len(log) + 1)
      /\ \A i \in 1..Len(log) : Append(log, x)[i] = log[i]
  OBVIOUS
<1>2. Len(log) \in Nat
  OBVIOUS
<1> QED BY <1>1, <1>2 DEF FreshIn

LEMMA CoversEarlier ==
  ASSUME NEW log \in Seq(Users), NEW st, NEW dev \in [Users -> Positions],
         NEW t \in Positions, NEW s \in Positions, s <= t, Covers(log, st, dev, t)
  PROVE  Covers(log, st, dev, s)
BY FreshEarlier DEF Covers

LEMMA CoversAppend ==
  ASSUME NEW log \in Seq(Users), NEW x \in Users, NEW st, NEW dev \in [Users -> Positions],
         NEW t \in Positions, t <= Len(log), Covers(log, st, dev, t)
  PROVE  Covers(Append(log, x), st, dev, t)
BY FreshAppend DEF Covers

LEMMA SnapshotType ==
  ASSUME Types
  PROVE  LastSnapshot \in Snapshot
<1>1. CASE writes = <<>>
  BY <1>1 DEF LastSnapshot, Types, DiskTypes
<1>2. CASE writes # <<>>
  <2>1. Len(writes) \in 1..Len(writes)
    BY <1>2 DEF Types, DiskTypes
  <2>2. writes[Len(writes)] \in [data : Snapshot, awaited : BOOLEAN]
    BY <2>1, ElementOfSeq DEF Types, DiskTypes
  <2> QED BY <1>2, <2>2 DEF LastSnapshot
<1> QED BY <1>1, <1>2

LEMMA HorizonType ==
  ASSUME Types, Tokens
  PROVE  Horizon \in Positions /\ since <= Horizon /\ Horizon <= next
BY DEF Types, LoopTypes, Tokens, Horizon

\* A download changes no list's standing, and trusts a running answer for nobody
\* it was not trusted for before.
LEMMA DownloadEffect ==
  ASSUME BatchTypes, NEW st \in [Users -> Statuses], NEW us \in SUBSET Users,
         NEW token \in Positions, DoKeyDownload(st, us, token)
  PROVE  /\ \A u \in Users : trackingStatus'[u] = "up_to_date" <=> st[u] = "up_to_date"
         /\ Loaded(trackingStatus') = Loaded(st)
         /\ phase' = "processing" =>
              /\ phase = "processing" /\ UNCHANGED <<batchAt, running, toProcess>>
              /\ \A u \in Users : Trusting(trackingStatus'[u], inProgress'[u]) =>
                                   Trusting(st[u], inProgress[u])
         /\ toProcess' # {} => phase' = phase /\ toProcess' = toProcess
<1>1. trackingStatus' = SetStatus(st, {u \in us : st[u] = "pending"}, "in_progress")
  BY DEF DoKeyDownload
<1>2. /\ \A u \in Users : trackingStatus'[u] = "up_to_date" <=> st[u] = "up_to_date"
      /\ \A u \in Users : trackingStatus'[u] = "in_progress" => st[u] = "in_progress" \/ u \in us
  BY <1>1 DEF SetStatus
<1>3. Loaded(trackingStatus') = Loaded(st)
  BY <1>1 DEF SetStatus, Loaded
<1>4. CASE us = {}
  BY <1>2, <1>3, <1>4 DEF DoKeyDownload, batchVars, Trusting
<1>5. CASE us # {} /\ phase = "idle"
  <2>1. phase' = "requested" /\ toProcess' = {}
    BY <1>5 DEF DoKeyDownload, StartBatch
  <2> QED BY <1>2, <1>3, <2>1
<1>6. CASE us # {} /\ phase # "idle"
  <2>1. /\ inProgress' = [u \in Users |-> IF u \in us THEN "queued" ELSE inProgress[u]]
        /\ UNCHANGED <<phase, batchAt, running, toProcess>>
    BY <1>6 DEF DoKeyDownload
  <2>2. \A u \in Users : Trusting(trackingStatus'[u], inProgress'[u]) => Trusting(st[u], inProgress[u])
    BY <1>2, <2>1 DEF Trusting
  <2> QED BY <1>2, <1>3, <2>1, <2>2
<1> QED BY <1>4, <1>5, <1>6

-----------------------------------------------------------------------------
(***************************************************************************)
(* The end of a sync.  st and isDirty are what the handlers of the         *)
(* response made of the tracking status and the dirty flag: they kept the  *)
(* standing only of users that no change up to the new token names, and    *)
(* they raised the flag for whatever they changed.                         *)
(***************************************************************************)
Looked(st, isDirty) ==
  /\ st \in [Users -> Statuses]
  /\ isDirty \in BOOLEAN
  /\ \A u \in Users : st[u] \in {"up_to_date", "in_progress"} =>
       trackingStatus[u] = st[u] /\ FreshIn(changeLog, u, Horizon, next)
  /\ ~isDirty => ~dirty /\ st = trackingStatus

LEMMA LookedFresh ==
  ASSUME IInv, CleanMeansSaved, NEW st, NEW isDirty, Looked(st, isDirty)
  PROVE  /\ Covers(changeLog, st, devices, next)
         /\ phase = "processing" => \A u \in running : Trusting(st[u], inProgress[u]) =>
                                     FreshIn(changeLog, u, batchAt, next)
         /\ ~isDirty => SnapshotCovers(next)
<1> USE DEF IInv
<1>1. /\ Horizon \in Positions /\ next \in Positions /\ changeLog \in Seq(Users)
      /\ devices \in [Users -> Positions] /\ batchAt \in Positions /\ running \subseteq Users
  BY HorizonType DEF Types, LoopTypes, EnvTypes, MemoryTypes, BatchTypes
<1>2. Covers(changeLog, st, devices, next)
  BY <1>1, FreshLater DEF Looked, MemoryFresh, Covers
<1>3. ASSUME phase = "processing", NEW u \in running, Trusting(st[u], inProgress[u])
      PROVE  FreshIn(changeLog, u, batchAt, next)
  <2>1. /\ Trusting(trackingStatus[u], inProgress[u])
        /\ FreshIn(changeLog, u, Horizon, next)
    BY <1>1, <1>3 DEF Looked, Trusting
  <2>2. FreshIn(changeLog, u, batchAt, Horizon)
    BY <1>3, <2>1 DEF AnswerFresh
  <2> QED BY <1>1, <2>1, <2>2, FreshLater
<1>4. ASSUME ~isDirty
      PROVE  SnapshotCovers(next)
  <2> DEFINE last == LastSnapshot
  <2>1. last.devices \in [Users -> Positions] /\ last.trackingStatus \in [Users -> Statuses]
    BY SnapshotType DEF Snapshot
  <2>2. /\ Covers(changeLog, last.trackingStatus, last.devices, Horizon)
        /\ Loaded(last.trackingStatus) = Loaded(trackingStatus)
        /\ st = trackingStatus
    BY <1>4 DEF Looked, SnapshotsFresh, SnapshotCovers, CleanMeansSaved
  <2>3. ASSUME NEW u \in Users, last.trackingStatus[u] = "up_to_date"
        PROVE  FreshIn(changeLog, u, last.devices[u], next)
    <3>1. Loaded(trackingStatus)[u] = "up_to_date"
      BY <2>1, <2>2, <2>3 DEF Loaded, SetStatus
    <3>2. st[u] = "up_to_date"
      BY <2>2, <3>1 DEF Loaded, SetStatus
    <3>3. FreshIn(changeLog, u, Horizon, next)
      BY <3>2 DEF Looked
    <3>4. FreshIn(changeLog, u, last.devices[u], Horizon)
      BY <2>2, <2>3 DEF Covers
    <3> QED BY <1>1, <2>1, <3>3, <3>4, FreshLater
  <2> QED BY <2>3 DEF SnapshotCovers, Covers
<1> QED BY <1>2, <1>3, <1>4

LEMMA SnapshotKept ==
  ASSUME UNCHANGED diskVars
  PROVE  LastSnapshot' = LastSnapshot /\ SomeAwaited' = SomeAwaited
BY DEF diskVars, LastSnapshot, SomeAwaited

\* Who raises no flag marks nobody.
LEMMA CleanWhenUnmarked ==
  ASSUME trackingStatus \in [Users -> Statuses], NEW us, ~MarkedDirty(us)
  PROVE  /\ ~dirty
         /\ InvalidateUserDeviceList(trackingStatus, us) = trackingStatus
         /\ StopTrackingDeviceList(trackingStatus, us) = trackingStatus
BY DEF MarkedDirty, InvalidateUserDeviceList, StopTrackingDeviceList, SetStatus

LEMMA TrackingStarted ==
  ASSUME NEW st \in [Users -> Statuses], NEW us
  PROVE  /\ StartTrackingDeviceList(st, us) \in [Users -> Statuses]
         /\ \A u \in Users : \A s \in {"up_to_date", "in_progress"} :
              StartTrackingDeviceList(st, us)[u] = s <=> st[u] = s
BY DEF StartTrackingDeviceList, Tracked, SetStatus

LEMMA SyncCompletedKeeps ==
  ASSUME IInv, CleanMeansSaved, Types', NEW st, NEW isDirty, NEW wantsSave \in BOOLEAN,
         Looked(st, isDirty), sync \in {"rooms", "left"}, SyncCompleted(st, isDirty, wantsSave)
  PROVE  IInv'
<1> USE DEF IInv
<1> DEFINE tracking == StartTrackingDeviceList(st, {Self})
           dirtyNow == isDirty \/ tracking # st
           timer == SaveIfDirty(dirtyNow, saveTimer, "long")
<1>1. /\ syncToken' = next /\ dirty' = dirtyNow /\ next' = next
      /\ DoKeyDownload(tracking, Outdated(tracking), next)
      /\ saveTimer' = IF wantsSave THEN SaveIfDirty(dirtyNow, timer, "short") ELSE timer
      /\ UNCHANGED <<devices, writes, disk, storeDisk, changeLog>>
  BY DEF SyncCompleted, diskVars, envVars
<1>2. \/ sync' = "saving" /\ since' = since /\ storeWrite' = storeWrite /\ dirtyNow
      \/ sync' = "polling" /\ since' = next /\ storeWrite' = next /\ ~dirtyNow
      \/ sync' = "polling" /\ since' = next /\ storeWrite' = storeWrite /\ ~wantsSave
  BY DEF SyncCompleted, AwaitsSave, StoreSave, NextSync
<1>3. /\ tracking \in [Users -> Statuses]
      /\ \A u \in Users : \A s \in {"up_to_date", "in_progress"} : tracking[u] = s <=> st[u] = s
  BY TrackingStarted DEF Looked
<1>4. /\ \A u \in Users : trackingStatus'[u] = "up_to_date" <=> tracking[u] = "up_to_date"
      /\ Loaded(trackingStatus') = Loaded(tracking)
      /\ phase' = "processing" =>
           /\ phase = "processing" /\ UNCHANGED <<batchAt, running, toProcess>>
           /\ \A u \in Users : Trusting(trackingStatus'[u], inProgress'[u]) =>
                                Trusting(tracking[u], inProgress[u])
      /\ toProcess' # {} => phase' = phase /\ toProcess' = toProcess
  <2>1. Outdated(tracking) \in SUBSET Users
    BY DEF Outdated
  <2> QED BY <1>1, <1>3, <2>1, DownloadEffect DEF Types, LoopTypes
<1>5. Horizon' = next
  BY <1>1, <1>2 DEF Horizon
<1>6. Tokens'
  BY <1>1, <1>2 DEF Tokens, Types, LoopTypes
<1>7. saveTimer # "short" /\ ~SomeAwaited
  BY DEF OneAwaited
<1>8. LastSnapshot' = LastSnapshot /\ SomeAwaited' = SomeAwaited
  BY <1>1, SnapshotKept DEF diskVars
<1>9. OneAwaited'
  <2>1. timer # "short"
    BY <1>7 DEF SaveIfDirty
  <2>2. saveTimer' = "short" => wantsSave /\ dirtyNow
    BY <1>1, <2>1 DEF SaveIfDirty
  <2>3. saveTimer' = "short" => sync' = "saving"
    BY <1>2, <2>2
  <2> QED BY <1>1, <1>7, <1>8, <2>3 DEF OneAwaited
<1>10. MemoryFresh'
  BY <1>1, <1>3, <1>4, <1>5, LookedFresh DEF MemoryFresh, Covers
<1>11. AnswerFresh'
  <2>1. toProcess' # {} => phase' = "processing"
    BY <1>4 DEF AnswerFresh
  <2>2. ASSUME phase' = "processing", NEW u \in running'
        PROVE  /\ Trusting(trackingStatus'[u], inProgress'[u]) =>
                    FreshIn(changeLog', u, batchAt', Horizon')
               /\ u \notin toProcess' => devices'[u] = batchAt'
    <3>1. u \in running /\ u \in Users /\ phase = "processing"
      BY <1>4, <2>2 DEF Types, BatchTypes
    <3>2. Trusting(trackingStatus'[u], inProgress'[u]) => Trusting(st[u], inProgress[u])
      BY <1>3, <1>4, <2>2, <3>1 DEF Trusting
    <3>3. u \notin toProcess' => devices'[u] = batchAt'
      BY <1>1, <1>4, <2>2, <3>1 DEF AnswerFresh
    <3> QED BY <1>1, <1>4, <1>5, <2>2, <3>1, <3>2, <3>3, LookedFresh
  <2> QED BY <2>1, <2>2 DEF AnswerFresh
<1>12. ~dirty' => SnapshotCovers(next)
  <2>1. ~dirty' => ~isDirty
    BY <1>1 DEF Looked
  <2> QED BY <2>1, LookedFresh
<1>13. SnapshotsFresh'
  BY <1>1, <1>2, <1>5, <1>7, <1>8, <1>12 DEF SnapshotsFresh, SnapshotCovers
<1> QED BY <1>6, <1>9, <1>10, <1>11, <1>13

-----------------------------------------------------------------------------
(* The other actions, one lemma for each that does more than pass by. *)

LEMMA SyncReceivedKeeps ==
  ASSUME IInv, Types', SyncReceived
  PROVE  IInv'
<1> USE DEF IInv
<1>1. /\ sync = "polling" /\ sync' = "rooms"
      /\ since <= next' /\ next' <= Len(changeLog) /\ since = next
      /\ UNCHANGED <<devices, syncToken, batchVars, saveTimer, writes, disk, since, storeWrite,
                     storeDisk, changeLog>>
  BY DEF SyncReceived, diskVars, storeVars, envVars, Tokens, Types, LoopTypes, EnvTypes
<1>2. LastSnapshot' = LastSnapshot /\ SomeAwaited' = SomeAwaited
  BY <1>1, SnapshotKept DEF diskVars
<1>3. Tokens'
  BY <1>1 DEF Tokens
<1>4. OneAwaited' /\ ~SomeAwaited'
  BY <1>1, <1>2 DEF OneAwaited
<1>5. CASE since = NoToken
  <2>1. \A u \in Users : trackingStatus'[u] = "not_tracked"
    BY <1>5 DEF SyncReceived, OnSyncWillProcess, StopTrackingDeviceList, SetStatus, Tracked
  <2>2. dirty' = TRUE
    BY <1>5 DEF SyncReceived, OnSyncWillProcess
  <2>3. MemoryFresh'
    BY <2>1 DEF MemoryFresh, Covers
  <2>4. AnswerFresh'
    BY <1>1, <2>1 DEF AnswerFresh, Trusting, batchVars, Types, BatchTypes
  <2>5. SnapshotsFresh'
    BY <1>1, <1>2, <1>4, <2>2 DEF SnapshotsFresh, SnapshotCovers
  <2> QED BY <1>3, <1>4, <2>3, <2>4, <2>5
<1>6. CASE since # NoToken
  <2>1. UNCHANGED <<trackingStatus, dirty>>
    BY <1>6 DEF SyncReceived, OnSyncWillProcess
  <2>2. Horizon' = Horizon
    BY <1>1, <1>6 DEF Horizon
  <2>3. MemoryFresh'
    BY <1>1, <2>1, <2>2 DEF MemoryFresh
  <2>4. AnswerFresh'
    BY <1>1, <2>1, <2>2 DEF AnswerFresh, batchVars
  <2>5. SnapshotsFresh'
    BY <1>1, <1>2, <1>4, <2>1, <2>2 DEF SnapshotsFresh, SnapshotCovers
  <2> QED BY <1>3, <1>4, <2>3, <2>4, <2>5
<1> QED BY <1>5, <1>6

LEMMA ChangedAreLooked ==
  ASSUME IInv, sync = "rooms"
  PROVE  Looked(InvalidateUserDeviceList(trackingStatus, OutdatedBy), MarkedDirty(OutdatedBy))
<1> USE DEF IInv
<1> DEFINE st == InvalidateUserDeviceList(trackingStatus, OutdatedBy)
           isDirty == MarkedDirty(OutdatedBy)
<1>1. st \in [Users -> Statuses] /\ isDirty \in BOOLEAN
  BY MarkingTypes DEF Types, MemoryTypes, SaveTypes, MarkedDirty
<1>2. ASSUME NEW u \in Users, st[u] \in {"up_to_date", "in_progress"}
      PROVE  trackingStatus[u] = st[u] /\ u \notin OutdatedBy
  BY <1>2 DEF InvalidateUserDeviceList, SetStatus, Tracked, Types, MemoryTypes
<1>3. ASSUME NEW u \in Users, u \notin OutdatedBy
      PROVE  FreshIn(changeLog, u, Horizon, next)
  <2>1. CASE since = NoToken
    <3>1. Horizon = next
      BY <2>1 DEF Horizon
    <3> QED BY <3>1, FreshUpTo DEF Types, LoopTypes, EnvTypes
  <2>2. CASE since # NoToken
    <3>1. Horizon = since
      BY <2>2 DEF Horizon
    <3> QED BY <1>3, <2>2, <3>1 DEF OutdatedBy, Changed, FreshIn
  <2> QED BY <2>1, <2>2
<1>4. ~isDirty => ~dirty /\ st = trackingStatus
  BY CleanWhenUnmarked DEF Types, MemoryTypes
<1> QED BY <1>1, <1>2, <1>3, <1>4 DEF Looked

LEMMA DeviceListsChangedKeeps ==
  ASSUME IInv, CleanMeansSaved, Types', NEW someLeft \in BOOLEAN, NEW wantsSave \in BOOLEAN,
         DeviceListsChanged(someLeft, wantsSave)
  PROVE  IInv'
<1> USE DEF IInv
<1> DEFINE st == InvalidateUserDeviceList(trackingStatus, OutdatedBy)
           isDirty == MarkedDirty(OutdatedBy)
<1>1. sync = "rooms" /\ (someLeft => since # NoToken)
  BY DEF DeviceListsChanged
<1>2. Looked(st, isDirty)
  BY <1>1, ChangedAreLooked
<1>3. CASE ~someLeft
  <2>1. SyncCompleted(st, isDirty, wantsSave)
    BY <1>3 DEF DeviceListsChanged
  <2> QED BY <1>1, <1>2, <2>1, SyncCompletedKeeps
<1>4. CASE someLeft
  <2>1. /\ sync' = "left" /\ trackingStatus' = st /\ dirty' = isDirty
        /\ UNCHANGED <<devices, syncToken, batchVars, saveTimer, writes, disk, since, next,
                       storeWrite, storeDisk, changeLog>>
    BY <1>4 DEF DeviceListsChanged, diskVars, storeVars, envVars
  <2>2. Horizon' = next
    BY <2>1 DEF Horizon
  <2>3. LastSnapshot' = LastSnapshot /\ SomeAwaited' = SomeAwaited
    BY <2>1, SnapshotKept DEF diskVars
  <2>4. Tokens'
    BY <1>1, <2>1 DEF Tokens
  <2>5. OneAwaited' /\ ~SomeAwaited'
    BY <1>1, <2>1, <2>3 DEF OneAwaited
  <2>6. MemoryFresh'
    BY <1>2, <2>1, <2>2, LookedFresh DEF MemoryFresh
  <2>7. AnswerFresh'
    <3>1. /\ running' = running /\ phase' = phase /\ batchAt' = batchAt
          /\ toProcess' = toProcess /\ inProgress' = inProgress
      BY <2>1 DEF batchVars
    <3>2. phase = "processing" => \A u \in running : Trusting(st[u], inProgress[u]) =>
                                  FreshIn(changeLog, u, batchAt, next)
      BY <1>2, LookedFresh
    <3> QED BY <2>1, <2>2, <3>1, <3>2 DEF AnswerFresh
  <2>8. ~dirty' => SnapshotCovers(next)
    BY <1>2, <2>1, LookedFresh
  <2>9. SnapshotsFresh'
    BY <2>1, <2>2, <2>3, <2>5, <2>8 DEF SnapshotsFresh, SnapshotCovers
  <2> QED BY <2>4, <2>5, <2>6, <2>7, <2>9
<1> QED BY <1>3, <1>4

LEMMA LeftAreLooked ==
  ASSUME IInv, sync = "left", NEW us \in SUBSET Users
  PROVE  Looked(StopTrackingDeviceList(trackingStatus, us), MarkedDirty(us))
<1> USE DEF IInv
<1> DEFINE st == StopTrackingDeviceList(trackingStatus, us)
           isDirty == MarkedDirty(us)
<1>1. st \in [Users -> Statuses] /\ isDirty \in BOOLEAN
  BY MarkingTypes DEF Types, MemoryTypes, SaveTypes, MarkedDirty
<1>2. ASSUME NEW u \in Users, st[u] \in {"up_to_date", "in_progress"}
      PROVE  trackingStatus[u] = st[u]
  BY <1>2 DEF StopTrackingDeviceList, SetStatus, Types, MemoryTypes
<1>3. ASSUME NEW u \in Users
      PROVE  FreshIn(changeLog, u, Horizon, next)
  BY FreshUpTo DEF Horizon, Types, LoopTypes, EnvTypes
<1>4. ~isDirty => ~dirty /\ st = trackingStatus
  BY CleanWhenUnmarked DEF Types, MemoryTypes
<1> QED BY <1>1, <1>2, <1>3, <1>4 DEF Looked

LEMMA DeviceListsLeftKeeps ==
  ASSUME IInv, CleanMeansSaved, Types', NEW us \in SUBSET Users, NEW wantsSave \in BOOLEAN,
         DeviceListsLeft(us, wantsSave)
  PROVE  IInv'
<1> USE DEF IInv
<1> DEFINE st == StopTrackingDeviceList(trackingStatus, us)
           isDirty == MarkedDirty(us)
<1>1. sync = "left" /\ SyncCompleted(st, isDirty, wantsSave)
  BY DEF DeviceListsLeft
<1>2. Looked(st, isDirty)
  BY <1>1, LeftAreLooked
<1> QED BY <1>1, <1>2, SyncCompletedKeeps

\* A download that someone other than the sync loop's end starts, with the status
\* st that tracking more users left.
LEMMA DownloadKeeps ==
  ASSUME IInv, Types', NEW st \in [Users -> Statuses], NEW us \in SUBSET Users,
         DoKeyDownload(st, us, syncToken),
         \A u \in Users : \A s \in {"up_to_date", "in_progress"} :
           st[u] = s <=> trackingStatus[u] = s,
         UNCHANGED <<devices, writes, disk, sync, since, next, storeWrite, storeDisk, changeLog>>,
         ~dirty' => ~dirty /\ st = trackingStatus,
         saveTimer' = "short" => saveTimer = "short"
  PROVE  IInv'
<1> USE DEF IInv
<1>1. /\ \A u \in Users : trackingStatus'[u] = "up_to_date" <=> st[u] = "up_to_date"
      /\ Loaded(trackingStatus') = Loaded(st)
      /\ phase' = "processing" =>
           /\ phase = "processing" /\ UNCHANGED <<batchAt, running, toProcess>>
           /\ \A u \in Users : Trusting(trackingStatus'[u], inProgress'[u]) =>
                                Trusting(st[u], inProgress[u])
      /\ toProcess' # {} => phase' = phase /\ toProcess' = toProcess
  BY DownloadEffect DEF Types, MemoryTypes
<1>2. Horizon' = Horizon
  BY DEF Horizon
<1>3. LastSnapshot' = LastSnapshot /\ SomeAwaited' = SomeAwaited
  BY SnapshotKept DEF diskVars
<1>4. Tokens'
  BY DEF Tokens
<1>5. OneAwaited'
  BY <1>3 DEF OneAwaited
<1>6. MemoryFresh'
  BY <1>1, <1>2 DEF MemoryFresh, Covers
<1>7. AnswerFresh'
  <2>1. toProcess' # {} => phase' = "processing"
    BY <1>1 DEF AnswerFresh
  <2>2. ASSUME phase' = "processing", NEW u \in running'
        PROVE  /\ Trusting(trackingStatus'[u], inProgress'[u]) =>
                    FreshIn(changeLog', u, batchAt', Horizon')
               /\ u \notin toProcess' => devices'[u] = batchAt'
    <3>1. u \in running /\ u \in Users /\ phase = "processing"
      BY <1>1, <2>2 DEF Types, BatchTypes
    <3>2. Trusting(trackingStatus'[u], inProgress'[u]) => Trusting(trackingStatus[u], inProgress[u])
      BY <1>1, <2>2, <3>1 DEF Trusting
    <3> QED BY <1>1, <1>2, <2>2, <3>1, <3>2 DEF AnswerFresh
  <2> QED BY <2>1, <2>2 DEF AnswerFresh
<1>8. SnapshotsFresh'
  BY <1>2, <1>3 DEF SnapshotsFresh, SnapshotCovers
<1> QED BY <1>4, <1>5, <1>6, <1>7, <1>8

LEMMA OnCryptoEventKeeps ==
  ASSUME IInv, Types', NEW us \in SUBSET Users, OnCryptoEvent(us)
  PROVE  IInv'
<1> DEFINE st == StartTrackingDeviceList(trackingStatus, us)
           isDirty == dirty \/ st # trackingStatus
<1>1. /\ dirty' = isDirty /\ saveTimer' = SaveIfDirty(isDirty, saveTimer, "long")
      /\ DoKeyDownload(st, Outdated(st), syncToken)
      /\ UNCHANGED <<devices, writes, disk, sync, since, next, storeWrite, storeDisk, changeLog>>
  BY DEF OnCryptoEvent, diskVars, syncVars, storeVars, envVars
<1>2. /\ st \in [Users -> Statuses]
      /\ \A u \in Users : \A s \in {"up_to_date", "in_progress"} :
           st[u] = s <=> trackingStatus[u] = s
  BY TrackingStarted DEF IInv, Types, MemoryTypes
<1>3. Outdated(st) \in SUBSET Users
  BY DEF Outdated
<1>4. saveTimer' = "short" => saveTimer = "short"
  BY <1>1 DEF SaveIfDirty
<1>5. ~dirty' => ~dirty /\ st = trackingStatus
  BY <1>1
<1> QED BY <1>1, <1>2, <1>3, <1>4, <1>5, DownloadKeeps

LEMMA KeysWantedKeeps ==
  ASSUME IInv, Types', NEW us \in SUBSET Callers, NEW force \in BOOLEAN, KeysWanted(us, force)
  PROVE  IInv'
<1> DEFINE wanted == {u \in us : /\ inProgress[u] = "none"
                                 /\ force \/ trackingStatus[u] # "up_to_date"}
<1>1. /\ DoKeyDownload(trackingStatus, wanted, syncToken)
      /\ UNCHANGED <<devices, dirty, saveTimer, writes, disk, sync, since, next, storeWrite,
                     storeDisk, changeLog>>
  BY DEF KeysWanted, DownloadKeys, diskVars, syncVars, storeVars, envVars
<1>2. wanted \in SUBSET Users /\ trackingStatus \in [Users -> Statuses]
  BY DeviceSyncAssumption DEF IInv, Types, MemoryTypes
<1> QED BY <1>1, <1>2, DownloadKeeps

LEMMA StartTrackingKeeps ==
  ASSUME IInv, Types', NEW u \in Callers, StartTracking(u)
  PROVE  IInv'
<1> USE DEF IInv
<1>1. /\ trackingStatus' = StartTrackingDeviceList(trackingStatus, {u}) /\ dirty' = TRUE
      /\ UNCHANGED <<devices, syncToken, batchVars, saveTimer, writes, disk, sync, since, next,
                     storeWrite, storeDisk, changeLog>>
  BY DEF StartTracking, diskVars, syncVars, storeVars, envVars
<1>2. \A v \in Users : \A s \in {"up_to_date", "in_progress"} :
        trackingStatus'[v] = s <=> trackingStatus[v] = s
  BY <1>1, TrackingStarted DEF Types, MemoryTypes
<1>3. Horizon' = Horizon
  BY <1>1 DEF Horizon
<1>4. LastSnapshot' = LastSnapshot /\ SomeAwaited' = SomeAwaited
  BY <1>1, SnapshotKept DEF diskVars
<1>5. Tokens' /\ OneAwaited'
  BY <1>1, <1>4 DEF Tokens, OneAwaited
<1>6. MemoryFresh'
  BY <1>1, <1>2, <1>3 DEF MemoryFresh, Covers
<1>7. AnswerFresh'
  BY <1>1, <1>2, <1>3 DEF AnswerFresh, Trusting, batchVars, Types, BatchTypes
<1>8. SnapshotsFresh'
  BY <1>1, <1>3, <1>4 DEF SnapshotsFresh, SnapshotCovers
<1> QED BY <1>5, <1>6, <1>7, <1>8

\* A write that is done leaves the newest snapshot the newest.
LEMMA WriteKeepsLast ==
  ASSUME Types, writes # <<>>, disk' = Head(writes).data, writes' = Tail(writes)
  PROVE  /\ LastSnapshot' = LastSnapshot
         /\ Len(writes') = Len(writes) - 1
         /\ \A i \in 1..Len(writes') : i + 1 \in 1..Len(writes) /\ writes'[i] = writes[i + 1]
<1>1. writes \in Seq([data : Snapshot, awaited : BOOLEAN])
  BY DEF Types, DiskTypes
<1>2. /\ Len(writes') = Len(writes) - 1 /\ Len(writes) \in Nat \ {0}
      /\ \A i \in 1..Len(writes') : writes'[i] = writes[i + 1]
  BY <1>1, HeadTailProperties, EmptySeq
<1>3. CASE Len(writes) = 1
  <2>1. writes' = <<>>
    BY <1>1, <1>3
  <2>2. Head(writes) = writes[Len(writes)]
    BY <1>3
  <2> QED BY <1>2, <2>1, <2>2 DEF LastSnapshot
<1>4. CASE Len(writes) # 1
  <2>1. writes' # <<>> /\ Len(writes') \in 1..Len(writes')
    BY <1>2, <1>4
  <2>2. writes'[Len(writes')] = writes[Len(writes)]
    BY <1>2, <2>1
  <2> QED BY <1>2, <2>1, <2>2 DEF LastSnapshot
<1> QED BY <1>3, <1>4

LEMMA DeviceListSavedKeeps ==
  ASSUME IInv, Types', DeviceListSaved
  PROVE  IInv'
<1> USE DEF IInv
<1>1. /\ writes # <<>> /\ disk' = Head(writes).data /\ writes' = Tail(writes)
      /\ UNCHANGED <<memVars, batchVars, dirty, saveTimer, next, storeDisk, changeLog>>
  BY DEF DeviceListSaved, WriteDone, envVars
<1>2. /\ LastSnapshot' = LastSnapshot
      /\ Len(writes') = Len(writes) - 1
      /\ \A i \in 1..Len(writes') : i + 1 \in 1..Len(writes) /\ writes'[i] = writes[i + 1]
  BY <1>1, WriteKeepsLast
<1>3. 1 \in 1..Len(writes) /\ Head(writes) = writes[1]
  BY <1>1 DEF Types, DiskTypes
<1>4. \A i, j \in 1..Len(writes') : writes'[i].awaited /\ writes'[j].awaited => i = j
  <2> SUFFICES ASSUME NEW i \in 1..Len(writes'), NEW j \in 1..Len(writes'),
                      writes'[i].awaited, writes'[j].awaited
               PROVE  i = j
    OBVIOUS
  <2>1. i + 1 = j + 1
    BY <1>2 DEF OneAwaited
  <2> QED BY <2>1
<1>5. SomeAwaited' => SomeAwaited
  BY <1>2 DEF SomeAwaited
<1>6. Horizon' = Horizon /\ Tokens' /\ OneAwaited' /\ SnapshotsFresh'
  <2>1. CASE writes[1].awaited
    <3>1. SomeAwaited /\ sync = "saving" /\ saveTimer # "short"
      BY <1>3, <2>1 DEF SomeAwaited, OneAwaited
    <3>2. ~SomeAwaited'
      <4> SUFFICES ASSUME NEW i \in 1..Len(writes'), writes'[i].awaited PROVE FALSE
        BY DEF SomeAwaited
      <4>1. writes[i + 1].awaited /\ i + 1 \in 1..Len(writes)
        BY <1>2
      <4>2. i + 1 = 1
        BY <1>3, <2>1, <4>1 DEF OneAwaited
      <4> QED BY <4>2
    <3>3. storeWrite' = next /\ sync' = "polling" /\ since' = next
      BY <1>3, <2>1 DEF DeviceListSaved, StoreSave, NextSync
    <3>4. Horizon = next /\ Horizon' = next
      BY <1>1, <3>1, <3>3 DEF Horizon
    <3>5. Tokens'
      BY <1>1, <3>3 DEF Tokens, Types, LoopTypes
    <3>6. OneAwaited'
      BY <1>1, <1>4, <3>1, <3>2 DEF OneAwaited
    <3>7. SnapshotsFresh'
      BY <1>1, <1>2, <3>1, <3>2, <3>3, <3>4 DEF SnapshotsFresh, SnapshotCovers
    <3> QED BY <3>4, <3>5, <3>6, <3>7
  <2>2. CASE ~writes[1].awaited
    <3>1. UNCHANGED <<sync, since, storeWrite>>
      BY <1>3, <2>2 DEF DeviceListSaved
    <3>2. Horizon' = Horizon
      BY <1>1, <3>1 DEF Horizon
    <3>3. Tokens'
      BY <1>1, <3>1 DEF Tokens
    <3>4. OneAwaited'
      BY <1>1, <1>4, <1>5, <3>1 DEF OneAwaited
    <3>5. SnapshotsFresh'
      BY <1>1, <1>2, <1>5, <3>1, <3>2 DEF SnapshotsFresh, SnapshotCovers
    <3> QED BY <3>2, <3>3, <3>4, <3>5
  <2> QED BY <2>1, <2>2
<1>7. MemoryFresh' /\ AnswerFresh'
  BY <1>1, <1>2, <1>6 DEF MemoryFresh, AnswerFresh, memVars, batchVars
<1> QED BY <1>6, <1>7

LEMMA SyncStoreSavedKeeps ==
  ASSUME IInv, Types', SyncStoreSaved
  PROVE  IInv'
<1> USE DEF IInv
<1>1. /\ storeDisk' = storeWrite /\ storeWrite' = NoToken
      /\ UNCHANGED <<trackingStatus, devices, batchVars, dirty, saveTimer, writes, disk, sync,
                     since, next, changeLog>>
  BY DEF SyncStoreSaved, listVars, memVars, diskVars, syncVars, envVars
<1>2. LastSnapshot' = LastSnapshot /\ SomeAwaited' = SomeAwaited /\ Horizon' = Horizon
  BY <1>1, SnapshotKept DEF diskVars, Horizon
<1>3. SnapshotCovers(NoToken)
  BY SnapshotType, FreshUpTo DEF SnapshotCovers, Covers, Snapshot, Types, EnvTypes
<1>4. Tokens' /\ OneAwaited'
  BY <1>1, <1>2 DEF Tokens, OneAwaited, Types, LoopTypes
<1>5. SnapshotsFresh'
  BY <1>1, <1>2, <1>3 DEF SnapshotsFresh, SnapshotCovers
<1>6. MemoryFresh' /\ AnswerFresh'
  BY <1>1, <1>2 DEF MemoryFresh, AnswerFresh, batchVars
<1> QED BY <1>4, <1>5, <1>6

LEMMA SaveTimerKeeps ==
  ASSUME IInv, Types', SaveTimer
  PROVE  IInv'
<1> USE DEF IInv
<1> DEFINE new == [data |-> [trackingStatus |-> trackingStatus,
                             devices |-> devices, syncToken |-> syncToken],
                   awaited |-> SaveAwaited]
<1>1. /\ saveTimer # "none" /\ saveTimer' = "none" /\ dirty' = FALSE
      /\ writes' = Append(writes, new)
      /\ UNCHANGED <<trackingStatus, devices, batchVars, disk, sync, since, next, storeWrite,
                     storeDisk, changeLog>>
  BY DEF SaveTimer, SaveTimerFires, memVars, syncVars, storeVars, envVars
<1>2. writes \in Seq([data : Snapshot, awaited : BOOLEAN]) /\ Len(writes) \in Nat
  BY DEF Types, DiskTypes
<1>3. /\ Len(writes') = Len(writes) + 1
      /\ writes'[Len(writes) + 1] = new
      /\ \A i \in 1..Len(writes) : writes'[i] = writes[i]
  BY <1>1, <1>2
<1>4. LastSnapshot' = new.data
  BY <1>1, <1>2, <1>3 DEF LastSnapshot
<1>5. Horizon' = Horizon /\ Tokens'
  BY <1>1 DEF Horizon, Tokens
<1>6. MemoryFresh' /\ AnswerFresh'
  BY <1>1, <1>5 DEF MemoryFresh, AnswerFresh, batchVars
<1>7. \A i \in 1..Len(writes') : writes'[i].awaited =>
        \/ i \in 1..Len(writes) /\ writes[i].awaited
        \/ i = Len(writes) + 1 /\ saveTimer = "short"
  <2> SUFFICES ASSUME NEW i \in 1..Len(writes'), writes'[i].awaited
               PROVE  \/ i \in 1..Len(writes) /\ writes[i].awaited
                      \/ i = Len(writes) + 1 /\ saveTimer = "short"
    OBVIOUS
  <2>1. CASE i \in 1..Len(writes)
    BY <1>3, <2>1
  <2>2. CASE i = Len(writes) + 1
    <3>1. writes'[i] = new
      BY <1>3, <2>2
    <3>2. new.awaited = SaveAwaited
      OBVIOUS
    <3>3. SaveAwaited
      BY <3>1, <3>2
    <3> QED BY <2>2, <3>3 DEF SaveAwaited
  <2> QED BY <1>2, <1>3, <2>1, <2>2
<1>8. SomeAwaited' => sync = "saving"
  BY <1>7 DEF SomeAwaited, OneAwaited
<1>9. OneAwaited'
  <2>1. ASSUME NEW i \in 1..Len(writes'), NEW j \in 1..Len(writes'),
               writes'[i].awaited, writes'[j].awaited
        PROVE  i = j
    <3>1. CASE saveTimer = "short"
      BY <1>7, <2>1, <3>1 DEF OneAwaited, SomeAwaited
    <3>2. CASE saveTimer # "short"
      BY <1>7, <2>1, <3>2 DEF OneAwaited
    <3> QED BY <3>1, <3>2
  <2> QED BY <1>1, <1>8, <2>1 DEF OneAwaited
<1>10. \A t \in Positions : t <= Horizon => Covers(changeLog, trackingStatus, devices, t)
  BY HorizonType, CoversEarlier DEF MemoryFresh, Types, EnvTypes, MemoryTypes
<1>11. SnapshotsFresh'
  <2>1. storeDisk <= Horizon /\ storeWrite <= Horizon
    BY HorizonType DEF Tokens, Types, LoopTypes
  <2>2. SomeAwaited' => next <= Horizon
    BY <1>8 DEF Horizon, Types, LoopTypes
  <2> QED BY <1>1, <1>4, <1>5, <1>10, <2>1, <2>2, HorizonType
       DEF SnapshotsFresh, SnapshotCovers, Types, LoopTypes
<1> QED BY <1>5, <1>6, <1>9, <1>11

LEMMA DevicesChangeKeeps ==
  ASSUME IInv, Types', NEW u \in Users, DevicesChange(u)
  PROVE  IInv'
<1> USE DEF IInv
<1>1. /\ changeLog' = Append(changeLog, u)
      /\ UNCHANGED <<trackingStatus, devices, batchVars, dirty, saveTimer, writes, disk, sync,
                     since, next, storeWrite, storeDisk>>
  BY DEF DevicesChange, listVars, memVars, diskVars, syncVars, storeVars
<1>2. changeLog \in Seq(Users) /\ Len(changeLog') = Len(changeLog) + 1 /\ Len(changeLog) \in Nat
  BY <1>1 DEF Types, EnvTypes
<1>3. LastSnapshot' = LastSnapshot /\ SomeAwaited' = SomeAwaited /\ Horizon' = Horizon
  BY <1>1, SnapshotKept DEF diskVars, Horizon
<1>4. Tokens' /\ OneAwaited'
  BY <1>1, <1>2, <1>3 DEF Tokens, OneAwaited, Types, LoopTypes
<1>5. Horizon \in Positions /\ Horizon <= Len(changeLog)
  BY <1>2, HorizonType DEF Tokens, Types, LoopTypes
<1>6. MemoryFresh'
  BY <1>1, <1>2, <1>3, <1>5, CoversAppend DEF MemoryFresh, Types, MemoryTypes
<1>7. AnswerFresh'
  <2>1. UNCHANGED <<phase, batchAt, running, toProcess, inProgress>>
    BY <1>1 DEF batchVars
  <2> QED BY <1>1, <1>2, <1>3, <1>5, <2>1, FreshAppend DEF AnswerFresh, Types, BatchTypes
<1>8. \A t \in Positions : t <= Len(changeLog) /\ SnapshotCovers(t) =>
        Covers(changeLog', LastSnapshot.trackingStatus, LastSnapshot.devices, t)
  BY <1>1, <1>2, SnapshotType, CoversAppend DEF SnapshotCovers, Snapshot
<1>9. SnapshotsFresh'
  <2>1. /\ storeDisk \in Positions /\ storeDisk <= Len(changeLog)
        /\ storeWrite \in Positions /\ storeWrite <= Len(changeLog)
        /\ next \in Positions /\ next <= Len(changeLog)
    BY <1>2 DEF Tokens, Types, LoopTypes
  <2> QED BY <1>1, <1>3, <1>5, <1>8, <2>1 DEF SnapshotsFresh, SnapshotCovers
<1> QED BY <1>4, <1>6, <1>7, <1>9

-----------------------------------------------------------------------------
(***************************************************************************)
(* A server that lags.  It answers as of the token it was given, or later. *)
(* When only the end of a sync asks for keys, every query carries the      *)
(* token that sync has handled, and a user who changed since is            *)
(* invalidated before the query's answer may be trusted.                   *)
(***************************************************************************)
OnlySyncsAskIfLagging == Lagging => Callers = {} /\ LazyLoadMembers

QueriesFresh ==
  /\ phase = "requested" =>
       \A u \in running : Trusting(trackingStatus[u], inProgress[u]) =>
                            FreshIn(changeLog, u, batchAt, Horizon)
  /\ \A u \in queued : trackingStatus[u] \in {"in_progress", "up_to_date"} =>
                         FreshIn(changeLog, u, queryToken, Horizon)
  /\ phase # "idle" \/ queued # {} => syncToken <= Horizon

\* A step that starts no query and trusts no answer it was not trusted before.
LEMMA NoNewQuery ==
  ASSUME Types, QueriesFresh, Horizon' = Horizon,
         UNCHANGED <<changeLog, syncToken, queued, queryToken>>,
         \A u \in Users : trackingStatus'[u] \in {"in_progress", "up_to_date"} =>
                            trackingStatus[u] \in {"in_progress", "up_to_date"},
         phase' # "idle" => phase # "idle",
         phase' = "requested" =>
           /\ phase = "requested" /\ UNCHANGED <<batchAt, running>>
           /\ \A u \in running : Trusting(trackingStatus'[u], inProgress'[u]) =>
                                   Trusting(trackingStatus[u], inProgress[u])
  PROVE  QueriesFresh'
<1>1. queued \subseteq Users
  BY DEF Types, BatchTypes
<1> QED BY <1>1 DEF QueriesFresh

\* The queue takes the newest token, and so does a query that is sent at once.
LEMMA SyncCompletedQueries ==
  ASSUME IInv, QueriesFresh, NEW st, NEW isDirty, NEW wantsSave, Looked(st, isDirty),
         sync \in {"rooms", "left"}, SyncCompleted(st, isDirty, wantsSave)
  PROVE  QueriesFresh'
<1> USE DEF IInv
<1> DEFINE tracking == StartTrackingDeviceList(st, {Self})
           out == Outdated(tracking)
           Trusted == {"in_progress", "up_to_date"}
<1>1. /\ syncToken' = next /\ changeLog' = changeLog /\ DoKeyDownload(tracking, out, next)
      /\ next' = next /\ sync' \in {"polling", "saving"}
  BY DEF SyncCompleted, NextSync, envVars
<1>2. Horizon' = next
  BY <1>1 DEF Horizon
<1>3. /\ Horizon \in Positions /\ next \in Positions /\ changeLog \in Seq(Users)
      /\ batchAt \in Positions /\ queryToken \in Positions
      /\ running \subseteq Users /\ queued \subseteq Users /\ out \subseteq Users
  BY HorizonType DEF Types, LoopTypes, EnvTypes, BatchTypes, Outdated
<1>4. \A u : FreshIn(changeLog, u, next, next)
  BY <1>3, FreshUpTo
<1>5. \A u \in Users : tracking[u] \in Trusted =>
        st[u] = tracking[u] /\ trackingStatus[u] = tracking[u] /\ FreshIn(changeLog, u, Horizon, next)
  <2>1. \A u \in Users : \A s \in {"up_to_date", "in_progress"} : tracking[u] = s <=> st[u] = s
    BY TrackingStarted DEF Looked
  <2> QED BY <2>1 DEF Looked
<1>6. trackingStatus' = SetStatus(tracking, {u \in out : tracking[u] = "pending"}, "in_progress")
  BY <1>1 DEF DoKeyDownload
<1>7. (phase # "idle" \/ queued # {} => syncToken <= Horizon)'
  BY <1>1, <1>2, <1>3
<1>8. CASE out = {}
  <2>1. UNCHANGED batchVars
    BY <1>1, <1>8 DEF DoKeyDownload
  <2>2. UNCHANGED <<phase, batchAt, running, queued, queryToken, inProgress>>
    BY <2>1 DEF batchVars
  <2>3. \A u \in Users : trackingStatus'[u] = tracking[u]
    BY <1>6, <1>8 DEF SetStatus
  <2>4. ASSUME phase = "requested", NEW u \in running, Trusting(tracking[u], inProgress[u])
        PROVE  FreshIn(changeLog, u, batchAt, next)
    <3>1. u \in Users /\ tracking[u] \in Trusted
      BY <1>3, <2>4 DEF Trusting
    <3>2. Trusting(trackingStatus[u], inProgress[u]) /\ FreshIn(changeLog, u, Horizon, next)
      BY <1>5, <2>4, <3>1 DEF Trusting
    <3>3. FreshIn(changeLog, u, batchAt, Horizon)
      BY <2>4, <3>2 DEF QueriesFresh
    <3> QED BY <1>3, <3>2, <3>3, FreshLater
  <2>5. ASSUME NEW u \in queued, tracking[u] \in Trusted
        PROVE  FreshIn(changeLog, u, queryToken, next)
    <3>1. u \in Users /\ trackingStatus[u] \in Trusted /\ FreshIn(changeLog, u, Horizon, next)
      BY <1>3, <1>5, <2>5
    <3>2. FreshIn(changeLog, u, queryToken, Horizon)
      BY <2>5, <3>1 DEF QueriesFresh
    <3> QED BY <1>3, <3>1, <3>2, FreshLater
  <2> QED BY <1>1, <1>2, <1>3, <1>7, <2>2, <2>3, <2>4, <2>5 DEF QueriesFresh
<1>9. CASE out # {} /\ phase = "idle"
  <2>1. batchAt' = next /\ queued' = {}
    BY <1>1, <1>9 DEF DoKeyDownload, StartBatch
  <2> QED BY <1>1, <1>2, <1>4, <1>7, <2>1 DEF QueriesFresh
<1>10. CASE out # {} /\ phase # "idle"
  <2>1. /\ queryToken' = next /\ UNCHANGED <<phase, batchAt, running>>
        /\ inProgress' = [u \in Users |-> IF u \in out THEN "queued" ELSE inProgress[u]]
    BY <1>1, <1>10 DEF DoKeyDownload
  <2>2. ASSUME phase = "requested", NEW u \in running, Trusting(trackingStatus'[u], inProgress'[u])
        PROVE  FreshIn(changeLog, u, batchAt, next)
    <3>1. u \in Users
      BY <1>3, <2>2
    <3>2. Trusting(tracking[u], inProgress[u]) /\ tracking[u] \in Trusted
      BY <1>6, <2>1, <2>2, <3>1 DEF Trusting, SetStatus
    <3>3. Trusting(trackingStatus[u], inProgress[u]) /\ FreshIn(changeLog, u, Horizon, next)
      BY <1>5, <3>1, <3>2 DEF Trusting
    <3>4. FreshIn(changeLog, u, batchAt, Horizon)
      BY <2>2, <3>3 DEF QueriesFresh
    <3> QED BY <1>3, <3>3, <3>4, FreshLater
  <2> QED BY <1>1, <1>2, <1>4, <1>7, <2>1, <2>2 DEF QueriesFresh
<1> QED BY <1>8, <1>9, <1>10

LEMMA SyncReceivedQueries ==
  ASSUME IInv, Types', QueriesFresh, SyncReceived
  PROVE  QueriesFresh'
<1> USE DEF IInv
<1>1. /\ sync = "polling" /\ sync' = "rooms" /\ next' >= since /\ since = next
      /\ UNCHANGED <<syncToken, batchVars, since, changeLog>>
  BY DEF SyncReceived, envVars, Tokens, Types, LoopTypes, EnvTypes
<1>2. UNCHANGED <<phase, batchAt, running, queued, queryToken, inProgress>>
  BY <1>1 DEF batchVars
<1>3. CASE since = NoToken
  <2>1. \A u \in Users : trackingStatus'[u] = "not_tracked"
    BY <1>3 DEF SyncReceived, OnSyncWillProcess, StopTrackingDeviceList, SetStatus, Tracked
  <2>2. Horizon = next /\ Horizon' = next'
    BY <1>1, <1>3 DEF Horizon
  <2>3. syncToken <= Horizon => syncToken <= Horizon'
    BY <1>1, <2>2 DEF Types, LoopTypes, MemoryTypes
  <2>4. running \subseteq Users /\ queued \subseteq Users
    BY DEF Types, BatchTypes
  <2> QED BY <1>1, <1>2, <2>1, <2>3, <2>4 DEF QueriesFresh, Trusting
<1>4. CASE since # NoToken
  <2>1. trackingStatus' = trackingStatus /\ Horizon' = Horizon
    BY <1>1, <1>4 DEF SyncReceived, OnSyncWillProcess, Horizon
  <2> QED BY <1>1, <1>2, <2>1, NoNewQuery
<1> QED BY <1>3, <1>4

LEMMA DeviceListsChangedQueries ==
  ASSUME IInv, QueriesFresh, NEW someLeft \in BOOLEAN, NEW wantsSave \in BOOLEAN,
         DeviceListsChanged(someLeft, wantsSave)
  PROVE  QueriesFresh'
<1> USE DEF IInv
<1> DEFINE st == InvalidateUserDeviceList(trackingStatus, OutdatedBy)
           isDirty == MarkedDirty(OutdatedBy)
<1>1. sync = "rooms"
  BY DEF DeviceListsChanged
<1>2. Looked(st, isDirty)
  BY <1>1, ChangedAreLooked
<1>3. CASE ~someLeft
  BY <1>1, <1>2, <1>3, SyncCompletedQueries DEF DeviceListsChanged
<1>4. CASE someLeft
  <2>1. /\ sync' = "left" /\ trackingStatus' = st /\ next' = next
        /\ UNCHANGED <<syncToken, batchVars, changeLog>>
    BY <1>4 DEF DeviceListsChanged, envVars
  <2>2. UNCHANGED <<phase, batchAt, running, queued, queryToken, inProgress>>
    BY <2>1 DEF batchVars
  <2>3. Horizon' = next
    BY <2>1 DEF Horizon
  <2>4. /\ Horizon \in Positions /\ next \in Positions /\ Horizon <= next /\ changeLog \in Seq(Users)
        /\ batchAt \in Positions /\ queryToken \in Positions /\ syncToken \in Positions
        /\ running \subseteq Users /\ queued \subseteq Users
    BY HorizonType DEF Types, LoopTypes, EnvTypes, BatchTypes, MemoryTypes
  <2>5. \A u \in Users : st[u] \in {"in_progress", "up_to_date"} =>
          trackingStatus[u] = st[u] /\ FreshIn(changeLog, u, Horizon, next)
    BY <1>2 DEF Looked
  <2>6. ASSUME phase = "requested", NEW u \in running, Trusting(st[u], inProgress[u])
        PROVE  FreshIn(changeLog, u, batchAt, next)
    <3>1. u \in Users /\ st[u] \in {"in_progress", "up_to_date"}
      BY <2>4, <2>6 DEF Trusting
    <3>2. Trusting(trackingStatus[u], inProgress[u]) /\ FreshIn(changeLog, u, Horizon, next)
      BY <2>5, <2>6, <3>1
    <3>3. FreshIn(changeLog, u, batchAt, Horizon)
      BY <2>6, <3>2 DEF QueriesFresh
    <3> QED BY <2>4, <3>2, <3>3, FreshLater
  <2>7. ASSUME NEW u \in queued, st[u] \in {"in_progress", "up_to_date"}
        PROVE  FreshIn(changeLog, u, queryToken, next)
    <3>1. u \in Users /\ trackingStatus[u] = st[u] /\ FreshIn(changeLog, u, Horizon, next)
      BY <2>4, <2>5, <2>7
    <3>2. FreshIn(changeLog, u, queryToken, Horizon)
      BY <2>7, <3>1 DEF QueriesFresh
    <3> QED BY <2>4, <3>1, <3>2, FreshLater
  <2>8. phase # "idle" \/ queued # {} => syncToken <= next
    BY <2>4 DEF QueriesFresh
  <2> QED BY <2>1, <2>2, <2>3, <2>6, <2>7, <2>8 DEF QueriesFresh
<1> QED BY <1>3, <1>4

LEMMA DevicesChangeQueries ==
  ASSUME IInv, QueriesFresh, NEW v \in Users, DevicesChange(v)
  PROVE  QueriesFresh'
<1> USE DEF IInv
<1>1. /\ changeLog' = Append(changeLog, v) /\ Horizon' = Horizon
      /\ UNCHANGED <<trackingStatus, syncToken, phase, batchAt, running, inProgress, queued, queryToken>>
  BY DEF DevicesChange, Horizon, listVars, memVars, batchVars, syncVars
<1>2. /\ changeLog \in Seq(Users) /\ Horizon \in Positions /\ Horizon <= Len(changeLog)
      /\ batchAt \in Positions /\ queryToken \in Positions
  BY HorizonType DEF Tokens, Types, LoopTypes, EnvTypes, BatchTypes
<1>3. \A u : \A p \in Positions :
        FreshIn(changeLog, u, p, Horizon) => FreshIn(changeLog', u, p, Horizon)
  BY <1>1, <1>2, FreshAppend
<1> QED BY <1>1, <1>2, <1>3 DEF QueriesFresh

\* A batch that is over makes way for the queue, whose query carries its token.
LEMMA DownloadCompletedQueries ==
  ASSUME IInv, QueriesFresh, DownloadCompleted
  PROVE  QueriesFresh'
<1> USE DEF IInv
<1>1. /\ phase = "processing" /\ Horizon' = Horizon
      /\ trackingStatus' = SetStatus(trackingStatus,
                              {u \in Owned : trackingStatus[u] = "in_progress"}, "up_to_date")
      /\ UNCHANGED <<syncToken, changeLog>>
  BY DEF DownloadCompleted, BatchCompleted, Finish, Horizon, syncVars, envVars
<1>2. \A u \in Users : trackingStatus'[u] \in {"in_progress", "up_to_date"} =>
        trackingStatus[u] \in {"in_progress", "up_to_date"}
  BY <1>1 DEF SetStatus
<1>3. CASE queued = {}
  <2>1. phase' = "idle" /\ UNCHANGED <<queued, queryToken>>
    BY <1>3 DEF DownloadCompleted, BatchCompleted, NoBatch
  <2> QED BY <1>1, <1>2, <2>1, NoNewQuery
<1>4. CASE queued # {}
  <2>1. phase' = "requested" /\ batchAt' = queryToken /\ running' = queued /\ queued' = {}
    BY <1>4 DEF DownloadCompleted, BatchCompleted, StartBatch
  <2>2. \A u \in queued : trackingStatus'[u] \in {"in_progress", "up_to_date"} =>
                            FreshIn(changeLog, u, queryToken, Horizon)
    BY <1>2 DEF QueriesFresh, Types, BatchTypes
  <2> QED BY <1>1, <1>4, <2>1, <2>2 DEF QueriesFresh, Trusting
<1> QED BY <1>3, <1>4

LEMMA DownloadFailedQueries ==
  ASSUME IInv, QueriesFresh, DownloadFailed
  PROVE  QueriesFresh'
<1>1. /\ phase' = "idle" /\ Horizon' = Horizon
      /\ trackingStatus' = SetStatus(trackingStatus,
                              {u \in Owned : trackingStatus[u] = "in_progress"}, "pending")
      /\ UNCHANGED <<syncToken, changeLog, queued, queryToken>>
  BY DEF DownloadFailed, BatchFailed, NoBatch, Finish, Horizon, syncVars
<1>2. \A u \in Users : trackingStatus'[u] \in {"in_progress", "up_to_date"} =>
        trackingStatus[u] \in {"in_progress", "up_to_date"}
  BY <1>1 DEF SetStatus
<1> QED BY <1>1, <1>2, NoNewQuery DEF IInv

\* The rest of the steps start no query.
LEMMA QuietQueries ==
  ASSUME IInv, QueriesFresh,
         \/ DeviceListSaved \/ SyncStoreSaved \/ SaveTimer \/ ServerAnswers
         \/ \E u \in Users : ProcessUser(u)
         \/ UNCHANGED vars
  PROVE  QueriesFresh'
<1> USE DEF IInv
<1>1. UNCHANGED <<trackingStatus, syncToken, changeLog, inProgress, running, queued, queryToken>>
  BY DEF DeviceListSaved, WriteDone, SyncStoreSaved, SaveTimer, SaveTimerFires, ServerAnswers,
         QueryAnswered, ProcessUser, ProcessQueryResponse, vars, listVars, memVars, batchVars, envVars
<1>2. /\ phase' # "idle" => phase # "idle"
      /\ phase' = "requested" => phase = "requested" /\ batchAt' = batchAt
  BY DEF DeviceListSaved, WriteDone, SyncStoreSaved, SaveTimer, SaveTimerFires, ServerAnswers,
         QueryAnswered, ProcessUser, ProcessQueryResponse, vars, listVars, memVars, batchVars
<1>3. Horizon' = Horizon
  <2>1. CASE DeviceListSaved
    <3>1. CASE Head(writes).awaited
      <4>1. writes # <<>> /\ 1 \in 1..Len(writes) /\ Head(writes) = writes[1]
        BY <2>1 DEF DeviceListSaved, WriteDone, Types, DiskTypes
      <4>2. sync = "saving"
        BY <3>1, <4>1 DEF OneAwaited, SomeAwaited
      <4> QED BY <2>1, <3>1, <4>2 DEF DeviceListSaved, NextSync, Horizon
    <3> QED BY <2>1, <3>1 DEF DeviceListSaved, Horizon
  <2> QED BY <2>1 DEF SyncStoreSaved, SaveTimer, ServerAnswers, ProcessUser, Horizon, vars, syncVars
<1> QED BY <1>1, <1>2, <1>3, NoNewQuery

LEMMA NextQueries ==
  ASSUME Lagging, OnlySyncsAskIfLagging, ~SyncMayThrow, IInv, Types', QueriesFresh, [Next]_vars
  PROVE  QueriesFresh'
<1>1. WantsSave \subseteq BOOLEAN
  BY DEF WantsSave
<1>2. CASE SyncReceived
  BY <1>2, SyncReceivedQueries
<1>3. ASSUME NEW someLeft \in BOOLEAN, NEW wantsSave \in WantsSave, DeviceListsChanged(someLeft, wantsSave)
      PROVE  QueriesFresh'
  BY <1>1, <1>3, DeviceListsChangedQueries
<1>4. ASSUME NEW us \in SUBSET Users, NEW wantsSave \in WantsSave, DeviceListsLeft(us, wantsSave)
      PROVE  QueriesFresh'
  BY <1>4, LeftAreLooked, SyncCompletedQueries DEF DeviceListsLeft
<1>5. ASSUME NEW wantsSave \in WantsSave, SyncThrows(wantsSave)
      PROVE  FALSE
  BY <1>5 DEF SyncThrows
<1>6. ASSUME \/ \E us \in SUBSET Users : OnCryptoEvent(us)
             \/ \E u \in Callers : StartTracking(u)
             \/ \E us \in SUBSET Callers, force \in BOOLEAN : KeysWanted(us, force)
      PROVE  FALSE
  BY <1>6 DEF OnlySyncsAskIfLagging, OnCryptoEvent, KeysWanted, DownloadKeys
<1>7. ASSUME NEW u \in Users, DevicesChange(u)
      PROVE  QueriesFresh'
  BY <1>7, DevicesChangeQueries
<1>8. CASE \/ DeviceListSaved \/ SyncStoreSaved \/ SaveTimer \/ ServerAnswers
           \/ \E u \in Users : ProcessUser(u)
           \/ UNCHANGED vars
  BY <1>8, QuietQueries
<1>9. CASE DownloadCompleted \/ DownloadFailed
  BY <1>9, DownloadCompletedQueries, DownloadFailedQueries
<1>10. CASE PageReload
  BY <1>10 DEF PageReload, Reload, QueriesFresh
<1> QED BY <1>2, <1>3, <1>4, <1>5, <1>6, <1>7, <1>8, <1>9, <1>10 DEF Next

-----------------------------------------------------------------------------
(* What the server does, and what may become of a download. *)

\* An answer is as fresh as its query, or knows all there is.
LEMMA AnswerIsFresh ==
  ASSUME Types, NEW p \in AnswerPositions, NEW u, NEW t \in Positions, t <= Len(changeLog),
         Lagging => FreshIn(changeLog, u, batchAt, t)
  PROVE  FreshIn(changeLog, u, p, t)
<1>1. /\ changeLog \in Seq(Users) /\ Len(changeLog) \in Nat /\ batchAt \in Positions
      /\ p \in Nat /\ (~Lagging => p = Len(changeLog)) /\ (Lagging => p >= batchAt)
  BY DEF AnswerPositions, Types, EnvTypes, BatchTypes
<1>2. CASE Lagging
  BY <1>1, <1>2 DEF FreshIn
<1>3. CASE ~Lagging
  BY <1>1, <1>3, FreshUpTo
<1> QED BY <1>2, <1>3

LEMMA ServerAnswersKeeps ==
  ASSUME IInv, Lagging => QueriesFresh, Types', ServerAnswers
  PROVE  IInv'
<1> USE DEF IInv
<1>1. PICK p \in AnswerPositions : QueryAnswered(p)
  BY DEF ServerAnswers
<1>2. /\ phase = "requested" /\ phase' = "processing" /\ batchAt' = p /\ toProcess' = running
      /\ UNCHANGED <<trackingStatus, devices, running, inProgress, dirty, saveTimer, writes, disk,
                     sync, since, next, storeWrite, storeDisk, changeLog>>
  BY <1>1 DEF ServerAnswers, QueryAnswered, memVars, diskVars, syncVars, storeVars, envVars
<1>3. LastSnapshot' = LastSnapshot /\ SomeAwaited' = SomeAwaited /\ Horizon' = Horizon
  BY <1>2, SnapshotKept DEF diskVars, Horizon
<1>4. ASSUME NEW u \in running, Trusting(trackingStatus[u], inProgress[u])
      PROVE  FreshIn(changeLog, u, p, Horizon)
  BY <1>2, <1>4, HorizonType, AnswerIsFresh DEF QueriesFresh, Tokens, Types, LoopTypes
<1>5. AnswerFresh'
  BY <1>2, <1>3, <1>4 DEF AnswerFresh
<1>6. Tokens' /\ OneAwaited' /\ MemoryFresh'
  BY <1>2, <1>3 DEF Tokens, OneAwaited, MemoryFresh
<1>7. SnapshotsFresh'
  BY <1>2, <1>3 DEF SnapshotsFresh, SnapshotCovers
<1> QED BY <1>5, <1>6, <1>7

LEMMA ProcessUserKeeps ==
  ASSUME IInv, Types', NEW v \in Users, ProcessUser(v)
  PROVE  IInv'
<1> USE DEF IInv
<1>1. /\ v \in toProcess /\ toProcess' = toProcess \ {v}
      /\ devices' = [devices EXCEPT ![v] = batchAt]
      /\ UNCHANGED <<trackingStatus, phase, batchAt, running, inProgress, dirty, saveTimer, writes,
                     disk, sync, since, next, storeWrite, storeDisk, changeLog>>
  BY DEF ProcessUser, ProcessQueryResponse, diskVars, syncVars, storeVars, envVars
<1>2. LastSnapshot' = LastSnapshot /\ SomeAwaited' = SomeAwaited /\ Horizon' = Horizon
  BY <1>1, SnapshotKept DEF diskVars, Horizon
<1>3. phase = "processing" /\ v \in running /\ devices \in [Users -> Positions]
  BY <1>1 DEF AnswerFresh, Types, BatchTypes, MemoryTypes
<1>4. MemoryFresh'
  <2> SUFFICES ASSUME NEW u \in Users, trackingStatus[u] = "up_to_date"
               PROVE  FreshIn(changeLog, u, devices'[u], Horizon)
    BY <1>1, <1>2 DEF MemoryFresh, Covers
  <2>1. CASE u = v
    <3>1. Trusting(trackingStatus[v], inProgress[v])
      BY <2>1 DEF Trusting
    <3>2. FreshIn(changeLog, v, batchAt, Horizon)
      BY <1>3, <3>1 DEF AnswerFresh
    <3>3. devices'[v] = batchAt
      BY <1>1, <1>3
    <3> QED BY <2>1, <3>2, <3>3
  <2>2. CASE u # v
    <3>1. devices'[u] = devices[u]
      BY <1>1, <1>3, <2>2
    <3> QED BY <3>1 DEF MemoryFresh, Covers
  <2> QED BY <2>1, <2>2
<1>5. AnswerFresh'
  BY <1>1, <1>2, <1>3 DEF AnswerFresh, Types, BatchTypes
<1>6. Tokens' /\ OneAwaited' /\ SnapshotsFresh'
  BY <1>1, <1>2 DEF Tokens, OneAwaited, SnapshotsFresh, SnapshotCovers
<1> QED BY <1>4, <1>5, <1>6

\* A batch that is over, and leaves up to date only users whose lists are fresh.
LEMMA BatchOverKeeps ==
  ASSUME IInv, Types', NEW success \in BOOLEAN, Finish(success),
         success => phase = "processing" /\ toProcess = {},
         phase' # "processing" /\ toProcess' = {},
         UNCHANGED <<sync, since, next, storeWrite, storeDisk, changeLog>>
  PROVE  IInv'
<1> USE DEF IInv
<1>1. /\ trackingStatus' = SetStatus(trackingStatus,
                              {u \in Owned : trackingStatus[u] = "in_progress"},
                              IF success THEN "up_to_date" ELSE "pending")
      /\ dirty' = TRUE /\ saveTimer' = SaveIfDirty(TRUE, saveTimer, "long")
      /\ UNCHANGED <<devices, writes, disk>>
  BY DEF Finish, diskVars
<1>2. LastSnapshot' = LastSnapshot /\ SomeAwaited' = SomeAwaited /\ Horizon' = Horizon
  BY <1>1, SnapshotKept DEF diskVars, Horizon
<1>3. MemoryFresh'
  <2> SUFFICES ASSUME NEW u \in Users, trackingStatus'[u] = "up_to_date"
               PROVE  FreshIn(changeLog, u, devices[u], Horizon)
    BY <1>1, <1>2 DEF MemoryFresh, Covers
  <2>1. \/ trackingStatus[u] = "up_to_date"
        \/ success /\ u \in Owned /\ trackingStatus[u] = "in_progress"
    BY <1>1 DEF SetStatus
  <2>2. CASE trackingStatus[u] = "up_to_date"
    BY <2>2 DEF MemoryFresh, Covers
  <2>3. CASE success /\ u \in Owned /\ trackingStatus[u] = "in_progress"
    BY <2>3 DEF Owned, AnswerFresh, Trusting
  <2> QED BY <2>1, <2>2, <2>3
<1>4. saveTimer' = "short" => saveTimer = "short"
  BY <1>1 DEF SaveIfDirty
<1>5. Tokens' /\ OneAwaited' /\ AnswerFresh'
  BY <1>1, <1>2, <1>4 DEF Tokens, OneAwaited, AnswerFresh
<1>6. SnapshotsFresh'
  BY <1>1, <1>2 DEF SnapshotsFresh, SnapshotCovers
<1> QED BY <1>3, <1>5, <1>6

LEMMA DownloadCompletedKeeps ==
  ASSUME IInv, Types', DownloadCompleted
  PROVE  IInv'
<1>1. /\ phase = "processing" /\ toProcess = {} /\ Finish(TRUE)
      /\ UNCHANGED <<sync, since, next, storeWrite, storeDisk, changeLog>>
  BY DEF DownloadCompleted, BatchCompleted, syncVars, storeVars, envVars
<1>2. phase' # "processing" /\ toProcess' = {}
  BY DEF DownloadCompleted, BatchCompleted, NoBatch, StartBatch
<1> QED BY <1>1, <1>2, BatchOverKeeps

LEMMA DownloadFailedKeeps ==
  ASSUME IInv, Types', DownloadFailed
  PROVE  IInv'
<1>1. /\ Finish(FALSE)
      /\ UNCHANGED <<sync, since, next, storeWrite, storeDisk, changeLog>>
  BY DEF DownloadFailed, BatchFailed, syncVars, storeVars
<1>2. phase' # "processing" /\ toProcess' = {}
  BY DEF DownloadFailed, BatchFailed, NoBatch
<1> QED BY <1>1, <1>2, BatchOverKeeps

\* A page that is closed between two writes finds in the stores lists that are
\* fresh for the token it goes on from.
LEMMA PageReloadKeeps ==
  ASSUME ~CutsWrites, IInv, Types', PageReload
  PROVE  IInv'
<1> USE DEF IInv
<1>1. /\ writes = <<>> /\ writes' = <<>>
      /\ trackingStatus' = Loaded(disk.trackingStatus) /\ devices' = disk.devices
      /\ phase' = "idle" /\ toProcess' = {} /\ dirty' = FALSE /\ saveTimer' = "none"
      /\ sync' = "polling" /\ since' = storeDisk /\ next' = storeDisk /\ storeWrite' = NoToken
      /\ UNCHANGED <<disk, storeDisk, changeLog>>
  BY DEF PageReload, Reload
<1>2. LastSnapshot = disk /\ LastSnapshot' = disk
  BY <1>1 DEF LastSnapshot
<1>3. Horizon' = storeDisk
  BY <1>1 DEF Horizon
<1>4. Covers(changeLog, disk.trackingStatus, disk.devices, storeDisk)
  BY <1>2 DEF SnapshotsFresh, SnapshotCovers
<1>5. disk \in Snapshot
  BY DEF Types, DiskTypes
<1>6. Tokens'
  BY <1>1 DEF Tokens, Types, LoopTypes
<1>7. ~SomeAwaited' /\ OneAwaited'
  BY <1>1 DEF OneAwaited, SomeAwaited
<1>8. MemoryFresh'
  <2> SUFFICES ASSUME NEW u \in Users, Loaded(disk.trackingStatus)[u] = "up_to_date"
               PROVE  FreshIn(changeLog, u, disk.devices[u], storeDisk)
    BY <1>1, <1>3 DEF MemoryFresh, Covers
  <2>1. disk.trackingStatus[u] = "up_to_date"
    BY DEF Loaded, SetStatus
  <2> QED BY <1>4, <2>1 DEF Covers
<1>9. AnswerFresh'
  BY <1>1 DEF AnswerFresh
<1>10. SnapshotsFresh'
  <2>1. SnapshotCovers(storeDisk)'
    BY <1>1, <1>2, <1>4 DEF SnapshotCovers
  <2>2. Covers(changeLog, disk.trackingStatus, disk.devices, NoToken)
    BY <1>5, FreshUpTo DEF Covers, Snapshot, Types, EnvTypes
  <2>3. SnapshotCovers(storeWrite)'
    BY <1>1, <1>2, <2>2 DEF SnapshotCovers
  <2>4. SnapshotCovers(Horizon)'
    BY <1>1, <1>2, <1>3, <1>4 DEF SnapshotCovers
  <2> QED BY <1>7, <2>1, <2>3, <2>4 DEF SnapshotsFresh
<1> QED BY <1>6, <1>7, <1>8, <1>9, <1>10

LEMMA InitFresh == Init => IInv
<1> SUFFICES ASSUME Init PROVE IInv
  OBVIOUS
<1>1. /\ trackingStatus = [u \in Users |-> "not_tracked"] /\ disk = EmptySnapshot
      /\ writes = <<>> /\ changeLog = <<>> /\ dirty = FALSE /\ saveTimer = "none"
      /\ phase = "idle" /\ toProcess = {} /\ sync = "polling"
      /\ since = NoToken /\ next = NoToken /\ storeWrite = NoToken /\ storeDisk = NoToken
  BY DEF Init, ListInit, ListIdle, EmptySnapshot
<1>2. LastSnapshot.trackingStatus = [u \in Users |-> "not_tracked"]
  BY <1>1 DEF LastSnapshot, EmptySnapshot
<1>3. Tokens /\ OneAwaited /\ AnswerFresh
  BY <1>1 DEF Tokens, OneAwaited, SomeAwaited, AnswerFresh
<1>4. MemoryFresh
  BY <1>1 DEF MemoryFresh, Covers
<1>5. SnapshotsFresh
  BY <1>1, <1>2 DEF SnapshotsFresh, SnapshotCovers, Covers
<1> QED BY <1>3, <1>4, <1>5, InitType DEF IInv

LEMMA StutteringKeeps ==
  ASSUME IInv, Types', UNCHANGED vars
  PROVE  IInv'
<1> USE DEF IInv
<1>1. UNCHANGED <<trackingStatus, devices, batchVars, dirty, saveTimer, diskVars, sync, since,
                  next, storeWrite, storeDisk, changeLog>>
  BY DEF vars, listVars, memVars, syncVars, storeVars, envVars
<1>2. LastSnapshot' = LastSnapshot /\ SomeAwaited' = SomeAwaited /\ Horizon' = Horizon
  BY <1>1, SnapshotKept DEF Horizon
<1>3. Tokens' /\ MemoryFresh' /\ AnswerFresh'
  BY <1>1, <1>2 DEF Tokens, MemoryFresh, AnswerFresh, batchVars
<1>4. OneAwaited' /\ SnapshotsFresh'
  BY <1>1, <1>2 DEF OneAwaited, SnapshotsFresh, SnapshotCovers, diskVars
<1> QED BY <1>3, <1>4

LEMMA NextFresh ==
  ASSUME ~SyncMayThrow, ~CutsWrites, IInv, CleanMeansSaved, Lagging => QueriesFresh, [Next]_vars
  PROVE  IInv'
<1>1. Types'
  BY NextType DEF IInv
<1>2. WantsSave \subseteq BOOLEAN
  BY DEF WantsSave
<1>3. CASE SyncReceived
  BY <1>1, <1>3, SyncReceivedKeeps
<1>4. CASE \E someLeft \in BOOLEAN, wantsSave \in WantsSave : DeviceListsChanged(someLeft, wantsSave)
  BY <1>1, <1>2, <1>4, DeviceListsChangedKeeps
<1>5. CASE \E us \in SUBSET Users, wantsSave \in WantsSave : DeviceListsLeft(us, wantsSave)
  BY <1>1, <1>2, <1>5, DeviceListsLeftKeeps
<1>6. CASE \E wantsSave \in WantsSave : SyncThrows(wantsSave)
  BY <1>6 DEF SyncThrows
<1>7. CASE DeviceListSaved \/ SyncStoreSaved \/ SaveTimer
  BY <1>1, <1>7, DeviceListSavedKeeps, SyncStoreSavedKeeps, SaveTimerKeeps
<1>8. CASE \/ \E us \in SUBSET Users : OnCryptoEvent(us)
           \/ \E u \in Callers : StartTracking(u)
           \/ \E us \in SUBSET Callers, force \in BOOLEAN : KeysWanted(us, force)
  BY <1>1, <1>8, OnCryptoEventKeeps, StartTrackingKeeps, KeysWantedKeeps
<1>9. CASE \/ \E u \in Users : DevicesChange(u)
           \/ ServerAnswers
           \/ \E u \in Users : ProcessUser(u)
  BY <1>1, <1>9, DevicesChangeKeeps, ServerAnswersKeeps, ProcessUserKeeps
<1>10. CASE DownloadCompleted \/ DownloadFailed \/ PageReload
  BY <1>1, <1>10, DownloadCompletedKeeps, DownloadFailedKeeps, PageReloadKeeps
<1>11. CASE UNCHANGED vars
  BY <1>1, <1>11, StutteringKeeps
<1> QED
  BY <1>3, <1>4, <1>5, <1>6, <1>7, <1>8, <1>9, <1>10, <1>11 DEF Next

-----------------------------------------------------------------------------
(***************************************************************************)
(* The dirty flag.  Whatever changes a status beyond what a reload would   *)
(* undo raises it, or found it up.  With the types this is inductive, in   *)
(* every environment.                                                      *)
(***************************************************************************)

\* A step that writes nothing and keeps the statuses, but for downloads, or the
\* flag up.
LEMMA StaysSaved ==
  ASSUME CleanMeansSaved, LastSnapshot' = LastSnapshot,
         ~dirty' => ~dirty /\ Loaded(trackingStatus') = Loaded(trackingStatus)
  PROVE  CleanMeansSaved'
BY DEF CleanMeansSaved

LEMMA SyncCompletedSaved ==
  ASSUME Types, CleanMeansSaved, NEW st \in [Users -> Statuses], NEW isDirty, NEW wantsSave,
         ~isDirty => ~dirty /\ st = trackingStatus, SyncCompleted(st, isDirty, wantsSave)
  PROVE  CleanMeansSaved'
<1> DEFINE tracking == StartTrackingDeviceList(st, {Self})
<1>1. /\ dirty' = (isDirty \/ tracking # st) /\ UNCHANGED diskVars
      /\ DoKeyDownload(tracking, Outdated(tracking), next)
  BY DEF SyncCompleted
<1>2. tracking \in [Users -> Statuses] /\ Outdated(tracking) \in SUBSET Users
  BY MarkingTypes DEF Outdated
<1>3. Loaded(trackingStatus') = Loaded(tracking)
  BY <1>1, <1>2, DownloadEffect DEF Types, LoopTypes
<1>4. ~dirty' => ~dirty /\ tracking = trackingStatus
  BY <1>1
<1> QED BY <1>1, <1>3, <1>4, SnapshotKept, StaysSaved

LEMMA NextSaved ==
  ASSUME Types, CleanMeansSaved, [Next]_vars
  PROVE  CleanMeansSaved'
<1>1. trackingStatus \in [Users -> Statuses] /\ syncToken \in Positions /\ BatchTypes
  BY DEF Types, MemoryTypes
<1>2. ASSUME UNCHANGED <<trackingStatus, dirty, diskVars>>
      PROVE  CleanMeansSaved'
  BY <1>2, SnapshotKept, StaysSaved
<1>3. CASE SyncReceived
  <2>1. UNCHANGED diskVars /\ (dirty' \/ UNCHANGED <<trackingStatus, dirty>>)
    BY <1>3 DEF SyncReceived, OnSyncWillProcess
  <2> QED BY <2>1, SnapshotKept, StaysSaved
<1>4. ASSUME NEW someLeft \in BOOLEAN, NEW wantsSave \in WantsSave, DeviceListsChanged(someLeft, wantsSave)
      PROVE  CleanMeansSaved'
  <2> DEFINE st == InvalidateUserDeviceList(trackingStatus, OutdatedBy)
             isDirty == MarkedDirty(OutdatedBy)
  <2>1. st \in [Users -> Statuses] /\ (~isDirty => ~dirty /\ st = trackingStatus)
    BY <1>1, MarkingTypes, CleanWhenUnmarked
  <2>2. CASE someLeft
    <3>1. trackingStatus' = st /\ dirty' = isDirty /\ UNCHANGED diskVars
      BY <1>4, <2>2 DEF DeviceListsChanged
    <3> QED BY <2>1, <3>1, SnapshotKept, StaysSaved
  <2>3. CASE ~someLeft
    BY <1>4, <2>1, <2>3, SyncCompletedSaved DEF DeviceListsChanged
  <2> QED BY <2>2, <2>3
<1>5. ASSUME NEW us \in SUBSET Users, NEW wantsSave \in WantsSave, DeviceListsLeft(us, wantsSave)
      PROVE  CleanMeansSaved'
  <2> DEFINE st == StopTrackingDeviceList(trackingStatus, us)
  <2>1. st \in [Users -> Statuses] /\ (~MarkedDirty(us) => ~dirty /\ st = trackingStatus)
    BY <1>1, MarkingTypes, CleanWhenUnmarked
  <2> QED BY <1>5, <2>1, SyncCompletedSaved DEF DeviceListsLeft
<1>6. ASSUME NEW wantsSave \in WantsSave, SyncThrows(wantsSave)
      PROVE  CleanMeansSaved'
  BY <1>1, <1>6, SyncCompletedSaved DEF SyncThrows
<1>7. CASE DeviceListSaved
  <2>1. /\ writes # <<>> /\ disk' = Head(writes).data /\ writes' = Tail(writes)
        /\ UNCHANGED <<trackingStatus, dirty>>
    BY <1>7 DEF DeviceListSaved, WriteDone, memVars
  <2> QED BY <2>1, WriteKeepsLast, StaysSaved
<1>8. ASSUME NEW us \in SUBSET Users, OnCryptoEvent(us)
      PROVE  CleanMeansSaved'
  <2> DEFINE st == StartTrackingDeviceList(trackingStatus, us)
  <2>1. /\ dirty' = (dirty \/ st # trackingStatus) /\ UNCHANGED diskVars
        /\ DoKeyDownload(st, Outdated(st), syncToken)
    BY <1>8 DEF OnCryptoEvent
  <2>2. st \in [Users -> Statuses] /\ Outdated(st) \in SUBSET Users
    BY <1>1, MarkingTypes DEF Outdated
  <2>3. Loaded(trackingStatus') = Loaded(st)
    BY <1>1, <2>1, <2>2, DownloadEffect
  <2> QED BY <2>1, <2>3, SnapshotKept, StaysSaved
<1>9. ASSUME NEW us \in SUBSET Callers, NEW force \in BOOLEAN, KeysWanted(us, force)
      PROVE  CleanMeansSaved'
  <2> DEFINE wanted == {u \in us : /\ inProgress[u] = "none"
                                   /\ force \/ trackingStatus[u] # "up_to_date"}
  <2>1. /\ DoKeyDownload(trackingStatus, wanted, syncToken) /\ wanted \in SUBSET Users
        /\ UNCHANGED <<dirty, diskVars>>
    BY <1>9, DeviceSyncAssumption DEF KeysWanted, DownloadKeys
  <2>2. Loaded(trackingStatus') = Loaded(trackingStatus)
    BY <1>1, <2>1, DownloadEffect
  <2> QED BY <2>1, <2>2, SnapshotKept, StaysSaved
<1>10. ASSUME dirty', UNCHANGED diskVars
       PROVE  CleanMeansSaved'
  BY <1>10 DEF CleanMeansSaved
<1>11. CASE \/ \E u \in Callers : StartTracking(u)
            \/ DownloadCompleted \/ DownloadFailed
  BY <1>10, <1>11 DEF StartTracking, DownloadCompleted, BatchCompleted, DownloadFailed, BatchFailed, Finish
<1>12. CASE SaveTimer
  <2> DEFINE data == [trackingStatus |-> trackingStatus, devices |-> devices, syncToken |-> syncToken]
             new == [data |-> data, awaited |-> SaveAwaited]
  <2>1. writes' = Append(writes, new) /\ trackingStatus' = trackingStatus
    BY <1>12 DEF SaveTimer, SaveTimerFires, memVars
  <2>2. /\ writes' # <<>> /\ writes'[Len(writes')] = new
    BY <2>1 DEF Types, DiskTypes
  <2>3. LastSnapshot' = data
    BY <2>2 DEF LastSnapshot
  <2> QED BY <2>1, <2>3 DEF CleanMeansSaved
<1>13. CASE PageReload
  <2>1. writes' = <<>> /\ disk' = disk /\ trackingStatus' = Loaded(disk.trackingStatus)
    BY <1>13 DEF PageReload, Reload
  <2> QED BY <2>1 DEF CleanMeansSaved, LastSnapshot, Loaded, SetStatus
<1>14. CASE \/ SyncStoreSaved \/ ServerAnswers
            \/ \E u \in Users : DevicesChange(u) \/ ProcessUser(u)
            \/ UNCHANGED vars
  BY <1>2, <1>14 DEF SyncStoreSaved, ServerAnswers, QueryAnswered, DevicesChange, ProcessUser,
     ProcessQueryResponse, vars, listVars, memVars
<1> QED
  BY <1>3, <1>4, <1>5, <1>6, <1>7, <1>8, <1>9, <1>11, <1>12, <1>13, <1>14 DEF Next

\* A lowered dirty flag means that the newest save holds every tracking status,
\* but for downloads that have started since (saveIfDirty clears the flag before
\* it writes), even if writes are cut off or a response is not processed to its
\* end.
THEOREM DeviceSyncSaved == Spec => []CleanMeansSaved
<1>1. Init => Types /\ CleanMeansSaved
  BY InitType DEF Init, ListInit, ListIdle, EmptySnapshot, CleanMeansSaved, LastSnapshot
<1>2. Types /\ CleanMeansSaved /\ [Next]_vars => (Types /\ CleanMeansSaved)'
  BY NextType, NextSaved
<1> QED BY <1>1, <1>2, PTL DEF Spec

-----------------------------------------------------------------------------
(* The theorems. *)

\* Under the three assumptions IInv holds for ever, and with a lagging server
\* what is being queried is fresh as well.
LEMMA AlwaysFresh ==
  ASSUME OnlySyncsAskIfLagging, ~SyncMayThrow, ~CutsWrites
  PROVE  Spec => [](IInv /\ (Lagging => QueriesFresh))
<1>1. Init => IInv /\ (Lagging => QueriesFresh)
  BY InitFresh DEF Init, ListInit, ListIdle, QueriesFresh
<1>2. IInv /\ CleanMeansSaved /\ (Lagging => QueriesFresh) /\ [Next]_vars => (IInv /\ (Lagging => QueriesFresh))'
  <2> SUFFICES ASSUME IInv, CleanMeansSaved, Lagging => QueriesFresh, [Next]_vars
               PROVE  IInv' /\ (Lagging => QueriesFresh')
    OBVIOUS
  <2>1. IInv'
    BY NextFresh
  <2>2. ASSUME Lagging PROVE QueriesFresh'
    BY <2>1, <2>2, NextQueries DEF IInv
  <2> QED BY <2>1, <2>2
<1> QED BY <1>1, <1>2, DeviceSyncSaved, PTL DEF Spec

\* No list that is marked up to date misses a change the client has been told
\* about, however downloads, invalidations, queued requests, failures and
\* restarts interleave (_doKeyDownload, invalidateUserDeviceList, load).
THEOREM DeviceSyncUpToDate ==
  ASSUME OnlySyncsAskIfLagging, ~SyncMayThrow, ~CutsWrites
  PROVE  Spec => []UpToDateIsFresh
<1>1. IInv => UpToDateIsFresh
  <2> SUFFICES ASSUME IInv, NEW u \in Users, trackingStatus[u] = "up_to_date"
               PROVE  Fresh(u, devices[u], Handled)
    BY DEF UpToDateIsFresh
  <2>1. /\ Horizon \in Positions /\ Handled \in Positions /\ Handled <= Horizon
        /\ devices[u] \in Positions /\ changeLog \in Seq(Users)
    BY HorizonType DEF IInv, Types, LoopTypes, MemoryTypes, EnvTypes, Tokens, Handled, Horizon
  <2>2. FreshIn(changeLog, u, devices[u], Horizon)
    BY DEF IInv, MemoryFresh, Covers
  <2> QED BY <2>1, <2>2, FreshEarlier, FreshIsFreshIn
<1> QED BY <1>1, AlwaysFresh, PTL

\* A client that starts from the stored sync token misses no change with the
\* stored device list: _sync awaits saveDeviceList before it saves the store.
THEOREM DeviceSyncStored ==
  ASSUME OnlySyncsAskIfLagging, ~SyncMayThrow, ~CutsWrites
  PROVE  Spec => []StoredListCoversStoredSync
<1>1. IInv => StoredListCoversStoredSync
  <2> SUFFICES ASSUME IInv, writes = <<>>, NEW u \in Users,
                      disk.trackingStatus[u] = "up_to_date"
               PROVE  Fresh(u, disk.devices[u], storeDisk)
    BY DEF StoredListCoversStoredSync
  <2>1. LastSnapshot = disk
    BY DEF LastSnapshot
  <2>2. FreshIn(changeLog, u, disk.devices[u], storeDisk)
    BY <2>1 DEF IInv, SnapshotsFresh, SnapshotCovers, Covers
  <2> QED BY <2>2, FreshIsFreshIn
<1> QED BY <1>1, AlwaysFresh, PTL

-----------------------------------------------------------------------------
(***************************************************************************)
(* A stored list and the token in its own record.  After a reload the      *)
(* record's token may be ahead of the sync loop's (the sync data is saved  *)
(* less often), so that what holds at Horizon says nothing of it: the      *)
(* lists in memory, the running answer and every snapshot on its way to    *)
(* the store are fresh at the token that goes with them, too.              *)
(***************************************************************************)
TokenFresh(log, snapshot) ==
  /\ snapshot.syncToken <= Len(log)
  /\ Covers(log, snapshot.trackingStatus, snapshot.devices, snapshot.syncToken)

AnswerFreshAtToken ==
  phase = "processing" =>
    \A u \in running : Trusting(trackingStatus[u], inProgress[u]) =>
                         FreshIn(changeLog, u, batchAt, syncToken)

StoredFresh ==
  /\ TokenFresh(changeLog, disk)
  /\ \A i \in 1..Len(writes) : TokenFresh(changeLog, writes[i].data)

TInv ==
  /\ syncToken <= Len(changeLog)
  /\ Covers(changeLog, trackingStatus, devices, syncToken)
  /\ AnswerFreshAtToken
  /\ StoredFresh

\* A step that trusts no list and no answer it was not trusted before.
LEMMA TrustsNoMore ==
  ASSUME TInv, UNCHANGED <<syncToken, changeLog, devices, writes, disk>>,
         \A u \in Users : trackingStatus'[u] = "up_to_date" => trackingStatus[u] = "up_to_date",
         phase' = "processing" =>
           /\ phase = "processing" /\ UNCHANGED <<batchAt, running>>
           /\ \A u \in running : Trusting(trackingStatus'[u], inProgress'[u]) =>
                                   Trusting(trackingStatus[u], inProgress[u])
  PROVE  TInv'
<1>1. (syncToken <= Len(changeLog))' /\ Covers(changeLog, trackingStatus, devices, syncToken)'
  BY DEF TInv, Covers
<1>2. AnswerFreshAtToken'
  BY DEF TInv, AnswerFreshAtToken
<1>3. StoredFresh'
  BY DEF TInv, StoredFresh
<1> QED BY <1>1, <1>2, <1>3 DEF TInv

LEMMA MarkingTrusts ==
  ASSUME NEW st \in [Users -> Statuses], NEW us, NEW u \in Users, NEW s \in {"up_to_date", "in_progress"}
  PROVE  /\ StartTrackingDeviceList(st, us)[u] = s => st[u] = s
         /\ StopTrackingDeviceList(st, us)[u] = s => st[u] = s
         /\ InvalidateUserDeviceList(st, us)[u] = s => st[u] = s
BY DEF SetStatus, StartTrackingDeviceList, StopTrackingDeviceList, InvalidateUserDeviceList

LEMMA SyncCompletedAtToken ==
  ASSUME TInv, IInv', NEW st, NEW isDirty, NEW wantsSave, SyncCompleted(st, isDirty, wantsSave)
  PROVE  TInv'
<1>1. /\ syncToken' = next' /\ sync' \in {"polling", "saving"}
      /\ UNCHANGED <<changeLog, writes, disk>>
  BY DEF SyncCompleted, NextSync, diskVars, envVars
<1>2. Horizon' = syncToken'
  BY <1>1 DEF Horizon
<1>3. (syncToken <= Len(changeLog))'
  BY <1>1 DEF IInv, Tokens
<1>4. Covers(changeLog, trackingStatus, devices, syncToken)'
  BY <1>2 DEF IInv, MemoryFresh
<1>5. AnswerFreshAtToken'
  BY <1>2 DEF IInv, AnswerFresh, AnswerFreshAtToken
<1>6. StoredFresh'
  BY <1>1 DEF TInv, StoredFresh
<1> QED BY <1>3, <1>4, <1>5, <1>6 DEF TInv

\* A download that the sync loop's end does not start.
LEMMA DownloadAtToken ==
  ASSUME Types, TInv, NEW st \in [Users -> Statuses], NEW us \in SUBSET Users,
         DoKeyDownload(st, us, syncToken),
         \A u \in Users : \A s \in {"up_to_date", "in_progress"} : st[u] = s => trackingStatus[u] = s,
         UNCHANGED <<syncToken, changeLog, devices, writes, disk>>
  PROVE  TInv'
<1>1. /\ \A u \in Users : trackingStatus'[u] = "up_to_date" <=> st[u] = "up_to_date"
      /\ phase' = "processing" =>
           /\ phase = "processing" /\ UNCHANGED <<batchAt, running, toProcess>>
           /\ \A u \in Users : Trusting(trackingStatus'[u], inProgress'[u]) =>
                                Trusting(st[u], inProgress[u])
  BY DownloadEffect DEF Types, MemoryTypes
<1>2. \A u \in Users : Trusting(st[u], inProgress[u]) => Trusting(trackingStatus[u], inProgress[u])
  BY DEF Trusting
<1>3. running \subseteq Users
  BY DEF Types, BatchTypes
<1> QED BY <1>1, <1>2, <1>3, TrustsNoMore

LEMMA BatchOverAtToken ==
  ASSUME IInv, TInv, NEW success \in BOOLEAN, Finish(success),
         success => phase = "processing" /\ toProcess = {},
         phase' # "processing", changeLog' = changeLog
  PROVE  TInv'
<1>1. /\ trackingStatus' = SetStatus(trackingStatus,
                              {u \in Owned : trackingStatus[u] = "in_progress"},
                              IF success THEN "up_to_date" ELSE "pending")
      /\ UNCHANGED <<devices, writes, disk, syncToken>>
  BY DEF Finish, diskVars
<1>2. Covers(changeLog, trackingStatus, devices, syncToken)'
  <2> SUFFICES ASSUME NEW u \in Users, trackingStatus'[u] = "up_to_date"
               PROVE  FreshIn(changeLog, u, devices[u], syncToken)
    BY <1>1 DEF Covers
  <2>1. \/ trackingStatus[u] = "up_to_date"
        \/ success /\ u \in Owned /\ trackingStatus[u] = "in_progress"
    BY <1>1 DEF SetStatus
  <2>2. CASE trackingStatus[u] = "up_to_date"
    BY <2>2 DEF TInv, Covers
  <2>3. CASE success /\ u \in Owned /\ trackingStatus[u] = "in_progress"
    <3>1. FreshIn(changeLog, u, batchAt, syncToken)
      BY <2>3 DEF Owned, TInv, AnswerFreshAtToken, Trusting
    <3>2. devices[u] = batchAt
      BY <2>3 DEF Owned, IInv, AnswerFresh
    <3> QED BY <3>1, <3>2
  <2> QED BY <2>1, <2>2, <2>3
<1> QED BY <1>1, <1>2 DEF TInv, AnswerFreshAtToken, StoredFresh

LEMMA ProcessUserAtToken ==
  ASSUME IInv, TInv, NEW v \in Users, ProcessUser(v)
  PROVE  TInv'
<1>1. /\ v \in toProcess /\ devices' = [devices EXCEPT ![v] = batchAt]
      /\ UNCHANGED <<trackingStatus, syncToken, phase, batchAt, running, inProgress, writes, disk, changeLog>>
  BY DEF ProcessUser, ProcessQueryResponse, diskVars, envVars
<1>2. phase = "processing" /\ v \in running /\ devices \in [Users -> Positions]
  BY <1>1 DEF IInv, AnswerFresh, Types, BatchTypes, MemoryTypes
<1>3. Covers(changeLog, trackingStatus, devices, syncToken)'
  <2> SUFFICES ASSUME NEW u \in Users, trackingStatus[u] = "up_to_date"
               PROVE  FreshIn(changeLog, u, devices'[u], syncToken)
    BY <1>1 DEF Covers
  <2>1. CASE u = v
    BY <1>1, <1>2, <2>1 DEF TInv, AnswerFreshAtToken, Trusting
  <2>2. CASE u # v
    BY <1>1, <1>2, <2>2 DEF TInv, Covers
  <2> QED BY <2>1, <2>2
<1> QED BY <1>1, <1>3 DEF TInv, AnswerFreshAtToken, StoredFresh

LEMMA ServerAnswersAtToken ==
  ASSUME IInv, TInv, Lagging => QueriesFresh, ServerAnswers
  PROVE  TInv'
<1>1. PICK p \in AnswerPositions : QueryAnswered(p)
  BY DEF ServerAnswers
<1>2. /\ phase = "requested" /\ batchAt' = p /\ running' = running
      /\ UNCHANGED <<trackingStatus, syncToken, devices, inProgress, writes, disk, changeLog>>
  BY <1>1 DEF ServerAnswers, QueryAnswered, memVars, diskVars, envVars
<1>3. /\ Types /\ changeLog \in Seq(Users) /\ syncToken \in Positions /\ batchAt \in Positions
      /\ Horizon \in Positions /\ syncToken <= Len(changeLog)
  BY HorizonType DEF IInv, TInv, Types, MemoryTypes, BatchTypes, EnvTypes
<1>4. ASSUME NEW u \in running, Trusting(trackingStatus[u], inProgress[u])
      PROVE  FreshIn(changeLog, u, p, syncToken)
  <2>1. ASSUME Lagging PROVE FreshIn(changeLog, u, batchAt, syncToken)
    BY <1>2, <1>3, <1>4, <2>1, FreshEarlier DEF QueriesFresh
  <2> QED BY <1>3, <2>1, AnswerIsFresh
<1> QED BY <1>2, <1>4 DEF TInv, AnswerFreshAtToken, StoredFresh

LEMMA TokenFreshAppend ==
  ASSUME NEW log \in Seq(Users), NEW x \in Users, NEW snapshot \in Snapshot, TokenFresh(log, snapshot)
  PROVE  TokenFresh(Append(log, x), snapshot)
<1>1. /\ snapshot.devices \in [Users -> Positions] /\ snapshot.syncToken \in Positions
      /\ Len(log) \in Nat /\ Len(Append(log, x)) = Len(log) + 1
  BY DEF Snapshot
<1> QED BY <1>1, CoversAppend DEF TokenFresh

LEMMA WritesTypes ==
  ASSUME Types
  PROVE  disk \in Snapshot /\ \A i \in 1..Len(writes) : writes[i].data \in Snapshot
<1>1. \A i \in 1..Len(writes) : writes[i] \in [data : Snapshot, awaited : BOOLEAN]
  BY ElementOfSeq DEF Types, DiskTypes
<1> QED BY <1>1 DEF Types, DiskTypes

LEMMA DevicesChangeAtToken ==
  ASSUME Types, TInv, NEW v \in Users, DevicesChange(v)
  PROVE  TInv'
<1>1. /\ changeLog' = Append(changeLog, v)
      /\ UNCHANGED <<trackingStatus, syncToken, devices, phase, batchAt, running, inProgress, writes, disk>>
  BY DEF DevicesChange, listVars, memVars, batchVars, diskVars
<1>2. /\ changeLog \in Seq(Users) /\ Len(changeLog) \in Nat /\ Len(changeLog') = Len(changeLog) + 1
      /\ syncToken \in Positions /\ devices \in [Users -> Positions] /\ batchAt \in Positions
  BY <1>1 DEF Types, EnvTypes, MemoryTypes, BatchTypes
<1>3. (syncToken <= Len(changeLog))'
  BY <1>1, <1>2 DEF TInv
<1>4. Covers(changeLog, trackingStatus, devices, syncToken)'
  BY <1>1, <1>2, CoversAppend DEF TInv
<1>5. AnswerFreshAtToken'
  BY <1>1, <1>2, FreshAppend DEF TInv, AnswerFreshAtToken
<1>6. StoredFresh'
  BY <1>1, <1>2, WritesTypes, TokenFreshAppend DEF TInv, StoredFresh
<1> QED BY <1>3, <1>4, <1>5, <1>6 DEF TInv

LEMMA SaveTimerAtToken ==
  ASSUME Types, TInv, SaveTimer
  PROVE  TInv'
<1> DEFINE data == [trackingStatus |-> trackingStatus, devices |-> devices, syncToken |-> syncToken]
           new == [data |-> data, awaited |-> SaveAwaited]
<1>1. /\ writes' = Append(writes, new)
      /\ UNCHANGED <<trackingStatus, syncToken, devices, phase, batchAt, running, inProgress, disk, changeLog>>
  BY DEF SaveTimer, SaveTimerFires, memVars, batchVars, envVars
<1>2. TokenFresh(changeLog, data)
  BY DEF TInv, TokenFresh
<1>3. \A i \in 1..Len(writes') : \/ writes'[i] = new
                                 \/ i \in 1..Len(writes) /\ writes'[i] = writes[i]
  <2>1. writes \in Seq([data : Snapshot, awaited : BOOLEAN])
    BY DEF Types, DiskTypes
  <2>2. /\ Len(writes') = Len(writes) + 1 /\ Len(writes) \in Nat
        /\ writes'[Len(writes) + 1] = new
        /\ \A i \in 1..Len(writes) : writes'[i] = writes[i]
    BY <1>1, <2>1
  <2> QED BY <2>2
<1>4. StoredFresh'
  <2>1. new.data = data
    OBVIOUS
  <2> HIDE DEF new, data
  <2> QED BY <1>1, <1>2, <1>3, <2>1 DEF TInv, StoredFresh
<1> QED BY <1>1, <1>4 DEF TInv, AnswerFreshAtToken

LEMMA DeviceListSavedAtToken ==
  ASSUME Types, TInv, DeviceListSaved
  PROVE  TInv'
<1>1. /\ writes # <<>> /\ disk' = Head(writes).data /\ writes' = Tail(writes)
      /\ UNCHANGED <<trackingStatus, syncToken, devices, phase, batchAt, running, inProgress, changeLog>>
  BY DEF DeviceListSaved, WriteDone, memVars, batchVars, envVars
<1>2. \A i \in 1..Len(writes') : i + 1 \in 1..Len(writes) /\ writes'[i] = writes[i + 1]
  BY <1>1, WriteKeepsLast
<1>3. 1 \in 1..Len(writes) /\ Head(writes) = writes[1]
  BY <1>1 DEF Types, DiskTypes
<1>4. StoredFresh'
  BY <1>1, <1>2, <1>3 DEF TInv, StoredFresh
<1> QED BY <1>1, <1>4 DEF TInv, AnswerFreshAtToken

LEMMA PageReloadAtToken ==
  ASSUME Types, TInv, PageReload
  PROVE  TInv'
<1>1. /\ trackingStatus' = Loaded(disk.trackingStatus) /\ devices' = disk.devices
      /\ syncToken' = disk.syncToken /\ phase' = "idle" /\ writes' = <<>>
      /\ UNCHANGED <<disk, changeLog>>
  BY DEF PageReload, Reload
<1>2. TokenFresh(changeLog, disk)
  BY DEF TInv, StoredFresh
<1>3. \A u \in Users : Loaded(disk.trackingStatus)[u] = "up_to_date" => disk.trackingStatus[u] = "up_to_date"
  BY DEF Loaded, SetStatus
<1>4. (syncToken <= Len(changeLog))' /\ Covers(changeLog, trackingStatus, devices, syncToken)'
  BY <1>1, <1>2, <1>3 DEF TokenFresh, Covers
<1> QED BY <1>1, <1>2, <1>4 DEF TInv, AnswerFreshAtToken, StoredFresh

LEMMA NextAtToken ==
  ASSUME IInv, IInv', Lagging => QueriesFresh, TInv, [Next]_vars
  PROVE  TInv'
<1>0. /\ Types /\ trackingStatus \in [Users -> Statuses] /\ running \subseteq Users
      /\ \A u \in Users : \A s \in {"up_to_date", "in_progress"} : trackingStatus[u] = s => trackingStatus[u] = s
  BY DEF IInv, Types, MemoryTypes, BatchTypes
<1>1. CASE SyncReceived
  <2>1. \A u \in Users : \A s \in {"up_to_date", "in_progress"} : trackingStatus'[u] = s => trackingStatus[u] = s
    BY <1>0, <1>1, MarkingTrusts DEF SyncReceived, OnSyncWillProcess
  <2>2. UNCHANGED <<syncToken, changeLog, devices, writes, disk, phase, batchAt, running, inProgress>>
    BY <1>1 DEF SyncReceived, batchVars, diskVars, envVars
  <2> QED BY <1>0, <2>1, <2>2, TrustsNoMore DEF Trusting
<1>2. ASSUME NEW someLeft \in BOOLEAN, NEW wantsSave \in WantsSave, DeviceListsChanged(someLeft, wantsSave)
      PROVE  TInv'
  <2> DEFINE st == InvalidateUserDeviceList(trackingStatus, OutdatedBy)
  <2>1. CASE someLeft
    <3>1. trackingStatus' = st
          /\ UNCHANGED <<syncToken, changeLog, devices, writes, disk, phase, batchAt, running, inProgress>>
      BY <1>2, <2>1 DEF DeviceListsChanged, batchVars, diskVars, envVars
    <3>2. \A u \in Users : \A s \in {"up_to_date", "in_progress"} : trackingStatus'[u] = s => trackingStatus[u] = s
      BY <1>0, <3>1, MarkingTrusts
    <3> QED BY <1>0, <3>1, <3>2, TrustsNoMore DEF Trusting
  <2>2. CASE ~someLeft
    BY <1>2, <2>2, SyncCompletedAtToken DEF DeviceListsChanged
  <2> QED BY <2>1, <2>2
<1>3. ASSUME NEW us \in SUBSET Users, NEW wantsSave \in WantsSave, DeviceListsLeft(us, wantsSave)
      PROVE  TInv'
  BY <1>3, SyncCompletedAtToken DEF DeviceListsLeft
<1>4. ASSUME NEW wantsSave \in WantsSave, SyncThrows(wantsSave)
      PROVE  TInv'
  BY <1>4, SyncCompletedAtToken DEF SyncThrows
<1>5. CASE DeviceListSaved \/ SaveTimer \/ PageReload
  BY <1>0, <1>5, DeviceListSavedAtToken, SaveTimerAtToken, PageReloadAtToken
<1>6. CASE SyncStoreSaved
  BY <1>6, TrustsNoMore DEF SyncStoreSaved, listVars, memVars, batchVars, diskVars, envVars
<1>7. ASSUME NEW us \in SUBSET Users, OnCryptoEvent(us)
      PROVE  TInv'
  <2> DEFINE st == StartTrackingDeviceList(trackingStatus, us)
  <2>1. DoKeyDownload(st, Outdated(st), syncToken) /\ Outdated(st) \in SUBSET Users
        /\ UNCHANGED <<syncToken, changeLog, devices, writes, disk>>
    BY <1>7 DEF OnCryptoEvent, Outdated, diskVars, envVars
  <2>2. st \in [Users -> Statuses]
        /\ \A u \in Users : \A s \in {"up_to_date", "in_progress"} : st[u] = s => trackingStatus[u] = s
    BY <1>0, MarkingTypes, MarkingTrusts
  <2> QED BY <1>0, <2>1, <2>2, DownloadAtToken
<1>8. ASSUME NEW v \in Callers, StartTracking(v)
      PROVE  TInv'
  <2>1. \A u \in Users : \A s \in {"up_to_date", "in_progress"} : trackingStatus'[u] = s => trackingStatus[u] = s
    BY <1>0, <1>8, MarkingTrusts DEF StartTracking
  <2>2. UNCHANGED <<syncToken, changeLog, devices, writes, disk, phase, batchAt, running, inProgress>>
    BY <1>8 DEF StartTracking, batchVars, diskVars, envVars
  <2> QED BY <1>0, <2>1, <2>2, TrustsNoMore DEF Trusting
<1>9. ASSUME NEW us \in SUBSET Callers, NEW force \in BOOLEAN, KeysWanted(us, force)
      PROVE  TInv'
  <2> DEFINE wanted == {u \in us : /\ inProgress[u] = "none"
                                   /\ force \/ trackingStatus[u] # "up_to_date"}
  <2>1. DoKeyDownload(trackingStatus, wanted, syncToken) /\ wanted \in SUBSET Users
        /\ UNCHANGED <<syncToken, changeLog, devices, writes, disk>>
    BY <1>9, DeviceSyncAssumption DEF KeysWanted, DownloadKeys, diskVars, envVars
  <2> QED BY <1>0, <2>1, DownloadAtToken
<1>10. CASE \E u \in Users : DevicesChange(u)
  BY <1>0, <1>10, DevicesChangeAtToken
<1>11. CASE ServerAnswers \/ \E u \in Users : ProcessUser(u)
  BY <1>0, <1>11, ServerAnswersAtToken, ProcessUserAtToken
<1>12. CASE DownloadCompleted
  <2>1. Finish(TRUE) /\ phase = "processing" /\ toProcess = {} /\ phase' # "processing"
        /\ changeLog' = changeLog
    BY <1>12 DEF DownloadCompleted, BatchCompleted, NoBatch, StartBatch, envVars
  <2> QED BY <2>1, BatchOverAtToken
<1>13. CASE DownloadFailed
  <2>1. Finish(FALSE) /\ phase' # "processing" /\ changeLog' = changeLog
    BY <1>13 DEF DownloadFailed, BatchFailed, NoBatch
  <2> QED BY <2>1, BatchOverAtToken
<1>14. CASE UNCHANGED vars
  BY <1>14, TrustsNoMore DEF vars, listVars, memVars, batchVars, diskVars, envVars
<1> QED
  BY <1>1, <1>2, <1>3, <1>4, <1>5, <1>6, <1>7, <1>8, <1>9, <1>10, <1>11, <1>12, <1>13, <1>14 DEF Next

\* The doc of setSyncToken: the list in the crypto store misses no change up to
\* the token stored with it, whatever was being downloaded, invalidated or saved
\* when the record was written.
THEOREM DeviceSyncTokenMatches ==
  ASSUME OnlySyncsAskIfLagging, ~SyncMayThrow, ~CutsWrites
  PROVE  Spec => []StoredListMatchesToken
<1>1. Init => TInv
  <2> SUFFICES ASSUME Init PROVE TInv
    OBVIOUS
  <2>1. /\ \A u \in Users : trackingStatus[u] = "not_tracked" /\ disk.trackingStatus[u] = "not_tracked"
        /\ syncToken = NoToken /\ disk.syncToken = NoToken /\ phase = "idle" /\ writes = <<>>
        /\ changeLog = <<>>
    BY DEF Init, ListInit, ListIdle, EmptySnapshot
  <2> QED BY <2>1 DEF TInv, AnswerFreshAtToken, StoredFresh, TokenFresh, Covers
<1>2. IInv /\ IInv' /\ (Lagging => QueriesFresh) /\ TInv /\ [Next]_vars => TInv'
  BY NextAtToken
<1>3. TInv => StoredListMatchesToken
  BY FreshIsFreshIn DEF TInv, StoredFresh, TokenFresh, Covers, StoredListMatchesToken
<1> QED BY <1>1, <1>2, <1>3, AlwaysFresh, PTL DEF Spec

-----------------------------------------------------------------------------
(***************************************************************************)
(* Who is shown as being downloaded belongs to a batch.  Together with the *)
(* types the property is inductive, whatever the constants are.            *)
(***************************************************************************)

LEMMA DownloadRegisters ==
  ASSUME BatchTypes, NEW st \in [Users -> Statuses], NEW us \in SUBSET Users,
         NEW token \in Positions, DoKeyDownload(st, us, token), InProgressIsInABatch,
         \A u \in Users : st[u] = "in_progress" => trackingStatus[u] = "in_progress"
  PROVE  InProgressIsInABatch'
<1>1. trackingStatus' = SetStatus(st, {u \in us : st[u] = "pending"}, "in_progress")
  BY DEF DoKeyDownload
<1>2. \A u \in Users : trackingStatus'[u] = "in_progress" => inProgress[u] # "none" \/ u \in us
  BY <1>1 DEF SetStatus, InProgressIsInABatch
<1>3. CASE us = {}
  BY <1>2, <1>3 DEF DoKeyDownload, batchVars, InProgressIsInABatch
<1>4. CASE us # {} /\ phase = "idle"
  <2>1. /\ phase' = "requested" /\ running' = queued \union us /\ queued' = {}
        /\ inProgress' = [u \in Users |->
              IF [v \in Users |-> IF v \in us THEN "queued" ELSE inProgress[v]][u] = "queued"
              THEN "running"
              ELSE [v \in Users |-> IF v \in us THEN "queued" ELSE inProgress[v]][u]]
    BY <1>4 DEF DoKeyDownload, StartBatch
  <2>2. \A u \in Users : inProgress'[u] = IF u \in us \/ inProgress[u] = "queued" THEN "running"
                                         ELSE inProgress[u]
    BY <2>1
  <2>3. \A u \in Users : inProgress[u] # "running"
    BY <1>4 DEF InProgressIsInABatch
  <2> QED BY <1>2, <2>1, <2>2, <2>3 DEF InProgressIsInABatch, BatchTypes
<1>5. CASE us # {} /\ phase # "idle"
  <2>1. /\ queued' = queued \union us /\ UNCHANGED <<phase, running>>
        /\ inProgress' = [u \in Users |-> IF u \in us THEN "queued" ELSE inProgress[u]]
    BY <1>5 DEF DoKeyDownload
  <2> QED BY <1>2, <2>1 DEF InProgressIsInABatch
<1> QED BY <1>3, <1>4, <1>5

\* Statuses may leave "in_progress" and batches stay as they are.
LEMMA BatchesKept ==
  ASSUME InProgressIsInABatch, UNCHANGED <<inProgress, running, queued>>,
         phase' = "idle" => phase = "idle",
         \A u \in Users : trackingStatus'[u] = "in_progress" => trackingStatus[u] = "in_progress"
  PROVE  InProgressIsInABatch'
BY DEF InProgressIsInABatch

LEMMA MarkingEndsDownloads ==
  ASSUME NEW st \in [Users -> Statuses], NEW us, NEW u \in Users
  PROVE  /\ StartTrackingDeviceList(st, us)[u] = "in_progress" => st[u] = "in_progress"
         /\ StopTrackingDeviceList(st, us)[u] = "in_progress" => st[u] = "in_progress"
         /\ InvalidateUserDeviceList(st, us)[u] = "in_progress" => st[u] = "in_progress"
BY DEF SetStatus, StartTrackingDeviceList, StopTrackingDeviceList, InvalidateUserDeviceList

LEMMA SyncCompletedInABatch ==
  ASSUME Types, InProgressIsInABatch, NEW st \in [Users -> Statuses], NEW isDirty,
         NEW wantsSave, SyncCompleted(st, isDirty, wantsSave),
         \A u \in Users : st[u] = "in_progress" => trackingStatus[u] = "in_progress"
  PROVE  InProgressIsInABatch'
<1> DEFINE tracking == StartTrackingDeviceList(st, {Self})
<1>1. DoKeyDownload(tracking, Outdated(tracking), next)
  BY DEF SyncCompleted
<1>2. tracking \in [Users -> Statuses] /\ Outdated(tracking) \in SUBSET Users
  BY MarkingTypes DEF Outdated
<1>3. \A u \in Users : tracking[u] = "in_progress" => trackingStatus[u] = "in_progress"
  BY MarkingEndsDownloads
<1> QED BY <1>1, <1>2, <1>3, DownloadRegisters DEF Types, LoopTypes

LEMMA BatchOverInABatch ==
  ASSUME Types, InProgressIsInABatch, NEW success \in BOOLEAN, Finish(success)
  PROVE  /\ NoBatch => InProgressIsInABatch'
         /\ StartBatch(queued, Released, queryToken) => InProgressIsInABatch'
<1>1. \A u \in Users : trackingStatus'[u] = "in_progress" =>
                         trackingStatus[u] = "in_progress" /\ u \notin Owned
  BY DEF Finish, SetStatus
<1>2. \A u \in Users : u \in Owned <=> inProgress[u] = "running"
  BY DEF Owned, InProgressIsInABatch
<1>3. \A u \in Users : Released[u] = IF inProgress[u] = "running" THEN "none" ELSE inProgress[u]
  BY <1>2 DEF Released
<1>4. \A u \in Users : trackingStatus'[u] = "in_progress" => inProgress[u] = "queued" /\ u \in queued
  BY <1>1, <1>2 DEF InProgressIsInABatch, Types, BatchTypes
<1>5. ASSUME NoBatch
      PROVE  InProgressIsInABatch'
  <2>1. inProgress' = Released /\ queued' = queued
    BY <1>5 DEF NoBatch
  <2> QED BY <1>3, <1>4, <2>1 DEF InProgressIsInABatch
<1>6. ASSUME StartBatch(queued, Released, queryToken)
      PROVE  InProgressIsInABatch'
  <2>1. /\ phase' = "requested" /\ running' = queued /\ queued' = {}
        /\ \A u \in Users : inProgress'[u] = IF Released[u] = "queued" THEN "running" ELSE Released[u]
    BY <1>6 DEF StartBatch
  <2>2. \A u \in Users : inProgress'[u] = IF inProgress[u] = "queued" THEN "running" ELSE "none"
    BY <1>3, <2>1 DEF Types, BatchTypes
  <2> QED BY <1>4, <2>1, <2>2 DEF InProgressIsInABatch
<1> QED BY <1>5, <1>6

LEMMA NextInABatch ==
  ASSUME Types, InProgressIsInABatch, [Next]_vars
  PROVE  InProgressIsInABatch'
<1> USE DEF Types
<1>1. CASE SyncReceived
  <2>1. \A u \in Users : trackingStatus'[u] = "in_progress" => trackingStatus[u] = "in_progress"
    BY <1>1, MarkingEndsDownloads DEF SyncReceived, OnSyncWillProcess, MemoryTypes
  <2> QED BY <1>1, <2>1, BatchesKept DEF SyncReceived, batchVars
<1>2. ASSUME NEW someLeft \in BOOLEAN, NEW wantsSave \in WantsSave,
             DeviceListsChanged(someLeft, wantsSave)
      PROVE  InProgressIsInABatch'
  <2> DEFINE st == InvalidateUserDeviceList(trackingStatus, OutdatedBy)
  <2>1. /\ st \in [Users -> Statuses]
        /\ \A u \in Users : st[u] = "in_progress" => trackingStatus[u] = "in_progress"
    BY MarkingTypes, MarkingEndsDownloads DEF MemoryTypes
  <2>2. CASE someLeft
    BY <1>2, <2>1, <2>2, BatchesKept DEF DeviceListsChanged, batchVars
  <2>3. CASE ~someLeft
    <3>1. SyncCompleted(st, MarkedDirty(OutdatedBy), wantsSave)
      BY <1>2, <2>3 DEF DeviceListsChanged
    <3> QED BY <2>1, <3>1, SyncCompletedInABatch
  <2> QED BY <2>2, <2>3
<1>3. ASSUME NEW us \in SUBSET Users, NEW wantsSave \in WantsSave,
             DeviceListsLeft(us, wantsSave)
      PROVE  InProgressIsInABatch'
  <2> DEFINE st == StopTrackingDeviceList(trackingStatus, us)
  <2>1. /\ st \in [Users -> Statuses]
        /\ \A u \in Users : st[u] = "in_progress" => trackingStatus[u] = "in_progress"
    BY MarkingTypes, MarkingEndsDownloads DEF MemoryTypes
  <2>2. SyncCompleted(st, MarkedDirty(us), wantsSave)
    BY <1>3 DEF DeviceListsLeft
  <2> QED BY <2>1, <2>2, SyncCompletedInABatch
<1>4. ASSUME NEW wantsSave \in WantsSave, SyncThrows(wantsSave)
      PROVE  InProgressIsInABatch'
  BY <1>4, SyncCompletedInABatch DEF SyncThrows, MemoryTypes
<1>5. CASE DeviceListSaved \/ SyncStoreSaved \/ SaveTimer
  BY <1>5, BatchesKept DEF DeviceListSaved, WriteDone, SyncStoreSaved, SaveTimer, SaveTimerFires,
     listVars, memVars, batchVars
<1>6. ASSUME NEW us \in SUBSET Users, OnCryptoEvent(us)
      PROVE  InProgressIsInABatch'
  <2> DEFINE st == StartTrackingDeviceList(trackingStatus, us)
  <2>1. /\ st \in [Users -> Statuses]
        /\ \A u \in Users : st[u] = "in_progress" => trackingStatus[u] = "in_progress"
    BY MarkingTypes, MarkingEndsDownloads DEF MemoryTypes
  <2>2. DoKeyDownload(st, Outdated(st), syncToken) /\ Outdated(st) \in SUBSET Users
    BY <1>6 DEF OnCryptoEvent, Outdated
  <2> QED BY <2>1, <2>2, DownloadRegisters DEF MemoryTypes
<1>7. ASSUME NEW u \in Callers, StartTracking(u)
      PROVE  InProgressIsInABatch'
  <2>1. \A v \in Users : trackingStatus'[v] = "in_progress" => trackingStatus[v] = "in_progress"
    BY <1>7, MarkingEndsDownloads DEF StartTracking, MemoryTypes
  <2> QED BY <1>7, <2>1, BatchesKept DEF StartTracking, batchVars
<1>8. ASSUME NEW us \in SUBSET Callers, NEW force \in BOOLEAN, KeysWanted(us, force)
      PROVE  InProgressIsInABatch'
  <2> DEFINE wanted == {u \in us : /\ inProgress[u] = "none"
                                   /\ force \/ trackingStatus[u] # "up_to_date"}
  <2>1. DoKeyDownload(trackingStatus, wanted, syncToken) /\ wanted \in SUBSET Users
    BY <1>8, DeviceSyncAssumption DEF KeysWanted, DownloadKeys
  <2> QED BY <2>1, DownloadRegisters DEF MemoryTypes
<1>9. CASE \E u \in Users : DevicesChange(u)
  BY <1>9, BatchesKept DEF DevicesChange, listVars, memVars, batchVars
<1>10. CASE ServerAnswers
  BY <1>10, BatchesKept DEF ServerAnswers, QueryAnswered, memVars
<1>11. CASE \E u \in Users : ProcessUser(u)
  BY <1>11, BatchesKept DEF ProcessUser, ProcessQueryResponse
<1>12. CASE DownloadCompleted
  BY <1>12, BatchOverInABatch DEF DownloadCompleted, BatchCompleted
<1>13. CASE DownloadFailed
  BY <1>13, BatchOverInABatch DEF DownloadFailed, BatchFailed
<1>14. CASE PageReload
  <2>1. /\ trackingStatus' = Loaded(disk.trackingStatus)
        /\ inProgress' = [u \in Users |-> "none"]
    BY <1>14 DEF PageReload, Reload
  <2> QED BY <2>1 DEF InProgressIsInABatch, Loaded, SetStatus
<1>15. CASE UNCHANGED vars
  BY <1>15, BatchesKept DEF vars, listVars, memVars, batchVars
<1> QED
  BY <1>1, <1>2, <1>3, <1>4, <1>5, <1>6, <1>7, <1>8, <1>9, <1>10, <1>11, <1>12, <1>13, <1>14,
     <1>15 DEF Next

\* A user who is shown as being downloaded is in the running batch or in the
\* queue behind it, for any server, any exception and any reload
\* (_keyDownloadsInProgressByUser, finished and _doQueuedQueries).
THEOREM DeviceSyncInABatch == Spec => []InProgressIsInABatch
<1>1. Init => Types /\ InProgressIsInABatch
  BY InitType DEF Init, ListInit, ListIdle, EmptySnapshot, InProgressIsInABatch
<1>2. Types /\ InProgressIsInABatch /\ [Next]_vars => (Types /\ InProgressIsInABatch)'
  BY NextType, NextInABatch
<1> QED BY <1>1, <1>2, PTL DEF Spec
=============================================================================
