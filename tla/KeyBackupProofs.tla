---------------------------- MODULE KeyBackupProofs ----------------------------
(***************************************************************************)
(* Theorems about the key backup, for any sessions, batch limit, versions  *)
(* and failures: its types, and that a session is unmarked only when some  *)
(* version of the backup holds it.                                         *)
(*                                                                         *)
(* The second needs what the batch is while it is under way (SentBatch):   *)
(* it goes to a version that exists, and when it is about to be unmarked   *)
(* that version holds all of it.  Backups only grow, so that neither a     *)
(* switch to another version nor its deletion matters.  Marking everything *)
(* drops no mark, since only sessions that were received are marked.       *)
(***************************************************************************)
EXTENDS KeyBackup, FiniteSetTheorems, TLAPS

SentBatch ==
  /\ send.at \in {"upload", "unmark"} => send.to \in Versions
  /\ send.at = "unmark" => send.batch \subseteq backedUp[send.to]

MarkedWereReceived == \A s \in marked \union marking : received[s] > 0

IInv == KeyBackupTypeOK /\ SentBatch /\ MarkedWereReceived

\* What is unmarked by a step has been uploaded.
Uploads == \A s \in marked \ marked' : \E v \in Versions : s \in backedUp[v]

USE KeyBackupAssumption

Sends == [at : {"no", "delay", "read", "encrypt", "upload", "unmark", "check"},
          batch : SUBSET Sessions, to : 0..MaxVersions]

-----------------------------------------------------------------------------
\* A step that leaves the server and the sessions alone, and either leaves the
\* send alone or moves it to where nothing is known of a batch.
LEMMA SmallStep ==
  ASSUME IInv,
         UNCHANGED <<received, backedUp>>,
         marked' \subseteq Sessions, marking' \subseteq Sessions,
         \A s \in marked' \union marking' : received[s] > 0,
         marked \subseteq marked',
         version' \in 0..MaxVersions, checks' \subseteq 0..MaxVersions,
         send' \in Sends, Cardinality(send'.batch) <= Limit + 1,
         send' = send \/ send'.at \notin {"upload", "unmark"},
         current' \in 0..made', made' \in 0..MaxVersions,
         failures' \in 0..MaxFailures, checked' \in 0..MaxChecks, reloads' \in 0..MaxReloads
  PROVE  IInv' /\ Uploads
<1>1. KeyBackupTypeOK'
  BY DEF IInv, KeyBackupTypeOK, Sends
<1>2. SentBatch'
  BY DEF IInv, SentBatch
<1>3. MarkedWereReceived' /\ Uploads
  BY DEF MarkedWereReceived, Uploads
<1> QED
  BY <1>1, <1>2, <1>3 DEF IInv

\* A send without a batch is within the limit.
LEMMA NoBatch == Cardinality({}) <= Limit + 1 /\ 0 \in 0..MaxVersions
<1>1. Cardinality({}) = 0 /\ Limit \in Nat
  BY FS_EmptySet
<1> QED
  BY <1>1

LEMMA ScheduleTypes ==
  ASSUME KeyBackupTypeOK, Schedule \/ UNCHANGED send
  PROVE  /\ send' \in Sends /\ Cardinality(send'.batch) <= Limit + 1
         /\ send' = send \/ send'.at \notin {"upload", "unmark"}
<1>1. CASE send' = send
  BY <1>1 DEF KeyBackupTypeOK, Sends
<1>2. CASE SendGoesTo("delay")
  BY <1>2, NoBatch DEF SendGoesTo, Sends
<1> QED
  BY <1>1, <1>2 DEF Schedule

-----------------------------------------------------------------------------
(* Sessions and versions. *)

LEMMA SessionStepKeeps ==
  ASSUME IInv,
         \/ \E s \in Sessions : ReceiveSession(s) \/ BackupGroupSession(s)
         \/ ScheduleAllGroupSessionsForBackup
  PROVE  IInv' /\ Uploads
<1>1. CASE \E s \in Sessions : ReceiveSession(s)
  <2>1. PICK s \in Sessions : ReceiveSession(s)
    BY <1>1
  <2>2. /\ received' = [received EXCEPT ![s] = @ + 1] /\ received[s] < MaxReceived
        /\ marking' \in {marking, marking \union {s}}
        /\ UNCHANGED <<marked, version, checks, send, serverVars, countVars>>
    BY <2>1 DEF ReceiveSession
  <2>3. /\ received' \in [Sessions -> 0..MaxReceived]
        /\ \A t \in Sessions : received'[t] = IF t = s THEN received[s] + 1 ELSE received[t]
    BY <2>2 DEF IInv, KeyBackupTypeOK
  <2>4. KeyBackupTypeOK'
    BY <2>2, <2>3 DEF IInv, KeyBackupTypeOK, serverVars, countVars
  <2>5. SentBatch' /\ Uploads
    BY <2>2 DEF IInv, SentBatch, Uploads, serverVars
  <2>6. MarkedWereReceived'
    BY <2>2, <2>3 DEF IInv, MarkedWereReceived, KeyBackupTypeOK
  <2> QED
    BY <2>4, <2>5, <2>6 DEF IInv
<1>2. CASE \E s \in Sessions : BackupGroupSession(s)
  <2>1. PICK s \in Sessions : BackupGroupSession(s)
    BY <1>2
  <2>2. /\ s \in marking /\ marking' = marking \ {s}
        /\ marked' = marked \union {s}
        /\ Schedule
        /\ UNCHANGED <<received, version, checks, serverVars, countVars>>
    BY <2>1 DEF BackupGroupSession
  <2> QED
    BY <2>2, ScheduleTypes, SmallStep
       DEF IInv, KeyBackupTypeOK, MarkedWereReceived, serverVars, countVars
<1>3. CASE ScheduleAllGroupSessionsForBackup
  <2>1. /\ marked' = {s \in Sessions : received[s] > 0} /\ Schedule
        /\ checked' \in 0..MaxChecks
        /\ UNCHANGED <<received, marking, version, checks, serverVars, failures, reloads>>
    BY <1>3 DEF ScheduleAllGroupSessionsForBackup, IInv, KeyBackupTypeOK
  <2> QED
    BY <2>1, ScheduleTypes, SmallStep DEF IInv, KeyBackupTypeOK, MarkedWereReceived, serverVars
<1> QED
  BY <1>1, <1>2, <1>3

LEMMA VersionStepKeeps ==
  ASSUME IInv,
         \/ CheckKeyBackup \/ (\E found \in 0..MaxVersions : CheckAnswered(found))
         \/ CreateKeyBackupVersion \/ DeleteKeyBackupVersion \/ OtherDevice
  PROVE  IInv' /\ Uploads
<1>1. /\ UNCHANGED <<received, marking, marked, backedUp, failures, reloads>>
      /\ Schedule \/ UNCHANGED send
  BY DEF CheckKeyBackup, CheckAnswered, CreateKeyBackupVersion, DeleteKeyBackupVersion, OtherDevice,
         NewVersion, serverVars, countVars
<1>2. current' \in 0..made' /\ made' \in 0..MaxVersions
  BY DEF CheckKeyBackup, CheckAnswered, CreateKeyBackupVersion, DeleteKeyBackupVersion, OtherDevice,
         NewVersion, serverVars, IInv, KeyBackupTypeOK
<1>3. checks' \subseteq 0..MaxVersions /\ checked' \in 0..MaxChecks
  <2>1. current \in 0..MaxVersions
    BY DEF IInv, KeyBackupTypeOK
  <2>2. CASE CheckKeyBackup
    BY <2>1, <2>2 DEF CheckKeyBackup, IInv, KeyBackupTypeOK
  <2>3. CASE ~CheckKeyBackup
    BY <2>3 DEF CheckAnswered, CreateKeyBackupVersion, DeleteKeyBackupVersion, OtherDevice, countVars,
                IInv, KeyBackupTypeOK
  <2> QED
    BY <2>2, <2>3
<1>4. version' \in 0..MaxVersions
  BY DEF CheckKeyBackup, CheckAnswered, CreateKeyBackupVersion, DeleteKeyBackupVersion, OtherDevice,
         NewVersion, countVars, IInv, KeyBackupTypeOK
<1> QED
  BY <1>1, <1>2, <1>3, <1>4, ScheduleTypes, SmallStep DEF IInv, KeyBackupTypeOK, MarkedWereReceived

LEMMA ReloadKeeps ==
  ASSUME IInv, Reload
  PROVE  IInv' /\ Uploads
<1>1. /\ UNCHANGED <<received, marked, serverVars, failures, checked>>
      /\ marking' = {} /\ version' = 0 /\ checks' = {current} /\ send' = NotSending
      /\ reloads' \in 0..MaxReloads
  BY DEF Reload, IInv, KeyBackupTypeOK
<1>2. version' \in 0..MaxVersions /\ checks' \subseteq 0..MaxVersions
  BY <1>1 DEF IInv, KeyBackupTypeOK
<1> QED
  BY <1>1, <1>2, NoBatch, SmallStep DEF NotSending, Sends, IInv, KeyBackupTypeOK, MarkedWereReceived, serverVars

-----------------------------------------------------------------------------
(* The send. *)

LEMMA ReadSessionsKeeps ==
  ASSUME IInv, NEW batch \in SUBSET Sessions, ReadSessions(batch)
  PROVE  IInv' /\ Uploads
<1>1. /\ UNCHANGED <<received, marking, marked, version, checks, serverVars, countVars>>
      /\ send' = NotSending \/ send' = [at |-> "encrypt", batch |-> batch, to |-> 0]
  BY DEF ReadSessions
<1>2. Cardinality(batch) <= Limit + 1
  <2>1. Fits(batch) /\ Limit \in Nat
    BY DEF ReadSessions
  <2>2. Cardinality(batch) \in Nat
    BY FS_Subset, FS_CardinalityType
  <2> QED
    BY <2>1, <2>2 DEF Fits
<1>3. [at |-> "encrypt", batch |-> batch, to |-> 0] \in Sends
  BY DEF Sends
<1>4. send' \in Sends /\ Cardinality(send'.batch) <= Limit + 1 /\ send'.at \notin {"upload", "unmark"}
  <2>1. CASE send' = NotSending
    BY <2>1, NoBatch DEF NotSending, Sends
  <2>2. CASE send' = [at |-> "encrypt", batch |-> batch, to |-> 0]
    BY <1>2, <1>3, <2>2
  <2> QED
    BY <1>1, <2>1, <2>2
<1> QED
  BY <1>1, <1>4, SmallStep DEF IInv, KeyBackupTypeOK, MarkedWereReceived, serverVars, countVars

LEMMA EncryptedKeeps ==
  ASSUME IInv, Encrypted
  PROVE  IInv' /\ Uploads
<1>1. UNCHANGED <<received, marking, marked, version, checks, serverVars, countVars>>
  BY DEF Encrypted
<1>2. CASE version = 0
  <2>1. send' = [at |-> "delay", batch |-> {}, to |-> 0]
    BY <1>2 DEF Encrypted, SendGoesTo
  <2>2. send' \in Sends /\ Cardinality(send'.batch) <= Limit + 1 /\ send'.at = "delay"
    BY <2>1, NoBatch DEF Sends
  <2> QED
    BY <1>1, <2>2, SmallStep DEF IInv, KeyBackupTypeOK, MarkedWereReceived, serverVars, countVars
<1>3. CASE version # 0
  <2>1. send' = [send EXCEPT !.at = "upload", !.to = version]
    BY <1>3 DEF Encrypted
  <2>2. /\ send'.at = "upload" /\ send'.batch = send.batch /\ send'.to = version
        /\ send' \in Sends
    BY <2>1 DEF IInv, KeyBackupTypeOK, Sends
  <2>3. KeyBackupTypeOK'
    BY <1>1, <2>2 DEF IInv, KeyBackupTypeOK, Sends, serverVars, countVars
  <2>4. SentBatch'
    BY <1>1, <1>3, <2>2 DEF IInv, KeyBackupTypeOK, SentBatch, Versions
  <2>5. MarkedWereReceived' /\ Uploads
    BY <1>1 DEF IInv, MarkedWereReceived, Uploads
  <2> QED
    BY <2>3, <2>4, <2>5 DEF IInv
<1> QED
  BY <1>2, <1>3

LEMMA UploadedKeeps ==
  ASSUME IInv, Uploaded
  PROVE  IInv' /\ Uploads
<1>1. /\ UNCHANGED <<received, marking, marked, version, checks, current, made, checked, reloads>>
      /\ send.at = "upload"
      /\ backedUp' = [backedUp EXCEPT ![send.to] = @ \union send.batch]
      /\ failures' \in 0..MaxFailures
  BY DEF Uploaded, Fail, IInv, KeyBackupTypeOK
<1>2. send.to \in Versions /\ send.batch \subseteq Sessions
  BY <1>1 DEF IInv, SentBatch, KeyBackupTypeOK
<1>3. backedUp' \in [Versions -> SUBSET Sessions] /\ send.batch \subseteq backedUp'[send.to]
  BY <1>1, <1>2 DEF IInv, KeyBackupTypeOK
<1>4. \/ send'.at = "unmark" /\ send'.batch = send.batch /\ send'.to = send.to /\ send' \in Sends
      \/ send'.at = "delay" /\ send' \in Sends /\ Cardinality(send'.batch) <= Limit + 1
  <2>1. CASE send' = [send EXCEPT !.at = "unmark"]
    BY <2>1 DEF IInv, KeyBackupTypeOK, Sends
  <2>2. CASE SendGoesTo("delay")
    BY <2>2, NoBatch DEF SendGoesTo, Sends
  <2> QED
    BY <2>1, <2>2 DEF Uploaded
<1>5. KeyBackupTypeOK'
  BY <1>1, <1>3, <1>4 DEF IInv, KeyBackupTypeOK, Sends
<1>6. SentBatch'
  BY <1>2, <1>3, <1>4 DEF SentBatch
<1>7. MarkedWereReceived' /\ Uploads
  BY <1>1 DEF IInv, MarkedWereReceived, Uploads
<1> QED
  BY <1>5, <1>6, <1>7 DEF IInv

\* The only step that takes marks away.
LEMMA UnmarkKeeps ==
  ASSUME IInv, Unmark
  PROVE  IInv' /\ Uploads
<1>1. /\ UNCHANGED <<received, marking, version, checks, serverVars, countVars>>
      /\ send.at = "unmark" /\ marked' = marked \ send.batch
      /\ SendGoesTo("no") \/ SendGoesTo("read")
  BY DEF Unmark, Sent
<1>2. send' \in Sends /\ Cardinality(send'.batch) <= Limit + 1 /\ send'.at \in {"no", "read"}
  <2>1. CASE SendGoesTo("no")
    BY <2>1, NoBatch DEF SendGoesTo, Sends
  <2>2. CASE SendGoesTo("read")
    BY <2>2, NoBatch DEF SendGoesTo, Sends
  <2> QED
    BY <1>1, <2>1, <2>2
<1>3. KeyBackupTypeOK'
  BY <1>1, <1>2 DEF IInv, KeyBackupTypeOK, Sends, serverVars, countVars
<1>4. SentBatch' /\ MarkedWereReceived'
  BY <1>1, <1>2 DEF IInv, SentBatch, MarkedWereReceived
<1>5. Uploads
  BY <1>1 DEF IInv, SentBatch, Uploads
<1> QED
  BY <1>3, <1>4, <1>5 DEF IInv

\* The other steps of the send: it waits, reads again, or ends.
LEMMA SendEndsKeeps ==
  ASSUME IInv, Delayed \/ UploadFails \/ WrongVersion \/ RecheckAnswered
  PROVE  IInv' /\ Uploads
<1>1. /\ UNCHANGED <<received, marking, marked, checks, serverVars, checked, reloads>>
      /\ failures' \in 0..MaxFailures
  BY DEF Delayed, UploadFails, WrongVersion, RecheckAnswered, Fail, countVars, IInv, KeyBackupTypeOK
<1>2. version' \in 0..MaxVersions
  BY DEF Delayed, UploadFails, WrongVersion, RecheckAnswered, IInv, KeyBackupTypeOK
<1>3. /\ send' \in Sends /\ Cardinality(send'.batch) <= Limit + 1
      /\ send'.at \notin {"upload", "unmark"}
  <2>1. CASE Delayed
    BY <2>1, NoBatch DEF Delayed, SendGoesTo, Sends
  <2>2. CASE UploadFails
    BY <2>2, NoBatch DEF UploadFails, SendGoesTo, Sends
  <2>3. CASE WrongVersion
    <3>1. current \in 0..MaxVersions
      BY DEF IInv, KeyBackupTypeOK
    <3> QED
      BY <2>3, <3>1, NoBatch DEF WrongVersion, Sends
  <2>4. CASE RecheckAnswered
    BY <2>4, NoBatch DEF RecheckAnswered, GivesUp, NotSending, Sends
  <2> QED
    BY <2>1, <2>2, <2>3, <2>4
<1> QED
  BY <1>1, <1>2, <1>3, SmallStep DEF IInv, KeyBackupTypeOK, MarkedWereReceived, serverVars

-----------------------------------------------------------------------------
(* The theorems. *)

LEMMA InitHolds == Init => IInv
<1> SUFFICES ASSUME Init PROVE IInv
  OBVIOUS
<1>1. send \in Sends /\ Cardinality(send.batch) <= Limit + 1 /\ send.at = "no"
  <2>1. send = [at |-> "no", batch |-> {}, to |-> 0] /\ 0 \in 0..MaxVersions
    BY DEF Init, NotSending
  <2> QED
    BY <2>1, NoBatch DEF Sends
<1>2. received \in [Sessions -> 0..MaxReceived] /\ backedUp \in [Versions -> SUBSET Sessions]
  BY DEF Init
<1>3. KeyBackupTypeOK
  BY <1>1, <1>2 DEF Init, KeyBackupTypeOK, Sends
<1> QED
  BY <1>1, <1>3 DEF Init, IInv, SentBatch, MarkedWereReceived

LEMMA StepHolds == IInv /\ [Next]_vars => IInv' /\ [Uploads]_vars
<1> SUFFICES ASSUME IInv, [Next]_vars PROVE IInv' /\ [Uploads]_vars
  OBVIOUS
<1>1. CASE SendStep
  BY <1>1, ReadSessionsKeeps, EncryptedKeeps, UploadedKeeps, UnmarkKeeps, SendEndsKeeps DEF SendStep
<1>2. CASE UNCHANGED vars
  BY <1>2 DEF IInv, KeyBackupTypeOK, SentBatch, MarkedWereReceived, vars, serverVars, countVars
<1> QED
  BY <1>1, <1>2, SessionStepKeeps, VersionStepKeeps, ReloadKeeps DEF Next

\* Every variable of the backup stays in its type; a batch has at most one
\* session more than the limit.
THEOREM KeyBackupTypes == Spec => []KeyBackupTypeOK
<1>1. IInv => KeyBackupTypeOK
  BY DEF IInv
<1> QED
  BY <1>1, InitHolds, StepHolds, PTL DEF Spec

\* A session is unmarked only when a version of the backup holds it, however
\* uploads fail, versions change and pages are reloaded (_backupPendingKeys).
THEOREM OnlyUploadedAreUnmarked == Spec => UnmarkedWasUploaded
<1>1. [Uploads]_vars => [\A s \in marked \ marked' : \E v \in Versions : s \in backedUp[v]]_vars
  BY DEF Uploads
<1> QED
  BY <1>1, InitHolds, StepHolds, PTL DEF Spec, UnmarkedWasUploaded
==============================================================================
