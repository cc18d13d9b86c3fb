----------------------------- MODULE KeyBackup -----------------------------
(***************************************************************************)
(* Backing up megolm sessions (src/crypto/index.js, client.js): marking    *)
(* sessions, the background send and its retries, checking which version   *)
(* of the backup the server has, and other devices that make and delete    *)
(* versions (external).                                                    *)
(*                                                                         *)
(* A step is a transaction of the crypto store or an answer of the server. *)
(***************************************************************************)
EXTENDS Naturals, FiniteSets

CONSTANTS
  Sessions,
  Limit,        \* KEY_BACKUP_KEYS_PER_REQUEST
  MaxVersions,  \* bound on versions of the backup
  MaxReceived,  \* bound on how often a session is received
  MaxFailures,  \* bound on failing requests
  MaxChecks,    \* bound on checks, and on marking everything, by the user
  MaxReloads    \* bound on page reloads

ASSUME KeyBackupAssumption ==
  /\ {Limit, MaxVersions, MaxReceived, MaxFailures, MaxChecks, MaxReloads} \subseteq Nat
  /\ IsFiniteSet(Sessions)

VARIABLES
  received,   \* how often each session was received and stored, in earlier and earlier parts
  marking,    \* sessions in a transaction that marks them
  marked,     \* sessions_needing_backup
  version,    \* the version of backupInfo and backupKey, 0 for none
  checks,     \* the versions that checks in flight have been answered with
  send,       \* where scheduleKeyBackupSend is, with its sessions
  current,    \* the version the server has, 0 for none
  made,       \* versions made so far
  backedUp,   \* the sessions that are in each version's backup
  failures, checked, reloads

serverVars == <<current, made, backedUp>>
countVars == <<failures, checked, reloads>>
vars == <<received, marking, marked, version, checks, send, serverVars, countVars>>

Versions == 1..MaxVersions

NotSending == [at |-> "no", batch |-> {}, to |-> 0]

KeyBackupTypeOK ==
  /\ received \in [Sessions -> 0..MaxReceived]
  /\ marking \subseteq Sessions /\ marked \subseteq Sessions
  /\ version \in 0..MaxVersions /\ checks \subseteq 0..MaxVersions
  /\ send \in [at : {"no", "delay", "read", "encrypt", "upload", "unmark", "check"},
               batch : SUBSET Sessions, to : 0..MaxVersions]
  /\ Cardinality(send.batch) <= Limit + 1
  /\ current \in 0..made /\ made \in 0..MaxVersions
  /\ backedUp \in [Versions -> SUBSET Sessions]
  /\ failures \in 0..MaxFailures /\ checked \in 0..MaxChecks /\ reloads \in 0..MaxReloads

Init ==
  /\ received = [s \in Sessions |-> 0]
  /\ marking = {} /\ marked = {}
  /\ version = 0 /\ checks = {}
  /\ send = NotSending
  /\ current = 0 /\ made = 0
  /\ backedUp = [v \in Versions |-> {}]
  /\ failures = 0 /\ checked = 0 /\ reloads = 0

Fail == failures < MaxFailures /\ failures' = failures + 1

SendGoesTo(where) == send' = [at |-> where, batch |-> {}, to |-> 0]

\* scheduleKeyBackupSend does nothing while a send is on its way.
Schedule == IF send.at = "no" THEN SendGoesTo("delay") ELSE UNCHANGED send

-----------------------------------------------------------------------------
(* Sessions *)

\* A session, or an earlier part of it, is received and stored; if the backup is enabled then,
\* backupGroupSession begins to mark it.
ReceiveSession(s) ==
  /\ received[s] < MaxReceived
  /\ received' = [received EXCEPT ![s] = @ + 1]
  /\ marking' = IF version # 0 THEN marking \union {s} ELSE marking
  /\ UNCHANGED <<marked, version, checks, send, serverVars, countVars>>

\* The session is marked, whatever has become of the backup meanwhile, and a send is scheduled.
BackupGroupSession(s) ==
  /\ s \in marking
  /\ marking' = marking \ {s}
  /\ marked' = marked \union {s}
  /\ Schedule
  /\ UNCHANGED <<received, version, checks, serverVars, countVars>>

\* scheduleAllGroupSessionsForBackup, by the user, with or without a version.
ScheduleAllGroupSessionsForBackup ==
  /\ checked < MaxChecks
  /\ checked' = checked + 1
  /\ marked' = {s \in Sessions : received[s] > 0}
  /\ Schedule
  /\ UNCHANGED <<received, marking, version, checks, serverVars, failures, reloads>>

-----------------------------------------------------------------------------
(* Versions *)

\* getKeyBackupVersion is answered; the answer waits for isKeyBackupTrusted.
CheckKeyBackup ==
  /\ checked < MaxChecks
  /\ checked' = checked + 1
  /\ checks' = checks \union {current}
  /\ UNCHANGED <<received, marking, marked, version, send, serverVars, failures, reloads>>

\* _checkAndStartKeyBackup: the backup is enabled, disabled or switched.
CheckAnswered(found) ==
  /\ found \in checks
  /\ checks' = checks \ {found}
  /\ version' = found
  /\ IF found \notin {0, version} THEN Schedule ELSE UNCHANGED send
  /\ UNCHANGED <<received, marking, marked, serverVars, countVars>>

NewVersion ==
  /\ made < MaxVersions
  /\ made' = made + 1
  /\ current' = made + 1
  /\ UNCHANGED backedUp

\* createKeyBackupVersion enables the new version.
CreateKeyBackupVersion ==
  /\ NewVersion
  /\ version' = made'
  /\ Schedule
  /\ UNCHANGED <<received, marking, marked, checks, countVars>>

\* deleteKeyBackupVersion disables the version it deletes.
DeleteKeyBackupVersion ==
  /\ current # 0
  /\ current' = 0
  /\ version' = IF version = current THEN 0 ELSE version
  /\ UNCHANGED <<received, marking, marked, checks, send, made, backedUp, countVars>>

\* Another device makes or deletes a version.
OtherDevice ==
  /\ \/ NewVersion
     \/ current # 0 /\ current' = 0 /\ UNCHANGED <<made, backedUp>>
  /\ UNCHANGED <<received, marking, marked, version, checks, send, countVars>>

-----------------------------------------------------------------------------
(* scheduleKeyBackupSend, from its delay on *)

\* The delay, or the back-off, is over; without a key the send ends.
Delayed ==
  /\ send.at = "delay"
  /\ SendGoesTo(IF version = 0 THEN "no" ELSE "read")
  /\ UNCHANGED <<received, marking, marked, version, checks, serverVars, countVars>>

\* getSessionsNeedingBackup reads as many sessions as the limit allows; the
\* IndexedDB backend looks at its result before the last one is there, and reads
\* one more.
Fits(batch) ==
  \/ batch = marked /\ Cardinality(marked) <= Limit
  \/ Cardinality(batch) = Limit
  \/ Cardinality(batch) = Limit + 1

\* With no session the send ends.
ReadSessions(batch) ==
  /\ send.at = "read"
  /\ batch \subseteq marked
  /\ Fits(batch)
  /\ send' = IF batch = {} THEN NotSending ELSE [at |-> "encrypt", batch |-> batch, to |-> 0]
  /\ UNCHANGED <<received, marking, marked, version, checks, serverVars, countVars>>

\* The sessions are encrypted, and sent to the version of backupInfo.  When the
\* backup was disabled in between this throws, which is a failure like others.
Encrypted ==
  /\ send.at = "encrypt"
  /\ IF version = 0
     THEN SendGoesTo("delay")
     ELSE send' = [send EXCEPT !.at = "upload", !.to = version]
  /\ UNCHANGED <<received, marking, marked, version, checks, serverVars, countVars>>

\* The server takes the sessions; its answer may be lost.
Uploaded ==
  /\ send.at = "upload" /\ send.to = current
  /\ backedUp' = [backedUp EXCEPT ![send.to] = @ \union send.batch]
  /\ \/ send' = [send EXCEPT !.at = "unmark"] /\ UNCHANGED failures
     \/ Fail /\ SendGoesTo("delay")
  /\ UNCHANGED <<received, marking, marked, version, checks, current, made, checked, reloads>>

UploadFails ==
  /\ send.at = "upload"
  /\ Fail
  /\ SendGoesTo("delay")
  /\ UNCHANGED <<received, marking, marked, version, checks, serverVars, checked, reloads>>

\* M_NOT_FOUND or M_WRONG_ROOM_KEYS_VERSION: the current version is looked up,
WrongVersion ==
  /\ send.at = "upload" /\ send.to # current
  /\ send' = [at |-> "check", batch |-> {}, to |-> current]
  /\ UNCHANGED <<received, marking, marked, version, checks, serverVars, countVars>>

\* Mutant: the send is not given up.
KeepsSending == UNCHANGED send

\* The send ends, while enableKeyBackup has found it on its way still.
GivesUp == send' = NotSending

\* enabled, and the error is thrown.  (The lookup may fail.)
RecheckAnswered ==
  /\ send.at = "check"
  /\ \/ version' = send.to /\ UNCHANGED failures
     \/ Fail /\ UNCHANGED version
  /\ GivesUp
  /\ UNCHANGED <<received, marking, marked, checks, serverVars, checked, reloads>>

\* Mutant: everything that is marked now is unmarked.
AllMarked == marked

\* The sessions that are unmarked after an upload: those that were read for it.
Sent == send.batch

\* unmarkSessionsNeedingBackup; the next sessions are read.
Unmark ==
  /\ send.at = "unmark"
  /\ marked' = marked \ Sent
  /\ SendGoesTo(IF version = 0 THEN "no" ELSE "read")
  /\ UNCHANGED <<received, marking, version, checks, serverVars, countVars>>

\* The page is reloaded; start-up checks for a backup.
Reload ==
  /\ reloads < MaxReloads
  /\ reloads' = reloads + 1
  /\ marking' = {}
  /\ version' = 0
  /\ checks' = {current}
  /\ send' = NotSending
  /\ UNCHANGED <<received, marked, serverVars, failures, checked>>

-----------------------------------------------------------------------------
SendStep ==
  \/ Delayed
  \/ \E batch \in SUBSET Sessions : ReadSessions(batch)
  \/ Encrypted
  \/ Uploaded \/ UploadFails \/ WrongVersion
  \/ RecheckAnswered
  \/ Unmark

Next ==
  \/ \E s \in Sessions : ReceiveSession(s) \/ BackupGroupSession(s)
  \/ ScheduleAllGroupSessionsForBackup
  \/ CheckKeyBackup
  \/ \E found \in 0..MaxVersions : CheckAnswered(found)
  \/ CreateKeyBackupVersion \/ DeleteKeyBackupVersion \/ OtherDevice
  \/ SendStep
  \/ Reload

Spec == Init /\ [][Next]_vars

\* Delays end, transactions complete, requests are answered or fail.
FairSpec ==
  /\ Spec
  /\ WF_vars(SendStep)
  /\ \A s \in Sessions : WF_vars(BackupGroupSession(s))
  /\ \A found \in 0..MaxVersions : WF_vars(CheckAnswered(found))

-----------------------------------------------------------------------------
\* "This throws if the upload failed, but this is fine since it will have written
\* it to the db and will retry": only a session that has reached the server is
\* unmarked, however uploads fail and versions change while a batch is on its way.
UnmarkedWasUploaded ==
  [][\A s \in marked \ marked' : \E v \in Versions : s \in backedUp[v]]_vars

\* _sendingBackups, which turns every other attempt away, is always released.
SendingEnds == (send.at # "no") ~> (send.at = "no")
==============================================================================
