------------------------------ MODULE SyncLoop ------------------------------
(***************************************************************************)
(* The connection of a client to its homeserver (src/sync.js): start-up,   *)
(* the saved sync, the /sync loop, keep-alives and stopping.               *)
(*                                                                         *)
(* One flow of control goes from start-up through the loop (at); next to   *)
(* it run the saved sync, keep-alive pokes and timers, the browser's       *)
(* online event, retryImmediately and stop.  A step ends at an await.      *)
(***************************************************************************)
EXTENDS Naturals

CONSTANTS
  Threshold,    \* FAILED_SYNC_ERROR_THRESHOLD
  MaxToken,     \* bound on the positions of the server's stream
  MaxFailures,  \* bound on failing requests and pokes
  MaxNudges,    \* bound on online events, retries and pokes that are refused
  MaxDegrades   \* 1 if the store may fail and degrade to a memory store

ASSUME SyncLoopAssumption ==
  /\ {Threshold, MaxToken, MaxFailures, MaxNudges} \subseteq Nat
  /\ Threshold > 0 /\ MaxToken > 0 /\ MaxDegrades \in {0, 1}

VARIABLES
  running,       \* _running
  state,         \* _syncState
  failed,        \* _failedSyncCount, up to the threshold
  catchingUp,    \* _catchingUp
  hasSynced,     \* syncOptions.hasSyncedBefore
  at,            \* where the flow is
  request,       \* _currentSyncRequest
  connection,    \* is there a _connectionReturnedDefer?
  handle,        \* the timer whose handle is _keepAliveTimer
  lost,          \* how many timers of each kind run without a handle
  pokes,         \* pokes in flight, by whether the connection did fail
  stored,        \* the position the store was saved at, 0 for none
  saved,         \* where the saved sync is
  savedToken,    \* savedSyncToken
  invalid,       \* _storeIsInvalid
  degraded,      \* the store works in memory only
  token,         \* the store's sync token, 0 for none
  server,        \* the server's stream position
  failures, nudges

flowVars == <<failed, catchingUp, hasSynced, at, request>>
pokeVars == <<connection, handle, lost, pokes>>
storeVars == <<stored, saved, savedToken, invalid, degraded, token, server>>
vars == <<running, state, flowVars, pokeVars, storeVars, failures, nudges>>

States == {"null", "PREPARED", "SYNCING", "CATCHUP", "RECONNECTING", "ERROR", "STOPPED"}
Startup == {"pushRules", "lazyLoad", "filter", "savedSync"}
Recovery == {"recoverPushRules", "recoverFilter"}       \* awaits the saved sync
Waiting == {"waitPushRules", "waitFilter", "waitSync"}   \* awaits the connection
Loop == {"request", "process", "crypto", "save"}

Tokens == 0..MaxToken
Timers == [do : {"poke", "success"}, failed : BOOLEAN]
NoTimer == [do |-> "none", failed |-> FALSE]
NoRequest == [open |-> FALSE, since |-> 0]

SyncTypeOK ==
  /\ running \in BOOLEAN /\ state \in States
  /\ failed \in 0..Threshold /\ catchingUp \in BOOLEAN /\ hasSynced \in BOOLEAN
  /\ at \in Startup \union Recovery \union Waiting \union Loop \union {"ended", "threw"}
  /\ request \in [open : BOOLEAN, since : Tokens]
  /\ connection \in BOOLEAN
  /\ handle \in Timers \union {NoTimer} /\ lost \in [Timers -> Nat]
  /\ pokes \in [BOOLEAN -> Nat]
  /\ stored \in Tokens /\ saved \in {"token", "data", "process", "done"} /\ savedToken \in Tokens
  /\ invalid \in BOOLEAN /\ degraded \in BOOLEAN
  /\ token \in Tokens /\ server \in Tokens
  /\ failures \in 0..MaxFailures /\ nudges \in 0..MaxNudges

\* sync() has been called for a registered user.
Init ==
  /\ running = TRUE /\ state = "null"
  /\ failed = 0 /\ catchingUp = FALSE /\ hasSynced = FALSE
  /\ at = "pushRules" /\ request = NoRequest
  /\ connection = FALSE /\ handle = NoTimer
  /\ lost = [t \in Timers |-> 0] /\ pokes = [f \in BOOLEAN |-> 0]
  /\ stored \in {0, 1} /\ saved = "token" /\ savedToken = 0
  /\ invalid = FALSE /\ degraded = FALSE
  /\ token = 0 /\ server = 1
  /\ failures = 0 /\ nudges = 0

Fail == failures < MaxFailures /\ failures' = failures + 1
Nudge == nudges < MaxNudges /\ nudges' = nudges + 1

-----------------------------------------------------------------------------
(* Keep-alives *)

\* _startKeepAlives, with a delay: the timer that has the handle is cleared.
StartKeepAlives ==
  /\ handle' = [do |-> "poke", failed |-> FALSE]
  /\ connection' = TRUE
  /\ UNCHANGED <<lost, pokes>>

\* _startKeepAlives(0): poke at once.
PokeNow ==
  /\ handle' = NoTimer
  /\ connection' = TRUE
  /\ pokes' = [pokes EXCEPT ![FALSE] = @ + 1]
  /\ UNCHANGED lost

\* A poke's answer takes the handle: a timer that has it goes on without.
TakeHandle(timer) ==
  /\ handle' = timer
  /\ lost' = IF handle = NoTimer THEN lost ELSE [lost EXCEPT ![handle] = @ + 1]
  /\ UNCHANGED connection

\* _doSyncRequest, and _getSyncParams, which catches up unless SYNCING.
DoSyncRequest(since, state0) ==
  /\ request' = IF request.open THEN request ELSE [open |-> TRUE, since |-> since]
  /\ catchingUp' = (catchingUp \/ (~request.open /\ state0 # "SYNCING"))

\* _sync, entered in a sync state.
StartSync(state0) ==
  IF running
  THEN /\ DoSyncRequest(token, state0)
       /\ at' = "request"
       /\ state' = state0
  ELSE /\ at' = "ended"
       /\ state' = "STOPPED"
       /\ UNCHANGED <<request, catchingUp>>

\* _connectionReturnedDefer is resolved: whoever waits for it goes on.
ConnectionReturned(connDidFail) ==
  CASE at = "waitPushRules" -> at' = "pushRules" /\ UNCHANGED <<state, request, catchingUp>>
    [] at = "waitFilter" -> at' = "filter" /\ UNCHANGED <<state, request, catchingUp>>
    [] at = "waitSync" ->
         StartSync(IF connDidFail /\ state = "ERROR" THEN "CATCHUP" ELSE state)
    [] OTHER -> UNCHANGED <<at, state, request, catchingUp>>

\* success(): the timer is cleared, the promise resolved and given up.
Success(connDidFail) ==
  /\ handle' = NoTimer
  /\ connection' = FALSE
  /\ IF connection
     THEN ConnectionReturned(connDidFail)
     ELSE UNCHANGED <<at, state, request, catchingUp>>

\* A timer runs out.
Fire(timer) ==
  IF timer.do = "poke"
  THEN /\ pokes' = [pokes EXCEPT ![timer.failed] = @ + 1]
       /\ UNCHANGED <<connection, at, state, request, catchingUp>>
  ELSE Success(timer.failed) /\ UNCHANGED pokes

TimerFires ==
  /\ handle # NoTimer
  /\ handle' = NoTimer
  /\ Fire(handle)
  /\ UNCHANGED <<lost, running, failed, hasSynced, storeVars, failures, nudges>>

LostTimerFires(timer) ==
  /\ lost[timer] > 0
  /\ lost' = [lost EXCEPT ![timer] = @ - 1]
  /\ Fire(timer)
  /\ timer.do = "poke" => UNCHANGED handle
  /\ UNCHANGED <<running, failed, hasSynced, storeVars, failures, nudges>>

\* A poke in flight is answered.
Answered(f) == pokes[f] > 0 /\ pokes' = [pokes EXCEPT ![f] = @ - 1]

\* _pokeKeepAlive is answered,
PokeSucceeds(f) ==
  /\ Answered(f)
  /\ Success(f)
  /\ UNCHANGED <<lost, running, failed, hasSynced, storeVars, failures, nudges>>

\* or refused: the server is there, success follows in a while,
PokeRefused(f) ==
  /\ Answered(f)
  /\ Nudge
  /\ TakeHandle([do |-> "success", failed |-> f])
  /\ UNCHANGED <<running, state, flowVars, storeVars, failures>>

\* Mutant: a poke that has failed is not tried again.
GiveUp == handle' = handle /\ UNCHANGED <<lost, connection>>

\* The next poke is set up; it knows that the connection did fail.
PokeAgain == TakeHandle([do |-> "poke", failed |-> TRUE])

\* or not answered.
PokeFails(f) ==
  /\ Answered(f)
  /\ Fail
  /\ PokeAgain
  /\ state' = "ERROR"
  /\ UNCHANGED <<running, flowVars, storeVars, nudges>>

\* The browser's online event, whatever the flow does; retryImmediately, if
\* somebody waits for the connection.
Online ==
  /\ running
  /\ Nudge
  /\ PokeNow
  /\ UNCHANGED <<running, state, flowVars, storeVars, failures>>

RetryImmediately ==
  /\ connection
  /\ Nudge
  /\ PokeNow
  /\ UNCHANGED <<running, state, flowVars, storeVars, failures>>

-----------------------------------------------------------------------------
(* The saved sync *)

\* An operation of the IndexedDB store fails: its data is deleted.
StoreDegrades ==
  /\ MaxDegrades = 1 /\ ~degraded
  /\ degraded' = TRUE
  /\ UNCHANGED <<running, state, flowVars, pokeVars, stored, saved, savedToken, invalid, token,
                 server, failures, nudges>>

ReadSavedToken ==
  /\ saved = "token"
  /\ saved' = "data"
  /\ savedToken' = IF degraded THEN 0 ELSE stored
  /\ UNCHANGED <<running, state, flowVars, pokeVars, stored, invalid, degraded, token, server,
                 failures, nudges>>

\* getSavedSync; _syncFromCache sets the store's token before it processes.
ReadSavedSync ==
  /\ saved = "data"
  /\ IF degraded \/ stored = 0
     THEN saved' = "done" /\ UNCHANGED token
     ELSE saved' = "process" /\ token' = stored
  /\ UNCHANGED <<running, state, flowVars, pokeVars, stored, savedToken, invalid, degraded, server,
                 failures, nudges>>

\* The saved data has no to-device messages: there is nothing to catch up with.
ProcessSavedSync ==
  /\ saved = "process"
  /\ saved' = "done"
  /\ state' = IF invalid THEN state ELSE "PREPARED"
  /\ catchingUp' = FALSE
  /\ UNCHANGED <<running, failed, hasSynced, at, request, pokeVars, stored, savedToken, invalid, degraded,
                 token, server, failures, nudges>>

-----------------------------------------------------------------------------
(* Start-up *)

Goes(from, to) == at = from /\ at' = to

GetPushRules ==
  /\ Goes("pushRules", "lazyLoad")
  /\ UNCHANGED <<running, state, failed, catchingUp, hasSynced, request, pokeVars, storeVars,
                 failures, nudges>>

\* checkLazyLoadStatus goes on,
CheckLazyLoadStatus ==
  /\ Goes("lazyLoad", "filter")
  /\ UNCHANGED <<running, state, failed, catchingUp, hasSynced, request, pokeVars, storeVars,
                 failures, nudges>>

\* ends because the store was saved under another option,
LazyLoadingToggled ==
  /\ Goes("lazyLoad", "ended")
  /\ stored # 0 /\ ~degraded
  /\ invalid' = TRUE
  /\ state' = "ERROR"
  /\ UNCHANGED <<running, failed, catchingUp, hasSynced, request, pokeVars, stored, saved, savedToken,
                 degraded, token, server, failures, nudges>>

\* or throws, as its request or the store fails, to a caller that does not listen.
LazyLoadingThrows ==
  /\ Goes("lazyLoad", "threw")
  /\ Fail
  /\ UNCHANGED <<running, state, failed, catchingUp, hasSynced, request, pokeVars, storeVars, nudges>>

\* getFilter sends the first request already, since the token that has been read.
GetFilter ==
  /\ Goes("filter", "savedSync")
  /\ DoSyncRequest(savedToken, state)
  /\ UNCHANGED <<running, state, failed, hasSynced, pokeVars, storeVars, failures, nudges>>

\* Mutant: the flow does not wait for the saved sync.
NeverWaits == TRUE

\* savedSyncPromise has been resolved.
SavedSyncDone == saved = "done"

FirstSync ==
  /\ at = "savedSync"
  /\ SavedSyncDone
  /\ StartSync(state)
  /\ connection' = (connection /\ running)
  /\ UNCHANGED <<running, failed, hasSynced, handle, lost, pokes, storeVars, failures, nudges>>

StartupRequestFails ==
  /\ Goes("pushRules", "recoverPushRules") \/ Goes("filter", "recoverFilter")
  /\ Fail
  /\ UNCHANGED <<running, state, failed, catchingUp, hasSynced, request, pokeVars, storeVars, nudges>>

RecoverFromSyncStartupError ==
  /\ Goes("recoverPushRules", "waitPushRules") \/ Goes("recoverFilter", "waitFilter")
  /\ SavedSyncDone
  /\ StartKeepAlives
  /\ state' = "ERROR"
  /\ UNCHANGED <<running, failed, catchingUp, hasSynced, request, storeVars, failures, nudges>>

-----------------------------------------------------------------------------
(* The loop *)

\* The response is there: its token is taken before it is processed.
SyncResponse(next) ==
  /\ Goes("request", "process")
  /\ running
  /\ next >= server
  /\ request' = NoRequest
  /\ token' = next /\ server' = next
  /\ failed' = 0
  /\ UNCHANGED <<running, state, catchingUp, hasSynced, pokeVars, stored, saved, savedToken, invalid,
                 degraded, failures, nudges>>

\* _processSyncResponse: without to-device messages the client has caught up.
ProcessSyncResponse(toDevice) ==
  /\ Goes("process", "crypto")
  /\ catchingUp' = (catchingUp /\ toDevice)
  /\ hasSynced' = TRUE
  /\ state' = IF hasSynced THEN state ELSE "PREPARED"
  /\ UNCHANGED <<running, failed, request, pokeVars, storeVars, failures, nudges>>

\* Mutant: only the first sync is reported.
ReportedOnce ==
  /\ Goes("crypto", "save")
  /\ state' = IF state = "PREPARED" THEN "SYNCING" ELSE state
  /\ UNCHANGED <<running, failed, catchingUp, hasSynced, request, pokeVars, storeVars, failures, nudges>>

\* The crypto module has done its processing.
SyncCompleted ==
  /\ Goes("crypto", "save")
  /\ state' = "SYNCING"
  /\ UNCHANGED <<running, failed, catchingUp, hasSynced, request, pokeVars, storeVars, failures, nudges>>

NextSync ==
  /\ at = "save"
  /\ StartSync(state)
  /\ connection' = (connection /\ running)
  /\ UNCHANGED <<running, failed, hasSynced, handle, lost, pokes, storeVars, failures, nudges>>

\* _onSyncError: keep-alives start, and the sync goes on when one is answered.
SyncFails ==
  /\ Goes("request", "waitSync")
  /\ running
  /\ Fail
  /\ request' = NoRequest
  /\ failed' = IF failed < Threshold THEN failed + 1 ELSE failed
  /\ StartKeepAlives
  /\ state' = IF failed' >= Threshold THEN "ERROR" ELSE "RECONNECTING"
  /\ UNCHANGED <<running, catchingUp, hasSynced, storeVars, nudges>>

\* The request was aborted by stop().
SyncAborted ==
  /\ Goes("request", "ended")
  /\ ~running
  /\ request' = NoRequest
  /\ connection' = FALSE
  /\ state' = "STOPPED"
  /\ UNCHANGED <<running, failed, catchingUp, hasSynced, handle, lost, pokes, storeVars, failures, nudges>>

\* stop(), by the application,
Stop ==
  /\ running
  /\ running' = FALSE
  /\ handle' = NoTimer
  /\ UNCHANGED <<state, flowVars, connection, lost, pokes, storeVars, failures, nudges>>

\* or because the access token is not known any more (_shouldAbortSync).
ShouldAbortSync ==
  /\ \/ at \in {"pushRules", "filter"}
     \/ at = "request" /\ running
  /\ Fail
  /\ running' = FALSE
  /\ handle' = NoTimer
  /\ at' = "ended"
  /\ request' = IF at = "request" THEN NoRequest ELSE request
  /\ UNCHANGED <<state, failed, catchingUp, hasSynced, connection, lost, pokes, storeVars, nudges>>

-----------------------------------------------------------------------------
KeepAlive ==
  \/ TimerFires
  \/ \E timer \in Timers : LostTimerFires(timer)
  \/ \E f \in BOOLEAN : PokeSucceeds(f) \/ PokeRefused(f) \/ PokeFails(f)

SavedSync == ReadSavedToken \/ ReadSavedSync \/ ProcessSavedSync

StartupStep == GetPushRules \/ CheckLazyLoadStatus \/ GetFilter \/ FirstSync \/ RecoverFromSyncStartupError

LoopStep ==
  \/ \E next \in Tokens : SyncResponse(next)
  \/ \E toDevice \in BOOLEAN : ProcessSyncResponse(toDevice)
  \/ SyncCompleted \/ NextSync \/ SyncAborted

Next ==
  \/ KeepAlive \/ Online \/ RetryImmediately
  \/ SavedSync \/ StoreDegrades
  \/ StartupStep \/ StartupRequestFails \/ LazyLoadingToggled \/ LazyLoadingThrows
  \/ LoopStep \/ SyncFails
  \/ Stop \/ ShouldAbortSync

Spec == Init /\ [][Next]_vars

\* Requests are answered or fail, timers fire, promises settle.
Fairness ==
  /\ WF_vars(TimerFires)
  /\ \A timer \in Timers : WF_vars(LostTimerFires(timer))
  /\ \A f \in BOOLEAN : WF_vars(PokeSucceeds(f) \/ PokeRefused(f) \/ PokeFails(f))
  /\ WF_vars(SavedSync)
  /\ WF_vars(StartupStep)
  /\ WF_vars(LoopStep)

FairSpec == Spec /\ Fairness

-----------------------------------------------------------------------------
\* Whatever start-up, sync errors, online events, retries and late answers to
\* pokes share the one promise and the one timer handle: a client that waits for
\* its connection has a promise that will be resolved, by a poke in flight or by a
\* timer, with or without its handle.
WaitingIsPoked ==
  running /\ at \in Waiting =>
    /\ connection
    /\ \/ handle # NoTimer
       \/ \E t \in Timers : lost[t] > 0
       \/ \E f \in BOOLEAN : pokes[f] > 0

\* "wait for saved sync to complete before doing anything else": neither the saved
\* sync nor a request that was sent early takes the store back to an older token.
TokenNeverGoesBack == [][token' >= token]_vars

\* A client that goes on running, and whose store is usable, is SYNCING again
\* and again, once requests stop failing ("ERROR -> SYNCING").
SyncsAgain == []<>(state = "SYNCING" \/ ~running \/ at \in {"ended", "threw"})
==============================================================================
