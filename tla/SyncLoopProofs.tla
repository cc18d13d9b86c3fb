---------------------------- MODULE SyncLoopProofs ----------------------------
(***************************************************************************)
(* Theorems about the sync loop, for any threshold, any number of failures *)
(* and any length of the server's stream: its types, that a client which   *)
(* waits for its connection will be woken, and that the store's token      *)
(* never goes back.                                                        *)
(*                                                                         *)
(* Waiting is an invariant on its own: whoever takes the timer's handle    *)
(* leaves a timer or a poke behind, and only success() gives up the        *)
(* promise, which ends the wait.  The token needs to know where the saved  *)
(* sync is (SavedFirst): nothing else has set the token before the saved   *)
(* sync has been read, and the loop is not entered before it is done.      *)
(***************************************************************************)
EXTENDS SyncLoop, TLAPS

\* Until the saved sync is read the store has no token; the loop begins when the
\* saved sync is done; no token is ahead of the server.
SavedFirst ==
  /\ saved \in {"token", "data"} => token = 0
  /\ at \in Loop \union {"waitSync"} => saved = "done"
  /\ token <= server /\ stored <= server

IInv == SyncTypeOK /\ WaitingIsPoked /\ SavedFirst

-----------------------------------------------------------------------------
\* _sync, from wherever it is entered, keeps the types of the flow.
LEMMA StartSyncTypes ==
  ASSUME SyncTypeOK, NEW s \in States, StartSync(s)
  PROVE  /\ at' \in {"request", "ended"}
         /\ running = FALSE => at' = "ended"
         /\ state' \in States
         /\ request' \in [open : BOOLEAN, since : Tokens]
         /\ catchingUp' \in BOOLEAN
<1>1. catchingUp' \in BOOLEAN
  BY Zenon DEF SyncTypeOK, StartSync, DoSyncRequest
<1>2. request' \in [open : BOOLEAN, since : Tokens]
  <2>1. token \in Tokens /\ request \in [open : BOOLEAN, since : Tokens]
    BY DEF SyncTypeOK
  <2>2. [open |-> TRUE, since |-> token] \in [open : BOOLEAN, since : Tokens]
    BY <2>1
  <2>3. request' = request \/ request' = [open |-> TRUE, since |-> token]
    BY DEF StartSync, DoSyncRequest
  <2> QED
    BY <2>1, <2>2, <2>3
<1>3. at' \in {"request", "ended"} /\ state' \in States /\ (running = FALSE => at' = "ended")
  BY DEF StartSync, States
<1> QED
  BY <1>1, <1>2, <1>3

\* A resolved connection ends the wait of whoever waits, and changes nothing else.
LEMMA ConnectionReturnedTypes ==
  ASSUME SyncTypeOK, NEW f \in BOOLEAN, ConnectionReturned(f)
  PROVE  /\ at' \in Startup \union Recovery \union Loop \union {"ended", "threw"}
         /\ at' \in Loop => at \in Loop \union {"waitSync"}
         /\ state' \in States
         /\ request' \in [open : BOOLEAN, since : Tokens]
         /\ catchingUp' \in BOOLEAN
<1>1. CASE at = "waitPushRules"
  BY <1>1 DEF SyncTypeOK, ConnectionReturned, Startup, Loop
<1>2. CASE at = "waitFilter"
  BY <1>2 DEF SyncTypeOK, ConnectionReturned, Startup, Loop
<1>3. CASE at = "waitSync"
  <2>1. PICK s \in States : StartSync(s)
    <3>1. StartSync(IF f /\ state = "ERROR" THEN "CATCHUP" ELSE state)
      BY <1>3 DEF ConnectionReturned
    <3>2. (IF f /\ state = "ERROR" THEN "CATCHUP" ELSE state) \in States
      BY DEF SyncTypeOK, States
    <3> QED
      BY <3>1, <3>2
  <2> QED
    BY <1>3, <2>1, StartSyncTypes DEF Loop
<1>4. CASE at \notin Waiting
  BY <1>4 DEF SyncTypeOK, ConnectionReturned, Waiting
<1> QED
  BY <1>1, <1>2, <1>3, <1>4 DEF Waiting

\* success() leaves no client waiting that had a promise, and none without.
LEMMA SuccessTypes ==
  ASSUME SyncTypeOK, WaitingIsPoked, NEW f \in BOOLEAN, Success(f)
  PROVE  /\ running => at' \notin Waiting
         /\ at' \in Startup \union Recovery \union Waiting \union Loop \union {"ended", "threw"}
         /\ at' \in Loop \union {"waitSync"} => at \in Loop \union {"waitSync"}
         /\ state' \in States
         /\ request' \in [open : BOOLEAN, since : Tokens]
         /\ catchingUp' \in BOOLEAN
         /\ handle' = NoTimer /\ connection' = FALSE
<1>1. CASE connection
  BY <1>1, ConnectionReturnedTypes DEF Success, Startup, Recovery, Waiting, Loop
<1>2. CASE ~connection
  BY <1>2 DEF Success, SyncTypeOK, WaitingIsPoked
<1> QED
  BY <1>1, <1>2

\* The types of the flow and of the pokes after a timer has run out.
LEMMA FireTypes ==
  ASSUME SyncTypeOK, WaitingIsPoked, NEW timer \in Timers, Fire(timer)
  PROVE  /\ connection' \in BOOLEAN
         /\ pokes' \in [BOOLEAN -> Nat]
         /\ at' \in Startup \union Recovery \union Waiting \union Loop \union {"ended", "threw"}
         /\ at' \in Loop \union {"waitSync"} => at \in Loop \union {"waitSync"}
         /\ state' \in States
         /\ request' \in [open : BOOLEAN, since : Tokens]
         /\ catchingUp' \in BOOLEAN
         /\ timer.do = "success" => handle' = NoTimer
         /\ running /\ at' \in Waiting => connection' /\ \E f \in BOOLEAN : pokes'[f] > 0
<1>1. CASE timer.do = "poke"
  <2>1. /\ pokes' = [pokes EXCEPT ![timer.failed] = @ + 1]
        /\ UNCHANGED <<connection, at, state, request, catchingUp>>
    BY <1>1 DEF Fire
  <2>2. timer.failed \in BOOLEAN
    BY DEF Timers
  <2>3. pokes' \in [BOOLEAN -> Nat] /\ pokes'[timer.failed] > 0
    BY <2>1, <2>2 DEF SyncTypeOK
  <2> QED
    BY <1>1, <2>1, <2>2, <2>3 DEF SyncTypeOK, WaitingIsPoked
<1>2. CASE timer.do # "poke"
  <2>1. timer.failed \in BOOLEAN /\ Success(timer.failed) /\ UNCHANGED pokes
    BY <1>2 DEF Fire, Timers
  <2> QED
    BY <2>1, SuccessTypes DEF SyncTypeOK
<1> QED
  BY <1>1, <1>2

-----------------------------------------------------------------------------
(* Each step keeps the invariant, and takes the token no further back. *)

USE SyncLoopAssumption

\* What the steps of the keep-alives leave alone.
aliveUnchanged == <<running, failed, hasSynced, storeVars>>

LEMMA TimerFiresKeeps ==
  ASSUME IInv, TimerFires
  PROVE  IInv' /\ token' >= token
<1>1. handle \in Timers /\ Fire(handle) /\ handle' = NoTimer
  BY DEF IInv, TimerFires, SyncTypeOK
<1>2. UNCHANGED <<lost, aliveUnchanged, failures, nudges>>
  BY DEF TimerFires, aliveUnchanged
<1>3. SyncTypeOK'
  BY <1>1, <1>2, FireTypes DEF IInv, SyncTypeOK, aliveUnchanged, storeVars
<1>4. WaitingIsPoked'
  BY <1>1, <1>2, FireTypes DEF IInv, WaitingIsPoked, aliveUnchanged
<1>5. SavedFirst' /\ token' >= token
  BY <1>1, <1>2, FireTypes DEF IInv, SavedFirst, SyncTypeOK, aliveUnchanged, storeVars, Tokens
<1> QED
  BY <1>3, <1>4, <1>5 DEF IInv

LEMMA LostTimerFiresKeeps ==
  ASSUME IInv, NEW timer \in Timers, LostTimerFires(timer)
  PROVE  IInv' /\ token' >= token
<1>1. /\ Fire(timer)
      /\ lost' = [lost EXCEPT ![timer] = @ - 1] /\ lost[timer] > 0
      /\ timer.do = "poke" => UNCHANGED handle
      /\ UNCHANGED <<aliveUnchanged, failures, nudges>>
  BY DEF LostTimerFires, aliveUnchanged
<1>2. lost' \in [Timers -> Nat]
  BY <1>1 DEF IInv, SyncTypeOK
<1>3. handle' \in Timers \union {NoTimer}
  <2>1. timer.do \in {"poke", "success"}
    BY DEF Timers
  <2> QED
    BY <1>1, <2>1, FireTypes DEF IInv, SyncTypeOK
<1>4. SyncTypeOK'
  BY <1>1, <1>2, <1>3, FireTypes DEF IInv, SyncTypeOK, aliveUnchanged, storeVars
<1>5. WaitingIsPoked'
  BY <1>1, FireTypes DEF IInv, WaitingIsPoked, aliveUnchanged
<1>6. SavedFirst' /\ token' >= token
  BY <1>1, FireTypes DEF IInv, SavedFirst, SyncTypeOK, aliveUnchanged, storeVars, Tokens
<1> QED
  BY <1>4, <1>5, <1>6 DEF IInv

LEMMA PokeSucceedsKeeps ==
  ASSUME IInv, NEW f \in BOOLEAN, PokeSucceeds(f)
  PROVE  IInv' /\ token' >= token
<1>1. /\ Success(f) /\ pokes[f] > 0 /\ pokes' = [pokes EXCEPT ![f] = @ - 1]
      /\ UNCHANGED <<lost, aliveUnchanged, failures, nudges>>
  BY DEF PokeSucceeds, Answered, aliveUnchanged
<1>2. pokes' \in [BOOLEAN -> Nat]
  BY <1>1 DEF IInv, SyncTypeOK
<1>3. SyncTypeOK'
  BY <1>1, <1>2, SuccessTypes DEF IInv, SyncTypeOK, aliveUnchanged, storeVars
<1>4. WaitingIsPoked'
  BY <1>1, SuccessTypes DEF IInv, WaitingIsPoked, aliveUnchanged
<1>5. SavedFirst' /\ token' >= token
  <2>1. /\ at' \in Loop \union {"waitSync"} => at \in Loop \union {"waitSync"}
        /\ UNCHANGED storeVars
    BY <1>1, SuccessTypes DEF IInv, aliveUnchanged
  <2> QED
    BY <2>1 DEF IInv, SavedFirst, SyncTypeOK, storeVars, Tokens
<1> QED
  BY <1>3, <1>4, <1>5 DEF IInv

\* A poke that is refused or not answered sets the handle, and leaves the timer
\* that had it without.
LEMMA TakeHandleKeeps ==
  ASSUME IInv, NEW f \in BOOLEAN, PokeRefused(f) \/ PokeFails(f)
  PROVE  IInv' /\ token' >= token
<1>1. PICK timer \in Timers : TakeHandle(timer)
  BY DEF PokeRefused, PokeFails, PokeAgain, Timers
<1>2. /\ pokes[f] > 0 /\ pokes' = [pokes EXCEPT ![f] = @ - 1]
      /\ UNCHANGED <<running, flowVars, storeVars>>
      /\ state' \in States
      /\ failures' \in 0..MaxFailures /\ nudges' \in 0..MaxNudges
  BY DEF IInv, SyncTypeOK, PokeRefused, PokeFails, Answered, Nudge, Fail, States
<1>3. pokes' \in [BOOLEAN -> Nat]
  BY <1>2 DEF IInv, SyncTypeOK
<1>4. /\ handle' = timer /\ lost' \in [Timers -> Nat] /\ connection' = connection
  BY <1>1 DEF TakeHandle, IInv, SyncTypeOK
<1>5. timer # NoTimer
  BY DEF Timers, NoTimer
<1>6. SyncTypeOK'
  BY <1>2, <1>3, <1>4 DEF IInv, SyncTypeOK, flowVars, storeVars
<1>7. WaitingIsPoked'
  BY <1>2, <1>4, <1>5 DEF IInv, WaitingIsPoked, flowVars
<1>8. SavedFirst' /\ token' >= token
  <2>1. UNCHANGED <<at, storeVars>>
    BY <1>2 DEF flowVars
  <2> QED
    BY <2>1 DEF IInv, SavedFirst, SyncTypeOK, storeVars, Tokens
<1> QED
  BY <1>6, <1>7, <1>8 DEF IInv

\* The online event, and an impatient caller.
LEMMA PokeNowKeeps ==
  ASSUME IInv, Online \/ RetryImmediately
  PROVE  IInv' /\ token' >= token
<1>1. /\ PokeNow
      /\ UNCHANGED <<running, state, flowVars, storeVars, failures>>
      /\ nudges' \in 0..MaxNudges
  BY DEF IInv, SyncTypeOK, Online, RetryImmediately, Nudge
<1>2. /\ handle' = NoTimer /\ connection' = TRUE /\ lost' = lost
      /\ pokes' \in [BOOLEAN -> Nat] /\ pokes'[FALSE] > 0
  <2>1. pokes \in [BOOLEAN -> Nat] /\ pokes' = [pokes EXCEPT ![FALSE] = @ + 1]
    BY <1>1 DEF PokeNow, IInv, SyncTypeOK
  <2>2. PICK n \in Nat : n = pokes[FALSE] /\ pokes'[FALSE] = n + 1
    BY <2>1, Zenon
  <2>3. n + 1 \in Nat /\ n + 1 > 0
    OBVIOUS
  <2>4. pokes' \in [BOOLEAN -> Nat] /\ pokes'[FALSE] > 0
    BY <2>1, <2>2, <2>3, Zenon
  <2> QED
    BY <1>1, <2>4 DEF PokeNow
<1>3. SyncTypeOK'
  BY <1>1, <1>2 DEF IInv, SyncTypeOK, flowVars, storeVars
<1>4. WaitingIsPoked'
  BY <1>2 DEF WaitingIsPoked
<1>5. SavedFirst' /\ token' >= token
  BY <1>1 DEF IInv, SavedFirst, SyncTypeOK, flowVars, storeVars, Tokens
<1> QED
  BY <1>3, <1>4, <1>5 DEF IInv

-----------------------------------------------------------------------------
(* The saved sync, and start-up. *)

LEMMA SavedSyncKeeps ==
  ASSUME IInv, SavedSync \/ StoreDegrades
  PROVE  IInv' /\ token' >= token
<1>1. UNCHANGED <<running, failed, hasSynced, at, request, pokeVars, stored, invalid, server, failures, nudges>>
  BY DEF SavedSync, ReadSavedToken, ReadSavedSync, ProcessSavedSync, StoreDegrades, flowVars
<1>2. state' \in States /\ degraded' \in BOOLEAN /\ catchingUp' \in BOOLEAN
  BY DEF IInv, SyncTypeOK, States, SavedSync, ReadSavedToken, ReadSavedSync, ProcessSavedSync, StoreDegrades,
         flowVars
<1>3. /\ saved' \in {"token", "data", "process", "done"} /\ savedToken' \in Tokens
      /\ token' \in {token, stored}
      /\ token' # token => saved = "data" /\ saved' = "process"
      /\ saved = "done" => saved' = "done"
      /\ saved' \in {"token", "data"} => saved \in {"token", "data"}
  BY DEF IInv, SyncTypeOK, Tokens, SavedSync, ReadSavedToken, ReadSavedSync, ProcessSavedSync, StoreDegrades
<1>4. SyncTypeOK'
  BY <1>1, <1>2, <1>3 DEF IInv, SyncTypeOK, flowVars, pokeVars
<1>5. WaitingIsPoked'
  BY <1>1 DEF IInv, WaitingIsPoked, flowVars, pokeVars
<1>6. SavedFirst' /\ token' >= token
  BY <1>1, <1>3 DEF IInv, SavedFirst, SyncTypeOK, Tokens, flowVars
<1> QED
  BY <1>4, <1>5, <1>6 DEF IInv

\* Steps that leave the pokes alone and do not lead to a wait.
LEMMA FlowStepKeeps ==
  ASSUME IInv,
         UNCHANGED <<running, hasSynced, lost, pokes, storeVars, failures, nudges>>,
         failed' = failed, handle' \in {handle, NoTimer}, connection' \in BOOLEAN,
         state' \in States, catchingUp' \in BOOLEAN,
         request' \in [open : BOOLEAN, since : Tokens],
         at' \in Startup \union Loop \union {"ended", "threw"},
         at' \in Loop => saved = "done"
  PROVE  IInv' /\ token' >= token
<1>1. SyncTypeOK'
  BY DEF IInv, SyncTypeOK, storeVars
<1>2. WaitingIsPoked'
  BY DEF WaitingIsPoked, Waiting, Startup, Loop
<1>3. SavedFirst' /\ token' >= token
  BY DEF IInv, SavedFirst, SyncTypeOK, Tokens, storeVars, Startup, Loop
<1> QED
  BY <1>1, <1>2, <1>3 DEF IInv

LEMMA StartupStepKeeps ==
  ASSUME IInv, StartupStep
  PROVE  IInv' /\ token' >= token
<1>1. CASE GetPushRules \/ CheckLazyLoadStatus
  BY <1>1, FlowStepKeeps
     DEF GetPushRules, CheckLazyLoadStatus, Goes, pokeVars, Startup, Loop, IInv, SyncTypeOK
<1>2. CASE GetFilter
  <2>1. request' \in [open : BOOLEAN, since : Tokens]
    <3>1. [open |-> TRUE, since |-> savedToken] \in [open : BOOLEAN, since : Tokens]
      BY DEF IInv, SyncTypeOK
    <3>2. request' = request \/ request' = [open |-> TRUE, since |-> savedToken]
      BY <1>2 DEF GetFilter, DoSyncRequest
    <3> QED
      BY <3>1, <3>2 DEF IInv, SyncTypeOK
  <2>2. catchingUp' \in BOOLEAN
    BY <1>2, Zenon DEF GetFilter, DoSyncRequest, IInv, SyncTypeOK
  <2>3. /\ UNCHANGED <<running, state, failed, hasSynced, pokeVars, storeVars, failures, nudges>>
        /\ at' = "savedSync"
    BY <1>2 DEF GetFilter, Goes
  <2> QED
    BY <2>1, <2>2, <2>3, FlowStepKeeps DEF pokeVars, Startup, Loop, IInv, SyncTypeOK
<1>3. CASE FirstSync
  <2>1. StartSync(state) /\ saved = "done"
    BY <1>3 DEF FirstSync, SavedSyncDone
  <2>2. connection' \in BOOLEAN
    BY <1>3, Zenon DEF FirstSync, IInv, SyncTypeOK
  <2>3. UNCHANGED <<running, failed, hasSynced, handle, lost, pokes, storeVars, failures, nudges>>
    BY <1>3 DEF FirstSync
  <2>4. state \in States
    BY DEF IInv, SyncTypeOK
  <2> QED
    BY <2>1, <2>2, <2>3, <2>4, StartSyncTypes, FlowStepKeeps DEF Startup, Loop, IInv
<1>4. CASE RecoverFromSyncStartupError
  <2>1. /\ StartKeepAlives /\ state' = "ERROR" /\ saved = "done"
        /\ at' \in {"waitPushRules", "waitFilter"}
        /\ UNCHANGED <<running, failed, catchingUp, hasSynced, request, storeVars, failures, nudges>>
    BY <1>4 DEF RecoverFromSyncStartupError, SavedSyncDone, Goes
  <2>2. /\ handle' \in Timers /\ handle' # NoTimer /\ connection' = TRUE
        /\ UNCHANGED <<lost, pokes>>
    BY <2>1 DEF StartKeepAlives, Timers, NoTimer
  <2>3. SyncTypeOK'
    BY <2>1, <2>2 DEF IInv, SyncTypeOK, storeVars, States, Waiting
  <2>4. WaitingIsPoked'
    BY <2>2 DEF WaitingIsPoked
  <2>5. SavedFirst' /\ token' >= token
    BY <2>1 DEF IInv, SavedFirst, SyncTypeOK, Tokens, storeVars, Loop
  <2> QED
    BY <2>3, <2>4, <2>5 DEF IInv
<1> QED
  BY <1>1, <1>2, <1>3, <1>4 DEF StartupStep

\* Start-up ends, or waits for the saved sync before it recovers.
LEMMA StartupEndsKeeps ==
  ASSUME IInv, LazyLoadingToggled \/ LazyLoadingThrows \/ StartupRequestFails
  PROVE  IInv' /\ token' >= token
<1>1. /\ UNCHANGED <<running, failed, catchingUp, hasSynced, request, pokeVars, stored, saved,
                     savedToken, degraded, token, server, nudges>>
      /\ state' \in States /\ invalid' \in BOOLEAN /\ failures' \in 0..MaxFailures
      /\ at' \in Recovery \union {"ended", "threw"}
  <2>1. CASE LazyLoadingToggled
    BY <2>1 DEF LazyLoadingToggled, Goes, IInv, SyncTypeOK, States
  <2>2. CASE LazyLoadingThrows
    BY <2>2 DEF LazyLoadingThrows, Goes, Fail, storeVars, IInv, SyncTypeOK
  <2>3. CASE StartupRequestFails
    BY <2>3 DEF StartupRequestFails, Goes, Fail, storeVars, Recovery, IInv, SyncTypeOK
  <2> QED
    BY <2>1, <2>2, <2>3
<1>2. SyncTypeOK'
  BY <1>1 DEF IInv, SyncTypeOK, pokeVars
<1>3. WaitingIsPoked'
  BY <1>1 DEF WaitingIsPoked, Waiting, Recovery
<1>4. SavedFirst' /\ token' >= token
  BY <1>1 DEF IInv, SavedFirst, SyncTypeOK, Tokens, Recovery, Loop
<1> QED
  BY <1>2, <1>3, <1>4 DEF IInv

-----------------------------------------------------------------------------
(* The loop. *)

LEMMA SyncResponseKeeps ==
  ASSUME IInv, NEW next \in Tokens, SyncResponse(next)
  PROVE  IInv' /\ token' >= token
<1>1. /\ UNCHANGED <<running, state, catchingUp, hasSynced, pokeVars, stored, saved, savedToken,
                     invalid, degraded, failures, nudges>>
      /\ at = "request" /\ at' = "process" /\ request' = NoRequest
      /\ token' = next /\ server' = next /\ next >= server /\ failed' = 0
  BY DEF SyncResponse, Goes
<1>2. NoRequest \in [open : BOOLEAN, since : Tokens] /\ 0 \in 0..Threshold
  BY DEF NoRequest, Tokens
<1>3. SyncTypeOK'
  BY <1>1, <1>2 DEF IInv, SyncTypeOK, pokeVars, Loop
<1>4. WaitingIsPoked'
  BY <1>1 DEF WaitingIsPoked, Waiting
<1>5. SavedFirst' /\ token' >= token
  BY <1>1 DEF IInv, SavedFirst, SyncTypeOK, Tokens, Loop
<1> QED
  BY <1>3, <1>4, <1>5 DEF IInv

LEMMA ProcessSyncResponseKeeps ==
  ASSUME IInv, NEW toDevice \in BOOLEAN, ProcessSyncResponse(toDevice)
  PROVE  IInv' /\ token' >= token
<1>1. /\ UNCHANGED <<running, failed, request, pokeVars, storeVars, failures, nudges>>
      /\ at = "process" /\ at' = "crypto" /\ hasSynced' = TRUE
      /\ state' \in States
  BY DEF ProcessSyncResponse, Goes, IInv, SyncTypeOK, States
<1>2. catchingUp' \in BOOLEAN
  BY Zenon DEF ProcessSyncResponse, IInv, SyncTypeOK
<1>3. SyncTypeOK'
  BY <1>1, <1>2 DEF IInv, SyncTypeOK, pokeVars, storeVars, Loop
<1>4. WaitingIsPoked'
  BY <1>1 DEF WaitingIsPoked, Waiting
<1>5. SavedFirst' /\ token' >= token
  BY <1>1 DEF IInv, SavedFirst, SyncTypeOK, Tokens, storeVars, Loop
<1> QED
  BY <1>3, <1>4, <1>5 DEF IInv

\* The rest of the loop.
LEMMA LoopGoesOnKeeps ==
  ASSUME IInv, SyncCompleted \/ NextSync \/ SyncAborted
  PROVE  IInv' /\ token' >= token
<1>1. CASE SyncCompleted
  BY <1>1, FlowStepKeeps
     DEF SyncCompleted, Goes, pokeVars, States, Startup, Loop, SavedFirst, IInv, SyncTypeOK
<1>2. CASE NextSync
  <2>1. StartSync(state) /\ saved = "done"
    BY <1>2 DEF NextSync, IInv, SavedFirst, Loop
  <2>2. connection' \in BOOLEAN
    BY <1>2, Zenon DEF NextSync, IInv, SyncTypeOK
  <2>3. UNCHANGED <<running, failed, hasSynced, handle, lost, pokes, storeVars, failures, nudges>>
    BY <1>2 DEF NextSync
  <2>4. state \in States
    BY DEF IInv, SyncTypeOK
  <2> QED
    BY <2>1, <2>2, <2>3, <2>4, StartSyncTypes, FlowStepKeeps DEF Startup, Loop, IInv
<1>3. CASE SyncAborted
  <2>1. NoRequest \in [open : BOOLEAN, since : Tokens]
    BY DEF NoRequest, Tokens
  <2> QED
    BY <1>3, <2>1, FlowStepKeeps
       DEF SyncAborted, Goes, States, Startup, Loop, IInv, SyncTypeOK
<1> QED
  BY <1>1, <1>2, <1>3

LEMMA SyncFailsKeeps ==
  ASSUME IInv, SyncFails
  PROVE  IInv' /\ token' >= token
<1>1. /\ UNCHANGED <<running, catchingUp, hasSynced, storeVars, nudges>>
      /\ at = "request" /\ at' = "waitSync" /\ request' = NoRequest
      /\ state' \in States /\ failures' \in 0..MaxFailures
  BY DEF SyncFails, Goes, Fail, States, IInv, SyncTypeOK
<1>2. failed' \in 0..Threshold
  BY DEF SyncFails, IInv, SyncTypeOK
<1>3. NoRequest \in [open : BOOLEAN, since : Tokens]
  BY DEF NoRequest, Tokens
<1>4. /\ handle' \in Timers /\ handle' # NoTimer /\ connection' = TRUE
      /\ UNCHANGED <<lost, pokes>>
  BY DEF SyncFails, StartKeepAlives, Timers, NoTimer
<1>5. SyncTypeOK'
  BY <1>1, <1>2, <1>3, <1>4 DEF IInv, SyncTypeOK, storeVars, Waiting
<1>6. WaitingIsPoked'
  BY <1>4 DEF WaitingIsPoked
<1>7. SavedFirst' /\ token' >= token
  BY <1>1 DEF IInv, SavedFirst, SyncTypeOK, Tokens, storeVars, Loop
<1> QED
  BY <1>5, <1>6, <1>7 DEF IInv

\* A client that is stopped does not run again.
LEMMA StopKeeps ==
  ASSUME IInv, Stop \/ ShouldAbortSync
  PROVE  IInv' /\ token' >= token
<1>1. /\ running' = FALSE /\ handle' = NoTimer
      /\ UNCHANGED <<state, failed, catchingUp, hasSynced, connection, lost, pokes, storeVars, nudges>>
      /\ at' \in {at, "ended"} /\ request' \in {request, NoRequest}
      /\ failures' \in 0..MaxFailures
  BY DEF Stop, ShouldAbortSync, Fail, flowVars, IInv, SyncTypeOK
<1>2. NoRequest \in [open : BOOLEAN, since : Tokens]
  BY DEF NoRequest, Tokens
<1>3. SyncTypeOK'
  BY <1>1, <1>2 DEF IInv, SyncTypeOK, storeVars
<1>4. WaitingIsPoked'
  BY <1>1 DEF WaitingIsPoked
<1>5. SavedFirst' /\ token' >= token
  BY <1>1 DEF IInv, SavedFirst, SyncTypeOK, Tokens, storeVars, Loop
<1> QED
  BY <1>3, <1>4, <1>5 DEF IInv

-----------------------------------------------------------------------------
(* The theorems. *)

LEMMA InitHolds == Init => IInv
<1> SUFFICES ASSUME Init PROVE IInv
  OBVIOUS
<1>1. SyncTypeOK
  <2>1. NoRequest \in [open : BOOLEAN, since : Tokens] /\ 0 \in Tokens /\ 1 \in Tokens
    BY DEF NoRequest, Tokens
  <2>2. [t \in Timers |-> 0] \in [Timers -> Nat] /\ [f \in BOOLEAN |-> 0] \in [BOOLEAN -> Nat]
    OBVIOUS
  <2>3. "pushRules" \in Startup /\ "null" \in States
    BY DEF Startup, States
  <2>4. lost \in [Timers -> Nat] /\ pokes \in [BOOLEAN -> Nat]
    BY <2>2, Zenon DEF Init
  <2>5. stored \in Tokens
    BY <2>1 DEF Init
  <2>6. 0 \in 0..Threshold /\ 0 \in 0..MaxFailures /\ 0 \in 0..MaxNudges
    OBVIOUS
  <2> QED
    BY <2>1, <2>3, <2>4, <2>5, <2>6 DEF Init, SyncTypeOK
<1>2. WaitingIsPoked /\ SavedFirst
  BY DEF Init, WaitingIsPoked, Waiting, SavedFirst, Loop
<1> QED
  BY <1>1, <1>2 DEF IInv

LEMMA StepHolds == IInv /\ [Next]_vars => IInv' /\ token' >= token
<1> SUFFICES ASSUME IInv, [Next]_vars PROVE IInv' /\ token' >= token
  OBVIOUS
<1>1. CASE KeepAlive
  BY <1>1, TimerFiresKeeps, LostTimerFiresKeeps, PokeSucceedsKeeps, TakeHandleKeeps DEF KeepAlive
<1>2. CASE Online \/ RetryImmediately
  BY <1>2, PokeNowKeeps
<1>3. CASE SavedSync \/ StoreDegrades
  BY <1>3, SavedSyncKeeps
<1>4. CASE StartupStep
  BY <1>4, StartupStepKeeps
<1>5. CASE LazyLoadingToggled \/ LazyLoadingThrows \/ StartupRequestFails
  BY <1>5, StartupEndsKeeps
<1>6. CASE LoopStep
  BY <1>6, SyncResponseKeeps, ProcessSyncResponseKeeps, LoopGoesOnKeeps DEF LoopStep
<1>7. CASE SyncFails
  BY <1>7, SyncFailsKeeps
<1>8. CASE Stop \/ ShouldAbortSync
  BY <1>8, StopKeeps
<1>9. CASE UNCHANGED vars
  BY <1>9 DEF IInv, SyncTypeOK, WaitingIsPoked, SavedFirst, vars, flowVars, pokeVars, storeVars, Tokens
<1> QED
  BY <1>1, <1>2, <1>3, <1>4, <1>5, <1>6, <1>7, <1>8, <1>9 DEF Next

\* Every variable of the sync loop stays in its type.
THEOREM SyncLoopTypes == Spec => []SyncTypeOK
<1>1. IInv => SyncTypeOK
  BY DEF IInv
<1> QED
  BY <1>1, InitHolds, StepHolds, PTL DEF Spec

\* A running client that waits for its connection has a promise, and a timer or
\* a poke that will resolve it (_startKeepAlives, _pokeKeepAlive).
THEOREM WaitingClientIsPoked == Spec => []WaitingIsPoked
<1>1. IInv => WaitingIsPoked
  BY DEF IInv
<1> QED
  BY <1>1, InitHolds, StepHolds, PTL DEF Spec

\* No step takes the store back to an older token: the saved sync sets it first,
\* and the server's stream goes forward from there (sync.js, getFilter and _sync).
THEOREM TokenGoesForward == Spec => TokenNeverGoesBack
<1>1. IInv /\ [Next]_vars => [token' >= token]_vars
  BY StepHolds
<1> QED
  BY <1>1, InitHolds, StepHolds, PTL DEF Spec, TokenNeverGoesBack
==============================================================================
