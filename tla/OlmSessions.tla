---------------------------- MODULE OlmSessions ----------------------------
(***************************************************************************)
(* ensureOlmSessionsForDevices of src/crypto/olmlib.js, run by several     *)
(* callers at once: the key shares of the encrypted rooms, the answers to  *)
(* key requests.  Each goes through its devices one after the other: it    *)
(* marks a device as in progress (olmDevice._sessionsInProgress) unless    *)
(* another caller has, in which case it waits for that one, and reads the  *)
(* store for a session.  Then it claims one-time keys for the devices that *)
(* have none, and starts a session with each.                              *)
(***************************************************************************)
EXTENDS Naturals, Sequences, FiniteSets

CONSTANTS
  Peers,        \* the devices sessions are needed with, by identity key
  Claimers,     \* the calls
  DevicesOf,    \* call -> the devices it needs, in the order it goes through them
  MaxFailures,  \* bound on failing requests and reads of the store
  Nobody

ASSUME OlmAssumption ==
  /\ DevicesOf \in [Claimers -> Seq(Peers)]
  /\ MaxFailures \in Nat /\ Nobody \notin Claimers

VARIABLES
  olmSessions,  \* the devices there is a session with, in the store
  inProgress,   \* device -> the call that has marked it
  at,           \* call -> what it is doing
  next,         \* call -> position of the device it looks at
  without,      \* call -> devicesWithoutSession
  starting,     \* call -> the devices it verifies a one-time key of
  refused,      \* call -> the devices it could start no session with
  olmFailures

olmVars == <<olmSessions, inProgress, at, next, without, starting, refused, olmFailures>>

Doing == {"idle", "looking", "waiting", "reading", "claiming", "starting", "done", "failed", "broken"}

OlmTypeOK ==
  /\ olmSessions \subseteq Peers
  /\ inProgress \in [Peers -> Claimers \union {Nobody}]
  /\ at \in [Claimers -> Doing]
  /\ next \in [Claimers -> Nat] /\ \A c \in Claimers : next[c] \in 1..Len(DevicesOf[c]) + 1
  /\ without \in [Claimers -> SUBSET Peers]
  /\ starting \in [Claimers -> SUBSET Peers]
  /\ refused \in [Claimers -> SUBSET Peers]
  /\ olmFailures \in 0..MaxFailures

OlmInit ==
  /\ olmSessions = {}
  /\ inProgress = [d \in Peers |-> Nobody]
  /\ at = [c \in Claimers |-> "idle"]
  /\ next = [c \in Claimers |-> 1]
  /\ without = [c \in Claimers |-> {}]
  /\ starting = [c \in Claimers |-> {}]
  /\ refused = [c \in Claimers |-> {}]
  /\ olmFailures = 0

Device(c) == DevicesOf[c][next[c]]

OlmFailure == olmFailures < MaxFailures /\ olmFailures' = olmFailures + 1

\* resolveSession[key].resolve: deletes the mark, if it is this call's, and wakes who waits for it.
Unmarked(c, devs) == [d \in Peers |-> IF d \in devs /\ inProgress[d] = c THEN Nobody ELSE inProgress[d]]

\* Mutant: the promise is deleted, and never resolved.
NobodyWoken(c, devs) == {}

Woken(c, devs) ==
  {w \in Claimers : at[w] = "waiting" /\ Device(w) \in devs /\ inProgress[Device(w)] = c}

Resolve(c, devs, now) ==
  /\ inProgress' = Unmarked(c, devs)
  /\ at' = [w \in Claimers |-> IF w = c THEN now ELSE IF w \in Woken(c, devs) THEN "reading" ELSE at[w]]

-----------------------------------------------------------------------------
Ensure(c) ==
  /\ at[c] = "idle"
  /\ at' = [at EXCEPT ![c] = "looking"]
  /\ UNCHANGED <<olmSessions, inProgress, next, without, starting, refused, olmFailures>>

\* Mutant: a device that another call has marked is left to that call.
LeavesToTheOther(c) ==
  /\ at[c] = "looking" /\ next[c] <= Len(DevicesOf[c])
  /\ IF inProgress[Device(c)] = Nobody
     THEN /\ inProgress' = [inProgress EXCEPT ![Device(c)] = c]
          /\ at' = [at EXCEPT ![c] = "reading"]
          /\ UNCHANGED next
     ELSE next' = [next EXCEPT ![c] = @ + 1] /\ UNCHANGED <<at, inProgress>>
  /\ UNCHANGED <<olmSessions, without, starting, refused, olmFailures>>

\* Mutant: marks are not waited for.
NeverWaits(c) ==
  /\ at[c] = "looking" /\ next[c] <= Len(DevicesOf[c])
  /\ at' = [at EXCEPT ![c] = "reading"]
  /\ inProgress' = [inProgress EXCEPT ![Device(c)] = IF @ = Nobody THEN c ELSE @]
  /\ UNCHANGED <<olmSessions, next, without, starting, refused, olmFailures>>

\* A device nobody has marked is marked; one of another call is waited for, in getSessionIdForDevice.
Look(c) ==
  /\ at[c] = "looking" /\ next[c] <= Len(DevicesOf[c])
  /\ IF inProgress[Device(c)] \in {Nobody, c}
     THEN inProgress' = [inProgress EXCEPT ![Device(c)] = c] /\ at' = [at EXCEPT ![c] = "reading"]
     ELSE at' = [at EXCEPT ![c] = "waiting"] /\ UNCHANGED inProgress
  /\ UNCHANGED <<olmSessions, next, without, starting, refused, olmFailures>>

\* The store is read: a session is there, and the mark goes; or there is none, and the mark stays.
SessionRead(c) ==
  /\ at[c] = "reading"
  /\ IF Device(c) \in olmSessions
     THEN Resolve(c, {Device(c)}, "looking") /\ UNCHANGED without
     ELSE /\ at' = [at EXCEPT ![c] = "looking"]
          /\ without' = [without EXCEPT ![c] = @ \union {Device(c)}]
          /\ UNCHANGED inProgress
  /\ next' = [next EXCEPT ![c] = @ + 1]
  /\ UNCHANGED <<olmSessions, starting, refused, olmFailures>>

\* The transaction fails: the call throws, and its marks stay.
ReadFails(c) ==
  /\ at[c] = "reading"
  /\ at' = [at EXCEPT ![c] = "broken"]
  /\ OlmFailure
  /\ UNCHANGED <<olmSessions, inProgress, next, without, starting, refused>>

AllRead(c) ==
  /\ at[c] = "looking" /\ next[c] > Len(DevicesOf[c])
  /\ at' = [at EXCEPT ![c] = IF without[c] = {} THEN "done" ELSE "claiming"]
  /\ UNCHANGED <<olmSessions, inProgress, next, without, starting, refused, olmFailures>>

\* Mutant: the error is thrown at once.
ThrowsAtOnce(c) ==
  /\ at[c] = "claiming"
  /\ at' = [at EXCEPT ![c] = "failed"]
  /\ OlmFailure
  /\ UNCHANGED <<olmSessions, inProgress, next, without, starting, refused>>

ClaimFails(c) ==
  /\ at[c] = "claiming"
  /\ Resolve(c, Peers, "failed")
  /\ OlmFailure
  /\ UNCHANGED <<olmSessions, next, without, starting, refused>>

\* The response has one-time keys for some of the devices; the others are given up.
KeysResponse(c) ==
  /\ at[c] = "claiming"
  /\ \E keys \in SUBSET without[c] :
       /\ Resolve(c, without[c] \ keys, IF keys = {} THEN "done" ELSE "starting")
       /\ starting' = [starting EXCEPT ![c] = keys]
       /\ refused' = [refused EXCEPT ![c] = without[c] \ keys]
  /\ UNCHANGED <<olmSessions, next, without, olmFailures>>

\* _verifyKeyAndStartSession: with a bad key or signature there is no session.
SessionStarted(c, d) ==
  /\ at[c] = "starting" /\ d \in starting[c]
  /\ \/ olmSessions' = olmSessions \union {d} /\ UNCHANGED refused
     \/ refused' = [refused EXCEPT ![c] = @ \union {d}] /\ UNCHANGED olmSessions
  /\ starting' = [starting EXCEPT ![c] = @ \ {d}]
  /\ Resolve(c, {d}, IF starting[c] = {d} THEN "done" ELSE "starting")
  /\ UNCHANGED <<next, without, olmFailures>>

-----------------------------------------------------------------------------
CallStep(c) ==
  \/ Look(c) \/ SessionRead(c) \/ ReadFails(c) \/ AllRead(c)
  \/ KeysResponse(c) \/ ClaimFails(c) \/ \E d \in Peers : SessionStarted(c, d)

OlmNext == \E c \in Claimers : Ensure(c) \/ CallStep(c)

OlmSpec == OlmInit /\ [][OlmNext]_olmVars

\* Reads of the store end and requests are answered.
OlmProgress == \E c \in Claimers : CallStep(c)

OlmFairSpec == OlmSpec /\ WF_olmVars(OlmProgress)

-----------------------------------------------------------------------------
(* Properties                                                              *)

Ended == {"done", "failed"}

(* A call that is over has marked nothing as in progress, so that no other *)
(* call waits for it in vain; only a failing read of the store leaves      *)
(* marks behind.                                                           *)
NothingLeftInProgress ==
  \A c \in Claimers, d \in Peers : inProgress[d] = c => at[c] \notin Ended \union {"idle"}

(* A call resolves with a session for each of its devices, also those that *)
(* another call has set up, except those it found no usable one-time key   *)
(* for.                                                                    *)
DoneHasSessions ==
  \A c \in Claimers : at[c] = "done" =>
    \A i \in 1..Len(DevicesOf[c]) : DevicesOf[c][i] \in olmSessions \union refused[c]

(* Two calls claim a one-time key of the same device only when a call for  *)
(* it has come to nothing: a wait is followed by a look at the store.      *)
ClaimedOnce ==
  \A b, c \in Claimers, d \in Peers :
    b # c /\ at[b] = "claiming" /\ at[c] = "claiming" /\ d \in without[b] \intersect without[c] =>
      \E e \in Claimers : at[e] = "failed" \/ d \in refused[e]

(* "resolves once the sessions are complete": every call comes to an end,  *)
(* unless a read of the store has failed.  Calls that go through their     *)
(* devices in one order wait for each other in that order; calls that do   *)
(* not may each wait for a device the other has marked, for ever.          *)
Unended == {c \in Claimers : at[c] \notin Ended \union {"idle"}}

EveryCallEnds == Unended # {} ~> Unended = {} \/ \E c \in Claimers : at[c] = "broken"

=============================================================================
