--------------------------- MODULE SessionsProofs ---------------------------
(***************************************************************************)
(* Theorems about the sessions that encrypt: the outbound Megolm session   *)
(* of a room, and the Olm sessions its keys are sent through.              *)
(***************************************************************************)
EXTENDS MegolmOutbound, OlmSessions, TLAPS

-----------------------------------------------------------------------------
(***************************************************************************)
(* Theorems about the outbound Megolm session, for any devices, messages,  *)
(* slices, failures and changes of the room: whoever a message was meant   *)
(* for can read it; whoever else has its key when it is encrypted got the  *)
(* key with requests whose answers were lost; sessions are rotated in      *)
(* time.                                                                   *)
(*                                                                         *)
(* The invariant follows a session from turn to turn.  The turn that runs  *)
(* shares its session with the audience of its message: the devices that   *)
(* are left and those that are marked make up the audience (TurnShares).   *)
(* When it ends, the devices marked are the audience, and stay so until    *)
(* the message is encrypted, for no turn goes on while a message is ready  *)
(* (ReadyIsShared).  A device that is marked was given the key, or had no  *)
(* one-time key, at an index the session has reached (MarksAreKeys).  A    *)
(* device that was given the key is marked, unless the answer to the       *)
(* request was lost (KeysAreMarked).                                       *)
(***************************************************************************)
USE MegolmAssumption

\* The turn shares the key of its session.
TurnIsSharing == turn.at \in {"claiming", "sending"}

MarksAreKeys ==
  \A s \in Sessions :
    /\ s > created => marked[s] = {} /\ used[s] = 0
    /\ \A k \in marked[s] : k[2] <= used[s] /\ (k \in given[s] \/ k[1] \in keyless[s])

KeysAreMarked ==
  \A s \in Sessions : \A k \in given[s] : k[1] \in SharedWith(s) \union unacknowledged[s]

TurnShares ==
  /\ current <= created
  /\ \A m, n \in Msgs : Turning(m) /\ Turning(n) => m = n
  /\ turn.session <= created
  /\ TurnIsSharing =>
       /\ turn.session \in Sessions /\ turn.key <= used[turn.session]
       /\ \A m \in Msgs : Turning(m) => audience[m] = SharedWith(turn.session) \union turn.left

ReadyIsShared ==
  /\ \A m \in Ready : session[m] \in 1..created /\ SharedWith(session[m]) = audience[m]
  /\ \A m, n \in Ready : m = n

\* The messages that a session may still be used for, of those it has been kept for.
UsedInTime ==
  \A s \in Sessions :
    LET turning == TurnIsSharing /\ turn.session = s
        ready == \E m \in Ready : session[m] = s
    IN /\ used[s] <= RotationMsgs + 1
       /\ turning \/ ready => used[s] <= RotationMsgs
       /\ turning /\ ready => used[s] < RotationMsgs

SentCanBeRead == AudienceCanRead /\ \A m \in Msgs : stage[m] = "sent" => session[m] \in Sessions

MegolmIInv ==
  MegolmTypeOK /\ MarksAreKeys /\ KeysAreMarked /\ TurnShares /\ ReadyIsShared /\ UsedInTime /\ SentCanBeRead

-----------------------------------------------------------------------------
LEMMA TurnType ==
  ASSUME MegolmTypeOK
  PROVE  /\ turn.at \in TurnStages /\ turn.session \in 0..MaxSessions
         /\ turn.key \in Nat /\ turn.left \subseteq Devices
BY DEF MegolmTypeOK

\* Marking devices adds them to those the session is shared with.
LEMMA Marking ==
  ASSUME MegolmTypeOK, NEW s \in Sessions, NEW devs \in SUBSET Devices, NEW key \in Nat,
         marked' = [marked EXCEPT ![s] = @ \union (devs \X {key})]
  PROVE  /\ marked' \in [Sessions -> SUBSET (Devices \X Nat)]
         /\ SharedWith(s)' = SharedWith(s) \union devs
         /\ \A r \in Sessions : r # s => marked'[r] = marked[r]
         /\ \A k \in marked'[s] : k \in marked[s] \/ k \in devs \X {key}
<1>1. /\ marked' \in [Sessions -> SUBSET (Devices \X Nat)]
      /\ marked'[s] = marked[s] \union (devs \X {key})
      /\ \A r \in Sessions : r # s => marked'[r] = marked[r]
  BY DEF MegolmTypeOK
<1>2. SharedWith(s)' = SharedWith(s) \union devs
  <2>1. SharedWith(s)' = {k[1] : k \in marked[s] \union (devs \X {key})}
    BY <1>1 DEF SharedWith
  <2>2. \A d \in devs : <<d, key>> \in devs \X {key} /\ <<d, key>>[1] = d
    OBVIOUS
  <2>3. \A k \in devs \X {key} : k[1] \in devs
    OBVIOUS
  <2>4. SharedWith(s)' \subseteq SharedWith(s) \union devs
    BY <2>1, <2>3 DEF SharedWith
  <2>5. SharedWith(s) \union devs \subseteq SharedWith(s)'
    BY <2>1, <2>2 DEF SharedWith
  <2> QED
    BY <2>4, <2>5
<1> QED
  BY <1>1, <1>2

-----------------------------------------------------------------------------
\* Steps that leave the sessions, the turn and the messages that are ready alone.
LEMMA QuietKeeps ==
  ASSUME MegolmIInv, MegolmTypeOK',
         UNCHANGED <<session, index, current, turn, created, used, marked, keyless, unacknowledged>>,
         \A s \in Sessions : given[s] \subseteq given'[s] /\ given'[s] \subseteq given[s] \union marked[s],
         \A m \in Msgs : stage'[m] \in {"ready", "sent", "preparing"} =>
           stage'[m] = stage[m] /\ audience'[m] = audience[m],
         \A m \in Msgs : stage[m] \in {"ready", "sent", "preparing"} => stage'[m] = stage[m]
  PROVE  MegolmIInv'
<1>1. \A s : SharedWith(s)' = SharedWith(s)
  BY DEF SharedWith
<1>2. /\ \A m \in Msgs : Turning(m)' <=> Turning(m)
      /\ TurnIsSharing' <=> TurnIsSharing
      /\ Ready' = Ready
      /\ SharedWith(turn.session)' = SharedWith(turn.session)
  BY DEF Turning, TurnIsSharing, Ready, SharedWith
<1>3. MarksAreKeys' /\ KeysAreMarked'
  <2>1. \A s \in Sessions : \A k \in marked[s] : k[1] \in SharedWith(s)
    BY DEF SharedWith
  <2> QED
    BY <1>1, <2>1 DEF MegolmIInv, MarksAreKeys, KeysAreMarked
<1>4. TurnShares'
  BY <1>2 DEF MegolmIInv, TurnShares, Turning
<1>5. ReadyIsShared'
  BY <1>1, <1>2 DEF MegolmIInv, ReadyIsShared, Ready
<1>6. UsedInTime'
  BY <1>2 DEF MegolmIInv, UsedInTime
<1>7. SentCanBeRead'
  BY DEF MegolmIInv, SentCanBeRead, AudienceCanRead, MegolmTypeOK
<1> QED
  BY <1>3, <1>4, <1>5, <1>6, <1>7 DEF MegolmIInv

LEMMA RoomKeeps ==
  ASSUME MegolmIInv, \/ \E d \in Devices : RoomChanges(d)
                     \/ \E m \in Msgs : EncryptMessage(m) \/ NotListed(m)
                     \/ ForceDiscardSession
                     \/ \E s \in Sessions, d \in Devices : Reshare(s, d)
  PROVE  MegolmIInv'
<1>1. CASE \E d \in Devices : RoomChanges(d)
  <2>1. MegolmTypeOK'
    BY <1>1 DEF RoomChanges, MegolmIInv, MegolmTypeOK, msgVars, keyVars
  <2> QED
    BY <1>1, <2>1, QuietKeeps DEF RoomChanges, msgVars, keyVars
<1>2. ASSUME NEW m \in Msgs, EncryptMessage(m)
      PROVE  MegolmIInv'
  <2>1. /\ stage' = [stage EXCEPT ![m] = "waiting"] /\ audience' = [audience EXCEPT ![m] = room]
        /\ chain' = Append(chain, m) /\ stage[m] \in {"idle", "failed"}
        /\ UNCHANGED <<room, session, index, current, turn, created, used, keyVars, boundVars>>
    BY <1>2 DEF EncryptMessage, MayEncrypt
  <2>2. /\ stage' \in [Msgs -> Stages] /\ audience' \in [Msgs -> SUBSET Devices]
        /\ stage'[m] = "waiting" /\ \A n \in Msgs : n # m => stage'[n] = stage[n] /\ audience'[n] = audience[n]
    BY <2>1 DEF MegolmIInv, MegolmTypeOK, Stages
  <2>3. chain' \in Seq(Msgs \union {Discard})
    BY <2>1 DEF MegolmIInv, MegolmTypeOK
  <2>4. turn' = NoTurn <=> \A n \in Msgs : stage'[n] # "preparing"
    BY <2>1, <2>2 DEF MegolmIInv, MegolmTypeOK
  <2>5. MegolmTypeOK'
    BY <2>1, <2>2, <2>3, <2>4 DEF MegolmIInv, MegolmTypeOK, keyVars, boundVars
  <2> QED
    BY <2>1, <2>2, <2>5, QuietKeeps DEF keyVars
<1>3. ASSUME NEW m \in Msgs, NotListed(m)
      PROVE  MegolmIInv'
  <2>1. /\ stage' = [stage EXCEPT ![m] = "failed"] /\ stage[m] \in {"idle", "failed"}
        /\ mishaps' \in 0..MaxMishaps /\ changes' = changes
        /\ UNCHANGED <<room, audience, session, index, chain, current, turn, created, used, keyVars>>
    BY <1>3 DEF NotListed, MayEncrypt, Mishap, MegolmIInv, MegolmTypeOK
  <2>2. /\ stage' \in [Msgs -> Stages]
        /\ stage'[m] = "failed" /\ \A n \in Msgs : n # m => stage'[n] = stage[n]
    BY <2>1 DEF MegolmIInv, MegolmTypeOK, Stages
  <2>3. turn' = NoTurn <=> \A n \in Msgs : stage'[n] # "preparing"
    BY <2>1, <2>2 DEF MegolmIInv, MegolmTypeOK
  <2>4. MegolmTypeOK'
    BY <2>1, <2>2, <2>3 DEF MegolmIInv, MegolmTypeOK, keyVars
  <2> QED
    BY <2>1, <2>2, <2>4, QuietKeeps DEF keyVars
<1>4. CASE ForceDiscardSession
  <2>1. chain' \in Seq(Msgs \union {Discard}) /\ mishaps' \in 0..MaxMishaps /\ changes' = changes
    BY <1>4 DEF ForceDiscardSession, Mishap, MegolmIInv, MegolmTypeOK
  <2>2. MegolmTypeOK'
    BY <1>4, <2>1 DEF ForceDiscardSession, MegolmIInv, MegolmTypeOK, msgVars, keyVars
  <2> QED
    BY <1>4, <2>2, QuietKeeps DEF ForceDiscardSession, msgVars, keyVars
<1>5. ASSUME NEW s \in Sessions, NEW d \in Devices, Reshare(s, d)
      PROVE  MegolmIInv'
  <2>1. PICK k \in marked[s] : given' = [given EXCEPT ![s] = @ \union {k}]
    BY <1>5 DEF Reshare
  <2>2. /\ given' \in [Sessions -> SUBSET (Devices \X Nat)]
        /\ \A r \in Sessions : given[r] \subseteq given'[r] /\ given'[r] \subseteq given[r] \union marked[r]
    BY <2>1 DEF MegolmIInv, MegolmTypeOK
  <2>3. MegolmTypeOK'
    BY <1>5, <2>2 DEF Reshare, MegolmIInv, MegolmTypeOK, msgVars, boundVars
  <2> QED
    BY <1>5, <2>2, <2>3, QuietKeeps DEF Reshare, msgVars
<1> QED
  BY <1>1, <1>2, <1>3, <1>4, <1>5

-----------------------------------------------------------------------------
LEMMA DiscardTurnKeeps ==
  ASSUME MegolmIInv, DiscardTurn
  PROVE  MegolmIInv'
<1>1. /\ turn = NoTurn /\ current' = 0 /\ chain # <<>> /\ chain' = Tail(chain)
      /\ UNCHANGED <<room, msgVars, turn, created, used, keyVars, boundVars>>
  BY DEF DiscardTurn
<1>2. chain' \in Seq(Msgs \union {Discard})
  BY <1>1 DEF MegolmIInv, MegolmTypeOK
<1>3. MegolmTypeOK'
  BY <1>1, <1>2 DEF MegolmIInv, MegolmTypeOK, msgVars, keyVars, boundVars
<1>4. TurnShares' /\ ReadyIsShared' /\ UsedInTime'
  <2>1. created \in Nat
    BY DEF MegolmIInv, MegolmTypeOK
  <2> QED
    BY <1>1, <2>1 DEF MegolmIInv, TurnShares, ReadyIsShared, UsedInTime, Turning, TurnIsSharing, Ready, SharedWith, msgVars, keyVars
<1>5. MarksAreKeys' /\ KeysAreMarked' /\ SentCanBeRead'
  BY <1>1 DEF MegolmIInv, MarksAreKeys, KeysAreMarked, SharedWith, SentCanBeRead, AudienceCanRead, msgVars, keyVars
<1> QED
  BY <1>3, <1>4, <1>5 DEF MegolmIInv

\* A session whose turn it is: kept, or just made.
LEMMA SharingStarts ==
  ASSUME MegolmIInv, NEW m \in Msgs, NEW s \in Sessions, created' \in 0..MaxSessions,
         created <= created', s <= created', SharedWith(s) \subseteq audience[m],
         used[s] < RotationMsgs,
         turn' = Sharing(m, s), Turning(m)', \A n \in Msgs : Turning(n)' => n = m,
         \A n \in Msgs : n # m => stage'[n] = stage[n],
         \A n \in Msgs : stage[n] = "ready" => n # m \/ stage'[m] = "preparing",
         UNCHANGED <<room, audience, session, index, current, used, keyVars>>,
         chain' \in Seq(Msgs \union {Discard}), stage' \in [Msgs -> Stages],
         mishaps' \in 0..MaxMishaps, changes' \in 0..MaxChanges
  PROVE  MegolmIInv'
<1>1. /\ turn' = [at |-> "claiming", session |-> s, key |-> used[s], left |-> audience[m] \ SharedWith(s)]
      /\ used[s] \in Nat /\ s \in 0..MaxSessions /\ audience[m] \subseteq Devices
      /\ created \in Nat /\ created' \in Nat
  BY DEF Sharing, MegolmIInv, MegolmTypeOK, Sessions
<1>2. Ready' \subseteq Ready
  BY DEF Ready, Turning
<1>3. MegolmTypeOK'
  <2>1. turn' \in [at : TurnStages, session : 0..MaxSessions, key : Nat, left : SUBSET Devices]
    BY <1>1 DEF TurnStages
  <2>2. turn' # NoTurn /\ ~(\A n \in Msgs : stage'[n] # "preparing")
    BY <1>1 DEF NoTurn, Turning
  <2> QED
    BY <2>1, <2>2 DEF MegolmIInv, MegolmTypeOK, keyVars
<1>4. MarksAreKeys' /\ KeysAreMarked'
  BY <1>1 DEF MegolmIInv, MarksAreKeys, KeysAreMarked, SharedWith, keyVars, Sessions
<1>5. TurnShares'
  <2>1. SharedWith(s)' = SharedWith(s)
    BY DEF SharedWith, keyVars
  <2>2. turn'.session = s /\ turn'.key = used[s] /\ turn'.left = audience[m] \ SharedWith(s)
    BY <1>1
  <2>3. \A n \in Msgs : Turning(n)' => audience'[n] = SharedWith(s)' \union turn'.left
    BY <2>1, <2>2
  <2>4. current' <= created'
    BY <1>1 DEF MegolmIInv, TurnShares, MegolmTypeOK
  <2> QED
    BY <1>1, <2>2, <2>3, <2>4 DEF TurnShares, SharedWith, keyVars
<1>6. ReadyIsShared'
  BY <1>1, <1>2 DEF MegolmIInv, ReadyIsShared, SharedWith, keyVars
<1>7. UsedInTime'
  <2> SUFFICES ASSUME NEW r \in Sessions
               PROVE  LET turning == TurnIsSharing' /\ turn'.session = r
                          ready == \E n \in Ready' : session'[n] = r
                      IN /\ used'[r] <= RotationMsgs + 1
                         /\ turning \/ ready => used'[r] <= RotationMsgs
                         /\ turning /\ ready => used'[r] < RotationMsgs
    BY DEF UsedInTime
  <2>1. used'[r] = used[r] /\ used[r] \in Nat
    BY DEF MegolmIInv, MegolmTypeOK
  <2>2. CASE r = s
    BY <2>1, <2>2
  <2>3. CASE r # s
    BY <1>1, <1>2, <2>1, <2>3 DEF MegolmIInv, UsedInTime
  <2> QED
    BY <2>2, <2>3
<1>8. SentCanBeRead'
  <2>1. \A n \in Msgs : stage'[n] = "sent" => stage[n] = "sent"
    BY DEF Turning
  <2> QED
    BY <2>1 DEF MegolmIInv, SentCanBeRead, AudienceCanRead, keyVars
<1> QED
  BY <1>3, <1>4, <1>5, <1>6, <1>7, <1>8 DEF MegolmIInv

LEMMA StartTurnKeeps ==
  ASSUME MegolmIInv, NEW m \in Msgs, StartTurn(m)
  PROVE  MegolmIInv'
<1>1. /\ turn = NoTurn /\ chain # <<>> /\ chain' = Tail(chain)
      /\ stage' = [stage EXCEPT ![m] = "preparing"]
      /\ UNCHANGED <<room, audience, session, index, current, created, used, keyVars, mishaps>>
      /\ turn' = Creating \/ \E tooOld \in BOOLEAN : Keeps(m, tooOld) /\ turn' = Sharing(m, current)
  BY DEF StartTurn
<1>2. chain' \in Seq(Msgs \union {Discard})
  BY <1>1 DEF MegolmIInv, MegolmTypeOK
<1>3. /\ stage' \in [Msgs -> Stages] /\ stage'[m] = "preparing"
      /\ \A n \in Msgs : n # m => stage'[n] = stage[n] /\ stage'[n] # "preparing"
  BY <1>1 DEF MegolmIInv, MegolmTypeOK, Stages
<1>4. mishaps' \in 0..MaxMishaps /\ changes' \in 0..MaxChanges
  BY DEF StartTurn, MegolmIInv, MegolmTypeOK
<1>5. Ready' \subseteq Ready
  BY <1>3 DEF Ready
<1>6. CASE turn' = Creating
  <2>1. turn' = [at |-> "creating", session |-> 0, key |-> 0, left |-> {}] /\ ~TurnIsSharing'
    BY <1>6 DEF Creating, TurnIsSharing
  <2>2. MegolmTypeOK'
    <3>1. turn' \in [at : TurnStages, session : 0..MaxSessions, key : Nat, left : SUBSET Devices]
      BY <2>1 DEF TurnStages
    <3>2. turn' # NoTurn /\ ~(\A n \in Msgs : stage'[n] # "preparing")
      BY <1>3, <2>1 DEF NoTurn
    <3> QED
      BY <1>1, <1>2, <1>3, <1>4, <3>1, <3>2 DEF MegolmIInv, MegolmTypeOK, keyVars
  <2>3. TurnShares'
    <3>1. turn'.session = 0 /\ created \in Nat
      BY <2>1 DEF MegolmIInv, MegolmTypeOK
    <3> QED
      BY <1>1, <1>3, <2>1, <3>1 DEF MegolmIInv, TurnShares, Turning
  <2>4. MarksAreKeys' /\ KeysAreMarked' /\ SentCanBeRead'
    BY <1>1, <1>3 DEF MegolmIInv, MarksAreKeys, KeysAreMarked, SharedWith, SentCanBeRead, AudienceCanRead, keyVars
  <2>5. ReadyIsShared'
    BY <1>1, <1>5 DEF MegolmIInv, ReadyIsShared, SharedWith, keyVars
  <2>6. UsedInTime'
    BY <1>1, <1>5, <2>1 DEF MegolmIInv, UsedInTime
  <2> QED
    BY <2>2, <2>3, <2>4, <2>5, <2>6 DEF MegolmIInv
<1>7. ASSUME NEW tooOld \in BOOLEAN, Keeps(m, tooOld), turn' = Sharing(m, current)
      PROVE  MegolmIInv'
  <2>1. current \in Sessions /\ current <= created /\ created \in 0..MaxSessions /\ created' = created
    BY <1>1, <1>7 DEF Keeps, Sessions, MegolmIInv, MegolmTypeOK, TurnShares
  <2>2. used[current] < RotationMsgs /\ SharedWith(current) \subseteq audience[m]
    BY <1>7, <2>1 DEF Keeps, NeedsRotation, SharedWithTooMany, MegolmIInv, MegolmTypeOK
  <2>3. created <= created' /\ current <= created'
    BY <2>1
  <2>4. Turning(m)' /\ \A n \in Msgs : Turning(n)' => n = m
    BY <1>3 DEF Turning
  <2>5. PICK s \in Sessions : s = current
    BY <2>1
  <2> QED
    BY <1>1, <1>2, <1>3, <1>4, <1>7, <2>1, <2>2, <2>3, <2>4, <2>5, SharingStarts
<1> QED
  BY <1>1, <1>6, <1>7

LEMMA SessionCreatedKeeps ==
  ASSUME MegolmIInv, NEW m \in Msgs, SessionCreated(m)
  PROVE  MegolmIInv'
<1>1. /\ Calm /\ Turning(m) /\ created < MaxSessions /\ created' = created + 1
      /\ turn' = Sharing(m, created + 1)
      /\ UNCHANGED <<room, msgVars, chain, current, used, keyVars, boundVars>>
  BY DEF SessionCreated
<1>2. created \in Nat /\ created + 1 \in Sessions
  BY <1>1 DEF MegolmIInv, MegolmTypeOK, Sessions
<1>3. PICK s \in Sessions : s = created + 1
  BY <1>2
<1>4. marked[s] = {} /\ used[s] = 0
  BY <1>2, <1>3 DEF MegolmIInv, MarksAreKeys
<1>5. SharedWith(s) = {}
  BY <1>4 DEF SharedWith
<1>6. Turning(m)' /\ \A n \in Msgs : Turning(n)' => n = m
  BY <1>1 DEF Turning, MegolmIInv, TurnShares, msgVars
<1>7. created' \in 0..MaxSessions /\ created <= created' /\ s <= created' /\ used[s] < RotationMsgs
  BY <1>1, <1>2, <1>3, <1>4
<1>8. \A n \in Msgs : stage[n] = "ready" => n # m
  BY <1>1 DEF Turning
<1>9. /\ chain' \in Seq(Msgs \union {Discard}) /\ stage' \in [Msgs -> Stages]
      /\ mishaps' \in 0..MaxMishaps /\ changes' \in 0..MaxChanges
  BY <1>1 DEF MegolmIInv, MegolmTypeOK, msgVars, boundVars
<1> QED
  BY <1>1, <1>3, <1>5, <1>6, <1>7, <1>8, <1>9, SharingStarts DEF msgVars

\* A turn that ends leaves its session to the next one.
LEMMA EndTurnEffect ==
  ASSUME MegolmTypeOK, TurnShares, NEW m \in Msgs, Turning(m), NEW result \in {"ready", "failed"},
         EndTurn(m, turn.session, result)
  PROVE  /\ turn' = NoTurn /\ current' = turn.session /\ current' \in 0..MaxSessions
         /\ stage' \in [Msgs -> Stages] /\ stage'[m] = result
         /\ \A n \in Msgs : n # m =>
              stage'[n] = stage[n] /\ session'[n] = session[n] /\ stage[n] # "preparing"
         /\ session' \in [Msgs -> 0..MaxSessions]
         /\ session'[m] = IF result = "ready" THEN turn.session ELSE session[m]
<1>1. turn.session \in 0..MaxSessions
  BY TurnType
<1>2. \A n \in Msgs : n # m => stage[n] # "preparing"
  BY DEF TurnShares, Turning
<1> QED
  BY <1>1, <1>2 DEF EndTurn, MegolmTypeOK, Stages

\* Some of the devices that are left are marked, having been given the key or not.
LEMMA ShareKeeps ==
  ASSUME MegolmIInv, NEW m \in Msgs, Calm, Turning(m), TurnIsSharing, NEW devs \in SUBSET turn.left,
         marked' = [marked EXCEPT ![turn.session] = @ \union (devs \X {turn.key})],
         given' \in [Sessions -> SUBSET (Devices \X Nat)],
         keyless' \in [Sessions -> SUBSET Devices],
         \A r \in Sessions : given[r] \subseteq given'[r] /\ keyless[r] \subseteq keyless'[r],
         \A k \in devs \X {turn.key} : k \in given'[turn.session] \/ k[1] \in keyless'[turn.session],
         \A r \in Sessions : \A k \in given'[r] :
           k \in given[r] \/ (r = turn.session /\ k \in devs \X {turn.key}),
         EndsOrGoesOn(m, turn.left \ devs),
         UNCHANGED <<room, audience, index, chain, created, used, unacknowledged, boundVars>>
  PROVE  MegolmIInv'
<1>0. MegolmTypeOK /\ TurnShares
  BY DEF MegolmIInv
<1>1. /\ turn.session \in Sessions /\ turn.session <= created /\ turn.key \in Nat
      /\ turn.key <= used[turn.session] /\ turn.left \subseteq Devices /\ turn.at \in TurnStages
      /\ audience[m] = SharedWith(turn.session) \union turn.left
      /\ created \in 0..MaxSessions
  BY <1>0, TurnType DEF TurnShares, MegolmTypeOK
<1>2. PICK s \in Sessions, key \in Nat : s = turn.session /\ key = turn.key
  BY <1>1
<1>3. /\ marked' \in [Sessions -> SUBSET (Devices \X Nat)]
      /\ SharedWith(s)' = SharedWith(s) \union devs
      /\ \A r \in Sessions : r # s => marked'[r] = marked[r]
      /\ \A k \in marked'[s] : k \in marked[s] \/ k \in devs \X {key}
  BY <1>0, <1>1, <1>2, Marking
<1>4. MarksAreKeys'
  <2>1. \A k \in devs \X {key} : k[2] = key
    OBVIOUS
  <2> SUFFICES ASSUME NEW r \in Sessions
               PROVE  /\ r > created => marked'[r] = {} /\ used[r] = 0
                      /\ \A k \in marked'[r] : k[2] <= used[r] /\ (k \in given'[r] \/ k[1] \in keyless'[r])
    BY DEF MarksAreKeys
  <2>2. CASE r = s
    <3>1. ~(r > created)
      BY <1>1, <1>2, <2>2 DEF Sessions
    <3>2. ASSUME NEW k \in marked'[s]
          PROVE  k[2] <= used[s] /\ (k \in given'[s] \/ k[1] \in keyless'[s])
      <4>1. CASE k \in marked[s]
        BY <4>1 DEF MegolmIInv, MarksAreKeys
      <4>2. CASE k \in devs \X {key}
        BY <1>1, <1>2, <2>1, <4>2
      <4> QED
        BY <1>3, <4>1, <4>2
    <3> QED
      BY <2>2, <3>1, <3>2
  <2>3. CASE r # s
    BY <1>3, <2>3 DEF MegolmIInv, MarksAreKeys
  <2> QED
    BY <2>2, <2>3
<1>4a. KeysAreMarked'
  <2> SUFFICES ASSUME NEW r \in Sessions, NEW k \in given'[r]
               PROVE  k[1] \in SharedWith(r)' \union unacknowledged[r]
    BY DEF KeysAreMarked
  <2>1. SharedWith(r) \subseteq SharedWith(r)'
    BY <1>3 DEF SharedWith
  <2>2. CASE k \in given[r]
    BY <2>1, <2>2 DEF MegolmIInv, KeysAreMarked
  <2>3. CASE r = turn.session /\ k \in devs \X {turn.key}
    <3>1. k[1] \in devs
      BY <2>3
    <3> QED
      BY <1>2, <1>3, <2>3, <3>1
  <2> QED
    BY <2>2, <2>3
<1>5. Ready = {} /\ \A n \in Msgs : n # m => stage[n] # "preparing"
  BY DEF Calm, MegolmIInv, TurnShares, Turning
<1>6. CASE turn.left \ devs = {}
  <2>1. EndTurn(m, turn.session, "ready")
    BY <1>6 DEF EndsOrGoesOn
  <2>2. /\ turn' = NoTurn /\ current' = turn.session /\ current' \in 0..MaxSessions
        /\ stage' \in [Msgs -> Stages] /\ stage'[m] = "ready"
        /\ \A n \in Msgs : n # m =>
             stage'[n] = stage[n] /\ session'[n] = session[n] /\ stage[n] # "preparing"
        /\ session' \in [Msgs -> 0..MaxSessions]
        /\ session'[m] = turn.session
    BY <1>0, <2>1, EndTurnEffect
  <2>3. Ready' = {m}
    BY <1>5, <2>2 DEF Ready
  <2>4. MegolmTypeOK'
    <3>1. turn' \in [at : TurnStages, session : 0..MaxSessions, key : Nat, left : SUBSET Devices]
      BY <2>2 DEF NoTurn, TurnStages
    <3>2. \A n \in Msgs : stage'[n] # "preparing"
      BY <2>2
    <3> QED
      BY <1>0, <1>3, <2>2, <3>1, <3>2 DEF MegolmTypeOK, boundVars
  <2>5. TurnShares'
    <3>1. turn'.session = 0 /\ ~TurnIsSharing'
      BY <2>2 DEF NoTurn, TurnIsSharing
    <3> QED
      BY <1>1, <2>2, <3>1 DEF TurnShares, Turning
  <2>6. ReadyIsShared'
    <3>1. session'[m] = s /\ s \in 1..created
      BY <1>1, <1>2, <2>2 DEF Sessions
    <3>2. SharedWith(s)' = audience[m]
      BY <1>1, <1>2, <1>3, <1>6
    <3>3. SharedWith(session[m])' = SharedWith(s)'
      BY <3>1 DEF SharedWith
    <3> QED
      BY <2>3, <3>1, <3>2, <3>3 DEF ReadyIsShared
  <2>7. UsedInTime'
    <3>1. ~TurnIsSharing'
      BY <2>2 DEF NoTurn, TurnIsSharing
    <3>2. \A r \in Sessions : (\E n \in Ready' : session'[n] = r) => r = turn.session
      BY <2>2, <2>3
    <3> QED
      BY <3>1, <3>2 DEF MegolmIInv, UsedInTime
  <2>8. SentCanBeRead'
    <3>1. \A n \in Msgs : stage'[n] = "sent" => stage[n] = "sent" /\ session'[n] = session[n]
      BY <2>2
    <3> QED
      BY <3>1 DEF MegolmIInv, SentCanBeRead, AudienceCanRead
  <2> QED
    BY <1>4, <1>4a, <2>4, <2>5, <2>6, <2>7, <2>8 DEF MegolmIInv
<1>7. CASE turn.left \ devs # {}
  <2>1. /\ turn' = [at |-> "sending", session |-> turn.session, key |-> turn.key, left |-> turn.left \ devs]
        /\ UNCHANGED <<current, stage, session>>
    BY <1>7 DEF EndsOrGoesOn, Sending
  <2>2. MegolmTypeOK'
    <3>1. turn' \in [at : TurnStages, session : 0..MaxSessions, key : Nat, left : SUBSET Devices]
      BY <1>0, <1>1, <2>1, TurnType DEF TurnStages
    <3>2. turn' # NoTurn /\ ~(\A n \in Msgs : stage'[n] # "preparing")
      BY <2>1 DEF NoTurn, Turning
    <3> QED
      BY <1>0, <1>3, <2>1, <3>1, <3>2 DEF MegolmTypeOK, boundVars
  <2>3. Ready' = {}
    BY <1>5, <2>1 DEF Ready
  <2>4. TurnShares'
    <3>1. turn'.session = s /\ turn'.key = key /\ turn'.left = turn.left \ devs
      BY <1>2, <2>1
    <3>2. SharedWith(turn.session)' = SharedWith(s)'
      BY <3>1 DEF SharedWith
    <3>3. audience[m] = SharedWith(s)' \union turn'.left
      BY <1>1, <1>2, <1>3, <3>1
    <3>4. \A n \in Msgs : Turning(n)' => n = m
      BY <1>5, <2>1 DEF Turning
    <3> QED
      BY <1>0, <1>1, <1>2, <2>1, <3>1, <3>2, <3>3, <3>4 DEF TurnShares
  <2>5. UsedInTime'
    BY <2>1, <2>3 DEF MegolmIInv, UsedInTime, TurnIsSharing
  <2>6. ReadyIsShared' /\ SentCanBeRead'
    BY <2>1, <2>3 DEF MegolmIInv, ReadyIsShared, SentCanBeRead, AudienceCanRead
  <2> QED
    BY <1>4, <1>4a, <2>2, <2>4, <2>5, <2>6 DEF MegolmIInv
<1> QED
  BY <1>6, <1>7

LEMMA ShareStepsKeep ==
  ASSUME MegolmIInv, NEW m \in Msgs, KeysClaimed(m) \/ SliceSent(m)
  PROVE  MegolmIInv'
<1>1. MegolmTypeOK /\ turn.key \in Nat /\ turn.left \subseteq Devices /\ TurnIsSharing /\ turn.session \in Sessions
  BY TurnType DEF KeysClaimed, SliceSent, TurnIsSharing, MegolmIInv, TurnShares
<1>2. CASE KeysClaimed(m)
  <2>1. PICK none \in SUBSET turn.left :
          /\ marked' = [marked EXCEPT ![turn.session] = @ \union (none \X {turn.key})]
          /\ keyless' = [keyless EXCEPT ![turn.session] = @ \union none]
          /\ EndsOrGoesOn(m, turn.left \ none)
    BY <1>2 DEF KeysClaimed
  <2>2. /\ Calm /\ Turning(m) /\ given' = given
        /\ UNCHANGED <<room, audience, index, chain, created, used, unacknowledged, boundVars>>
    BY <1>2 DEF KeysClaimed
  <2>3. /\ keyless' \in [Sessions -> SUBSET Devices] /\ none \subseteq keyless'[turn.session]
        /\ \A r \in Sessions : given[r] \subseteq given'[r] /\ keyless[r] \subseteq keyless'[r]
        /\ given' \in [Sessions -> SUBSET (Devices \X Nat)]
    BY <1>1, <2>1, <2>2 DEF MegolmTypeOK
  <2>4. \A k \in none \X {turn.key} : k[1] \in keyless'[turn.session]
    BY <2>3
  <2> QED
    BY <1>1, <2>1, <2>2, <2>3, <2>4, ShareKeeps
<1>3. CASE SliceSent(m)
  <2>1. PICK slice \in SUBSET turn.left :
          /\ given' = [given EXCEPT ![turn.session] = @ \union (slice \X {turn.key})]
          /\ marked' = [marked EXCEPT ![turn.session] = @ \union (slice \X {turn.key})]
          /\ EndsOrGoesOn(m, turn.left \ slice)
    BY <1>3 DEF SliceSent
  <2>2. /\ Calm /\ Turning(m) /\ keyless' = keyless
        /\ UNCHANGED <<room, audience, index, chain, created, used, unacknowledged, boundVars>>
    BY <1>3 DEF SliceSent
  <2>3. slice \X {turn.key} \subseteq Devices \X Nat
    BY <1>1
  <2>4. /\ given' \in [Sessions -> SUBSET (Devices \X Nat)]
        /\ slice \X {turn.key} \subseteq given'[turn.session]
        /\ \A r \in Sessions : given[r] \subseteq given'[r] /\ keyless[r] \subseteq keyless'[r]
        /\ keyless' \in [Sessions -> SUBSET Devices]
        /\ \A r \in Sessions : \A k \in given'[r] :
             k \in given[r] \/ (r = turn.session /\ k \in slice \X {turn.key})
    <3> DEFINE new == slice \X {turn.key}
    <3> HIDE DEF new
    <3>1. new \subseteq Devices \X Nat /\ given' = [given EXCEPT ![turn.session] = @ \union new]
      BY <2>1, <2>3 DEF new
    <3>2. /\ given' \in [Sessions -> SUBSET (Devices \X Nat)] /\ new \subseteq given'[turn.session]
          /\ \A r \in Sessions : given[r] \subseteq given'[r] /\ keyless[r] \subseteq keyless'[r]
          /\ keyless' \in [Sessions -> SUBSET Devices]
          /\ \A r \in Sessions : \A k \in given'[r] : k \in given[r] \/ (r = turn.session /\ k \in new)
      BY <1>1, <2>2, <3>1 DEF MegolmTypeOK
    <3> QED
      BY <3>2 DEF new
  <2>5. \A k \in slice \X {turn.key} : k \in given'[turn.session]
    BY <2>4
  <2> QED
    BY <1>1, <2>1, <2>2, <2>4, <2>5, ShareKeeps
<1> QED
  BY <1>2, <1>3

LEMMA TurnFailsKeeps ==
  ASSUME MegolmIInv, NEW m \in Msgs, TurnFails(m)
  PROVE  MegolmIInv'
<1>0. MegolmTypeOK /\ TurnShares
  BY DEF MegolmIInv
<1>1. /\ Calm /\ Turning(m) /\ EndTurn(m, turn.session, "failed")
      /\ mishaps' \in 0..MaxMishaps /\ changes' = changes
      /\ UNCHANGED <<room, audience, index, chain, created, used, marked, keyless>>
  BY <1>0 DEF TurnFails, Mishap, MegolmTypeOK
<1>2. /\ turn' = NoTurn /\ current' = turn.session /\ current' \in 0..MaxSessions
      /\ stage' \in [Msgs -> Stages] /\ stage'[m] = "failed"
      /\ \A n \in Msgs : n # m =>
           stage'[n] = stage[n] /\ session'[n] = session[n] /\ stage[n] # "preparing"
      /\ session' \in [Msgs -> 0..MaxSessions]
      /\ session'[m] = session[m]
  BY <1>0, <1>1, EndTurnEffect
<1>3. /\ given' \in [Sessions -> SUBSET (Devices \X Nat)]
      /\ unacknowledged' \in [Sessions -> SUBSET Devices]
      /\ \A r \in Sessions : given[r] \subseteq given'[r] /\ unacknowledged[r] \subseteq unacknowledged'[r]
      /\ \A r \in Sessions : \A k \in given'[r] : k \in given[r] \/ k[1] \in unacknowledged'[r]
  <2>1. CASE UNCHANGED <<given, unacknowledged>>
    BY <1>0, <2>1 DEF MegolmTypeOK
  <2>2. ASSUME turn.at = "sending", NEW slice \in SUBSET turn.left,
               given' = [given EXCEPT ![turn.session] = @ \union (slice \X {turn.key})],
               unacknowledged' = [unacknowledged EXCEPT ![turn.session] = @ \union slice]
        PROVE  <1>3!:
    <3> DEFINE new == slice \X {turn.key}
    <3>1. new \subseteq Devices \X Nat /\ slice \subseteq Devices /\ \A k \in new : k[1] \in slice
      BY <1>0, TurnType
    <3>2. turn.session \in Sessions
      BY <1>0, <2>2 DEF TurnShares, TurnIsSharing
    <3> HIDE DEF new
    <3>3. given' = [given EXCEPT ![turn.session] = @ \union new]
      BY <2>2 DEF new
    <3>4. /\ given' \in [Sessions -> SUBSET (Devices \X Nat)]
          /\ \A r \in Sessions : given[r] \subseteq given'[r]
          /\ \A r \in Sessions : \A k \in given'[r] : k \in given[r] \/ (r = turn.session /\ k \in new)
      BY <1>0, <3>1, <3>2, <3>3 DEF MegolmTypeOK
    <3>5. /\ unacknowledged' \in [Sessions -> SUBSET Devices]
          /\ \A r \in Sessions : unacknowledged[r] \subseteq unacknowledged'[r]
          /\ slice \subseteq unacknowledged'[turn.session]
      BY <1>0, <2>2, <3>1, <3>2 DEF MegolmTypeOK
    <3> QED
      BY <3>1, <3>4, <3>5
  <2> QED
    BY <2>1, <2>2 DEF TurnFails
<1>4. Ready = {} /\ Ready' = {}
  BY <1>1, <1>2 DEF Calm, Ready
<1>5. MegolmTypeOK'
  <2>1. turn' \in [at : TurnStages, session : 0..MaxSessions, key : Nat, left : SUBSET Devices]
    BY <1>2 DEF NoTurn, TurnStages
  <2>2. \A n \in Msgs : stage'[n] # "preparing"
    BY <1>2
  <2> QED
    BY <1>0, <1>1, <1>2, <1>3, <2>1, <2>2 DEF MegolmTypeOK
<1>6. MarksAreKeys' /\ KeysAreMarked'
  <2>1. \A r \in Sessions : SharedWith(r)' = SharedWith(r)
    BY <1>1 DEF SharedWith
  <2> QED
    BY <1>1, <1>3, <2>1 DEF MegolmIInv, MarksAreKeys, KeysAreMarked
<1>7. TurnShares' /\ UsedInTime'
  <2>1. turn'.session = 0 /\ ~TurnIsSharing' /\ created \in Nat
    BY <1>0, <1>2 DEF NoTurn, TurnIsSharing, MegolmTypeOK
  <2>2. TurnShares'
    BY <1>0, <1>1, <1>2, <2>1 DEF TurnShares, Turning
  <2>3. UsedInTime'
    BY <1>1, <1>4, <2>1 DEF MegolmIInv, UsedInTime
  <2> QED
    BY <2>2, <2>3
<1>8. ReadyIsShared'
  BY <1>4 DEF ReadyIsShared
<1>9. SentCanBeRead'
  <2>1. \A n \in Msgs : stage'[n] = "sent" => stage[n] = "sent" /\ session'[n] = session[n]
    BY <1>2
  <2> QED
    BY <1>1, <1>3, <2>1 DEF MegolmIInv, SentCanBeRead, AudienceCanRead
<1> QED
  BY <1>5, <1>6, <1>7, <1>8, <1>9 DEF MegolmIInv

LEMMA EncryptKeeps ==
  ASSUME MegolmIInv, NEW m \in Msgs, Encrypt(m)
  PROVE  MegolmIInv'
<1>0. MegolmTypeOK
  BY DEF MegolmIInv
<1>1. /\ stage[m] = "ready" /\ stage' = [stage EXCEPT ![m] = "sent"]
      /\ index' = [index EXCEPT ![m] = used[session[m]]]
      /\ used' = [used EXCEPT ![session[m]] = @ + 1]
      /\ UNCHANGED <<room, audience, session, chain, current, turn, created, keyVars, boundVars>>
  BY DEF Encrypt
<1>2. /\ m \in Ready /\ session[m] \in 1..created /\ SharedWith(session[m]) = audience[m]
      /\ Ready = {m} /\ created \in 0..MaxSessions
  BY <1>0, <1>1 DEF MegolmIInv, ReadyIsShared, Ready, MegolmTypeOK
<1>3. PICK s \in Sessions : s = session[m] /\ s <= created
  BY <1>2 DEF Sessions
<1>4. /\ stage' \in [Msgs -> Stages] /\ stage'[m] = "sent"
      /\ \A n \in Msgs : n # m => stage'[n] = stage[n] /\ index'[n] = index[n]
      /\ index' \in [Msgs -> Nat] /\ index'[m] = used[s]
      /\ used' \in [Sessions -> Nat] /\ used'[s] = used[s] + 1 /\ used[s] \in Nat
      /\ \A r \in Sessions : r # s => used'[r] = used[r]
  BY <1>0, <1>1, <1>3 DEF MegolmTypeOK, Stages
<1>5. Ready' = {}
  BY <1>2, <1>4 DEF Ready
<1>6. MegolmTypeOK'
  <2>1. turn' = NoTurn <=> \A n \in Msgs : stage'[n] # "preparing"
    BY <1>0, <1>1, <1>4 DEF MegolmTypeOK
  <2> QED
    BY <1>0, <1>1, <1>4, <2>1 DEF MegolmTypeOK, keyVars, boundVars
<1>7. \A r \in Sessions : used[r] \in Nat /\ used[r] <= used'[r]
  <2> SUFFICES ASSUME NEW r \in Sessions PROVE used[r] \in Nat /\ used[r] <= used'[r]
    OBVIOUS
  <2>1. used[r] \in Nat
    BY <1>0 DEF MegolmTypeOK
  <2>2. r # s => used'[r] = used[r]
    BY <1>4
  <2>3. used'[s] = used[s] + 1
    BY <1>4
  <2> QED
    BY <2>1, <2>2, <2>3
<1>8. MarksAreKeys'
  <2> SUFFICES ASSUME NEW r \in Sessions
               PROVE  /\ r > created => marked[r] = {} /\ used'[r] = 0
                      /\ \A k \in marked[r] : k[2] <= used'[r] /\ (k \in given[r] \/ k[1] \in keyless[r])
    BY <1>1 DEF MarksAreKeys, keyVars
  <2>1. r > created => r # s
    BY <1>2, <1>3 DEF Sessions
  <2>2. \A k \in marked[r] : k[2] \in Nat
    BY <1>0 DEF MegolmTypeOK
  <2> QED
    BY <1>4, <1>7, <2>1, <2>2 DEF MegolmIInv, MarksAreKeys
<1>8a. KeysAreMarked'
  BY <1>1 DEF MegolmIInv, KeysAreMarked, SharedWith, keyVars
<1>9. TurnShares'
  <2>1. \A n \in Msgs : Turning(n)' <=> Turning(n)
    BY <1>1, <1>4 DEF Turning
  <2>2. TurnIsSharing' <=> TurnIsSharing
    BY <1>1 DEF TurnIsSharing
  <2>3. SharedWith(turn.session)' = SharedWith(turn.session)
    BY <1>1 DEF SharedWith, keyVars
  <2>4. TurnIsSharing => turn.key <= used'[turn.session]
    <3> SUFFICES ASSUME TurnIsSharing PROVE turn.key <= used'[turn.session]
      OBVIOUS
    <3>1. turn.session \in Sessions /\ turn.key <= used[turn.session] /\ turn.key \in Nat
      BY <1>0, TurnType DEF MegolmIInv, TurnShares
    <3>2. used[turn.session] \in Nat /\ used'[turn.session] \in Nat /\ used[turn.session] <= used'[turn.session]
      BY <1>4, <1>7, <3>1
    <3> QED
      BY <3>1, <3>2
  <2> QED
    BY <1>1, <2>1, <2>2, <2>3, <2>4 DEF MegolmIInv, TurnShares
<1>10. ReadyIsShared'
  BY <1>5 DEF ReadyIsShared
<1>11. UsedInTime'
  <2> SUFFICES ASSUME NEW r \in Sessions
               PROVE  /\ used'[r] <= RotationMsgs + 1
                      /\ TurnIsSharing' /\ turn'.session = r => used'[r] <= RotationMsgs
    BY <1>5 DEF UsedInTime
  <2>1. CASE r # s
    BY <1>1, <1>4, <2>1 DEF MegolmIInv, UsedInTime, TurnIsSharing
  <2>2. CASE r = s
    <3>1. \E n \in Ready : session[n] = s
      BY <1>2, <1>3
    <3>2. used[s] <= RotationMsgs /\ (TurnIsSharing /\ turn.session = s => used[s] < RotationMsgs)
      BY <3>1 DEF MegolmIInv, UsedInTime
    <3> QED
      BY <1>1, <1>4, <2>2, <3>2 DEF TurnIsSharing
  <2> QED
    BY <2>1, <2>2
<1>12. SentCanBeRead'
  <2>1. \A d \in audience[m] : (\E k \in given[s] : k[1] = d /\ k[2] <= used[s]) \/ d \in keyless[s]
    <3> SUFFICES ASSUME NEW d \in audience[m]
                 PROVE  (\E k \in given[s] : k[1] = d /\ k[2] <= used[s]) \/ d \in keyless[s]
      OBVIOUS
    <3>1. PICK k \in marked[s] : k[1] = d
      BY <1>2, <1>3 DEF SharedWith
    <3>2. k[2] <= used[s] /\ (k \in given[s] \/ k[1] \in keyless[s])
      BY DEF MegolmIInv, MarksAreKeys
    <3> QED
      BY <3>1, <3>2
  <2> SUFFICES ASSUME NEW n \in Msgs, stage'[n] = "sent"
               PROVE  /\ session[n] \in Sessions
                      /\ \A d \in audience[n] :
                           \/ \E k \in given[session[n]] : k[1] = d /\ k[2] <= index'[n]
                           \/ d \in keyless[session[n]]
    BY <1>1 DEF SentCanBeRead, AudienceCanRead, keyVars
  <2>2. CASE n = m
    BY <1>3, <1>4, <2>1, <2>2
  <2>3. CASE n # m
    BY <1>4, <2>3 DEF MegolmIInv, SentCanBeRead, AudienceCanRead
  <2> QED
    BY <2>2, <2>3
<1> QED
  BY <1>6, <1>8, <1>8a, <1>9, <1>10, <1>11, <1>12 DEF MegolmIInv

-----------------------------------------------------------------------------
LEMMA MegolmInitHolds == Init => MegolmIInv
<1> SUFFICES ASSUME Init PROVE MegolmIInv
  OBVIOUS
<1>1. MegolmTypeOK
  BY DEF Init, MegolmTypeOK, NoTurn, TurnStages, Stages
<1>2. TurnShares /\ ~TurnIsSharing
  BY DEF Init, TurnShares, TurnIsSharing, NoTurn, Turning
<1>3. Ready = {}
  BY DEF Init, Ready
<1>4. UsedInTime
  BY <1>2, <1>3 DEF Init, UsedInTime
<1>5. MarksAreKeys /\ KeysAreMarked /\ ReadyIsShared /\ SentCanBeRead
  BY <1>3 DEF Init, MarksAreKeys, KeysAreMarked, ReadyIsShared, SentCanBeRead, AudienceCanRead
<1> QED
  BY <1>1, <1>2, <1>4, <1>5 DEF MegolmIInv

LEMMA MegolmStepHolds == MegolmIInv /\ [Next]_vars => MegolmIInv'
<1> SUFFICES ASSUME MegolmIInv, [Next]_vars PROVE MegolmIInv'
  OBVIOUS
<1>1. CASE Next
  <2>1. ASSUME NEW m \in Msgs, Turn(m) \/ Encrypt(m)
        PROVE  MegolmIInv'
    BY <2>1, StartTurnKeeps, SessionCreatedKeeps, ShareStepsKeep, TurnFailsKeeps, EncryptKeeps
       DEF Turn
  <2> QED
    BY <1>1, <2>1, RoomKeeps, DiscardTurnKeeps DEF Next
<1>2. CASE UNCHANGED vars
  <2>1. MegolmTypeOK'
    BY <1>2 DEF vars, msgVars, keyVars, boundVars, MegolmIInv, MegolmTypeOK
  <2> QED
    BY <1>2, <2>1, QuietKeeps DEF vars, msgVars, keyVars, boundVars
<1> QED
  BY <1>1, <1>2

(* Every variable keeps its type, and a turn runs for a message.           *)
THEOREM MegolmTypes == Spec => []MegolmTypeOK
<1>1. MegolmIInv => MegolmTypeOK
  BY DEF MegolmIInv
<1> QED
  BY <1>1, MegolmInitHolds, MegolmStepHolds, PTL DEF Spec

(* Each device that a message was meant for was given the key at the       *)
(* message's index or before, or had no one-time key.                      *)
THEOREM SentMessagesCanBeRead == Spec => []AudienceCanRead
<1>1. MegolmIInv => AudienceCanRead
  BY DEF MegolmIInv, SentCanBeRead
<1> QED
  BY <1>1, MegolmInitHolds, MegolmStepHolds, PTL DEF Spec

(* A session encrypts at most one message more than the limit: a turn may  *)
(* keep it before the message that reaches the limit is counted.           *)
THEOREM SessionsAreRotated == Spec => []RotatedInTime
<1>1. MegolmIInv => RotatedInTime
  BY DEF MegolmIInv, UsedInTime, RotatedInTime
<1> QED
  BY <1>1, MegolmInitHolds, MegolmStepHolds, PTL DEF Spec

(* A device outside of a message's audience that has the key the message   *)
(* is encrypted with got it with requests whose answers were all lost, and *)
(* is not marked.                                                          *)
THEOREM KeysStayInAudience == Spec => KeyStaysInAudience
<1>1. ASSUME MegolmIInv, [Next]_vars, NEW m \in Msgs, stage[m] # "sent", stage'[m] = "sent",
             NEW d \in Holders(session[m]) \ audience[m]
      PROVE  d \in unacknowledged[session[m]] \ SharedWith(session[m])
  <2>1. CASE Encrypt(m)
    <3>1. m \in Ready /\ session[m] \in Sessions /\ SharedWith(session[m]) = audience[m]
      BY <1>1, <2>1 DEF Encrypt, MegolmIInv, MegolmTypeOK, ReadyIsShared, Ready, Sessions
    <3>2. PICK k \in given[session[m]] : k[1] = d
      BY <1>1 DEF Holders
    <3>3. d \in SharedWith(session[m]) \union unacknowledged[session[m]]
      BY <1>1, <3>1, <3>2 DEF MegolmIInv, KeysAreMarked
    <3> QED
      BY <1>1, <3>1, <3>3
  <2>2. CASE ~Encrypt(m)
    <3>1. stage \in [Msgs -> Stages]
      BY <1>1 DEF MegolmIInv, MegolmTypeOK
    <3>2. \A n \in Msgs : ~Encrypt(n)
      BY <1>1, <2>2, <3>1 DEF Encrypt
    <3>3. \A n \in Msgs : ~(EncryptMessage(n) \/ NotListed(n) \/ StartTurn(n))
      BY <1>1, <3>1 DEF EncryptMessage, NotListed, StartTurn
    <3>4. \A n \in Msgs : ~(SessionCreated(n) \/ KeysClaimed(n) \/ SliceSent(n) \/ TurnFails(n))
      BY <1>1, <3>1 DEF SessionCreated, KeysClaimed, SliceSent, TurnFails, EndsOrGoesOn, EndTurn, msgVars
    <3>5. ~(ForceDiscardSession \/ DiscardTurn \/ (\E e \in Devices : RoomChanges(e))
            \/ (\E s \in Sessions, e \in Devices : Reshare(s, e)) \/ UNCHANGED vars)
      BY <1>1 DEF ForceDiscardSession, DiscardTurn, RoomChanges, Reshare, vars, msgVars
    <3> QED
      BY <1>1, <3>2, <3>3, <3>4, <3>5 DEF Next, Turn
  <2> QED
    BY <2>1, <2>2
<1>2. MegolmIInv /\ [Next]_vars =>
        [\A m \in Msgs : stage[m] # "sent" /\ stage'[m] = "sent"
           => \A d \in Holders(session[m]) \ audience[m] :
                d \in unacknowledged[session[m]] \ SharedWith(session[m])]_vars
  BY <1>1
<1> QED
  BY <1>2, MegolmInitHolds, MegolmStepHolds, PTL DEF Spec, KeyStaysInAudience

-----------------------------------------------------------------------------
(***************************************************************************)
(* Theorems about setting up Olm sessions, for any devices, any calls, any *)
(* order of their devices and any number of failures: no call that is over *)
(* has left a mark, a call that resolves has its sessions, and one-time    *)
(* keys are not claimed twice without need.                                *)
(*                                                                         *)
(* The invariant follows a device through a call.  The marks a call holds  *)
(* are on the device it looks at and on those it has found no session with *)
(* (MarksOfCalls).  A device that was looked at has a session, or is among *)
(* those without (LookedAt).  And when a call has a device without session *)
(* on its list but not the mark, some call for the device has come to      *)
(* nothing (MarkOrTrouble): this is what a waiting call finds when it is   *)
(* woken and there is still no session.                                    *)
(***************************************************************************)
USE OlmAssumption

Open == {"looking", "waiting", "reading", "claiming"}

\* A call for the device has come to nothing.
Trouble(d) == \E e \in Claimers : at[e] = "failed" \/ d \in refused[e]

MarksOfCalls ==
  \A c \in Claimers, d \in Peers : inProgress[d] = c =>
    \/ at[c] \in Open /\ d \in without[c]
    \/ at[c] = "reading" /\ d = Device(c)
    \/ at[c] = "starting" /\ d \in starting[c]
    \/ at[c] = "broken"

LookedAt ==
  \A c \in Claimers :
    /\ at[c] \in {"waiting", "reading"} => next[c] <= Len(DevicesOf[c])
    /\ at[c] \in {"claiming", "starting", "done"} => next[c] > Len(DevicesOf[c])
    /\ at[c] = "idle" => next[c] = 1
    /\ at[c] \in Open \union {"idle"} => refused[c] = {}
    /\ at[c] = "starting" => starting[c] # {}
    /\ \A i \in 1..Len(DevicesOf[c]) : i < next[c] =>
         /\ at[c] \in Open => DevicesOf[c][i] \in olmSessions \union without[c]
         /\ at[c] = "starting" => DevicesOf[c][i] \in olmSessions \union starting[c] \union refused[c]
         /\ at[c] = "done" => DevicesOf[c][i] \in olmSessions \union refused[c]

MarkOrTrouble ==
  \A c \in Claimers :
    /\ at[c] = "reading" =>
         inProgress[Device(c)] = c \/ Device(c) \in olmSessions \/ Trouble(Device(c))
    /\ at[c] \in Open => \A d \in without[c] : (inProgress[d] = c /\ d \notin olmSessions) \/ Trouble(d)
    /\ at[c] = "starting" => \A d \in starting[c] : inProgress[d] = c \/ Trouble(d)
    /\ at[c] = "idle" => without[c] = {}

OlmIInv == OlmTypeOK /\ MarksOfCalls /\ LookedAt /\ MarkOrTrouble

-----------------------------------------------------------------------------
\* A device a call looks at.
LEMMA DeviceType ==
  ASSUME OlmTypeOK, NEW c \in Claimers, next[c] <= Len(DevicesOf[c])
  PROVE  /\ next[c] \in 1..Len(DevicesOf[c])
         /\ Device(c) \in Peers
         /\ DevicesOf[c][next[c]] = Device(c)
<1>1. DevicesOf[c] \in Seq(Peers)
  OBVIOUS
<1>2. next[c] \in 1..Len(DevicesOf[c])
  BY <1>1 DEF OlmTypeOK
<1> QED
  BY <1>1, <1>2 DEF Device

\* What has become of the marks and the calls when a call resolves its promises.
LEMMA ResolveEffect ==
  ASSUME OlmTypeOK, NEW c \in Claimers, NEW devs, NEW now \in Doing, at[c] # "waiting",
         Resolve(c, devs, now)
  PROVE  /\ inProgress' \in [Peers -> Claimers \union {Nobody}]
         /\ at' \in [Claimers -> Doing]
         /\ \A d \in Peers :
              inProgress'[d] = IF d \in devs /\ inProgress[d] = c THEN Nobody ELSE inProgress[d]
         /\ at'[c] = now
         /\ \A w \in Claimers : w # c =>
              \/ at'[w] = at[w]
              \/ /\ at[w] = "waiting" /\ at'[w] = "reading"
                 /\ Device(w) \in devs /\ inProgress[Device(w)] = c
<1>1. inProgress' = [d \in Peers |-> IF d \in devs /\ inProgress[d] = c THEN Nobody ELSE inProgress[d]]
  BY DEF Resolve, Unmarked
<1>2. at' = [w \in Claimers |-> IF w = c THEN now ELSE IF w \in Woken(c, devs) THEN "reading" ELSE at[w]]
  BY DEF Resolve
<1>3. \A w \in Claimers : w \in Woken(c, devs) =>
        at[w] = "waiting" /\ Device(w) \in devs /\ inProgress[Device(w)] = c
  BY DEF Woken
<1>4. "reading" \in Doing
  BY DEF Doing
<1> QED
  BY <1>1, <1>2, <1>3, <1>4 DEF OlmTypeOK

\* Trouble does not go away.
LEMMA TroubleStays ==
  ASSUME \A e \in Claimers : at[e] = "failed" => at'[e] = "failed",
         \A e \in Claimers : refused[e] \subseteq refused'[e],
         NEW d, Trouble(d)
  PROVE  Trouble(d)'
  BY DEF Trouble

-----------------------------------------------------------------------------
(* The steps before the claim. *)

LEMMA EnsureKeeps ==
  ASSUME OlmIInv, NEW c \in Claimers, Ensure(c)
  PROVE  OlmIInv'
<1>1. /\ at[c] = "idle" /\ at' = [at EXCEPT ![c] = "looking"]
      /\ UNCHANGED <<olmSessions, inProgress, next, without, starting, refused, olmFailures>>
  BY DEF Ensure
<1>2. /\ at' \in [Claimers -> Doing] /\ at'[c] = "looking"
      /\ \A w \in Claimers : w # c => at'[w] = at[w]
  BY <1>1 DEF OlmIInv, OlmTypeOK, Doing
<1>3. OlmTypeOK'
  BY <1>1, <1>2 DEF OlmIInv, OlmTypeOK
<1>4. MarksOfCalls'
  BY <1>1, <1>2 DEF OlmIInv, MarksOfCalls, Device, Open
<1>5. LookedAt'
  <2>1. without[c] = {} /\ refused[c] = {}
    BY <1>1 DEF OlmIInv, LookedAt, MarkOrTrouble
  <2>2. next[c] = 1
    BY <1>1 DEF OlmIInv, LookedAt
  <2> QED
    BY <1>1, <1>2, <2>1, <2>2 DEF OlmIInv, LookedAt, Open
<1>6. MarkOrTrouble'
  <2>1. \A d : Trouble(d) => Trouble(d)'
    BY <1>1, <1>2 DEF Trouble
  <2>2. without[c] = {}
    BY <1>1 DEF OlmIInv, MarkOrTrouble
  <2> QED
    BY <1>1, <1>2, <2>1, <2>2 DEF OlmIInv, MarkOrTrouble, Device, Open
<1> QED
  BY <1>3, <1>4, <1>5, <1>6 DEF OlmIInv

LEMMA LookKeeps ==
  ASSUME OlmIInv, NEW c \in Claimers, Look(c)
  PROVE  OlmIInv'
<1>1. /\ at[c] = "looking" /\ next[c] <= Len(DevicesOf[c])
      /\ UNCHANGED <<olmSessions, next, without, starting, refused, olmFailures>>
  BY DEF Look
<1>2. Device(c) \in Peers
  BY <1>1, DeviceType DEF OlmIInv
<1>3. /\ at' \in [Claimers -> Doing]
      /\ \A w \in Claimers : w # c => at'[w] = at[w]
      /\ inProgress' \in [Peers -> Claimers \union {Nobody}]
      /\ \A d \in Peers : d # Device(c) => inProgress'[d] = inProgress[d]
      /\ \/ /\ at'[c] = "reading" /\ inProgress'[Device(c)] = c
            /\ inProgress[Device(c)] \in {Nobody, c}
         \/ at'[c] = "waiting" /\ inProgress'[Device(c)] = inProgress[Device(c)]
  BY <1>2 DEF Look, OlmIInv, OlmTypeOK, Doing
<1>4. OlmTypeOK'
  BY <1>1, <1>3 DEF OlmIInv, OlmTypeOK
<1>5. MarksOfCalls'
  BY <1>1, <1>2, <1>3 DEF OlmIInv, MarksOfCalls, Device, Open
<1>6. LookedAt'
  BY <1>1, <1>3 DEF OlmIInv, LookedAt, Open
<1>7. MarkOrTrouble'
  <2>1. \A d : Trouble(d) => Trouble(d)'
    BY <1>1, <1>3 DEF Trouble
  <2> SUFFICES ASSUME NEW w \in Claimers
               PROVE  /\ at'[w] = "reading" =>
                           inProgress'[Device(w)'] = w \/ Device(w)' \in olmSessions \/ Trouble(Device(w))'
                      /\ at'[w] \in Open => \A d \in without[w] :
                           (inProgress'[d] = w /\ d \notin olmSessions) \/ Trouble(d)'
                      /\ at'[w] = "starting" => \A d \in starting[w] : inProgress'[d] = w \/ Trouble(d)'
                      /\ at'[w] = "idle" => without[w] = {}
    BY <1>1 DEF MarkOrTrouble
  <2>2. \A d \in Peers : inProgress[d] = w => inProgress'[d] = w
    BY <1>2, <1>3
  <2>3. Device(w)' = Device(w) /\ (Trouble(Device(w)) => Trouble(Device(w))')
    BY <1>1, <1>3 DEF Device, Trouble
  <2>4. without[w] \subseteq Peers /\ starting[w] \subseteq Peers
    BY DEF OlmIInv, OlmTypeOK
  <2>5. CASE w = c
    BY <1>1, <1>3, <2>1, <2>2, <2>3, <2>4, <2>5 DEF OlmIInv, MarkOrTrouble, Open
  <2>6. CASE w # c
    <3>1. at[w] = "reading" => Device(w) \in Peers
      BY DeviceType DEF OlmIInv, LookedAt
    <3>2. at'[w] = at[w]
      BY <1>3, <2>6
    <3> QED
      BY <2>1, <2>2, <2>3, <2>4, <3>1, <3>2 DEF OlmIInv, MarkOrTrouble
  <2> QED
    BY <2>5, <2>6
<1> QED
  BY <1>4, <1>5, <1>6, <1>7 DEF OlmIInv

LEMMA SessionReadKeeps ==
  ASSUME OlmIInv, NEW c \in Claimers, SessionRead(c)
  PROVE  OlmIInv'
<1>1. /\ at[c] = "reading" /\ next' = [next EXCEPT ![c] = @ + 1]
      /\ UNCHANGED <<olmSessions, starting, refused, olmFailures>>
  BY DEF SessionRead
<1>2. next[c] \in 1..Len(DevicesOf[c]) /\ Device(c) \in Peers /\ DevicesOf[c][next[c]] = Device(c)
  BY <1>1, DeviceType DEF OlmIInv, LookedAt
<1>3. /\ next' \in [Claimers -> Nat] /\ next'[c] = next[c] + 1
      /\ \A w \in Claimers : w # c => next'[w] = next[w]
      /\ \A w \in Claimers : next'[w] \in 1..Len(DevicesOf[w]) + 1
  BY <1>1, <1>2 DEF OlmIInv, OlmTypeOK
<1>4. \A w \in Claimers : w # c => Device(w)' = Device(w)
  BY <1>3 DEF Device
<1>5. CASE Device(c) \in olmSessions
  <2>1. Resolve(c, {Device(c)}, "looking") /\ without' = without
    BY <1>5 DEF SessionRead
  <2>2. /\ inProgress' \in [Peers -> Claimers \union {Nobody}]
        /\ at' \in [Claimers -> Doing]
        /\ \A d \in Peers :
             inProgress'[d] = IF d \in {Device(c)} /\ inProgress[d] = c THEN Nobody ELSE inProgress[d]
        /\ at'[c] = "looking"
        /\ \A w \in Claimers : w # c =>
             \/ at'[w] = at[w]
             \/ /\ at[w] = "waiting" /\ at'[w] = "reading"
                /\ Device(w) \in {Device(c)} /\ inProgress[Device(w)] = c
    BY <1>1, <2>1, ResolveEffect DEF OlmIInv, Doing
  <2>3. OlmTypeOK'
    BY <1>1, <1>3, <2>1, <2>2 DEF OlmIInv, OlmTypeOK
  <2>4. MarksOfCalls'
    <3> SUFFICES ASSUME NEW w \in Claimers, NEW d \in Peers, inProgress'[d] = w
                 PROVE  \/ at'[w] \in Open /\ d \in without[w]
                        \/ at'[w] = "reading" /\ d = Device(w)'
                        \/ at'[w] = "starting" /\ d \in starting[w]
                        \/ at'[w] = "broken"
      BY <1>1, <2>1 DEF MarksOfCalls
    <3>1. inProgress[d] = w /\ (w = c => d # Device(c))
      BY <2>2
    <3>2. CASE w = c
      BY <1>1, <2>2, <3>1, <3>2 DEF OlmIInv, MarksOfCalls, Open
    <3>3. CASE w # c
      BY <1>4, <2>2, <3>1, <3>3 DEF OlmIInv, MarksOfCalls, Open
    <3> QED
      BY <3>2, <3>3
  <2>5. LookedAt'
    BY <1>1, <1>2, <1>3, <1>5, <2>1, <2>2 DEF OlmIInv, LookedAt, OlmTypeOK, Open
  <2>6. MarkOrTrouble'
    <3>1. \A d : Trouble(d) => Trouble(d)'
      BY <1>1, <2>2 DEF Trouble
    <3> SUFFICES ASSUME NEW w \in Claimers
                 PROVE  /\ at'[w] = "reading" =>
                             inProgress'[Device(w)'] = w \/ Device(w)' \in olmSessions \/ Trouble(Device(w))'
                        /\ at'[w] \in Open => \A d \in without[w] :
                             (inProgress'[d] = w /\ d \notin olmSessions) \/ Trouble(d)'
                        /\ at'[w] = "starting" => \A d \in starting[w] : inProgress'[d] = w \/ Trouble(d)'
                        /\ at'[w] = "idle" => without[w] = {}
      BY <1>1, <2>1 DEF MarkOrTrouble
    <3>2. without[w] \subseteq Peers /\ starting[w] \subseteq Peers
      BY DEF OlmIInv, OlmTypeOK
    <3>3. CASE w = c
      BY <1>1, <1>5, <2>2, <3>1, <3>2, <3>3 DEF OlmIInv, MarkOrTrouble, Open
    <3>4. CASE w # c
      <4>1. at[w] = "reading" => Device(w) \in Peers
        BY DeviceType DEF OlmIInv, LookedAt
      <4>2. \A d \in Peers : inProgress[d] = w => inProgress'[d] = w
        BY <2>2, <3>4
      <4>3. Device(w)' = Device(w) /\ (Trouble(Device(w)) => Trouble(Device(w))')
        BY <1>4, <3>1, <3>4 DEF Trouble
      <4>4. CASE at'[w] = at[w]
        BY <3>1, <3>2, <4>1, <4>2, <4>3, <4>4 DEF OlmIInv, MarkOrTrouble
      <4>5. CASE at[w] = "waiting" /\ at'[w] = "reading" /\ Device(w) = Device(c)
        BY <1>5, <3>1, <3>2, <4>2, <4>3, <4>5 DEF OlmIInv, MarkOrTrouble, Open
      <4> QED
        BY <2>2, <3>4, <4>4, <4>5
    <3> QED
      BY <3>3, <3>4
  <2> QED
    BY <2>3, <2>4, <2>5, <2>6 DEF OlmIInv
<1>6. CASE Device(c) \notin olmSessions
  <2>1. /\ at' = [at EXCEPT ![c] = "looking"] /\ UNCHANGED inProgress
        /\ without' = [without EXCEPT ![c] = @ \union {Device(c)}]
    BY <1>6 DEF SessionRead
  <2>2. /\ at' \in [Claimers -> Doing] /\ at'[c] = "looking"
        /\ \A w \in Claimers : w # c => at'[w] = at[w]
        /\ without' \in [Claimers -> SUBSET Peers]
        /\ without'[c] = without[c] \union {Device(c)}
        /\ \A w \in Claimers : w # c => without'[w] = without[w]
    BY <1>2, <2>1 DEF OlmIInv, OlmTypeOK, Doing
  <2>3. OlmTypeOK'
    BY <1>1, <1>3, <2>1, <2>2 DEF OlmIInv, OlmTypeOK
  <2>4. MarksOfCalls'
    BY <1>1, <1>4, <2>1, <2>2 DEF OlmIInv, MarksOfCalls, Open
  <2>5. LookedAt'
    BY <1>1, <1>2, <1>3, <2>1, <2>2 DEF OlmIInv, LookedAt, OlmTypeOK, Open
  <2>6. MarkOrTrouble'
    <3>1. \A d : Trouble(d) => Trouble(d)'
      BY <1>1, <2>2 DEF Trouble
    <3>2. inProgress[Device(c)] = c \/ Trouble(Device(c))
      BY <1>1, <1>6 DEF OlmIInv, MarkOrTrouble
    <3>3. \A d \in without'[c] : (inProgress[d] = c /\ d \notin olmSessions) \/ Trouble(d)
      BY <1>1, <1>6, <2>2, <3>2 DEF OlmIInv, MarkOrTrouble, Open
    <3>4. \A w \in Claimers : w # c => (Trouble(Device(w)) => Trouble(Device(w))')
      BY <1>1, <1>4, <2>2 DEF Trouble
    <3> QED
      BY <1>1, <1>4, <2>1, <2>2, <3>1, <3>3, <3>4 DEF OlmIInv, MarkOrTrouble, Open
  <2> QED
    BY <2>3, <2>4, <2>5, <2>6 DEF OlmIInv
<1> QED
  BY <1>5, <1>6

LEMMA QuietStepKeeps ==
  ASSUME OlmIInv, NEW c \in Claimers, ReadFails(c) \/ AllRead(c)
  PROVE  OlmIInv'
<1>1. /\ UNCHANGED <<olmSessions, inProgress, next, without, starting, refused>>
      /\ olmFailures' \in 0..MaxFailures
  BY DEF ReadFails, AllRead, OlmFailure, OlmIInv, OlmTypeOK
<1>2. /\ at' \in [Claimers -> Doing]
      /\ \A w \in Claimers : w # c => at'[w] = at[w]
      /\ \/ at[c] = "reading" /\ at'[c] = "broken"
         \/ at[c] = "looking" /\ at'[c] = "claiming" /\ next[c] > Len(DevicesOf[c])
         \/ at[c] = "looking" /\ at'[c] = "done" /\ next[c] > Len(DevicesOf[c]) /\ without[c] = {}
  BY DEF ReadFails, AllRead, OlmIInv, OlmTypeOK, Doing
<1>3. OlmTypeOK'
  BY <1>1, <1>2 DEF OlmIInv, OlmTypeOK
<1>4. MarksOfCalls'
  BY <1>1, <1>2 DEF OlmIInv, MarksOfCalls, Device, Open
<1>5. LookedAt'
  BY <1>1, <1>2 DEF OlmIInv, LookedAt, Open
<1>6. MarkOrTrouble'
  <2>1. \A d : Trouble(d) => Trouble(d)'
    BY <1>1, <1>2 DEF Trouble
  <2>2. \A w \in Claimers : Device(w)' = Device(w) /\ (Trouble(Device(w)) => Trouble(Device(w))')
    BY <1>1, <1>2 DEF Device, Trouble
  <2> QED
    BY <1>1, <1>2, <2>1, <2>2 DEF OlmIInv, MarkOrTrouble, Open
<1> QED
  BY <1>3, <1>4, <1>5, <1>6 DEF OlmIInv

-----------------------------------------------------------------------------
(* The claim and what follows it. *)

LEMMA ClaimFailsKeeps ==
  ASSUME OlmIInv, NEW c \in Claimers, ClaimFails(c)
  PROVE  OlmIInv'
<1>1. /\ at[c] = "claiming" /\ Resolve(c, Peers, "failed")
      /\ UNCHANGED <<olmSessions, next, without, starting, refused>>
      /\ olmFailures' \in 0..MaxFailures
  BY DEF ClaimFails, OlmFailure, OlmIInv, OlmTypeOK
<1>2. /\ inProgress' \in [Peers -> Claimers \union {Nobody}]
      /\ at' \in [Claimers -> Doing]
      /\ \A d \in Peers :
           inProgress'[d] = IF d \in Peers /\ inProgress[d] = c THEN Nobody ELSE inProgress[d]
      /\ at'[c] = "failed"
      /\ \A w \in Claimers : w # c =>
           \/ at'[w] = at[w]
           \/ /\ at[w] = "waiting" /\ at'[w] = "reading"
              /\ Device(w) \in Peers /\ inProgress[Device(w)] = c
  BY <1>1, ResolveEffect DEF OlmIInv, Doing
<1>3. \A w \in Claimers : Device(w)' = Device(w)
  BY <1>1 DEF Device
<1>4. OlmTypeOK'
  BY <1>1, <1>2 DEF OlmIInv, OlmTypeOK
<1>5. MarksOfCalls'
  <2> SUFFICES ASSUME NEW w \in Claimers, NEW d \in Peers, inProgress'[d] = w
               PROVE  \/ at'[w] \in Open /\ d \in without[w]
                      \/ at'[w] = "reading" /\ d = Device(w)'
                      \/ at'[w] = "starting" /\ d \in starting[w]
                      \/ at'[w] = "broken"
    BY <1>1 DEF MarksOfCalls
  <2>1. inProgress[d] = w /\ w # c
    BY <1>2
  <2> QED
    BY <1>2, <1>3, <2>1 DEF OlmIInv, MarksOfCalls, Open
<1>6. LookedAt'
  BY <1>1, <1>2 DEF OlmIInv, LookedAt, Open
<1>7. MarkOrTrouble'
  <2>1. \A d : Trouble(d)'
    BY <1>2 DEF Trouble
  <2>2. \A w \in Claimers : Trouble(Device(w))'
    BY <1>2 DEF Trouble
  <2>3. \A w \in Claimers : at'[w] = "idle" => without'[w] = {}
    BY <1>1, <1>2 DEF OlmIInv, MarkOrTrouble
  <2> QED
    BY <2>1, <2>2, <2>3 DEF MarkOrTrouble
<1> QED
  BY <1>4, <1>5, <1>6, <1>7 DEF OlmIInv

LEMMA KeysResponseKeeps ==
  ASSUME OlmIInv, NEW c \in Claimers, KeysResponse(c)
  PROVE  OlmIInv'
<1>0. PICK keys \in SUBSET without[c] :
        /\ Resolve(c, without[c] \ keys, IF keys = {} THEN "done" ELSE "starting")
        /\ starting' = [starting EXCEPT ![c] = keys]
        /\ refused' = [refused EXCEPT ![c] = without[c] \ keys]
  BY DEF KeysResponse
<1>1. at[c] = "claiming" /\ UNCHANGED <<olmSessions, next, without, olmFailures>>
  BY DEF KeysResponse
<1>2. DEFINE now == IF keys = {} THEN "done" ELSE "starting"
             gone == without[c] \ keys
<1>3. now \in Doing /\ at[c] # "waiting" /\ Resolve(c, gone, now)
  BY <1>0, <1>1 DEF Doing
<1>4. /\ inProgress' \in [Peers -> Claimers \union {Nobody}]
      /\ at' \in [Claimers -> Doing]
      /\ \A d \in Peers :
           inProgress'[d] = IF d \in gone /\ inProgress[d] = c THEN Nobody ELSE inProgress[d]
      /\ at'[c] = now
      /\ \A w \in Claimers : w # c =>
           \/ at'[w] = at[w]
           \/ /\ at[w] = "waiting" /\ at'[w] = "reading"
              /\ Device(w) \in gone /\ inProgress[Device(w)] = c
  BY <1>3, ResolveEffect DEF OlmIInv
<1>5. \A w \in Claimers : Device(w)' = Device(w)
  BY <1>1 DEF Device
<1>6. /\ starting' \in [Claimers -> SUBSET Peers] /\ starting'[c] = keys
      /\ refused' \in [Claimers -> SUBSET Peers] /\ refused'[c] = gone
      /\ \A w \in Claimers : w # c => starting'[w] = starting[w] /\ refused'[w] = refused[w]
  BY <1>0 DEF OlmIInv, OlmTypeOK
<1>7. refused[c] = {}
  BY <1>1 DEF OlmIInv, LookedAt, Open
<1>8. OlmTypeOK'
  BY <1>1, <1>4, <1>6 DEF OlmIInv, OlmTypeOK
<1>9. MarksOfCalls'
  <2> SUFFICES ASSUME NEW w \in Claimers, NEW d \in Peers, inProgress'[d] = w
               PROVE  \/ at'[w] \in Open /\ d \in without[w]
                      \/ at'[w] = "reading" /\ d = Device(w)'
                      \/ at'[w] = "starting" /\ d \in starting'[w]
                      \/ at'[w] = "broken"
    BY <1>1 DEF MarksOfCalls
  <2>1. inProgress[d] = w /\ (w = c => d \notin gone)
    BY <1>4
  <2>2. CASE w = c
    <3>1. d \in without[c]
      BY <1>1, <2>1, <2>2 DEF OlmIInv, MarksOfCalls, Open
    <3>2. d \in keys
      BY <2>1, <2>2, <3>1
    <3> QED
      BY <1>4, <1>6, <2>2, <3>2
  <2>3. CASE w # c
    <3>1. starting'[w] = starting[w] /\ Device(w)' = Device(w)
      BY <1>5, <1>6, <2>3
    <3>2. CASE at'[w] = at[w]
      BY <2>1, <3>1, <3>2 DEF OlmIInv, MarksOfCalls
    <3>3. CASE at[w] = "waiting" /\ at'[w] = "reading"
      BY <2>1, <3>1, <3>3 DEF OlmIInv, MarksOfCalls, Open
    <3> QED
      BY <1>4, <2>3, <3>2, <3>3
  <2> QED
    BY <2>2, <2>3
<1>10. LookedAt'
  <2> SUFFICES ASSUME NEW w \in Claimers
               PROVE  /\ at'[w] \in {"waiting", "reading"} => next[w] <= Len(DevicesOf[w])
                      /\ at'[w] \in {"claiming", "starting", "done"} => next[w] > Len(DevicesOf[w])
                      /\ at'[w] = "idle" => next[w] = 1
                      /\ at'[w] \in Open \union {"idle"} => refused'[w] = {}
                      /\ at'[w] = "starting" => starting'[w] # {}
                      /\ \A i \in 1..Len(DevicesOf[w]) : i < next[w] =>
                           /\ at'[w] \in Open => DevicesOf[w][i] \in olmSessions \union without[w]
                           /\ at'[w] = "starting" =>
                                DevicesOf[w][i] \in olmSessions \union starting'[w] \union refused'[w]
                           /\ at'[w] = "done" => DevicesOf[w][i] \in olmSessions \union refused'[w]
    BY <1>1 DEF LookedAt
  <2>1. CASE w = c
    BY <1>1, <1>4, <1>6, <2>1 DEF OlmIInv, LookedAt, Open
  <2>2. CASE w # c
    BY <1>4, <1>6, <2>2 DEF OlmIInv, LookedAt, Open
  <2> QED
    BY <2>1, <2>2
<1>11. MarkOrTrouble'
  <2>0. \A e \in Claimers : (at[e] = "failed" => at'[e] = "failed") /\ refused[e] \subseteq refused'[e]
    BY <1>1, <1>4, <1>6, <1>7
  <2>1. \A d : Trouble(d) => Trouble(d)'
    BY <2>0 DEF Trouble
  <2>2. \A d \in gone : Trouble(d)'
    BY <1>6 DEF Trouble
  <2> SUFFICES ASSUME NEW w \in Claimers
               PROVE  /\ at'[w] = "reading" =>
                           inProgress'[Device(w)'] = w \/ Device(w)' \in olmSessions \/ Trouble(Device(w))'
                      /\ at'[w] \in Open => \A d \in without[w] :
                           (inProgress'[d] = w /\ d \notin olmSessions) \/ Trouble(d)'
                      /\ at'[w] = "starting" => \A d \in starting'[w] : inProgress'[d] = w \/ Trouble(d)'
                      /\ at'[w] = "idle" => without[w] = {}
    BY <1>1 DEF MarkOrTrouble
  <2>3. without[w] \subseteq Peers /\ starting[w] \subseteq Peers
    BY DEF OlmIInv, OlmTypeOK
  <2>4. CASE w = c
    BY <1>1, <1>4, <1>6, <2>1, <2>3, <2>4 DEF OlmIInv, MarkOrTrouble, Open
  <2>5. CASE w # c
    <3>1. \A d \in Peers : inProgress[d] = w => inProgress'[d] = w
      BY <1>4, <2>5
    <3>2. /\ Device(w)' = Device(w) /\ (Trouble(Device(w)) => Trouble(Device(w))')
          /\ (Device(w) \in gone => Trouble(Device(w))')
      BY <1>5, <1>6, <2>0 DEF Trouble
    <3>3. starting'[w] = starting[w] /\ (at[w] = "reading" => Device(w) \in Peers)
      BY <1>6, <2>5, DeviceType DEF OlmIInv, LookedAt
    <3>4. CASE at'[w] = at[w]
      BY <2>1, <2>3, <3>1, <3>2, <3>3, <3>4 DEF OlmIInv, MarkOrTrouble
    <3>5. CASE at[w] = "waiting" /\ at'[w] = "reading" /\ Device(w) \in gone
      BY <2>1, <2>3, <3>1, <3>2, <3>5 DEF OlmIInv, MarkOrTrouble, Open
    <3> QED
      BY <1>4, <2>5, <3>4, <3>5
  <2> QED
    BY <2>4, <2>5
<1> QED
  BY <1>8, <1>9, <1>10, <1>11 DEF OlmIInv

LEMMA SessionStartedKeeps ==
  ASSUME OlmIInv, NEW c \in Claimers, NEW d \in Peers, SessionStarted(c, d)
  PROVE  OlmIInv'
<1>1. at[c] = "starting" /\ d \in starting[c] /\ UNCHANGED <<next, without, olmFailures>>
  BY DEF SessionStarted
<1>2. DEFINE now == IF starting[c] = {d} THEN "done" ELSE "starting"
<1>3. now \in Doing /\ at[c] # "waiting" /\ Resolve(c, {d}, now)
  BY <1>1 DEF SessionStarted, Doing
<1>4. /\ inProgress' \in [Peers -> Claimers \union {Nobody}]
      /\ at' \in [Claimers -> Doing]
      /\ \A e \in Peers :
           inProgress'[e] = IF e \in {d} /\ inProgress[e] = c THEN Nobody ELSE inProgress[e]
      /\ at'[c] = now
      /\ \A w \in Claimers : w # c =>
           \/ at'[w] = at[w]
           \/ /\ at[w] = "waiting" /\ at'[w] = "reading"
              /\ Device(w) \in {d} /\ inProgress[Device(w)] = c
  BY <1>3, ResolveEffect DEF OlmIInv
<1>5. \A w \in Claimers : Device(w)' = Device(w)
  BY <1>1 DEF Device
<1>6. /\ starting' \in [Claimers -> SUBSET Peers] /\ starting'[c] = starting[c] \ {d}
      /\ \A w \in Claimers : w # c => starting'[w] = starting[w]
  BY DEF SessionStarted, OlmIInv, OlmTypeOK
<1>7. /\ refused' \in [Claimers -> SUBSET Peers] /\ refused[c] \subseteq refused'[c]
      /\ \A w \in Claimers : w # c => refused'[w] = refused[w]
      /\ olmSessions \subseteq olmSessions' /\ olmSessions' \subseteq olmSessions \union {d}
      /\ d \in olmSessions' \/ d \in refused'[c]
  <2>1. refused \in [Claimers -> SUBSET Peers]
    BY DEF OlmIInv, OlmTypeOK
  <2>2. CASE olmSessions' = olmSessions \union {d} /\ UNCHANGED refused
    BY <2>1, <2>2
  <2>3. CASE refused' = [refused EXCEPT ![c] = @ \union {d}] /\ UNCHANGED olmSessions
    BY <2>1, <2>3
  <2> QED
    BY <2>2, <2>3 DEF SessionStarted
<1>8. OlmTypeOK'
  BY <1>1, <1>4, <1>6, <1>7 DEF OlmIInv, OlmTypeOK
<1>9. MarksOfCalls'
  <2> SUFFICES ASSUME NEW w \in Claimers, NEW e \in Peers, inProgress'[e] = w
               PROVE  \/ at'[w] \in Open /\ e \in without[w]
                      \/ at'[w] = "reading" /\ e = Device(w)'
                      \/ at'[w] = "starting" /\ e \in starting'[w]
                      \/ at'[w] = "broken"
    BY <1>1 DEF MarksOfCalls
  <2>1. inProgress[e] = w /\ (w = c => e # d)
    BY <1>4
  <2>2. CASE w = c
    <3>1. e \in starting[c] /\ e # d
      BY <1>1, <2>1, <2>2 DEF OlmIInv, MarksOfCalls, Open
    <3> QED
      BY <1>4, <1>6, <2>2, <3>1
  <2>3. CASE w # c
    BY <1>4, <1>5, <1>6, <2>1, <2>3 DEF OlmIInv, MarksOfCalls, Open
  <2> QED
    BY <2>2, <2>3
<1>10. LookedAt'
  <2> SUFFICES ASSUME NEW w \in Claimers
               PROVE  /\ at'[w] \in {"waiting", "reading"} => next[w] <= Len(DevicesOf[w])
                      /\ at'[w] \in {"claiming", "starting", "done"} => next[w] > Len(DevicesOf[w])
                      /\ at'[w] = "idle" => next[w] = 1
                      /\ at'[w] \in Open \union {"idle"} => refused'[w] = {}
                      /\ at'[w] = "starting" => starting'[w] # {}
                      /\ \A i \in 1..Len(DevicesOf[w]) : i < next[w] =>
                           /\ at'[w] \in Open => DevicesOf[w][i] \in olmSessions' \union without[w]
                           /\ at'[w] = "starting" =>
                                DevicesOf[w][i] \in olmSessions' \union starting'[w] \union refused'[w]
                           /\ at'[w] = "done" => DevicesOf[w][i] \in olmSessions' \union refused'[w]
    BY <1>1 DEF LookedAt
  <2>1. CASE w = c
    <3>1. /\ next[c] > Len(DevicesOf[c])
          /\ \A i \in 1..Len(DevicesOf[c]) : i < next[c] =>
               DevicesOf[c][i] \in olmSessions \union starting[c] \union refused[c]
      BY <1>1 DEF OlmIInv, LookedAt
    <3>2. starting[c] # {d} => starting'[c] # {}
      BY <1>1, <1>6
    <3>3. olmSessions \union starting[c] \union refused[c]
            \subseteq olmSessions' \union starting'[c] \union refused'[c]
      BY <1>6, <1>7
    <3>4. starting[c] = {d} => starting'[c] = {}
      BY <1>6
    <3>5. /\ at'[c] \in {"starting", "done"}
          /\ (at'[c] = "starting" => starting'[c] # {})
          /\ (at'[c] = "done" => starting'[c] = {})
      BY <1>4, <3>2, <3>4
    <3> QED
      BY <2>1, <3>1, <3>3, <3>5 DEF Open
  <2>2. CASE w # c
    BY <1>4, <1>6, <1>7, <2>2 DEF OlmIInv, LookedAt, Open
  <2> QED
    BY <2>1, <2>2
<1>11. MarkOrTrouble'
  <2>0. \A e \in Claimers : (at[e] = "failed" => at'[e] = "failed") /\ refused[e] \subseteq refused'[e]
    BY <1>1, <1>4, <1>7
  <2>1. \A e : Trouble(e) => Trouble(e)'
    BY <2>0 DEF Trouble
  <2>2. d \in olmSessions' \/ Trouble(d)'
    BY <1>7 DEF Trouble
  <2>3. \A w \in Claimers : w # c /\ inProgress[d] = w => Trouble(d)
    <3> SUFFICES ASSUME NEW w \in Claimers, w # c, inProgress[d] = w PROVE Trouble(d)
      OBVIOUS
    <3>1. inProgress[d] # c
      OBVIOUS
    <3> QED
      BY <1>1, <3>1 DEF OlmIInv, MarkOrTrouble
  <2> SUFFICES ASSUME NEW w \in Claimers
               PROVE  /\ at'[w] = "reading" =>
                           inProgress'[Device(w)'] = w \/ Device(w)' \in olmSessions' \/ Trouble(Device(w))'
                      /\ at'[w] \in Open => \A e \in without[w] :
                           (inProgress'[e] = w /\ e \notin olmSessions') \/ Trouble(e)'
                      /\ at'[w] = "starting" => \A e \in starting'[w] : inProgress'[e] = w \/ Trouble(e)'
                      /\ at'[w] = "idle" => without[w] = {}
    BY <1>1 DEF MarkOrTrouble
  <2>4. without[w] \subseteq Peers /\ starting[w] \subseteq Peers
    BY DEF OlmIInv, OlmTypeOK
  <2>5. CASE w = c
    <3>1. at'[c] \in {"starting", "done"}
      BY <1>4
    <3>2. \A e \in starting'[c] : e \in Peers /\ e # d /\ (inProgress[e] = c \/ Trouble(e))
      BY <1>1, <1>6, <2>4, <2>5 DEF OlmIInv, MarkOrTrouble
    <3>3. \A e \in starting'[c] : inProgress'[e] = c \/ Trouble(e)'
      BY <1>4, <2>1, <3>2
    <3> QED
      BY <2>5, <3>1, <3>3 DEF Open
  <2>6. CASE w # c
    <3>1. \A e \in Peers : inProgress[e] = w => inProgress'[e] = w
      BY <1>4, <2>6
    <3>2. /\ Device(w)' = Device(w) /\ (Trouble(Device(w)) => Trouble(Device(w))')
          /\ (Device(w) = d => Device(w) \in olmSessions' \/ Trouble(Device(w))')
      BY <1>5, <1>7, <2>0 DEF Trouble
    <3>3. starting'[w] = starting[w] /\ (at[w] = "reading" => Device(w) \in Peers)
      BY <1>6, <2>6, DeviceType DEF OlmIInv, LookedAt
    <3>4. \A e \in Peers : inProgress[e] = w /\ e \notin olmSessions => e \notin olmSessions' \/ Trouble(e)'
      BY <1>7, <2>1, <2>3, <2>6
    <3>5. CASE at'[w] = at[w]
      BY <1>7, <2>1, <2>4, <3>1, <3>2, <3>3, <3>4, <3>5 DEF OlmIInv, MarkOrTrouble
    <3>6. CASE at[w] = "waiting" /\ at'[w] = "reading" /\ Device(w) = d
      BY <2>1, <2>4, <3>1, <3>2, <3>4, <3>6 DEF OlmIInv, MarkOrTrouble, Open
    <3> QED
      BY <1>4, <2>6, <3>5, <3>6
  <2> QED
    BY <2>5, <2>6
<1> QED
  BY <1>8, <1>9, <1>10, <1>11 DEF OlmIInv

-----------------------------------------------------------------------------
LEMMA OlmInitHolds == OlmInit => OlmIInv
<1> SUFFICES ASSUME OlmInit PROVE OlmIInv
  OBVIOUS
<1>1. OlmTypeOK
  BY DEF OlmInit, OlmTypeOK, Doing
<1>2. MarksOfCalls
  BY DEF OlmInit, MarksOfCalls
<1>3. LookedAt
  BY DEF OlmInit, LookedAt, Open
<1>4. MarkOrTrouble
  BY DEF OlmInit, MarkOrTrouble, Open
<1> QED
  BY <1>1, <1>2, <1>3, <1>4 DEF OlmIInv

LEMMA OlmStepHolds == OlmIInv /\ [OlmNext]_olmVars => OlmIInv'
<1> SUFFICES ASSUME OlmIInv, [OlmNext]_olmVars PROVE OlmIInv'
  OBVIOUS
<1>1. CASE OlmNext
  <2>1. PICK c \in Claimers : Ensure(c) \/ CallStep(c)
    BY <1>1 DEF OlmNext
  <2> QED
    BY <2>1, EnsureKeeps, LookKeeps, SessionReadKeeps, QuietStepKeeps, ClaimFailsKeeps,
       KeysResponseKeeps, SessionStartedKeeps DEF CallStep
<1>2. CASE UNCHANGED olmVars
  BY <1>2 DEF olmVars, OlmIInv, OlmTypeOK, MarksOfCalls, LookedAt, MarkOrTrouble, Trouble, Device
<1> QED
  BY <1>1, <1>2

(* Every variable keeps its type.                                          *)
THEOREM OlmTypes == OlmSpec => []OlmTypeOK
<1>1. OlmIInv => OlmTypeOK
  BY DEF OlmIInv
<1> QED
  BY <1>1, OlmInitHolds, OlmStepHolds, PTL DEF OlmSpec

(* A call that is over has left no device marked as in progress, whatever  *)
(* failed but a read of the store.                                         *)
THEOREM EndedCallsLeaveNoMark == OlmSpec => []NothingLeftInProgress
<1>1. OlmIInv => NothingLeftInProgress
  BY DEF OlmIInv, MarksOfCalls, NothingLeftInProgress, Ended, Open
<1> QED
  BY <1>1, OlmInitHolds, OlmStepHolds, PTL DEF OlmSpec

(* A call that resolves has a session with each of its devices, or found   *)
(* no usable one-time key for it.                                          *)
THEOREM ResolvedCallsHaveSessions == OlmSpec => []DoneHasSessions
<1>1. OlmIInv => DoneHasSessions
  <2> SUFFICES ASSUME OlmIInv, NEW c \in Claimers, at[c] = "done", NEW i \in 1..Len(DevicesOf[c])
               PROVE  DevicesOf[c][i] \in olmSessions \union refused[c]
    BY DEF DoneHasSessions
  <2>1. DevicesOf[c] \in Seq(Peers) /\ next[c] \in Nat
    BY DEF OlmIInv, OlmTypeOK
  <2>2. Len(DevicesOf[c]) \in Nat
    BY <2>1
  <2>3. i < next[c]
    BY <2>1, <2>2 DEF OlmIInv, LookedAt
  <2> QED
    BY <2>3 DEF OlmIInv, LookedAt
<1> QED
  BY <1>1, OlmInitHolds, OlmStepHolds, PTL DEF OlmSpec

(* Two calls claim a key of one device only after a call for it failed.    *)
THEOREM KeysAreClaimedOnce == OlmSpec => []ClaimedOnce
<1>1. OlmIInv => ClaimedOnce
  <2> SUFFICES ASSUME OlmIInv, NEW b \in Claimers, NEW c \in Claimers, NEW d \in Peers, b # c,
                      at[b] = "claiming", at[c] = "claiming", d \in without[b], d \in without[c]
               PROVE  \E e \in Claimers : at[e] = "failed" \/ d \in refused[e]
    BY DEF ClaimedOnce
  <2>1. inProgress[d] = b \/ Trouble(d)
    BY DEF OlmIInv, MarkOrTrouble, Open
  <2>2. inProgress[d] = c \/ Trouble(d)
    BY DEF OlmIInv, MarkOrTrouble, Open
  <2> QED
    BY <2>1, <2>2 DEF Trouble
<1> QED
  BY <1>1, OlmInitHolds, OlmStepHolds, PTL DEF OlmSpec

==============================================================================
