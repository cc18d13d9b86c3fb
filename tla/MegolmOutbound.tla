--------------------------- MODULE MegolmOutbound ---------------------------
(***************************************************************************)
(* The outbound group session of an encrypted room: MegolmEncryption of    *)
(* src/crypto/algorithms/megolm.js.                                        *)
(*                                                                         *)
(* Each message first lists the devices of the room, then waits its turn   *)
(* in the chain of _setupPromise: its turn makes a new session or keeps    *)
(* the one of the turn before, claims one-time keys, and sends the key of  *)
(* the session to the devices that do not have it, slice by slice.  Only   *)
(* then is the message encrypted.  Members and devices come and go all the *)
(* while; requests fail, also after they were delivered.                   *)
(*                                                                         *)
(* A continuation (the next turn of the chain, the encryption) runs before *)
(* any response or event is handled: see Calm.                             *)
(***************************************************************************)
EXTENDS Integers, Sequences, FiniteSets

CONSTANTS
  Devices,         \* devices other than this one (deviceId and identity key)
  Msgs,            \* the events to be encrypted
  RotationMsgs,    \* rotation_period_msgs
  SliceMax,        \* maxToDeviceMessagesPerRequest
  MaxSessions,     \* bound on the sessions that are made
  MaxMishaps,      \* bound on failures of requests and on discarded sessions
  MaxChanges,      \* bound on the devices that come and go, and on sessions that grow too old
  Discard          \* forceDiscardSession, as an entry of the chain

ASSUME MegolmAssumption ==
  /\ RotationMsgs \in Nat \ {0} /\ SliceMax \in Nat /\ MaxSessions \in Nat
  /\ MaxMishaps \in Nat /\ MaxChanges \in Nat
  /\ Discard \notin Msgs /\ IsFiniteSet(Devices)

VARIABLES
  room,      \* the unblocked devices of the room's members
  stage,     \* message -> where it is
  audience,  \* message -> devicesInRoom, as it was listed
  session,   \* message -> the session it is encrypted with
  index,     \* message -> its index in that session
  chain,     \* the messages and discards that wait for _setupPromise
  current,   \* the session _setupPromise resolves to; 0 is none
  turn,      \* the turn of the chain that is running: its stage, session, key index and devices left
  created,   \* number of sessions made
  used,      \* session -> its useCount, and next index
  marked,    \* session -> sharedWithDevices: pairs of a device and an index
  given,     \* session -> the keys that were delivered: pairs of a device and an index
  keyless,   \* session -> devices marked although they had no one-time key
  unacknowledged,  \* session -> devices given the key by a request whose answer was lost: a history
  mishaps, changes

msgVars == <<stage, audience, session, index>>
keyVars == <<marked, given, keyless, unacknowledged>>
boundVars == <<mishaps, changes>>
vars == <<room, msgVars, chain, current, turn, created, used, keyVars, boundVars>>

Sessions == 1..MaxSessions
Stages == {"idle", "waiting", "preparing", "ready", "sent", "failed"}
TurnStages == {"none", "creating", "claiming", "sending"}
NoTurn == [at |-> "none", session |-> 0, key |-> 0, left |-> {}]
Creating == [at |-> "creating", session |-> 0, key |-> 0, left |-> {}]

MegolmTypeOK ==
  /\ room \subseteq Devices
  /\ stage \in [Msgs -> Stages] /\ audience \in [Msgs -> SUBSET Devices]
  /\ session \in [Msgs -> 0..MaxSessions] /\ index \in [Msgs -> Nat]
  /\ chain \in Seq(Msgs \union {Discard})
  /\ current \in 0..MaxSessions /\ created \in 0..MaxSessions
  /\ turn \in [at : TurnStages, session : 0..MaxSessions, key : Nat, left : SUBSET Devices]
  /\ used \in [Sessions -> Nat]
  /\ marked \in [Sessions -> SUBSET (Devices \X Nat)] /\ given \in [Sessions -> SUBSET (Devices \X Nat)]
  /\ keyless \in [Sessions -> SUBSET Devices] /\ unacknowledged \in [Sessions -> SUBSET Devices]
  /\ mishaps \in 0..MaxMishaps /\ changes \in 0..MaxChanges
  /\ turn = NoTurn <=> \A m \in Msgs : stage[m] # "preparing"

Init ==
  /\ room \in SUBSET Devices
  /\ stage = [m \in Msgs |-> "idle"] /\ audience = [m \in Msgs |-> {}]
  /\ session = [m \in Msgs |-> 0] /\ index = [m \in Msgs |-> 0]
  /\ chain = <<>> /\ current = 0 /\ turn = NoTurn /\ created = 0
  /\ used = [s \in Sessions |-> 0]
  /\ marked = [s \in Sessions |-> {}] /\ given = [s \in Sessions |-> {}]
  /\ keyless = [s \in Sessions |-> {}] /\ unacknowledged = [s \in Sessions |-> {}]
  /\ mishaps = 0 /\ changes = 0

Mishap == mishaps < MaxMishaps /\ mishaps' = mishaps + 1 /\ UNCHANGED changes

SharedWith(s) == {k[1] : k \in marked[s]}

\* The devices that have the key, whatever the code knows of it.
Holders(s) == {k[1] : k \in given[s]}

\* The message whose turn it is.
Turning(m) == stage[m] = "preparing"

Ready == {m \in Msgs : stage[m] = "ready"}

\* No continuation is due: no message to encrypt, no turn to start.
Calm == Ready = {} /\ (chain = <<>> \/ turn # NoTurn)

-----------------------------------------------------------------------------
(* The room and the user.                                                  *)

RoomChanges(d) ==
  /\ Calm
  /\ changes < MaxChanges /\ changes' = changes + 1
  /\ room' = IF d \in room THEN room \ {d} ELSE room \union {d}
  /\ UNCHANGED <<msgVars, chain, current, turn, created, used, keyVars, mishaps>>

\* A new message (whichever: they differ in their names only), or one that is sent again.
MayEncrypt(m) ==
  \/ stage[m] = "idle" /\ m = CHOOSE n \in Msgs : stage[n] = "idle"
  \/ stage[m] = "failed"

\* encryptMessage, up to the moment _getDevicesInRoom resolves: the message queues up in
\* _ensureOutboundSession with the devices the room has then.
EncryptMessage(m) ==
  /\ Calm
  /\ MayEncrypt(m)
  /\ stage' = [stage EXCEPT ![m] = "waiting"]
  /\ audience' = [audience EXCEPT ![m] = room]
  /\ chain' = Append(chain, m)
  /\ UNCHANGED <<room, session, index, current, turn, created, used, keyVars, boundVars>>

\* The devices cannot be listed, or some are unknown to the user (_checkForUnknownDevices).
NotListed(m) ==
  /\ Calm
  /\ MayEncrypt(m)
  /\ stage' = [stage EXCEPT ![m] = "failed"]
  /\ Mishap
  /\ UNCHANGED <<room, audience, session, index, chain, current, turn, created, used, keyVars>>

ForceDiscardSession ==
  /\ Calm
  /\ chain' = Append(chain, Discard)
  /\ Mishap
  /\ UNCHANGED <<room, msgVars, current, turn, created, used, keyVars>>

-----------------------------------------------------------------------------
(* The turns of the chain: prepareSession.                                 *)

\* Mutant: one message more.
RotatesLate(s, tooOld) == used[s] > RotationMsgs \/ tooOld

NeedsRotation(s, tooOld) == used[s] >= RotationMsgs \/ tooOld

\* Mutant: devices that left do not matter.
NeverTooMany(s, devs) == FALSE

SharedWithTooMany(s, devs) == ~(SharedWith(s) \subseteq devs)

Keeps(m, tooOld) ==
  current # 0 /\ ~NeedsRotation(current, tooOld) /\ ~SharedWithTooMany(current, audience[m])

\* _shareKeyWithDevices exports the key at the session's index, before it awaits anything.
Sharing(m, s) ==
  [at |-> "claiming", session |-> s, key |-> used[s], left |-> audience[m] \ SharedWith(s)]

\* Mutant: the chain goes on only with the session of the turn before.
NeedsASession(m) ==
  /\ turn = NoTurn /\ (current # 0 \/ created = 0)
  /\ chain # <<>> /\ Head(chain) = m /\ m \in Msgs
  /\ chain' = Tail(chain)
  /\ stage' = [stage EXCEPT ![m] = "preparing"]
  /\ turn' = IF Keeps(m, FALSE) THEN Sharing(m, current) ELSE Creating
  /\ UNCHANGED <<room, audience, session, index, current, created, used, keyVars, boundVars>>

StartTurn(m) ==
  /\ turn = NoTurn
  /\ chain # <<>> /\ Head(chain) = m /\ m \in Msgs
  /\ chain' = Tail(chain)
  /\ stage' = [stage EXCEPT ![m] = "preparing"]
  /\ \E tooOld \in BOOLEAN :
       /\ IF tooOld THEN changes < MaxChanges /\ changes' = changes + 1 ELSE UNCHANGED changes
       /\ turn' = IF Keeps(m, tooOld) THEN Sharing(m, current) ELSE Creating
  /\ UNCHANGED <<room, audience, session, index, current, created, used, keyVars, mishaps>>

DiscardTurn ==
  /\ turn = NoTurn
  /\ chain # <<>> /\ Head(chain) = Discard
  /\ chain' = Tail(chain)
  /\ current' = 0
  /\ UNCHANGED <<room, msgVars, turn, created, used, keyVars, boundVars>>

\* _prepareNewSession
SessionCreated(m) ==
  /\ Calm
  /\ Turning(m) /\ turn.at = "creating"
  /\ created < MaxSessions /\ created' = created + 1
  /\ turn' = Sharing(m, created + 1)
  /\ UNCHANGED <<room, msgVars, chain, current, used, keyVars, boundVars>>

\* The turn is over: _setupPromise resolves to its session, whether or not the share succeeded.
EndTurn(m, s, result) ==
  /\ turn' = NoTurn
  /\ current' = s
  /\ stage' = [stage EXCEPT ![m] = result]
  /\ session' = [session EXCEPT ![m] = IF result = "ready" THEN s ELSE @]

\* The devices that are left are sent the key, slice by slice.
Sending(left) == [at |-> "sending", session |-> turn.session, key |-> turn.key, left |-> left]

\* Mutant: the first slice is enough.
EndsAfterOneSlice(m, left) ==
  IF left = {} \/ turn.at = "sending" THEN EndTurn(m, turn.session, "ready")
  ELSE /\ turn' = Sending(left)
       /\ UNCHANGED <<current, stage, session>>

EndsOrGoesOn(m, left) ==
  IF left = {} THEN EndTurn(m, turn.session, "ready")
  ELSE /\ turn' = Sending(left)
       /\ UNCHANGED <<current, stage, session>>

\* ensureOlmSessionsForDevices: a device without a one-time key is marked, and skipped.
KeysClaimed(m) ==
  /\ Calm
  /\ Turning(m) /\ turn.at = "claiming"
  /\ \E none \in SUBSET turn.left :
       /\ marked' = [marked EXCEPT ![turn.session] = @ \union (none \X {turn.key})]
       /\ keyless' = [keyless EXCEPT ![turn.session] = @ \union none]
       /\ EndsOrGoesOn(m, turn.left \ none)
  /\ UNCHANGED <<room, audience, index, chain, created, used, given, unacknowledged, boundVars>>

\* _splitUserDeviceMap starts another slice when there are more than SliceMax entries in this one.
IsSlice(slice, left) ==
  Cardinality(slice) = IF Cardinality(left) <= SliceMax + 1 THEN Cardinality(left) ELSE SliceMax + 1

SliceSent(m) ==
  /\ Calm
  /\ Turning(m) /\ turn.at = "sending"
  /\ \E slice \in SUBSET turn.left :
       /\ IsSlice(slice, turn.left)
       /\ given' = [given EXCEPT ![turn.session] = @ \union (slice \X {turn.key})]
       /\ marked' = [marked EXCEPT ![turn.session] = @ \union (slice \X {turn.key})]
       /\ EndsOrGoesOn(m, turn.left \ slice)
  /\ UNCHANGED <<room, audience, index, chain, created, used, keyless, unacknowledged, boundVars>>

\* The new session cannot be stored, the keys cannot be claimed, or a slice fails.  A slice that was
\* delivered and whose answer is lost leaves its devices with the key, and unmarked.
TurnFails(m) ==
  /\ Calm
  /\ Turning(m)
  /\ \/ UNCHANGED <<given, unacknowledged>>
     \/ /\ turn.at = "sending"
        /\ \E slice \in SUBSET turn.left :
             /\ IsSlice(slice, turn.left)
             /\ given' = [given EXCEPT ![turn.session] = @ \union (slice \X {turn.key})]
             /\ unacknowledged' = [unacknowledged EXCEPT ![turn.session] = @ \union slice]
  /\ EndTurn(m, turn.session, "failed")
  /\ Mishap
  /\ UNCHANGED <<room, audience, index, chain, created, used, marked, keyless>>

-----------------------------------------------------------------------------
\* The continuation of encryptMessage.
Encrypt(m) ==
  /\ stage[m] = "ready"
  /\ stage' = [stage EXCEPT ![m] = "sent"]
  /\ index' = [index EXCEPT ![m] = used[session[m]]]
  /\ used' = [used EXCEPT ![session[m]] = @ + 1]
  /\ UNCHANGED <<room, audience, session, chain, current, turn, created, keyVars, boundVars>>

\* reshareKeyWithDevice, for a device that asks for a session it was marked for.
Reshare(s, d) ==
  /\ Calm
  /\ \E k \in marked[s] : k[1] = d /\ given' = [given EXCEPT ![s] = @ \union {k}]
  /\ UNCHANGED <<room, msgVars, chain, current, turn, created, used, marked, keyless, unacknowledged,
                 boundVars>>

-----------------------------------------------------------------------------
Turn(m) == StartTurn(m) \/ SessionCreated(m) \/ KeysClaimed(m) \/ SliceSent(m) \/ TurnFails(m)

Next ==
  \/ \E d \in Devices : RoomChanges(d)
  \/ \E m \in Msgs :
       EncryptMessage(m) \/ NotListed(m) \/ Turn(m) \/ Encrypt(m)
  \/ ForceDiscardSession \/ DiscardTurn
  \/ \E s \in Sessions, d \in Devices : Reshare(s, d)

Spec == Init /\ [][Next]_vars

\* Requests are answered, one way or the other, and continuations run.
Progress == DiscardTurn \/ \E m \in Msgs : Turn(m) \/ Encrypt(m)

FairSpec == Spec /\ WF_vars(Progress)

-----------------------------------------------------------------------------
(* Properties                                                              *)

(* Whoever a message was meant for can read it: each device that was in    *)
(* the room when the message listed them was given the key of its session  *)
(* at the message's index or an earlier one, unless the device had no      *)
(* one-time key when the session was shared.  This holds across failed and *)
(* repeated shares, rotations, and messages that set up sessions at once.  *)
AudienceCanRead ==
  \A m \in Msgs : stage[m] = "sent" =>
    \A d \in audience[m] :
      \/ \E k \in given[session[m]] : k[1] = d /\ k[2] <= index[m]
      \/ d \in keyless[session[m]]

(* Every device that has the key a message is encrypted with is in the     *)
(* audience of the message, whatever other messages have done with the     *)
(* session between its turn and its encryption: but for a device that got  *)
(* the key with requests whose answers were all lost.  Such a device is    *)
(* never marked, so that it may leave the room without the session being   *)
(* replaced.                                                               *)
KeyStaysInAudience ==
  [][\A m \in Msgs : stage[m] # "sent" /\ stage'[m] = "sent"
       => \A d \in Holders(session[m]) \ audience[m] :
            d \in unacknowledged[session[m]] \ SharedWith(session[m])]_vars

(* A session is rotated after RotationMsgs messages, or one more: the next *)
(* turn may begin before the message that reaches the limit is counted.    *)
RotatedInTime == \A s \in Sessions : used[s] <= RotationMsgs + 1

(* Every message is encrypted or fails, however often the user tries: a    *)
(* failing share does not block the messages that wait for it.             *)
Underway == {m \in Msgs : stage[m] \in {"waiting", "preparing", "ready"}}

MessagesSettle == Underway # {} ~> Underway = {}

==============================================================================
