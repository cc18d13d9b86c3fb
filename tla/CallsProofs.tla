----------------------------- MODULE CallsProofs -----------------------------
(***************************************************************************)
(* Theorems about the calls of two parties, for any number of mishaps and  *)
(* of unsynced events: a call is offered only while it rings, who is       *)
(* connected has a caller that knows of the answer, and a hangup that      *)
(* comes before the invite is remembered, by a client that is prepared.    *)
(*                                                                         *)
(* The invariant says what a party knows of each call, and what the events *)
(* underway say of it.  The call the UI shows is one it listens to, which  *)
(* has begun (OfferOK).  A party's own call has no answer before its       *)
(* invite is out (OwnOK), and nothing answers the other party's before its *)
(* invite was read (OtherOK).  An event is about a call its sender has     *)
(* begun (SendsOK, InboxOK).  A call is invited to once: while something   *)
(* still leads to the invite there is none, and when the other party knows *)
(* the call the invite has come and no other follows (InviteOK), so late   *)
(* media and late offers cannot invite again.  So an answer finds a call   *)
(* that waits for it (LinkOK).                                             *)
(*                                                                         *)
(* The methods of a call are followed by what they touch (Touches); a step *)
(* of a party, by what it leaves of the party's state and may send         *)
(* (Leaves, MaySend): Moves.  Every action but the arrival of an event is  *)
(* such a move, and moves keep the invariant (MovesKeeps).                 *)
(***************************************************************************)
EXTENDS Calls, TLAPS

CallStates == {"fledgling", "wait_local_media", "create_offer", "invite_sent", "ringing",
               "create_answer", "connecting", "connected", "ended"}

MatrixCalls == [state : CallStates, stream : BOOLEAN, waits : BOOLEAN, replaced : BOOLEAN,
                answer : BOOLEAN, remote : BOOLEAN, closed : BOOLEAN, listened : BOOLEAN]

EventTypes == {"invite", "answer", "hangup"}
Messages   == [type : EventTypes, call : Parties]
RoomEvents == [type : EventTypes, call : Parties, by : Parties]

PartyStates ==
  [calls : [Parties -> MatrixCalls], listed : [Parties -> {"no", "live", "hungUp"}],
   active : Parties \union {NoCall}, rings : BOOLEAN, doing : [Doings -> Nat],
   outbox : Seq(Messages)]

Sent(s) == {s.outbox[i] : i \in 1..Len(s.outbox)}

Fledgling(s, c) == StateOf(s, c) = "fledgling"

\* The call the UI shows is one it listens to, which is past its beginnings.
OfferOK(s) ==
  /\ s.rings => s.active # NoCall /\ StateOf(s, s.active) = "ringing"
  /\ s.active # NoCall => s.calls[s.active].listened
  /\ \A c \in Parties : s.calls[c].listened => ~Fledgling(s, c)

\* t is s after methods of call c, but for its state, the callbacks of answering
\* and the events sent.
Touches(s, t, c) ==
  /\ t \in PartyStates /\ OfferOK(t)
  /\ t.listed = s.listed
  /\ \A d \in Parties : d # c => t.calls[d] = s.calls[d]
  /\ t.calls[c].remote = s.calls[c].remote
  /\ t.calls[c].replaced = s.calls[c].replaced
  /\ t.calls[c].listened = s.calls[c].listened
  /\ \A d \in {"mediaForInvite", "offer"} : t.doing[d] = s.doing[d]

LEMMA OtherParty ==
  ASSUME NEW p \in Parties
  PROVE  /\ Other(p) \in Parties /\ Other(p) # p /\ Other(Other(p)) = p
         /\ \A r \in Parties : r = p \/ r = Other(p)
<1>1. PICK a \in Parties, b \in Parties : a # b /\ Parties = {a, b}
  BY CallsAssumption
<1>2. /\ Other(a) = b
      /\ Other(b) = a
  BY <1>1 DEF Other
<1> QED
  BY <1>1, <1>2

\* s with m for its call c.
WithCall(s, c, m) == [s EXCEPT !.calls = [s.calls EXCEPT ![c] = m]]

LEMMA CallReplaced ==
  ASSUME NEW s \in PartyStates, NEW c \in Parties, NEW m \in MatrixCalls
  PROVE  /\ WithCall(s, c, m) \in PartyStates
         /\ WithCall(s, c, m).calls[c] = m
         /\ \A d \in Parties : d # c => WithCall(s, c, m).calls[d] = s.calls[d]
         /\ WithCall(s, c, m).listed = s.listed
         /\ WithCall(s, c, m).active = s.active
         /\ WithCall(s, c, m).rings = s.rings
         /\ WithCall(s, c, m).doing = s.doing
         /\ WithCall(s, c, m).outbox = s.outbox
<1> DEFINE t == WithCall(s, c, m)
<1>1. s.calls \in [Parties -> MatrixCalls]
  BY DEF PartyStates
<1> DEFINE f == [s.calls EXCEPT ![c] = m]
<1>2. /\ f \in [Parties -> MatrixCalls] /\ f[c] = m
      /\ \A d \in Parties : d # c => f[d] = s.calls[d]
  BY <1>1
<1>3. t = [s EXCEPT !.calls = f]
  BY DEF WithCall
<1> HIDE DEF f, t
<1>4. t \in PartyStates
  BY <1>2, <1>3 DEF PartyStates
<1>5. /\ t.calls = f /\ t.listed = s.listed /\ t.active = s.active /\ t.rings = s.rings
      /\ t.doing = s.doing /\ t.outbox = s.outbox
  BY <1>3 DEF PartyStates
<1> QED
  BY <1>2, <1>4, <1>5 DEF t

\* The methods that change a call's state and tell the UI's listener.
LEMMA ListenedKeeps ==
  ASSUME NEW s \in PartyStates, NEW c \in Parties, NEW old, NEW new, s.calls[c].state = new,
         new \in CallStates \ {"fledgling"},
         s.active # NoCall => s.calls[s.active].listened,
         \A d \in Parties : s.calls[d].listened => ~Fledgling(s, d),
         s.rings => s.active # NoCall /\ (s.active # c => StateOf(s, s.active) = "ringing"),
         s.rings /\ s.active = c => old = "ringing",
         NEW t, t = Listened(s, c, old, new)
  PROVE  /\ t \in PartyStates /\ OfferOK(t)
         /\ t.calls = s.calls /\ t.listed = s.listed /\ t.doing = s.doing /\ t.outbox = s.outbox
<1>1. CASE t = s /\ (s.rings /\ s.active = c => new = "ringing")
  BY <1>1, CallsAssumption DEF OfferOK, StateOf
<1>2. CASE t = Active(s, NoCall, FALSE)
  BY <1>2, CallsAssumption DEF OfferOK, StateOf, Active, PartyStates, Fledgling
<1>3. CASE t = Active(s, c, new = "ringing") /\ s.calls[c].listened
  <2>1. PICK b \in BOOLEAN : b = (new = "ringing")
    OBVIOUS
  <2>a. b => new = "ringing"
    BY <2>1, Zenon
  <2>2. t = [s EXCEPT !.active = c, !.rings = b]
    BY <1>3, <2>1 DEF Active
  <2>3. t \in PartyStates
    BY <2>2 DEF PartyStates
  <2>4. /\ t.calls = s.calls /\ t.listed = s.listed /\ t.active = c /\ t.rings = b
        /\ t.doing = s.doing /\ t.outbox = s.outbox
    BY <2>2 DEF PartyStates
  <2>5. OfferOK(t)
    BY <1>3, <2>a, <2>4, CallsAssumption DEF OfferOK, StateOf, Fledgling
  <2> QED
    BY <2>3, <2>4, <2>5
<1> QED
  BY <1>1, <1>2, <1>3, CallsAssumption DEF Listened

LEMMA SetStateTouches ==
  ASSUME NEW s \in PartyStates, OfferOK(s), NEW c \in Parties,
         NEW new \in CallStates \ {"fledgling"}, NEW t, t = SetState(s, c, new)
  PROVE  /\ Touches(s, t, c) /\ StateOf(t, c) = new
         /\ t.doing = s.doing /\ t.outbox = s.outbox
<1> DEFINE u == [s EXCEPT !.calls[c].state = new]
           m == [s.calls[c] EXCEPT !.state = new]
<1>a. s.calls[c] \in MatrixCalls
  BY DEF PartyStates
<1>b. m \in MatrixCalls
  BY <1>a DEF MatrixCalls
<1>c. /\ m.state = new /\ m.remote = s.calls[c].remote /\ m.replaced = s.calls[c].replaced
      /\ m.listened = s.calls[c].listened
  BY <1>a DEF MatrixCalls
<1>d. u = WithCall(s, c, m)
  BY DEF WithCall
<1> HIDE DEF u, m
<1>1. /\ u \in PartyStates
      /\ u.calls[c] = m
      /\ \A d \in Parties : d # c => u.calls[d] = s.calls[d]
      /\ u.listed = s.listed /\ u.active = s.active /\ u.rings = s.rings
      /\ u.doing = s.doing /\ u.outbox = s.outbox
  BY <1>b, <1>d, CallReplaced
<1>2. /\ u.calls[c].state = new
      /\ u.calls[c].remote = s.calls[c].remote
      /\ u.calls[c].replaced = s.calls[c].replaced
      /\ u.calls[c].listened = s.calls[c].listened
  BY <1>1, <1>c
<1>3. t = Listened(u, c, StateOf(s, c), new)
  BY DEF SetState, u
<1>4. /\ u.active # NoCall => u.calls[u.active].listened
      /\ \A d \in Parties : u.calls[d].listened => ~Fledgling(u, d)
      /\ u.rings => u.active # NoCall /\ (u.active # c => StateOf(u, u.active) = "ringing")
      /\ u.rings /\ u.active = c => StateOf(s, c) = "ringing"
  BY <1>1, <1>2 DEF OfferOK, Fledgling, StateOf, PartyStates
<1>5. /\ t \in PartyStates /\ OfferOK(t)
      /\ t.calls = u.calls /\ t.listed = u.listed /\ t.doing = u.doing /\ t.outbox = u.outbox
  BY <1>1, <1>2, <1>3, <1>4, ListenedKeeps
<1> QED
  BY <1>1, <1>2, <1>5 DEF Touches, StateOf

LEMMA TerminateTouches ==
  ASSUME NEW s \in PartyStates, OfferOK(s), NEW c \in Parties, NEW emit \in BOOLEAN,
         NEW t, t = Terminate(s, c, emit)
  PROVE  /\ Touches(s, t, c) /\ StateOf(t, c) = "ended"
         /\ t.doing = s.doing /\ t.outbox = s.outbox
<1> DEFINE u == SetState(s, c, "ended")
           v == [u EXCEPT !.calls[c].closed = TRUE]
<1>1. /\ Touches(s, u, c) /\ StateOf(u, c) = "ended"
      /\ u.doing = s.doing /\ u.outbox = s.outbox
  BY SetStateTouches DEF CallStates
<1> HIDE DEF u
<1> DEFINE m == [u.calls[c] EXCEPT !.closed = TRUE]
<1>a. u \in PartyStates /\ u.calls[c] \in MatrixCalls
  BY <1>1 DEF Touches, PartyStates
<1>b. m \in MatrixCalls
  BY <1>a DEF MatrixCalls
<1>c. /\ m.state = u.calls[c].state /\ m.remote = u.calls[c].remote
      /\ m.replaced = u.calls[c].replaced /\ m.listened = u.calls[c].listened
  BY <1>a DEF MatrixCalls
<1>d. v = WithCall(u, c, m)
  BY DEF WithCall
<1>4. t \in {v, Active(v, NoCall, FALSE)}
  BY DEF Terminate, u
<1> HIDE DEF v, m
<1>2. /\ v \in PartyStates
      /\ v.calls[c] = m
      /\ \A d \in Parties : d # c => v.calls[d] = u.calls[d]
      /\ v.listed = u.listed /\ v.active = u.active /\ v.rings = u.rings
      /\ v.doing = u.doing /\ v.outbox = u.outbox
  BY <1>a, <1>b, <1>d, CallReplaced
<1>3. /\ v.calls[c].state = "ended"
      /\ v.calls[c].remote = s.calls[c].remote
      /\ v.calls[c].replaced = s.calls[c].replaced
      /\ v.calls[c].listened = s.calls[c].listened
  BY <1>1, <1>2, <1>c DEF Touches, StateOf
<1>e. \A d \in Parties : v.calls[d].state = u.calls[d].state /\ v.calls[d].listened = u.calls[d].listened
  BY <1>2, <1>c
<1>f. u.active \in Parties \union {NoCall} /\ OfferOK(u)
  BY <1>1 DEF Touches, PartyStates
<1>5. OfferOK(v)
  BY <1>2, <1>e, <1>f DEF OfferOK, StateOf, Fledgling
<1>6. Touches(s, v, c)
  BY <1>1, <1>2, <1>3, <1>5 DEF Touches
<1>7. CASE t = v
  BY <1>1, <1>2, <1>3, <1>6, <1>7 DEF StateOf
<1>8. CASE t = Active(v, NoCall, FALSE)
  <2>1. /\ t \in PartyStates /\ t.calls = v.calls /\ t.listed = v.listed /\ t.active = NoCall
        /\ t.rings = FALSE /\ t.doing = v.doing /\ t.outbox = v.outbox
    BY <1>2, <1>8 DEF Active, PartyStates
  <2>2. OfferOK(t)
    BY <1>5, <2>1 DEF OfferOK, Fledgling, StateOf
  <2> QED
    BY <1>1, <1>2, <1>3, <1>6, <2>1, <2>2 DEF Touches, StateOf
<1> QED
  BY <1>4, <1>7, <1>8

\* The UI turns to another call, or to none.
TurnsTo(h, a) == Active(h, a, FALSE)

LEMMA TurnsToTouches ==
  ASSUME NEW s, NEW h, NEW c \in Parties, Touches(s, h, c),
         NEW a \in Parties \union {NoCall}, a # NoCall => h.calls[a].listened
  PROVE  /\ Touches(s, TurnsTo(h, a), c)
         /\ StateOf(TurnsTo(h, a), c) = StateOf(h, c)
         /\ TurnsTo(h, a).doing = h.doing
         /\ Sent(TurnsTo(h, a)) = Sent(h)
<1> DEFINE t == TurnsTo(h, a)
<1>1. h \in PartyStates /\ OfferOK(h)
  BY DEF Touches
<1>2. /\ t \in PartyStates /\ t.calls = h.calls /\ t.listed = h.listed /\ t.active = a
      /\ t.rings = FALSE /\ t.doing = h.doing /\ t.outbox = h.outbox
  BY <1>1 DEF TurnsTo, Active, PartyStates
<1> HIDE DEF t
<1>3. OfferOK(t)
  BY <1>1, <1>2 DEF OfferOK, Fledgling, StateOf
<1>4. Touches(s, t, c) /\ StateOf(t, c) = StateOf(h, c)
  BY <1>2, <1>3 DEF Touches, StateOf
<1>5. Sent(t) = Sent(h)
  BY <1>2 DEF Sent
<1> QED
  BY <1>2, <1>4, <1>5 DEF t

\* A callback to come more, or one less.
LEMMA CountingBegins ==
  ASSUME NEW s \in PartyStates, NEW d \in Doings
  PROVE  /\ Begin(s, d) \in PartyStates
         /\ Begin(s, d).calls = s.calls /\ Begin(s, d).listed = s.listed
         /\ Begin(s, d).active = s.active /\ Begin(s, d).rings = s.rings
         /\ Begin(s, d).outbox = s.outbox
         /\ Begin(s, d).doing[d] = s.doing[d] + 1
         /\ \A e \in Doings : e # d => Begin(s, d).doing[e] = s.doing[e]
<1> DEFINE t == Begin(s, d)
           f == [s.doing EXCEPT ![d] = @ + 1]
<1>1. s.doing \in [Doings -> Nat]
  BY DEF PartyStates
<1>2. f \in [Doings -> Nat] /\ f[d] = s.doing[d] + 1 /\ \A e \in Doings : e # d => f[e] = s.doing[e]
  BY <1>1
<1>3. t = [s EXCEPT !.doing = f]
  BY DEF Begin
<1> HIDE DEF f, t
<1>4. t \in PartyStates
  BY <1>2, <1>3 DEF PartyStates
<1>5. /\ t.calls = s.calls /\ t.listed = s.listed /\ t.active = s.active /\ t.rings = s.rings
      /\ t.outbox = s.outbox /\ t.doing = f
  BY <1>3 DEF PartyStates
<1> QED
  BY <1>2, <1>4, <1>5 DEF t

LEMMA CountingTakes ==
  ASSUME NEW s \in PartyStates, NEW d \in Doings, s.doing[d] > 0
  PROVE  /\ Taken(s, d) \in PartyStates
         /\ Taken(s, d).calls = s.calls /\ Taken(s, d).listed = s.listed
         /\ Taken(s, d).active = s.active /\ Taken(s, d).rings = s.rings
         /\ Taken(s, d).outbox = s.outbox
         /\ Taken(s, d).doing[d] = s.doing[d] - 1
         /\ \A e \in Doings : e # d => Taken(s, d).doing[e] = s.doing[e]
<1> DEFINE t == Taken(s, d)
           f == [s.doing EXCEPT ![d] = @ - 1]
<1>1. s.doing \in [Doings -> Nat]
  BY DEF PartyStates
<1>2. f \in [Doings -> Nat] /\ f[d] = s.doing[d] - 1 /\ \A e \in Doings : e # d => f[e] = s.doing[e]
  BY <1>1
<1>3. t = [s EXCEPT !.doing = f]
  BY DEF Taken
<1> HIDE DEF f, t
<1>4. t \in PartyStates
  BY <1>2, <1>3 DEF PartyStates
<1>5. /\ t.calls = s.calls /\ t.listed = s.listed /\ t.active = s.active /\ t.rings = s.rings
      /\ t.outbox = s.outbox /\ t.doing = f
  BY <1>3 DEF PartyStates
<1> QED
  BY <1>2, <1>4, <1>5 DEF t

LEMMA SendAppends ==
  ASSUME NEW s \in PartyStates, NEW type \in EventTypes, NEW c \in Parties,
         NEW t, t = Send(s, type, c)
  PROVE  /\ t \in PartyStates
         /\ t.calls = s.calls /\ t.listed = s.listed /\ t.active = s.active /\ t.rings = s.rings
         /\ t.doing = s.doing
         /\ Sent(t) = Sent(s) \union {[type |-> type, call |-> c]}
<1> DEFINE m == [type |-> type, call |-> c]
<1>1. m \in Messages /\ s.outbox \in Seq(Messages)
  BY DEF Messages, PartyStates
<1> DEFINE out == Append(s.outbox, m)
<1>a. out \in Seq(Messages)
  BY <1>1
<1>b. t = [s EXCEPT !.outbox = out]
  BY DEF Send
<1> HIDE DEF m, out
<1>c. t \in PartyStates
  BY <1>a, <1>b DEF PartyStates
<1>d. /\ t.outbox = out
      /\ t.calls = s.calls /\ t.listed = s.listed /\ t.active = s.active /\ t.rings = s.rings
      /\ t.doing = s.doing
  BY <1>b DEF PartyStates
<1>2. t.outbox = Append(s.outbox, m)
  BY <1>d DEF out
<1>3. /\ Len(t.outbox) = Len(s.outbox) + 1 /\ Len(s.outbox) \in Nat
      /\ \A i \in 1..Len(s.outbox) : t.outbox[i] = s.outbox[i]
      /\ t.outbox[Len(s.outbox) + 1] = m
  BY <1>1, <1>2
<1>4. Sent(t) = Sent(s) \union {m}
  BY <1>3 DEF Sent
<1> QED
  BY <1>c, <1>d, <1>4 DEF m

LEMMA HangupTouches ==
  ASSUME NEW s \in PartyStates, OfferOK(s), NEW c \in Parties, NEW t, t = Hangup(s, c)
  PROVE  /\ Touches(s, t, c) /\ StateOf(t, c) = "ended" /\ t.doing = s.doing
         /\ Sent(t) \subseteq Sent(s) \union {[type |-> "hangup", call |-> c]}
<1>1. CASE StateOf(s, c) = "ended"
  BY <1>1 DEF Hangup, Touches
<1>2. CASE StateOf(s, c) # "ended"
  <2> DEFINE u == Terminate(s, c, TRUE)
  <2>1. /\ Touches(s, u, c) /\ StateOf(u, c) = "ended"
        /\ u.doing = s.doing /\ u.outbox = s.outbox
    BY TerminateTouches
  <2>2. t = Send(u, "hangup", c)
    BY <1>2 DEF Hangup
  <2> HIDE DEF u
  <2>3. /\ t \in PartyStates
        /\ t.calls = u.calls /\ t.listed = u.listed /\ t.active = u.active /\ t.rings = u.rings
        /\ t.doing = u.doing
        /\ Sent(t) = Sent(u) \union {[type |-> "hangup", call |-> c]}
    BY <2>1, <2>2, SendAppends DEF Touches, EventTypes
  <2>4. Sent(u) = Sent(s)
    BY <2>1 DEF Sent
  <2>5. OfferOK(t)
    BY <2>1, <2>3 DEF Touches, OfferOK, StateOf, Fledgling
  <2> QED
    BY <2>1, <2>3, <2>4, <2>5 DEF Touches, StateOf
<1> QED
  BY <1>1, <1>2

-----------------------------------------------------------------------------
\* Answering: media, createAnswer, and the answer again when it had been sent.
LEMMA GotMediaForAnswerTouches ==
  ASSUME NEW s \in PartyStates, OfferOK(s), NEW c \in Parties,
         NEW t, t = GotMediaForAnswer(s, c)
  PROVE  /\ Touches(s, t, c) /\ StateOf(t, c) \in {"ended", "create_answer"}
         /\ t.outbox = s.outbox
<1>1. CASE StateOf(s, c) = "ended"
  BY <1>1 DEF GotMediaForAnswer, Touches
<1>2. CASE StateOf(s, c) # "ended"
  <2> DEFINE m == [s.calls[c] EXCEPT !.stream = TRUE]
             u == WithCall(s, c, m)
             v == Begin(u, "createAnswer")
  <2>1. s.calls[c] \in MatrixCalls
    BY DEF PartyStates
  <2>2. m \in MatrixCalls
    BY <2>1 DEF MatrixCalls
  <2>3. /\ m.state = s.calls[c].state /\ m.remote = s.calls[c].remote
        /\ m.replaced = s.calls[c].replaced /\ m.listened = s.calls[c].listened
    BY <2>1 DEF MatrixCalls
  <2>4. [s EXCEPT !.calls[c].stream = TRUE] = u
    BY DEF WithCall
  <2>5. t = SetState(v, c, "create_answer")
    BY <1>2, <2>4 DEF GotMediaForAnswer
  <2> HIDE DEF m
  <2>6. /\ u \in PartyStates
        /\ u.calls[c] = m
        /\ \A d \in Parties : d # c => u.calls[d] = s.calls[d]
        /\ u.listed = s.listed /\ u.active = s.active /\ u.rings = s.rings
        /\ u.doing = s.doing /\ u.outbox = s.outbox
    BY <2>2, CallReplaced
  <2> HIDE DEF u
  <2>7. /\ v \in PartyStates
        /\ v.calls = u.calls /\ v.listed = u.listed /\ v.active = u.active /\ v.rings = u.rings
        /\ v.outbox = u.outbox
        /\ \A d \in {"mediaForInvite", "offer"} : v.doing[d] = u.doing[d]
    BY <2>6, CountingBegins DEF Doings
  <2> HIDE DEF v
  <2>a. \A d \in Parties : /\ v.calls[d].listened = s.calls[d].listened
                          /\ v.calls[d].state = s.calls[d].state
    BY <2>3, <2>6, <2>7
  <2>b. s.active \in Parties \union {NoCall}
    BY DEF PartyStates
  <2>8. OfferOK(v)
    BY <2>6, <2>7, <2>a, <2>b DEF OfferOK, StateOf, Fledgling
  <2>9. /\ Touches(v, t, c) /\ StateOf(t, c) = "create_answer" /\ t.outbox = v.outbox
    BY <2>5, <2>7, <2>8, SetStateTouches DEF CallStates
  <2> QED
    BY <2>3, <2>6, <2>7, <2>9 DEF Touches
<1> QED
  BY <1>1, <1>2

LEMMA AnswerTouches ==
  ASSUME NEW s \in PartyStates, OfferOK(s), NEW c \in Parties, NEW t, t = Answer(s, c)
  PROVE  /\ Touches(s, t, c)
         /\ StateOf(t, c) \in {StateOf(s, c), "ended", "create_answer", "wait_local_media"}
         /\ Sent(t) \subseteq Sent(s) \union {[type |-> "answer", call |-> c]}
<1>1. CASE s.calls[c].answer
  <2>1. t = Send(s, "answer", c)
    BY <1>1 DEF Answer
  <2>2. /\ t \in PartyStates
        /\ t.calls = s.calls /\ t.listed = s.listed /\ t.active = s.active /\ t.rings = s.rings
        /\ t.doing = s.doing
        /\ Sent(t) = Sent(s) \union {[type |-> "answer", call |-> c]}
    BY <2>1, SendAppends DEF EventTypes
  <2> QED
    BY <2>2 DEF Touches, OfferOK, StateOf, Fledgling
<1>2. CASE ~s.calls[c].answer /\ s.calls[c].stream
  <2>1. t = GotMediaForAnswer(s, c)
    BY <1>2 DEF Answer
  <2>2. /\ Touches(s, t, c) /\ StateOf(t, c) \in {"ended", "create_answer"}
        /\ t.outbox = s.outbox
    BY <2>1, GotMediaForAnswerTouches
  <2> QED
    BY <2>2 DEF Sent
<1>3. CASE ~s.calls[c].answer /\ ~s.calls[c].stream /\ s.calls[c].waits
  <2>1. t = SetState(s, c, "wait_local_media")
    BY <1>3 DEF Answer
  <2>2. Touches(s, t, c) /\ StateOf(t, c) = "wait_local_media" /\ t.outbox = s.outbox
    BY <2>1, SetStateTouches DEF CallStates
  <2> QED
    BY <2>2 DEF Sent
<1>4. CASE ~s.calls[c].answer /\ ~s.calls[c].stream /\ ~s.calls[c].waits
  <2> DEFINE v == Begin(s, "mediaForAnswer")
  <2>1. t = SetState(v, c, "wait_local_media")
    BY <1>4 DEF Answer
  <2>2. /\ v \in PartyStates
        /\ v.calls = s.calls /\ v.listed = s.listed /\ v.active = s.active /\ v.rings = s.rings
        /\ v.outbox = s.outbox
        /\ \A d \in {"mediaForInvite", "offer"} : v.doing[d] = s.doing[d]
    BY CountingBegins DEF Doings
  <2> HIDE DEF v
  <2>3. OfferOK(v)
    BY <2>2 DEF OfferOK, StateOf, Fledgling
  <2>4. Touches(v, t, c) /\ StateOf(t, c) = "wait_local_media" /\ t.outbox = v.outbox
    BY <2>1, <2>2, <2>3, SetStateTouches DEF CallStates
  <2> QED
    BY <2>2, <2>4 DEF Touches, Sent
<1> QED
  BY <1>1, <1>2, <1>3, <1>4

-----------------------------------------------------------------------------
(* What a step of a party leaves of its state.                             *)

\* The callbacks that lead to an invite: 0 or 1.
ToOffer(s) == s.doing["mediaForInvite"] + s.doing["offer"]

\* The states a call can be in at the party that placed it and has an answer.
Late == {"invite_sent", "connecting", "connected", "ended"}

\* p's own call: not placed, nothing is known of it; answered, its invite is out.
OwnOK(p, s) ==
  /\ StateOf(s, p) # "ringing"
  /\ ToOffer(s) \in {0, 1}
  /\ Fledgling(s, p) => s.listed[p] = "no" /\ ~s.calls[p].replaced /\ ToOffer(s) = 0
  /\ s.calls[p].remote => StateOf(s, p) \in Late /\ ToOffer(s) = 0

\* The call of the other party, before its invite: nothing answers it.
OtherOK(p, s) ==
  Fledgling(s, Other(p)) =>
    /\ s.listed[Other(p)] # "live"
    /\ ~s.calls[p].replaced
    /\ s.doing["mediaForAnswer"] = 0 /\ s.doing["createAnswer"] = 0

PartyOK(p, s) == s \in PartyStates /\ OfferOK(s) /\ OwnOK(p, s) /\ OtherOK(p, s)

\* No call goes back to its beginnings, nothing more leads to an invite, and the
\* own call keeps its answer.
Advances(p, s, t) ==
  /\ PartyOK(p, t)
  /\ \A c \in Parties : ~Fledgling(s, c) => ~Fledgling(t, c)
  /\ ToOffer(t) <= ToOffer(s)
  /\ s.calls[p].remote => t.calls[p].remote

\* A party's methods on a call that has begun keep what it knows.
LEMMA TouchesAdvances ==
  ASSUME NEW p \in Parties, NEW s, PartyOK(p, s), NEW c \in Parties, ~Fledgling(s, c),
         NEW t, Touches(s, t, c), StateOf(t, c) # "fledgling",
         c = p => /\ StateOf(t, c) # "ringing"
                  /\ s.calls[p].remote => StateOf(t, c) \in Late,
         c = p => t.doing = s.doing
  PROVE  /\ Advances(p, s, t)
         /\ \A d \in Parties : Fledgling(s, d) => Fledgling(t, d)
         /\ s.calls[p].remote = t.calls[p].remote
<1>1. /\ t.listed = s.listed
      /\ \A d \in Parties : d # c => t.calls[d] = s.calls[d]
      /\ t.calls[c].remote = s.calls[c].remote
      /\ t.calls[c].replaced = s.calls[c].replaced
      /\ t \in PartyStates /\ OfferOK(t)
  BY DEF Touches
<1>2. ToOffer(t) = ToOffer(s)
  BY DEF Touches, ToOffer
<1>3. /\ Other(p) \in Parties /\ Other(p) # p
      /\ \A r \in Parties : r = p \/ r = Other(p)
  BY OtherParty
<1>4. /\ t.calls[p].remote = s.calls[p].remote
      /\ t.calls[p].replaced = s.calls[p].replaced
      /\ \A d \in Parties : Fledgling(t, d) <=> Fledgling(s, d)
      /\ \A d \in Parties : d # c => StateOf(t, d) = StateOf(s, d)
  BY <1>1 DEF Fledgling, StateOf
<1>5. OwnOK(p, s) /\ OtherOK(p, s)
  BY DEF PartyOK
<1>6. OwnOK(p, t)
  BY <1>1, <1>2, <1>4, <1>5 DEF OwnOK
<1>7. OtherOK(p, t)
  <2>1. CASE c = p
    BY <1>1, <1>3, <1>4, <1>5, <2>1 DEF OtherOK
  <2>2. CASE c = Other(p)
    BY <1>4, <2>2 DEF OtherOK
  <2> QED
    BY <1>3, <2>1, <2>2
<1>8. ToOffer(t) <= ToOffer(s)
  BY <1>2, <1>5 DEF OwnOK
<1> QED
  BY <1>1, <1>4, <1>6, <1>7, <1>8 DEF Advances, PartyOK

-----------------------------------------------------------------------------
(* The events underway, and what the parties know of each other.           *)

Unsynced(p) == {inbox[p][i] : i \in 1..Len(inbox[p])}

IsSent(x) ==
  /\ x = [type |-> x.type, call |-> x.call, nr |-> x.nr, arrived |-> x.arrived]
  /\ x.type \in EventTypes /\ x.call \in Parties /\ x.arrived \in BOOLEAN

\* p sends the invite of its own call, and answers the other's.
SentBy(p, m) ==
  /\ m.type = "invite" => m.call = p
  /\ m.type = "answer" => m.call = Other(p)

\* Nobody sends an event about a call it does not know.
SendsOK(p) ==
  \A x \in sends[p] : IsSent(x) /\ SentBy(p, x) /\ ~Fledgling(party[p], x.call)

InboxOK(p) ==
  \A e \in Unsynced(p) :
    /\ e.type = "invite" => e.by = Other(p)
    /\ SentBy(e.by, e)
    /\ ~Fledgling(party[e.by], e.call)

\* No invite of p is on its way to the other party.
NoInviteFlies(p) ==
  /\ \A x \in sends[p] : x.type = "invite" => x.arrived
  /\ \A e \in Unsynced(Other(p)) : e.type # "invite"

\* p invites once.  When the other party knows of the call, the invite has come.
InviteOK(p) ==
  /\ \A x, y \in sends[p] : x.type = "invite" /\ y.type = "invite" => x = y
  /\ \A i, j \in 1..Len(inbox[Other(p)]) :
       inbox[Other(p)][i].type = "invite" /\ inbox[Other(p)][j].type = "invite" => i = j
  /\ ToOffer(party[p]) = 1 =>
       NoInviteFlies(p) /\ \A x \in sends[p] : x.type # "invite"
  /\ \A x \in sends[p] :
       x.type = "invite" /\ ~x.arrived => \A e \in Unsynced(Other(p)) : e.type # "invite"
  /\ ~Fledgling(party[Other(p)], p) =>
       /\ ~Fledgling(party[p], p) /\ ToOffer(party[p]) = 0
       /\ NoInviteFlies(p)

\* An answer comes from a party that knows the call; who is connected has sent it.
LinkOK(p) ==
  /\ party[p].calls[p].remote => ~Fledgling(party[Other(p)], p)
  /\ StateOf(party[Other(p)], p) = "connected" => party[p].calls[p].remote

CallsTypeOK ==
  /\ party \in [Parties -> PartyStates]
  /\ \A p \in Parties : party[p].outbox = <<>>
  /\ sends = [p \in Parties |-> sends[p]]
  /\ \A p \in Parties : \A x \in sends[p] : IsSent(x)
  /\ inbox \in [Parties -> Seq(RoomEvents)]

IInv ==
  /\ CallsTypeOK
  /\ \A p \in Parties :
       PartyOK(p, party[p]) /\ SendsOK(p) /\ InboxOK(p) /\ InviteOK(p) /\ LinkOK(p)

\* p reads the next events of the room: one, its start-up buffer, or what an exception takes with it.
Reads(p) == \E k \in 1..Len(inbox[p]) : Takes(p, k)

\* The invite is among the events p reads.
ReadsInvite(p) ==
  \E k \in 1..Len(inbox[p]) : Takes(p, k) /\ \E i \in 1..k : inbox[p][i].type = "invite"

\* What a step may make of the state of p: t.
Leaves(p, t) ==
  /\ PartyOK(p, t)
  /\ \A c \in Parties : ~Fledgling(party[p], c) => ~Fledgling(t, c)
  /\ Fledgling(party[p], p) \/ ToOffer(t) <= ToOffer(party[p])
  /\ party[p].calls[p].remote => t.calls[p].remote
  /\ t.calls[p].remote => party[p].calls[p].remote \/ ~Fledgling(party[Other(p)], p)
  /\ StateOf(t, Other(p)) = "connected" =>
       StateOf(party[p], Other(p)) = "connected" \/ party[Other(p)].calls[Other(p)].remote
  /\ Fledgling(party[p], Other(p)) /\ ~Fledgling(t, Other(p)) =>
       /\ ReadsInvite(p)
       /\ party[p].listed[Other(p)] # "hungUp"

\* What p may send in that step.
MaySend(p, t, m) ==
  /\ SentBy(p, m) /\ ~Fledgling(t, m.call)
  /\ m.type = "invite" => ToOffer(party[p]) = 1 /\ ToOffer(t) = 0

\* A step of p, the arrival of its events apart.
Moves(p) ==
  /\ Leaves(p, party'[p]) /\ party'[p].outbox = <<>>
  /\ party' = [party EXCEPT ![p] = party'[p]]
  /\ sends' = [sends EXCEPT ![p] = sends'[p]]
  /\ inbox' = inbox \/ Reads(p)
  /\ \A x \in sends'[p] : x \in sends[p] \/ (IsSent(x) /\ MaySend(p, party'[p], x))
  /\ \A x, y \in sends'[p] \ sends[p] : x.type = "invite" /\ y.type = "invite" => x = y

\* What p has read is gone, the rest has moved up.
LEMMA TakesPrefix ==
  ASSUME IInv, NEW p \in Parties, NEW k \in 0..Len(inbox[p]), Takes(p, k)
  PROVE  /\ inbox' \in [Parties -> Seq(RoomEvents)]
         /\ \A r \in Parties : r # p => inbox'[r] = inbox[r]
         /\ Len(inbox[p]) \in Nat
         /\ Len(inbox'[p]) = Len(inbox[p]) - k
         /\ \A i \in 1..Len(inbox'[p]) : i + k \in 1..Len(inbox[p]) /\ inbox'[p][i] = inbox[p][i + k]
         /\ k = 0 => inbox' = inbox
<1>1. inbox \in [Parties -> Seq(RoomEvents)] /\ inbox[p] \in Seq(RoomEvents)
  BY DEF IInv, CallsTypeOK
<1>2. PICK s \in Seq(RoomEvents) : s = inbox[p]
  BY <1>1
<1> DEFINE rest == SubSeq(s, k + 1, Len(s))
<1>3. Len(s) \in Nat /\ k \in 0..Len(s)
  BY <1>2
<1>4. /\ rest \in Seq(RoomEvents) /\ Len(rest) = Len(s) - k
      /\ \A i \in 1..Len(rest) : rest[i] = s[i + k]
  BY <1>3
<1>5. \A i \in 1..Len(rest) : i + k \in 1..Len(s)
  BY <1>3, <1>4
<1>6. k = 0 => rest = s
  BY <1>3
<1>7. inbox' = [inbox EXCEPT ![p] = rest]
  BY <1>2 DEF Takes
<1> HIDE DEF rest
<1>8. /\ inbox' \in [Parties -> Seq(RoomEvents)] /\ inbox'[p] = rest
      /\ \A r \in Parties : r # p => inbox'[r] = inbox[r]
  BY <1>1, <1>4, <1>7
<1>9. k = 0 => inbox' = inbox
  BY <1>1, <1>2, <1>6, <1>7
<1> QED
  BY <1>2, <1>3, <1>4, <1>5, <1>8, <1>9

LEMMA UnsyncedShrinks ==
  ASSUME IInv, NEW p \in Parties, inbox' = inbox \/ Reads(p), NEW r \in Parties
  PROVE  /\ Unsynced(r)' \subseteq Unsynced(r)
         /\ inbox' \in [Parties -> Seq(RoomEvents)]
<1>1. CASE inbox' = inbox
  BY <1>1 DEF Unsynced, IInv, CallsTypeOK
<1>2. CASE Reads(p)
  <2> PICK k \in 0..Len(inbox[p]) : Takes(p, k)
    BY <1>2 DEF Reads
  <2>1. CASE r # p
    BY <2>1, TakesPrefix DEF Unsynced
  <2>2. CASE r = p
    <3>1. ASSUME NEW e \in Unsynced(p)'
          PROVE  e \in Unsynced(p)
      <4>1. PICK i \in 1..Len(inbox'[p]) : e = inbox'[p][i]
        BY <3>1 DEF Unsynced
      <4>2. i + k \in 1..Len(inbox[p]) /\ e = inbox[p][i + k]
        BY <4>1, TakesPrefix
      <4> QED
        BY <4>2 DEF Unsynced
    <3> QED
      BY <2>2, <3>1, TakesPrefix
  <2> QED
    BY <2>1, <2>2
<1> QED
  BY <1>1, <1>2

LEMMA MovesKeeps ==
  ASSUME IInv, NEW p \in Parties, Moves(p)
  PROVE  IInv'
<1> DEFINE q == Other(p)
           s == party[p]
           t == party'[p]
<1>1. /\ q \in Parties /\ q # p /\ Other(q) = p
      /\ \A r \in Parties : r = p \/ r = q
  BY OtherParty
<1> HIDE DEF q
<1>2. /\ party \in [Parties -> PartyStates] /\ sends = [r \in Parties |-> sends[r]]
      /\ inbox \in [Parties -> Seq(RoomEvents)]
      /\ \A r \in Parties : party[r].outbox = <<>>
      /\ \A r \in Parties : PartyOK(r, party[r]) /\ SendsOK(r) /\ InboxOK(r) /\ InviteOK(r) /\ LinkOK(r)
  BY DEF IInv, CallsTypeOK
<1>3. /\ PartyOK(p, t) /\ t \in PartyStates /\ t.outbox = <<>>
      /\ party'[q] = party[q] /\ sends'[q] = sends[q]
      /\ party' \in [Parties -> PartyStates]
      /\ sends' = [r \in Parties |-> sends'[r]]
  BY <1>1, <1>2 DEF Moves, Leaves, PartyOK
<1>4. /\ \A c \in Parties : ~Fledgling(s, c) => ~Fledgling(t, c)
      /\ Fledgling(s, p) \/ ToOffer(t) <= ToOffer(s)
      /\ s.calls[p].remote => t.calls[p].remote
      /\ t.calls[p].remote => s.calls[p].remote \/ ~Fledgling(party[q], p)
      /\ StateOf(t, q) = "connected" => StateOf(s, q) = "connected" \/ party[q].calls[q].remote
      /\ Fledgling(s, q) /\ ~Fledgling(t, q) =>
           ReadsInvite(p)
      /\ \A x \in sends'[p] : x \in sends[p] \/ (IsSent(x) /\ MaySend(p, t, x))
      /\ \A x, y \in sends'[p] \ sends[p] : x.type = "invite" /\ y.type = "invite" => x = y
      /\ inbox' = inbox \/ Reads(p)
  BY DEF Moves, Leaves, q
<1>5. /\ \A r \in Parties : Unsynced(r)' \subseteq Unsynced(r)
      /\ inbox' \in [Parties -> Seq(RoomEvents)]
      /\ inbox'[q] = inbox[q]
  <2>1. CASE inbox' = inbox
    BY <1>1, <1>4, <2>1, UnsyncedShrinks
  <2>2. CASE Reads(p)
    <3>1. PICK k \in 0..Len(inbox[p]) : Takes(p, k)
      BY <2>2 DEF Reads
    <3> QED
      BY <1>1, <1>4, <3>1, UnsyncedShrinks, TakesPrefix
  <2> QED
    BY <1>4, <2>1, <2>2
<1>6. ToOffer(s) \in {0, 1} /\ ToOffer(t) \in {0, 1} /\ ToOffer(party[q]) \in {0, 1}
  BY <1>1, <1>2, <1>3 DEF PartyOK, OwnOK
\* An invite on its way is one of a call its owner knows of.
<1>7. ASSUME NEW r \in Parties, NEW e \in Unsynced(r)
      PROVE  /\ e.by \in Parties /\ e.call \in Parties
             /\ e.type = "invite" => e.by = Other(r) /\ e.call = Other(r)
             /\ ~Fledgling(party[e.by], e.call)
  <2>1. e \in RoomEvents
    BY <1>2, <1>7 DEF Unsynced
  <2> QED
    BY <1>2, <1>7, <2>1 DEF InboxOK, SentBy, RoomEvents
<1>8. ASSUME NEW r \in Parties
      PROVE  PartyOK(r, party'[r]) /\ party'[r].outbox = <<>>
  BY <1>1, <1>2, <1>3
<1>9. ASSUME NEW r \in Parties
      PROVE  SendsOK(r)' /\ (\A x \in sends'[r] : IsSent(x))
  <2>1. CASE r = q
    BY <1>2, <1>3, <2>1 DEF SendsOK
  <2>2. CASE r = p
    <3>1. ASSUME NEW x \in sends'[p]
          PROVE  IsSent(x) /\ SentBy(p, x) /\ ~Fledgling(t, x.call)
      <4>1. CASE x \in sends[p]
        BY <1>2, <1>4, <4>1 DEF SendsOK, IsSent
      <4>2. CASE x \notin sends[p]
        BY <1>4, <3>1, <4>2 DEF MaySend
      <4> QED
        BY <4>1, <4>2
    <3> QED
      BY <2>2, <3>1 DEF SendsOK
  <2> QED
    BY <1>1, <2>1, <2>2
<1>10. ASSUME NEW r \in Parties
       PROVE  InboxOK(r)'
  <2>1. ASSUME NEW e \in Unsynced(r)'
        PROVE  /\ e.type = "invite" => e.by = Other(r)
               /\ SentBy(e.by, e)
               /\ ~Fledgling(party'[e.by], e.call)
    <3>1. e \in Unsynced(r)
      BY <1>5, <2>1
    <3>2. /\ e.type = "invite" => e.by = Other(r)
          /\ SentBy(e.by, e)
      BY <1>2, <3>1 DEF InboxOK
    <3>3. ~Fledgling(party'[e.by], e.call)
      <4>1. e.by \in Parties /\ e.call \in Parties /\ ~Fledgling(party[e.by], e.call)
        BY <1>7, <3>1
      <4> QED
        BY <1>1, <1>3, <1>4, <4>1
    <3> QED
      BY <3>2, <3>3
  <2> QED
    BY <2>1 DEF InboxOK
<1>11. InviteOK(p)'
  <2>1. /\ \A x, y \in sends[p] : x.type = "invite" /\ y.type = "invite" => x = y
        /\ \A i, j \in 1..Len(inbox[q]) :
             inbox[q][i].type = "invite" /\ inbox[q][j].type = "invite" => i = j
        /\ ToOffer(s) = 1 => NoInviteFlies(p) /\ \A x \in sends[p] : x.type # "invite"
        /\ \A x \in sends[p] :
             x.type = "invite" /\ ~x.arrived => \A e \in Unsynced(q) : e.type # "invite"
        /\ ~Fledgling(party[q], p) =>
             ~Fledgling(s, p) /\ ToOffer(s) = 0 /\ NoInviteFlies(p)
    BY <1>2 DEF InviteOK, q
  <2>2. Unsynced(q)' = Unsynced(q)
    BY <1>5 DEF Unsynced
  <2>3. Fledgling(s, p) => /\ \A x \in sends[p] : x.type # "invite"
                           /\ \A e \in Unsynced(q) : e.type # "invite"
    <3>1. \A x \in sends[p] : x.type = "invite" => x.call = p /\ ~Fledgling(s, x.call)
      BY <1>2 DEF SendsOK, SentBy
    <3> QED
      BY <1>1, <1>7, <3>1
  <2>4. \A x \in sends'[p] : x.type = "invite" /\ x \notin sends[p] => ToOffer(s) = 1 /\ ToOffer(t) = 0
    BY <1>4 DEF MaySend
  <2>5. ToOffer(t) = 1 => /\ \A x \in sends'[p] : x.type # "invite"
                          /\ \A e \in Unsynced(q) : e.type # "invite"
    <3>1. ASSUME ToOffer(t) = 1
          PROVE  /\ \A x \in sends[p] : x.type # "invite"
                 /\ \A e \in Unsynced(q) : e.type # "invite"
      BY <1>4, <1>6, <2>1, <2>3, <3>1 DEF NoInviteFlies, q
    <3> QED
      BY <2>4, <3>1
  <2>6. \A x, y \in sends'[p] : x.type = "invite" /\ y.type = "invite" => x = y
    <3>1. ASSUME NEW x \in sends'[p], NEW y \in sends'[p], x.type = "invite", y.type = "invite",
                 x \notin sends[p]
          PROVE  y \notin sends[p]
      BY <2>1, <2>4, <3>1
    <3> QED
      BY <1>4, <2>1, <3>1
  <2>7. \A x \in sends'[p] :
          x.type = "invite" /\ ~x.arrived => \A e \in Unsynced(q) : e.type # "invite"
    BY <2>1, <2>4 DEF NoInviteFlies, q
  <2>8. ASSUME ~Fledgling(party[q], p)
        PROVE  /\ ~Fledgling(t, p) /\ ToOffer(t) = 0
               /\ \A x \in sends'[p] : x.type = "invite" => x.arrived
               /\ \A e \in Unsynced(q) : e.type # "invite"
    <3>1. ~Fledgling(s, p) /\ ToOffer(s) = 0 /\ NoInviteFlies(p)
      BY <2>1, <2>8
    <3> QED
      BY <1>4, <1>6, <2>4, <3>1 DEF NoInviteFlies, q
  <2> QED
    BY <1>3, <1>5, <2>1, <2>2, <2>5, <2>6, <2>7, <2>8 DEF InviteOK, NoInviteFlies, q
<1>12. InviteOK(q)'
  <2>1. /\ \A x, y \in sends[q] : x.type = "invite" /\ y.type = "invite" => x = y
        /\ \A i, j \in 1..Len(inbox[p]) :
             inbox[p][i].type = "invite" /\ inbox[p][j].type = "invite" => i = j
        /\ ToOffer(party[q]) = 1 =>
             NoInviteFlies(q) /\ \A x \in sends[q] : x.type # "invite"
        /\ \A x \in sends[q] :
             x.type = "invite" /\ ~x.arrived => \A e \in Unsynced(p) : e.type # "invite"
        /\ ~Fledgling(s, q) =>
             ~Fledgling(party[q], q) /\ ToOffer(party[q]) = 0 /\ NoInviteFlies(q)
    BY <1>1, <1>2 DEF InviteOK
  <2>2. Unsynced(p)' \subseteq Unsynced(p)
    BY <1>5
  <2>3. \A i, j \in 1..Len(inbox'[p]) :
          inbox'[p][i].type = "invite" /\ inbox'[p][j].type = "invite" => i = j
    <3>1. CASE inbox' = inbox
      BY <2>1, <3>1
    <3>2. CASE Reads(p)
      <4> PICK k \in 0..Len(inbox[p]) : Takes(p, k)
        BY <3>2 DEF Reads
      <4>1. ASSUME NEW i \in 1..Len(inbox'[p]), NEW j \in 1..Len(inbox'[p]),
                   inbox'[p][i].type = "invite", inbox'[p][j].type = "invite"
            PROVE  i = j
        <5>1. /\ i + k \in 1..Len(inbox[p]) /\ inbox'[p][i] = inbox[p][i + k]
              /\ j + k \in 1..Len(inbox[p]) /\ inbox'[p][j] = inbox[p][j + k]
          BY <4>1, TakesPrefix
        <5>2. i + k = j + k
          BY <2>1, <4>1, <5>1
        <5> QED
          BY <5>2
      <4> QED
        BY <4>1
    <3> QED
      BY <1>4, <3>1, <3>2
  <2>4. NoInviteFlies(q) => NoInviteFlies(q)'
    BY <1>1, <1>3, <2>2 DEF NoInviteFlies
  <2>5. ASSUME ~Fledgling(t, q), Fledgling(s, q)
        PROVE  ~Fledgling(party[q], q) /\ ToOffer(party[q]) = 0 /\ NoInviteFlies(q)'
    <3> PICK k \in 1..Len(inbox[p]) : Takes(p, k) /\ \E n \in 1..k : inbox[p][n].type = "invite"
      BY <1>4, <2>5 DEF ReadsInvite
    <3> PICK n \in 1..k : inbox[p][n].type = "invite"
      OBVIOUS
    <3>1. n \in 1..Len(inbox[p]) /\ inbox[p][n] \in Unsynced(p) /\ k \in 0..Len(inbox[p])
      BY TakesPrefix DEF Unsynced
    <3>2. ~Fledgling(party[q], q)
      BY <1>1, <1>7, <3>1 DEF q
    <3>3. ToOffer(party[q]) = 0
      BY <1>1, <1>6, <2>1, <3>1 DEF NoInviteFlies
    <3>4. \A x \in sends[q] : x.type = "invite" => x.arrived
      BY <1>2, <2>1, <3>1 DEF SendsOK, IsSent
    <3>5. ASSUME NEW e \in Unsynced(p)', e.type = "invite"
          PROVE  FALSE
      <4>1. PICK i \in 1..Len(inbox'[p]) : e = inbox'[p][i]
        BY <3>5 DEF Unsynced
      <4>2. i + k \in 1..Len(inbox[p]) /\ e = inbox[p][i + k]
        BY <3>1, <4>1, TakesPrefix
      <4>3. i + k = n
        BY <2>1, <3>1, <3>5, <4>2
      <4> QED
        BY <4>1, <4>3
    <3> QED
      BY <1>1, <1>3, <3>2, <3>3, <3>4, <3>5 DEF NoInviteFlies
  <2> QED
    BY <1>1, <1>3, <2>1, <2>2, <2>3, <2>4, <2>5 DEF InviteOK
<1>13. LinkOK(p)' /\ LinkOK(q)'
  <2>1. /\ s.calls[p].remote => ~Fledgling(party[q], p)
        /\ StateOf(party[q], p) = "connected" => s.calls[p].remote
        /\ party[q].calls[q].remote => ~Fledgling(s, q)
        /\ StateOf(s, q) = "connected" => party[q].calls[q].remote
    BY <1>1, <1>2 DEF LinkOK, q
  <2>2. /\ t.calls[p].remote => ~Fledgling(party'[q], p)
        /\ StateOf(party'[q], p) = "connected" => t.calls[p].remote
    BY <1>3, <1>4, <2>1
  <2>3. /\ party'[q].calls[q].remote => ~Fledgling(t, q)
        /\ StateOf(t, q) = "connected" => party'[q].calls[q].remote
    BY <1>1, <1>3, <1>4, <2>1
  <2> QED
    BY <1>1, <2>2, <2>3 DEF LinkOK, q
<1> QED
  BY <1>1, <1>3, <1>5, <1>8, <1>9, <1>10, <1>11, <1>12, <1>13 DEF IInv, CallsTypeOK

-----------------------------------------------------------------------------
\* The step is over: the events it sent are in flight.
LEMMA BecomesMoves ==
  ASSUME IInv, NEW p \in Parties, NEW t, Becomes(p, t), Leaves(p, t),
         inbox' = inbox \/ Reads(p), \A m \in Sent(t) : MaySend(p, t, m)
  PROVE  Moves(p)
<1> DEFINE u == [t EXCEPT !.outbox = <<>>]
<1>1. /\ party \in [Parties -> PartyStates] /\ sends = [r \in Parties |-> sends[r]]
      /\ t \in PartyStates
  BY DEF IInv, CallsTypeOK, Leaves, PartyOK
<1>a. /\ party' = [party EXCEPT ![p] = u]
      /\ sends' = [sends EXCEPT ![p] = sends[p] \union InFlight(p, t)]
  BY DEF Becomes
<1>b. party'[p] = u
  BY <1>1, <1>a
<1>c. sends'[p] = sends[p] \union InFlight(p, t)
  <2> DEFINE new == sends[p] \union InFlight(p, t)
  <2>1. sends' = [sends EXCEPT ![p] = new]
    BY <1>a
  <2> HIDE DEF new
  <2>2. sends'[p] = new
    BY <1>1, <2>1
  <2> QED
    BY <2>2 DEF new
<1>2. /\ party' = [party EXCEPT ![p] = party'[p]] /\ party'[p] = u
      /\ sends' = [sends EXCEPT ![p] = sends'[p]]
      /\ sends'[p] = sends[p] \union InFlight(p, t)
  <2> HIDE DEF u
  <2> QED
    BY <1>a, <1>b, <1>c
<1>3. u \in PartyStates
  <2>a. <<>> \in Seq(Messages)
    OBVIOUS
  <2>1. PICK none \in Seq(Messages) : none = <<>>
    BY <2>a, Zenon
  <2>2. u = [t EXCEPT !.outbox = none]
    BY <2>1
  <2> HIDE DEF u
  <2> QED
    BY <1>1, <2>2 DEF PartyStates
<1>4. /\ u.calls = t.calls /\ u.listed = t.listed /\ u.active = t.active /\ u.rings = t.rings
      /\ u.doing = t.doing /\ u.outbox = <<>>
  BY <1>1 DEF PartyStates
<1> HIDE DEF u
<1>5. /\ \A c : StateOf(u, c) = StateOf(t, c) /\ (Fledgling(u, c) <=> Fledgling(t, c))
      /\ ToOffer(u) = ToOffer(t)
  BY <1>4 DEF StateOf, Fledgling, ToOffer
<1>6. PartyOK(p, u)
  BY <1>3, <1>4, <1>5 DEF Leaves, PartyOK, OfferOK, OwnOK, OtherOK
<1>7. Leaves(p, u)
  BY <1>4, <1>5, <1>6 DEF Leaves
<1>8. Sent(t) \subseteq Messages
  BY <1>1 DEF PartyStates, Sent
<1>9. ASSUME NEW x \in InFlight(p, t)
      PROVE  \E m \in Sent(t) : x = [type |-> m.type, call |-> m.call, nr |-> FreshNr(p, m), arrived |-> FALSE]
  BY <1>9 DEF InFlight, Sent
<1>10. ASSUME NEW x \in sends'[p], x \notin sends[p]
       PROVE  IsSent(x) /\ MaySend(p, u, x)
  <2>1. PICK m \in Sent(t) :
          x = [type |-> m.type, call |-> m.call, nr |-> FreshNr(p, m), arrived |-> FALSE]
    BY <1>2, <1>9, <1>10
  <2>2. m \in Messages /\ MaySend(p, t, m)
    BY <1>8
  <2>3. x.type = m.type /\ x.call = m.call
    BY <2>1
  <2>4. IsSent(x)
    BY <2>1, <2>2 DEF IsSent, Messages
  <2> QED
    BY <1>5, <2>2, <2>3, <2>4 DEF MaySend, SentBy
<1>11. ASSUME NEW x \in sends'[p] \ sends[p], NEW y \in sends'[p] \ sends[p],
              x.type = "invite", y.type = "invite"
       PROVE  x = y
  <2>1. PICK m \in Sent(t) :
          x = [type |-> m.type, call |-> m.call, nr |-> FreshNr(p, m), arrived |-> FALSE]
    BY <1>2, <1>9
  <2>2. PICK n \in Sent(t) :
          y = [type |-> n.type, call |-> n.call, nr |-> FreshNr(p, n), arrived |-> FALSE]
    BY <1>2, <1>9
  <2>3. m.type = "invite" /\ n.type = "invite"
    BY <1>11, <2>1, <2>2
  <2>4. m.call = p /\ n.call = p
    BY <2>3 DEF MaySend, SentBy
  <2>5. m = n
    BY <1>8, <2>3, <2>4 DEF Messages
  <2> QED
    BY <2>1, <2>2, <2>5
<1> QED
  BY <1>2, <1>4, <1>7, <1>10, <1>11 DEF Moves

\* A step of p that is some method of one begun call, from s: its state when the
\* callback has been taken and the call's own fields have been set.
LEMMA TouchesLeaves ==
  ASSUME IInv, NEW p \in Parties, NEW c \in Parties, NEW s, PartyOK(p, s),
         \A d \in Parties : StateOf(s, d) = StateOf(party[p], d)
                            /\ s.calls[d].remote = party[p].calls[d].remote,
         ToOffer(s) <= ToOffer(party[p]),
         ~Fledgling(s, c),
         NEW t, Touches(s, t, c), StateOf(t, c) # "fledgling",
         c = p => /\ StateOf(t, c) # "ringing"
                  /\ s.calls[p].remote => StateOf(t, c) \in Late
                  /\ t.doing = s.doing,
         c # p /\ StateOf(t, c) = "connected" => StateOf(s, c) = "connected" \/ party[c].calls[c].remote
  PROVE  Leaves(p, t)
<1>1. /\ Advances(p, s, t)
      /\ \A d \in Parties : Fledgling(s, d) => Fledgling(t, d)
      /\ s.calls[p].remote = t.calls[p].remote
  BY TouchesAdvances
<1>2. \A d \in Parties : Fledgling(party[p], d) <=> Fledgling(s, d)
  BY DEF Fledgling
<1>3. Other(p) \in Parties /\ Other(p) # p /\ \A r \in Parties : r = p \/ r = Other(p)
  BY OtherParty
<1>4. \A d \in Parties : d # c => StateOf(t, d) = StateOf(s, d)
  BY DEF Touches, StateOf
<1>5. ToOffer(t) <= ToOffer(party[p])
  <2>1. ToOffer(s) \in {0, 1} /\ ToOffer(t) \in {0, 1} /\ ToOffer(party[p]) \in {0, 1}
    BY <1>1 DEF Advances, PartyOK, OwnOK, IInv
  <2> QED
    BY <1>1, <2>1 DEF Advances
<1>6. StateOf(t, Other(p)) = "connected" =>
        StateOf(party[p], Other(p)) = "connected" \/ party[Other(p)].calls[Other(p)].remote
  BY <1>3, <1>4
<1> QED
  BY <1>1, <1>2, <1>3, <1>5, <1>6 DEF Leaves, Advances

\* p itself, or p that has taken a callback.
LEMMA NothingSent ==
  ASSUME IInv, NEW p \in Parties, NEW s, s.outbox = party[p].outbox
  PROVE  Sent(s) = {}
BY DEF Sent, IInv, CallsTypeOK

\* Fields of a call that no property depends on.
LEMMA CallPatched ==
  ASSUME NEW s \in PartyStates, OfferOK(s), NEW c \in Parties, NEW m \in MatrixCalls,
         m.state = s.calls[c].state, m.listened = s.calls[c].listened
  PROVE  /\ WithCall(s, c, m) \in PartyStates /\ OfferOK(WithCall(s, c, m))
         /\ \A d \in Parties : StateOf(WithCall(s, c, m), d) = StateOf(s, d)
<1> DEFINE u == WithCall(s, c, m)
<1>1. /\ u \in PartyStates /\ u.calls[c] = m
      /\ \A d \in Parties : d # c => u.calls[d] = s.calls[d]
      /\ u.active = s.active /\ u.rings = s.rings
  BY CallReplaced
<1>2. s.active \in Parties \union {NoCall}
  BY DEF PartyStates
<1> HIDE DEF u
<1>3. \A d \in Parties : u.calls[d].state = s.calls[d].state /\ u.calls[d].listened = s.calls[d].listened
  BY <1>1
<1>4. OfferOK(u)
  BY <1>1, <1>2, <1>3 DEF OfferOK, StateOf, Fledgling
<1> QED
  BY <1>1, <1>3, <1>4 DEF u, StateOf

-----------------------------------------------------------------------------
(* The steps of the user and of the callbacks.                             *)

\* A party of a reachable state.
LEMMA PartyIs ==
  ASSUME IInv, NEW p \in Parties
  PROVE  /\ PartyOK(p, party[p]) /\ party[p] \in PartyStates /\ OfferOK(party[p])
         /\ OwnOK(p, party[p]) /\ OtherOK(p, party[p])
         /\ Sent(party[p]) = {}
         /\ party[p].active \in Parties \union {NoCall}
         /\ \A d \in Doings : party[p].doing[d] \in Nat
BY NothingSent DEF IInv, PartyOK, PartyStates

\* A callback that has been taken leaves the party right.
LEMMA TakenIsOK ==
  ASSUME NEW p \in Parties, NEW s, PartyOK(p, s), NEW d \in Doings, s.doing[d] > 0
  PROVE  /\ PartyOK(p, Taken(s, d)) /\ ToOffer(Taken(s, d)) <= ToOffer(s)
         /\ Taken(s, d).calls = s.calls /\ Taken(s, d).listed = s.listed
         /\ Taken(s, d).outbox = s.outbox
         /\ Taken(s, d).doing[d] = s.doing[d] - 1
         /\ \A e \in Doings : e # d => Taken(s, d).doing[e] = s.doing[e]
         /\ d \in {"mediaForInvite", "offer"} => ToOffer(s) = 1 /\ ToOffer(Taken(s, d)) = 0
                                                 /\ ~Fledgling(s, p) /\ ~s.calls[p].remote
         /\ d \in {"mediaForAnswer", "createAnswer"} => ~Fledgling(s, Other(p))
<1> DEFINE u == Taken(s, d)
<1>1. s \in PartyStates /\ OfferOK(s) /\ OwnOK(p, s) /\ OtherOK(p, s)
  BY DEF PartyOK
<1>2. /\ u \in PartyStates
      /\ u.calls = s.calls /\ u.listed = s.listed
      /\ u.active = s.active /\ u.rings = s.rings
      /\ u.outbox = s.outbox
      /\ u.doing[d] = s.doing[d] - 1
      /\ \A e \in Doings : e # d => u.doing[e] = s.doing[e]
  BY <1>1, CountingTakes
<1>3. \A e \in Doings : s.doing[e] \in Nat /\ u.doing[e] \in Nat
  BY <1>1, <1>2 DEF PartyStates
<1>4. {"mediaForInvite", "offer", "mediaForAnswer", "createAnswer"} = Doings
  BY DEF Doings
<1> HIDE DEF u
<1>5. /\ ToOffer(s) \in {0, 1} /\ ToOffer(u) \in {0, 1} /\ ToOffer(u) <= ToOffer(s)
      /\ d \in {"mediaForInvite", "offer"} => ToOffer(s) = 1 /\ ToOffer(u) = 0
  <2>1. ToOffer(s) \in {0, 1}
    BY <1>1 DEF OwnOK
  <2> DEFINE a == s.doing["mediaForInvite"]
             b == s.doing["offer"]
             x == u.doing["mediaForInvite"]
             y == u.doing["offer"]
  <2>2. /\ ToOffer(s) = a + b /\ ToOffer(u) = x + y
        /\ a \in Nat /\ b \in Nat /\ x \in Nat /\ y \in Nat
    BY <1>3, <1>4 DEF ToOffer
  <2>3. /\ d = "mediaForInvite" => x = a - 1 /\ y = b
        /\ d = "offer" => x = a /\ y = b - 1
        /\ d \notin {"mediaForInvite", "offer"} => x = a /\ y = b
    BY <1>2, <1>4
  <2> HIDE DEF a, b, x, y
  <2> QED
    BY <2>1, <2>2, <2>3
<1>6. OfferOK(u)
  BY <1>1, <1>2 DEF OfferOK, StateOf, Fledgling
<1>7. OwnOK(p, u)
  BY <1>1, <1>2, <1>5 DEF OwnOK, StateOf, Fledgling
<1>8. OtherOK(p, u)
  <2>1. Fledgling(u, Other(p)) <=> Fledgling(s, Other(p))
    BY <1>2 DEF Fledgling, StateOf
  <2>2. Fledgling(s, Other(p)) => d \notin {"mediaForAnswer", "createAnswer"}
    BY <1>1 DEF OtherOK
  <2> QED
    BY <1>1, <1>2, <1>4, <2>1, <2>2 DEF OtherOK
<1>9. d \in {"mediaForInvite", "offer"} => ~Fledgling(s, p) /\ ~s.calls[p].remote
  BY <1>1, <1>5 DEF OwnOK
<1>10. d \in {"mediaForAnswer", "createAnswer"} => ~Fledgling(s, Other(p))
  BY <1>1 DEF OtherOK
<1> QED
  BY <1>2, <1>5, <1>6, <1>7, <1>8, <1>9, <1>10 DEF PartyOK, u

\* A state that is the party's own but for callbacks of answering.
LEMMA SameCallsLeaves ==
  ASSUME IInv, NEW p \in Parties, NEW t, PartyOK(p, t),
         \A d \in Parties : StateOf(t, d) = StateOf(party[p], d)
                            /\ t.calls[d].remote = party[p].calls[d].remote,
         ToOffer(t) <= ToOffer(party[p])
  PROVE  Leaves(p, t)
<1>1. Other(p) \in Parties
  BY OtherParty
<1> QED
  BY <1>1 DEF Leaves, Fledgling

LEMMA HangupCallMoves ==
  ASSUME IInv, NEW p \in Parties, HangupCall(p)
  PROVE  Moves(p)
<1> DEFINE s == party[p]
           c == s.active
           h == Hangup(s, c)
           t == Active(h, NoCall, FALSE)
<1>1. /\ PartyOK(p, s) /\ s \in PartyStates /\ OfferOK(s) /\ Sent(s) = {}
      /\ c \in Parties /\ ~Fledgling(s, c) /\ ToOffer(s) <= ToOffer(s)
  BY PartyIs DEF HangupCall, OfferOK, OwnOK
<1>2. Becomes(p, t) /\ inbox' = inbox
  BY DEF HangupCall
<1> HIDE DEF s, c
<1>3. /\ Touches(s, h, c) /\ StateOf(h, c) = "ended" /\ h.doing = s.doing
      /\ Sent(h) \subseteq {[type |-> "hangup", call |-> c]}
  BY <1>1, HangupTouches
<1> HIDE DEF h
<1>4. Touches(s, t, c) /\ StateOf(t, c) = "ended" /\ t.doing = s.doing /\ Sent(t) = Sent(h)
  <2>1. t = TurnsTo(h, NoCall)
    BY DEF TurnsTo
  <2> HIDE DEF t
  <2> QED
    BY <1>1, <1>3, <2>1, TurnsToTouches
<1> HIDE DEF t
<1>5. Leaves(p, t)
  BY <1>1, <1>4, TouchesLeaves DEF Late, s
<1>6. \A m \in Sent(t) : MaySend(p, t, m)
  BY <1>3, <1>4 DEF MaySend, SentBy, Fledgling
<1> QED
  BY <1>2, <1>5, <1>6, BecomesMoves

LEMMA AnswerCallMoves ==
  ASSUME IInv, NEW p \in Parties, AnswerCall(p)
  PROVE  Moves(p)
<1> DEFINE s == party[p]
           c == s.active
           h == Answer(s, c)
           t == Active(h, c, FALSE)
<1>1. /\ PartyOK(p, s) /\ s \in PartyStates /\ OfferOK(s) /\ Sent(s) = {}
      /\ c \in Parties /\ StateOf(s, c) = "ringing" /\ c # p /\ s.calls[c].listened
      /\ c = Other(p) /\ ToOffer(s) <= ToOffer(s)
  BY PartyIs, OtherParty DEF AnswerCall, OfferOK, OwnOK
<1>2. Becomes(p, t) /\ inbox' = inbox
  BY DEF AnswerCall
<1> HIDE DEF s, c
<1>3. /\ Touches(s, h, c)
      /\ StateOf(h, c) \in {StateOf(s, c), "ended", "create_answer", "wait_local_media"}
      /\ Sent(h) \subseteq {[type |-> "answer", call |-> c]}
  BY <1>1, AnswerTouches
<1> HIDE DEF h
<1>4. Touches(s, t, c) /\ StateOf(t, c) = StateOf(h, c) /\ Sent(t) = Sent(h)
  <2>1. t = TurnsTo(h, c)
    BY DEF TurnsTo
  <2>2. h.calls[c].listened
    BY <1>1, <1>3 DEF Touches
  <2> HIDE DEF t
  <2> QED
    BY <1>1, <1>3, <2>1, <2>2, TurnsToTouches
<1> HIDE DEF t
<1>5. Leaves(p, t)
  BY <1>1, <1>3, <1>4, TouchesLeaves DEF Fledgling, s
<1>6. \A m \in Sent(t) : MaySend(p, t, m)
  BY <1>1, <1>3, <1>4 DEF MaySend, SentBy, Fledgling
<1> QED
  BY <1>2, <1>5, <1>6, BecomesMoves

LEMMA InviteTimeoutMoves ==
  ASSUME IInv, NEW p \in Parties, InviteTimeout(p)
  PROVE  Moves(p)
<1> DEFINE s == party[p]
           t == Hangup(s, p)
<1>1. /\ PartyOK(p, s) /\ s \in PartyStates /\ OfferOK(s) /\ Sent(s) = {}
      /\ StateOf(s, p) = "invite_sent" /\ ToOffer(s) <= ToOffer(s)
  BY PartyIs DEF InviteTimeout, OwnOK
<1>2. Becomes(p, t) /\ inbox' = inbox
  BY DEF InviteTimeout
<1> HIDE DEF s
<1>3. /\ Touches(s, t, p) /\ StateOf(t, p) = "ended" /\ t.doing = s.doing
      /\ Sent(t) \subseteq {[type |-> "hangup", call |-> p]}
  BY <1>1, HangupTouches
<1> HIDE DEF t
<1>4. Leaves(p, t)
  BY <1>1, <1>3, TouchesLeaves DEF Late, Fledgling, s
<1>5. \A m \in Sent(t) : MaySend(p, t, m)
  BY <1>3 DEF MaySend, SentBy, Fledgling
<1> QED
  BY <1>2, <1>4, <1>5, BecomesMoves

\* A call that ends at p, for want of anything, without a word to the other party.
LEMMA TerminateMoves ==
  ASSUME IInv, NEW p \in Parties, NEW c \in Parties, NEW emit \in BOOLEAN,
         NEW s, PartyOK(p, s), s.calls = party[p].calls, Sent(s) = {},
         ToOffer(s) <= ToOffer(party[p]), ~Fledgling(s, c),
         Becomes(p, Terminate(s, c, emit)), inbox' = inbox \/ Reads(p)
  PROVE  Moves(p)
<1> DEFINE t == Terminate(s, c, emit)
<1>1. s \in PartyStates /\ OfferOK(s)
  BY DEF PartyOK
<1>2. /\ Touches(s, t, c) /\ StateOf(t, c) = "ended" /\ t.doing = s.doing
      /\ t.outbox = s.outbox
  BY <1>1, TerminateTouches
<1>3. Becomes(p, t)
  OBVIOUS
<1> HIDE DEF t
<1>4. Leaves(p, t)
  BY <1>2, TouchesLeaves DEF Late, StateOf
<1>5. Sent(t) = {}
  BY <1>2 DEF Sent
<1> QED
  BY <1>3, <1>4, <1>5, BecomesMoves

LEMMA LifetimeExpiresMoves ==
  ASSUME IInv, NEW p \in Parties, LifetimeExpires(p)
  PROVE  Moves(p)
<1>1. /\ PartyOK(p, party[p]) /\ Sent(party[p]) = {} /\ ToOffer(party[p]) <= ToOffer(party[p])
      /\ Other(p) \in Parties /\ ~Fledgling(party[p], Other(p))
  BY PartyIs, OtherParty DEF LifetimeExpires, OwnOK, Fledgling
<1>2. Becomes(p, Terminate(party[p], Other(p), TRUE)) /\ inbox' = inbox
  BY DEF LifetimeExpires
<1> QED
  BY <1>1, <1>2, TerminateMoves

LEMMA RemoteStreamEndedMoves ==
  ASSUME IInv, NEW p \in Parties, NEW c \in Parties, RemoteStreamEnded(p, c)
  PROVE  Moves(p)
<1>1. /\ PartyOK(p, party[p]) /\ Sent(party[p]) = {} /\ ToOffer(party[p]) <= ToOffer(party[p])
      /\ ~Fledgling(party[p], c)
  BY PartyIs DEF RemoteStreamEnded, OwnOK, Fledgling, Late
<1>2. Becomes(p, Terminate(party[p], c, TRUE)) /\ inbox' = inbox
  BY DEF RemoteStreamEnded
<1> QED
  BY <1>1, <1>2, TerminateMoves

\* A step that changes no call.
LEMMA SameMoves ==
  ASSUME IInv, NEW p \in Parties, NEW s, PartyOK(p, s), s.calls = party[p].calls,
         Sent(s) = {}, ToOffer(s) <= ToOffer(party[p]),
         Becomes(p, s), inbox' = inbox \/ Reads(p)
  PROVE  Moves(p)
<1>1. Leaves(p, s)
  BY SameCallsLeaves DEF StateOf
<1> QED
  BY <1>1, BecomesMoves

LEMMA NoMediaMoves ==
  ASSUME IInv, NEW p \in Parties, NoMedia(p)
  PROVE  Moves(p)
<1>1. PICK d \in {"mediaForInvite", "mediaForAnswer"} :
        LET c == IF d = "mediaForInvite" /\ ~party[p].calls[p].replaced THEN p ELSE Other(p)
            s == Taken(party[p], d)
        IN /\ party[p].doing[d] > 0
           /\ Becomes(p, IF StateOf(s, c) = "ended" THEN s ELSE Terminate(s, c, FALSE))
  BY DEF NoMedia
<1> DEFINE c == IF d = "mediaForInvite" /\ ~party[p].calls[p].replaced THEN p ELSE Other(p)
           s == Taken(party[p], d)
<1>2. /\ d \in Doings /\ party[p].doing[d] > 0 /\ inbox' = inbox
      /\ Becomes(p, IF StateOf(s, c) = "ended" THEN s ELSE Terminate(s, c, FALSE))
  BY <1>1 DEF NoMedia, Doings
<1>3. /\ PartyOK(p, s) /\ s.calls = party[p].calls /\ s.outbox = party[p].outbox
      /\ ToOffer(s) <= ToOffer(party[p])
      /\ d \in {"mediaForInvite", "offer"} => ~Fledgling(party[p], p)
      /\ d \in {"mediaForAnswer", "createAnswer"} => ~Fledgling(party[p], Other(p))
  BY <1>2, PartyIs, TakenIsOK
<1>4. Sent(s) = {}
  BY <1>3, NothingSent
<1>5. c \in Parties /\ ~Fledgling(party[p], c)
  <2>1. party[p].calls[p].replaced => ~Fledgling(party[p], Other(p))
    BY PartyIs DEF OtherOK
  <2> QED
    BY <1>3, <2>1, OtherParty
<1> HIDE DEF s, c
<1>6. ~Fledgling(s, c)
  BY <1>3, <1>5 DEF Fledgling, StateOf
<1>7. CASE StateOf(s, c) = "ended"
  BY <1>2, <1>3, <1>4, <1>7, SameMoves
<1>8. CASE StateOf(s, c) # "ended"
  BY <1>2, <1>3, <1>4, <1>5, <1>6, <1>8, TerminateMoves
<1> QED
  BY <1>7, <1>8

\* Media arrive for answering the other party's call.
LEMMA AnsweringMoves ==
  ASSUME IInv, NEW p \in Parties, NEW s, PartyOK(p, s), s.calls = party[p].calls, Sent(s) = {},
         ToOffer(s) <= ToOffer(party[p]), ~Fledgling(s, Other(p)),
         Becomes(p, GotMediaForAnswer(s, Other(p))), inbox' = inbox
  PROVE  Moves(p)
<1> DEFINE c == Other(p)
           t == GotMediaForAnswer(s, c)
<1>1. s \in PartyStates /\ OfferOK(s) /\ c \in Parties /\ c # p
  BY OtherParty DEF PartyOK
<1>2. Becomes(p, t) /\ ~Fledgling(s, c)
  OBVIOUS
<1> HIDE DEF c
<1>3. /\ Touches(s, t, c) /\ StateOf(t, c) \in {"ended", "create_answer"}
      /\ t.outbox = s.outbox
  BY <1>1, GotMediaForAnswerTouches
<1> HIDE DEF t
<1>4. Leaves(p, t)
  BY <1>1, <1>2, <1>3, TouchesLeaves DEF StateOf
<1>5. Sent(t) = {}
  BY <1>3 DEF Sent
<1> QED
  BY <1>2, <1>4, <1>5, BecomesMoves

LEMMA MediaForAnswerMoves ==
  ASSUME IInv, NEW p \in Parties, MediaForAnswer(p)
  PROVE  Moves(p)
<1> DEFINE s == Taken(party[p], "mediaForAnswer")
<1>1. /\ "mediaForAnswer" \in Doings /\ party[p].doing["mediaForAnswer"] > 0 /\ inbox' = inbox
      /\ Becomes(p, GotMediaForAnswer(s, Other(p)))
  BY DEF MediaForAnswer, Doings
<1>2. /\ PartyOK(p, s) /\ s.calls = party[p].calls /\ s.outbox = party[p].outbox
      /\ ToOffer(s) <= ToOffer(party[p])
      /\ ~Fledgling(party[p], Other(p))
  BY <1>1, PartyIs, TakenIsOK
<1> HIDE DEF s
<1>3. Sent(s) = {} /\ ~Fledgling(s, Other(p))
  BY <1>2, NothingSent DEF Fledgling, StateOf
<1> QED
  BY <1>1, <1>2, <1>3, AnsweringMoves

LEMMA NoSecondAnswerMoves ==
  ASSUME IInv, NEW p \in Parties, NoSecondAnswer(p)
  PROVE  Moves(p)
<1> DEFINE s == Taken(party[p], "createAnswer")
<1>1. /\ "createAnswer" \in Doings /\ party[p].doing["createAnswer"] > 0 /\ inbox' = inbox
      /\ Becomes(p, s)
  BY DEF NoSecondAnswer, Doings
<1>2. /\ PartyOK(p, s) /\ s.calls = party[p].calls /\ s.outbox = party[p].outbox
      /\ ToOffer(s) <= ToOffer(party[p])
  BY <1>1, PartyIs, TakenIsOK
<1> HIDE DEF s
<1>3. Sent(s) = {}
  BY <1>2, NothingSent
<1> QED
  BY <1>1, <1>2, <1>3, SameMoves

LEMMA MediaForInviteMoves ==
  ASSUME IInv, NEW p \in Parties, MediaForInvite(p)
  PROVE  Moves(p)
<1> DEFINE s == Taken(party[p], "mediaForInvite")
<1>1. /\ "mediaForInvite" \in Doings /\ party[p].doing["mediaForInvite"] > 0 /\ inbox' = inbox
  BY DEF MediaForInvite, Doings
<1>7. PICK permitted \in BOOLEAN : Becomes(p, GotMediaForInvite(s, p, permitted))
  BY DEF MediaForInvite
<1>2. /\ PartyOK(p, s) /\ s.calls = party[p].calls /\ s.outbox = party[p].outbox
      /\ ToOffer(s) <= ToOffer(party[p]) /\ ToOffer(s) = 0 /\ ToOffer(party[p]) = 1
      /\ ~Fledgling(party[p], p) /\ ~party[p].calls[p].remote
  BY <1>1, PartyIs, TakenIsOK
<1> HIDE DEF s
<1>3. /\ Sent(s) = {} /\ ~Fledgling(s, p) /\ ~s.calls[p].remote
      /\ s \in PartyStates /\ OfferOK(s) /\ OwnOK(p, s) /\ OtherOK(p, s)
  BY <1>2, NothingSent DEF Fledgling, StateOf, PartyOK
<1>4. CASE s.calls[p].replaced
  <2>1. ~Fledgling(s, Other(p))
    BY <1>3, <1>4 DEF OtherOK
  <2> QED
    BY <1>1, <1>2, <1>3, <1>4, <1>7, <2>1, AnsweringMoves DEF GotMediaForInvite
<1>5. CASE ~s.calls[p].replaced /\ StateOf(s, p) = "ended"
  BY <1>1, <1>2, <1>3, <1>5, <1>7, SameMoves DEF GotMediaForInvite
<1>6. CASE ~s.calls[p].replaced /\ StateOf(s, p) # "ended"
  <2> DEFINE m == [s.calls[p] EXCEPT !.stream = permitted]
             u == WithCall(s, p, m)
             v == Begin(u, "offer")
             t == SetState(v, p, "create_offer")
  <2>1. s.calls[p] \in MatrixCalls
    BY <1>3 DEF PartyStates
  <2>2. m \in MatrixCalls
    BY <2>1 DEF MatrixCalls
  <2>3. /\ m.state = s.calls[p].state /\ m.remote = s.calls[p].remote
        /\ m.replaced = s.calls[p].replaced /\ m.listened = s.calls[p].listened
    BY <2>1 DEF MatrixCalls
  <2>4. Becomes(p, t)
    <3>1. [s EXCEPT !.calls[p].stream = permitted] = u
      BY DEF WithCall
    <3> QED
      BY <1>6, <1>7, <3>1 DEF GotMediaForInvite
  <2> HIDE DEF m
  <2>5. /\ u \in PartyStates /\ OfferOK(u) /\ u.calls[p] = m
        /\ \A d \in Parties : d # p => u.calls[d] = s.calls[d]
        /\ u.listed = s.listed /\ u.doing = s.doing /\ u.outbox = s.outbox
        /\ u.active = s.active /\ u.rings = s.rings
    BY <1>3, <2>2, <2>3, CallReplaced, CallPatched
  <2> HIDE DEF u
  <2>6. /\ v \in PartyStates /\ v.calls = u.calls /\ v.listed = u.listed
        /\ v.active = u.active /\ v.rings = u.rings /\ v.outbox = u.outbox
        /\ v.doing["offer"] = u.doing["offer"] + 1
        /\ \A d \in Doings : d # "offer" => v.doing[d] = u.doing[d]
    BY <2>5, CountingBegins DEF Doings
  <2> HIDE DEF v
  <2>7. /\ \A d \in Parties : StateOf(v, d) = StateOf(s, d) /\ v.calls[d].remote = s.calls[d].remote
                              /\ v.calls[d].replaced = s.calls[d].replaced
        /\ \A d \in Parties : StateOf(v, d) = StateOf(party[p], d) /\ v.calls[d].remote = party[p].calls[d].remote
    BY <1>2, <2>3, <2>5, <2>6 DEF StateOf
  <2>8. OfferOK(v)
    BY <2>5, <2>6 DEF OfferOK, StateOf, Fledgling
  <2>9. ToOffer(v) = 1
    <3>1. s.doing["mediaForInvite"] \in Nat /\ s.doing["offer"] \in Nat
      BY <1>3 DEF PartyStates, Doings
    <3>2. v.doing["mediaForInvite"] = s.doing["mediaForInvite"] /\ v.doing["offer"] = s.doing["offer"] + 1
      BY <2>5, <2>6 DEF Doings
    <3> QED
      BY <1>2, <3>1, <3>2 DEF ToOffer
  <2>10. OwnOK(p, v)
    BY <1>3, <2>7, <2>9 DEF OwnOK, Fledgling
  <2>11. OtherOK(p, v)
    <3>1. Other(p) \in Parties
      BY OtherParty
    <3> QED
      BY <1>3, <2>5, <2>6, <2>7, <3>1 DEF OtherOK, Fledgling, Doings
  <2>12. PartyOK(p, v)
    BY <2>6, <2>8, <2>10, <2>11 DEF PartyOK
  <2>13. /\ Touches(v, t, p) /\ StateOf(t, p) = "create_offer" /\ t.doing = v.doing
         /\ t.outbox = v.outbox
    BY <2>6, <2>8, SetStateTouches DEF CallStates
  <2> HIDE DEF t
  <2>14. Leaves(p, t)
    BY <1>2, <1>3, <2>7, <2>9, <2>12, <2>13, TouchesLeaves DEF Fledgling
  <2>15. Sent(t) = {}
    BY <1>3, <2>5, <2>6, <2>13 DEF Sent
  <2> QED
    BY <1>1, <2>4, <2>14, <2>15, BecomesMoves
<1> QED
  BY <1>4, <1>5, <1>6

\* Only the events to send, and fields no property depends on, differ.
LEMMA SamePartyOK ==
  ASSUME NEW p \in Parties, NEW s, PartyOK(p, s), NEW t \in PartyStates, OfferOK(t),
         \A d \in Parties : StateOf(t, d) = StateOf(s, d) /\ t.calls[d].remote = s.calls[d].remote
                            /\ t.calls[d].replaced = s.calls[d].replaced,
         t.listed = s.listed, t.doing = s.doing
  PROVE  PartyOK(p, t)
<1>1. Other(p) \in Parties
  BY OtherParty
<1>2. ToOffer(t) = ToOffer(s)
  BY DEF ToOffer
<1> QED
  BY <1>1, <1>2 DEF PartyOK, OwnOK, OtherOK, Fledgling

LEMMA GotLocalOfferMoves ==
  ASSUME IInv, NEW p \in Parties, GotLocalOffer(p)
  PROVE  Moves(p)
<1> DEFINE s == Taken(party[p], "offer")
<1>1. /\ "offer" \in Doings /\ party[p].doing["offer"] > 0 /\ inbox' = inbox
      /\ Becomes(p, IF StateOf(s, p) = "ended" THEN s ELSE Send(s, "invite", p))
  BY DEF GotLocalOffer, Doings
<1>2. /\ PartyOK(p, s) /\ s.calls = party[p].calls /\ s.outbox = party[p].outbox
      /\ ToOffer(s) <= ToOffer(party[p]) /\ ToOffer(s) = 0 /\ ToOffer(party[p]) = 1
      /\ ~Fledgling(party[p], p)
  BY <1>1, PartyIs, TakenIsOK
<1> HIDE DEF s
<1>3. Sent(s) = {} /\ s \in PartyStates /\ OfferOK(s)
  BY <1>2, NothingSent DEF PartyOK
<1>4. CASE StateOf(s, p) = "ended"
  BY <1>1, <1>2, <1>3, <1>4, SameMoves
<1>5. CASE StateOf(s, p) # "ended"
  <2> DEFINE t == Send(s, "invite", p)
  <2>1. /\ t \in PartyStates
        /\ t.calls = s.calls /\ t.listed = s.listed /\ t.active = s.active /\ t.rings = s.rings
        /\ t.doing = s.doing
        /\ Sent(t) = {[type |-> "invite", call |-> p]}
    BY <1>3, SendAppends DEF EventTypes
  <2>2. Becomes(p, t)
    BY <1>1, <1>5
  <2> HIDE DEF t
  <2>3. OfferOK(t)
    BY <1>3, <2>1 DEF OfferOK, StateOf, Fledgling
  <2>4. PartyOK(p, t)
    BY <1>2, <2>1, <2>3, SamePartyOK DEF StateOf
  <2>5. ToOffer(t) = 0 /\ ToOffer(t) <= ToOffer(party[p])
    BY <1>2, <2>1 DEF ToOffer
  <2>6. Leaves(p, t)
    BY <1>2, <2>1, <2>4, <2>5, SameCallsLeaves DEF StateOf
  <2>7. \A m \in Sent(t) : MaySend(p, t, m)
    BY <1>2, <2>1, <2>5 DEF MaySend, SentBy, Fledgling, StateOf
  <2> QED
    BY <1>1, <2>2, <2>6, <2>7, BecomesMoves
<1> QED
  BY <1>4, <1>5

LEMMA CreatedAnswerMoves ==
  ASSUME IInv, NEW p \in Parties, CreatedAnswer(p)
  PROVE  Moves(p)
<1> DEFINE s == Taken(party[p], "createAnswer")
           c == Other(p)
           m == [s.calls[c] EXCEPT !.answer = TRUE]
           u == WithCall(s, c, m)
           t == Send(u, "answer", c)
<1>1. /\ "createAnswer" \in Doings /\ party[p].doing["createAnswer"] > 0 /\ inbox' = inbox
      /\ Becomes(p, IF s.calls[c].closed THEN s ELSE t)
  <2>1. [s EXCEPT !.calls[c].answer = TRUE] = u
    BY DEF WithCall
  <2> QED
    BY <2>1 DEF CreatedAnswer, Doings
<1>2. /\ PartyOK(p, s) /\ s.calls = party[p].calls /\ s.outbox = party[p].outbox
      /\ ToOffer(s) <= ToOffer(party[p])
      /\ ~Fledgling(party[p], c)
  BY <1>1, PartyIs, TakenIsOK
<1>3. c \in Parties /\ c = Other(p)
  BY OtherParty
<1> HIDE DEF s, c
<1>4. Sent(s) = {} /\ s \in PartyStates /\ OfferOK(s)
  BY <1>2, NothingSent DEF PartyOK
<1>5. CASE s.calls[c].closed
  BY <1>1, <1>2, <1>4, <1>5, SameMoves
<1>6. CASE ~s.calls[c].closed
  <2>1. s.calls[c] \in MatrixCalls
    BY <1>3, <1>4 DEF PartyStates
  <2>2. m \in MatrixCalls
    BY <2>1 DEF MatrixCalls
  <2>3. /\ m.state = s.calls[c].state /\ m.remote = s.calls[c].remote
        /\ m.replaced = s.calls[c].replaced /\ m.listened = s.calls[c].listened
    BY <2>1 DEF MatrixCalls
  <2>4. Becomes(p, t)
    BY <1>1, <1>6
  <2> HIDE DEF m
  <2>5. /\ u \in PartyStates /\ OfferOK(u) /\ u.calls[c] = m
        /\ \A d \in Parties : d # c => u.calls[d] = s.calls[d]
        /\ u.listed = s.listed /\ u.doing = s.doing /\ u.outbox = s.outbox
    BY <1>3, <1>4, <2>2, <2>3, CallReplaced, CallPatched
  <2> HIDE DEF u
  <2>6. /\ t \in PartyStates
        /\ t.calls = u.calls /\ t.listed = u.listed /\ t.active = u.active /\ t.rings = u.rings
        /\ t.doing = u.doing
        /\ Sent(t) = Sent(u) \union {[type |-> "answer", call |-> c]}
    <3>1. u \in PartyStates /\ c \in Parties /\ "answer" \in EventTypes
      BY <1>3, <2>5 DEF EventTypes
    <3> QED
      BY <3>1, SendAppends
  <2> HIDE DEF t
  <2>7. Sent(t) = {[type |-> "answer", call |-> c]}
    BY <1>4, <2>5, <2>6 DEF Sent
  <2>8. OfferOK(t)
    BY <2>5, <2>6 DEF OfferOK, StateOf, Fledgling
  <2>9. \A d \in Parties : StateOf(t, d) = StateOf(s, d) /\ t.calls[d].remote = s.calls[d].remote
                           /\ t.calls[d].replaced = s.calls[d].replaced
    BY <2>3, <2>5, <2>6 DEF StateOf
  <2>10. PartyOK(p, t)
    BY <1>2, <2>5, <2>6, <2>8, <2>9, SamePartyOK
  <2>11. ToOffer(t) <= ToOffer(party[p])
    BY <1>2, <2>5, <2>6 DEF ToOffer
  <2>12. Leaves(p, t)
    BY <1>2, <2>9, <2>10, <2>11, SameCallsLeaves DEF StateOf
  <2>13. \A e \in Sent(t) : MaySend(p, t, e)
    BY <1>2, <1>3, <2>7, <2>9 DEF MaySend, SentBy, Fledgling, StateOf
  <2> QED
    BY <1>1, <2>4, <2>12, <2>13, BecomesMoves
<1> QED
  BY <1>5, <1>6

\* Placing a call: a fledgling becomes one that waits for media.
LEMMA PlaceCallMoves ==
  ASSUME IInv, NEW p \in Parties, PlaceCall(p)
  PROVE  Moves(p)
<1> DEFINE s == party[p]
           m == [s.calls[p] EXCEPT !.listened = TRUE, !.state = "wait_local_media"]
           u == [s EXCEPT !.listed[p] = "live", !.calls[p].listened = TRUE]
           v == Begin(u, "mediaForInvite")
           t == SetState(v, p, "wait_local_media")
<1>1. Becomes(p, t) /\ inbox' = inbox /\ Fledgling(s, p) /\ s.active = NoCall
  BY DEF PlaceCall, Fledgling
<1>2. /\ PartyOK(p, s) /\ s \in PartyStates /\ OfferOK(s) /\ OwnOK(p, s) /\ OtherOK(p, s)
      /\ Sent(s) = {}
  BY PartyIs
<1>3. s.calls[p] \in MatrixCalls /\ s.calls \in [Parties -> MatrixCalls]
      /\ s.listed \in [Parties -> {"no", "live", "hungUp"}]
  BY <1>2 DEF PartyStates
<1>4. m \in MatrixCalls
  BY <1>3 DEF MatrixCalls, CallStates
<1>5. /\ m.state = "wait_local_media" /\ m.remote = s.calls[p].remote
      /\ m.replaced = s.calls[p].replaced
  BY <1>3 DEF MatrixCalls
<1>6. ~s.calls[p].remote /\ ~s.calls[p].replaced /\ ToOffer(s) = 0
  BY <1>1, <1>2 DEF OwnOK, Late, Fledgling
<1> DEFINE n == [s.calls[p] EXCEPT !.listened = TRUE]
           f == [s.calls EXCEPT ![p] = n]
           g == [s.listed EXCEPT ![p] = "live"]
<1>7. /\ n \in MatrixCalls /\ n.listened /\ n.state = "fledgling"
      /\ m = [n EXCEPT !.state = "wait_local_media"]
  BY <1>1, <1>3 DEF MatrixCalls, Fledgling, StateOf
<1>8. u = [s EXCEPT !.listed = g, !.calls = f]
  OBVIOUS
<1> HIDE DEF n
<1>9. /\ f \in [Parties -> MatrixCalls] /\ f[p] = n
      /\ \A d \in Parties : d # p => f[d] = s.calls[d]
      /\ g \in [Parties -> {"no", "live", "hungUp"}]
      /\ \A d \in Parties : d # p => g[d] = s.listed[d]
  BY <1>3, <1>7
<1> HIDE DEF u, f, g
<1>10. u \in PartyStates
  BY <1>2, <1>8, <1>9 DEF PartyStates
<1>11. /\ u.calls = f /\ u.listed = g /\ u.active = s.active /\ u.rings = s.rings
       /\ u.doing = s.doing /\ u.outbox = s.outbox
  BY <1>2, <1>8 DEF PartyStates
<1>12. /\ v \in PartyStates /\ v.calls = f /\ v.listed = g /\ v.active = s.active
       /\ v.rings = s.rings /\ v.outbox = s.outbox
       /\ v.doing["mediaForInvite"] = s.doing["mediaForInvite"] + 1
       /\ \A d \in Doings : d # "mediaForInvite" => v.doing[d] = s.doing[d]
  BY <1>10, <1>11, CountingBegins DEF Doings
<1> HIDE DEF v
<1> DEFINE w == WithCall(v, p, m)
<1>13. t = w
  <2>1. /\ [v EXCEPT !.calls[p].state = "wait_local_media"] = w
    BY <1>7, <1>9, <1>12 DEF WithCall
  <2>2. t = Listened(w, p, "fledgling", "wait_local_media")
    BY <1>7, <1>9, <1>12, <2>1 DEF SetState, StateOf
  <2> QED
    BY <2>2 DEF Listened
<1> HIDE DEF m
<1>14. /\ w \in PartyStates /\ w.calls[p] = m
       /\ \A d \in Parties : d # p => w.calls[d] = s.calls[d]
       /\ w.listed = g /\ w.active = s.active /\ w.rings = s.rings /\ w.doing = v.doing
       /\ w.outbox = s.outbox
  <2>1. /\ w \in PartyStates /\ w.calls[p] = m
        /\ \A d \in Parties : d # p => w.calls[d] = v.calls[d]
        /\ w.listed = v.listed /\ w.active = v.active /\ w.rings = v.rings /\ w.doing = v.doing
        /\ w.outbox = v.outbox
    BY <1>4, <1>12, CallReplaced
  <2> HIDE DEF w
  <2> QED
    BY <1>9, <1>12, <2>1
<1> HIDE DEF w
<1>15. OfferOK(w)
  BY <1>1, <1>2, <1>5, <1>14 DEF OfferOK, Fledgling, StateOf
<1>16. ToOffer(w) = 1
  <2>1. s.doing["mediaForInvite"] \in Nat /\ s.doing["offer"] \in Nat
    BY <1>2 DEF PartyStates, Doings
  <2>2. /\ w.doing["mediaForInvite"] = s.doing["mediaForInvite"] + 1
        /\ w.doing["offer"] = s.doing["offer"]
    BY <1>12, <1>14 DEF Doings
  <2> QED
    BY <1>6, <2>1, <2>2 DEF ToOffer
<1>17. OwnOK(p, w)
  BY <1>5, <1>6, <1>14, <1>16 DEF OwnOK, StateOf, Fledgling
<1>18. /\ Other(p) \in Parties /\ Other(p) # p
       /\ \A r \in Parties : r = p \/ r = Other(p)
  BY OtherParty
<1>19. OtherOK(p, w)
  <2>1. /\ w.doing["mediaForAnswer"] = s.doing["mediaForAnswer"]
        /\ w.doing["createAnswer"] = s.doing["createAnswer"]
    BY <1>12, <1>14 DEF Doings
  <2> QED
    BY <1>2, <1>5, <1>6, <1>9, <1>14, <1>18, <2>1 DEF OtherOK, StateOf, Fledgling
<1>20. Leaves(p, w)
  <2>1. /\ ~w.calls[p].remote
        /\ \A c \in Parties : ~Fledgling(s, c) => ~Fledgling(w, c)
        /\ StateOf(w, Other(p)) = StateOf(s, Other(p))
        /\ Fledgling(w, Other(p)) <=> Fledgling(s, Other(p))
    BY <1>5, <1>6, <1>14, <1>18 DEF StateOf, Fledgling
  <2>2. PartyOK(p, w)
    BY <1>14, <1>15, <1>17, <1>19 DEF PartyOK
  <2> QED
    BY <1>1, <1>6, <2>1, <2>2 DEF Leaves
<1>21. Sent(w) = {}
  BY <1>2, <1>14 DEF Sent
<1> QED
  BY <1>1, <1>13, <1>20, <1>21, BecomesMoves

-----------------------------------------------------------------------------
(* ICE, and the answers of the server.                                     *)

\* Who can be connected by a call knows that call.
LEMMA ConnectableHasBegun ==
  ASSUME IInv, NEW p \in Parties, NEW c \in Parties, Connectable(p, c)
  PROVE  ~Fledgling(party[p], c) /\ party[c].calls[c].remote
<1>1. party[c].calls[c].remote
  BY DEF Connectable
<1>2. CASE c = p
  BY <1>1, <1>2, PartyIs DEF OwnOK, Late, Fledgling
<1>3. CASE c = Other(p)
  BY <1>1, <1>3, OtherParty DEF IInv, LinkOK
<1> QED
  BY <1>1, <1>2, <1>3, OtherParty

LEMMA IceConnectedMoves ==
  ASSUME IInv, NEW p \in Parties, NEW c \in Parties, IceConnected(p, c)
  PROVE  Moves(p)
<1> DEFINE s == party[p]
           t == SetState(s, c, "connected")
<1>1. /\ PartyOK(p, s) /\ s \in PartyStates /\ OfferOK(s) /\ Sent(s) = {}
      /\ ~Fledgling(s, c) /\ party[c].calls[c].remote /\ ToOffer(s) <= ToOffer(s)
  BY PartyIs, ConnectableHasBegun DEF IceConnected, OwnOK
<1>2. Becomes(p, t) /\ inbox' = inbox
  BY DEF IceConnected
<1>3. /\ Touches(s, t, c) /\ StateOf(t, c) = "connected" /\ t.doing = s.doing
      /\ t.outbox = s.outbox
  BY <1>1, SetStateTouches DEF CallStates
<1> HIDE DEF t
<1>4. Leaves(p, t)
  BY <1>1, <1>3, TouchesLeaves DEF Late
<1>5. Sent(t) = {}
  BY <1>1, <1>3 DEF Sent
<1> QED
  BY <1>2, <1>4, <1>5, BecomesMoves

LEMMA IceFailedMoves ==
  ASSUME IInv, NEW p \in Parties, NEW c \in Parties, IceFailed(p, c)
  PROVE  Moves(p)
<1> DEFINE s == party[p]
           t == Hangup(s, c)
<1>1. /\ PartyOK(p, s) /\ s \in PartyStates /\ OfferOK(s) /\ Sent(s) = {}
      /\ ~Fledgling(s, c) /\ ToOffer(s) <= ToOffer(s)
  BY PartyIs, ConnectableHasBegun DEF IceFailed, OwnOK
<1>2. Becomes(p, t) /\ inbox' = inbox
  BY DEF IceFailed
<1>3. /\ Touches(s, t, c) /\ StateOf(t, c) = "ended" /\ t.doing = s.doing
      /\ Sent(t) \subseteq {[type |-> "hangup", call |-> c]}
  BY <1>1, HangupTouches
<1> HIDE DEF t
<1>4. Leaves(p, t)
  BY <1>1, <1>3, TouchesLeaves DEF Late
<1>5. \A m \in Sent(t) : MaySend(p, t, m)
  BY <1>3 DEF MaySend, SentBy, Fledgling
<1> QED
  BY <1>2, <1>4, <1>5, BecomesMoves

\* An event that is in flight no more, and what the party makes of it.
LEMMA LosesMoves ==
  ASSUME IInv, NEW p \in Parties, NEW x, NEW t, Leaves(p, t), t.outbox = <<>>,
         party' = [party EXCEPT ![p] = t],
         sends' = [sends EXCEPT ![p] = sends[p] \ {x}], inbox' = inbox
  PROVE  Moves(p)
<1>1. party \in [Parties -> PartyStates] /\ sends = [r \in Parties |-> sends[r]]
  BY DEF IInv, CallsTypeOK
<1>2. party'[p] = t
  BY <1>1
<1>3. sends'[p] = sends[p] \ {x}
  <2> DEFINE new == sends[p] \ {x}
  <2> HIDE DEF new
  <2>1. sends' = [sends EXCEPT ![p] = new]
    BY DEF new
  <2>2. sends'[p] = new
    BY <1>1, <2>1
  <2> QED
    BY <2>2 DEF new
<1> QED
  BY <1>2, <1>3 DEF Moves

LEMMA ResponseMoves ==
  ASSUME IInv, NEW p \in Parties, Response(p)
  PROVE  Moves(p)
<1>1. PICK x \in sends[p] :
        /\ party' = [party EXCEPT ![p] = Responded(@, x.type, x.call)]
        /\ sends' = [sends EXCEPT ![p] = @ \ {x}]
  BY DEF Response
<1> DEFINE s == party[p]
           c == x.call
           new == IF x.type = "invite" THEN "invite_sent" ELSE "connecting"
           t == SetState(s, c, new)
<1>2. /\ party' = [party EXCEPT ![p] = t]
      /\ sends' = [sends EXCEPT ![p] = sends[p] \ {x}] /\ inbox' = inbox
  BY <1>1 DEF Response, Responded
<1>3. /\ PartyOK(p, s) /\ s \in PartyStates /\ OfferOK(s) /\ ToOffer(s) <= ToOffer(s)
      /\ s.outbox = <<>>
  BY PartyIs DEF OwnOK, IInv, CallsTypeOK
<1>4. c \in Parties /\ ~Fledgling(s, c)
  BY DEF IInv, SendsOK, IsSent
<1>5. new \in {"invite_sent", "connecting"}
  OBVIOUS
<1> HIDE DEF new, c
<1>6. /\ Touches(s, t, c) /\ StateOf(t, c) = new /\ t.doing = s.doing
      /\ t.outbox = s.outbox
  BY <1>3, <1>4, <1>5, SetStateTouches DEF CallStates
<1> HIDE DEF t
<1>7. Leaves(p, t)
  BY <1>3, <1>4, <1>5, <1>6, TouchesLeaves DEF Late
<1> QED
  BY <1>2, <1>3, <1>6, <1>7, LosesMoves

LEMMA SendFailsMoves ==
  ASSUME IInv, NEW p \in Parties, SendFails(p)
  PROVE  Moves(p)
<1>1. PICK x \in sends[p] :
        /\ party' = [party EXCEPT ![p] = Refused(@, x.type, x.call)]
        /\ sends' = [sends EXCEPT ![p] = @ \ {x}]
  BY DEF SendFails
<1> DEFINE s == party[p]
           c == x.call
           t == Refused(s, x.type, c)
<1>2. /\ party' = [party EXCEPT ![p] = t]
      /\ sends' = [sends EXCEPT ![p] = sends[p] \ {x}] /\ inbox' = inbox
  BY <1>1 DEF SendFails
<1>3. /\ PartyOK(p, s) /\ s \in PartyStates /\ OfferOK(s) /\ ToOffer(s) <= ToOffer(s)
      /\ s.outbox = <<>>
  BY PartyIs DEF OwnOK, IInv, CallsTypeOK
<1>4. /\ c \in Parties /\ ~Fledgling(s, c)
      /\ x.type = "answer" => c # p
  BY OtherParty DEF IInv, SendsOK, IsSent, SentBy
<1> HIDE DEF c
<1>5. CASE x.type = "invite"
  <2>1. t = Terminate(s, c, FALSE)
    BY <1>5 DEF Refused
  <2>2. /\ Touches(s, t, c) /\ StateOf(t, c) = "ended" /\ t.doing = s.doing
        /\ t.outbox = s.outbox
    <3>1. FALSE \in BOOLEAN
      OBVIOUS
    <3> HIDE DEF s, t
    <3> QED
      BY <1>3, <1>4, <2>1, <3>1, TerminateTouches
  <2> HIDE DEF t
  <2>3. Leaves(p, t)
    BY <1>3, <1>4, <2>2, TouchesLeaves DEF Late
  <2> QED
    BY <1>2, <1>3, <2>2, <2>3, LosesMoves
<1>6. CASE x.type = "answer"
  <2>1. t = SetState(s, c, "ringing")
    BY <1>6 DEF Refused
  <2>2. /\ Touches(s, t, c) /\ StateOf(t, c) = "ringing" /\ t.outbox = s.outbox
    BY <1>3, <1>4, <2>1, SetStateTouches DEF CallStates
  <2> HIDE DEF t
  <2>3. Leaves(p, t)
    BY <1>3, <1>4, <1>6, <2>2, TouchesLeaves
  <2> QED
    BY <1>2, <1>3, <2>2, <2>3, LosesMoves
<1>7. CASE x.type \notin {"invite", "answer"}
  <2>1. t = s
    BY <1>7 DEF Refused
  <2>2. Leaves(p, t)
    BY <1>3, <2>1, SameCallsLeaves
  <2> QED
    BY <1>2, <1>3, <2>1, <2>2, LosesMoves
<1> QED
  BY <1>5, <1>6, <1>7

-----------------------------------------------------------------------------
(* The events of the room.                                                 *)

\* An event that p has yet to read, and what its sender knows.
LEMMA EventIs ==
  ASSUME IInv, NEW p \in Parties, NEW e \in Unsynced(p)
  PROVE  /\ e.type \in EventTypes /\ e.call \in Parties /\ e.by \in Parties
         /\ e.type = "invite" => /\ e.call = Other(p) /\ Fledgling(party[p], Other(p))
         /\ e.type = "answer" => /\ e.call = Other(e.by)
         /\ ~Fledgling(party[e.by], e.call)
         /\ e.by # p /\ e.call = p => ~Fledgling(party[p], p) /\ ToOffer(party[p]) = 0
<1>1. e \in Unsynced(p) /\ e \in RoomEvents
  BY DEF IInv, CallsTypeOK, Unsynced
<1>2. /\ e.type \in EventTypes /\ e.call \in Parties /\ e.by \in Parties
      /\ e.type = "invite" => e.by = Other(p)
      /\ SentBy(e.by, e)
      /\ ~Fledgling(party[e.by], e.call)
  BY <1>1 DEF IInv, InboxOK, RoomEvents
<1>3. /\ Other(p) \in Parties /\ Other(Other(p)) = p
      /\ \A r \in Parties : r = p \/ r = Other(p)
  BY OtherParty
<1>4. e.type = "invite" => Fledgling(party[p], Other(p))
  <2>1. ~Fledgling(party[p], Other(p)) => NoInviteFlies(Other(p))
    BY <1>3 DEF IInv, InviteOK
  <2> QED
    BY <1>1, <1>3, <2>1 DEF NoInviteFlies
<1>5. e.by # p /\ e.call = p => ~Fledgling(party[p], p) /\ ToOffer(party[p]) = 0
  BY <1>2, <1>3 DEF IInv, InviteOK
<1> QED
  BY <1>1, <1>2, <1>4, <1>5 DEF SentBy

\* The other party's call begins at p with the invite.
LEMMA InvitedLeaves ==
  ASSUME IInv, NEW p \in Parties, ReadsInvite(p),
         party[p].listed[Other(p)] # "hungUp",
         NEW t, PartyOK(p, t), ~Fledgling(t, Other(p)), StateOf(t, Other(p)) # "connected",
         ~Fledgling(party[p], p) => ~Fledgling(t, p),
         ToOffer(t) <= ToOffer(party[p]),
         t.calls[p].remote = party[p].calls[p].remote
  PROVE  Leaves(p, t)
<1>1. Other(p) \in Parties /\ \A r \in Parties : r = p \/ r = Other(p)
  BY OtherParty
<1> QED
  BY <1>1 DEF Leaves

\* The other party's call, made from its invite.
LEMMA RingingIsOK ==
  ASSUME NEW p \in Parties, NEW s, PartyOK(p, s), NEW c, c = Other(p), Fledgling(s, c)
  PROVE  /\ PartyOK(p, Ringing(s, c)) /\ StateOf(Ringing(s, c), c) = "ringing"
         /\ Ringing(s, c).calls[p] = s.calls[p]
         /\ Ringing(s, c).active = s.active
         /\ Ringing(s, c).doing = s.doing /\ Ringing(s, c).outbox = s.outbox
<1> DEFINE m == [NewCall EXCEPT !.state = "ringing"]
           f == [s.calls EXCEPT ![c] = m]
           g == [s.listed EXCEPT ![c] = "live"]
           t == Ringing(s, c)
<1>1. s \in PartyStates /\ OfferOK(s) /\ OwnOK(p, s) /\ OtherOK(p, s)
  BY DEF PartyOK
<1>2. c \in Parties /\ c # p /\ s.calls \in [Parties -> MatrixCalls]
      /\ s.listed \in [Parties -> {"no", "live", "hungUp"}]
      /\ s.active \in Parties \union {NoCall}
  BY <1>1, OtherParty DEF PartyStates
<1>3. m \in MatrixCalls /\ m.state = "ringing" /\ ~m.listened
  BY DEF NewCall, MatrixCalls, CallStates
<1>4. t = [s EXCEPT !.calls = f, !.listed = g]
  BY DEF Ringing
<1> HIDE DEF m, t
<1>5. /\ f \in [Parties -> MatrixCalls] /\ f[c] = m
      /\ \A d \in Parties : d # c => f[d] = s.calls[d]
      /\ g \in [Parties -> {"no", "live", "hungUp"}]
      /\ \A d \in Parties : d # c => g[d] = s.listed[d]
  BY <1>2, <1>3
<1> HIDE DEF f, g
<1>6. t \in PartyStates
  BY <1>1, <1>4, <1>5 DEF PartyStates
<1>7. /\ t.calls = f /\ t.listed = g /\ t.active = s.active /\ t.rings = s.rings
      /\ t.doing = s.doing /\ t.outbox = s.outbox
  BY <1>1, <1>4 DEF PartyStates
<1>8. OfferOK(t)
  <2>1. s.active # NoCall => s.active # c
    BY <1>1, <1>2 DEF OfferOK
  <2> QED
    BY <1>1, <1>2, <1>3, <1>5, <1>7, <2>1 DEF OfferOK, StateOf, Fledgling
<1>9. t.calls[p] = s.calls[p] /\ t.listed[p] = s.listed[p] /\ StateOf(t, c) = "ringing"
  BY <1>2, <1>3, <1>5, <1>7 DEF StateOf
<1>10. OwnOK(p, t)
  BY <1>1, <1>7, <1>9 DEF OwnOK, StateOf, Fledgling, ToOffer
<1>11. OtherOK(p, t)
  BY <1>9 DEF OtherOK, Fledgling
<1> QED
  BY <1>6, <1>7, <1>8, <1>9, <1>10, <1>11 DEF PartyOK, t

\* Glare: the own call makes way for the other party's.
LEMMA ReplacedByIsOK ==
  ASSUME NEW p \in Parties, NEW s, PartyOK(p, s), NEW c, c = Other(p), StateOf(s, c) = "ringing",
         ~Fledgling(s, p), Sent(s) = {}, NEW t, t = ReplacedBy(s, p, c)
  PROVE  /\ PartyOK(p, t) /\ StateOf(t, p) = "ended" /\ t.calls[p].remote = s.calls[p].remote
         /\ StateOf(t, c) \in {"ringing", "create_answer", "ended"}
         /\ ToOffer(t) = ToOffer(s)
         /\ Sent(t) \subseteq {[type |-> "hangup", call |-> p]}
<1> DEFINE handed == IF StateOf(s, p) = "wait_local_media"
                     THEN [s EXCEPT !.calls[c].waits = TRUE]
                     ELSE [GotMediaForAnswer(s, c) EXCEPT !.calls[p].stream = FALSE]
<1>1. s \in PartyStates /\ OfferOK(s)
  BY DEF PartyOK
<1>2. c \in Parties /\ c # p /\ \A r \in Parties : r = p \/ r = c
  BY OtherParty
<1>3. t = Hangup([handed EXCEPT !.calls[p].replaced = TRUE], p)
  BY DEF ReplacedBy
<1>4. /\ PartyOK(p, handed) /\ ~Fledgling(handed, p)
      /\ handed.calls[p].remote = s.calls[p].remote
      /\ StateOf(handed, c) \in {"ringing", "create_answer", "ended"}
      /\ ToOffer(handed) = ToOffer(s) /\ handed.outbox = s.outbox
  <2>1. CASE StateOf(s, p) = "wait_local_media"
    <3> DEFINE m == [s.calls[c] EXCEPT !.waits = TRUE]
    <3>1. s.calls[c] \in MatrixCalls
      BY <1>1, <1>2 DEF PartyStates
    <3>2. /\ m \in MatrixCalls
          /\ m.state = s.calls[c].state /\ m.remote = s.calls[c].remote
          /\ m.replaced = s.calls[c].replaced /\ m.listened = s.calls[c].listened
      BY <3>1 DEF MatrixCalls
    <3>3. handed = WithCall(s, c, m)
      BY <2>1 DEF WithCall
    <3> HIDE DEF m, handed
    <3>4. /\ handed \in PartyStates /\ OfferOK(handed) /\ handed.calls[c] = m
          /\ \A d \in Parties : d # c => handed.calls[d] = s.calls[d]
          /\ handed.listed = s.listed /\ handed.doing = s.doing /\ handed.outbox = s.outbox
      <4>1. /\ WithCall(s, c, m) \in PartyStates /\ OfferOK(WithCall(s, c, m))
        BY <1>1, <1>2, <3>2, CallPatched
      <4> QED
        BY <1>1, <1>2, <3>2, <3>3, <4>1, CallReplaced
    <3>5. \A d \in Parties : /\ StateOf(handed, d) = StateOf(s, d)
                             /\ handed.calls[d].remote = s.calls[d].remote
                             /\ handed.calls[d].replaced = s.calls[d].replaced
      BY <3>2, <3>4 DEF StateOf
    <3>6. PartyOK(p, handed)
      BY <3>4, <3>5, SamePartyOK
    <3> QED
      BY <1>2, <3>4, <3>5, <3>6 DEF Fledgling, ToOffer
  <2>2. CASE StateOf(s, p) # "wait_local_media"
    <3> DEFINE g == GotMediaForAnswer(s, c)
               m == [g.calls[p] EXCEPT !.stream = FALSE]
    <3>1. /\ Touches(s, g, c) /\ StateOf(g, c) \in {"ended", "create_answer"}
          /\ g.outbox = s.outbox
      BY <1>1, <1>2, GotMediaForAnswerTouches
    <3>2. handed = WithCall(g, p, m)
      BY <2>2 DEF WithCall
    <3> HIDE DEF g, handed
    <3>3. PartyOK(p, g) /\ g.calls[p] = s.calls[p] /\ ToOffer(g) = ToOffer(s)
      <4>1. Advances(p, s, g)
        BY <1>2, <3>1, TouchesAdvances DEF Fledgling
      <4> QED
        BY <1>2, <3>1, <4>1 DEF Advances, Touches, ToOffer
    <3>4. g \in PartyStates /\ OfferOK(g) /\ g.calls[p] \in MatrixCalls
      BY <3>3 DEF PartyOK, PartyStates
    <3>5. /\ m \in MatrixCalls
          /\ m.state = g.calls[p].state /\ m.remote = g.calls[p].remote
          /\ m.replaced = g.calls[p].replaced /\ m.listened = g.calls[p].listened
      BY <3>4 DEF MatrixCalls
    <3> HIDE DEF m
    <3>6. /\ handed \in PartyStates /\ OfferOK(handed) /\ handed.calls[p] = m
          /\ \A d \in Parties : d # p => handed.calls[d] = g.calls[d]
          /\ handed.listed = g.listed /\ handed.doing = g.doing /\ handed.outbox = g.outbox
      <4>1. WithCall(g, p, m) \in PartyStates /\ OfferOK(WithCall(g, p, m))
        BY <3>4, <3>5, CallPatched
      <4> QED
        BY <3>2, <3>4, <3>5, <4>1, CallReplaced
    <3>7. \A d \in Parties : /\ StateOf(handed, d) = StateOf(g, d)
                             /\ handed.calls[d].remote = g.calls[d].remote
                             /\ handed.calls[d].replaced = g.calls[d].replaced
      BY <3>5, <3>6 DEF StateOf
    <3>8. PartyOK(p, handed)
      BY <3>3, <3>6, <3>7, SamePartyOK
    <3>9. StateOf(handed, p) = StateOf(s, p) /\ handed.calls[p].remote = s.calls[p].remote
      BY <3>3, <3>7 DEF StateOf
    <3> QED
      BY <1>2, <3>1, <3>3, <3>6, <3>7, <3>8, <3>9 DEF Fledgling, ToOffer
  <2> QED
    BY <2>1, <2>2
<1> HIDE DEF handed
<1> DEFINE n == [handed.calls[p] EXCEPT !.replaced = TRUE]
           u == WithCall(handed, p, n)
<1>5. handed \in PartyStates /\ OfferOK(handed) /\ OwnOK(p, handed) /\ handed.calls[p] \in MatrixCalls
  BY <1>4 DEF PartyOK, PartyStates
<1>6. /\ n \in MatrixCalls
      /\ n.state = handed.calls[p].state /\ n.remote = handed.calls[p].remote
      /\ n.listened = handed.calls[p].listened
  BY <1>5 DEF MatrixCalls
<1>7. t = Hangup(u, p)
  BY <1>3 DEF WithCall
<1> HIDE DEF n
<1>8. /\ u \in PartyStates /\ OfferOK(u) /\ u.calls[p] = n
      /\ \A d \in Parties : d # p => u.calls[d] = handed.calls[d]
      /\ u.listed = handed.listed /\ u.doing = handed.doing /\ u.outbox = handed.outbox
  BY <1>5, <1>6, CallReplaced, CallPatched
<1> HIDE DEF u
<1>9. /\ \A d \in Parties : StateOf(u, d) = StateOf(handed, d)
      /\ u.calls[p].remote = handed.calls[p].remote
      /\ ToOffer(u) = ToOffer(handed)
  BY <1>6, <1>8 DEF StateOf, ToOffer
<1>10. PartyOK(p, u)
  <2>1. OwnOK(p, u)
    BY <1>4, <1>5, <1>9 DEF OwnOK, Fledgling
  <2>2. OtherOK(p, u)
    BY <1>2, <1>4, <1>9 DEF OtherOK, Fledgling
  <2> QED
    BY <1>8, <2>1, <2>2 DEF PartyOK
<1>11. Sent(u) = {}
  BY <1>4, <1>8 DEF Sent
<1>12. /\ Touches(u, t, p) /\ StateOf(t, p) = "ended" /\ t.doing = u.doing
       /\ Sent(t) \subseteq Sent(u) \union {[type |-> "hangup", call |-> p]}
  BY <1>7, <1>8, HangupTouches
<1>13. Advances(p, u, t) /\ u.calls[p].remote = t.calls[p].remote
  BY <1>4, <1>9, <1>10, <1>12, TouchesAdvances DEF Fledgling, Late
<1>14. StateOf(t, c) = StateOf(u, c) /\ ToOffer(t) = ToOffer(u)
  BY <1>2, <1>12 DEF Touches, StateOf, ToOffer
<1> QED
  BY <1>2, <1>4, <1>9, <1>11, <1>12, <1>13, <1>14 DEF Advances

LEMMA OnInviteMoves ==
  ASSUME IInv, NEW p \in Parties, ReadsInvite(p), NEW e \in Unsynced(p), e.type = "invite",
         Becomes(p, OnInvite(party[p], p, Other(p)))
  PROVE  Moves(p)
<1> DEFINE s == party[p]
           c == Other(p)
           r == Ringing(s, c)
           t == OnInvite(s, p, c)
<1>1. /\ PartyOK(p, s) /\ OtherOK(p, s) /\ OfferOK(s) /\ Sent(s) = {} /\ ToOffer(s) <= ToOffer(s)
  BY PartyIs DEF OwnOK
<1>2. c \in Parties /\ c # p /\ c = Other(p) /\ \A d \in Parties : d = p \/ d = c
  BY OtherParty
<1>3. Fledgling(s, c) /\ s.listed[c] # "live"
  BY <1>1, EventIs DEF OtherOK
<1>4. Becomes(p, t) /\ Reads(p)
  BY DEF Reads, ReadsInvite
<1>5. /\ PartyOK(p, r) /\ StateOf(r, c) = "ringing" /\ r.calls[p] = s.calls[p]
      /\ r.active = s.active /\ r.doing = s.doing /\ r.outbox = s.outbox
  BY <1>1, <1>2, <1>3, RingingIsOK
<1>6. \/ t = s
      \/ s.listed[c] # "hungUp" /\ ~Glaring(s, p) /\ t = Incoming(r, c)
      \/ s.listed[c] # "hungUp" /\ t = r
      \/ s.listed[c] # "hungUp" /\ Glaring(s, p) /\ t = Answer(ReplacedBy(r, p, c), c)
      \/ s.listed[c] # "hungUp" /\ Glaring(s, p) /\ t = Hangup(r, c)
  BY <1>3 DEF OnInvite, Stale
<1> HIDE DEF r, t
<1>7. /\ r \in PartyStates /\ OfferOK(r) /\ Sent(r) = {} /\ ToOffer(r) = ToOffer(s)
      /\ r.calls[p].remote = s.calls[p].remote /\ StateOf(r, p) = StateOf(s, p)
      /\ ToOffer(r) <= ToOffer(s)
  BY <1>1, <1>5 DEF PartyOK, Sent, ToOffer, StateOf
<1>8. CASE t = s
  BY <1>1, <1>4, <1>8, SameMoves
<1>12. CASE s.listed[c] # "hungUp" /\ t = r
  <2>1. Leaves(p, t)
    BY <1>2, <1>5, <1>7, <1>12, InvitedLeaves DEF Fledgling
  <2> QED
    BY <1>4, <1>7, <1>12, <2>1, BecomesMoves
<1>9. CASE s.listed[c] # "hungUp" /\ t = Incoming(r, c)
  <2>1. CASE t = r
    BY <1>9, <1>12, <2>1
  <2>2. CASE s.active = NoCall /\ t # r
    <3> DEFINE m == [r.calls[c] EXCEPT !.listened = TRUE]
               u == WithCall(r, c, m)
    <3>1. r.calls[c] \in MatrixCalls
      BY <1>2, <1>7 DEF PartyStates
    <3>2. /\ m \in MatrixCalls /\ m.listened
          /\ m.state = r.calls[c].state /\ m.remote = r.calls[c].remote
          /\ m.replaced = r.calls[c].replaced
      BY <3>1 DEF MatrixCalls
    <3>3. t = Active(u, c, TRUE)
      BY <1>5, <1>9, <2>2 DEF Incoming, WithCall
    <3> HIDE DEF m
    <3>4. /\ u \in PartyStates /\ u.calls[c] = m
          /\ \A d \in Parties : d # c => u.calls[d] = r.calls[d]
          /\ u.listed = r.listed /\ u.doing = r.doing /\ u.outbox = r.outbox
      BY <1>2, <1>7, <3>2, CallReplaced
    <3> HIDE DEF u
    <3>5. /\ t \in PartyStates /\ t.calls = u.calls /\ t.listed = u.listed /\ t.doing = u.doing
          /\ t.outbox = u.outbox /\ t.active = c /\ t.rings
      BY <1>2, <3>3, <3>4 DEF Active, PartyStates
    <3>6. \A d \in Parties : /\ StateOf(t, d) = StateOf(r, d)
                             /\ t.calls[d].remote = r.calls[d].remote
                             /\ t.calls[d].replaced = r.calls[d].replaced
                             /\ d # c => t.calls[d].listened = r.calls[d].listened
      BY <3>2, <3>4, <3>5 DEF StateOf
    <3>7. OfferOK(t)
      BY <1>2, <1>5, <1>7, <3>2, <3>4, <3>5, <3>6, CallsAssumption DEF OfferOK, Fledgling
    <3>8. PartyOK(p, t)
      BY <1>5, <3>4, <3>5, <3>6, <3>7, SamePartyOK
    <3>9. ToOffer(t) <= ToOffer(s) /\ Sent(t) = {}
      BY <1>7, <3>4, <3>5 DEF ToOffer, Sent
    <3>10. Leaves(p, t)
      BY <1>2, <1>5, <1>7, <1>9, <3>6, <3>8, <3>9, InvitedLeaves DEF Fledgling
    <3> QED
      BY <1>4, <3>9, <3>10, BecomesMoves
  <2> QED
    BY <1>5, <1>9, <2>1, <2>2 DEF Incoming
<1>10. CASE s.listed[c] # "hungUp" /\ Glaring(s, p) /\ t = Answer(ReplacedBy(r, p, c), c)
  <2> DEFINE h == ReplacedBy(r, p, c)
  <2>1. ~Fledgling(r, p)
    BY <1>7, <1>10 DEF Glaring, GlareStates, Fledgling
  <2>2. /\ PartyOK(p, h) /\ StateOf(h, p) = "ended" /\ h.calls[p].remote = r.calls[p].remote
        /\ StateOf(h, c) \in {"ringing", "create_answer", "ended"}
        /\ ToOffer(h) = ToOffer(r)
        /\ Sent(h) \subseteq {[type |-> "hangup", call |-> p]}
    BY <1>2, <1>5, <1>7, <2>1, ReplacedByIsOK
  <2>3. t = Answer(h, c)
    BY <1>10
  <2> HIDE DEF h
  <2>4. h \in PartyStates /\ OfferOK(h)
    BY <2>2 DEF PartyOK
  <2>5. /\ Touches(h, t, c)
        /\ StateOf(t, c) \in {StateOf(h, c), "ended", "create_answer", "wait_local_media"}
        /\ Sent(t) \subseteq Sent(h) \union {[type |-> "answer", call |-> c]}
    BY <1>2, <2>3, <2>4, AnswerTouches
  <2>6. Advances(p, h, t) /\ h.calls[p].remote = t.calls[p].remote
    BY <1>2, <2>2, <2>5, TouchesAdvances DEF Fledgling
  <2>7. /\ ~Fledgling(t, p) /\ ~Fledgling(t, c) /\ StateOf(t, c) # "connected" /\ PartyOK(p, t)
    BY <1>2, <2>2, <2>5, <2>6 DEF Advances, Fledgling
  <2>8. ToOffer(t) <= ToOffer(s)
    <3>1. ToOffer(t) = ToOffer(h)
      BY <2>5 DEF Touches, ToOffer
    <3> QED
      BY <1>7, <2>2, <3>1
  <2>9. Leaves(p, t)
    BY <1>2, <1>7, <1>10, <2>2, <2>6, <2>7, <2>8, InvitedLeaves
  <2>10. \A m \in Sent(t) : MaySend(p, t, m)
    BY <1>2, <2>2, <2>5, <2>7 DEF MaySend, SentBy
  <2> QED
    BY <1>4, <2>9, <2>10, BecomesMoves
<1>11. CASE s.listed[c] # "hungUp" /\ t = Hangup(r, c)
  <2>1. /\ Touches(r, t, c) /\ StateOf(t, c) = "ended" /\ t.doing = r.doing
        /\ Sent(t) \subseteq {[type |-> "hangup", call |-> c]}
    BY <1>2, <1>7, <1>11, HangupTouches
  <2>2. /\ Advances(p, r, t) /\ r.calls[p].remote = t.calls[p].remote
    BY <1>2, <1>5, <2>1, TouchesAdvances DEF Fledgling
  <2>3. /\ PartyOK(p, t) /\ ~Fledgling(t, c) /\ StateOf(t, c) # "connected"
        /\ ~Fledgling(s, p) => ~Fledgling(t, p)
        /\ ToOffer(t) <= ToOffer(s)
    BY <1>7, <2>1, <2>2 DEF Advances, Fledgling
  <2>4. Leaves(p, t)
    BY <1>2, <1>7, <1>11, <2>2, <2>3, InvitedLeaves
  <2>5. \A m \in Sent(t) : MaySend(p, t, m)
    BY <2>1, <2>3 DEF MaySend, SentBy
  <2> QED
    BY <1>4, <2>4, <2>5, BecomesMoves
<1> QED
  BY <1>6, <1>8, <1>9, <1>10, <1>11, <1>12

LEMMA OnAnswerMoves ==
  ASSUME IInv, NEW p \in Parties, Reads(p), NEW e \in Unsynced(p), e.type = "answer",
         Becomes(p, OnAnswer(party[p], e.call, e.by = p))
  PROVE  Moves(p)
<1> DEFINE s == party[p]
           c == e.call
<1>1. /\ PartyOK(p, s) /\ s \in PartyStates /\ OfferOK(s) /\ OwnOK(p, s) /\ OtherOK(p, s)
      /\ Sent(s) = {} /\ ToOffer(s) <= ToOffer(s)
  BY PartyIs DEF OwnOK
<1>2. /\ c \in Parties /\ e.by \in Parties /\ c = Other(e.by) /\ ~Fledgling(party[e.by], c)
      /\ e.by # p /\ c = p => ~Fledgling(s, p) /\ ToOffer(s) = 0
  BY EventIs
<1>3. Other(p) \in Parties /\ Other(p) # p /\ Other(Other(p)) = p
      /\ \A d \in Parties : d = p \/ d = Other(p)
  BY OtherParty
<1> DEFINE u == [s EXCEPT !.calls[c].remote = TRUE]
<1>4. \/ Becomes(p, s)
      \/ e.by = p /\ StateOf(s, c) = "ringing" /\ Becomes(p, Terminate(s, c, TRUE))
      \/ e.by # p /\ Becomes(p, SetState(u, c, "connecting"))
  BY DEF OnAnswer
<1>5. CASE Becomes(p, s)
  BY <1>1, <1>5, SameMoves
<1>6. CASE e.by = p /\ StateOf(s, c) = "ringing" /\ Becomes(p, Terminate(s, c, TRUE))
  BY <1>1, <1>2, <1>6, TerminateMoves DEF Fledgling
<1>7. CASE e.by # p /\ Becomes(p, SetState(u, c, "connecting"))
  <2> DEFINE m == [s.calls[p] EXCEPT !.remote = TRUE]
             t == SetState(u, p, "connecting")
  <2>1. c = p /\ e.by = Other(p)
    BY <1>2, <1>3, <1>7
  <2>2. Becomes(p, t)
    BY <1>7, <2>1
  <2>3. u = WithCall(s, p, m)
    BY <2>1 DEF WithCall
  <2>4. s.calls[p] \in MatrixCalls
    BY <1>1 DEF PartyStates
  <2>5. /\ m \in MatrixCalls /\ m.remote
        /\ m.state = s.calls[p].state /\ m.replaced = s.calls[p].replaced
        /\ m.listened = s.calls[p].listened
    BY <2>4 DEF MatrixCalls
  <2> HIDE DEF m, u
  <2>6. /\ u \in PartyStates /\ OfferOK(u) /\ u.calls[p] = m
        /\ \A d \in Parties : d # p => u.calls[d] = s.calls[d]
        /\ u.listed = s.listed /\ u.doing = s.doing /\ u.outbox = s.outbox
    <3>1. WithCall(s, p, m) \in PartyStates /\ OfferOK(WithCall(s, p, m))
      BY <1>1, <2>5, CallPatched
    <3> QED
      BY <1>1, <2>3, <2>5, <3>1, CallReplaced
  <2>7. /\ Touches(u, t, p) /\ StateOf(t, p) = "connecting" /\ t.doing = u.doing
        /\ t.outbox = u.outbox
    BY <2>6, SetStateTouches DEF CallStates
  <2> HIDE DEF t
  <2>8. /\ t \in PartyStates /\ OfferOK(t) /\ t.listed = s.listed /\ t.doing = s.doing
        /\ t.calls[Other(p)] = s.calls[Other(p)] /\ t.calls[p].remote
        /\ t.calls[p].replaced = s.calls[p].replaced
        /\ ToOffer(t) = 0 /\ ToOffer(s) = 0 /\ ~Fledgling(s, p)
    BY <1>2, <1>3, <2>1, <2>5, <2>6, <2>7 DEF Touches, ToOffer
  <2>9. OwnOK(p, t)
    BY <2>7, <2>8 DEF OwnOK, Fledgling, Late
  <2>10. OtherOK(p, t)
    BY <1>1, <2>8 DEF OtherOK, Fledgling, StateOf
  <2>11. Leaves(p, t)
    <3>1. /\ \A d \in Parties : ~Fledgling(s, d) => ~Fledgling(t, d)
          /\ StateOf(t, Other(p)) = StateOf(s, Other(p))
          /\ Fledgling(t, Other(p)) <=> Fledgling(s, Other(p))
      BY <1>3, <2>7, <2>8 DEF Fledgling, StateOf
    <3> QED
      BY <1>2, <2>1, <2>8, <2>9, <2>10, <3>1 DEF Leaves, PartyOK
  <2>12. Sent(t) = {}
    BY <1>1, <2>6, <2>7 DEF Sent
  <2> QED
    BY <2>2, <2>11, <2>12, BecomesMoves
<1> QED
  BY <1>4, <1>5, <1>6, <1>7

LEMMA OnHangupMoves ==
  ASSUME IInv, NEW p \in Parties, Reads(p), NEW e \in Unsynced(p),
         Becomes(p, OnHangup(party[p], e.call))
  PROVE  Moves(p)
<1> DEFINE s == party[p]
           c == e.call
           h == Terminate(s, c, TRUE)
<1>1. /\ PartyOK(p, s) /\ s \in PartyStates /\ OfferOK(s) /\ OwnOK(p, s) /\ OtherOK(p, s)
      /\ Sent(s) = {} /\ ToOffer(s) <= ToOffer(s)
  BY PartyIs DEF OwnOK
<1>2. /\ c \in Parties /\ e.by \in Parties /\ ~Fledgling(party[e.by], c)
      /\ e.by # p /\ c = p => ~Fledgling(s, p)
  BY EventIs
<1>3. Other(p) \in Parties /\ Other(p) # p /\ \A d \in Parties : d = p \/ d = Other(p)
  BY OtherParty
<1>4. c = p => ~Fledgling(s, p)
  BY <1>2
<1>5. \/ s.listed[c] = "no" /\ Becomes(p, [s EXCEPT !.listed[c] = "hungUp"])
      \/ s.listed[c] = "live" /\ Becomes(p, [h EXCEPT !.listed[c] = "no"])
      \/ Becomes(p, s)
  BY DEF OnHangup
<1> HIDE DEF c
<1>6. CASE s.listed[c] = "no" /\ Becomes(p, [s EXCEPT !.listed[c] = "hungUp"])
  <2> DEFINE t == [s EXCEPT !.listed[c] = "hungUp"]
  <2>1. /\ t \in PartyStates /\ t.calls = s.calls /\ t.active = s.active /\ t.rings = s.rings
        /\ t.doing = s.doing /\ t.outbox = s.outbox
        /\ t.listed[c] = "hungUp"
        /\ \A d \in Parties : d # c => t.listed[d] = s.listed[d]
    BY <1>1, <1>2 DEF PartyStates
  <2> HIDE DEF t
  <2>2. OfferOK(t) /\ ToOffer(t) = ToOffer(s) /\ Sent(t) = {}
    BY <1>1, <2>1 DEF OfferOK, StateOf, Fledgling, ToOffer, Sent
  <2>3. OwnOK(p, t)
    BY <1>1, <1>4, <2>1, <2>2 DEF OwnOK, StateOf, Fledgling
  <2>4. OtherOK(p, t)
    BY <1>1, <1>3, <2>1 DEF OtherOK, StateOf, Fledgling
  <2>5. PartyOK(p, t) /\ ToOffer(t) <= ToOffer(s) /\ Becomes(p, t)
    BY <1>1, <1>6, <2>1, <2>2, <2>3, <2>4 DEF PartyOK, t
  <2> QED
    BY <2>1, <2>2, <2>5, SameMoves
<1>7. CASE s.listed[c] = "live" /\ Becomes(p, [h EXCEPT !.listed[c] = "no"])
  <2> DEFINE t == [h EXCEPT !.listed[c] = "no"]
  <2>1. ~Fledgling(s, c)
    BY <1>1, <1>2, <1>3, <1>4, <1>7 DEF OtherOK
  <2>2. /\ Touches(s, h, c) /\ StateOf(h, c) = "ended" /\ h.doing = s.doing
        /\ h.outbox = s.outbox
    <3>1. TRUE \in BOOLEAN
      OBVIOUS
    <3> HIDE DEF s
    <3> QED
      BY <1>1, <1>2, <3>1, TerminateTouches
  <2> HIDE DEF h
  <2>3. Leaves(p, h)
    BY <1>1, <1>2, <2>1, <2>2, TouchesLeaves DEF Late
  <2>4. PartyOK(p, h) /\ h \in PartyStates /\ OfferOK(h) /\ OwnOK(p, h) /\ OtherOK(p, h)
    BY <2>3 DEF Leaves, PartyOK
  <2>5. /\ t \in PartyStates /\ t.calls = h.calls /\ t.active = h.active /\ t.rings = h.rings
        /\ t.doing = h.doing /\ t.outbox = h.outbox
        /\ t.listed[c] = "no"
        /\ \A d \in Parties : d # c => t.listed[d] = h.listed[d]
    BY <1>2, <2>4 DEF PartyStates
  <2>6. Becomes(p, t)
    BY <1>7
  <2> HIDE DEF t
  <2>7. OfferOK(t) /\ ToOffer(t) = ToOffer(h) /\ Sent(t) = {}
    BY <1>1, <2>2, <2>4, <2>5 DEF OfferOK, StateOf, Fledgling, ToOffer, Sent
  <2>8. OwnOK(p, t)
    BY <2>4, <2>5, <2>7 DEF OwnOK, StateOf, Fledgling
  <2>9. OtherOK(p, t)
    BY <1>3, <2>4, <2>5 DEF OtherOK, StateOf, Fledgling
  <2>10. PartyOK(p, t)
    BY <2>5, <2>7, <2>8, <2>9 DEF PartyOK
  <2>11. Leaves(p, t)
    BY <2>3, <2>5, <2>7, <2>10 DEF Leaves, StateOf, Fledgling
  <2> QED
    BY <2>6, <2>7, <2>11, BecomesMoves
<1>8. CASE Becomes(p, s)
  BY <1>1, <1>8, SameMoves
<1> QED
  BY <1>5, <1>6, <1>7, <1>8

LEMMA ReceiveMoves ==
  ASSUME IInv, NEW p \in Parties, Receive(p)
  PROVE  Moves(p)
<1> DEFINE e == Head(inbox[p])
           s == party[p]
<1>1. Len(inbox[p]) \in Nat /\ 1 \in 1..Len(inbox[p]) /\ e = inbox[p][1] /\ e \in Unsynced(p)
  <2>1. inbox[p] \in Seq(RoomEvents) /\ inbox[p] # <<>>
    BY DEF Receive, IInv, CallsTypeOK
  <2>2. PICK q \in Seq(RoomEvents) : q = inbox[p] /\ q # <<>>
    BY <2>1
  <2>3. Len(q) \in Nat /\ 1 \in 1..Len(q) /\ Head(q) = q[1]
    BY <2>2
  <2> QED
    BY <2>2, <2>3 DEF Unsynced
<1>2. \/ /\ e.type = "invite" /\ Becomes(p, OnInvite(s, p, e.call))
         /\ \E k \in 1..Len(inbox[p]) : Takes(p, k)
      \/ Becomes(p, s) /\ Takes(p, 1)
      \/ e.type = "answer" /\ Becomes(p, OnAnswer(s, e.call, e.by = p)) /\ Takes(p, 1)
      \/ Becomes(p, OnHangup(s, e.call)) /\ Takes(p, 1)
  BY DEF Receive
<1>3. Reads(p)
  BY <1>1, <1>2 DEF Reads
<1> HIDE DEF e
<1>4. CASE /\ e.type = "invite" /\ Becomes(p, OnInvite(s, p, e.call))
           /\ \E k \in 1..Len(inbox[p]) : Takes(p, k)
  <2>1. e.call = Other(p)
    BY <1>1, <1>4, EventIs
  <2>2. ReadsInvite(p)
    <3>1. PICK k \in 1..Len(inbox[p]) : Takes(p, k)
      BY <1>4
    <3>2. 1 \in 1..k
      BY <1>1
    <3> QED
      BY <1>1, <1>4, <3>1, <3>2 DEF ReadsInvite
  <2> QED
    BY <1>1, <1>4, <2>1, <2>2, OnInviteMoves
<1>5. CASE Becomes(p, s)
  BY <1>3, <1>5, PartyIs, SameMoves DEF OwnOK
<1>6. CASE e.type = "answer" /\ Becomes(p, OnAnswer(s, e.call, e.by = p))
  BY <1>1, <1>3, <1>6, OnAnswerMoves
<1>7. CASE Becomes(p, OnHangup(s, e.call))
  BY <1>1, <1>3, <1>7, OnHangupMoves
<1> QED
  BY <1>2, <1>4, <1>5, <1>6, <1>7

\* The start-up buffer is read at once; an invite may be left of it.
LEMMA PreparedMoves ==
  ASSUME IInv, NEW p \in Parties, Prepared(p)
  PROVE  Moves(p)
<1>1. PICK k \in 0..Len(inbox[p]) :
        /\ \/ \E e \in Unfinished(Buffer(p, k)) : e.type = "invite" /\ Becomes(p, OnInvite(party[p], p, e.call))
           \/ Becomes(p, party[p])
        /\ Takes(p, k)
  BY DEF Prepared
<1>2. Len(inbox[p]) \in Nat /\ (inbox' = inbox \/ Reads(p))
  BY <1>1, TakesPrefix DEF Reads
<1>3. ASSUME NEW e \in Unfinished(Buffer(p, k)), e.type = "invite",
             Becomes(p, OnInvite(party[p], p, e.call))
      PROVE  Moves(p)
  <2>1. PICK i \in 1..k : e = inbox[p][i]
    BY <1>3 DEF Unfinished, Buffer
  <2>2. i \in 1..Len(inbox[p]) /\ k \in 1..Len(inbox[p])
    BY <1>2
  <2>3. e \in Unsynced(p) /\ ReadsInvite(p)
    BY <1>1, <1>3, <2>1, <2>2 DEF Unsynced, ReadsInvite
  <2>4. e.call = Other(p)
    BY <1>3, <2>3, EventIs
  <2> QED
    BY <1>3, <2>3, <2>4, OnInviteMoves
<1>4. CASE Becomes(p, party[p])
  BY <1>2, <1>4, PartyIs, SameMoves DEF OwnOK
<1> QED
  BY <1>1, <1>3, <1>4

-----------------------------------------------------------------------------
(* The server takes an event: it is in the room, and to be read by each    *)
(* party, an invite by the other one only.                                 *)

LEMMA ArrivesKeeps ==
  ASSUME IInv, NEW p \in Parties, Arrives(p)
  PROVE  IInv'
<1> DEFINE q == Other(p)
<1>1. PICK x \in sends[p] :
        LET e == [type |-> x.type, call |-> x.call, by |-> p] IN
        /\ ~x.arrived
        /\ inbox' = [r \in Parties |-> IF x.type = "invite" /\ r = p THEN inbox[r] ELSE Append(inbox[r], e)]
        /\ sends' = [sends EXCEPT ![p] = (@ \ {x}) \union
                       (IF x.type = "hangup" THEN {} ELSE {[x EXCEPT !.arrived = TRUE]})]
        /\ UNCHANGED party
  BY DEF Arrives
<1> DEFINE e == [type |-> x.type, call |-> x.call, by |-> p]
           y == [x EXCEPT !.arrived = TRUE]
<1>2. /\ q \in Parties /\ q # p /\ Other(q) = p /\ q = Other(p)
      /\ \A r \in Parties : r = p \/ r = q
  BY OtherParty
<1>3. /\ party \in [Parties -> PartyStates] /\ sends = [r \in Parties |-> sends[r]]
      /\ inbox \in [Parties -> Seq(RoomEvents)]
      /\ \A r \in Parties : party[r].outbox = <<>>
      /\ \A r \in Parties : PartyOK(r, party[r]) /\ SendsOK(r) /\ InboxOK(r) /\ InviteOK(r) /\ LinkOK(r)
  BY DEF IInv, CallsTypeOK
<1>4. /\ IsSent(x) /\ SentBy(p, x) /\ ~Fledgling(party[p], x.call)
      /\ x.type \in EventTypes /\ x.call \in Parties /\ ~x.arrived
  BY <1>1, <1>3 DEF SendsOK, IsSent
<1>5. /\ e \in RoomEvents /\ e.type = x.type /\ e.call = x.call /\ e.by = p
  BY <1>4 DEF RoomEvents
<1>6. /\ y.type = x.type /\ y.call = x.call /\ y.arrived /\ IsSent(y)
  <2>1. PICK a, b, n, v : x = [type |-> a, call |-> b, nr |-> n, arrived |-> v]
    BY <1>4 DEF IsSent
  <2>2. y = [type |-> a, call |-> b, nr |-> n, arrived |-> TRUE]
    <3> DEFINE R == [type : {a}, call : {b}, nr : {n}, arrived : {v, TRUE}]
    <3>1. x \in R
      BY <2>1
    <3>2. y \in R /\ y.arrived = TRUE
      BY <3>1
    <3> HIDE DEF y
    <3> QED
      BY <3>2
  <2> HIDE DEF y
  <2>3. /\ y.type = a /\ y.call = b /\ y.nr = n /\ y.arrived = TRUE
        /\ x.type = a /\ x.call = b
    BY <2>1, <2>2
  <2>4. y = [type |-> y.type, call |-> y.call, nr |-> y.nr, arrived |-> y.arrived]
    BY <2>2, <2>3
  <2> QED
    BY <1>4, <2>3, <2>4 DEF IsSent
<1>7. /\ sends'[p] \subseteq (sends[p] \ {x}) \union {y}
      /\ sends'[q] = sends[q]
      /\ sends' = [r \in Parties |-> sends'[r]]
  <2> DEFINE new == (sends[p] \ {x}) \union (IF x.type = "hangup" THEN {} ELSE {y})
  <2>1. sends' = [sends EXCEPT ![p] = new] /\ new \subseteq (sends[p] \ {x}) \union {y}
    BY <1>1
  <2> HIDE DEF new, y, q
  <2>2. sends'[p] = new /\ sends'[q] = sends[q] /\ sends' = [r \in Parties |-> sends'[r]]
    BY <1>2, <1>3, <2>1
  <2> QED
    BY <2>1, <2>2
<1>8. \A r \in Parties : inbox'[r] = IF x.type = "invite" /\ r = p THEN inbox[r] ELSE Append(inbox[r], e)
  BY <1>1
<1> HIDE DEF e, y, q
<1>9. ASSUME NEW r \in Parties
      PROVE  /\ inbox'[r] \in Seq(RoomEvents)
             /\ \/ inbox'[r] = inbox[r]
                \/ /\ Len(inbox'[r]) = Len(inbox[r]) + 1 /\ Len(inbox[r]) \in Nat
                   /\ \A i \in 1..Len(inbox[r]) : inbox'[r][i] = inbox[r][i]
                   /\ inbox'[r][Len(inbox[r]) + 1] = e
                   /\ x.type = "invite" => r = q
  <2>1. inbox[r] \in Seq(RoomEvents)
    BY <1>3
  <2>2. CASE x.type = "invite" /\ r = p
    BY <1>8, <2>1, <2>2
  <2>3. CASE ~(x.type = "invite" /\ r = p)
    <3>1. inbox'[r] = Append(inbox[r], e)
      BY <1>8, <2>3
    <3>2. PICK f \in Seq(RoomEvents) : f = inbox[r]
      BY <2>1
    <3>3. /\ Append(f, e) \in Seq(RoomEvents) /\ Len(Append(f, e)) = Len(f) + 1 /\ Len(f) \in Nat
          /\ \A i \in 1..Len(f) : Append(f, e)[i] = f[i]
          /\ Append(f, e)[Len(f) + 1] = e
      BY <1>5
    <3> QED
      BY <1>2, <2>3, <3>1, <3>2, <3>3
  <2> QED
    BY <2>2, <2>3
<1>10. inbox' \in [Parties -> Seq(RoomEvents)]
  <2>1. inbox' = [r \in Parties |-> inbox'[r]]
    BY <1>1
  <2> QED
    BY <1>9, <2>1
<1>11. ASSUME NEW r \in Parties, NEW m \in Unsynced(r)'
       PROVE  m \in Unsynced(r) \/ (m = e /\ (x.type = "invite" => r = q))
  <2>1. PICK i \in 1..Len(inbox'[r]) : m = inbox'[r][i]
    BY <1>11 DEF Unsynced
  <2>2. CASE inbox'[r] = inbox[r]
    BY <2>1, <2>2 DEF Unsynced
  <2>3. CASE inbox'[r] # inbox[r]
    <3>1. i \in 1..Len(inbox[r]) \/ i = Len(inbox[r]) + 1
      BY <1>9, <2>1, <2>3
    <3> QED
      BY <1>9, <2>1, <2>3, <3>1 DEF Unsynced
  <2> QED
    BY <2>2, <2>3
<1>12. party' = party
  BY <1>1
<1>13. ASSUME NEW r \in Parties
       PROVE  SendsOK(r)' /\ (\A z \in sends'[r] : IsSent(z))
  <2>1. CASE r = q
    BY <1>3, <1>7, <1>12, <2>1 DEF SendsOK
  <2>2. CASE r = p
    <3>1. ASSUME NEW z \in sends'[p]
          PROVE  IsSent(z) /\ SentBy(p, z) /\ ~Fledgling(party[p], z.call)
      <4>1. CASE z \in sends[p]
        BY <1>3, <4>1 DEF SendsOK
      <4>2. CASE z = y
        BY <1>4, <1>6, <4>2 DEF SentBy
      <4> QED
        BY <1>7, <4>1, <4>2
    <3> QED
      BY <1>12, <2>2, <3>1 DEF SendsOK
  <2> QED
    BY <1>2, <2>1, <2>2
<1>14. ASSUME NEW r \in Parties
       PROVE  InboxOK(r)'
  <2>1. ASSUME NEW m \in Unsynced(r)'
        PROVE  /\ m.type = "invite" => m.by = Other(r)
               /\ SentBy(m.by, m)
               /\ ~Fledgling(party[m.by], m.call)
    <3>1. CASE m \in Unsynced(r)
      BY <1>3, <3>1 DEF InboxOK
    <3>2. CASE m = e /\ (x.type = "invite" => r = q)
      BY <1>2, <1>4, <1>5, <3>2 DEF SentBy
    <3> QED
      BY <1>11, <2>1, <3>1, <3>2
  <2> QED
    BY <1>12, <2>1 DEF InboxOK
\* The invites of p: the one that arrives is the only one, and none has come.
<1>15. InviteOK(p)'
  <2>1. /\ \A z, w \in sends[p] : z.type = "invite" /\ w.type = "invite" => z = w
        /\ \A i, j \in 1..Len(inbox[q]) :
             inbox[q][i].type = "invite" /\ inbox[q][j].type = "invite" => i = j
        /\ ToOffer(party[p]) = 1 => NoInviteFlies(p) /\ \A z \in sends[p] : z.type # "invite"
        /\ \A z \in sends[p] :
             z.type = "invite" /\ ~z.arrived => \A m \in Unsynced(q) : m.type # "invite"
        /\ ~Fledgling(party[q], p) =>
             ~Fledgling(party[p], p) /\ ToOffer(party[p]) = 0 /\ NoInviteFlies(p)
    BY <1>3 DEF InviteOK, q
  <2>2. x.type = "invite" => \A m \in Unsynced(q) : m.type # "invite"
    BY <1>4, <2>1
  <2>3. \A z, w \in sends'[p] : z.type = "invite" /\ w.type = "invite" => z = w
    BY <1>6, <1>7, <2>1
  <2>4. ASSUME NEW i \in 1..Len(inbox'[q]), NEW j \in 1..Len(inbox'[q]),
               inbox'[q][i].type = "invite", inbox'[q][j].type = "invite"
        PROVE  i = j
    <3>1. CASE inbox'[q] = inbox[q]
      BY <2>1, <2>4, <3>1
    <3>2. CASE inbox'[q] # inbox[q] /\ x.type # "invite"
      <4>1. ASSUME NEW k \in 1..Len(inbox'[q]), inbox'[q][k].type = "invite"
            PROVE  k \in 1..Len(inbox[q])
        <5>1. inbox'[q][Len(inbox[q]) + 1].type # "invite"
          BY <1>2, <1>5, <1>9, <3>2
        <5> QED
          BY <1>2, <1>9, <3>2, <4>1, <5>1
      <4> QED
        BY <1>2, <1>9, <2>1, <2>4, <3>2, <4>1
    <3>3. CASE inbox'[q] # inbox[q] /\ x.type = "invite"
      <4>1. \A k \in 1..Len(inbox[q]) : inbox'[q][k].type # "invite"
        BY <1>2, <1>9, <2>2, <3>3 DEF Unsynced
      <4> QED
        BY <1>2, <1>9, <2>4, <3>3, <4>1
    <3> QED
      BY <3>1, <3>2, <3>3
  <2>5. NoInviteFlies(p) => x.type # "invite"
    BY <1>4 DEF NoInviteFlies
  <2>6. NoInviteFlies(p) => NoInviteFlies(p)'
    <3>1. ASSUME NoInviteFlies(p)
          PROVE  /\ \A z \in sends'[p] : z.type = "invite" => z.arrived
                 /\ \A m \in Unsynced(q)' : m.type # "invite"
      <4>1. /\ \A z \in sends[p] : z.type = "invite" => z.arrived
            /\ \A m \in Unsynced(q) : m.type # "invite"
        BY <3>1 DEF NoInviteFlies, q
      <4> QED
        BY <1>2, <1>5, <1>6, <1>7, <1>11, <2>5, <3>1, <4>1
    <3> QED
      BY <3>1 DEF NoInviteFlies, q
  <2>7. ASSUME ToOffer(party[p]) = 1
        PROVE  \A z \in sends'[p] : z.type # "invite"
    BY <1>4, <1>6, <1>7, <2>1, <2>7
  <2>8. ASSUME NEW z \in sends'[p], z.type = "invite", ~z.arrived
        PROVE  \A m \in Unsynced(q)' : m.type # "invite"
    <3>1. z \in sends[p] /\ z # x
      BY <1>6, <1>7, <2>8
    <3>2. x.type # "invite"
      BY <2>1, <2>8, <3>1
    <3>3. \A m \in Unsynced(q) : m.type # "invite"
      BY <2>1, <2>8, <3>1
    <3> QED
      BY <1>2, <1>5, <1>11, <3>2, <3>3
  <2> QED
    BY <1>12, <2>1, <2>3, <2>4, <2>6, <2>7, <2>8 DEF InviteOK, q
\* The invites of the other party: nothing it sent is concerned.
<1>16. InviteOK(q)'
  <2>1. /\ \A z, w \in sends[q] : z.type = "invite" /\ w.type = "invite" => z = w
        /\ \A i, j \in 1..Len(inbox[p]) :
             inbox[p][i].type = "invite" /\ inbox[p][j].type = "invite" => i = j
        /\ ToOffer(party[q]) = 1 => NoInviteFlies(q) /\ \A z \in sends[q] : z.type # "invite"
        /\ \A z \in sends[q] :
             z.type = "invite" /\ ~z.arrived => \A m \in Unsynced(p) : m.type # "invite"
        /\ ~Fledgling(party[p], q) =>
             ~Fledgling(party[q], q) /\ ToOffer(party[q]) = 0 /\ NoInviteFlies(q)
    BY <1>2, <1>3 DEF InviteOK
  <2>2. ASSUME NEW m \in Unsynced(p)', m.type = "invite"
        PROVE  m \in Unsynced(p)
    BY <1>2, <1>5, <1>11, <2>2
  <2>3. ASSUME NEW i \in 1..Len(inbox'[p]), NEW j \in 1..Len(inbox'[p]),
               inbox'[p][i].type = "invite", inbox'[p][j].type = "invite"
        PROVE  i = j
    <3>1. CASE inbox'[p] = inbox[p]
      BY <2>1, <2>3, <3>1
    <3>2. CASE inbox'[p] # inbox[p]
      <4>1. ASSUME NEW k \in 1..Len(inbox'[p]), inbox'[p][k].type = "invite"
            PROVE  k \in 1..Len(inbox[p])
        <5>1. inbox'[p][Len(inbox[p]) + 1].type # "invite"
          BY <1>2, <1>5, <1>9, <3>2
        <5> QED
          BY <1>2, <1>9, <3>2, <4>1, <5>1
      <4> QED
        BY <1>9, <2>1, <2>3, <3>2, <4>1
    <3> QED
      BY <3>1, <3>2
  <2>4. NoInviteFlies(q) => NoInviteFlies(q)'
    BY <1>2, <1>7, <2>2 DEF NoInviteFlies
  <2> QED
    BY <1>2, <1>7, <1>12, <2>1, <2>2, <2>3, <2>4 DEF InviteOK
<1>17. ASSUME NEW r \in Parties
       PROVE  PartyOK(r, party'[r]) /\ LinkOK(r)' /\ party'[r].outbox = <<>>
  BY <1>3, <1>12 DEF LinkOK
<1> QED
  BY <1>2, <1>3, <1>7, <1>10, <1>12, <1>13, <1>14, <1>15, <1>16, <1>17 DEF IInv, CallsTypeOK

-----------------------------------------------------------------------------
(* The invariant, and the theorems.                                        *)

\* Nobody calls yet.
LEMMA InitEstablishes == Init => IInv
<1> SUFFICES ASSUME Init PROVE IInv
  OBVIOUS
<1> DEFINE first == [calls |-> [c \in Parties |-> NewCall], listed |-> [c \in Parties |-> "no"],
                     active |-> NoCall, rings |-> FALSE, doing |-> [d \in Doings |-> 0], outbox |-> <<>>]
<1>1. \A p \in Parties : party[p] = first /\ sends[p] = {} /\ inbox[p] = <<>>
  BY DEF Init
<1>2. NewCall \in MatrixCalls
  BY DEF NewCall, MatrixCalls, CallStates
<1>3. first \in PartyStates
  <2>1. /\ [c \in Parties |-> NewCall] \in [Parties -> MatrixCalls]
        /\ [c \in Parties |-> "no"] \in [Parties -> {"no", "live", "hungUp"}]
        /\ [d \in Doings |-> 0] \in [Doings -> Nat]
    BY <1>2
  <2>2. <<>> \in Seq(Messages)
    OBVIOUS
  <2>3. PICK none \in Seq(Messages) : none = <<>>
    BY <2>2, Zenon
  <2>4. first = [calls |-> [c \in Parties |-> NewCall], listed |-> [c \in Parties |-> "no"],
                 active |-> NoCall, rings |-> FALSE, doing |-> [d \in Doings |-> 0], outbox |-> none]
    BY <2>3
  <2> QED
    BY <2>1, <2>4 DEF PartyStates
<1>4. /\ \A c \in Parties : /\ first.calls[c] = NewCall /\ first.listed[c] = "no"
                            /\ Fledgling(first, c) /\ StateOf(first, c) = "fledgling"
                            /\ ~first.calls[c].listened /\ ~first.calls[c].replaced
                            /\ ~first.calls[c].remote
      /\ ToOffer(first) = 0 /\ first.doing["mediaForAnswer"] = 0 /\ first.doing["createAnswer"] = 0
      /\ first.active = NoCall /\ ~first.rings /\ first.outbox = <<>>
  BY DEF Fledgling, StateOf, NewCall, ToOffer, Doings
<1> HIDE DEF first
<1>5. \A p \in Parties : PartyOK(p, first)
  BY <1>3, <1>4, OtherParty DEF PartyOK, OfferOK, OwnOK, OtherOK
<1>6. inbox \in [Parties -> Seq(RoomEvents)] /\ \A p \in Parties : Unsynced(p) = {} /\ Len(inbox[p]) = 0
  <2>1. <<>> \in Seq(RoomEvents)
    OBVIOUS
  <2>2. inbox \in [Parties -> Seq(RoomEvents)]
    BY <2>1 DEF Init
  <2> QED
    BY <1>1, <2>2 DEF Unsynced
<1>7. party \in [Parties -> PartyStates] /\ sends = [p \in Parties |-> sends[p]]
  BY <1>1, <1>3 DEF Init
<1>8. CallsTypeOK
  BY <1>1, <1>4, <1>6, <1>7 DEF CallsTypeOK
<1>9. ASSUME NEW p \in Parties
      PROVE  SendsOK(p) /\ InboxOK(p) /\ InviteOK(p) /\ LinkOK(p)
  <2>1. Other(p) \in Parties
    BY OtherParty
  <2>2. SendsOK(p) /\ InboxOK(p)
    BY <1>1, <1>6 DEF SendsOK, InboxOK
  <2>3. InviteOK(p)
    BY <1>1, <1>4, <1>6, <2>1 DEF InviteOK, NoInviteFlies
  <2>4. LinkOK(p)
    BY <1>1, <1>4, <2>1 DEF LinkOK
  <2> QED
    BY <2>2, <2>3, <2>4
<1> QED
  BY <1>1, <1>5, <1>8, <1>9 DEF IInv

\* Every step is a step of one party, or an arrival.
LEMMA NextMoves ==
  ASSUME IInv, Next
  PROVE  \E p \in Parties : Moves(p) \/ Arrives(p)
<1>1. PICK p \in Parties :
        \/ User(p) \/ Callback(p) \/ InviteTimeout(p) \/ LifetimeExpires(p)
        \/ Network(p) \/ Response(p) \/ Prepared(p) \/ Receive(p) \/ Peers(p)
  BY DEF Next
<1>2. CASE User(p)
  BY <1>2, PlaceCallMoves, AnswerCallMoves, HangupCallMoves DEF User
<1>3. CASE Callback(p)
  BY <1>3, MediaForInviteMoves, MediaForAnswerMoves, NoMediaMoves, GotLocalOfferMoves,
     CreatedAnswerMoves, NoSecondAnswerMoves DEF Callback
<1>4. CASE InviteTimeout(p) \/ LifetimeExpires(p)
  BY <1>4, InviteTimeoutMoves, LifetimeExpiresMoves
<1>5. CASE Network(p)
  BY <1>5, SendFailsMoves DEF Network
<1>6. CASE Response(p) \/ Prepared(p) \/ Receive(p)
  BY <1>6, ResponseMoves, PreparedMoves, ReceiveMoves
<1>7. CASE Peers(p)
  BY <1>7, IceConnectedMoves, IceFailedMoves, RemoteStreamEndedMoves DEF Peers
<1> QED
  BY <1>1, <1>2, <1>3, <1>4, <1>5, <1>6, <1>7

LEMMA NextKeeps == IInv /\ [Next]_vars => IInv'
<1> SUFFICES ASSUME IInv, [Next]_vars PROVE IInv'
  OBVIOUS
<1>1. CASE Next
  BY <1>1, NextMoves, MovesKeeps, ArrivesKeeps
<1>2. CASE UNCHANGED vars
  BY <1>2 DEF vars, IInv, CallsTypeOK, SendsOK, InboxOK, InviteOK, NoInviteFlies, LinkOK, Unsynced
<1> QED
  BY <1>1, <1>2

\* The invariant: what a party knows of the calls, what its events say of it, and
\* what the other party can have made of them.
THEOREM CallsInvariant == Spec => []IInv
BY InitEstablishes, NextKeeps, PTL DEF Spec

\* Every value has its type: the calls, the callbacks to come, the events in
\* flight and the events a party has not synced yet.
THEOREM CallsTypes == Spec => []CallsTypeOK
<1>1. IInv => CallsTypeOK
  BY DEF IInv
<1> QED
  BY <1>1, CallsInvariant, PTL

\* The UI offers to answer a call only while it rings (CallHandler.js:141-206):
\* whatever methods, events and timers change the call's state, the offer goes too.
THEOREM OfferIsOfARingingCall == Spec => []OfferedIsRinging
<1>1. IInv => OfferedIsRinging
  BY DEF IInv, PartyOK, OfferOK, OfferedIsRinging
<1> QED
  BY <1>1, CallsInvariant, PTL

\* Who is connected to a call it answered has a caller that knows of the answer:
\* the placing party set its remote description, and its call is past its offer.
THEOREM NoCallerIsBehind == Spec => []ConnectedToACaller
<1>1. ASSUME IInv, NEW c \in Parties, StateOf(party[Other(c)], c) = "connected"
      PROVE  StateOf(party[c], c) \in {"invite_sent", "connecting", "connected", "ended"}
  BY <1>1 DEF IInv, LinkOK, PartyOK, OwnOK, Late
<1>2. IInv => ConnectedToACaller
  BY <1>1 DEF ConnectedToACaller
<1> QED
  BY <1>2, CallsInvariant, PTL

\* What the client knows to be hung up when it is prepared is not passed on.
LEMMA HungUpIsFinished ==
  ASSUME IInv, NEW p \in Parties, NEW k \in 0..Len(inbox[p]), NEW h \in Buffer(p, k), h.type = "hangup",
         Fledgling(party[p], h.call), NEW e \in Unfinished(Buffer(p, k)), e.type = "invite"
  PROVE  FALSE
<1>1. h \in Unsynced(p) /\ e \in Unsynced(p)
  <2>1. Len(inbox[p]) \in Nat
    BY DEF IInv, CallsTypeOK
  <2> QED
    BY <2>1 DEF Buffer, Unsynced, Unfinished
<1>2. e.call = Other(p)
  BY <1>1, EventIs
<1>3. h.by # p /\ h.call # p /\ h.call \in Parties
  BY <1>1, EventIs
<1>4. h.call = e.call
  BY <1>2, <1>3, OtherParty
<1> QED
  BY <1>4 DEF Unfinished

\* Only the first sync prepares a client.
LEMMA OnlyPrepared ==
  ASSUME Next, prepared' # prepared
  PROVE  \E p \in Parties : Prepared(p)
<1>1. PICK p \in Parties :
        \/ User(p) \/ Callback(p) \/ InviteTimeout(p) \/ LifetimeExpires(p)
        \/ Network(p) \/ Response(p) \/ Prepared(p) \/ Receive(p) \/ Peers(p)
  BY DEF Next
<1>2. ~User(p)
  BY DEF User, PlaceCall, AnswerCall, HangupCall
<1>3. ~Callback(p)
  BY DEF Callback, MediaForInvite, MediaForAnswer, NoMedia, GotLocalOffer, CreatedAnswer, NoSecondAnswer
<1>4. ~InviteTimeout(p) /\ ~LifetimeExpires(p)
  BY DEF InviteTimeout, LifetimeExpires
<1>5. ~Network(p) /\ ~Response(p) /\ ~Receive(p)
  BY DEF Network, Arrives, SendFails, Response, Receive
<1>6. ~Peers(p)
  BY DEF Peers, IceConnected, IceFailed, RemoteStreamEnded
<1> QED
  BY <1>1, <1>2, <1>3, <1>4, <1>5, <1>6

\* A hangup that overtakes its invite is remembered (client.js:4285-4294,
\* 4178-4180), and one in the start-up buffer keeps its call from ringing when the
\* client is prepared (client.js:4119-4141).  Nothing is said of the invite that
\* comes after a hangup of the start-up buffer: it rings.
THEOREM HangupIsRemembered == Spec => HungUpNeverRings
<1>1. ASSUME IInv, Next, NEW p \in Parties, NEW c \in Parties,
             party[p].listed[c] = "hungUp", StateOf(party[p], c) = "fledgling"
      PROVE  StateOf(party'[p], c) = "fledgling"
  <2>1. PICK r \in Parties : Moves(r) \/ Arrives(r)
    BY <1>1, NextMoves
  <2>2. CASE Arrives(r)
    BY <1>1, <2>2 DEF Arrives
  <2>3. CASE Moves(r) /\ r # p
    BY <1>1, <2>3 DEF Moves, IInv, CallsTypeOK
  <2>4. CASE Moves(r) /\ r = p
    <3>1. c # p
      BY <1>1, PartyIs DEF OwnOK, Fledgling
    <3>2. c = Other(p)
      BY <3>1, OtherParty
    <3> QED
      BY <1>1, <2>4, <3>2 DEF Moves, Leaves, Fledgling
  <2> QED
    BY <2>1, <2>2, <2>3, <2>4
<1>2. ASSUME IInv, Next, NEW p \in Parties, NEW c \in Parties,
             HungUpBefore(p, c), StateOf(party[p], c) = "fledgling"
      PROVE  StateOf(party'[p], c) = "fledgling"
  <2>1. PICK r \in Parties : Prepared(r)
    BY <1>2, OnlyPrepared DEF HungUpBefore
  <2>2. PICK k \in 0..Len(inbox[r]) :
          /\ \/ \E e \in Unfinished(Buffer(r, k)) : e.type = "invite" /\ Becomes(r, OnInvite(party[r], r, e.call))
             \/ Becomes(r, party[r])
          /\ Takes(r, k)
    BY <2>1 DEF Prepared
  <2>3. PICK h \in Buffer(p, Len(inbox[p]) - Len(inbox'[p])) : h.type = "hangup" /\ h.call = c
    BY <1>2 DEF HungUpBefore
  <2>4. r = p
    <3>1. SUFFICES ASSUME r # p PROVE FALSE
      OBVIOUS
    <3>2. inbox'[p] = inbox[p] /\ Len(inbox[p]) \in Nat
      BY <1>2, <2>2, <3>1, TakesPrefix DEF IInv, CallsTypeOK
    <3>3. Len(inbox[p]) - Len(inbox'[p]) = 0
      BY <3>2
    <3>4. PICK i \in 1..(Len(inbox[p]) - Len(inbox'[p])) : TRUE
      BY <2>3 DEF Buffer
    <3>5. i \in 1..0
      BY <3>3, <3>4
    <3> QED
      BY <3>5
  <2>5. Len(inbox[p]) - Len(inbox'[p]) = k
    <3>1. k \in 0..Len(inbox[p]) /\ Takes(p, k)
      BY <2>2, <2>4
    <3>2. Len(inbox[p]) \in Nat /\ Len(inbox'[p]) = Len(inbox[p]) - k
      BY <1>2, <3>1, TakesPrefix
    <3> QED
      BY <3>1, <3>2
  <2>6. Becomes(p, party[p])
    BY <1>2, <2>2, <2>3, <2>4, <2>5, HungUpIsFinished DEF Fledgling
  <2>7. party[p] \in PartyStates /\ party \in [Parties -> PartyStates]
    BY <1>2 DEF IInv, CallsTypeOK
  <2>8. party'[p] = [party[p] EXCEPT !.outbox = <<>>]
    BY <2>6, <2>7 DEF Becomes
  <2>9. party'[p].calls = party[p].calls
    BY <2>7, <2>8 DEF PartyStates
  <2> QED
    BY <1>2, <2>9 DEF StateOf
<1>3. IInv /\ [Next]_vars =>
        [\A p, c \in Parties :
           (party[p].listed[c] = "hungUp" \/ HungUpBefore(p, c)) /\ StateOf(party[p], c) = "fledgling"
             => StateOf(party'[p], c) = "fledgling"]_vars
  BY <1>1, <1>2
<1> QED
  BY <1>3, CallsInvariant, PTL DEF Spec, HungUpNeverRings

==============================================================================
