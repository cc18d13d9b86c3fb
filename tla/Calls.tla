------------------------------- MODULE Calls -------------------------------
(***************************************************************************)
(* Placing, answering and hanging up 1:1 calls (src/webrtc/call.js), the   *)
(* handler of call events (src/client.js) and the list of active calls the *)
(* UI keeps (CallHandler.js), for two parties of a room who may call each  *)
(* other at the same time (glare).                                         *)
(*                                                                         *)
(* Call events are sent without a queue: they may overtake each other on   *)
(* their way to the server.  Media and ICE are external: they succeed or   *)
(* fail at any time.  Each party places at most one call, which carries    *)
(* its name.                                                               *)
(***************************************************************************)
EXTENDS Naturals, Sequences, FiniteSets

CONSTANTS
  Parties,      \* the two users
  Lowest,       \* the one whose call has the lower call id
  MaxMishaps,   \* bound on failures, hangups by the users and overdue events; a second call leaves none
  MaxUnsynced,  \* bound on the events a party has not synced yet
  NoCall

ASSUME CallsAssumption ==
  /\ \E q \in Parties : q # Lowest /\ Parties = {Lowest, q}
  /\ NoCall \notin Parties
  /\ {MaxMishaps, MaxUnsynced} \subseteq Nat

VARIABLES
  party,     \* party -> its calls, callList, active call and callbacks to come
  sends,     \* party -> its events in flight
  inbox,     \* party -> the events of the room it has not handled yet
  prepared,  \* the parties whose client has synced for the first time
  mishaps

vars == <<party, sends, inbox, prepared, mishaps>>

Other(p) == CHOOSE q \in Parties : q # p

\* A MatrixCall: its state, localAVStream, waitForLocalAVStream, successor,
\* _answerContent, whether the remote description is set, the peer connection
\* closed, and CallHandler's listeners attached.
NewCall == [state |-> "fledgling", stream |-> FALSE, waits |-> FALSE, replaced |-> FALSE,
            answer |-> FALSE, remote |-> FALSE, closed |-> FALSE, listened |-> FALSE]

\* The callbacks to come: of getUserMedia, createOffer and createAnswer.
Doings == {"mediaForInvite", "mediaForAnswer", "offer", "createAnswer"}

\* callList holds the call ("live"), one made from the hangup of a call it does
\* not hold ("hungUp"), or nothing ("no").
Init ==
  /\ party = [p \in Parties |-> [calls |-> [c \in Parties |-> NewCall], listed |-> [c \in Parties |-> "no"],
                                 active |-> NoCall, rings |-> FALSE, doing |-> [d \in Doings |-> 0], outbox |-> <<>>]]
  /\ sends = [p \in Parties |-> {}]
  /\ inbox = [p \in Parties |-> <<>>]
  /\ prepared = {}
  /\ mishaps = 0

-----------------------------------------------------------------------------
(* The methods of a MatrixCall, as functions of the state s of one party.  *)

StateOf(s, c) == s.calls[c].state

\* A callback or a timer to come, and one that is due now.
Begin(s, d) == [s EXCEPT !.doing[d] = @ + 1]

Taken(s, d) == [s EXCEPT !.doing[d] = @ - 1]

\* client.sendEvent; the events are in flight when the party's step is over.
Send(s, type, c) == [s EXCEPT !.outbox = Append(@, [type |-> type, call |-> c])]

\* Mutant: the offer to answer is withdrawn only with the call.
StillOffered(s, c, rings) == [s EXCEPT !.active = c, !.rings = rings \/ (@ /\ c # NoCall)]

\* calls[room] and its call_state, as far as the UI offers to answer it.
Active(s, c, rings) == [s EXCEPT !.active = c, !.rings = rings]

\* CallHandler's "state" listener.
Listened(s, c, old, new) ==
  IF ~s.calls[c].listened THEN s
  ELSE IF new = "ended" /\ old = "connected" THEN Active(s, NoCall, FALSE)
  ELSE IF new \in {"ringing", "invite_sent", "connected"} \/ old \in {"ringing", "invite_sent"}
       THEN Active(s, c, new = "ringing")
  ELSE s

SetState(s, c, new) == Listened([s EXCEPT !.calls[c].state = new], c, StateOf(s, c), new)

\* CallHandler forgets the room's call on a "hangup" event, whichever call it is.
Terminate(s, c, shouldEmit) ==
  LET ended == [SetState(s, c, "ended") EXCEPT !.calls[c].closed = TRUE]
  IN IF shouldEmit /\ s.calls[c].listened THEN Active(ended, NoCall, FALSE) ELSE ended

Hangup(s, c) ==
  IF StateOf(s, c) = "ended" THEN s ELSE Send(Terminate(s, c, TRUE), "hangup", c)

\* Without permission the call receives only, and goes on alike: its stream is not asked for again.
GotMediaForAnswer(s, c) ==
  IF StateOf(s, c) = "ended" THEN s
  ELSE SetState(Begin([s EXCEPT !.calls[c].stream = TRUE], "createAnswer"), c, "create_answer")

Answer(s, c) ==
  LET this == s.calls[c] IN
  IF this.answer THEN Send(s, "answer", c)
  ELSE IF this.stream THEN GotMediaForAnswer(s, c)
  ELSE IF this.waits THEN SetState(s, c, "wait_local_media")
  ELSE SetState(Begin(s, "mediaForAnswer"), c, "wait_local_media")

\* The outbound call c is given up for the inbound call d, which gets its stream.
ReplacedBy(s, c, d) ==
  LET handed == IF StateOf(s, c) = "wait_local_media"
                THEN [s EXCEPT !.calls[d].waits = TRUE]
                ELSE [GotMediaForAnswer(s, d) EXCEPT !.calls[c].stream = FALSE]
  IN Hangup([handed EXCEPT !.calls[c].replaced = TRUE], c)

-----------------------------------------------------------------------------
(* The handler of call events, for party p.                                *)

GlareStates == {"wait_local_media", "create_offer", "invite_sent"}

Glaring(s, p) == s.listed[p] = "live" /\ StateOf(s, p) \in GlareStates

PicksIncoming(s, p) ==
  StateOf(s, p) \in {"wait_local_media", "create_offer"} \/ p # Lowest

\* _initWithInvite
Ringing(s, c) ==
  [s EXCEPT !.calls[c] = [NewCall EXCEPT !.state = "ringing"], !.listed[c] = "live"]

\* CallHandler ignores an incoming call when there is an active one.
Incoming(s, c) ==
  IF s.active # NoCall THEN s ELSE Active([s EXCEPT !.calls[c].listened = TRUE], c, TRUE)

\* Mutant: a hangup that came before the invite is forgotten.
AnyInvite(s, p, c) ==
  IF ~Glaring(s, p) THEN Incoming(Ringing(s, c), c)
  ELSE IF PicksIncoming(s, p) THEN Answer(ReplacedBy(Ringing(s, c), p, c), c)
  ELSE Hangup(Ringing(s, c), c)

\* The invite of a call that was hung up before, or is over.
Stale(s, c) == s.listed[c] = "hungUp" \/ (s.listed[c] = "live" /\ StateOf(s, c) = "ended")

\* _replacedBy throws an exception: the call that is given up only receives, and has no stream.
Throws(s, p, c) ==
  /\ ~Stale(s, c) /\ Glaring(s, p) /\ PicksIncoming(s, p)
  /\ StateOf(s, p) # "wait_local_media" /\ ~s.calls[p].stream

OnInvite(s, p, c) ==
  IF Stale(s, c) THEN s
  ELSE IF ~Glaring(s, p) THEN Incoming(Ringing(s, c), c)
  ELSE IF Throws(s, p, c) THEN Ringing(s, c)
  ELSE IF PicksIncoming(s, p) THEN Answer(ReplacedBy(Ringing(s, c), p, c), c)
  ELSE Hangup(Ringing(s, c), c)

\* Mutant: the answer sets the remote description but not the state.
AnswerUnnoticed(s, c, own) ==
  IF s.listed[c] # "live" \/ own \/ StateOf(s, c) = "ended" THEN s
  ELSE [s EXCEPT !.calls[c].remote = TRUE]

OnAnswer(s, c, own) ==
  IF s.listed[c] # "live" THEN s
  ELSE IF own THEN IF StateOf(s, c) = "ringing" THEN Terminate(s, c, TRUE) ELSE s
  ELSE IF StateOf(s, c) = "ended" THEN s
  ELSE SetState([s EXCEPT !.calls[c].remote = TRUE], c, "connecting")

OnHangup(s, c) ==
  CASE s.listed[c] = "no" -> [s EXCEPT !.listed[c] = "hungUp"]
    [] s.listed[c] = "live" /\ StateOf(s, c) # "ended" -> [Terminate(s, c, TRUE) EXCEPT !.listed[c] = "no"]
    [] OTHER -> s

-----------------------------------------------------------------------------
(* A step of party p takes it to s and puts the events s sends in flight.  *)

FreshNr(p, e) ==
  CHOOSE n \in 1..Cardinality(sends[p]) + 1 : \A x \in sends[p] : x.type = e.type /\ x.call = e.call => x.nr # n

InFlight(p, s) ==
  {[type |-> e.type, call |-> e.call, nr |-> FreshNr(p, e), arrived |-> FALSE] :
     e \in {s.outbox[i] : i \in 1..Len(s.outbox)}}

Becomes(p, s) ==
  /\ party' = [party EXCEPT ![p] = [s EXCEPT !.outbox = <<>>]]
  /\ sends' = [sends EXCEPT ![p] = @ \union InFlight(p, s)]

Mishap == mishaps < MaxMishaps /\ mishaps' = mishaps + 1

\* 'place_call': refused while there is an active call; the UI is there when the client is prepared.  A second call is placed only while the first
\* is being set up, and without other mishaps: a bound.
PlaceCall(p) ==
  /\ p \in prepared
  /\ StateOf(party[p], p) = "fledgling" /\ party[p].active = NoCall
  /\ Becomes(p, SetState(Begin([party[p] EXCEPT !.listed[p] = "live", !.calls[p].listened = TRUE],
                               "mediaForInvite"), p, "wait_local_media"))
  /\ \/ StateOf(party[Other(p)], Other(p)) = "fledgling" /\ UNCHANGED mishaps
     \/ StateOf(party[Other(p)], Other(p)) \in GlareStates /\ mishaps = 0 /\ mishaps' = MaxMishaps
  /\ UNCHANGED <<inbox, prepared>>

\* 'answer', offered while the active call rings.
AnswerCall(p) ==
  LET c == party[p].active IN
  /\ party[p].rings
  /\ Becomes(p, Active(Answer(party[p], c), c, FALSE))
  /\ UNCHANGED <<inbox, prepared, mishaps>>

\* 'hangup' of the room's active call.
HangupCall(p) ==
  /\ party[p].active # NoCall
  /\ Becomes(p, Active(Hangup(party[p], party[p].active), NoCall, FALSE))
  /\ Mishap
  /\ UNCHANGED <<inbox, prepared>>

\* getUserMedia, called for an invite, is handed on to the successor of a replaced call.  Without
\* permission there is no stream and the call receives only.
GotMediaForInvite(s, p, permitted) ==
  IF s.calls[p].replaced THEN GotMediaForAnswer(s, Other(p))
  ELSE IF StateOf(s, p) = "ended" THEN s
  ELSE SetState(Begin([s EXCEPT !.calls[p].stream = permitted], "offer"), p, "create_offer")

MediaForInvite(p) ==
  /\ party[p].doing["mediaForInvite"] > 0
  /\ \E permitted \in BOOLEAN : Becomes(p, GotMediaForInvite(Taken(party[p], "mediaForInvite"), p, permitted))
  /\ UNCHANGED <<inbox, prepared, mishaps>>

MediaForAnswer(p) ==
  /\ party[p].doing["mediaForAnswer"] > 0
  /\ Becomes(p, GotMediaForAnswer(Taken(party[p], "mediaForAnswer"), Other(p)))
  /\ UNCHANGED <<inbox, prepared, mishaps>>

\* No media: _getUserMediaFailed ends the call without a hangup to the other party.
NoMedia(p) ==
  /\ \E d \in {"mediaForInvite", "mediaForAnswer"} :
       LET c == IF d = "mediaForInvite" /\ ~party[p].calls[p].replaced THEN p ELSE Other(p)
           s == Taken(party[p], d)
       IN /\ party[p].doing[d] > 0
          /\ Becomes(p, IF StateOf(s, c) = "ended" THEN s ELSE Terminate(s, c, FALSE))
  /\ Mishap
  /\ UNCHANGED <<inbox, prepared>>

\* _gotLocalOffer, and the invite it sends.
GotLocalOffer(p) ==
  LET s == Taken(party[p], "offer") IN
  /\ party[p].doing["offer"] > 0
  /\ Becomes(p, IF StateOf(s, p) = "ended" THEN s ELSE Send(s, "invite", p))
  /\ UNCHANGED <<inbox, prepared, mishaps>>

\* createAnswer: a closed peer connection answers nothing.
CreatedAnswer(p) ==
  LET s == Taken(party[p], "createAnswer")
      c == Other(p)
  IN /\ party[p].doing["createAnswer"] > 0
     /\ Becomes(p, IF s.calls[c].closed THEN s
                   ELSE Send([s EXCEPT !.calls[c].answer = TRUE], "answer", c))
     /\ UNCHANGED <<inbox, prepared, mishaps>>

\* A second createAnswer on the same peer connection may find it stable and fail.
NoSecondAnswer(p) ==
  /\ party[p].doing["createAnswer"] > 0 /\ party[p].calls[Other(p)].answer
  /\ Becomes(p, Taken(party[p], "createAnswer"))
  /\ UNCHANGED <<inbox, prepared, mishaps>>

\* Minutes go by with an event underway: a mishap.
Overdue ==
  IF \E p \in Parties : sends[p] # {} \/ inbox[p] # <<>> THEN Mishap ELSE UNCHANGED mishaps

(* Timers look at the state when they fire: one that would find the call in another state than it was set
   for does nothing, and is left out.  Every invite_sent has set its timer. *)
InviteTimeout(p) ==
  /\ StateOf(party[p], p) = "invite_sent"
  /\ Becomes(p, Hangup(party[p], p))
  /\ Overdue
  /\ UNCHANGED <<inbox, prepared>>

\* The timer of an invite's lifetime, which a call that rings again may have outlived.
LifetimeExpires(p) ==
  /\ StateOf(party[p], Other(p)) = "ringing"
  /\ Becomes(p, Terminate(party[p], Other(p), TRUE))
  /\ Overdue
  /\ UNCHANGED <<inbox, prepared>>

-----------------------------------------------------------------------------
(* Events in flight: the server accepts them, and answers; or it does not. *)

Arrives(p) ==
  \E x \in sends[p] :
    LET e == [type |-> x.type, call |-> x.call, by |-> p] IN
    /\ ~x.arrived /\ \A q \in Parties : Len(inbox[q]) < MaxUnsynced
    /\ inbox' = [q \in Parties |-> IF x.type = "invite" /\ q = p THEN inbox[q] ELSE Append(inbox[q], e)]
    /\ sends' = [sends EXCEPT ![p] = (@ \ {x}) \union
                   (IF x.type = "hangup" THEN {} ELSE {[x EXCEPT !.arrived = TRUE]})]
    /\ UNCHANGED <<party, prepared, mishaps>>

\* The response to an event: the state is set whatever it has become meanwhile.
Responded(s, type, c) ==
  IF type = "invite" THEN SetState(s, c, "invite_sent")
  ELSE SetState(s, c, "connecting")

Response(p) ==
  \E x \in sends[p] :
    /\ x.arrived
    /\ party' = [party EXCEPT ![p] = Responded(@, x.type, x.call)]
    /\ sends' = [sends EXCEPT ![p] = @ \ {x}]
    /\ UNCHANGED <<inbox, prepared, mishaps>>

\* The request fails and the event is lost.
Refused(s, type, c) ==
  CASE type = "invite" -> Terminate(s, c, FALSE)
    [] type = "answer" -> SetState(s, c, "ringing")
    [] OTHER -> s

SendFails(p) ==
  \E x \in sends[p] :
    /\ ~x.arrived
    /\ party' = [party EXCEPT ![p] = Refused(@, x.type, x.call)]
    /\ sends' = [sends EXCEPT ![p] = @ \ {x}]
    /\ Mishap
    /\ UNCHANGED <<inbox, prepared>>

\* The events of a start-up buffer that are passed on: those of calls it neither answers nor hangs up.
Unfinished(buffer) ==
  {e \in buffer : \A x \in buffer : x.call = e.call => x.type \notin {"answer", "hangup"}}

\* p is done with the first k events of its inbox.
Buffer(p, k) == {inbox[p][i] : i \in 1..k}

Takes(p, k) == inbox' = [inbox EXCEPT ![p] = SubSeq(@, k + 1, Len(@))]

\* The client is prepared.  The k events it has synced so far are its start-up buffer: all that can be
\* left of it is the other's one invite, which may have outlived its lifetime.
Prepared(p) ==
  /\ p \notin prepared /\ prepared' = prepared \union {p}
  /\ \E k \in 0..Len(inbox[p]) :
       /\ \/ \E e \in Unfinished(Buffer(p, k)) : e.type = "invite" /\ Becomes(p, OnInvite(party[p], p, e.call))
          \/ Becomes(p, party[p])
       /\ Takes(p, k)
  /\ UNCHANGED mishaps

\* callEventHandler for the next event; an invite may have outlived its lifetime.  An exception
\* takes the rest of the sync response with it.
Receive(p) ==
  /\ p \in prepared /\ inbox[p] # <<>>
  /\ LET e == Head(inbox[p])
         s == party[p]
     IN \/ /\ e.type = "invite" /\ Becomes(p, OnInvite(s, p, e.call))
           /\ \E k \in 1..Len(inbox[p]) : (k = 1 \/ Throws(s, p, e.call)) /\ Takes(p, k)
        \/ e.type = "invite" /\ Becomes(p, s) /\ Takes(p, 1)
        \/ e.type = "answer" /\ Becomes(p, OnAnswer(s, e.call, e.by = p)) /\ Takes(p, 1)
        \/ e.type = "hangup" /\ Becomes(p, OnHangup(s, e.call)) /\ Takes(p, 1)
  /\ UNCHANGED <<prepared, mishaps>>

-----------------------------------------------------------------------------
(* ICE and media streams (external), and what a call makes of them.        *)

\* Both descriptions are known to both ends: the placing party has the answer.
Connectable(p, c) ==
  party[c].calls[c].remote /\ ~party[p].calls[c].closed

IceConnected(p, c) ==
  /\ Connectable(p, c) /\ StateOf(party[p], c) # "connected"
  /\ Becomes(p, SetState(party[p], c, "connected"))
  /\ UNCHANGED <<inbox, prepared, mishaps>>

IceFailed(p, c) ==
  /\ Connectable(p, c)
  /\ Becomes(p, Hangup(party[p], c))
  /\ Mishap
  /\ UNCHANGED <<inbox, prepared>>

\* The remote stream, which is there with the remote description, ends when the other end closes, or p
\* itself has closed: then the call that is over ends again.
RemoteStreamEnded(p, c) ==
  /\ IF c = p THEN party[p].calls[c].remote ELSE StateOf(party[p], c) # "fledgling"
  /\ \/ StateOf(party[p], c) = "connected" /\ party[Other(p)].calls[c].closed
     \/ StateOf(party[p], c) = "ended" /\ party[p].calls[c].closed
  /\ Becomes(p, Terminate(party[p], c, TRUE))
  /\ UNCHANGED <<inbox, prepared, mishaps>>

-----------------------------------------------------------------------------
User(p) == PlaceCall(p) \/ AnswerCall(p) \/ HangupCall(p)

Callback(p) ==
  \/ MediaForInvite(p) \/ MediaForAnswer(p) \/ NoMedia(p)
  \/ GotLocalOffer(p) \/ CreatedAnswer(p) \/ NoSecondAnswer(p)

Network(p) == Arrives(p) \/ SendFails(p)

Peers(p) == \E c \in Parties : IceConnected(p, c) \/ IceFailed(p, c) \/ RemoteStreamEnded(p, c)

Next ==
  \E p \in Parties :
    \/ User(p) \/ Callback(p) \/ InviteTimeout(p) \/ LifetimeExpires(p)
    \/ Network(p) \/ Response(p) \/ Prepared(p) \/ Receive(p) \/ Peers(p)

Spec == Init /\ [][Next]_vars

-----------------------------------------------------------------------------
(* Properties                                                              *)

\* The client is prepared in this step, with a hangup of c in its start-up buffer.
HungUpBefore(p, c) ==
  /\ prepared' # prepared
  /\ \E e \in Buffer(p, Len(inbox[p]) - Len(inbox'[p])) : e.type = "hangup" /\ e.call = c

(* The UI offers to answer a call only while that call rings: whatever     *)
(* hangups, expiries, failed answers and other calls of the room do, the   *)
(* offer is withdrawn with the ringing.                                    *)
OfferedIsRinging ==
  \A p \in Parties : party[p].rings => party[p].active # NoCall /\ StateOf(party[p], party[p].active) = "ringing"

(* A party that is connected to a call it answered is not alone: the party *)
(* that placed the call has its answer, or has ended the call, or goes     *)
(* back from connecting to invite_sent with the late response to its       *)
(* invite.  It is never still setting the call up.                         *)
ConnectedToACaller ==
  \A c \in Parties :
    StateOf(party[Other(c)], c) = "connected" =>
      StateOf(party[c], c) \in {"invite_sent", "connecting", "connected", "ended"}

(* A hangup that overtakes its invite is remembered: a call that a         *)
(* prepared client has seen hung up never rings, and a hangup in the       *)
(* start-up buffer keeps its call from ringing when the client is          *)
(* prepared.  That is all a buffered hangup does: of an invite that comes  *)
(* after the first sync the code does not know any more that its call was  *)
(* hung up before, and it rings.                                           *)
HungUpNeverRings ==
  [][\A p, c \in Parties :
       (party[p].listed[c] = "hungUp" \/ HungUpBefore(p, c)) /\ StateOf(party[p], c) = "fledgling"
         => StateOf(party'[p], c) = "fledgling"]_vars

==============================================================================
