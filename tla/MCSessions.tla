------------------------------ MODULE MCSessions ------------------------------
(* The Megolm session of a room and the Olm sessions with its devices, each  *)
(* explored on its own from its initial states: whose turn it is is chosen   *)
(* once.  Two devices, three messages, slices of one device; three calls for *)
(* Olm sessions that go through their devices in one order.                  *)
EXTENDS MegolmOutbound, OlmSessions, TLC

CONSTANTS d1, d2, m1, m2, m3, x, y, room1, room2, request

VARIABLE explored

allVars == <<explored, vars, olmVars>>

MCSameOrder == (room1 :> <<x, y>>) @@ (room2 :> <<x, y>>) @@ (request :> <<y>>)

MegolmStep(A) == explored = "megolm" /\ A /\ UNCHANGED <<explored, olmVars>>

OlmStep(A) == explored = "olm" /\ A /\ UNCHANGED <<explored, vars>>

MCInit == explored \in {"megolm", "olm"} /\ Init /\ OlmInit

MCNext == MegolmStep(Next) \/ OlmStep(OlmNext)

MCSpec ==
  /\ MCInit /\ [][MCNext]_allVars
  /\ WF_allVars(MegolmStep(Progress))
  /\ WF_allVars(OlmStep(OlmProgress))

===============================================================================
