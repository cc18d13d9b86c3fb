---------------------------- MODULE MCOlmSessions ----------------------------
(* Three calls: two for both devices, and one for the second of them.       *)
EXTENDS OlmSessions, TLC

CONSTANTS x, y, room1, room2, request

MCTwoOrders == (room1 :> <<x, y>>) @@ (room2 :> <<y, x>>) @@ (request :> <<y>>)

==============================================================================
