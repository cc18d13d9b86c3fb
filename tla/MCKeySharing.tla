---------------------------- MODULE MCKeySharing ----------------------------
(* Instances of KeySharing: tabs are model values. *)
EXTENDS KeySharing

CONSTANTS t1
==============================================================================
