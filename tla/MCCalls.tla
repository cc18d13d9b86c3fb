------------------------------ MODULE MCCalls ------------------------------
(* Two users who may call each other; alice's call has the lower id.       *)
EXTENDS Calls

CONSTANTS alice, bob

==============================================================================
