------------------------- MODULE MCSchedulerService -------------------------
(* Three messages share one queue, a fourth event has a queue of its own.  *)
EXTENDS SchedulerService

CONSTANTS a, b, c, d, message, other

MCEvents == {a, b, c, d}
MCQueues == {message, other}
MCQueueOf == [e \in MCEvents |-> IF e = d THEN other ELSE message]
MCCancellable == {b, d}
==============================================================================
