----------------------------- MODULE MCSendEvent -----------------------------
(* A message, a relation to it and a sticker, which is not queued.          *)
EXTENDS SendEvent

CONSTANTS msg, rel, sticker, message

MCEvents == {msg, rel, sticker}
MCPair == {msg, rel}
MCSingle == {msg}
MCQueues == {message}
MCQueueOf == [e \in Events |-> IF e = sticker THEN NoQueue ELSE message]
MCRelatesTo == [e \in Events |-> IF e = rel THEN msg ELSE NoEvent]
==============================================================================
