SPECIFICATION Spec
CONSTANTS
  msg = msg
  rel = rel
  sticker = sticker
  message = message
  NoQueue = NoQueue
  NoEvent = NoEvent
  MaxAttempts = 1
  Events <- MCEvents
  Queues <- MCQueues
  QueueOf <- MCQueueOf
  RelatesTo <- MCRelatesTo
  Encrypted = {msg}
  Gappy = {msg}
INVARIANTS
  PendingListMatchesStatus
  SettledLeavesScheduler
  OneRequestPerQueue
  RelationWaitsForTarget
PROPERTIES
  EchoIsFinal
  ImplementsFifo
CHECK_DEADLOCK FALSE
