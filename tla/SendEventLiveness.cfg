SPECIFICATION FairSpec
CONSTANTS
  msg = msg
  rel = rel
  sticker = sticker
  message = message
  NoQueue = NoQueue
  NoEvent = NoEvent
  MaxAttempts = 1
  Events <- MCPair
  Queues <- MCQueues
  QueueOf <- MCQueueOf
  RelatesTo <- MCRelatesTo
  Encrypted = {msg}
  Gappy = {}
PROPERTIES
  SendSettles
CHECK_DEADLOCK FALSE
