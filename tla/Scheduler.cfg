SPECIFICATION FairSpec
CONSTANTS
  a = a
  b = b
  c = c
  d = d
  message = message
  other = other
  NoQueue = NoQueue
  NoEvent = NoEvent
  MaxAttempts = 1
  Events <- MCEvents
  Queues <- MCQueues
  QueueOf <- MCQueueOf
  Cancellable <- MCCancellable
INVARIANTS
  ActiveIffRunning
  QueuedOnceAndPending
PROPERTIES
  ImplementsFifo
  QueuedPromiseSettles
