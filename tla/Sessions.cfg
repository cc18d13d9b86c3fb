SPECIFICATION MCSpec
CONSTANTS
  d1 = d1
  d2 = d2
  m1 = m1
  m2 = m2
  m3 = m3
  x = x
  y = y
  room1 = room1
  room2 = room2
  request = request
  Devices = {d1, d2}
  Msgs = {m1, m2, m3}
  RotationMsgs = 1
  SliceMax = 0
  MaxSessions = 4
  MaxMishaps = 1
  MaxChanges = 1
  Discard = Discard
  Peers = {x, y}
  Claimers = {room1, room2, request}
  DevicesOf <- MCSameOrder
  MaxFailures = 1
  Nobody = Nobody
INVARIANTS
  AudienceCanRead
  RotatedInTime
  NothingLeftInProgress
  DoneHasSessions
  ClaimedOnce
PROPERTIES
  KeyStaysInAudience
  MessagesSettle
  EveryCallEnds
CHECK_DEADLOCK FALSE
