SPECIFICATION OlmFairSpec
CONSTANTS
  x = x
  y = y
  room1 = room1
  room2 = room2
  request = request
  Peers = {x, y}
  Claimers = {room1, room2, request}
  DevicesOf <- MCTwoOrders
  MaxFailures = 0
  Nobody = Nobody
PROPERTIES
  EveryCallEnds
CHECK_DEADLOCK FALSE
