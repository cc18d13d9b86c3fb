SPECIFICATION Spec
CONSTANTS
  alice = alice
  bob = bob
  Parties = {alice, bob}
  Lowest = alice
  NoCall = NoCall
  MaxMishaps = 3
  MaxUnsynced = 2
INVARIANTS
  OfferedIsRinging
  ConnectedToACaller
PROPERTIES
  HungUpNeverRings
CHECK_DEADLOCK FALSE
