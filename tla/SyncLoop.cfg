SPECIFICATION FairSpec
CONSTANTS
  Threshold = 3
  MaxToken = 2
  MaxFailures = 4
  MaxNudges = 2
  MaxDegrades = 1
INVARIANTS
  WaitingIsPoked
PROPERTIES
  TokenNeverGoesBack
  SyncsAgain
CHECK_DEADLOCK FALSE
