SPECIFICATION FairSpec
CONSTANTS
  s1 = s1
  s2 = s2
  s3 = s3
  Sessions = {s1, s2, s3}
  Limit = 1
  MaxVersions = 2
  MaxReceived = 1
  MaxFailures = 1
  MaxChecks = 1
  MaxReloads = 1
PROPERTIES
  UnmarkedWasUploaded
  SendingEnds
CHECK_DEADLOCK FALSE
