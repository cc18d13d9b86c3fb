SPECIFICATION FairSpec
CONSTANTS
  t1 = t1
  Tabs = {t1}
  MaxTxns = 3
  MaxFailures = 1
  MaxReloads = 1
  MaxDialogs = 1
INVARIANTS
  PendingHasASender
  NoCancelledRequestWaits
PROPERTIES
  CancelledLast
  PendingIsSettled
