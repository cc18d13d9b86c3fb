SPECIFICATION Spec
CONSTANTS
  me = me
  peer = peer
  Users = {me}
  Self = me
  Callers = {}
  MaxWrites = 2
  MaxChanges = 2
  MaxFailures = 0
  MaxReloads = 1
  Lagging = TRUE
  CutsWrites = FALSE
  SyncMayThrow = FALSE
  LazyLoadMembers = TRUE
INVARIANTS
  UpToDateIsFresh
  InProgressIsInABatch
  StoredListMatchesToken
  StoredListCoversStoredSync
  CleanMeansSaved
