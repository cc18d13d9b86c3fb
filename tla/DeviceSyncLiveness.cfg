SPECIFICATION FairSpec
CONSTANTS
  me = me
  peer = peer
  Users = {me}
  Self = me
  Callers = {me}
  MaxWrites = 1
  MaxChanges = 1
  MaxFailures = 0
  MaxReloads = 0
  Lagging = FALSE
  CutsWrites = FALSE
  SyncMayThrow = TRUE
  LazyLoadMembers = TRUE
PROPERTIES
  OutdatedGetsRefreshed
  DownloadSettles
  SyncGoesOn
