SPECIFICATION Spec
CONSTANTS
  me = me
  peer = peer
  Users = {me, peer}
  Self = me
  Callers = {peer}
  MaxWrites = 0
  MaxChanges = 2
  MaxFailures = 1
  MaxReloads = 0
  Lagging = FALSE
  CutsWrites = FALSE
  SyncMayThrow = FALSE
  LazyLoadMembers = FALSE
INVARIANTS
  UpToDateIsFresh
