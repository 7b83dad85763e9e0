SPECIFICATION MCSpec
CONSTANTS
  Users = {u1, u2}
  Perms = {p}
  Admin = u1
  Manage = p
  Upload = p
  Read = p
  Callers = {c1}
  AccessLife = 1
  RefreshLife = 2
  MaxClock = 2
  MaxSessions = 1
  None = None
  MaxPosts = 2
  MaxDatasets = 2
INVARIANTS
  AccessEndsWithItsGrounds
  StoresAreOneSignIn
  OnlyOpeningMixes
PROPERTIES
  GuardSettles
  ReviewCatchesUp
CHECK_DEADLOCK FALSE
