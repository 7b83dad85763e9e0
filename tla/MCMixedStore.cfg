SPECIFICATION MCSpec
CONSTANTS
  Users = {u1, u2}
  Perms = {p}
  Admin = u1
  Manage = p
  Upload = p
  Read = p
  Callers = {c1}
  AccessLife = 1
  RefreshLife = 2
  MaxClock = 2
  MaxSessions = 1
  None = None
  MaxPosts = 2
  MaxDatasets = 2
INVARIANT
  LoadsItsOwnFile
CHECK_DEADLOCK FALSE
