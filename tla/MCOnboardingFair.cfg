SPECIFICATION FairSpec
CONSTANTS
  r1 = r1
  r2 = r2
  r3 = r3
  r4 = r4
  d1 = d1
  d2 = d2
  c1 = c1
  c2 = c2
  t1 = t1
  t2 = t2
  b1 = b1
  NoDataset = NoDataset
  Requests = {r1, r2}
  Datasets = {d1, d2}
  Businesses = {b1}
  Columns = {c1, c2}
  Targets = {t1, t2}
  BusinessOf <- MCBusinessOf
  NonNumeric = {c2}
  Threads = 2
  PartialLists = FALSE
PROPERTIES
  ImplementsContract
  EveryRequestEnds
CHECK_DEADLOCK FALSE
