\* The claim that the cache follows every write, which fails.
SPECIFICATION Spec
CONSTANTS
  Threads = {t1, t2}
  Names = {n1, n2}
  Contents = {c1, c2}
  Files <- MCFiles
  FirstTable <- MCFirstTable
  SameDatabase = TRUE
  OtherTable <- MCOtherTable
  MaxWrites = 1
  MaxFailures = 0
  MaxRestarts = 0
  None = None
  n1 = n1
  n2 = n2
  c1 = c1
  c2 = c2
INVARIANTS
  CacheFollowsWrites
