\* Prompts with a metadata database of their own: lookups load from elsewhere.
SPECIFICATION Spec
CONSTANTS
  Threads = {t1, t2}
  Names = {n1, n2}
  Contents = {c1, c2}
  Files <- MCFiles
  FirstTable <- MCFirstTable
  SameDatabase = FALSE
  OtherTable <- MCOtherTable
  MaxWrites = 2
  MaxFailures = 2
  MaxRestarts = 1
  None = None
  n1 = n1
  n2 = n2
  c1 = c1
  c2 = c2
INVARIANTS
  CacheIsCommittedTable
