\* Policies: lookups load from the database the admin calls write.
SPECIFICATION FairSpec
CONSTANTS
  Threads = {t1, t2}
  Names = {n1, n2}
  Contents = {c1, c2}
  Files <- MCFiles
  FirstTable <- MCFirstTable
  SameDatabase = TRUE
  OtherTable <- MCOtherTable
  MaxWrites = 2
  MaxFailures = 2
  MaxRestarts = 1
  None = None
  n1 = n1
  n2 = n2
  c1 = c1
  c2 = c2
INVARIANTS
  TypeOK
  CacheIsCommittedTable
PROPERTIES
  CacheComesBack
