\* Two savers, one client, deletion and cleanup in every interleaving.
SPECIFICATION Spec
CONSTANTS
  Savers = {s1, s2}
  Pagers = {p1}
  Users = {u1, u2}
  Campaigns = {k1}
  Results <- MCResults
  Limits = {1, 2}
  CleanupLimits = {1, 2}
  Ttls = {1}
  MaxTime = 2
  None = None
  Gone = Gone
  s1 = s1
  s2 = s2
  u1 = u1
  u2 = u2
  k1 = k1
SYMMETRY Symmetry
INVARIANTS
  TypeOK
  SavedWhole
  PagesMakeTheAudience
PROPERTIES
  ImplementsSnapshots
\* Finitely many calls end in a state with nothing left to do.
CHECK_DEADLOCK FALSE
