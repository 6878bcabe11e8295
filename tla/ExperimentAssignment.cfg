\* Three requests for one experiment, whatever fails; PostgreSQL ends every deadlock.
SPECIFICATION FairSpec
CONSTANTS
  r1 = r1
  r2 = r2
  r3 = r3
  u1 = u1
  u2 = u2
  ghost = ghost
  a = a
  b = b
  c = c
  d = d
  None = None
  Requests = {r1, r2, r3}
  Users = {u1, u2, ghost}
  KnownUsers = {u1, u2}
  Codes = {a, b, c, d}
  Channels = {"lms", "rcs"}
  Inputs <- MCInputs
INVARIANTS
  TypeOK
  OneAssignmentPerUser
  AnswerMatchesLedger
  RerunDisturbedOnlyByAssign
PROPERTIES
  ImplementsLedger
  EveryRequestEnds
\* A finite number of requests ends in a state with nothing left to do.
CHECK_DEADLOCK FALSE
