\* The claim of the integration guide about resent webhooks, which fails.
SPECIFICATION Spec
CONSTANTS
  Posts = {p1, p2, p3}
  Notices <- MCNotices
  MessageIds = {m1, m2}
  EventIds = {e1}
  Times = {t1, t2}
  AssignedIds = {m1, None}
  OwnId = own
  None = None
  m1 = m1
  m2 = m2
  e1 = e1
  t1 = t1
  t2 = t2
INVARIANTS
  ResentNoticeStoredOnce
\* A finite number of posts ends in a state with nothing left to do.
CHECK_DEADLOCK FALSE
