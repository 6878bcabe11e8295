\* Two requests, again and again, and two runs of training that may be killed.
SPECIFICATION Spec
CONSTANTS
  t1 = t1
  t2 = t2
  Threads = {t1, t2}
  Latest = Latest
  Nothing = Nothing
  Failed = Failed
  Mismatch = Mismatch
  MaxRuns = 2
SYMMETRY Symmetry
INVARIANT TypeOK
PROPERTY AnswersFromTheFiles
