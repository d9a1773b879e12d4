SPECIFICATION Spec
CONSTANTS
  t1 = t1
  t2 = t2
  t3 = t3
  Topics <- ThreeTopics
  HistoryCap = 2
  MaxUsize = 5
  MaxMessages = 1
  Profiles <- ReleaseProfile
INVARIANT EnterFindsCurrent
\* A panic ends the process.
CHECK_DEADLOCK FALSE
