SPECIFICATION Spec
CONSTANTS
  t1 = t1
  t2 = t2
  t3 = t3
  Topics <- ThreeTopics
  HistoryCap = 2
  MaxUsize = 5
  MaxMessages = 3
  Profiles <- BothProfiles
SYMMETRY TopicSymmetry
INVARIANTS
  TypeOK
  CopiesAgree
  CurrentWithinTabs
  NeverLosesSelection
  PanelIsRecentHistory
PROPERTIES
  PublishesToSelected
  LeavingRightKeepsSelection
\* A panic ends the process.
CHECK_DEADLOCK FALSE
