SPECIFICATION Spec
CONSTANTS
  MaxConns = 3
  Texts <- MCTexts
  Others <- MCOthers
INVARIANTS
  TypeOK
  EntriesCountDials
  OwnConnectionsReported
  HostAndPortKept
\* The program may have ended.
CHECK_DEADLOCK FALSE
