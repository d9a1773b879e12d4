SPECIFICATION Spec
CONSTANTS
  me = me
  p1 = p1
  Peers <- TwoPeers
  Self = me
  MaxQueries = 2
  MaxSteps = 2
  MaxReady = 2
  KadModes <- BothModes
INVARIANTS
  TypeOK
  NoOrphanQuery
  NoticeBeforeAnswer
PROPERTY ImplementsPeerLookup
\* The loop returns on shutdown or error.
CHECK_DEADLOCK FALSE
