SPECIFICATION Spec
CONSTANTS
  c1 = c1
  c2 = c2
  w1 = w1
  Concrete <- TwoAddresses
  Wildcard <- OneWildcard
  Interface = eth0
  MaxServices = 2
  MaxEvents = 1
INVARIANTS
  TypeOK
  ChannelHasRoom
  CreatedIsBound
  AnnouncedIsReachable
PROPERTY CreatedIsAnnounced
\* The program may have stopped.
CHECK_DEADLOCK FALSE
