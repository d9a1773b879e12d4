CONSTANTS
  MaxLen = 3
  Components <- MCComponents
  Addresses <- MCAddresses
  TorProxies <- MCTorProxies
  SocksProxies <- MCSocksProxies
SPECIFICATION Spec
INVARIANT DocumentedTorDial
CHECK_DEADLOCK FALSE
