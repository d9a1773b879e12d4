CONSTANTS
  MaxLen = 4
  Components <- MCComponents
  Addresses <- MCAddresses
  TorProxies <- MCTorProxies
  SocksProxies <- MCSocksProxies
SPECIFICATION Spec
INVARIANTS TypeOK TargetIsDialled NoDirectDial ProxyAsAsked UsualIsDialled
CHECK_DEADLOCK FALSE
