CONSTANTS
  f1 = f1
  f2 = f2
  i1 = i1
  i2 = i2
  o1 = o1
  o2 = o2
  NoFile = NoFile
  Files = {f1, f2}
  InputChannels = {i1, i2}
  OutputChannels = {o1, o2}
  Pairs <- MCPairs
  MaxRequests = 2
  PowerMode = TRUE
  Contract <- AllClauses
  SocContract <- AllSocClauses
SPECIFICATION SocSpec
INVARIANTS
  OpenFilesCounted
  FreedExactlyOnce
  DeviceFollowsFiles
  HostChannelsTracked
  ClosesOnlyOwn
PROPERTIES
  SocImplementsBoard
SYMMETRY Symmetry
CHECK_DEADLOCK FALSE
