SPECIFICATION Spec
CONSTANTS
  f1 = f1
  f2 = f2
  s1 = s1
  s2 = s2
  Files = {f1, f2}
  Channels = {c1}
  SrcChannels = {}
  Slots = {s1, s2}
  MapRequests <- MCMapRequests
  LaunchBuffers <- MCLaunchBuffers
  MaxBuffers = 2
  MaxOngoing = 2
  MaxHandles <- MCMaxHandles
  MaxFailures = 1
  Contract = {"idle", "owned"}
  NoList = NoList
  NoBuffer = NoBuffer
SYMMETRY MCSymmetry
INVARIANTS
  TransfersFindMemory
  DetachedWhenDisabled
  ResourcesAccounted
CHECK_DEADLOCK FALSE
