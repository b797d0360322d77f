\* While transfers are in flight on a list of four descriptors, the client names
\* a list of two in a launch, which is refused.
CONSTANTS
  l1 = l1
  l2 = l2
  NoList = NoList
  Lists <- Lists2
  DescCount <- DescCountMixed
  RingSize = 3
  MaxBuffers = 1
  BufferSizes = {1, 2}
  BindModes = {TRUE}
  DebugModes = {FALSE}
  Contract <- NoCounts
  U16 = 8
SPECIFICATION Spec
INVARIANTS
  CompletedIsDone
