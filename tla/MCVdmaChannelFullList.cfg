\* The client fills a whole list.
CONSTANTS
  l1 = l1
  l2 = l2
  NoList = NoList
  Lists <- Lists1
  DescCount <- DescCount4
  RingSize = 3
  MaxBuffers = 1
  BufferSizes <- UpToFour
  BindModes = {TRUE}
  DebugModes = {FALSE}
  Contract <- NoRoom
  U16 = 8
SPECIFICATION Spec
INVARIANTS
  CompletedIsDone
