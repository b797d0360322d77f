\* Two lists of four descriptors, counters wider than the lists: the client
\* may name the wrong list, overfills the ring, and uses either list after a
\* restart.
CONSTANTS
  l1 = l1
  l2 = l2
  NoList = NoList
  Lists <- Lists2
  DescCount <- DescCount4
  RingSize = 3
  MaxBuffers = 1
  BufferSizes = {1}
  BindModes = {TRUE}
  DebugModes = {FALSE}
  Contract <- NoSlots
  U16 = 8
SPECIFICATION Spec
INVARIANTS
  IndInv
  NumAvailInSync
PROPERTIES
  ImplementsQueue
SYMMETRY Symmetry
