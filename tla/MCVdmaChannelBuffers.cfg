\* Debug transfers of several buffers, with device errors, on a list as long as
\* the counters are wide (65536 descriptors in the device): the counters wrap
\* to zero by themselves.
CONSTANTS
  l1 = l1
  l2 = l2
  NoList = NoList
  Lists <- Lists1
  DescCount <- DescCount4
  RingSize = 4
  MaxBuffers = 2
  BufferSizes = {1}
  BindModes = {FALSE}
  DebugModes = {TRUE}
  Contract <- AllClauses
  U16 = 4
SPECIFICATION Spec
INVARIANTS
  TypeOK
  CompletionExact
  DirtyExact
