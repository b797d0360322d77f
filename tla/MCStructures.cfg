\* Each structure at the smallest size at which it wraps, fills up and is
\* reused; the boot with every batch of files that its channels take. Nothing
\* has to go on: the bounds stop it.
CONSTANTS
  TsSize = 4
  TsDescCount = 4
  MaxInterrupts = 8
  TsContract = {"quiet", "paced", "attached", "ordered"}
  LogSize = 4
  LogBufferSizes = {1, 2, 3, 4}
  ListKinds <- MCListKinds
  Page = 2
  SgGap = 100
  Calls <- MCCalls
  LastSizes = {1, 2, 3, 4, 7}
  MaxCalls = 2
  b1 = b1
  b2 = b2
  b3 = b3
  Boards = {b1, b2, b3}
  NoBoard = NoBoard
  MaxOpens = 1
  ListContract = {"class", "serial", "probed"}
  AtrSize = 4
  MemSize = 12
  Ranges <- MCRanges
  Trigger = 2
  FwAddress = 8
  MaxAccesses = 2
  AtrContract = {"slow"}
  Word = 5
  ImageSizes <- MCImageSizes
  ImageMaxSize = 15
  HeaderSize = 3
  CertHeaderSize = 2
  MinCode = 1
  MaxAppCode = 6
  MaxCoreCode = 4
  MaxCert = 2
  u1 = u1
  u2 = u2
  Users = {u1, u2}
  NoUser = NoUser
  DownContract = {"late"}
  Accelerators = {"SOC", "NNC"}
  NumChannels = 3
  DescsCount = 3
  PageSize = 2
  Batches <- MCBatches
  SoftReset = TRUE
  MaxBoots = 3
  NoDesc = NoDesc
  Contract = {"power", "memory", "stuck", "reset", "whole"}
SPECIFICATION MCSpec
INVARIANTS
  ReadInBounds
  LogReadInOrder
  ListMovesBuffer
  BoardsNumbered
  NothingDangles
  WindowAccessExact
  ImageInBounds
  ShutdownStopsVdma
  ActiveMeansLoaded
  StageTwoHasImage
  NoLostSignal
  BootMemoryReleased
PROPERTIES
  TimestampsInOrder
  DmaFindsMemory
SYMMETRY Symmetry
CHECK_DEADLOCK FALSE
