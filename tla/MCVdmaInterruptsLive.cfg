\* Two threads wait on a channel that a third controls, all on one file.
CONSTANTS
  w1 = w1
  w2 = w2
  ctl = ctl
  f1 = f1
  f2 = f2
  c1 = c1
  c2 = c2
  Threads = {w1, w2, ctl}
  Files = {f1}
  FileOf <- OneFile
  Channels = {c1}
  WaitSets <- WaitAll
  EnableSets <- CtlEnables
  LaunchSets <- CtlLaunches
  MaxTransfers = 1
  MaxSignals = 0
SPECIFICATION FairSpec
PROPERTIES
  CompletionReported
  DisabledWaitExits
