\* Two files: on one, two threads wait for a channel that one of them enables,
\* disables and launches on; both enable and disable another channel.
CONSTANTS
  w1 = w1
  w2 = w2
  ctl = ctl
  f1 = f1
  f2 = f2
  c1 = c1
  c2 = c2
  Threads = {w1, w2, ctl}
  Files = {f1, f2}
  FileOf <- TwoFiles
  Channels = {c1, c2}
  WaitSets <- WaitFirst
  EnableSets <- EnableShared
  LaunchSets <- LaunchFirst
  MaxTransfers = 1
  MaxSignals = 1
SPECIFICATION Spec
INVARIANTS
  MutexHeldOnce
  NoLostWakeup
  CompletionTracked
  EnabledInSomeContext
