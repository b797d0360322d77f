\* Two threads share a file: one reads its notifications, both send controls
\* and disable the notifications. The other file is open and not read. All
\* stops when the device is removed and the files are closed.
CONSTANTS
  r = r
  k = k
  f1 = f1
  f2 = f2
  Threads = {r, k}
  Files = {f1, f2}
  FileOf <- FirstFile
  Readers = {r}
  Controllers = {r, k}
  MaxRequests = 2
  MaxNotifications = 2
  MaxCompletions = 2
  Contract <- AllClauses
SPECIFICATION FairSpec
INVARIANTS
  AnswerIsOwn
  NoLostAnswer
  NoLostNotification
PROPERTIES
  CancelledReaderReturns
CHECK_DEADLOCK FALSE
