\* A pool in which nothing fails; the run ends when every request is answered.
SPECIFICATION SteadySpec
CONSTANTS
  a1 = a1
  a2 = a2
  r1 = r1
  r2 = r2
  r3 = r3
  r4 = r4
  Accounts <- TwoAccounts
  Requests <- FourRequests
  Configs <- UpToTwoSlots
  GlobalMaxConcurrency = 2
  PerAccountMaxQueueDepth = 2
  GlobalMaxQueueDepth = 3
INVARIANTS NoLostWakeup
PROPERTIES QueuedEventuallyStarts
CHECK_DEADLOCK FALSE
