\* The pool under timeouts, cancellations and state changes.
SPECIFICATION Spec
CONSTANTS
  a1 = a1
  a2 = a2
  r1 = r1
  r2 = r2
  r3 = r3
  r4 = r4
  Accounts <- TwoAccounts
  Requests <- FourRequests
  Configs <- UpToTwoSlots
  GlobalMaxConcurrency = 2
  PerAccountMaxQueueDepth = 2
  GlobalMaxQueueDepth = 3
SYMMETRY RequestSymmetry
INVARIANTS TypeOK CountersExact QueueSound
PROPERTIES NoOvertakingInQueue ImplementsSlots
