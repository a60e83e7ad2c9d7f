\* One account, whose browser is launched once.
SPECIFICATION FairSpec
CONSTANTS
  p1 = p1
  p2 = p2
  r1 = r1
  Daemon = Daemon
  NoPid = NoPid
  NoAccount = NoAccount
  NumAccounts = 1
  NumPorts = 1
  MaxSyncs = 2
  ReuseExisting = TRUE
  Pids <- OnePid
  Requests <- OneRequest
PROPERTIES DeadBrowserNoticed
CHECK_DEADLOCK FALSE
