\* Two accounts over two ports.
SPECIFICATION Spec
CONSTANTS
  p1 = p1
  p2 = p2
  r1 = r1
  Daemon = Daemon
  NoPid = NoPid
  NoAccount = NoAccount
  NumAccounts = 2
  NumPorts = 2
  MaxSyncs = 1
  ReuseExisting = TRUE
  Pids <- TwoPids
  Requests <- OneRequest
INVARIANTS TypeOK CookiesFromOwnBrowser
SYMMETRY PidSymmetry
CHECK_DEADLOCK FALSE
