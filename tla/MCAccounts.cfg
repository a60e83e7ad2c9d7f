\* One account, its reauthentication job, and three edits of the inventory.
SPECIFICATION FairSpec
CONSTANTS
  a1 = a1
  j1 = j1
  r1 = r1
  NoAccount = NoAccount
  NoJob = NoJob
  Nobody = Nobody
  Accounts <- OneAccount
  Jobs <- OneJob
  Requests <- OneRequest
  MaxEdits = 3
INVARIANTS TypeOK OnlyValidatedCookies PoolMatchesInventory
PROPERTIES EditsAreKept MonitoredJobEnds
CHECK_DEADLOCK FALSE
