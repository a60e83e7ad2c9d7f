\* One account under two calls, both refresh sources, operators and edits.
SPECIFICATION FairSpec
CONSTANTS
  a1 = a1
  c1 = c1
  c2 = c2
  NoAccount = NoAccount
  Accounts <- OneAccount
  Calls <- TwoCalls
  Adapter = "mock"
  DegradedThreshold = 2
  UnavailableThreshold = 3
  MaxFailures = 4
INVARIANTS TypeOK ReadyMeansForgiven CooldownSound
PROPERTIES PassingStatesSettle InventoryTakesEffect
