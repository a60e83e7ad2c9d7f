\* Two sessions, one of which may not fail over.
SPECIFICATION FairSpec
CONSTANTS
  s1 = s1
  s2 = s2
  a1 = a1
  a2 = a2
  m1 = m1
  m2 = m2
  m3 = m3
  d1 = d1
  t1 = t1
  k1 = k1
  NoKey = NoKey
  NoAccount = NoAccount
  Sessions <- TwoSessions
  Accounts <- TwoAccounts
  SessionOf <- OnTwoSessions
  KeyOf <- SharedKey
  AllowFailover <- OneSession
  Sends <- TwoSends
  Deletes <- NoRequests
  Renames <- OneRename
PROPERTIES MovesOnlyIfAllowed SessionFreed
