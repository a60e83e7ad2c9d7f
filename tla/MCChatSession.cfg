\* Three sends, a deletion and crashes on one session.
SPECIFICATION Spec
CONSTANTS
  s1 = s1
  s2 = s2
  a1 = a1
  a2 = a2
  m1 = m1
  m2 = m2
  m3 = m3
  d1 = d1
  t1 = t1
  k1 = k1
  NoKey = NoKey
  NoAccount = NoAccount
  Sessions <- OneSession
  Accounts <- TwoAccounts
  SessionOf <- OnOneSession
  KeyOf <- SharedKey
  AllowFailover <- OneSession
  Sends <- ThreeSends
  Deletes <- OneDelete
  Renames <- NoRequests
SYMMETRY AccountSymmetry
INVARIANTS TypeOK SingleFlight KeyAnsweredOnce CallFollowsRow
PROPERTIES ImplementsSessionLife
