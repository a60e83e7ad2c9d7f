\* A probe, a send that continues a conversation and one that opens one.
SPECIFICATION FairSpec
CONSTANTS
  p1 = p1
  m1 = m1
  m2 = m2
  c1 = c1
  c2 = c2
  Nobody = Nobody
  Refresher = Refresher
  New = New
  NotPosted = NotPosted
  Probes <- OneProbe
  Sends <- TwoSends
  Conversations <- TwoConversations
  Given <- OneContinues
  ActivityRetries = 1
  GenerateRetries = 1
INVARIANTS TypeOK OneSessionAtATime AloneKeepsConversation
PROPERTIES LockComesFree
CHECK_DEADLOCK FALSE
