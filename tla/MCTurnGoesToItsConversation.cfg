\* Two sends: the conversations they are posted to.
SPECIFICATION Spec
CONSTANTS
  p1 = p1
  m1 = m1
  m2 = m2
  c1 = c1
  c2 = c2
  Nobody = Nobody
  Refresher = Refresher
  New = New
  NotPosted = NotPosted
  Probes <- NoProbe
  Sends <- TwoSends
  Conversations <- TwoConversations
  Given <- OneContinues
  ActivityRetries = 1
  GenerateRetries = 1
INVARIANTS TurnGoesToItsConversation
CHECK_DEADLOCK FALSE
