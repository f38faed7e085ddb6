SPECIFICATION FairSpec
CONSTANTS
  t1 = t1
  Ticket = {t1}
  IssueDay <- OneTicket
  Staff = {s1}
  Agent = {a1}
  Stale = {a1}
  Call = {c1, c2}
  NoCall = NoCall
  Batch = 1
  Window = 2
  CatchUpDays = 1
  LastDay = 1
  MaxChange = 2
  MaxFault = 1
INVARIANTS BoardAheadIsBacked
PROPERTIES ShopKeepsLifecycle ProtectedUntilSettled AppliedNeverBounces PressSettles BoardConverges
