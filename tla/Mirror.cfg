\* The agent and the nightly task over three days, the first of two chunks, one fault.
SPECIFICATION FairSpec
CONSTANTS
  Runner = {agent, nightly}
  Pausable = {agent}
  Call = {c1, c2}
  Nobody = Nobody
  Chunk = {1, 2}
  Busy = {1}
  Span = 2
  PauseEvery = 1
  LastDay = 3
  MaxFault = 1
INVARIANTS KeyedComplete DatedExactUnlessExposed
PROPERTY CatchesUp
CHECK_DEADLOCK FALSE
