\* One sale, two presses of Refresh, nothing that fails.
SPECIFICATION Spec
CONSTANTS
  Post = {k1}
  NoPost = NoPost
  LastDay = 0
  MaxMove = 1
  MaxAsk = 2
  MaxOld = 0
  MaxFault = 0
INVARIANT CacheIsTheLedger
CHECK_DEADLOCK FALSE
