\* Refresh: two days and a sale with an old agent's push, or three and two without one;
\* two presses, a fault.  Pages: two lists or forms in turn, three questions, two entries
\* sent twice.  Three sales, two uploads; one slip.
SPECIFICATION DashboardSpec
CONSTANTS
  Post = {k1, k2}
  NoPost = NoPost
  LastDay = 2
  MaxMove = 2
  MaxAsk = 2
  MaxOld = 1
  MaxFault = 1
  MaxQuestion = 3
  MaxOpen = 2
  MaxEntry = 2
  MaxSend = 2
  MaxBroken = 1
  MaxSale = 3
  MaxPrint = 2
  MaxRun = 2
  MaxMark = 3
  MaxSlip = 1
INVARIANTS StockOffByRereads RefreshedAfterPress ShownIsLastAsked RecordedTwiceNeedsBreak LoopsTellTheirOwn
SYMMETRY Sym
CHECK_DEADLOCK FALSE
