\* Two requests at once, two orders, two presses of Cancel or Process, two
\* runs of the agent, one fault.
SPECIFICATION Spec
CONSTANTS
  Request = {r1, r2}
  Agent = {a1, a2}
  Basket <- Baskets
  OnHand = 1
  Window = 2
  MaxOrder = 2
  MaxPress = 2
  MaxFault = 1
INVARIANTS SyncedMeansWritten ShelfMatchesOrders SecondReceiptsCostFaults
CHECK_DEADLOCK FALSE
