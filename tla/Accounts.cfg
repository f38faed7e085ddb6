\* An admin on the Staff page, a second person who may become one, a customer; three
\* requests of several statements, two of them in hand at once; one statement or
\* answer lost.
SPECIFICATION AccountsSpec
CONSTANTS
  Person = {a, b}
  Bootstrap = {a}
  Visitor = {v}
  Pin = {n1, n2, n3}
  Call = {c1, c2}
  NoPin = NoPin
  NoOne = NoOne
  MaxRequest = 3
  MaxLink = 2
  MaxMishap = 1
SYMMETRY Symmetry
INVARIANTS LockoutNeedsStaleAdmin DeadSlipNeedsOverlap LinksDie
CHECK_DEADLOCK FALSE
