\* Two requests at once, two tries per lock, three presses with a wrong PIN, two
\* agents that pull at once, one lost request, answer or statement.
SPECIFICATION FairSpec
CONSTANTS
  Press = {p1, p2}
  Agent = {a1, a2}
  Nobody = Nobody
  MaxFails = 2
  MaxWant = 1
  MaxGuess = 3
  MaxIssue = 1
  MaxFault = 1
INVARIANTS ComparesPerLock OpenShiftsCostFaults
PROPERTIES ClocksInTheEnd CopyCatchesUp
CHECK_DEADLOCK FALSE
