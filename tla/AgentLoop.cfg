\* Two loops, two deploys, two faults.
SPECIFICATION FairLoopSpec
CONSTANTS
  Loop = {l1, l2}
  MaxDeploy = 2
  MaxMishap = 2
INVARIANTS TwoAgentsNeedRaceOrKill RunsWithItsModules
PROPERTY UpdatesArrive
CHECK_DEADLOCK FALSE
