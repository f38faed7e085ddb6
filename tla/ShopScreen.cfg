\* Two overlapping polls, answers of one number at most, two days, one fault.
SPECIFICATION FairSpec
CONSTANTS
  t1 = t1
  t2 = t2
  t3 = t3
  Ticket = {t1, t2, t3}
  DayOf <- Days
  CodeOf <- Slips
  Poll = {q1, q2}
  Cap = 1
  LastDay = 1
  MaxFault = 1
PROPERTIES ReadyIsCalled
CHECK_DEADLOCK FALSE
