\* Three changes of any kind, two handed out per poll, two faults.  Of three payments
\* of two against a bill of three, with a slack of one, the second is posted and the
\* third refused.
SPECIFICATION FairSpec
CONSTANTS
  Kinds = {"adjustment", "document", "payment", "print", "backup", "command", "update", "mirror", "unknown"}
  Amount = {2}
  Bill = 3
  Slack = 1
  Window = 2
  MaxChange = 3
  MaxFault = 2
  MaxRelease = 1
INVARIANTS AppliedIsWhole RepeatsCostFaults NeverOverpaid
PROPERTY SettlesUnlessStuck
CHECK_DEADLOCK FALSE
