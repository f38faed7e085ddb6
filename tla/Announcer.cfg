\* Two tickets of one day, which ends; both customers scan the one slip; one fault;
\* passes that take one ticket and one scan at a time.
SPECIFICATION FairSpec
CONSTANTS
  t1 = t1
  t2 = t2
  k1 = k1
  k2 = k2
  alice = alice
  brian = brian
  Ticket = {t1, t2}
  Code = {k1, k2}
  Day <- SameDay
  CodeOf <- TwoCodes
  Chat = {alice, brian}
  Nobody = Nobody
  Phones <- OneSlip
  CallLimit = 1
  TellLimit = 1
  LinkLimit = 1
  LastDay = 1
  MaxScan = 2
  MaxFault = 1
INVARIANT CalledOncePerFault
PROPERTIES FollowerKept ReadyIsCalled ScannerHears
