SPECIFICATION FairSpec
CONSTANTS
  account = account
  group = group
  Accounts = {account, group}
  Owner = account
  Subs = {1}
  l1 = l1
  Listeners = {l1}
  n1 = n1
  n2 = n2
  Notes = {n1, n2}
  PushAttemptsMax = 2
  ThrottleAge = 1
  AttemptAge = 1
  RouterCap = 1
  PushCap = 2
  MaxSets = 2
INVARIANTS TypeOK InFlightIsBacked NothingIsLost RouterKnows 
CHECK_DEADLOCK FALSE
PROPERTY ChangesArePushedUnlessStalled
