SPECIFICATION LossySpec
CONSTANTS
  w1 = w1
  w2 = w2
  t1 = t1
  d1 = d1
  t2 = t2
  gold = gold
  None = None
  Revoked = Revoked
  Type = {t1, t2}
  Domain = {d1}
  Claim = {gold}
  Worker = {w1}
  Requests <- LossRequests
  InitialTypes <- Types
  MaxRequests = 4
  MaxFailures = 0
  MaxTime = 1
INVARIANT MembersHoldMarks
INVARIANT ReloadRestoresRecord
