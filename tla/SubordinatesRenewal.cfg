SPECIFICATION Spec
CONSTANTS
  e1 = e1
  e2 = e2
  w1 = w1
  w2 = w2
  k1 = k1
  k2 = k2
  f1 = f1
  f2 = f2
  rp = rp
  None = None
  Entity = {e1}
  Key = {k1, k2}
  Forced = {f1, f2}
  Class = {rp}
  Worker = {w1, w2}
  Requests <- AllRequests
  Configurations <- Publishing
  Federations <- Alone
  MaxRequests = 3
  MaxFailures = 0
  MaxChanges = 0
PROPERTY RenewsOnlyActive
