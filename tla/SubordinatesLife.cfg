SPECIFICATION FairSpec
CONSTANTS
  e1 = e1
  e2 = e2
  w1 = w1
  w2 = w2
  k1 = k1
  k2 = k2
  f1 = f1
  f2 = f2
  rp = rp
  None = None
  Entity = {e1, e2}
  Key = {k1, k2}
  Forced = {f1, f2}
  Class = {rp}
  Worker = {w1, w2}
  Requests <- PairRequests
  Configurations <- Publishing
  Federations <- Pair
  MaxRequests = 2
  MaxFailures = 1
  MaxChanges = 1
INVARIANT TypeOK
INVARIANT OnlyRegisteredServed
INVARIANT StatementMatchesRow
INVARIANT FetchableIsListed
INVARIANT InactiveAudited
PROPERTY StatementCatchesUp
