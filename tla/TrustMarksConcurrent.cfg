SPECIFICATION Spec
CONSTANTS
  w1 = w1
  w2 = w2
  t1 = t1
  d1 = d1
  t2 = t2
  gold = gold
  None = None
  Revoked = Revoked
  Type = {t1}
  Domain = {d1}
  Claim = {gold}
  Worker = {w1, w2}
  Requests <- AllRequests
  InitialTypes <- Types
  MaxRequests = 3
  MaxFailures = 1
  MaxTime = 1
SYMMETRY Symmetry
INVARIANT TypeOK
INVARIANT KnownMarkHasEntry
INVARIANT StoredMarkKnown
INVARIANT ExpiryMatchesMark
INVARIANT OneCreatorPerMark
INVARIANT ServedKnownOrInFlight
INVARIANT StoredMarkAudited
INVARIANT StoredMarkServed
INVARIANT InactiveTypesAudited
PROPERTY RevokedUntilReissued
PROPERTY RegistrySpec
