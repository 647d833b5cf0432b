SPECIFICATION FairSpec
CONSTANTS
  ta = ta
  ia = ia
  rp = rp
  op = op
  w1 = w1
  w2 = w2
  None = None
  Entity = {ta, ia, rp, op}
  Root = ta
  KNOWN_ENTITY_TYPES <- Types
  MAX_COLLECTION_DEPTH = 2
  Federations <- AllFederations
  Walker = {w1}
  Filters <- AllFilters
  MaxWalks = 2
  MaxChanges = 2
  MaxDeaths = 1
  MaxReads = 1
INVARIANT TypeOK
INVARIANT UndisturbedAnswer
PROPERTY PublishedComplete
PROPERTY WalkEnds
