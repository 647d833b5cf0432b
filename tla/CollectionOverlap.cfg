SPECIFICATION Spec
CONSTANTS
  ta = ta
  ia = ia
  rp = rp
  op = op
  w1 = w1
  w2 = w2
  None = None
  Entity = {ta, ia, rp, op}
  Root = ta
  KNOWN_ENTITY_TYPES <- Types
  MAX_COLLECTION_DEPTH = 2
  Federations <- OneFederation
  Walker = {w1, w2}
  Filters <- AllFilters
  MaxWalks = 2
  MaxChanges = 0
  MaxDeaths = 0
  MaxReads = 0
INVARIANT LiveStaysComplete
