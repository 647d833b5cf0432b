SPECIFICATION Spec
CONSTANTS
  s = s
  i1 = i1
  i2 = i2
  i3 = i3
  ta = ta
  v1 = v1
  v2 = v2
  k1 = k1
  k2 = k2
  None = None
  Invalid = Invalid
  Entity = {s, i1, i2, i3, ta}
  Subject = s
  TrustAnchors = {ta}
  MAX_RESOLVE_DEPTH = 2
  FETCH_MAX_RETRIES = 2
  Key = {k1, k2}
  Value = {v1, v2}
  Federations <- RolloverFederations
  MaxFailures = 0
INVARIANT ChainVerifies
