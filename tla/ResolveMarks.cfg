SPECIFICATION Spec
CONSTANTS
  q1 = q1
  q2 = q2
  ta = ta
  x = x
  y = y
  o = o
  s = s
  A = A
  B = B
  k1 = k1
  k2 = k2
  kta = kta
  None = None
  Invalid = Invalid
  Request = {q1, q2}
  Entity = {ta, x, y, o}
  TA = ta
  Subject = s
  Type = {A, B}
  Key = {k1, k2}
  OwnKeys = {kta}
  Mark <- Marks
  MayLapse <- Lapsing
  Federations <- AllFederations
  FETCH_MAX_RETRIES = 1
  MAX_TRUST_MARKS = 2
  BUDGET = 2
  TTL = 3
INVARIANT TypeOK
INVARIANT KeysAreRecent
PROPERTY AnswersQualify
PROPERTY FailureIsContained
