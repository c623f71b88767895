SPECIFICATION Spec
CONSTANTS
  h1 = h1
  h2 = h2
  app = app
  core = core
  web = web
  side = side
  api = api
  w1 = w1
  w2 = w2
  w3 = w3
  w4 = w4
  A = A
  B = B
  K = K
  a = a
  b = b
  k = k
  z = z
  none = none
  Text <- Texts
  Fold <- FoldCase
  Rank <- Ascii
  Value = {a, b}
  MaxLength = 20
  MaxClauses = 2
  Absent = none
  FieldOf <- KeyFields
  MaxInputBytes = 2
  Input <- Inputs
  MaxStacks = 2
  MaxServices = 3
  MaxWorkloads = 4
  MaxRules = 2
  MaxPort = 65535
CHECK_DEADLOCK FALSE
INVARIANTS
  TypeOK
  NothingIsDropped
  SelectorMeansItsClauses
  CanonicalIsStable
  RootsAreIdempotent
  LabelsAreUnambiguous
  CountsAreCardinalities
