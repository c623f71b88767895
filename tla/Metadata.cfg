SPECIFICATION Spec
CONSTANTS
  h1 = h1
  n1 = n1
  n2 = n2
  app = app
  core = core
  web = web
  side = side
  api = api
  c1 = c1
  c2 = c2
  c3 = c3
  a1 = a1
  a2 = a2
  a9 = a9
  rules1 = rules1
  none = none
  K = K
  k = k
  X = X
  x = x
  y = y
  Host = {h1}
  Network = {n1, n2}
  Stack = {app, core}
  Service = {web, side, api}
  Container = {c1, c2, c3}
  Address = {a1, a2, a9}
  Text = {K, k, X, x, y}
  Fold <- FoldCase
  Rules = {rules1}
  Absent = none
  MaxServices = 3
  MaxWorkloads = 2
  World <- Worlds
INVARIANTS
  TypeOK
  MergedViewsAgree
  RefusalIsDetermined
  SnapshotIsDetermined
  PolicyIsOfItsNetwork
  SnapshotIsWellFormed
  LinksMeetWorkloads
