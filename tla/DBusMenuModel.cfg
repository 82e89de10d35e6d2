SPECIFICATION ModelSpec
CONSTANTS
  s1 = s1
  s2 = s2
  path = path
  R = R
  Q = Q
  A = A
  B = B
  C = C
  p1 = p1
  eA = eA
  eB = eB
  eC = eC
  c = c
  Services = {s1, s2}
  Paths = {path}
  Buses = {session}
  Unset = Unset
  NoWatch = NoWatch
  NoProxy = NoProxy
  StopClears = TRUE
  Reentry <- TameReentry
  MaxDepth = 3
  Models <- MCModels
  NoModel = NoModel
  Entries <- MCEntries
  LinkOf <- MCLinkOf
  InitialMenu <- EmptyMenu
  Batches <- MCBatches
  MenuOf <- MCMenuOf
  NoOp = NoOp
  MaxItems = 3
INVARIANT ModelTypeOK
INVARIANT WatchedUnlessDisconnected
INVARIANT WatchOnSettings
INVARIANT ConnectedUsesService
INVARIANT VanishedUnused
INVARIANT RowsShowEntries
INVARIANT TidyTreeMirrorsMenu
INVARIANT IndexesNavigate
