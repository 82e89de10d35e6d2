SPECIFICATION Spec
CONSTANTS
  R = R
  Q = Q
  A = A
  B = B
  C = C
  p1 = p1
  p2 = p2
  eA = eA
  eB = eB
  eC = eC
  c = c
  Models <- MCModels
  NoModel = NoModel
  Entries <- MCEntries
  LinkOf <- MCLinkOf
  Roots = {R, Q}
  InitialMenu <- EmptyMenu
  Batches <- MCBatches
  NoOp = NoOp
  MaxItems = 4
INVARIANT ChangesAnnounced
