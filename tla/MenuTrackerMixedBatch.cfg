SPECIFICATION Spec
CONSTANTS
  R = R
  A = A
  B = B
  C = C
  D = D
  None = None
  p = p
  sA = sA
  sB = sB
  a = a
  sD = sD
  b = b
  sC = sC
  c = c
  d = d
  NoLink = None
  Models <- MCModels
  Root = R
  Entries <- MCEntries
  SectionOf <- MCSectionOf
  Labelled = {}
  Namespace <- NoNamespaces
  RootNamespace <- Unset
  InitialMenu <- EmptyMenu
  Batches <- AnyOrder
  Height <- MCHeight
  MaxRemoved = 2
INVARIANT RowsFlattenMenu
