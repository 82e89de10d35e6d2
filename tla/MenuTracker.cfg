SPECIFICATION Spec
CONSTANTS
  R = R
  A = A
  B = B
  C = C
  D = D
  None = None
  p = p
  sA = sA
  sB = sB
  a = a
  sD = sD
  b = b
  sC = sC
  c = c
  d = d
  NoLink = None
  Models <- MCModels
  Root = R
  Entries <- MCEntries
  SectionOf <- MCSectionOf
  Labelled = {sA, sD}
  Namespace <- SectionNamespaces
  RootNamespace <- Indicator
  InitialMenu <- EmptyMenu
  Batches <- AnyOrder
  Height <- MCHeight
  MaxRemoved = 2
INVARIANT TypeOK
INVARIANT OrderlyRowsFlattenMenu
INVARIANT TreeMeasuresRows
INVARIANT TreeMirrorsMenu
INVARIANT NoNullItem
