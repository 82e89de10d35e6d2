SPECIFICATION Spec
CONSTANTS
  p = p
  x = x
  y = y
  BusNames = {n1, n2}
  NoName = NoName
  Owners = {o1, o2}
  NoOwner = NoOwner
  Paths = {x, y}
  NoPath = NoPath
  Prefixes = {p}
  ActionMaps <- MCActionMaps
  None = None
  Reentry <- MCReentry
  MaxItems = 1
  MaxPending = 14
SYMMETRY NamesAndOwners
INVARIANTS TypeOK RowsTracked MenuCurrent PrefixesCurrent OwnerWatched
