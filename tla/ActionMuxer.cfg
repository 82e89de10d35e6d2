SPECIFICATION Spec
CONSTANTS
  app = app
  quit = quit
  mode = mode
  i1 = i1
  i2 = i2
  i3 = i3
  v1 = v1
  tt = tt
  ff = ff
  Prefixes = {app}
  Names = {quit, mode}
  Items = {i1, i2, i3}
  ItemAction <- MCItemAction
  Values <- MCValues
  NoValue = NoValue
  TypeOf <- MCTypeOf
  NoType = NoType
  True = tt
  False = ff
  Target <- MCTarget
  Contents <- MCContents
  Absent = Absent
  NoGroup = NoGroup
  Idle = Idle
  NoItem = NoItem
INVARIANT TypeOK
INVARIANT ItemsShowActions
INVARIANT ActivationTyped
INVARIANT WatchersLive
PROPERTY RefinesMirror
