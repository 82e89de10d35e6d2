SPECIFICATION Spec
CONSTANTS
  Services = {s1, s2}
  Paths = {path}
  Buses = {session}
  Unset = Unset
  NoWatch = NoWatch
  NoProxy = NoProxy
  StopClears = TRUE
  Reentry <- StopInAppear
  MaxDepth = 2
INVARIANT WatchedUnlessDisconnected
