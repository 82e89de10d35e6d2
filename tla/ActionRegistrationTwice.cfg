SPECIFICATION Spec
CONSTANTS
  Actions = {a1}
  Models = {m1, m2}
  NoModel = NoModel
  Names = {x}
  NoName = NoName
  Namespaces = {ns}
  Bare = Bare
  Values = {on, off}
  Absent = Absent
  Unregistered = Unregistered
  MaxIndex = 0
  MaxConnections = 2
INVARIANT ActivatesOnce
