SPECIFICATION GroupSpec
CONSTANTS
  any = any
  switch = switch
  s1 = s1
  s2 = s2
  path = path
  Null = Null
  NoState = Null
  Absent = Absent
  NoAction = NoAction
  NoGroup = NoGroup
  AskInVanish = FALSE
  Names = {any, switch}
  Exports <- MCExports
  GType <- TypeOf
  QType <- TypeOf
  ToQVariant <- toQVariant
  Convert <- QConvert
  ToGVariant <- toGVariant
  ToGVariantWithSchema <- toGVariantWithSchema
  Fits <- MCFits
  Echoed <- MCEchoed
  Returned <- MCReturned
  Settled <- MCSettled
  Inputs <- MCInputs
  Services = {s1, s2}
  Paths = {path}
  Buses = {session}
  Unset = Unset
  NoWatch = NoWatch
  NoProxy = NoProxy
  Reentry <- TameReentry
  MaxDepth = 2
INVARIANT GroupTypeOK
INVARIANT ValidIsLinked
INVARIANT StateIsCurrent
INVARIANT VanishedActionsInvalid
INVARIANT RequestTyped
INVARIANT StateEcho
 
INVARIANT SchemaEcho
