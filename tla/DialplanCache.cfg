SPECIFICATION Spec
CONSTANTS
  a = a
  b = b
  x = x
  y = y
  z = z
  Names = {a, b}
  Contents = {x, y, z}
  Loaded <- MCLoaded
  Targets <- MCTargets
  Clears <- MCClears
  Dayless <- MCDayless
  MaxId = 6
  MaxRequests = 2
  NoName = NoName
INVARIANTS TypeOK MemoryIsDatabase OrderIsGiven FullXMLIsCurrent ContextsAreFound
CHECK_DEADLOCK FALSE
