SPECIFICATION Spec
CONSTANTS
  Uuids = {c1, c2, c3}
  NoUuid = NoUuid
  Times = {0, 1, 2}
INVARIANTS TypeOK SelectionIsRight DirectionIsExplained
