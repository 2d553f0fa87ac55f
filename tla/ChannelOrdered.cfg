SPECIFICATION Spec
CONSTANTS
  a = a
  b = b
  f = f
  u1 = u1
  u2 = u2
  NoUser = NoUser
  NoLeg = NoLeg
  Users = {u1, u2}
  Legs = {a, b, f}
  Owner <- ForkOwner
  OtherLeg <- ForkOther
  Direction <- ForkDirection
  Originated = {b, f}
  Reordering = FALSE
  FailureKinds = {}
  MaxFailures = 0
  DirectoryChanges = FALSE
INVARIANTS TypeOK CallsMatchChannels ClientsCurrent InOrderAccuracy
