SPECIFICATION Spec
CONSTANTS
  a = a
  b = b
  f = f
  u1 = u1
  u2 = u2
  NoUser = NoUser
  NoLeg = NoLeg
  Users = {u1}
  Legs = {a, b}
  Owner <- TrunkOwner
  OtherLeg <- PairOther
  Direction <- PairDirection
  Originated = {b}
  Reordering = TRUE
  FailureKinds = {"link"}
  MaxFailures = 1
  DirectoryChanges = TRUE
INVARIANTS CallsMatchChannels ClientsCurrent
