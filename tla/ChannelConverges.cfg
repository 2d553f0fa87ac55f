SPECIFICATION FairSpec
CONSTANTS
  a = a
  b = b
  f = f
  u1 = u1
  u2 = u2
  NoUser = NoUser
  NoLeg = NoLeg
  Users = {u1, u2}
  Legs = {a, b}
  Owner <- PairOwner
  OtherLeg <- PairOther
  Direction <- PairDirection
  Originated = {b}
  Reordering = TRUE
  FailureKinds = {"link", "database"}
  MaxFailures = 1
  DirectoryChanges = FALSE
PROPERTIES EventuallyExact
