SPECIFICATION FairSpec
CONSTANTS
  Conns = {c, d}
  Registrars = {r}
  None = None
  QueueSize = 2
  BusSize = 1
  MaxInputs = 4
INVARIANTS TypeOK NothingIsMissed EventsInOrder AnswersAreNotOlder NoneOutlivesShutdown
PROPERTIES HandlersAreFreed
CHECK_DEADLOCK FALSE
