SPECIFICATION FairSpec
CONSTANTS
  N = 2
  BatchSize = 2
  Workers = {w1, w2}
  NoCall = NoCall
  MaxFailures = 2
INVARIANTS TypeOK
PROPERTIES RecordingsAreDurable EventuallyStored
