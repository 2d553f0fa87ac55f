SPECIFICATION FairSpec
CONSTANTS
  N = 1
  BatchSize = 1
  Workers = {w1, w2}
  NoCall = NoCall
  MaxFailures = 0
PROPERTIES EventuallyServed
