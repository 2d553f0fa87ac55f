SPECIFICATION FairSpec
CONSTANTS
  Publishers = {handler, upload}
  EventIds = {e, f}
  None = None
  QueueSize = 1
  EventDedupeTTL = 1
  MaxTime = 1
  MaxAccepted = 3
  MaxRestarts = 1
INVARIANTS TypeOK NoRepeatWithinTTL PublishersKeepOrder
PROPERTIES RefusalsAreJustified KeepsWebhookPromise EventuallySettled
CHECK_DEADLOCK FALSE
