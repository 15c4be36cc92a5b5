SPECIFICATION FairSpec
CONSTANTS
  NumCalls = 2
  Auth = TRUE
  Retries = 1
  Budget = 2
  Delay = 1
  Margin = 1
  Fallback = 2
  Lifetime = 2
  OverrunLimit = 1
  CancelLimit = 1
INVARIANT TypeOK
INVARIANT LateByLastRequest
PROPERTY TokenOutlivesMargin
PROPERTY KeepsAtMostOnce
PROPERTY EveryCallEnds
