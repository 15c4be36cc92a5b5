SPECIFICATION Spec
CONSTANTS
  NumCalls = 1
  Auth = TRUE
  Retries = 1
  Budget = 2
  Delay = 1
  Margin = 1
  Fallback = 2
  Lifetime = 2
  OverrunLimit = 0
  CancelLimit = 0
INVARIANT TypedFailures
