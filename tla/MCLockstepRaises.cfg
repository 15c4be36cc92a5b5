SPECIFICATION Spec
CONSTANTS
  NumBars = 2
  MaxOutput = 5
  StrayLimit = 0
  ChatterLimit = 0
  CancelLimit = 0
  Faulty = TRUE
  Orphans = TRUE
INVARIANT TypedResults
