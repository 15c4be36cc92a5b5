SPECIFICATION FairSpec
CONSTANTS
  NumBars = 1
  MaxOutput = 5
  StrayLimit = 0
  ChatterLimit = 0
  CancelLimit = 0
  Faulty = FALSE
  Orphans = TRUE
PROPERTY EveryCallReturns
