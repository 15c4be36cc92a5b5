SPECIFICATION FairSpec
CONSTANTS
  NumBars = 2
  MaxOutput = 4
  StrayLimit = 1
  ChatterLimit = 1
  CancelLimit = 1
  Faulty = TRUE
  Orphans = TRUE
INVARIANT TypeOK
INVARIANT CandidateNotAhead
INVARIANT CompletedIsWhole
INVARIANT NoLauncherLeft
INVARIANT HonestNeverBlamed
PROPERTY KeepsPromise
PROPERTY KeepsCall
PROPERTY ReturnsOrKills
