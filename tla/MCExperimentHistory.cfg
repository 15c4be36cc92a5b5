SPECIFICATION Spec
CONSTANTS
  Generations = 3
  BatchSize = 2
  Budget = 5
  EliteCount = 2
  Rewards = {0, 1}
  Faulty = TRUE
  Seeds <- MCSeeds
INVARIANT TypeOK
INVARIANT BudgetIsExact
INVARIANT LedgerIsHistory
INVARIANT CompletedIsRecorded
INVARIANT LineageIsClosed
INVARIANT NoProgramTwice
INVARIANT ParentsAreBest
