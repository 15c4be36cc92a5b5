SPECIFICATION Spec
CONSTANTS
  Generations = 3
  BatchSize = 2
  Budget = 5
  EliteCount = 2
  Rewards = {0}
  Faulty = TRUE
  Seeds <- MCSeeds
INVARIANT EveryProposalRecorded
