SPECIFICATION Spec
CONSTANTS
  Runs = {r1, r2}
  Experiments = {e1, e2}
  Trials = 2
  Exclusive = FALSE
  Tears = {}
INVARIANT NoDuplicates
