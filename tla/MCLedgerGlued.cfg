SPECIFICATION Spec
CONSTANTS
  Runs = {r1, r2}
  Experiments = {e1, e2}
  Trials = 2
  Exclusive = TRUE
  Tears = {"partial", "noNewline"}
INVARIANT AckedIsReadable
