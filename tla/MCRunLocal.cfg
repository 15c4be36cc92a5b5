SPECIFICATION LocalSpec
CONSTANTS
  Runs = {r1, r2, r3}
  Experiments = {e1, e2}
  Trials = 2
  Exclusive = FALSE
  Tears = {"partial"}
  Paths = {p1}
  NoPath = NoPath
  Alone = 2
SYMMETRY Symmetry
INVARIANT LocalTypeOK
INVARIANT AloneReadable
INVARIANT AloneNoDuplicates
INVARIANT AloneOneRun
INVARIANT AckedIsDurable
INVARIANT SummaryTellsLedger
INVARIANT CompletedIsDurable
INVARIANT WorkIsSaved
PROPERTY AppendOnly
PROPERTY SummaryNeverReplaced
