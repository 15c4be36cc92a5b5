SPECIFICATION FairSpec
CONSTANTS
  Executors = {"cloud", "container"}
  CleanupAttempts = 3
  CancelLimit = 3
  Faulty = TRUE
INVARIANT TypeOK
INVARIANT SandboxLeftOnlyIf
INVARIANT FileOutlivesLauncher
PROPERTY DeleteEnds
