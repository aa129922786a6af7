SPECIFICATION FairSpec
CONSTANTS
  Retries <- SomeRetries
  MaxAttempts = 4
INVARIANTS
  GivesUpInTime
PROPERTIES
  QuitEnds
  ComesBack
  DumpServed
