SPECIFICATION DependencySpec
CONSTANTS
  Names <- LevelNames
  Resources <- LevelResources
  Registrations <- LevelRegistrations
  Builtins <- LevelBuiltins
  MaxCopies = 1
  Ids = {i1, i2}
  Topics <- LevelTopics
  Matches <- LevelMatches
  Ticks = {1}
  WaitMod = 4
  MaxSteps = 5
SYMMETRY Symmetry
INVARIANTS
  DependencyHeld
  LockDiscipline
  LookupIsClosure
PROPERTIES
  ImplementsLockService
  LocksAsAnnounced
