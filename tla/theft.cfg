SPECIFICATION Spec
CONSTANTS
  Names <- SharedNames
  Resources <- SharedResources
  Registrations <- SharedRegistrations
  Builtins <- NoBuiltins
  MaxCopies = 1
  Ids = {i1, i2}
  Topics <- SharedTopics
  Matches <- SharedMatches
  Ticks = {1}
  WaitMod = 16
  MaxSteps = 5
SYMMETRY Symmetry
INVARIANTS
  DependencyHeld
