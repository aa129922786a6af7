SPECIFICATION Spec
CONSTANTS
  Patterns <- SomePatterns
  Requested <- SomeTopics
  MaxTable = 2
INVARIANTS
  FoundByLevel
  FoundOnce
