SPECIFICATION Spec
CONSTANTS
  Keys = {a, b}
  NoData = NoData
  Responses <- AllData
  Chains <- SomeChains
INVARIANTS
  TypeOK
  NothingLost
  NewestWins
