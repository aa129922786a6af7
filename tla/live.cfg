SPECIFICATION FairSpec
CONSTANTS
  Names <- ChainNames
  Resources <- ChainResources
  Registrations <- CycleRegistrations
  Builtins <- NoBuiltins
  MaxCopies = 1
  Ids = {i1, i2}
  Topics <- ChainTopics
  Matches <- ChainMatches
  Ticks = {1}
  WaitMod = 8
  MaxSteps = 3
PROPERTIES
  SessionsEnd
  HandlerReturns
