SPECIFICATION FairSpec
CONSTANTS
  Names <- ChainNames
  Resources <- ChainResources
  Registrations <- ViewHookRegistrations
  Builtins <- NoBuiltins
  MaxCopies = 1
  Ids = {i1}
  Topics <- ChainTopics
  Matches <- ChainMatches
  Ticks = {1}
  WaitMod = 4
  MaxSteps = 3
PROPERTIES
  SessionsEnd
