SPECIFICATION SysSpec
CONSTANTS
  Names <- SomeNames
  Resources <- SomeResources
  Registrations <- SomeRegistrations
  Builtins <- SomeBuiltins
  MaxCopies = 1
  Ids = {"m", "d", "x", "n", "u", "e"}
  Topics <- SomeTopics
  Matches <- SomeMatches
  Ticks = {1}
  WaitMod = 4
  MaxSteps = 3
  Wants <- Leaving
  Registrar = "registration"
  RegisterTopics <- SomeRegisterTopics
  MayRepeat = TRUE
INVARIANTS
  ToldOkIsDone
