SPECIFICATION SysFairSpec
CONSTANTS
  Names <- SomeNames
  Resources <- SomeResources
  Registrations <- SomeRegistrations
  Builtins <- SomeBuiltins
  MaxCopies = 1
  Ids = {"m", "h", "w", "d"}
  Topics <- SomeTopics
  Matches <- SomeMatches
  Ticks = {1}
  WaitMod = 4
  MaxSteps = 3
  Wants <- Writing
  Registrar = "registration"
  RegisterTopics <- SomeRegisterTopics
  MayRepeat = FALSE
INVARIANTS
  AnsweredOnce
PROPERTIES
  OkMeansServed
  EveryoneAnswered
  ImplementsController
