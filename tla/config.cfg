SPECIFICATION ConfigSpec
CONSTANTS
  IniKeys <- AllKeys
  Hash <- SomeHash
  Null = Null
  INI_MINSIZE = 2
  Files <- SomeFiles
  Garbage = {"?", "global"}
  Texts <- AllTexts
  atoi <- Number
  strlen <- Length
  Options <- SomeOptions
  Defaults <- SomeDefaults
  IpLen = 10
  IdLen = 5
  MaxArgs = 2
INVARIANTS
  StoreOK
  NothingLeaks
  LastLineWins
  SettingsFromSource
  StartsValid
PROPERTIES
  ImplementsMap
