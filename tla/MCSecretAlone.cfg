SPECIFICATION Spec
CONSTANTS
  cli1 = cli1
  cli2 = cli2
  s1 = s1
  s2 = s2
  old = old
  new = new
  Torn = Torn
  NoSecret = NoSecret
  Procs <- OneProcess
  MaxCmds <- Four
  Names <- PlainNames
  Keys <- SomeKeys
  EnvKey <- KeyOf
  Imported <- NameOf
  Values <- TwoValues
  Passwords <- TwoPasswords
  LegacyEnv <- TwoLines
  Inodes = 8
INVARIANTS
  TypeOK
  StoreIsExact
PROPERTY
  StaysServed
CHECK_DEADLOCK FALSE
