SPECIFICATION Spec
CONSTANTS
  cli1 = cli1
  cli2 = cli2
  s1 = s1
  s2 = s2
  old = old
  new = new
  Torn = Torn
  NoSecret = NoSecret
  Procs <- OneProcess
  MaxCmds <- Two
  Names <- MixedNames
  Keys <- EdgeKey
  EnvKey <- KeyOf
  Imported <- NameOf
  Values <- OneValue
  Passwords <- TwoPasswords
  LegacyEnv <- OneLine
  Inodes = 4
PROPERTY
  StaysServed
CHECK_DEADLOCK FALSE
