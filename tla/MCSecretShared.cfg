SPECIFICATION Spec
CONSTANTS
  cli1 = cli1
  cli2 = cli2
  s1 = s1
  s2 = s2
  old = old
  new = new
  Torn = Torn
  NoSecret = NoSecret
  Procs <- TwoProcesses
  MaxCmds <- Two
  Names <- PlainNames
  Keys <- SomeKeys
  EnvKey <- KeyOf
  Imported <- NameOf
  Values <- OneValue
  Passwords <- TwoPasswords
  LegacyEnv <- NoEnv
  Inodes = 4
INVARIANT
  StoreIsExact
CHECK_DEADLOCK FALSE
