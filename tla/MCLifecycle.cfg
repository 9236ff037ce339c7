SPECIFICATION Spec
CONSTANTS
  Configs <- MCConfigs
  Passwords = {"p1", "p2"}
  Ids = {"", "i1", "i2"}
  Removable = {"pid1"}
  MaxReloads = 2
  NULL = NULL
INVARIANTS
  CodeLoaded
  PasswordsOwn
  HostIdUsed
  
