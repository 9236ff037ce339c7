SPECIFICATION ConfigSpec
CONSTANTS
  Keys = {"poll_interval", "cache", "max_size_mb"}
  Words = {"x/"}
  Numbers = {"", "40"}
  Written <- MCWritten
  Trimmed <- MCTrimmed
  IntMax = 128
  SizeMax = 512
  MiB = 3
  Files <- MCFiles
  MaxNodes = 4
  MaxItems = 1
  MaxDocs = 2
  NULL = NULL
INVARIANTS
  FirstEntryCounts
  TreeOwned
  SettingsFollow
