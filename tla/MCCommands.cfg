SPECIFICATION Spec
CONSTANTS
  Modules = {v1, v2}
  Pids = {p1, p2}
  NoPid = NoPid
  ReadSize = 2
  MaxOutput = 2
  PipeSize = 1
  MaxCommands = 2
  MaxStops = 1
  MaxReloads = 1
SYMMETRY Symmetry
INVARIANTS
  OutputsParsed
  ChildrenWatched
  OnlyCurrent
  ZombieAnnounced
