SPECIFICATION Spec
CONSTANTS
  Clients = {c1, c2, c3}
  MaxClients = 2
  MaxData = 1
  Handlers = {h1, h2, h3}
  NULL = NULL
SYMMETRY Symmetry
INVARIANTS
  WalkLive
  WellFormed
  ReadyIsFresh
