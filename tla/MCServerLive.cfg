SPECIFICATION LiveSpec
CONSTANTS
  Clients = {c1, c2}
  MaxClients = 1
  MaxData = 2
  Handlers = {h1, h2}
  NULL = NULL
INVARIANTS
  StoredWhole
PROPERTIES
  ListsTaken
