SPECIFICATION LiveSpec
CONSTANTS
  Instances = {redis, memcached}
  Handlers = {h1, h2}
  MaxFd = 3
  Addresses = 2
  Chunk = 2
  MaxResponse = 3
  MaxPolls = 3
  NULL = NULL
INVARIANTS
  WellFormed
  DescriptorsAccounted
  MemoryAccounted
  ParsesWhatArrived
PROPERTIES
  ExchangesEnd
