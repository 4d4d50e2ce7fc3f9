SPECIFICATION Spec
CONSTANTS
  api = api
  worker = worker
  cli = cli
  Daemons = {api, worker}
  Workers = {worker}
  Commands = {cli}
  Newest = 3
  Knows <- MCKnows
  Pings = 2
  MaxFaults = 2
INVARIANTS
  TypeOK
  SchemaIsPrefix
  ServesFullSchema
  RaceHasWinner
PROPERTIES
  EventuallyServes
CHECK_DEADLOCK FALSE
