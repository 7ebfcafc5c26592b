SPECIFICATION MCSpec
CONSTANTS
  Entries <- AllEntries
  Clients = {"c"}
  Targets <- Sites
  Tags = {"p"}
  Addrs = {"a1", "a2"}
  Tables <- AllTables
  Capacity = 1
  MaxUpdates = 2
  MaxDatagrams = 2
  MaxEdits = 2
INVARIANTS
  NotWeaker
  NoOptionWeakens
  RoutesAsWritten
  FlowsFollowRoutes
\* A file is loaded once, and a router may come to rest.
CHECK_DEADLOCK FALSE
