\* A map with room for one of two addresses, a map and a storage that fail, late
\* verdicts and a restart.
SPECIFICATION FairSpec
CONSTANTS
  IPs = {a, b}
  NoIP = NoIP
  Loopback = {}
  AuditWindow = 1
  Capacity = 1
  BAN_TTL <- Ttls12
  OffenseWindow = 2
  HistoryCapacity = 1
  AuditVerdicts = {"unblock"}
  CallerChecks = TRUE
  Faults = {"map_lookup", "map_update", "map_delete", "db_read", "db_write"}
  MaxTime = 3
  LastFlow = 2
  MaxAlerts = 2
  MaxOffenses = 1
  MaxRestarts = 1
PROPERTIES RegistryDrains VerdictHandled
