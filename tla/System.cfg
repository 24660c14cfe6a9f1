\* Both processes on one table: an address and a loopback address, which is banned
\* again and again, with late writes, failing calls and a restart of either.
SPECIFICATION SysSpec
CONSTANTS
  IPs = {a, lo}
  NoIP = NoIP
  Loopback = {lo}
  AuditWindow = 1
  Capacity = 2
  BAN_TTL <- Ttls13
  OffenseWindow = 2
  HistoryCapacity = 2
  AuditVerdicts = {"keep", "unblock"}
  CallerChecks = FALSE
  Faults = {"db_read", "map_update", "map_delete"}
  MaxTime = 2
  LastFlow = 2
  MaxAlerts = 2
  MaxOffenses = 2
  MaxRestarts = 1
  Signatures = {s}
  SigOf <- OneSignature
  Limit = 2
  SigTTL = 1
  KeyTTL = 2
  KeysHaveAdd = TRUE
  AuditorFaults = {"llm", "db_write"}
  LastFault = 1
  MaxAuditorRestarts = 1
INVARIANTS TypeOK RegistryEnforced
PROPERTIES NoEarlyLift TableContract BanContract EnforcerServed AuditorServed EarlyLiftsJudged
