\* A block_ip between the two halves of unban_ip leaves a ban without a term.
SPECIFICATION Spec
CONSTANTS
  IPs = {a}
  NoIP = NoIP
  Loopback = {}
  AuditWindow = 1
  Capacity = 1
  BAN_TTL <- Ttls12
  OffenseWindow = 3
  HistoryCapacity = 1
  AuditVerdicts = {}
  CallerChecks = TRUE
  Faults = {}
  MaxTime = 5
  LastFlow = 4
  MaxAlerts = 2
  MaxOffenses = 2
  MaxRestarts = 0
INVARIANT NoOrphanBan
