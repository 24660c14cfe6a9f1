\* One ordinary and one loopback address through every tier of the penalty and
\* beyond the memory of offences.
SPECIFICATION Spec
CONSTANTS
  IPs = {a, lo}
  NoIP = NoIP
  Loopback = {lo}
  AuditWindow = 1
  Capacity = 2
  BAN_TTL <- Ttls112
  OffenseWindow = 2
  HistoryCapacity = 1
  AuditVerdicts = {}
  CallerChecks = FALSE
  Faults = {}
  MaxTime = 7
  LastFlow = 6
  MaxAlerts = 4
  MaxOffenses = 4
  MaxRestarts = 0
INVARIANTS EscalationBounded BanIsAuditable
