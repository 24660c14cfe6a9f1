\* An alert recorded while its address is being unbanned loses its request.
SPECIFICATION Spec
CONSTANTS
  IPs = {a}
  NoIP = NoIP
  Loopback = {}
  AuditWindow = 1
  Capacity = 1
  BAN_TTL <- Ttls13
  OffenseWindow = 3
  HistoryCapacity = 1
  AuditVerdicts = {"keep", "unblock"}
  CallerChecks = TRUE
  Faults = {}
  MaxTime = 5
  LastFlow = 4
  MaxAlerts = 2
  MaxOffenses = 2
  MaxRestarts = 0
INVARIANT NoRequestLost
