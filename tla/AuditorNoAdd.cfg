\* AUDIT_KEYS is a TTLCache, which has no method add.
SPECIFICATION FairSpec
CONSTANTS
  IPs = {a, b}
  Ttls = {1}
  Signatures = {s}
  SigOf <- OneSignature
  AuditWindow = 1
  Limit = 2
  SigTTL = 2
  KeyTTL = 3
  KeysHaveAdd = FALSE
  Faults = {}
  MaxTime = 3
  LastAlert = 3
  LastFault = 0
  MaxAlerts = 2
  MaxRestarts = 0
PROPERTY EveryAlertAudited
