\* Alerts of one address, one more than a round reads; failing inquiries and
\* writes, a restart.
SPECIFICATION FairSpec
CONSTANTS
  IPs = {a}
  Ttls = {1}
  Signatures = {s}
  SigOf <- OneSignature
  AuditWindow = 1
  Limit = 2
  SigTTL = 2
  KeyTTL = 3
  KeysHaveAdd = TRUE
  Faults = {"llm", "db_write"}
  MaxTime = 4
  LastAlert = 2
  LastFault = 1
  MaxAlerts = 3
  MaxRestarts = 1
INVARIANT TypeOK
PROPERTIES InheritanceBounded AskedOncePerClaim TableContract EveryAlertSettled
