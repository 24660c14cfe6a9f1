\* Four alerts of three addresses, two of them peers, in both stores and while
\* they are recorded; every statement and both writes may fail.
SPECIFICATION Spec
CONSTANTS
  a = a
  b = b
  c = c
  n1 = n1
  n2 = n2
  IPs = {a, b, c}
  Nets = {n1, n2}
  NetOf <- TwoNets
  AnyIP = AnyIP
  NoTool = NoTool
  MaxLines = 3
  FlowLines = 2
  Faults = {"db_write", "log_write", "db_read", "log_read"}
  MaxAlerts = 4
  MaxOld = 1
SYMMETRY Peers
INVARIANTS TypeOK NothingInvented NothingMissed CountedIsListed
