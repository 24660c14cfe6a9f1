\* Every way through start-up, loop and end of three processes.
SPECIFICATION Spec
CONSTANTS
  out = out  cdn = cdn  cloud = cloud  meta = meta  six = six  host = host  lo = lo  lo2 = lo2
  cdnNet = cdnNet  cloudNet = cloudNet  metaNet = metaNet  junk = junk
  fastly = fastly  goog = goog
  IPs = {out, cdn, cloud, meta, six, host, lo, lo2}
  V6 = {six}
  Loopback = {lo, lo2}
  Localhost = lo
  Host = {host}
  OnLoopback = FALSE
  Prefixes = {cdnNet, cloudNet, metaNet, junk}
  Malformed = {junk}
  Covers <- Networks
  Downloads = {fastly, goog}
  Listed <- Lists
  Fallback <- Fallbacks
  Static = {metaNet}
  TrieSize = 3
  MaxLives = 3
INVARIANTS TypeOK BannedIsDropped DropsAreOwned EssentialsPass
CHECK_DEADLOCK FALSE
