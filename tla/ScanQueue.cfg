SPECIFICATION FairSpec
CONSTANTS
  Pods = {p1, p2}
  Refs = {r1}
  Digests = {d1, d2}
  NoDigest = NoDigest
  NoRequest = NoRequest
  Workers = {w1, w2}
  FirstRegistry <- AllOnFirst
  MaxAttempts = 2
  MaxFaults = 1
INVARIANT ScanQueueSound
PROPERTIES LiveImageScanned
CHECK_DEADLOCK FALSE
