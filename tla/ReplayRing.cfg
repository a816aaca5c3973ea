SPECIFICATION Spec
CONSTANTS
  d1 = d1
  d2 = d2
  v1 = v1
  v2 = v2
  h1 = h1
  h2 = h2
  Requests = {r1, r2}
  Devices = {d1}
  Seqs = {1, 2, 3}
  Flaws = {"none"}
  Keys = {}
  NoKey = NoKey
  Versions = {v1}
  Bases = {h1}
  Hmac <- PlainHmac
  RateLimit = 2
  RingSize = 2
  MaxSuffix = 1
  MaxRequests = 4
SYMMETRY Symmetry
INVARIANTS TypeOK RepeatsOnlyByOverlap MinuteBudget RememberedWasAccepted
CHECK_DEADLOCK FALSE
