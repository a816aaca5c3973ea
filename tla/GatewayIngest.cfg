SPECIFICATION Spec
CONSTANTS
  d1 = d1
  d2 = d2
  v1 = v1
  v2 = v2
  h1 = h1
  h2 = h2
  Requests = {r1, r2}
  Devices = {d1, d2}
  Seqs = {1}
  Flaws = {"none", "refused", "unsanitary"}
  Keys = {k1}
  NoKey = NoKey
  Versions = {v1, v2}
  Bases = {h1, h2}
  Hmac <- CollidingHmac
  RateLimit = 2
  RingSize = 2
  MaxSuffix = 3
  MaxRequests = 3
SYMMETRY Symmetry
INVARIANTS OneNamePerDevice StoredAcceptIsTrue
PROPERTIES ImplementsRegistry AnswersReplacedOnlyByOverlap
           ShutOutOnlyByBreakOff
CHECK_DEADLOCK FALSE
