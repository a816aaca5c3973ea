CONSTANTS
  Taps = {t1}
  MaxLogins = 2
  MaxRestarts = 2
SPECIFICATION FairSpec
INVARIANTS
  TypeOK
  OthersRevokedOnlyThroughJar
PROPERTIES
  PendingIsDrained
  QueuedLogoutReachesServer
