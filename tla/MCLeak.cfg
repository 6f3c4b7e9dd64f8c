\* malloc fails in a lookup by name.  The process can stop.
CONSTANTS
  alice = alice
  bob = bob
  lice = lice
  t1 = t1
  t2 = t2
  Names = {alice, bob}
  Ids = {1, 2}
  IdBits = 8
  Buflens = {1, 2}
  Contents <- MCBoth
  ReadRestores = FALSE
  None = None
  Paths = {"short"}
  InitialContents <- MCBoth
  ClockSteps = {1}
  OverlapIndexer = FALSE
  IndexKinds = {}
  MaxTime = 0
  Threads = {t1, t2}
  Maps = {"passwd"}
  ClientOps = {"getnam", "endent"}
  PathLen <- MCShort
  PathLimit = 255
  DefaultPath <- MCDefault
  GroupMinBuf = 2
  MallocMayFail = TRUE
SPECIFICATION FairSpec
PROPERTIES LockReleased
CHECK_DEADLOCK FALSE
