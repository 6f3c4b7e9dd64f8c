\* Two threads enumerate one map and look names up in it while its file is
\* replaced and indexed, under fairness.
CONSTANTS
  alice = alice
  bob = bob
  lice = lice
  t1 = t1
  t2 = t2
  Names = {alice, bob, lice}
  Ids = {1, 2}
  IdBits = 8
  Buflens = {1}
  Contents <- MCEnumContents
  ReadRestores = FALSE
  None = None
  Paths = {"short"}
  InitialContents <- MCLarge
  ClockSteps = {1}
  OverlapIndexer = FALSE
  IndexKinds = {"name"}
  MaxTime = 1
  Threads = {t1, t2}
  Maps = {"passwd"}
  ClientOps = {"setent", "endent", "getent", "getnam"}
  PathLen <- MCShort
  PathLimit = 255
  DefaultPath <- MCDefault
  GroupMinBuf = 2
  MallocMayFail = FALSE
SPECIFICATION FairSpec
PROPERTIES ScanComplete LockReleased ImplementsDirectory
