\* All entry points of the four maps, called by one thread, with paths at the
\* limit of the buffer for the index's name.  A lookup by name whose path is too
\* long keeps the mutex: the process can stop.
CONSTANTS
  alice = alice
  bob = bob
  lice = lice
  t1 = t1
  t2 = t2
  Names = {alice, bob}
  Ids = {1, 2}
  IdBits = 8
  Buflens = {1, 2}
  Contents <- MCBoth
  ReadRestores = FALSE
  None = None
  Paths = {"short", "long", "longest"}
  InitialContents <- MCInitial
  ClockSteps = {1}
  OverlapIndexer = FALSE
  IndexKinds = {}
  MaxTime = 0
  Threads = {t1}
  Maps = {"passwd", "group", "shadow", "gshadow"}
  ClientOps = {"setent", "endent", "getent", "getid", "getnam"}
  PathLen <- MCLong
  PathLimit = 255
  DefaultPath <- MCDefaults
  GroupMinBuf = 2
  MallocMayFail = FALSE
SPECIFICATION Spec
PROPERTIES LeavesLocked
CHECK_DEADLOCK FALSE
