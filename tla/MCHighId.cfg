\* The test program looks up an id that has its top bit set, in an index.
CONSTANTS
  alice = alice
  bob = bob
  lice = lice
  t1 = t1
  t2 = t2
  Names = {alice, bob, lice}
  Ids = {1, 2, 200}
  IdBits = 8
  Buflens = {1, 2, 4}
  Contents <- MCLookupContents
  ReadRestores = FALSE
  None = None
  Paths = {"etc", "test"}
  InitialContents <- MCDriverInitial
  ClockSteps = {1}
  OverlapIndexer = FALSE
  IndexKinds = {"name", "id"}
  MaxTime = 1
  Threads = {t1}
  Maps = {"passwd", "group", "shadow", "gshadow"}
  ClientOps = {"setpath", "getid", "getnam"}
  PathLen <- MCShort
  PathLimit = 255
  DefaultPath <- MCEtc
  GroupMinBuf = 4
  MallocMayFail = FALSE
  Main = t1
  TestPath <- MCTestPath
  FirstBuf = 1
  Inputs <- MCInputs
SPECIFICATION DriverSpec
INVARIANTS MapKeysFound
