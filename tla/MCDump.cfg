\* The test program copies the four maps while their files are replaced; reads that
\* fail are undone for the group map only.
CONSTANTS
  alice = alice
  bob = bob
  lice = lice
  t1 = t1
  t2 = t2
  Names = {alice, bob, lice}
  Ids = {1, 2, 200}
  IdBits = 8
  Buflens = {2, 4, 8}
  Contents <- MCDumpContents
  ReadRestores = FALSE
  None = None
  Paths = {"etc", "passwd", "group", "shadow", "gshadow"}
  InitialContents <- MCDumpInitial
  ClockSteps = {1}
  OverlapIndexer = FALSE
  IndexKinds = {}
  MaxTime = 1
  Threads = {t1}
  Maps = {"passwd", "group", "shadow", "gshadow"}
  ClientOps = {"setpath", "getent"}
  PathLen <- MCShort
  PathLimit = 255
  DefaultPath <- MCEtc
  GroupMinBuf = 2
  MallocMayFail = FALSE
  Main = t1
  TestPath <- MCTestPath
  FirstBuf = 2
SPECIFICATION DumpSpec
INVARIANTS CopyExact
PROPERTIES DumpEnds
