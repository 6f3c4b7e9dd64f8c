\* The test program copies the passwd map under a C library that does not undo
\* a read that fails.
CONSTANTS
  alice = alice
  bob = bob
  lice = lice
  t1 = t1
  t2 = t2
  Names = {alice, bob, lice}
  Ids = {1, 2, 200}
  IdBits = 8
  Buflens = {1, 2}
  Contents <- MCLarge
  ReadRestores = FALSE
  None = None
  Paths = {"etc", "passwd", "group"}
  InitialContents <- MCLarge
  ClockSteps = {1}
  OverlapIndexer = FALSE
  IndexKinds = {}
  MaxTime = 0
  Threads = {t1}
  Maps = {"passwd", "group"}
  ClientOps = {"setpath", "getent"}
  PathLen <- MCShort
  PathLimit = 255
  DefaultPath <- MCEtc
  GroupMinBuf = 2
  MallocMayFail = FALSE
  Main = t1
  TestPath <- MCTestPath
  FirstBuf = 1
SPECIFICATION DumpSpec
INVARIANTS CopyEqualsMap
