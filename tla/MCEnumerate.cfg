\* Two threads enumerate the group map with buffers that may be too small,
\* under a C library that does not undo a read that fails, while the file is
\* replaced and another one is named.
CONSTANTS
  alice = alice
  bob = bob
  lice = lice
  t1 = t1
  t2 = t2
  Names = {alice, bob, lice}
  Ids = {1, 2, 200}
  IdBits = 8
  Buflens = {1, 2}
  Contents <- MCEnumContents
  ReadRestores = FALSE
  None = None
  Paths = {"short", "long"}
  InitialContents <- MCEnumContents
  ClockSteps = {1}
  OverlapIndexer = FALSE
  IndexKinds = {}
  MaxTime = 2
  Threads = {t1, t2}
  Maps = {"group"}
  ClientOps = {"setpath", "setent", "endent", "getent"}
  PathLen <- MCLong
  PathLimit = 255
  DefaultPath <- MCDefault
  GroupMinBuf = 2
  MallocMayFail = FALSE
SPECIFICATION Spec
INVARIANTS ExclusiveAccess
PROPERTIES NextEntry
SYMMETRY MCSymmetry
