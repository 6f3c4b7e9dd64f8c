\* Keyed lookups of one map while its file is replaced and indexed.
CONSTANTS
  alice = alice
  bob = bob
  lice = lice
  t1 = t1
  t2 = t2
  Names = {alice, bob, lice}
  Ids = {1, 2, 200}
  IdBits = 8
  Buflens = {1, 2}
  Contents <- MCLookupContents
  ReadRestores = FALSE
  None = None
  Paths = {"short"}
  InitialContents <- MCInitial
  ClockSteps = {1}
  OverlapIndexer = FALSE
  IndexKinds = {"name", "id"}
  MaxTime = 3
  Threads = {t1}
  Maps = {"group"}
  ClientOps = {"getid", "getnam"}
  PathLen <- MCShort
  PathLimit = 255
  DefaultPath <- MCDefault
  GroupMinBuf = 2
  MallocMayFail = FALSE
SPECIFICATION Spec
INVARIANTS TypeOK SuccessMatches LookupRegular IllegalHasReason TryAgainHasReason
PROPERTIES ImplementsDirectory
