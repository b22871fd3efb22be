SPECIFICATION Spec
CONSTANTS
  NoHandler = NoHandler
  NoMeta = NoMeta
  MaxParams = 1
  Methods = {"GET", "HEAD"}
  Patterns <- mcPatterns
  GroupPrefixes <- mcPrefixes
  RawPaths <- mcRaw
  Metas = {1}
  MaxSegments = 2
  ParamStorage = 3
  MaxSetup = 3
  Stacks <- mcStacks
  Nested <- mcNested
  MaxGlobalMw = 3
  host1 = host1
  host2 = host2
  longHost = longHost
  Keys = {host1, host2, longHost}
  Cut <- mcCut
  Hash <- mcHash
  Buckets = 3
  Burst = 2
  Cost = 2
  Rate = 1
  MaxNow = 3
  CtxKeys = {"a", "b", "c"}
  MaxValues = 2
  ArenaDefault = 8
  Sizes = {1, 8}
  Aligns = {1, 4, 8}
  MallocAlign = 4
  MaxOps = 4
  CipherCap = 3
  MaxCipher = 4
  Streams = {1, 3}
  MaxH2Headers = 1
  MaxRst = 1
  MaxH2Body = 2
  MaxSecond = 2
  UniCredit = 4
  OutRoom = 1
  H3Streams = {0}
  MaxH3Body = 2
  RingSize = 2
  TailMod = 8
  Files = 2
  Fds = {5}
  MaxConns = 2
  IdSpace = 6
  Openings <- mcOpenings
  Forms <- mcForms
  Rooms = {1, 2}
  Boundaries <- mcBoundaries
  MaxParts = 2
  MaxPart = 4
  MaxTotal = 44
  Paths <- mcPaths
  FileNames = {"index", "page"}
  FileSizes = {1, 2}
  Ranges <- mcRanges
  MaxWrites = 2
  MaxTime = 2
  Events <- mcEvents
  SseBuf = 8
  MaxFormats = 3
INVARIANTS
  LookupIsBestMatch
  DispatchAnswers
  InspectionAgrees
  HandlerGuarded
  AnsweredAsConfigured
  RateBounded
  ValuesReleased
  BlocksFit
  ResponseMemory
  DispatchedWhole
  RapidResetStopped
  ControlStreamsBound
  H3DispatchedWhole
  PoolAgreesWithKernel
  ActiveCountExact
  IdsUniqueUntilWrap
  SplitDelivery
  PartsRecovered
  RevalidationSound
  StreamDecodes
PROPERTIES
  CipherInOrder
  ClosedForGood
CHECK_DEADLOCK FALSE
