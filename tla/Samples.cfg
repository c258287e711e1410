INIT SamplesInit
NEXT SamplesNext
CONSTANTS
  BinaryKeys = {1, 2, 3, 4}
  RedBlackKeys = {1, 2, 3, 4, 5, 6, 7}
  BTreeKeys = {1, 2, 3, 4, 5, 6, 7, 8, 9}
  TreeKinds <- MCTreeKinds
  ZSKIPLIST_MAXLEVEL = 2
  KeySpan = 6
  Timers = {1, 2, 3}
  MaxDelay = 2
  MaxClock = 7
  PoolSizes = {27, 28}
  PoolHeader = 20
  DataHeader = 8
  LargeNode = 4
  CleanupNode = 6
  NGX_ALIGNMENT = 2
  NGX_MAX_ALLOC_FROM_POOL = 16
  MaxFailed = 0
  MaxLook = 0
  SizeSpan = 128
  RequestSizes = {7, 9}
  Fds = {1}
  MaxBlocks = 3
  MaxLarge = 1
  MaxCleanups = 1
  BloomItems = {1, 2}
  BloomSeeds = {0, 1}
  BloomSizes <- MCBloomSizes
  HashSpan = 4096
  MaxAdds = 2
  MurmurHash2_x64 <- MCMurmur
  JsonLimits <- MCJsonLimits
  JsonDocs <- MCJsonDocs
  Prebuffers = {1, 5, 64}
  ExceptionThreads = {1}
  ExceptionKinds = {"A", "B"}
  MaxFrames = 3
  Callers = {1, 2, 3}
  Cpus = {1, 2}
  LocalIp = 18
  ServerIp = 133
  ClientIps = {27, 170}
  ClientPorts = {5, 6}
  ServicePort = 9
  SumSpan = 16
  MapEntries = 1
  MaxPackets = 3
  FD_SETSIZE = 5
  FdLimit = 6
  MaxUnread = 2
  Devices = {"d1"}
  MaxStates = 1
  MaxConnects = 2
  Watchers = {1, 2}
  MaxAttached = 2
  CHUNK = 2
  SourceSizes = {0, 1, 2, 3, 5}
  MaxExpansion = 2
  DesignValues = {1, 2, 3}
  DesignCapacity = 2
  DesignBound = 3
  AllDesigns <- MCDesigns
  AllExercises <- MCExercises
INVARIANTS
  TimersKept
  PoolOwned
  BloomAnswers
  JsonTreesSound
  JsonTextFaithful
  OneInstance
  RedirectedRight
  ReadableIsSeen
  SubscriptionsKept
  ObserversLive
  StreamWhole
  DesignsKeepTheirPromise
  AnswersRight
PROPERTIES
  TreesKept
  BlocksRun
CHECK_DEADLOCK FALSE
