SPECIFICATION ServersSpec
CONSTANTS
  AddrBits = 4  NibbleBits = 2  Mtu = 2  RxQueueMax = 2
  SeqSpace = 16  RxLimit = 4  WindowMax = 3  WindowShift = 1  EphFirst = 5  EphLast = 6
  MaxRoutes = 5  Stream = 5  Peers = {10}  NScenarios <- NPrograms
  MaxFile = 3  MaxSize = 2  FirstCapacity = 1  TScenarios <- TPrograms
  VMaxSymlinks = 2  OwnPaths = {"procfs"}  Recursive = {"unionfs"}  VScenarios <- VPrograms
  XInos = 5  XInosPerGroup = 3  XFirstIno = 2  XBlocks = 5  XBlocksPerGroup = 3
  XDirect = 2  XBlockSize = 2  XDirSlots = 2  XMaxOver = 1  XScenarios <- XPrograms
  UMaxNode = 3  UMaxLinks = 2  UScenarios <- UPrograms
  DSector = 2  DCapacity = 6  DBufferMax = 4  DIpcBytes = 3  DQueueSize = 2  DIndexes = 8
  DScenarios <- DPrograms  KBuffers = 4  KBatch = 2  KScenarios <- KPrograms
  BWord = 16  BPorts = 8  BBars = 3  BMaxResources = 5  BQueues = {0, 1}
  BScenarios <- BPrograms  GDrivers = {1, 2}  GControllers = {8, 9}  GLimit = 3
  GScenarios <- GPrograms  HTrbs = 15  HEvents = 5  HMost = 2  HScenarios <- HPrograms
  JBlock = 2  JMost = 3  JScenarios <- JPrograms
INVARIANTS ServersTypeOK RouteIsBest NoFrameForgotten StreamsSound  
CHECK_DEADLOCK FALSE
