SPECIFICATION LinuxSpec
CONSTANTS
  Capacity = 2  MaxPid = 4  MaxPipe = 1  FdCount = 3  Lengths = {1, 2}  MaxBytes = 4
  TtyQueue = 2  TtyLine = 2  LScenarios <- LPrograms
  FilePids = {1, 2}  FileFds = {0, 1}  MaxOpen = 2  MaxHandle = 4  MaxNode = 2
  MaxWrites = 2  FileNames = {"f"}  TmpNames <- Hidden  FScenarios <- FPrograms
  IMaxTask = 2  IMaxSession = 3  IScenarios <- IPrograms
  IAccounts <- IPasswd  IGroupFile <- IGroupLines
  PMaxTask = 3  PScenarios <- PPrograms
  EMaxString = 4  EMaxBytes = 26  EMaxPointers = 4  EMaxPath = 2  EMaxDepth = 3
  ESpawnMax = 34  EStackMax = 44  ECmdMax = 5  EWord = 2  EPage = 4  EAuxPairs = 2
  EScenarios <- EPrograms
  SPids = {1, 2, 3}  SFds = {1, 2, 3}  SMaxSocks = 3  SMaxItems = 2  SQueue = 7  SUtmps = 1
  SScenarios <- SPrograms
INVARIANTS LinuxTypeOK RefsAreDescriptors NoLostWakeup StreamInOrder RepliesOwed
  ZombieCanBeReaped NothingLeftOpen  ProcessesSound 
PROPERTIES FatalOnlyByDisposition
CHECK_DEADLOCK FALSE
