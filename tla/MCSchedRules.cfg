SPECIFICATION RulesSpec
CONSTANTS
  srv = srv  prg = prg  kid = kid  t1 = t1  t2 = t2  t3 = t3  cpu0 = cpu0  cpu1 = cpu1
  PTasks = {srv, prg, kid}  PThreads = {t1, t2, t3}  Server = srv  LinuxTasks = {prg}
  Online = {cpu0, cpu1}  MaxPriority = 1  MaxWeight = 2  BaseWeight = 1  MaxDepth = 2
  Requests <- RequestSet  PolicyStates <- StateSet  PStarted <- StartedThreads
  NoCall = NoCall  HeldBound = 2  PScenarios <- AllScenarios
  e1 = e1  e2 = e2  e3 = e3  NoOne = NoOne
  EThreads = {e1, e2, e3}  Weights = {1, 2}  Weighted <- Light  BaseWeightE = 2  Slice = 2  Quantum = 2
  WakeBonus = 2  Ahead = 1  AloneBound = 1  LagBound = 3  Reweights = 1
  Cpus = {cpu0, cpu1}  BootCpu = cpu0  Threads = {t1, t2, t3}  Tasks = {srv, prg}
  TaskOf <- OwnTask  Affinity <- Masks  Pullable = {}  Killable = {}
  Started = {t1, t2}  Calls <- LifeCalls  Irq = Irq  NoThread = NoThread  NoAux = NoAux
INVARIANTS RulesTypeOK PolicySound QueueInOrder ThreadInOnePlace
PROPERTIES  QueuedRuns
CHECK_DEADLOCK FALSE
