SPECIFICATION TaskSpec
CONSTANTS
  srv = srv  cli = cli  kid = kid  s1 = s1  c1 = c1  c2 = c2  k1 = k1  svc = svc  rep = rep  buf = buf
  Nil = Nil  cpu0 = cpu0  cpu1 = cpu1
  Irq = Irq  NoThread = NoThread  NoAux = NoAux
  Cpus = {cpu0, cpu1}  BootCpu = cpu0  Threads = {c1, c2, k1}  Tasks = {cli, srv}
  TaskOf <- PullTasks  Affinity <- Pinned  Pullable = {c1, c2}  Killable = {}
  Started = {c1, c2}  Calls <- PullCalls
  Ports = {svc, rep}  Buffers = {buf}  HTasks = {srv, cli, kid}  HThreads = {s1, c1, c2, k1}
  Owner <- OwnerOf  SlotCount = 3  CapRights = {{}, {"send"}, {"recv", "dup"}}
  CapKinds = {buf}  Scenarios <- LendOnly  Immortal = {svc}
  QueueBound = 1  LostBound = 1  Boot <- BootTables  HStarted = {s1, c1, c2}
  p1 = p1  p2 = p2  p3 = p3  NoPage = NoPage  NoFault = NoFault
  Procs = {p1, p2, p3}  FirstProc = p1  Frames = {1, 2, 3, 4}
  Text = 0  BrkBase = 1  BrkMax = 2  MmapBase = 2  MmapLimit = 4  FixedMin = 2
  Stored = {"a"}  MScenarios <- Widening  MaxOff = 1
INVARIANT SharedIsReadOnly
CHECK_DEADLOCK FALSE
