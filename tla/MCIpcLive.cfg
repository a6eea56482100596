SPECIFICATION FairSpec
CONSTANTS
  c1 = c1  c2 = c2  client = client  server = server  other = other
  tc = tc  ts = ts  to = to  srv = srv  reply = reply  own = own  q1 = q1  q2 = q2  r1 = r1
  Irq = Irq  NoThread = NoThread  NoAux = NoAux  NoMsg = NoMsg
  Cpus <- TwoCpus  BootCpu = c1
  Threads = {client, server}  Tasks <- AllTasks  TaskOf <- PairTask
  Affinity <- PairCpu  Pullable = {}  Killable = {}
  Started = {client, server}  Calls <- PairNone
  Ports = {srv, reply}  Msgs = {q1, r1}
  SenderOf <- KillSender  DestOf <- KillDest  WithReply = {q1}
  ReceiveOn <- PairReceive  TryOn <- PairNone
PROPERTY EveryMessageReceived
CHECK_DEADLOCK FALSE
