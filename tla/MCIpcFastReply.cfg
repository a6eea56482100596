SPECIFICATION Spec
CONSTANTS
  c1 = c1  c2 = c2  client = client  server = server  other = other
  tc = tc  ts = ts  to = to  srv = srv  reply = reply  own = own  q1 = q1  q2 = q2  r1 = r1
  Irq = Irq  NoThread = NoThread  NoAux = NoAux  NoMsg = NoMsg
  Cpus <- TwoCpus  BootCpu = c1
  Threads = {client, server, other}  Tasks <- AllTasks  TaskOf <- EachOwnTask
  Affinity <- AnyCpu  Pullable = {client, other}  Killable = {}
  Started = {client, server, other}  Calls <- NoCalls
  Ports = {srv, reply}  Msgs = {q1, q2, r1}
  SenderOf <- CallSender  DestOf <- CallDest  WithReply = {q1}
  ReceiveOn <- CallReceive  TryOn <- NoTry
INVARIANT FastReplyFindsItSwitched
CHECK_DEADLOCK FALSE
