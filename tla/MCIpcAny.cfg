SPECIFICATION Spec
CONSTANTS
  c1 = c1  c2 = c2  client = client  server = server  other = other
  tc = tc  ts = ts  to = to  srv = srv  reply = reply  own = own  q1 = q1  q2 = q2  r1 = r1
  Irq = Irq  NoThread = NoThread  NoAux = NoAux  NoMsg = NoMsg
  Cpus <- TwoCpus  BootCpu = c1
  Threads = {client, server, other}  Tasks <- AllTasks  TaskOf <- EachOwnTask
  Affinity <- ClientPinned  Pullable = {}  Killable = {tc}
  Started = {client, server, other}  Calls <- AnyCalls
  Ports = {srv, reply, own}  Msgs = {q1, q2}
  SenderOf <- AnySender  DestOf <- AnyDest  WithReply = {q1}
  ReceiveOn <- AnyReceive  TryOn <- AnyTry
INVARIANTS ReceiveAnyIsExact
CHECK_DEADLOCK FALSE
