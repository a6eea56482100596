SPECIFICATION LiveSpec
CONSTANTS
  c1 = c1  c2 = c2  a = a  b = b  x = x  ta = ta  tb = tb
  Irq = Irq  NoThread = NoThread  NoAux = NoAux
  Cpus <- TwoCpus  BootCpu = c1  Threads <- Tids  Tasks = {ta, tb}
  TaskOf <- Tsk  Affinity <- Pinned  Pullable = {}  Killable = {ta}
  Started = {a, b, x}  Calls <- KillCalls
PROPERTIES  SleeperRuns
CHECK_DEADLOCK FALSE
