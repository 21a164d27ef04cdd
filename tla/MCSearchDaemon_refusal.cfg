\* A pool that has grown to its two threads, and a third client.
CONSTANTS
  k1 = k1
  k2 = k2
  k3 = k3
  Threads = {t1, t2, t3}
  Tasks = {f1, f2, f3}
  Acceptor = acceptor
  Callers = {acceptor}
  Constructor = ctor
  None = none
  MinThreads = 1
  MaxThreads = 2
  Blocking = {FALSE}
  Clients = {k1, k2, k3}
  Via <- MCVia
  Sends <- MCSends
  QueueSize = 2
SPECIFICATION DaemonSpec
INVARIANT NoClientTurnedDown
CHECK_DEADLOCK FALSE
