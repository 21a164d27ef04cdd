\* A pool of one thread, three clients on two sockets, two descriptors: clients
\* are refused, and descriptors are reused and run out.  The system stops when
\* every client is done.
CONSTANTS
  k1 = k1
  k2 = k2
  k3 = k3
  Threads = {t1, t2}
  Tasks = {f1, f2}
  Acceptor = acceptor
  Callers = {acceptor}
  Constructor = ctor
  None = none
  MinThreads = 1
  MaxThreads = 1
  Blocking = {FALSE}
  Clients = {k1, k2, k3}
  Via <- MCVia
  Sends <- MCSends
  QueueSize = 2
SPECIFICATION DaemonFairSpec
INVARIANTS DaemonTypeOK DescriptorsAccounted AnswerNeverDiscarded
PROPERTIES AcceptorComesBack EveryClientIsDone
CHECK_DEADLOCK FALSE
