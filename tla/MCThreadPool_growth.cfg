\* One caller of a pool that may grow from one thread to three.
CONSTANTS
  Threads = {t1, t2, t3, t4}
  Tasks = {k1, k2, k3, k4}
  Callers = {c1}
  Constructor = ctor
  None = none
  MinThreads = 1
  MaxThreads = 3
  Blocking = {FALSE}
SPECIFICATION Spec
SYMMETRY Symmetry
INVARIANT GrowsWhenBacklogged
