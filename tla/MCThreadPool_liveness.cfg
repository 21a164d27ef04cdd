\* One caller of both kinds of call on a pool of one to two threads, with
\* fairness; no symmetry, which is unsound for liveness.
CONSTANTS
  Threads = {t1, t2, t3}
  Tasks = {k1, k2}
  Callers = {c1}
  Constructor = ctor
  None = none
  MinThreads = 1
  MaxThreads = 2
  Blocking = {TRUE, FALSE}
SPECIFICATION FairSpec
PROPERTIES ShrinksToMinimum CallsReturn ServiceFairSpec
