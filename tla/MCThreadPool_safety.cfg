\* Two callers, which may block, on a pool of two to three threads: enough
\* tasks for both callers to wait while every thread is busy.
CONSTANTS
  Threads = {t1, t2, t3, t4}
  Tasks = {k1, k2, k3, k4}
  Callers = {c1, c2}
  Constructor = ctor
  None = none
  MinThreads = 2
  MaxThreads = 3
  Blocking = {TRUE, FALSE}
SPECIFICATION Spec
SYMMETRY Symmetry
INVARIANTS TypeOK IndInv OnePlace PoolSizeInBounds BusyNeverExceedsPool PrototypeIsAlive NoWakeupLost NoCallerStranded
PROPERTIES OnlySurplusThreadsDie RefusedOnlyWhenNoneSleeps ServiceSpec
