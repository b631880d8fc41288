\* Three threads, so that one interrupt may schedule twice; critical sections
\* two deep, so that an inner one ends inside an outer one.
CONSTANTS
  Thread = {t1, t2, t3}
  First = t1
  MaxSteps = 2
  MaxNest = 2
SPECIFICATION Spec
INVARIANTS OwnContext
PROPERTIES ImplementsThreads
