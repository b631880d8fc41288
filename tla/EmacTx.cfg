\* A sender nobody holds back, more packets of one pbuf or two than descriptors,
\* so that the ring fills and wraps, and two restarts, which may time out,
\* under way between any of them.
CONSTANTS
  N = 3
  MaxPbufs = 2
  MaxFrames = 4
  MaxRestarts = 2
SPECIFICATION FairSpec
INVARIANTS WholeUnlessLapped OnceUnlessLapped
PROPERTIES ImplementsFifo AllSent
CHECK_DEADLOCK FALSE
