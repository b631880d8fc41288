\* Every length class on both sides of its boundary, failing allocations, more
\* frames than descriptors so that the ring fills and wraps; a mailbox of one
\* message, which eth_device_ready may find full.
CONSTANTS
  N = 3
  MboxSize = 1
  Lengths = {63, 64, 2044, 2045}
  Allocs = {"pbuf", "null"}
  MaxFrames = 5
SPECIFICATION FairSpec
INVARIANTS RingOwnership FramesInOrder HeldIsHead NoLostWakeup
PROPERTIES ImplementsFifo Drained
CHECK_DEADLOCK FALSE
