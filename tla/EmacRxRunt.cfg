\* Frames on both sides of the runt boundary.
CONSTANTS
  N = 2
  MboxSize = 1
  Lengths = {63, 64}
  Allocs = {"pbuf"}
  MaxFrames = 3
SPECIFICATION Spec
INVARIANT RuntNotDelivered
CHECK_DEADLOCK FALSE
