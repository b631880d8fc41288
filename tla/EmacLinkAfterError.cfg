\* One DMA error, the cable never touched.
CONSTANTS
  N = 2
  MboxSize = 1
  Lengths = {64}
  Allocs = {"pbuf"}
  MaxFrames = 1
  MaxErrors = 1
  MaxToggles = 0
  Resets = {"done"}
  LinkReads = {"ok"}
SPECIFICATION EmacFairSpec
PROPERTIES LinkConverges
CHECK_DEADLOCK FALSE
