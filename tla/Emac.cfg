\* Two DMA errors, soft resets that may time out, readings of the link that may
\* fail, frames recv refuses; pbuf_alloc may fail, or block while the phy thread runs.
CONSTANTS
  N = 2
  MboxSize = 1
  Lengths = {64, 2045}
  Allocs = {"pbuf", "null", "block"}
  MaxFrames = 3
  MaxErrors = 2
  MaxToggles = 3
  Resets = {"done", "timeout"}
  LinkReads = {"ok", "fail"}
SPECIFICATION EmacFairSpec
INVARIANTS RingResynced NeverBackwards NoWakeupLostInRestart
PROPERTIES Resumes LinkFollows
CHECK_DEADLOCK FALSE
