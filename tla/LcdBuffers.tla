----------------------------- MODULE LcdBuffers -----------------------------
(***************************************************************************)
(* The two frame buffers of driver/drv_lcd.c: an update copies the         *)
(* framebuffer of the application into the one that is not shown and gives *)
(* its address to the mixer, which takes it over at its next frame.        *)
(* Nothing keeps apart two threads that update, and nothing waits for the  *)
(* frame.                                                                  *)
(***************************************************************************)
EXTENDS Integers

CONSTANTS Painters,  \* the threads that update
          MaxFrames  \* bound: frames drawn

ASSUME LcdAssumption == MaxFrames \in Nat

VARIABLES lcdIndex,   \* lcdfb->index
          lcdBuffer,  \* the frame in each buffer, Torn during a copy
          lcdBase,    \* the buffer whose address the mixer was given
          lcdShown,   \* the buffer the mixer reads
          lcdDrawn,   \* the frame in info.framebuffer
          lcdCall,    \* where each painter is, and the index or buffer it uses
          lcdMixed,   \* history: since a frame began with no update under way, an
                      \* update began before the one before was shown, or during it
          lcdDue      \* history: the frame the mixer was given last

lcdVars == <<lcdIndex, lcdBuffer, lcdBase, lcdShown, lcdDrawn, lcdCall, lcdMixed, lcdDue>>

Torn == -1
AtEase == [at |-> "idle", buffer |-> 0]
NobodyUpdates == \A p \in Painters : lcdCall[p] = AtEase
At(p, step) == lcdCall[p].at = step
Then(p, step, buffer) == lcdCall' = [lcdCall EXCEPT ![p] = [at |-> step, buffer |-> buffer]]

\* rt_hw_lcd_init: both buffers are cleared, the first is shown.
LcdInit ==
    /\ lcdIndex = 0 /\ lcdBuffer = [b \in {0, 1} |-> 0] /\ lcdBase = 0 /\ lcdShown = 0
    /\ lcdDrawn = 0 /\ lcdCall = [p \in Painters |-> AtEase]
    /\ lcdMixed = 0 /\ lcdDue = 0

\* The application draws while it does not update.
Draw ==
    /\ NobodyUpdates /\ lcdDrawn < MaxFrames
    /\ lcdDrawn' = lcdDrawn + 1
    /\ UNCHANGED <<lcdIndex, lcdBuffer, lcdBase, lcdShown, lcdCall, lcdMixed, lcdDue>>

\* The mixer begins a frame.
FrameStart ==
    /\ lcdShown' = lcdBase
    /\ lcdMixed' = IF NobodyUpdates THEN 0 ELSE lcdMixed
    /\ UNCHANGED <<lcdIndex, lcdBuffer, lcdBase, lcdDrawn, lcdCall, lcdDue>>

\* RTGRAPHIC_CTRL_RECT_UPDATE: the index is read ...
UpdateBegin(p) ==
    /\ At(p, "idle")
    /\ Then(p, "flip", lcdIndex)
    /\ lcdMixed' = IF NobodyUpdates /\ lcdBase = lcdShown THEN lcdMixed ELSE 1
    /\ UNCHANGED <<lcdIndex, lcdBuffer, lcdBase, lcdShown, lcdDrawn, lcdDue>>

\* Fault: the index is not changed.
OtherNot(index) == index
Other(index) == (index + 1) % 2

\* ... and written, ...
UpdateFlip(p) ==
    /\ At(p, "flip")
    /\ lcdIndex' = Other(lcdCall[p].buffer)
    /\ Then(p, "copy", 0)
    /\ UNCHANGED <<lcdBuffer, lcdBase, lcdShown, lcdDrawn, lcdMixed, lcdDue>>

\* ... the frame copied to the buffer the index now says, ...
UpdateCopy(p) ==
    /\ At(p, "copy")
    /\ lcdBuffer' = [lcdBuffer EXCEPT ![lcdIndex] = Torn]
    /\ Then(p, "copied", lcdIndex)
    /\ UNCHANGED <<lcdIndex, lcdBase, lcdShown, lcdDrawn, lcdMixed, lcdDue>>

UpdateCopied(p) ==
    /\ At(p, "copied")
    /\ lcdBuffer' = [lcdBuffer EXCEPT ![lcdCall[p].buffer] = lcdDrawn]
    /\ Then(p, "base", 0)
    /\ UNCHANGED <<lcdIndex, lcdBase, lcdShown, lcdDrawn, lcdMixed, lcdDue>>

\* ... and the mixer given the buffer the index then says.
UpdateBase(p) ==
    /\ At(p, "base")
    /\ lcdBase' = lcdIndex
    /\ lcdDue' = lcdDrawn
    /\ Then(p, "idle", 0)
    /\ UNCHANGED <<lcdIndex, lcdBuffer, lcdShown, lcdDrawn, lcdMixed>>

LcdNext ==
    \/ Draw \/ FrameStart
    \/ \E p \in Painters : \/ UpdateBegin(p) \/ UpdateFlip(p) \/ UpdateCopy(p)
                           \/ UpdateCopied(p) \/ UpdateBase(p)

LcdSpec == LcdInit /\ [][LcdNext]_lcdVars

-----------------------------------------------------------------------------
(* Properties *)

\* A frame on the panel is whole, and once the mixer has taken over its buffer
\* it is the frame updated last, as long as the updates come one at a time and
\* each waits for the frame that shows the one before; a screen that was mixed
\* up is whole again with the next frame after the last update.
FramesWhole ==
    lcdMixed = 0 => /\ lcdBuffer[lcdShown] # Torn
                    /\ lcdBase = lcdShown => lcdBuffer[lcdShown] = lcdDue
=============================================================================
