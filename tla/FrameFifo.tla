----------------------------- MODULE FrameFifo -----------------------------
(***************************************************************************)
(* What a descriptor ring promises to the two ends that share it: a        *)
(* bounded first-in first-out channel of frames.  The producer appends a   *)
(* frame while there is room, the consumer takes the oldest one and hands  *)
(* Image(frame) on.  Nothing is lost, repeated or overtaken.               *)
(***************************************************************************)
EXTENDS Naturals, Sequences

CONSTANTS
  Capacity,   \* frames the channel can hold
  Frame,      \* the frames the producer may append
  Image(_)    \* what the consumer hands on for a frame

VARIABLES
  queue,      \* frames accepted and not yet handed on
  out         \* everything handed on so far

fifoVars == <<queue, out>>

FifoInit ==
  /\ queue = <<>>
  /\ out = <<>>

Accept ==
  /\ Len(queue) < Capacity
  /\ \E f \in Frame : queue' = Append(queue, f)
  /\ UNCHANGED out

HandOn ==
  /\ queue # <<>>
  /\ out' = Append(out, Image(Head(queue)))
  /\ queue' = Tail(queue)

FifoNext == Accept \/ HandOn

FifoSpec == FifoInit /\ [][FifoNext]_fifoVars
=============================================================================
