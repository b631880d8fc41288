----------------------------- MODULE CacheRange -----------------------------
(***************************************************************************)
(* Handing a buffer to a DMA and back: flush_dcache_range and              *)
(* invalidate_dcache_range of uboot/cache_v7.c, on a write-back cache that *)
(* fills and evicts lines whenever it likes, also between two steps of a   *)
(* loop over a range.                                                      *)
(***************************************************************************)
EXTENDS Integers

CONSTANTS Words,    \* words of memory
          LineLen,  \* words of a cache line
          Ranges,   \* the buffers there can be: sets of words
          Values    \* numbers of values a word can have

ASSUME CacheAssumption ==
    /\ Words \in Nat \ {0} /\ LineLen \in Nat \ {0} /\ Values \in Nat \ {0}
    /\ \A range \in Ranges :
          \E start, stop \in 0..Words : start < stop /\ range = start..(stop - 1)

VARIABLES memory,      \* main memory
          cached,      \* the lines in the cache: dirty bit and data
          bufRange,    \* the buffer
          bufAt,       \* who has it: "cpu", "flush", "dma", "inval"
          bufMva,      \* the address a loop has reached
          bufLatest,   \* history: what was written to every word last
          bufFilled    \* history: the DMA wrote to the buffer

cacheVars == <<memory, cached, bufRange, bufAt, bufMva, bufLatest, bufFilled>>

Addresses == 0..(Words - 1)
RoundDown(a) == a - (a % LineLen)
Lines == {a \in Addresses : a % LineLen = 0}
WordsOf(line) == {a \in Addresses : RoundDown(a) = line}
BufferStart == CHOOSE a \in 0..Words : a \in bufRange /\ a - 1 \notin bufRange
BufferStop == CHOOSE a \in 0..Words : a \notin bufRange /\ a - 1 \in bufRange
Absent == <<>>
Loaded(line, dirty) == [dirty |-> dirty, data |-> [a \in WordsOf(line) |-> memory[a]]]

CacheInit ==
    /\ memory = [a \in Addresses |-> 0] /\ bufLatest = memory
    /\ cached = [line \in Lines |-> Absent]
    /\ bufRange \in Ranges /\ bufAt = "cpu" /\ bufMva = 0 /\ bufFilled = 0

\* The CPU leaves the buffer alone while it is not its own.
CpuWrite ==
    \E a \in Addresses :
       LET line == RoundDown(a)
           value == (bufLatest[a] + 1) % Values
           held == IF cached[line] = Absent THEN Loaded(line, 1) ELSE cached[line]
       IN /\ a \in bufRange => bufAt = "cpu"
          /\ cached' = [cached EXCEPT ![line] =
                           [dirty |-> 1, data |-> [held.data EXCEPT ![a] = value]]]
          /\ bufLatest' = [bufLatest EXCEPT ![a] = value]
          /\ UNCHANGED <<memory, bufRange, bufAt, bufMva, bufFilled>>

Fill ==
    \E line \in Lines :
       /\ cached[line] = Absent
       /\ cached' = [cached EXCEPT ![line] = Loaded(line, 0)]
       /\ UNCHANGED <<memory, bufRange, bufAt, bufMva, bufLatest, bufFilled>>

\* The line is written back if it is dirty, and leaves the cache.
Clean(line) ==
    /\ memory' = IF cached[line] # Absent /\ cached[line].dirty = 1
                 THEN [a \in Addresses |-> IF a \in WordsOf(line) THEN cached[line].data[a]
                                           ELSE memory[a]]
                 ELSE memory
    /\ cached' = [cached EXCEPT ![line] = Absent]

Evict ==
    /\ \E line \in Lines : cached[line] # Absent /\ Clean(line)
    /\ UNCHANGED <<bufRange, bufAt, bufMva, bufLatest, bufFilled>>

DmaWrite ==
    /\ bufAt = "dma" /\ bufFilled' = 1
    /\ \E a \in bufRange :
          LET value == (bufLatest[a] + 1) % Values IN
          /\ memory' = [memory EXCEPT ![a] = value]
          /\ bufLatest' = [bufLatest EXCEPT ![a] = value]
    /\ UNCHANGED <<cached, bufRange, bufAt, bufMva>>

-----------------------------------------------------------------------------

\* Fault: the loop starts at the address it is given.
FirstUnaligned == BufferStart
\* v7_dcache_clean_inval_range aligns the start.
First == RoundDown(BufferStart)

FlushStart ==
    /\ bufAt = "cpu" /\ bufAt' = "flush" /\ bufMva' = First
    /\ UNCHANGED <<memory, cached, bufRange, bufLatest, bufFilled>>

FlushLine ==
    /\ bufAt = "flush" /\ bufMva < BufferStop
    /\ Clean(RoundDown(bufMva))
    /\ bufMva' = bufMva + LineLen
    /\ UNCHANGED <<bufRange, bufAt, bufLatest, bufFilled>>

\* The buffer is handed to the DMA.
FlushDone ==
    /\ bufAt = "flush" /\ bufMva >= BufferStop
    /\ bufAt' = "dma"
    /\ UNCHANGED <<memory, cached, bufRange, bufMva, bufLatest, bufFilled>>

\* check_cache_range
RangeOk == BufferStart % LineLen = 0 /\ BufferStop % LineLen = 0

\* The DMA is done.  A range that is not made of lines is not invalidated.
InvalidateStart ==
    /\ bufAt = "dma"
    /\ bufAt' = IF RangeOk THEN "inval" ELSE "cpu"
    /\ bufMva' = BufferStart
    /\ UNCHANGED <<memory, cached, bufRange, bufLatest, bufFilled>>

InvalidateLine ==
    /\ bufAt = "inval" /\ bufMva < BufferStop
    /\ cached' = [cached EXCEPT ![bufMva] = Absent]
    /\ bufMva' = bufMva + LineLen
    /\ UNCHANGED <<memory, bufRange, bufAt, bufLatest, bufFilled>>

InvalidateDone ==
    /\ bufAt = "inval" /\ bufMva >= BufferStop
    /\ bufAt' = "cpu"
    /\ UNCHANGED <<memory, cached, bufRange, bufMva, bufLatest, bufFilled>>

CacheNext ==
    \/ CpuWrite \/ Fill \/ Evict \/ DmaWrite
    \/ FlushStart \/ FlushLine \/ FlushDone
    \/ InvalidateStart \/ InvalidateLine \/ InvalidateDone

CacheSpec == CacheInit /\ [][CacheNext]_cacheVars

-----------------------------------------------------------------------------
(* Properties *)

\* What the CPU reads.
Seen(a) == LET held == cached[RoundDown(a)] IN IF held = Absent THEN memory[a] ELSE held.data[a]

\* A flushed buffer is in memory when the DMA gets it, also if it is not made
\* of whole lines, as long as no DMA wrote to it; what the DMA writes to a
\* buffer made of lines is what the CPU reads once the range was invalidated,
\* whatever the cache loaded or evicted meanwhile; and no word outside the
\* buffer ever loses a write, also next to an unaligned end.
CoherentBuffers ==
    /\ bufAt = "dma" /\ (bufFilled = 0 \/ RangeOk)
          => \A a \in bufRange : memory[a] = bufLatest[a]
    /\ bufAt = "cpu" /\ (bufFilled = 0 \/ RangeOk)
          => \A a \in bufRange : Seen(a) = bufLatest[a]
    /\ \A a \in Addresses \ bufRange : Seen(a) = bufLatest[a]
=============================================================================
