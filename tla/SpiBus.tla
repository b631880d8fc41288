------------------------------- MODULE SpiBus -------------------------------
(***************************************************************************)
(* Transfers on the SPI bus: spi_configure and spi_xfer of                 *)
(* driver/drv_spi.c over uboot/sunxi_spi.c.  A transfer is a list of       *)
(* messages, the first of which takes the chip select and the last of      *)
(* which releases it; the bus lock of RT-Thread keeps transfers apart.     *)
(*                                                                         *)
(* The slave answers every byte that is clocked with the next number.      *)
(***************************************************************************)
EXTENDS Naturals, Sequences

CONSTANTS Depth,      \* bytes of a FIFO
          MaxLen,     \* bound: bytes of a message
          MaxMsgs     \* bound: messages of a behaviour

ASSUME SpiAssumption == Depth \in Nat \ {0, 1} /\ MaxLen \in Nat /\ MaxMsgs \in Nat

VARIABLES spiOn,      \* the clock of the module is on, its reset released
          spiMode,    \* the mode and speed in its registers: "reset" or "asked"
          spiCs,      \* the chip select is active
          spiFifo,    \* the receive FIFO
          spiBurst,   \* bytes still to be clocked
          spiPc,      \* where the caller is
          spiLen,     \* len: bytes left of the message
          spiChunk,   \* nbytes: bytes of the burst
          spiGot,     \* the bytes of the message read so far
          spiMsg,     \* [len, take, release] of the message
          spiSlave,   \* the number the slave answers with next
          spiMsgs,    \* messages so far
          spiLost     \* history: the configuration met a module that was off

spiVars == <<spiOn, spiMode, spiCs, spiFifo, spiBurst, spiPc, spiLen, spiChunk, spiGot,
             spiMsg, spiSlave, spiMsgs, spiLost>>

Noise == 0  \* what is read when the slave does not answer

\* The boot ROM may leave the module on.
SpiInit ==
    /\ spiOn \in {0, 1} /\ spiMode = "reset" /\ spiCs = 0 /\ spiFifo = <<>> /\ spiBurst = 0
    /\ spiPc = "new" /\ spiLen = 0 /\ spiChunk = 0 /\ spiGot = <<>>
    /\ spiMsg = [len |-> 0, take |-> 1, release |-> 1]
    /\ spiSlave = 1 /\ spiMsgs = 0 /\ spiLost = 0

\* spi_configure: speed and mode are stored before sunxi_spi_claim_bus turns
\* the module on; a module that is off may ignore the stores.  The claim
\* resets the FIFOs and makes the chip select inactive.
Configure ==
    /\ spiPc \in {"new", "done"} /\ spiMsg.release = 1
    /\ \/ spiMode' = "asked"
       \/ spiOn = 0 /\ UNCHANGED spiMode
    /\ spiLost' = 1 - spiOn
    /\ spiOn' = 1 /\ spiCs' = 0 /\ spiFifo' = <<>>
    /\ spiPc' = "ready"
    /\ UNCHANGED <<spiBurst, spiLen, spiChunk, spiGot, spiMsg, spiSlave, spiMsgs>>

\* sunxi_spi_xfer: the chip select, if the message takes it.
XferBegin ==
    /\ spiPc \in {"ready", "done"} /\ spiMsgs < MaxMsgs
    /\ \E len \in 0..MaxLen, release \in {0, 1} :
          /\ spiMsg' = [len |-> len, take |-> spiMsg.release, release |-> release]
          /\ spiLen' = len
    /\ spiCs' = IF spiMsg'.take = 1 THEN 1 ELSE spiCs
    /\ spiPc' = "loop" /\ spiMsgs' = spiMsgs + 1
    /\ spiGot' = <<>> /\ spiSlave' = 1
    /\ UNCHANGED <<spiOn, spiMode, spiFifo, spiBurst, spiChunk, spiLost>>

\* Fault: a burst is as long as the message.
BurstLenWhole(len) == len
\* The bytes of a burst: one less than the FIFO holds.
BurstLen(len) == IF len < Depth THEN len ELSE Depth - 1

\* A burst: its length, the bytes to send, and the exchange is started.
XferBurst ==
    /\ spiPc = "loop" /\ spiLen > 0
    /\ spiChunk' = BurstLen(spiLen) /\ spiBurst' = BurstLen(spiLen)
    /\ spiPc' = "wait"
    /\ UNCHANGED <<spiOn, spiMode, spiCs, spiFifo, spiLen, spiGot, spiMsg, spiSlave, spiMsgs, spiLost>>

\* The module clocks a byte; the FIFO drops what it cannot hold.
SpiClock ==
    /\ spiBurst > 0 /\ spiBurst' = spiBurst - 1
    /\ LET answer == IF spiCs = 1 /\ spiMode = "asked" THEN spiSlave ELSE Noise
       IN spiFifo' = IF Len(spiFifo) < Depth THEN Append(spiFifo, answer) ELSE spiFifo
    /\ spiSlave' = spiSlave + 1
    /\ UNCHANGED <<spiOn, spiMode, spiCs, spiPc, spiLen, spiChunk, spiGot, spiMsg, spiMsgs, spiLost>>

\* The wait for as many bytes as the burst has, and their reading.
XferRead ==
    /\ spiPc = "wait" /\ Len(spiFifo) >= spiChunk
    /\ spiGot' = spiGot \o SubSeq(spiFifo, 1, spiChunk)
    /\ spiFifo' = SubSeq(spiFifo, spiChunk + 1, Len(spiFifo))
    /\ spiLen' = spiLen - spiChunk
    /\ spiPc' = "loop"
    /\ UNCHANGED <<spiOn, spiMode, spiCs, spiBurst, spiChunk, spiMsg, spiSlave, spiMsgs, spiLost>>

XferEnd ==
    /\ spiPc = "loop" /\ spiLen = 0
    /\ spiCs' = IF spiMsg.release = 1 THEN 0 ELSE spiCs
    /\ spiPc' = "done"
    /\ UNCHANGED <<spiOn, spiMode, spiFifo, spiBurst, spiLen, spiChunk, spiGot, spiMsg, spiSlave,
                   spiMsgs, spiLost>>

SpiRun == XferBurst \/ SpiClock \/ XferRead \/ XferEnd
SpiNext == Configure \/ XferBegin \/ SpiRun

\* The caller runs while it polls, and the module clocks what it was given.
SpiSpec == SpiInit /\ [][SpiNext]_spiVars /\ WF_spiVars(SpiRun)

-----------------------------------------------------------------------------
(* Properties *)

\* Every message ends, although nothing bounds the wait for the FIFO, and its
\* caller gets as many bytes as it asked for, the slave's answers in order, in
\* however many bursts -- unless the configuration was stored in a module that
\* was off: then the first transfers may run as after a reset.
Answers == [i \in 1..spiMsg.len |-> i]

MessagesAnswered ==
    (spiPc = "loop") ~> (spiPc = "done" /\ (spiLost = 0 => spiGot = Answers))
=============================================================================
