------------------------------- MODULE Devices -------------------------------
(***************************************************************************)
(* The small drivers: the busy wait on the tick timer (Udelay), the        *)
(* watchdog, the real-time clock, the dividers of the bus clocks, the      *)
(* pins, the SPI bus, reception on the UART, the mode of the Ethernet      *)
(* link, buffers shared with a DMA through the cache, and the frame        *)
(* buffers of the panel.                                                   *)
(*                                                                         *)
(* They share no state, so their interleavings show nothing: a behaviour   *)
(* exercises one of them, and the others stay as they start.               *)
(***************************************************************************)
EXTENDS Udelay, Watchdog, RtcClock, Rates, GpioBank, SpiBus, Uart,
        PhyLink, CacheRange, LcdBuffers

VARIABLE part  \* the part a behaviour exercises

Parts == {"delay", "watchdog", "rtc", "rates", "pins", "spi", "uart", "link", "cache", "lcd"}

timeVars == <<vars, wdtVars, rtcVars, rateVars>>
busVars == <<bankVars, spiVars, uartVars, lnkVars>>
bufferVars == <<cacheVars, lcdVars>>
devicesVars == <<timeVars, busVars, bufferVars, part>>

Unless(p, initial) == part # p => initial

DevicesInit ==
    /\ part \in Parts
    /\ Init /\ Unless("delay", usec = 0 /\ last = 0)
    /\ WdtInit /\ RatesInit /\ BankInit /\ UartInit /\ LcdInit
    /\ RtcInit /\ Unless("rtc", rtcTime = 0)
    /\ SpiInit /\ Unless("spi", spiOn = 0)
    /\ LnkInit /\ Unless("link", lnkPartner = {})
    /\ CacheInit /\ Unless("cache", bufRange = CHOOSE range \in Ranges : TRUE)

TimeNext ==
    /\ \/ part = "delay"    /\ Next      /\ UNCHANGED <<wdtVars, rtcVars, rateVars>>
       \/ part = "watchdog" /\ WdtNext   /\ UNCHANGED <<vars, rtcVars, rateVars>>
       \/ part = "rtc"      /\ RtcNext   /\ UNCHANGED <<vars, wdtVars, rateVars>>
       \/ part = "rates"    /\ RatesNext /\ UNCHANGED <<vars, wdtVars, rtcVars>>
    /\ UNCHANGED <<busVars, bufferVars, part>>

BusNext ==
    /\ \/ part = "pins" /\ BankNext /\ UNCHANGED <<spiVars, uartVars, lnkVars>>
       \/ part = "spi"  /\ SpiNext  /\ UNCHANGED <<bankVars, uartVars, lnkVars>>
       \/ part = "uart" /\ UartNext /\ UNCHANGED <<bankVars, spiVars, lnkVars>>
       \/ part = "link" /\ LnkNext  /\ UNCHANGED <<bankVars, spiVars, uartVars>>
    /\ UNCHANGED <<timeVars, bufferVars, part>>

BufferNext ==
    /\ \/ part = "cache" /\ CacheNext /\ UNCHANGED lcdVars
       \/ part = "lcd"   /\ LcdNext   /\ UNCHANGED cacheVars
    /\ UNCHANGED <<timeVars, busVars, part>>

DevicesNext == TimeNext \/ BusNext \/ BufferNext

DevicesSpec ==
    /\ DevicesInit /\ [][DevicesNext]_devicesVars
    /\ WF_spiVars(BusNext /\ SpiRun)
    /\ WF_uartVars(BusNext /\ UartIsr) /\ WF_uartVars(BusNext /\ Wait4)
=============================================================================
