# Verification of bsp_v3s

TLA+ models of the RT-Thread board support package for the Allwinner V3s
(one ARM Cortex-A7 core), the TLC runs that check them and the TLAPS proofs
about them. `PROJECT.json` lists the runs, the properties, the seeded faults
that show each property can fail, the source lines every definition models,
the findings, the hazards and the theorems.

    tlc -workers 4 -config EmacRx.cfg EmacRx
    tlapm EmacProofs.tla

## 1. The system

The package is C and ARM assembly in four directories: `cpu/` (start-up,
vectors, context switch, interrupt controller, MMU), `driver/` (the RT-Thread
device drivers and the board file), `uboot/` (hardware code taken from U-Boot
and called by the drivers) and `applications/`. The RT-Thread kernel and lwIP
are a submodule that is empty at this commit. There are no tests.

There is one core, so the actors are threads that switch by priority (0 high,
31 low), interrupt handlers that run with interrupts masked and do not nest,
and the DMA engines and peripherals that run beside the core and share memory
or registers with it.

| Component | State | Operations | Interacts with | Hard behaviour | What makes it correct |
|---|---|---|---|---|---|
| Ethernet receive (`drv_emac.c`, `sun8i_emac.c`) | descriptor ring and own bits, `rx_currdescnum`, interrupt status | `_enet_isr`, `_emac_rx`, `_sun8i_eth_recv`, `_sun8i_free_pkt` | receive DMA, GIC, Ethernet thread's mailbox, pbuf heap | DMA and CPU share descriptors; acknowledge after wake-up; failing allocation between recv and free; full ring | frames reach the stack once, in order; no descriptor stranded; no wake-up lost |
| Ethernet transmit | descriptor ring, `tx_currdescnum`, DMA run state | `_emac_tx`, `_sun8i_emac_eth_send` | transmit DMA, transmit thread | packets built by several calls; own bit never tested; DMA suspends | whole packets, once, in order; none stranded |
| Ethernet link and restart | `initlink`, link request, the MAC's registers | `phy_thread_entry`, `_sun8i_emac_eth_init` | both rings, MDIO, network interface | the ring is rebuilt while others use it; interrupts cleared twice; reset may time out | ring and cursors agree after a restart; interface follows the cable |
| MII/PHY (`phy.c`, `miiphyutil.c`) | bus list, PHY registers, speed and duplex | register read and write with timeout, scan, configure, parse link | MDIO registers, timer | timeouts, `-1` read as data | negotiated mode is one both ends have |
| Context switch (`start_gcc.S`, `context_gcc.S`, `port.c`) | saved frames, TCB stack pointers, `rt_thread_switch_interrupt_flag`, from, to | `vector_irq`, `rt_hw_context_switch`, `rt_hw_context_switch_interrupt`, level save and restore | kernel scheduler, all handlers | several scheduling decisions in one interrupt; frame moved between stacks | every thread resumes exactly where it stopped; critical sections hold |
| Interrupt dispatch (`gic.c`, `interrupt.c`, `trap.c`) | GIC enable, pending, active; `isr_table` | acknowledge, dispatch, end; install, mask, unmask | every driver with an interrupt | handler and parameter stored separately; spurious ids | a handler runs with its own parameter; every acknowledge is ended |
| MMU, caches (`mmu.c`, `cache_v7.c`) | section table; cache lines | set-up; clean and invalidate ranges | every DMA user | partial lines at the ends of a range | DMA and CPU see each other's data |
| Timers (`timer.c`, `board.c`) | down counter, tick | `__udelay`, `get_timer`, `timer_get_us`, tick handler | everything that waits | counter wrap, 32-bit overflow | a delay is never shorter than asked |
| UART (`drv_uart.c`, `ns16550.c`) | IER, IIR, FIFO | handler, control, getc, putc | console, finsh | interrupt kinds, masked or not | every received byte is read |
| MMC host, TF card (`sunxi_mmc.c`, `drv_tf.c`) | host registers, `fatal_err`, card state, error count | `send_cmd`, data transfer, clock update, request, card detection thread | SD stack of the kernel | timeouts, stop command after error, plug and unplug during requests | a request reports the error it met |
| Watchdog (`drv_wdt.c`, `sunxi_wdt.c`) | mode and control registers, stored timeout | init, control, start, stop, keep-alive, reboot | board reset | clamping, rounding, overflow of seconds to milliseconds; a start in four register accesses without a lock | on or off as the last call said, on an interval somebody asked for |
| RTC (`drv_rtc.c`, `rtc-sun6i.c`) | two calendar registers, stores under way | read, set | finsh | two reads and two stores that may straddle midnight; a store that outlives the call | a time that existed; set as if at once |
| SPI (`drv_spi.c`, `sunxi_spi.c`) | module clock, FIFO, chip select | configure, transfer in bursts | slave, bus lock | a wait without timeout, FIFO limit, stores to a module that is off, rounding of the rate | every message ends with the slave's bytes |
| GPIO, I2C (`sunxi_gpio.c`, `pinmux.c`, `drv_i2c.c`) | registers of a bank, shared by all its pins | set, get, direction | two I2C buses | unlocked read-modify-write | a line is as its bus asked |
| PWM, clocks | registers | configure | backlight command, start-up | rounding | never faster than asked |
| LCD (`drv_lcd.c`, `sunxi_display.c`) | two frame buffers, index, the mixer's address | update; set-up | display engine, updating threads | write to the shown buffer; two updates at once | what is shown is complete |
| Start-up (`board.c`, `main.c`) | which device is ready | init calls in order | all | order | nothing used before it is ready |

Section 6 says what of this is not modelled, and why.

## 2. The modules

| Module | Models | Uses |
|---|---|---|
| `FrameFifo` | abstract: a bounded FIFO channel | |
| `EmacRx` | Ethernet reception | refines `FrameFifo` |
| `EmacTx` | Ethernet transmission, with the set-up of its ring by a restart | refines `FrameFifo` |
| `Emac` | reception composed with the phy thread, link state, restart | extends `EmacRx` |
| `PhyLink` | PHY set-up, negotiation, the MAC's speed and duplex | |
| `Threads` | abstract: threads as sequential programs | |
| `IrqSwitch` | interrupt entry and exit, context switch, levels | refines `Threads` |
| `IrqDispatch` | GIC, `isr_table`, IRQ dispatch, drivers masking and unmasking | |
| `MmcHost` | SD/MMC commands, FIFO transfer, clock and width changes | |
| `TfCard` | the TF card driver's monitor, mounting and error count | |
| `Udelay` | busy waiting on the reloading tick timer | |
| `Watchdog` | the watchdog under several threads | |
| `RtcClock` | reading and setting the running calendar | |
| `Rates` | the dividers of the card, dot and SPI clocks, against a search | |
| `GpioBank` | two bit-banged I2C buses in one bank of pins | |
| `SpiBus` | SPI messages in bursts through the FIFO | |
| `Uart` | reception by interrupt | |
| `CacheRange` | flush and invalidate of a DMA buffer | |
| `LcdBuffers` | the double buffer of the panel | |
| `Devices` | the ten small drivers above in one run | extends them |
| `EmacProofs` | the theorems about `EmacRx` and, across restarts, `Emac` | |
| `EmacTxProofs`, `IrqSwitchProofs`, `IrqDispatchProofs`, `TfCardProofs`, `MmcHostProofs` | the theorems about the module of the same name | |
| `DeviceProofs` | the theorems about `Udelay`, `Watchdog`, `RtcClock`, `PhyLink`, `Rates` | |
| `SharedProofs` | the theorems about `GpioBank`, `LcdBuffers`, `CacheRange` | |

Definitions marked `Fault:` are not part of a model: each is a variant of the
definition after it with a plausible mistake in it, and `PROJECT.json`
("mutants") says which property catches it.

### EmacRx

State: `own` and `buf` are the descriptors (`status` bit 31, and the length
and buffer), `rxcur` is `priv->rx_currdescnum`, `dmacur` the DMA's own
cursor, `rxp` bit 8 of `EMAC_INT_STA`, `mbox` the messages for this device in
the Ethernet thread's mailbox, `held` the locals of `_emac_rx`, `rcvd` a
history of the pbufs handed up. A frame is its number on the wire and the
length the MAC reports.

`DmaReceive` is the hardware; `IsrReady`, `IsrAck` are the two statements of
`_enet_isr`; `ErxWake` is the kernel's Ethernet thread; `ErxRecv` is
`_sun8i_eth_recv` with the test of its result in `_emac_rx`;
`ErxAllocFail` and `ErxCopyFree` are the two outcomes of `pbuf_alloc`, the
second with copy, `_sun8i_free_pkt` and `netif->input`. While the handler is
between its two statements no thread moves (`isr = "idle"`).

The driver copies and frees at `rxcur`, read anew; nothing else changes it,
which is what `HeldIsHead` is about.

### EmacTx

`etx` walks through `_emac_tx`: one `EtxCopy` per pbuf, then the publication
of the descriptor, the cursor and the DMA start. Content is the sequence of
pbuf parts a buffer holds, so that a torn, mixed or repeated packet shows.
`phy` walks through what `_sun8i_emac_eth_init` does to the transmit side,
store by store and descriptor by descriptor, in a thread of lower priority,
also when its soft reset times out and the next one is made without a reset
(`sun8i_emac.c:381`):
between any two of its steps the sender may send whole packets.

The driver never tests the own bit, hands all descriptors to the DMA at
start-up, and guards the ring with nothing. Each way this goes wrong has a
name in `seen`: `lapped` (a packet begun in a descriptor still to be sent),
`early` (begun while the DMA walks over the empty ring), `restart` (the ring
set up anew), `stray` (the DMA started between the reset and the store of the
ring's address). The properties say what holds without each: packets stay
whole and single through a restart as long as none is lapped or stray;
without any of them transmission is a FIFO and everything goes out.

### Emac

The receive side plus: `phy` (the program counter of `phy_thread_entry` and
of `_sun8i_emac_eth_init`, one label per store to shared state), the registers
that start the DMA and enable the interrupt, the descriptors re-owned in the
cache but not yet flushed (`dirty`), the link as the PHY, the thread, the
request and the network interface see it. What the interface believes before
the first report is the kernel's doing (`eth_device_init`), so `netlink` starts
either way. The phy thread has priority 28 and
runs only while the Ethernet thread sleeps, or blocks in `pbuf_alloc`
(`"block" \in Allocs`). A reading of the link may fail, which reads as down.
The soft reset may time out: the bit stays set and the DMA off
(`rxdma = "resetting"`, `SoftReset`), until the next restart finds the reset
over and resets anew, or still under way, in which case it goes on without one
(`ResetUnderWay`, the test at `sun8i_emac.c:381`). A DMA error may come while
the receive DMA is not running, from the transmit DMA. `faults` names what
nothing in the driver repairs: the ring set up during a copy (`torn`) and a
frame left in the ring for want of a pbuf (`starved`). The pbuf of a
runt has no frame in it (`rx_runt`), so `NeverBackwards` orders the others.

`Resumes` says that after a DMA error reception runs again with its interrupt
enabled, or is in a soft reset that never ended. `LinkFollows` has two
premises: no DMA error (the finding `emac_link_after_error`), and that a link
was reported at least once. Without the second an interface that starts as up
with no cable stays up, as `initlink` starts as 0 and the poll sees no change.

### PhyLink

The PHY negotiates whenever a cable is plugged in; `sun8i_phy_init` resets it
and makes it advertise what it has; `_sun8i_emac_eth_init` reads the common
modes (`genphy_parse_link`) and sets speed and duplex of the MAC
(`sun8i_adjust_link`), at start-up and after a DMA error only. The link
thread reads the link, never the mode. A register whose reading times out
reads as all ones (`lnkFailed`). `MacAsNegotiated` compares the MAC with the
order of 802.3 (`Best`), for any history of cables and restarts.

### IrqSwitch

A thread's program state (`Ctx`) is whose it is, how far it came, the I bit
and the levels its open `rt_hw_interrupt_disable` calls returned. It lives in
`cpu`, on the IRQ stack (`irqstk`) or in the frame on its own `stack`, and
`tcb` is `thread->sp`, which may point into any stack: a mistake in from, to
or the flag shows as a frame in the wrong place. `Switch` and `IrqSwitch` are
the two switches; `rt_schedule` is external and picks any other thread, so
the result does not depend on priorities.

### IrqDispatch

Per vector the driver's progress (`step`), the two fields of its `isr_table`
entry, its bits in the GIC (`enabled`, `target`, `group`, `active`) and its
device (`device`). Each store of `rt_hw_interrupt_install`,
`enable_interrupt` and `disable_interrupt` is an action, because a driver's
thread may be interrupted between any two; `Enter`, `Acknowledge`, `Handle`
and `EndOfIrq` are the steps of `vector_irq` and `rt_hw_trap_irq`, during
which no thread runs. `gic_init` clears neither the enable bits nor the targets;
that no vector is enabled at start is the reset state of the distributor, which
the model takes for granted. The level-triggered device may withdraw its request at
any moment, so that the acknowledge reads a spurious id. The save and restore
of the interrupted thread is the subject of `IrqSwitch`.

### MmcHost

The block layer holds the host mutex over a call, so the driver is one
sequence (`pc`) and the controller (`hw`, `fifo`, `rint`, `update`) runs
beside it. Interrupt bits and FIFO words carry the number of the command that
caused them, which the code cannot see: the properties use it to tell an
answer from one left behind. Every wait is a count of polls (`left`), shared
by the words of a transfer as in `mmc_trans_data_by_cpu`. `late` records that
a clock update was given up and may still end.

### TfCard

`mon` is where `rt_hw_tf_init` or `sd_thread_entry` is, `status` and `plug`
its own and the driver's copy of what was detected, `card` the block layer's.
`mmcsd_change` toggles: it removes the card if there is one and looks for one
if not. The answer comes through a mailbox and may come after the five
seconds the monitor waits (`late`). `Request` is `mmc_mci_request`, with its
stop command after several blocks, which `sunxi_mmc_send_cmd` always grants.

### Udelay

The timer wraps every `Period` counts; between two readings any number of
reloads may pass (`turns`), as when the caller is preempted. `slack` collects
what no reading can show, and the overshoot of each chunk. The model assumes
that at least one count passes between two readings: two equal readings would
be taken for a whole period (`timer.c:73`). Whether the reload takes a count of
its own is left open (`Period = Load` or `Load + 1`).

### Watchdog

`wdtCall` is where each thread is in a start: the timeout looked up, the mode
register read, stored with the interval, the counter reloaded, the register
read again and stored with the enable bit. A stop, a keepalive or another
start may fall between any two. The seconds are multiplied in an int that
wraps (`Wrapped`) before they are clamped. The histories say which starts ran
since nobody was inside one (`wdtStarts`) and whether a stop fell inside
(`wdtCut`).

### RtcClock

`Tick`, `StoreTime` and `StoreDate` are the clock, which runs on and carries
out a store some time after it was made, also after the call gave up;
`rtcPc` walks through `sun6i_rtc_settime` and `sun6i_rtc_gettime`, whose
loop reads both registers twice. `rtcTrue` is a clock that is set at once,
`rtcShown` all that the registers showed during a reading. The packing of
fields into the registers is abstracted: a date is a day, a time a tick of it.

### Rates

`SetMmc`, `SetDot` and `SetSpi` compute the setting of `mmc_set_mod_clk`,
`sunxi_lcdc_pll_set` and `sunxi_spi_set_speed` as the code does, by halving,
by a loop over the dividers, by a division and a logarithm; the properties
search all settings the registers have. A rate is refused when its divider
does not fit after three halvings, or no multiplier is in reach; the loop
for the dot clock never tries the greatest multiplier with a divider whose own
is out of reach, and `DotNotFaster` says that this costs nothing.

### GpioBank

A call on a bus is a list of steps (`bankTodo`): an update reads a register
into `bankRead` and writes it back with the field of its pin changed;
`ReadLevel` reads the level of a pin into `bankGot`. The data register reads as
the level of a pin that is an input (`Shown`), which devices hold low or not
(`held`, any set at any reading), and as what was written of an output. A write
therefore puts the level of every input at that moment into its field, which
shows when the line becomes an output: `gpio_direction_output` does so before
it writes the level. `bankAsked` remembers what every pin was set to last,
`bankCrossed` which fields were written while the other bus was between its
reading and its writing.

`LinesAsSet` says that directions are as asked, that an output drives the
level asked for once the call that made it one is over, whatever was left in
its field while it was an input, and that a level read is the one driven.
Between the two stores of `gpio_direction_output` the line may drive either
level. The code has no lock against lost updates, so the property cannot rule
them out; it says that a field is at risk only by a write of its own that
crosses one of the other bus, only until it is written again, and that no
other pin is.

### SpiBus

`spi_configure` stores speed and mode before it turns the module on; a module
that is off may ignore the stores (`spiLost`). `sunxi_spi_xfer` sends bursts
of one byte less than the FIFO, waits without a timeout and reads. The slave
numbers its answers, so that a byte lost, repeated or read from the burst
before shows.

### Uart

`Cause` is the cause in `UART_IIR`, by priority; `rt_hw_uart_isr` is
`IsrEnter`, `IsrGetc` and `IsrReturn`; `SwitchReceive` is `uart_control`
store by store. The line may send at any time. `uartWatched` follows one
character through the FIFO.

### CacheRange

`memory` and `cached` are words and lines; the cache loads and writes back
lines whenever it likes (`Fill`, `Evict`), also in the middle of a loop. A
buffer goes from the CPU through `flush_dcache_range` to the DMA, and through
`invalidate_dcache_range` back, one action per line. `bufLatest` is what
every word should read as. A range whose ends are not on a line is not
invalidated (`check_cache_range`), and stale lines stay: the property leaves
out the words the DMA wrote to such a buffer, and nothing else.

### LcdBuffers

`UpdateBegin` to `UpdateBase` are the steps of `RTGRAPHIC_CTRL_RECT_UPDATE`
of one painter: the index is read, flipped and stored, the copy begins and
ends, the mixer is given the buffer of the index, read anew. The mixer takes
it over at `FrameStart`. `lcdMixed` says that an update began before the one
before was shown, or during it: the driver does not wait for the frame.

### Devices

The ten small drivers share no state, so a behaviour of `Devices` exercises one
of them (`part`); the run covers each with its own actors, and the fairness of
each is that of its own module.

## 3. The runs

| Run | Question | Bounds | Result |
|---|---|---|---|
| `rx` (6) | is reception a bounded FIFO that loses no wake-up, with failing allocations and every length class? | 3 descriptors, 5 frames, lengths on both sides of 0x40 and of 2044, a mailbox of one | holds |
| `rx_runt` | is a runt kept from the stack, as "Bad Packet (runt)" says? | 2 descriptors, 3 frames | violated |
| `tx` (4) | what survives a sender nobody holds back and a restart under its feet, and is transmission a FIFO without them? | 3 descriptors, 4 packets of 1 or 2 pbufs, 2 restarts between any steps, which may time out | holds |
| `emac` (5) | do restarts leave ring and cursors in step, does reception go on with no wake-up lost, does an interface that was told of a link follow the cable until the first error? | 2 descriptors, 3 frames, 2 DMA errors, 3 cable changes or failed readings, resets may time out, allocations may fail or block | holds |
| `emac_link_after_error` | and after a DMA error ("restat emac")? | 1 error | violated |
| `irq_switch` (2) | is context switching transparent? | 3 threads, 2 steps each, critical sections 2 deep | holds |
| `irq_dispatch` (3) | can an interrupt meet a driver that is not ready, or get lost? | 2 vectors, 2 interrupts each | holds |
| `mmc_host` (4) | is a command ever answered by what another left behind, does the driver know the controller's configuration, does every call return? | 2 commands of 7 kinds, 1 poll per wait, blocks and FIFO of 1 word, 3 clocks of which one cannot be set, 2 widths | holds |
| `tf_card` (4) | is a card found, mounted, dropped only for cause, and its removal noticed? | limit of 2 errors, 3 insertions or removals, 1 late answer, requests of one and several blocks | holds |
| `devices` (12) | does each small driver do what it is asked, under its own concurrency? | below | holds |
| `spi_rate` | is a slave never clocked faster than its "Maximum SCK rate in Hz"? | five rates | violated |
| `mac_speed` | does phydev have the mode of the partner while the link is reported as up? | 2 cables, 2 restarts, 4 partners | violated |

The number after a name is that of its properties; a run that is violated has
one. `devices` gives each part its own instance: a timer of 4 counts (loaded
with 3, 2 counts per microsecond, 5 microseconds in chunks of 2, up to 2
reloads between readings); two threads at a watchdog whose second is 10 ms in
an int of 12 bits, asked for 0, 7, 30 and 300 s, the last of which wraps; days
of 4 ticks, 2 calls; rates on both sides of where a divider or the answer
changes (the theorem covers the others); two buses of one
line; messages of up to 5 bytes and a FIFO of 3; a UART of 3 characters that
asks at 2; 2 cables and 2 restarts with four kinds of partner; 4 words in
lines of 2, buffers of one line, of two and across two; two painters and
3 frames.

Why the bounds are enough. A ring of 2 or 3 descriptors wraps, fills and
empties within 4 or 5 frames, and cursors of a larger ring meet in no new way
(for reception the proofs do not depend on it). Lengths matter only through
two comparisons, so one value on each side of both is enough. A mailbox of
one message is the hardest for wake-ups. Two errors, or two restarts of the
sender's ring, give a restart after a restart, and one after a reset that timed out. Three threads are the fewest with which one interrupt can schedule
away from a thread that never ran. Two vectors give one that is served while
the other becomes pending, two interrupts one raised while the first is
served. Two commands give one that finds what the other left; with a FIFO of
one word both its limits are met by a single word, and one poll gives the
polled-too-early and the last-poll case. Three swaps give a card that is
exchanged and pulled out. Two threads in an unlocked sequence give every
order of its steps; 4 words in lines of 2 give a buffer that shares a line at
both ends. `MaxFrames`, `MaxErrors`, `MaxToggles`, `MaxRestarts`, `MaxPbufs`,
`MaxSteps`, `MaxNest`, `MaxRaised`, `MaxCmds`, `MaxSwaps`, `MaxLate`,
`MaxUsec`, `MaxTurns`, `MaxDay`, `MaxCalls`, `MaxLen`, `MaxMsgs`, `MaxPlugs`
and `MaxStarts` are bounds of the models, not of the code.

`CHECK_DEADLOCK FALSE` is set where the system may rest for good: no frame, no
command, no card, the delay over.

### Findings

- `rx_runt`: `_sun8i_eth_recv` calls a frame below 0x40 bytes a bad packet and
  sets no packet pointer, but returns its positive length; `_emac_rx` copies
  from the null pointer and hands the pbuf up.
- `emac_link_after_error`: after a DMA error the thread reports link down
  itself and leaves `initlink` at 1; the next poll sees no change, and the
  interface stays down until the cable is pulled and plugged.
- `spi_rate`: `sunxi_spi_set_speed` rounds the divider down, so that a slave
  whose "Maximum SCK rate" (`include/spi.h:175`) is 5 MHz is clocked at 6 MHz.
  `RatesKept` says what holds: less than twice the rate.
- `mac_speed`: `phydev->speed` and `->duplex`, the "partner speed & duplex"
  of `include/phy.h:164`, are read when the MAC is set up; a cable plugged in
  later is reported as up while phydev and the MAC stay at the 10 Mbit/s half
  duplex of a link that was down.

Met while modelling, and no promise of the repository to hold against them:

- `enable_interrupt` says "set IRQ as non-secure" (`interrupt.c:32`) of a call
  that clears the vector's bit in `IGROUPRn` (`gic.c:100`), which is group 0,
  the secure one (`gic.h:80`, `gic.c:215`); the code runs in the secure state
  throughout, and works.
- A request of several blocks ends with a stop command that always succeeds
  and resets `mmc->err`: with such requests alone a missing card is never
  noticed, which is why `RemovalNoticed` assumes requests of one block from
  some point on. A card exchanged between two requests is not noticed either.
- A detection that outlasts the monitor's wait lets `status` and the card
  part; a failed `dfs_mount` is not tried again.
- After a failed change of clock (`fatal_err`), asking for the same clock
  again does nothing: the failed one was stored. A clock update that
  `mmc_update_clk` gave up may end during a later command and raise its bits
  (`late`): `OwnAnswer` leaves those behaviours out.
- A watchdog asked for more seconds than fit in an int as milliseconds may
  come out as one second (`TimeoutKept`).
- A dot clock of 64 MHz or more finds no setting within the multipliers,
  although the loop is to pick the closest lower clock; the video PLL is then
  turned off. `DotNotFaster` says that this is so from 64 MHz on and not below.
- The link is reported when it differs from `initlink`, which starts as 0
  (`drv_emac.c:213`). RT-Thread's network interfaces start as up unless the
  driver asks otherwise, and the driver does not: with no cable at start the
  interface stays up until a cable has been plugged once. `LinkFollows` leaves
  that case out.
- Two I2C buses have a lock each and their pins in one bank: one may undo what
  the other writes (`bankCrossed`). `gpio_direction_output` drives the line
  with whatever level was left in its field, between its two stores.
- An update of the panel that begins before the one before was shown, or
  during it, may show a mixed frame (`lcdMixed`); stores to an SPI module that
  is not yet on may be lost (`spiLost`). `FramesWhole` and `MessagesAnswered`
  say what holds without these and do not detect them.
- A failed reading on the MDIO bus is taken for a register of all ones, which
  reads as every mode.

## 4. Fairness

`EmacRx`: weak fairness of the handler (the GIC holds a pending level until
served) and of the Ethernet thread (priority above everything that runs long).
`EmacTx`: weak fairness of the sender and of the DMA. `Emac`: the same as
`EmacRx`, and of the phy thread, which is justified because frames, errors and
cable changes are finite in a behaviour and threads of higher priority block;
`pbuf_alloc` may block but not for ever. No fairness is assumed of frames,
cable, errors, or of anybody having a packet to send. `IrqSwitch` claims
safety only. `IrqDispatch`: weak fairness of entry and dispatch (the core
takes a signalled interrupt, threads mask interrupts for bounded times), none
of the devices or the drivers. `MmcHost`: weak fairness of the calling thread
only; the controller and the card owe nothing, since `Returns` is about their
silence. `TfCard`: weak fairness of the detection thread and of the monitor,
both threads that run when nothing above them does; requests are fair only
where `RemovalNoticed` says so. `SpiBus`: weak fairness of the caller inside a
transfer and of the module that clocks what it was given. `Uart`: weak
fairness of the handler and of the FIFO's timeout, none of the line or of the
serial layer: characters may come for ever. The other parts of `Devices`
claim safety only.

## 5. What is proved

For every value of the constants that meets the named assumptions
(`RxConstants`, `RxLengths`, `RxAllocation`; `TxConstants`; `SwitchConstants`;
`DispatchAssumption`; `HostAssumption`; `TfAssumption`; `UdelayAssumption`;
`WatchdogAssumption`; `RtcAssumption`; `RatesAssumption`; `CacheAssumption`;
`LcdAssumption`; `PhyLinkAssumption`; `GpioBank` needs none). What they ask for is that
sizes are positive, sets have the values the code compares, a buffer is an
interval of words, and the oscillator is not below the lowest SPI rate and fits
in an int.

- `EmacProofs`, reception by itself: `TypeCorrect`, `RingSafe`, `CopySafe`,
  `InOrderDelivery`, `WakeupSafe`, `RefusedStays`, `RefinesFifo`. The
  inductive invariant joins types, `RingOwnership` (the CPU's descriptors are
  the interval from `rxcur` to `dmacur`), `HeldIsHead` and the numbering of the
  frames in that interval: without the interval, freeing at `rxcur` could not
  be shown to free the oldest frame, and without `HeldIsHead` the copy could
  race with the DMA. The wake-up property needs its own invariant that also
  covers the handler between its two statements. The refinement maps the
  interval to the queue; a frame refused by recv never leaves it.
- `EmacProofs`, across restarts: `RestartResyncs`, `RestartWakes`,
  `RestartOnward`. `RestartInv` says where the restart has come: the DMA and
  the interrupt are off inside it and during a reset that did not end (`Stopped`), the Ethernet thread sleeps unless
  the ring is torn (`Asleep`), the descriptors are the DMA's in the cache and
  then in memory (`Rewritten`), and the interval holds at all times except
  between the flush and the store of the cursors (`InStep`), where no cursor
  means anything. Every step that is not the phy thread's is a step of
  `EmacRx`, whose lemmas are used again. A wake-up is not lost because the first
  descriptor is the DMA's when the restart ends; what is missing before is
  that the handler posts before it acknowledges (`Posted`). For the order,
  `OnwardInv` relates the frames handed up, those in the interval and the
  number on the wire.
- `EmacTxProofs`: `TypeCorrect`, `TxWhole`, `TxOnce`, `TxRefinesFifo`. `Clean`
  says, as long as the ring was neither lapped nor strayed from, that the
  parts copied so far are in a buffer that is not in flight (`Copied`), that
  what is in flight is a packet (`WaitsWhole`), of a number nobody else has
  and that has not gone out (`WaitsOnce`). It holds through every store of a
  restart because only a publication brings a descriptor into flight: what
  the restart flushes has length zero. For the refinement, `FifoInv` says that
  without hazards the DMA is either still on its walk over the empty ring
  (`WalkOver`) or owns exactly the descriptors between the cursors
  (`RingOrder`).
- `IrqSwitchProofs`: `TypeCorrect`, `ContextsSafe`, `SectionsSafe`,
  `RefinesThreads`. Added to the invariants: the levels saved in any frame
  read 0, 1, 1, ... from the outside in, `rt_interrupt_nest` is 1 exactly
  inside the handlers, and the interrupted frame has interrupts enabled
  (which is why a thread in a critical section is never preempted).
- `IrqDispatchProofs`: `TypeCorrect`, `AlwaysReady`. The invariant adds that
  a driver past its installation has both fields of its own in the table, and
  that the vector acknowledged was signalled, hence enabled, hence unmasked.
  `TypeCorrect` includes that exactly the vector in service is active, which
  is what "every acknowledge is ended" means between interrupts.
- `MmcHostProofs`: `OwnAnswerSafe`, `OwnWordsSafe`, `ConfigSafe`. `Answered`
  says, for every interrupt bit that is raised, how far the controller must
  have come (`Progress`), and that without a clock update given up none is
  left when a command begins; `Transferred` counts the words of a read, moved
  by the card, taken by the CPU or still in the FIFO, without which a reset
  could leave words for the next command; `Configured` follows clock and
  width through the two updates of a change.
- `TfCardProofs`: `MonitorInStep`, `DroppedForCause`. The invariant counts
  detections asked for, running and answered: without a late answer at most
  one of them is outstanding, and only while the monitor waits for it.
- `DeviceProofs`, the busy wait: `DelayTypeCorrect`, `NeverEarly`,
  `NeverLate`. The invariant says that the counts passed and the counts still
  to wait for bound what was asked from both sides, chunk by chunk, with
  `slack` as the margin.
- The watchdog: `WdtTypeCorrect`, `WatchdogSafe`. `CoversCalls` carries the
  interval of a start through its two readings and stores: what the mode
  register holds, and what any thread has read of it, belongs to one of the
  starts under way unless a stop fell inside. The types include that every
  timeout looked up has a code, so that the search in `wdt_timeout_map` ends.
- The clock: `RtcReadAtOnce`, `RtcSetAsAsked`. At most one store is on its way,
  and after the wait of a call only its own (`Outstanding`); the true time is
  what the registers will read when it has arrived (`TrueOnTheWay`); a reading
  that is still good is one the registers showed, or they have run on from it
  through all times since (`ReadSoFar`), which with less than a day gone
  excludes that the second reading of the date is the same by accident.
- The link: `LinkSafe`. A link that is up is up with the partner that is there
  (`UpWithPartner`), a configured PHY advertises all it has, and what
  `genphy_parse_link` finds in the common modes is the best by the order of
  802.3 (`ResolvedBest`).
- The dividers: `RatesSafe`, for every rate that may be asked for and every
  oscillator and PLL. Every bound of a division is turned into one of a product
  (`DivisionUnder`, `CeilUnder`). Halving three times, rounded up each time,
  is dividing by eight, rounded up once (`HalvedUnder`). For the dot clock,
  with the last divider `p` whose multiplier `n` is within 127, `n` is at least
  `127 p / (p + 1)` (`LastWithinReach`), so that no untried setting comes closer
  (`DotReached`). That the power of two is a function, and that its logarithm
  exists, is an induction over data: it is done with the least element of a
  set of numbers (`Smallest`, from the well-foundedness of `<`), which needs
  no operator as a parameter, and shown once for all functions that iterate
  another (`Iterated`).
- `SharedProofs`: `LinesSafe`, `FramesSafe`, `BuffersSafe`. For the bank, a
  copy has every direction and every settled output as asked but for crossed
  fields (`CopiesAsSet`), a level is read only of a line whose call has made it
  an input (`InputsAsked`), and belongs to the bus that read it (`LevelsOwn`);
  the levels of inputs in a copy are arbitrary. For
  the panel, `IndexInStep` says that the buffer of the index is what the
  mixer will be given however painters overlap, and `OneUpdate` what a single
  update has to itself; the first is needed to show that a frame start without
  updates shows a whole frame after any mixture. For the cache every word of
  the buffer is followed on its way (`OnItsWay`): current in its line (`Kept`),
  then in memory behind the loop's cursor (`Flushed`), then kept again behind
  that of the invalidation, but for the words the DMA wrote to a buffer whose
  ends are not on a line; the lemmas about lines are arithmetic of `%`.

Where a run names the same property, the run shows it on a small instance and
the theorem for every instance. Some invariants are only proved, no longer
run: the types of `EmacRx`, `IrqSwitch` and `TfCard`, `SectionsSafe`,
`RefusedStays`.

With these, every safety property that a passing run checks is a theorem.

Only model-checked: liveness (`Drained`, `AllSent`, `Resumes`,
`LinkFollows`, `Answered`, `Returns`, `CardMounted`, `RemovalNoticed`,
`MessagesAnswered`, `InputServed`), which the prover does not handle. `SpiBus`
and `Uart` have no other properties, so nothing about them is proved. The
properties of the runs that are violated are of course no theorems.

## 6. Plan and limits

Done: all three parts of the Ethernet driver with the PHY, context switch,
interrupt dispatch, MMC host and TF card, and the concurrent core of every
small driver; their safety as theorems. Next: safety of the bursts of `SpiBus`
(a byte read is the answer to the byte sent) and of the FIFO of `Uart`, as
invariants and then theorems; and reception across a restart as a FIFO that
may drop what is in the ring, which would say more than `NeverBackwards`.

Not modelled, and why:

- MMU: a section table filled by one loop from a constant table before any
  thread runs. The whole-cache operations of `cache_v7_asm.S` run only then.
- PWM: its only caller passes one fixed period, for which the search of the
  prescaler has one answer.
- `sunxi_display.c` beyond the dot clock and the buffer address: registers
  written once at start-up, in a fixed order, of a display engine whose
  documentation is not in the repository; `videomodes.c` parses a boot string.
  The clock of DE2 is set from constants.
- The sending side of the UART: a poll and a store; two threads that both
  find one free place lose a character, which the kernel's lock of the
  console prevents or nothing does.
- Gigabit, `BMSR_ESTATEN` and forced modes of `phy.c`, which the internal PHY
  does not have or nobody asks for; the bus list of `miiphyutil.c`, which has
  one bus; software interrupts and priorities of the GIC, which nobody uses.
- Board start-up and applications: they call the parts above in the order of
  the kernel's tables, mount a file system and blink. `cpu_info.c` prints.
- The 64-bit division of `div64.c`: TLC computes with 32 bits.
- Exception handlers that only stop the processor, `sunxi_mmc_getcd`,
  `sunxi_spi_release_bus` and `sun8i_emac_eth_stop`, which nobody calls.
- The RT-Thread kernel and lwIP, empty submodules: external, as far as the
  drivers use them.
- Vendored headers. They are most of the lines of the repository
  (`mach-types.h`, `pci_ids.h`, `libfdt.h`, `pci.h`, `image.h`, ... of U-Boot):
  declarations, many of hardware this board has not, and no behaviour of the
  port. A share of the repository's lines therefore says little about how much
  of the port's own code is modelled; the table of section 2 does.
