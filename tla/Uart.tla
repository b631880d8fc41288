-------------------------------- MODULE Uart --------------------------------
(***************************************************************************)
(* Reception on the UART: driver/drv_uart.c over uboot/ns16550.c.          *)
(*                                                                         *)
(* The receive FIFO asks for service when it holds Trigger characters, or  *)
(* fewer that have waited for the time of four; only the receive interrupt *)
(* is ever enabled.  A store to the line control register while a          *)
(* character comes in is refused, which asks for service as well.          *)
(* Characters may come in at any moment, and without end.                  *)
(***************************************************************************)
EXTENDS Naturals

CONSTANTS FifoSize,  \* characters of the receive FIFO
          Trigger    \* UART_FCR_TRIGGER_8

ASSUME UartAssumption == Trigger \in Nat \ {0} /\ FifoSize \in Nat /\ Trigger <= FifoSize

VARIABLES uartAt,      \* what the serial layer made of the device
          uartRx,      \* characters in the receive FIFO
          uartLate,    \* they waited for the time of four
          uartBusy,    \* a store to the line control register was refused
          uartIsr,     \* the cause rt_hw_uart_isr has read, "none" outside
          uartWatched  \* history: the place in the FIFO of a character that
                       \* came in, 0 for none

uartVars == <<uartAt, uartRx, uartLate, uartBusy, uartIsr, uartWatched>>

ReceiveEnabled == uartAt \in {"enabled", "open"}
Unmasked == uartAt \in {"open", "cleared"}

UartInit ==
    /\ uartAt = "new" /\ uartRx = 0 /\ uartLate = 0 /\ uartBusy = 0
    /\ uartIsr = "none" /\ uartWatched = 0

-----------------------------------------------------------------------------
(* The line.                                                               *)

\* A full FIFO drops the character.
Receive ==
    /\ uartRx' = IF uartRx < FifoSize THEN uartRx + 1 ELSE uartRx
    /\ uartWatched' \in {uartWatched} \cup
          IF uartWatched = 0 /\ uartRx < FifoSize THEN {uartRx + 1} ELSE {}
    /\ UNCHANGED <<uartAt, uartLate, uartBusy, uartIsr>>

Wait4 ==
    /\ uartRx > 0 /\ uartLate = 0 /\ uartLate' = 1
    /\ UNCHANGED <<uartAt, uartRx, uartBusy, uartIsr, uartWatched>>

-----------------------------------------------------------------------------
(* The serial layer, when no interrupt is being served.                    *)

Becomes(from, to) == uartIsr = "none" /\ uartAt = from /\ uartAt' = to

\* NS16550_init, when the device is opened first: both FIFOs are cleared.
UartConfigure ==
    /\ Becomes("new", "closed")
    /\ uartRx' = 0 /\ uartLate' = 0 /\ uartWatched' = 0
    /\ uartBusy' \in {0, 1}
    /\ UNCHANGED uartIsr

\* RT_DEVICE_CTRL_SET_INT and RT_DEVICE_CTRL_CLR_INT, store by store.
SwitchReceive ==
    /\ \/ Becomes("closed", "enabled") \/ Becomes("enabled", "open")
       \/ Becomes("open", "cleared") \/ Becomes("cleared", "closed")
    /\ UNCHANGED <<uartRx, uartLate, uartBusy, uartIsr, uartWatched>>

-----------------------------------------------------------------------------
(* rt_hw_uart_isr                                                          *)

\* The cause in UART_IIR, of highest priority.
Cause ==
    IF ReceiveEnabled /\ uartRx >= Trigger THEN "data"
    ELSE IF ReceiveEnabled /\ uartLate = 1 THEN "timeout"
    ELSE IF uartBusy = 1 THEN "busy" ELSE "none"

\* Fault: ir == 0x0c is forgotten.
DrainsData == {"data"}
\* ir == 0x04 || ir == 0x0c
Drains == {"data", "timeout"}

IsrEnter ==
    /\ Unmasked /\ uartIsr = "none" /\ Cause # "none"
    /\ uartIsr' = Cause
    /\ UNCHANGED <<uartAt, uartRx, uartLate, uartBusy, uartWatched>>

\* uart_getc of rt_hw_serial_isr, until it returns -1.
IsrGetc ==
    /\ uartIsr \in Drains /\ uartRx > 0
    /\ uartRx' = uartRx - 1 /\ uartLate' = 0
    /\ uartWatched' = IF uartWatched = 0 THEN 0 ELSE uartWatched - 1
    /\ UNCHANGED <<uartAt, uartBusy, uartIsr>>

\* For "busy" the return follows the reading of UART_USR.
IsrReturn ==
    /\ uartIsr # "none" /\ (uartIsr \in Drains => uartRx = 0)
    /\ uartIsr' = "none"
    /\ uartBusy' = IF uartIsr = "busy" THEN 0 ELSE uartBusy
    /\ UNCHANGED <<uartAt, uartRx, uartLate, uartWatched>>

UartIsr == IsrEnter \/ IsrGetc \/ IsrReturn
UartNext == Receive \/ Wait4 \/ UartConfigure \/ SwitchReceive \/ UartIsr

\* The interrupt is served, and the timeout of the FIFO comes; no character
\* has to come and nobody has to open the device.
UartSpec == UartInit /\ [][UartNext]_uartVars /\ WF_uartVars(UartIsr) /\ WF_uartVars(Wait4)

-----------------------------------------------------------------------------
(* Properties *)

\* A character in the FIFO of an open device is read, however few came with
\* it, and also if it came in after the handler found the FIFO empty; and a
\* refused store asks no longer than until the handler runs with an empty FIFO.
InputServed ==
    /\ uartAt = "open" /\ uartWatched > 0 ~> uartAt # "open" \/ uartWatched = 0
    /\ uartAt = "open" /\ uartBusy = 1 ~> uartAt # "open" \/ uartBusy = 0 \/ uartRx > 0
=============================================================================
