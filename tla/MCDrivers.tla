----------------------------- MODULE MCDrivers -----------------------------
(***************************************************************************)
(* A sketch on one of three drivers of the Arduino core: Serial, the       *)
(* interrupts of the pads, SoftwareSerial.  They share no state, so that   *)
(* one run checks each of them alone.                                      *)
(***************************************************************************)
EXTENDS Naturals, Sequences

CONSTANTS Drivers,        \* those the sketch may use, of "uart", "gpio", "serial"
          MaxOut, MaxIn,  \* bounds: bytes out of both serial drivers, and into Serial
          MaxHeard,       \* bound: bytes into SoftwareSerial
          LinSize, RingSize, Sizes,
          Pad, MaxPads, Modes, MaxAttach, MaxEdges,
          Bits, Parity, Size

VARIABLES driver,
          tx, tx_idle, w, rx, ring, r, stored, got,
          gpio_isr_entries, gpio_num_isr, gpio, call, isr, attached, owner, doubled, attaches, edges,
          port, timer, pci, sTx, sRx, sW, reading, peer, out, seen, queued, heard, sGot, broken

(* On some boards a pin has the number of its pad, on others that of the   *)
(* next one.                                                               *)
PinMaps == {[p \in Pad |-> p], [p \in Pad |-> IF p + 1 \in Pad THEN p + 1 ELSE 0]}

U == INSTANCE Uart
G == INSTANCE GpioInterrupts
S == INSTANCE SoftSerial WITH MaxIn <- MaxHeard, tx <- sTx, rx <- sRx, w <- sW, got <- sGot

ASSUME DriversAssumption == U!UartConstants /\ G!GpioConstants /\ S!SerialConstants

uartVars == <<tx, tx_idle, w, rx, ring, r, stored, got>>
gpioVars == <<gpio_isr_entries, gpio_num_isr, gpio, call, isr, attached, owner, doubled, attaches, edges>>
serialVars == <<port, timer, pci, sTx, sRx, sW, reading, peer, out, seen, queued, heard, sGot, broken>>
vars == <<driver, uartVars, gpioVars, serialVars>>

Init == driver \in Drivers /\ U!Init /\ G!Init /\ S!Init

Uart   == driver = "uart"   /\ U!Next /\ UNCHANGED <<driver, gpioVars, serialVars>>
Gpio   == driver = "gpio"   /\ G!Next /\ UNCHANGED <<driver, uartVars, serialVars>>
Serial == driver = "serial" /\ S!Next /\ UNCHANGED <<driver, uartVars, gpioVars>>

Next == Uart \/ Gpio \/ Serial

(* A driver that is not used is at rest, where nothing fair is enabled.    *)
FairSpec == Init /\ [][Next]_vars /\ U!Fairness /\ G!Fairness /\ S!Fairness

(* Bound: once both sides of SoftwareSerial have sent at once and a frame   *)
(* was disturbed, nothing is asked of it any more.                         *)
SerialBound == broken # {"duplex", "frame"}

-----------------------------------------------------------------------------
(* Every byte given to Serial is on its way exactly once and in order,     *)
(* however the interrupt and the writer take turns at the queue, with      *)
(* nothing between or behind them but what a last round that asks for too  *)
(* much takes from behind its string; and end() switches off behind the    *)
(* last of them (ap3_uart.cpp:137-147, am_hal_uart.c:832-842, 1069-1083,   *)
(* 1155-1196).                                                             *)
UartSentInOrder == U!SentInOrder /\ U!NothingCutOff

(* ap3_uart.cpp:124: what is printed is the string.                        *)
UartOnlyTheString == U!OnlyTheString

(* The ring of Serial holds what was stored and not read, although         *)
(* read_char looks at head and tail while the interrupt stores             *)
(* (RingBuffer.h:67-99).                                                   *)
UartReadInOrder == U!ReadInOrder

(* ap3_uart.cpp:109: flush() makes sure that the UART has finished.        *)
UartFlushAlwaysReturns == U!FlushAlwaysReturns

(* A callback that runs was attached to the pad it runs for, and has its   *)
(* own argument, while the interrupt comes between any two steps of        *)
(* attachInterrupt and detachInterrupt, unless it finds the entry half     *)
(* written.  Until an entry of the table is moved down, a pad has one      *)
(* entry and its callback is the one last attached, also where a pad is    *)
(* attached again (ap3_gpio.cpp:174, 213-224, 292).                        *)
GpioLatestCallback == G!OnePerPad /\ G!OwnCallback /\ G!LatestCallback

(* Example7_AttachInterrupts.ino:36: another ISR for the same pin          *)
(* overwrites the existing one.                                            *)
GpioOverwritten == G!Overwritten

(* The same, with its argument.                                            *)
GpioOverwrittenWhole == G!OverwrittenWhole

(* An interrupt of a pad in the table that is pending when the handler     *)
(* begins reaches its callback, whatever detachInterrupt has made of the   *)
(* table; an edge that comes after the handler has read its mask may not.  *)
(* One of mode LOW does not go on when the pin that is read for the pad is *)
(* high, on any board (ap3_gpio.cpp:166-189, 292-301).                     *)
GpioEdgeServed == G!EdgeServed /\ G!StormEnds

(* Example7_AttachInterrupts.ino:9-10: it is the value of the pad that     *)
(* ends an interrupt of mode LOW.                                          *)
GpioPadEndsStorm == G!PadEndsStorm

(* On the TX pin are the frames of the bytes written, whole and in order,  *)
(* although write() and the interrupt both start frames, and the interrupt *)
(* may end the last while write() adds one, or write() cut off a byte that *)
(* comes in, until one of the four steps named in SoftSerial disturbs one  *)
(* (SoftwareSerial.cpp:219-251, 605-700).                                  *)
SerialSentInOrder == S!SentInOrder

(* SoftwareSerial.cpp:18-20: a print begins at once, and what is lost is   *)
(* RX characters.                                                          *)
SerialPrintsAnyway == S!PrintsAnyway

(* When nothing is in use any more everything was sent, so that flush()    *)
(* may come back, and the port listens again (SoftwareSerial.cpp:195-200,  *)
(* 664), unless a frame was disturbed.                                     *)
SerialQuietMeansSent == S!QuietMeansSent

(* flush() of both ports comes back: every byte given to Serial leaves     *)
(* without more calls, but where a byte that comes in damaged drops the    *)
(* refill of the transmitter, until the next call makes up for it          *)
(* (ap3_uart.cpp:107-111, am_hal_uart.c:1223-1234); a transmission of      *)
(* SoftwareSerial ends by itself, unless it was disturbed                  *)
(* (SoftwareSerial.cpp:195-200, 655-699).                                  *)
FlushReturns == U!EverythingLeaves /\ U!FlushReturns /\ S!TransmissionEnds

(* Every byte of the peer is made out of its own edges, and read in order, *)
(* less what a full ring dropped (SoftwareSerial.cpp:174-182, 462-601),    *)
(* until both sides send at once (lines 17-20).                            *)
SerialHeardIntact == S!HeardIntact /\ S!ReadInOrder
=============================================================================
