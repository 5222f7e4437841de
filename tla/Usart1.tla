-------------------------------- MODULE Usart1 --------------------------------
(***************************************************************************)
(* USART1 of the CH32V machine, between the host's character backend and   *)
(* the firmware.  Bytes from the backend wait in a stage buffer, from      *)
(* which a timer moves one per byte time into the receive FIFO that DATAR  *)
(* reads; bytes written to DATAR wait in a transmit FIFO that another      *)
(* timer drains into the backend.  Every handler runs under the big QEMU   *)
(* lock and is one action.  The interrupt request goes to module MeipSlot  *)
(* (interrupt 53): asked is the value its resync function saw last.        *)
(*                                                                         *)
(* A ring of DEPTH cells holds DEPTH - 1 bytes, so the receive buffers are *)
(* sequences of RxRoom bytes at most.  A DMA transfer on DATAR is as    *)
(* many reads or writes of DATAR in a row.  Of the transmitted bytes only  *)
(* the number is kept.                                                     *)
(***************************************************************************)
EXTENDS Naturals, Sequences

CONSTANTS
    Bytes,    \* the byte values the backend sends
    NoByte,   \* what DATAR reads as when nothing is pending
    RxDepth,  \* CH32_USART1_RXFIFO_DEPTH
    TxDepth   \* CH32_USART1_TXFIFO_DEPTH

ASSUME DepthAssumption ==
    /\ RxDepth \in Nat /\ RxDepth >= 2
    /\ TxDepth \in Nat /\ TxDepth >= 2

VARIABLES
    stage, fifo,           \* rx_stage_buf and rx_buf, oldest byte first
    rxPending, rdr,        \* the cached "FIFO not empty" and its first byte
    rxTimer,               \* rx_timer is pending
    txLen,                 \* bytes in tx_buf
    txEmpty, txComplete,   \* the sources of TXE and TC
    txTimer,               \* tx_timer is pending
    c1,                    \* the bits of CTLR1 that are set
    dmar,                  \* CTLR3.DMAR
    ienr,                  \* PFIC enable bit of interrupt 53
    asked,                 \* the request at the last resync
    asleep,                \* the backend heard "cannot receive"
    got                    \* what the last read of DATAR returned

rx == << stage, fifo, rxPending, rdr, rxTimer >>
tx == << txLen, txEmpty, txComplete, txTimer >>
control == << c1, dmar, ienr >>
vars == << rx, tx, control, asked, asleep, got >>

Ctlr1Bits == {"UE", "TE", "RE", "RXNEIE", "TXEIE", "TCIE"}
RxRoom == RxDepth - 1
TxRoom == TxDepth - 1
FifoFull == Len(fifo) = RxRoom

RxEnabled == {"UE", "RE"} \subseteq c1

\* STATR as the hardware would show it: without UE both are always set.
Sending == "UE" \notin c1 \/ "TE" \in c1
Txe == Sending /\ ("UE" \in c1 => txEmpty)
Tc  == Sending /\ ("UE" \in c1 => txComplete)
Rxne == fifo # << >>

TxAsks == ("TXEIE" \in c1 /\ Txe) \/ ("TCIE" \in c1 /\ Tc)
RxAsks == "RXNEIE" \in c1 /\ Rxne
Irq == ienr /\ (RxAsks \/ TxAsks)

\* Variant: the resync before the register changes.
ResyncBefore == asked' = Irq

\* ch32_usart1_meip_resync looks at the registers as they are now.
Resync == asked' = Irq'

\* Variant: nobody tells the backend.
TryAcceptNever == UNCHANGED asleep

\* ch32_usart1_try_accept_rx: the backend is told to ask again.
TryAccept == asleep' = (asleep /\ ~(RxEnabled /\ ~FifoFull)')

(***************************************************************************)
(* The character backend.                                                  *)
(***************************************************************************)

\* can_receive said one byte may come, and it came.  With the receiver off it
\* would be dropped.
BackendSend(b) ==
    /\ ~asleep
    /\ Len(stage) < RxRoom
    /\ RxEnabled
    /\ stage' = Append(stage, b)
    /\ rxTimer' = TRUE
    /\ UNCHANGED << fifo, rxPending, rdr, tx, control, asked, asleep, got >>

\* can_receive said no; the backend stops watching its input.
BackendBlocked ==
    /\ ~asleep
    /\ Len(stage) = RxRoom
    /\ asleep' = TRUE
    /\ UNCHANGED << rx, tx, control, asked, got >>

\* Variant: only the backend arms the timer.
RearmRxNever == rxTimer' = FALSE

RearmRx == rxTimer' = (stage' # << >>)

\* The receive timer delivers a byte.  A tick that finds the FIFO full re-arms
\* itself and changes nothing; one that finds the stage empty cannot happen
\* (TimersMatchQueues).  With DMAR the byte is offered to the DMA pump, which
\* wants a channel with EN set and never finds one, instead of the resync.
RxTick ==
    /\ rxTimer
    /\ stage # << >> /\ ~FifoFull
    /\ fifo' = Append(fifo, Head(stage))
    /\ stage' = Tail(stage)
    /\ rxPending' = TRUE
    /\ rdr' = Head(fifo')
    /\ RearmRx
    /\ UNCHANGED << tx, control, got >>
    /\ IF dmar THEN UNCHANGED asked ELSE Resync
    /\ IF stage' = << >> THEN TryAccept ELSE UNCHANGED asleep

\* The transmit timer: the backend takes the first k bytes and then no more.
\* If it takes none the timer re-arms itself and nothing else changes.
TxDrain(k) ==
    /\ txTimer /\ k <= txLen
    /\ txLen' = txLen - k
    /\ txTimer' = (k < txLen)
    /\ IF k = txLen
       THEN txEmpty' = TRUE /\ txComplete' = TRUE
       ELSE UNCHANGED << txEmpty, txComplete >>
    /\ UNCHANGED << rx, control, asleep, got >>
    /\ Resync

(***************************************************************************)
(* The registers.                                                          *)
(***************************************************************************)

\* Variant: rdr is not refreshed for the next byte.
PopFifoStale ==
    /\ got' = rdr
    /\ fifo' = Tail(fifo)
    /\ rxPending' = (fifo' # << >>)
    /\ UNCHANGED rdr

PopFifo ==
    /\ got' = rdr
    /\ fifo' = Tail(fifo)
    /\ rxPending' = (fifo' # << >>)
    /\ rdr' = IF rxPending' THEN Head(fifo') ELSE rdr

ReadDatar ==
    /\ IF rxPending THEN PopFifo
       ELSE got' = NoByte /\ UNCHANGED << fifo, rxPending, rdr >>
    /\ UNCHANGED << stage, rxTimer, tx, control >>
    /\ Resync
    /\ TryAccept

\* A byte that finds the FIFO full is dropped.
PushTx ==
    IF txLen < TxRoom
    THEN txLen' = txLen + 1 /\ txEmpty' = FALSE /\ txComplete' = FALSE
    ELSE UNCHANGED << txLen, txEmpty, txComplete >>

\* Without UE the byte goes straight to the backend: only the resync remains.
WriteDatar ==
    /\ IF "UE" \in c1 THEN PushTx /\ txTimer' = TRUE ELSE UNCHANGED tx
    /\ UNCHANGED << rx, control, asleep, got >>
    /\ Resync

\* Every flag a write of STATR may clear is derived from the FIFOs.
WriteStatr ==
    /\ UNCHANGED << rx, tx, control, asleep, got >>
    /\ Resync

WriteCtlr1(bits) ==
    /\ c1' = bits
    /\ UNCHANGED << rx, tx, dmar, ienr, got >>
    /\ TryAccept
    /\ Resync

WriteCtlr3(on) ==
    /\ dmar' = on
    /\ UNCHANGED << rx, tx, c1, ienr, asked, asleep, got >>

\* PFIC IENR or IRER, whose row of the resync table calls the resync.
WritePficEnable(on) ==
    /\ ienr' = on
    /\ UNCHANGED << rx, tx, c1, dmar, asleep, got >>
    /\ Resync

Reset ==
    /\ stage' = << >> /\ fifo' = << >>
    /\ rxPending' = FALSE /\ rdr' = NoByte /\ rxTimer' = FALSE
    /\ txLen' = 0 /\ txEmpty' = TRUE /\ txComplete' = TRUE /\ txTimer' = FALSE
    /\ c1' = {} /\ dmar' = FALSE /\ ienr' = FALSE
    /\ asked' = FALSE
    /\ UNCHANGED << asleep, got >>

Init ==
    /\ stage = << >> /\ fifo = << >>
    /\ rxPending = FALSE /\ rdr = NoByte /\ rxTimer = FALSE
    /\ txLen = 0 /\ txEmpty = TRUE /\ txComplete = TRUE /\ txTimer = FALSE
    /\ c1 = {} /\ dmar = FALSE /\ ienr = FALSE
    /\ asked = FALSE /\ asleep = FALSE /\ got = NoByte

BackendStep == BackendBlocked \/ \E b \in Bytes : BackendSend(b)
TimerStep == RxTick \/ \E k \in 1 .. TxRoom : TxDrain(k)
RegisterStep ==
    \/ ReadDatar \/ WriteDatar \/ WriteStatr
    \/ \E bits \in SUBSET Ctlr1Bits : WriteCtlr1(bits)
    \/ \E on \in BOOLEAN : WriteCtlr3(on) \/ WritePficEnable(on)

Next == BackendStep \/ TimerStep \/ RegisterStep \/ Reset

\* The virtual clock runs on, so a pending receive timer rings.
Spec == Init /\ [][Next]_vars /\ WF_vars(RxTick)

(***************************************************************************)
(* Properties.                                                             *)
(***************************************************************************)

\* The buffers stay within their rings and the fields within their ranges.
TypeOK ==
    /\ stage \in Seq(Bytes) /\ Len(stage) <= RxRoom
    /\ fifo \in Seq(Bytes) /\ Len(fifo) <= RxRoom
    /\ rxPending \in BOOLEAN /\ rdr \in Bytes \cup {NoByte} /\ rxTimer \in BOOLEAN
    /\ txLen \in 0 .. TxRoom
    /\ txEmpty \in BOOLEAN /\ txComplete \in BOOLEAN /\ txTimer \in BOOLEAN
    /\ c1 \subseteq Ctlr1Bits /\ dmar \in BOOLEAN /\ ienr \in BOOLEAN
    /\ asked \in BOOLEAN /\ asleep \in BOOLEAN /\ got \in Bytes \cup {NoByte}

\* The cached receive byte and the transmit flags never go stale against the
\* FIFOs they summarise, whatever ticks come between two accesses.
FlagsMatchFifo ==
    /\ rxPending <=> fifo # << >>
    /\ rxPending => rdr = Head(fifo)
    /\ txEmpty <=> txLen = 0
    /\ txComplete <=> txEmpty

\* A buffer with work in it has its timer pending, and an idle one has not:
\* no byte waits for a tick that nobody armed.
TimersMatchQueues ==
    /\ rxTimer <=> stage # << >>
    /\ txTimer <=> txLen > 0

\* A backend that was told to stop is told to go on: as long as it sleeps with
\* the receiver on, a tick or a full FIFO the firmware must read is still ahead
\* (comment in ch32_usart1_can_receive: otherwise stdin stays silent for ever).
BackendWakes == asleep /\ RxEnabled => rxTimer \/ FifoFull

\* The PFIC never keeps a request USART1 has dropped, nor misses one of the
\* transmitter; of the receiver it may miss a byte that came under DMAR.
AskIsCurrent ==
    /\ asked => Irq
    /\ ienr /\ TxAsks => asked

Queue == INSTANCE ByteQueue WITH q <- fifo \o stage, Capacity <- 2 * RxRoom

\* The firmware reads the bytes in the order in which the backend sent them,
\* each once and none missing, through stage, FIFO and the cached byte.
ImplementsByteQueue == Queue!Init /\ [][Queue!Next]_<< fifo \o stage, got >>

\* The backend is not silenced for good: it is told to go on, or the receiver
\* is off, or the FIFO is full and the firmware has to read.
BackendHeard == asleep ~> ~asleep \/ ~RxEnabled \/ FifoFull

\* Claimed by the comment in ch32_usart1_rx_tick: unless a DMA channel takes
\* the byte, it raises the RXNE interrupt as usual.
RxneRaisesIrq == Irq => asked
===============================================================================
