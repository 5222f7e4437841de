------------------------------- MODULE EthDwmac -------------------------------
(***************************************************************************)
(* The gigabit MAC of the CH32V307 and CH32V317 (ch32-eth-dwmac.c), with   *)
(* the PHY behind its MDIO port and the two descriptor rings it shares     *)
(* with the firmware.  Four parties act on the same state: the firmware,   *)
(* which writes registers and descriptors; the network, whose frames go to *)
(* the stash or, while that is full, wait in the NIC queue with the tap no *)
(* longer read; the bottom half, which moves frames; and the poll timer.   *)
(* Each handler holds the big QEMU lock and is one action; the bottom half *)
(* and the timer run some time after they were scheduled.                  *)
(*                                                                         *)
(* A descriptor is what its status and buffer words say: "free" (OWN is    *)
(* clear), "own" (handed to the MAC), "bad" (handed over with a buffer     *)
(* outside SRAM), "nolen" (handed over with length 0) or, in the receive   *)
(* ring, the frame that was written to it.  The routing of the interrupt   *)
(* from asked on is module MeipSlot's (interrupt 77).                      *)
(***************************************************************************)
EXTENDS Naturals, Sequences

CONSTANTS
    Frames,    \* the frames of the network
    NoFrame,   \* an empty stash
    RxRing,    \* descriptors in the firmware's receive ring
    TxRing,    \* descriptors in its transmit ring
    MaxRing,   \* CH32_ETH_MAX_RING, how many the MAC looks at in one go
    Phy,       \* phy-model: "ch182", "phy10m" or "rtl8211f"
    MaxQueue,  \* bound: frames in the NIC queue
    Peer,      \* whether the NIC is connected
    Tracked,   \* the event bits of DMASR that are kept
    Reinit     \* whether the firmware sets the MAC up again without a reset

ASSUME FramesAssumption ==
    Frames \cap {NoFrame, "free", "own", "bad", "nolen"} = {}
ASSUME RingAssumption ==
    RxRing \in Nat \ {0} /\ TxRing \in Nat \ {0} /\ MaxRing \in Nat \ {0}
ASSUME PhyAssumption == Phy \in {"ch182", "phy10m", "rtl8211f"}
ASSUME FlagAssumption == Peer \in BOOLEAN /\ Reinit \in BOOLEAN
ASSUME TrackedAssumption == Tracked \subseteq {"T", "R", "TBUS", "RBUS", "PHYLINK"}

VARIABLES
    st, sr,             \* DMAOMR: the transmitter and the receiver are on
    list,               \* DMATDLAR and DMARDLAR: "none", "bad" or "ring"
    dmasr, ier,         \* DMASR and DMAIER
    asked,              \* whether ch32_eth_meip_resync last saw an event
    tx, txCur,          \* transmit ring; tx_cur_desc, 0 before its first use
    rx, rxCur,          \* receive ring; rx_cur_desc
    stash,              \* rx_stash
    queue,              \* the NIC's queue of frames the stash had no room for
    reading,            \* the tap's file descriptor is watched
    bh,                 \* the bottom half is scheduled
    polling, pollTimer, \* poll_active; the poll timer is pending
    linkUp, linkTold,   \* the deadline of the PHY passed; phy_link_irq_injected
    txHead,             \* firmware: the next transmit descriptor to fill
    rxHead, held,       \* firmware: the next to read; read but not handed back
    got                 \* firmware: the frame read last

firmware == << txHead, rxHead, held, got >>
dma == << st, sr, list >>
irq == << dmasr, ier, asked >>
rings == << tx, txCur, rx, rxCur >>
net == << stash, queue, reading >>
timer == << polling, pollTimer >>
link == << linkUp, linkTold >>
vars == << dma, irq, rings, net, bh, timer, link, firmware >>

NextRx(i) == (i % RxRing) + 1
NextTx(i) == (i % TxRing) + 1

\* ch32_eth_meip_resync, after DMASR and DMAIER got their next value.
Resync == asked' = ((dmasr \cap ier)' # {})

\* ch32_eth_dmasr_raise
Raise(events) == dmasr' = dmasr \cup (events \cap Tracked) /\ Resync

\* What DMASR reads as: NIS and AIS sum up the events of their group.
DmasrRead ==
    dmasr \cup (IF dmasr \cap {"R", "T", "PHYLINK"} # {} THEN {"NIS"} ELSE {})
          \cup (IF dmasr \cap {"RBUS", "TBUS"} # {} THEN {"AIS"} ELSE {})

-----------------------------------------------------------------------------
(***************************************************************************)
(* Receiving.                                                              *)
(***************************************************************************)

\* ch32_eth_rx_resume with s in the stash: the waiting frames go through
\* ch32_eth_net_receive until one stays in the stash, and the tap is read.
Resumed(s, waiting) ==
    LET drop == ~sr' \/ list' = "none"
    IN  CASE drop -> [stash |-> s, queue |-> << >>, reading |-> TRUE]
          [] ~drop /\ (s # NoFrame \/ waiting = << >>) ->
                [stash |-> s, queue |-> waiting, reading |-> TRUE]
          [] OTHER -> [stash |-> Head(waiting), queue |-> Tail(waiting), reading |-> TRUE]

\* The stash stays with whom it was before a register write resumed the tap.
Resume(s) ==
    \E n \in {Resumed(s, queue)} :
        /\ stash' = n.stash /\ queue' = n.queue /\ reading' = n.reading
        /\ bh' = (bh \/ (n.stash # NoFrame /\ n.stash # s))

\* Variant: the scan starts at the head of the list every time.
ScanFromHead(cur) ==
    LET at[i \in 0 .. MaxRing - 1] ==
            IF i = 0 THEN 1
            ELSE IF rx[at[i - 1]] \in {"own", "bad"} THEN at[i - 1] ELSE NextRx(at[i - 1])
    IN  at[MaxRing - 1]

\* The scan of ch32_eth_deliver_rx_stash: of the MaxRing descriptors from the
\* cursor on, the first one that the MAC owns, else the last one.
ScanFrom(cur) ==
    LET at[i \in 0 .. MaxRing - 1] ==
            IF i = 0 THEN cur
            ELSE IF rx[at[i - 1]] \in {"own", "bad"} THEN at[i - 1] ELSE NextRx(at[i - 1])
    IN  at

Scan(cur) == ScanFrom(cur)[MaxRing - 1]

\* ch32_eth_deliver_rx_stash for a frame f: the ring, the cursor and the event
\* it leaves behind.  The frame leaves the stash in each case.
Deliver(f) ==
    LET start == IF rxCur = 0 THEN 1 ELSE rxCur
        i == Scan(start)
    IN  CASE ~sr \/ list # "ring" -> [rx |-> rx, cur |-> rxCur, events |-> {}]
          [] sr /\ list = "ring" /\ rx[i] = "own" ->
                [rx |-> [rx EXCEPT ![i] = f], cur |-> NextRx(i), events |-> {"R"}]
          [] sr /\ list = "ring" /\ rx[i] = "bad" ->
                [rx |-> rx, cur |-> NextRx(i), events |-> {"RBUS"}]
          [] OTHER -> [rx |-> rx, cur |-> NextRx(i), events |-> {"RBUS"}]

\* A frame arrives at a tap that is read.  With the receiver off, or without
\* a descriptor list, it is dropped; a full stash leaves it in the queue.
HostSend(f) ==
    /\ Peer /\ reading /\ Len(queue) < MaxQueue
    /\ CASE stash # NoFrame \/ queue # << >> ->
              /\ queue' = Append(queue, f)
              /\ reading' = FALSE
              /\ UNCHANGED << stash, bh >>
         [] stash = NoFrame /\ queue = << >> /\ sr /\ list # "none" ->
              /\ stash' = f
              /\ bh' = TRUE
              /\ UNCHANGED << queue, reading >>
         [] OTHER -> UNCHANGED << net, bh >>
    /\ UNCHANGED << dma, irq, rings, timer, link, firmware >>

(***************************************************************************)
(* Sending.                                                                *)
(***************************************************************************)

\* One turn of the loop of ch32_eth_process_tx, on the state b of the round.
TransmitOne(b) ==
    LET freed == [b EXCEPT !.tx[b.cur] = "free", !.cur = NextTx(b.cur)]
    IN  CASE b.go /\ b.tx[b.cur] = "own" -> [freed EXCEPT !.events = @ \cup {"T"}]
          [] b.go /\ b.tx[b.cur] = "nolen" -> freed
          [] b.go /\ b.tx[b.cur] = "bad" ->
                [freed EXCEPT !.events = @ \cup {"TBUS"}, !.go = FALSE]
          [] OTHER -> [b EXCEPT !.go = FALSE]

TransmitFrom(start) ==
    LET after[i \in 0 .. MaxRing] ==
            IF i = 0 THEN [tx |-> tx, cur |-> start, events |-> {}, go |-> TRUE]
            ELSE TransmitOne(after[i - 1])
    IN  after

\* ch32_eth_process_tx: from the cursor on, up to MaxRing descriptors the MAC
\* owns are sent and given back; a bad buffer ends the round.
Transmit ==
    IF st /\ Peer /\ list = "ring"
    THEN TransmitFrom(IF txCur = 0 THEN 1 ELSE txCur)[MaxRing]
    ELSE [tx |-> tx, cur |-> txCur, events |-> {}, go |-> FALSE]

\* Variants: a frame that cannot be delivered stays in the stash for the next
\* round; the interrupt is looked at again only after an event.
BottomHalfKeeps ==
    /\ bh
    /\ UNCHANGED << dma, ier, timer, link, firmware >>
    /\ \E t \in {Transmit}, d \in {Deliver(stash)}, n \in {Resumed(NoFrame, queue)} :
           /\ tx' = t.tx /\ txCur' = t.cur
           /\ IF stash = NoFrame \/ d.rx = rx
              THEN UNCHANGED << rx, rxCur, net >> /\ bh' = FALSE /\ Raise(t.events)
              ELSE /\ rx' = d.rx /\ rxCur' = d.cur
                   /\ stash' = n.stash /\ queue' = n.queue /\ reading' = n.reading
                   /\ bh' = (n.stash # NoFrame)
                   /\ Raise(t.events \cup d.events)

BottomHalfQuiet ==
    /\ bh
    /\ UNCHANGED << dma, ier, timer, link, firmware >>
    /\ \E t \in {Transmit}, d \in {Deliver(stash)}, n \in {Resumed(NoFrame, queue)} :
           /\ tx' = t.tx /\ txCur' = t.cur
           /\ IF stash = NoFrame
              THEN UNCHANGED << rx, rxCur, net, irq >> /\ bh' = FALSE
              ELSE /\ rx' = d.rx /\ rxCur' = d.cur
                   /\ stash' = n.stash /\ queue' = n.queue /\ reading' = n.reading
                   /\ bh' = (n.stash # NoFrame)
                   /\ Raise(t.events \cup d.events)

\* ch32_eth_bh: the transmit ring, then the stash.  Whatever became of the
\* frame the tap is resumed, and a waiting frame schedules the next round.
BottomHalf ==
    /\ bh
    /\ UNCHANGED << dma, ier, timer, link, firmware >>
    /\ \E t \in {Transmit}, d \in {Deliver(stash)}, n \in {Resumed(NoFrame, queue)} :
           /\ tx' = t.tx /\ txCur' = t.cur
           /\ IF stash = NoFrame
              THEN UNCHANGED << rx, rxCur, net >> /\ bh' = FALSE /\ Raise(t.events)
              ELSE /\ rx' = d.rx /\ rxCur' = d.cur
                   /\ stash' = n.stash /\ queue' = n.queue /\ reading' = n.reading
                   /\ bh' = (n.stash # NoFrame)
                   /\ Raise(t.events \cup d.events)

(***************************************************************************)
(* The poll timer and the PHY.                                             *)
(***************************************************************************)

\* Variant: the timer leaves the rings to the firmware's poll demands.
PollTickNoWork ==
    /\ pollTimer
    /\ LET announce == Phy = "phy10m" /\ ~linkTold /\ linkUp
       IN  /\ linkTold' = (linkTold \/ announce)
           /\ UNCHANGED << dma, ier, rings, net, bh, timer, linkUp, firmware >>
           /\ IF announce THEN Raise({"PHYLINK"}) ELSE UNCHANGED << dmasr, asked >>

\* ch32_eth_poll_tick: the built-in PHY announces its link once; a running DMA
\* gets a bottom half.  The next interval, 10 or 100 ms, is left out.
PollTick ==
    /\ pollTimer
    /\ LET announce == Phy = "phy10m" /\ ~linkTold /\ linkUp
       IN  /\ linkTold' = (linkTold \/ announce)
           /\ UNCHANGED << dma, ier, rings, net, linkUp, firmware >>
           /\ IF announce THEN Raise({"PHYLINK"}) ELSE UNCHANGED << dmasr, asked >>
    /\ bh' = (bh \/ st \/ sr)
    /\ IF st \/ sr \/ Phy = "phy10m" THEN UNCHANGED timer
       ELSE polling' = FALSE /\ pollTimer' = FALSE

\* The virtual clock passes the deadline.
LinkComesUp ==
    /\ ~linkUp
    /\ linkUp' = TRUE
    /\ UNCHANGED << dma, irq, rings, net, bh, timer, linkTold, firmware >>

\* MDIO, address 1: a write of BCR with the reset bit takes the link down.
PhyReset ==
    /\ linkUp' = FALSE /\ linkTold' = FALSE
    /\ UNCHANGED << dma, irq, rings, net, bh, timer, firmware >>

(***************************************************************************)
(* The DMA registers.                                                      *)
(***************************************************************************)

\* Variant: DMAOMR without ST and SR stops the poll timer of every PHY.
StopPollAlways == polling' = FALSE /\ pollTimer' = FALSE

StopPoll ==
    IF Phy = "phy10m" THEN UNCHANGED timer
    ELSE polling' = FALSE /\ pollTimer' = FALSE

\* Variant: the timer is armed and the flag that says so is left alone.
ArmPollUnflagged == pollTimer' = TRUE /\ UNCHANGED polling

\* ch32_eth_poll_arm
ArmPoll == polling' = TRUE /\ pollTimer' = (pollTimer \/ ~polling)

WriteDmaomr(transmit, receive) ==
    /\ st' = transmit /\ sr' = receive
    /\ UNCHANGED << list, irq, rings, link, firmware >>
    /\ IF transmit \/ receive THEN ArmPoll /\ Resume(stash)
       ELSE StopPoll /\ UNCHANGED << net, bh >>

\* DMATPDR or DMARPDR
PollDemand ==
    /\ bh' = TRUE
    /\ UNCHANGED << dma, irq, rings, net, timer, link, firmware >>

LowHalf == {"R", "T", "RBUS", "TBUS"}

\* DMASR: writing 1 clears.  A narrow write is completed with the register's
\* own bits, so that it clears the events of the other half as well.
WriteDmasr(events, whole) ==
    LET rest == IF events \subseteq LowHalf THEN {"PHYLINK"} ELSE LowHalf
    IN  /\ whole \/ events \subseteq LowHalf \/ events = {"PHYLINK"}
        /\ dmasr' = dmasr \ (IF whole THEN events ELSE events \cup rest)
        /\ UNCHANGED << dma, ier, rings, net, bh, timer, link, firmware >>
        /\ Resync

\* DMAIER is stored and nothing else: an event that waits for its enable bit
\* is noticed by the next resync.
WriteDmaier(mask) ==
    /\ ier' = mask
    /\ UNCHANGED << dma, dmasr, asked, rings, net, bh, timer, link, firmware >>

\* An address outside SRAM in DMATDLAR and DMARDLAR.
WriteBadLists ==
    /\ list = "none"
    /\ list' = "bad"
    /\ UNCHANGED << st, sr, irq, rings, net, bh, timer, link, firmware >>

(***************************************************************************)
(* The descriptors, written by a firmware that keeps to ring order.        *)
(***************************************************************************)

PutTx(kind) ==
    /\ list = "ring" /\ tx[txHead] = "free"
    /\ tx' = [tx EXCEPT ![txHead] = kind]
    /\ txHead' = NextTx(txHead)
    /\ UNCHANGED << dma, irq, txCur, rx, rxCur, net, bh, timer, link, rxHead, held, got >>

ReadRx ==
    /\ rx[rxHead] \in Frames
    /\ got' = rx[rxHead]
    /\ rx' = [rx EXCEPT ![rxHead] = "free"]
    /\ rxHead' = NextRx(rxHead)
    /\ held' = held + 1
    /\ UNCHANGED << dma, irq, tx, txCur, rxCur, net, bh, timer, link, txHead >>

\* The oldest descriptor the firmware holds goes back to the MAC.
GiveRx(kind) ==
    /\ held > 0
    /\ rx' = [rx EXCEPT ![((rxHead + RxRing - held - 1) % RxRing) + 1] = kind]
    /\ held' = held - 1
    /\ UNCHANGED << dma, irq, tx, txCur, rxCur, net, bh, timer, link, txHead, rxHead, got >>

\* The firmware builds both rings anew and points the MAC at them: before it
\* starts the DMA for the first time or, with Reinit, after it stopped it and
\* wrote DMABMR.SR, which the MAC stores as 0.
Setup ==
    /\ ~st /\ ~sr
    /\ Reinit \/ list # "ring"
    /\ list' = "ring"
    /\ tx' = [i \in 1 .. TxRing |-> "free"] /\ rx' = [i \in 1 .. RxRing |-> "own"]
    /\ txHead' = 1 /\ rxHead' = 1 /\ held' = 0
    /\ UNCHANGED << st, sr, irq, txCur, rxCur, net, bh, timer, link, got >>

-----------------------------------------------------------------------------

\* ch32_eth_reset.  The firmware starts anew: the rings in SRAM mean nothing
\* to it until it has set them up.
Reset ==
    /\ st' = FALSE /\ sr' = FALSE /\ list' = "none"
    /\ dmasr' = {} /\ ier' = {} /\ asked' = FALSE
    /\ txCur' = 0 /\ rxCur' = 0
    /\ stash' = NoFrame /\ queue' = << >> /\ reading' = TRUE /\ bh' = FALSE
    /\ polling' = (Phy = "phy10m") /\ pollTimer' = (Phy = "phy10m")
    /\ linkUp' = FALSE /\ linkTold' = FALSE
    /\ rx' = [i \in 1 .. RxRing |-> "free"] /\ tx' = [i \in 1 .. TxRing |-> "free"]
    /\ txHead' = 1 /\ rxHead' = 1 /\ held' = 0
    /\ UNCHANGED got

\* ch32_eth_realize
Init ==
    /\ st = FALSE /\ sr = FALSE /\ list = "none"
    /\ dmasr = {} /\ ier = {} /\ asked = FALSE
    /\ txCur = 0 /\ rxCur = 0
    /\ stash = NoFrame /\ queue = << >> /\ reading = TRUE /\ bh = FALSE
    /\ polling = (Phy = "phy10m") /\ pollTimer = (Phy = "phy10m")
    /\ linkUp = FALSE /\ linkTold = FALSE
    /\ rx = [i \in 1 .. RxRing |-> "free"] /\ tx = [i \in 1 .. TxRing |-> "free"]
    /\ txHead = 1 /\ rxHead = 1 /\ held = 0 /\ got = NoFrame

Firmware ==
    \/ \E t, r \in BOOLEAN : WriteDmaomr(t, r)
    \/ PollDemand
    \/ \E events \in SUBSET Tracked, whole \in BOOLEAN : WriteDmasr(events, whole)
    \/ \E mask \in {{}, Tracked} : WriteDmaier(mask)
    \/ \E kind \in {"own", "bad", "nolen"} : PutTx(kind)
    \/ \E kind \in {"own", "bad"} : GiveRx(kind)
    \/ ReadRx
    \/ WriteBadLists \/ Setup
    \/ PhyReset

Next ==
    \/ Firmware
    \/ \E f \in Frames : HostSend(f)
    \/ BottomHalf
    \/ PollTick
    \/ LinkComesUp
    \/ Reset

\* The main loop runs what is scheduled.
Spec ==
    /\ Init /\ [][Next]_vars
    /\ WF_vars(BottomHalf) /\ WF_vars(PollTick)

-----------------------------------------------------------------------------

\* The variables range over what the C fields and the descriptors can hold.
TypeOK ==
    /\ st \in BOOLEAN /\ sr \in BOOLEAN /\ list \in {"none", "bad", "ring"}
    /\ dmasr \subseteq Tracked /\ ier \subseteq Tracked /\ asked \in BOOLEAN
    /\ tx \in [1 .. TxRing -> {"free", "own", "bad", "nolen"}]
    /\ rx \in [1 .. RxRing -> {"free", "own", "bad"} \cup Frames]
    /\ txCur \in 0 .. TxRing /\ rxCur \in 0 .. RxRing
    /\ stash \in Frames \cup {NoFrame} /\ queue \in Seq(Frames)
    /\ reading \in BOOLEAN /\ bh \in BOOLEAN
    /\ polling \in BOOLEAN /\ pollTimer \in BOOLEAN
    /\ linkUp \in BOOLEAN /\ linkTold \in BOOLEAN
    /\ txHead \in 1 .. TxRing /\ rxHead \in 1 .. RxRing /\ held \in 0 .. RxRing
    /\ got \in Frames \cup {NoFrame}

\* The network is never frozen: while the tap is not read, or a frame waits,
\* a bottom half that resumes the tap is scheduled, whatever the firmware does
\* to the DMA registers in between (comments in ch32_eth_deliver_rx_stash).
TapIsResumed == ~reading \/ queue # << >> \/ stash # NoFrame => stash # NoFrame /\ bh

\* poll_active never lies about the timer, which would keep ch32_eth_poll_arm
\* from arming it, and a running DMA has its timer whatever order ST, SR, the
\* ticks and resets come in.
PollMatches ==
    /\ polling <=> pollTimer
    /\ st \/ sr \/ Phy = "phy10m" => pollTimer

\* The receive ring in the order in which the firmware reads it.
RxCell(i) == ((rxHead + i - 2) % RxRing) + 1
InReadOrder == [i \in 1 .. RxRing |-> rx[RxCell(i)]]

\* The frames among the first cells of c.
FramesOf(c) ==
    LET upTo[i \in 0 .. RxRing] ==
            IF i = 0 THEN << >>
            ELSE IF c[i] \in Frames THEN Append(upTo[i - 1], c[i]) ELSE upTo[i - 1]
    IN  upTo

\* The unread frames in the ring, then the one in the stash and those in the
\* NIC queue.
InRing == FramesOf(InReadOrder)[RxRing]

OnTheWay == InRing \o (IF stash = NoFrame THEN << >> ELSE << stash >>) \o queue

Lossy == INSTANCE LossyQueue WITH q <- OnTheWay

\* Frames may be lost when descriptors run out, but the firmware never reads
\* one twice or ahead of an earlier one, through stash, queue, ring and cursor:
\* this needs a ring whose size divides MaxRing (4, 8 and 16 do), for which a
\* scan that finds no descriptor ends where it began.  For others, 3 or 6, the
\* cursor runs ahead of the firmware and frames change places.
ImplementsLossyQueue == Lossy!Init /\ [][Lossy!Next]_<< OnTheWay, got >>

\* A frame the firmware handed over is sent, even if it never writes a poll
\* demand register, as long as the transmitter stays on.
TxGetsSent ==
    \A i \in 1 .. TxRing : Peer /\ st /\ tx[i] = "own" ~> tx[i] # "own" \/ ~st

\* Claimed by CH32V307-ETH-*.md, section 6.1: DMABMR.SR resets the whole MAC.
\* Then a firmware that stopped the MAC, reset it so and built its rings anew
\* (the initialisation sequence of section 9 there) could rely on TxGetsSent.
SoftResetRestarts == TxGetsSent

\* The built-in PHY announces a link that stays up: no write to DMAOMR deletes
\* the timer that waits for it (comment in ch32_eth_mmio_write_word).
LinkAnnounced == Phy = "phy10m" /\ linkUp ~> linkTold \/ ~linkUp

\* An event that is enabled in DMAIER after it happened still interrupts: the
\* write itself does not look at it, but a running DMA soon does.
EventHeard ==
    (st \/ sr) /\ ier \cap dmasr # {} ~> asked \/ ier \cap dmasr = {} \/ ~(st \/ sr)
===============================================================================
