-------------------------------- MODULE Eth10m --------------------------------
(***************************************************************************)
(* The 10M Ethernet controller, which has no descriptor rings: one receive *)
(* buffer in memory at ERXST, one transmit buffer, and the registers of a  *)
(* PHY behind MIREGADR, MIWR and MIRD.                                     *)
(*                                                                         *)
(* The network peer queues a packet while can_receive says no, and hands   *)
(* the queue over when the controller flushes it.  A packet that does not  *)
(* fit at ERXST is stashed until ERXST is written again, with a store that *)
(* covers its low byte: the high byte alone moves ERXST and leaves the     *)
(* stash where it is.  The field "half" remembers that it made room for a  *)
(* stashed packet; nothing else depends on that field.  Contents and       *)
(* lengths are left out: a packet fits at ERXST or it does not.  Time is   *)
(* counted in ticks of the slack that separates the two link deadlines.    *)
(* The interrupt line is module MeipSlot's business.                       *)
(***************************************************************************)
EXTENDS Naturals

CONSTANT Eth10mQueue    \* the packets the network peer keeps at most

ASSUME Eth10mAssumption == Eth10mQueue \in Nat

VARIABLE eth10m

Eth10mFlags == {"RXIF", "TXIF", "TXERIF", "LINKIF"}

\* The link comes up after LINK_UP_DELAY, or after RESET_LINK_DELAY when the
\* firmware reset the PHY; the timer rings SLACK later.
Eth10mUpDelay == 2
Eth10mResetDelay == 3
Eth10mSlack == 1
Eth10mDelays == 0 .. Eth10mResetDelay

Eth10mState ==
    [eir : SUBSET Eth10mFlags, eie : SUBSET (Eth10mFlags \cup {"INTIE"}),
     rxen : BOOLEAN,
     fits : BOOLEAN,    \* a packet at ERXST is inside the memory
     stash : BOOLEAN,   \* rx_stash_len > 0
     half : BOOLEAN,    \* the stash got its room by a store of ERXST's high byte
     unread : BOOLEAN,  \* the memory holds a packet the firmware was not told of
     queued : 0 .. Eth10mQueue,
     bmcr : {"reset", "written"},
     upIn : Eth10mDelays,                       \* link_up_deadline_ns
     ringsIn : 0 .. Eth10mResetDelay + Eth10mSlack,
     pending : BOOLEAN,                         \* link_timer
     announced : BOOLEAN]

Eth10mAsks(e) == "INTIE" \in e.eie /\ e.eir \cap e.eie # {}

\* The buffer is written whatever it held, and the firmware is told.
Eth10mStore(e) == [e EXCEPT !.unread = TRUE, !.eir = @ \cup {"RXIF"}]

\* eth_10m_receive, which also runs for a packet of the flushed queue, without
\* asking can_receive: a stashed packet is overwritten.
Eth10mReceive(e) ==
    CASE ~e.rxen -> e
      [] e.rxen /\ ~e.fits -> [e EXCEPT !.stash = TRUE]
      [] OTHER -> Eth10mStore(e)

Eth10mFlush(e) == IF e.queued = 0 THEN e ELSE Eth10mReceive([e EXCEPT !.queued = 0])

\* A packet arrives: can_receive decides between the controller and the queue.
Eth10mPacket ==
    IF eth10m.rxen /\ ~eth10m.stash
    THEN eth10m' = Eth10mReceive(eth10m)
    ELSE /\ eth10m.queued < Eth10mQueue
         /\ eth10m' = [eth10m EXCEPT !.queued = @ + 1]

-----------------------------------------------------------------------------
(***************************************************************************)
(* Register writes.                                                        *)
(***************************************************************************)

\* EIR: the ones are cleared.  Acknowledging RXIF reads the packet.
Eth10mWriteEir ==
    \E ones \in SUBSET Eth10mFlags :
        eth10m' = [eth10m EXCEPT !.eir = @ \ ones, !.unread = @ /\ "RXIF" \notin ones]

Eth10mWriteEie ==
    \E on \in {{}, {"RXIF"}, {"RXIF", "LINKIF", "INTIE"}} : eth10m' = [eth10m EXCEPT !.eie = on]

\* TXRTS sends the packet inside the write and clears itself, so that a reader
\* never sees it set; a length or an address that is wrong shows as TXERIF.
Eth10mTransmit(e) == {[e EXCEPT !.eir = @ \cup {f}] : f \in {"TXIF", "TXERIF"}}

\* A rising RXEN hands the queue over.
Eth10mWriteEcon1 ==
    \E rxen, txrts \in BOOLEAN :
        LET e == [eth10m EXCEPT !.rxen = rxen]
            sent == IF txrts THEN Eth10mTransmit(e) ELSE {e}
        IN  \E s \in sent :
                eth10m' = IF rxen /\ ~eth10m.rxen THEN Eth10mFlush(s) ELSE s

\* Variant: the stash waits for the next packet to push it out.
Eth10mUnstashNever(e) == e

\* A stashed packet is stored as soon as ERXST has room for it.  The queue is
\* not flushed: what it holds waits for the next rising RXEN.
Eth10mUnstash(e) ==
    IF e.stash /\ e.fits THEN Eth10mStore([e EXCEPT !.stash = FALSE]) ELSE e

\* A store that covers the low byte of ERXST, and one of its high byte alone:
\* the test at the end of the write looks for offset 0x0C.
Eth10mWriteErxst ==
    \E fits \in BOOLEAN :
        eth10m' = Eth10mUnstash([eth10m EXCEPT !.fits = fits, !.half = FALSE])

Eth10mWriteErxstHigh ==
    \E fits \in BOOLEAN :
        eth10m' = [eth10m EXCEPT !.fits = fits, !.half = eth10m.stash /\ fits]

\* Variant: the PHY's reset moves the deadline but not the timer.
Eth10mPhyWriteNoTimer(reset) ==
    eth10m' = IF reset
              THEN [eth10m EXCEPT !.bmcr = "reset", !.upIn = Eth10mResetDelay,
                                  !.announced = FALSE]
              ELSE [eth10m EXCEPT !.bmcr = "written"]

\* BMCR with or without its reset bit; a reset starts the link over.
Eth10mPhyWrite(reset) ==
    eth10m' = IF reset
              THEN [eth10m EXCEPT
                       !.bmcr = "reset", !.upIn = Eth10mResetDelay, !.announced = FALSE,
                       !.ringsIn = Eth10mResetDelay + Eth10mSlack, !.pending = TRUE]
              ELSE [eth10m EXCEPT !.bmcr = "written"]

Eth10mWritePhy == \E reset \in BOOLEAN : Eth10mPhyWrite(reset)

\* What BMSR says of the link.
Eth10mLinkUp(e) == e.upIn = 0

-----------------------------------------------------------------------------
(***************************************************************************)
(* Time, and the machine reset.                                            *)
(***************************************************************************)

Eth10mTick ==
    /\ eth10m.upIn > 0 \/ eth10m.ringsIn > 0
    /\ eth10m' = [eth10m EXCEPT !.upIn = IF @ = 0 THEN 0 ELSE @ - 1,
                                !.ringsIn = IF @ = 0 THEN 0 ELSE @ - 1]

\* eth_10m_link_timer_cb
Eth10mLinkTimer ==
    /\ eth10m.pending /\ eth10m.ringsIn = 0
    /\ eth10m' = [eth10m EXCEPT
                     !.pending = FALSE, !.announced = TRUE,
                     !.eir = IF eth10m.announced THEN @ ELSE @ \cup {"LINKIF"}]

\* The queue is the peer's and stays; ERXST = 0 is the start of the memory.
Eth10mReset(queued) ==
    [eir |-> {}, eie |-> {}, rxen |-> FALSE, fits |-> TRUE, stash |-> FALSE,
     half |-> FALSE, unread |-> FALSE, queued |-> queued, bmcr |-> "reset",
     upIn |-> Eth10mUpDelay, ringsIn |-> Eth10mUpDelay + Eth10mSlack,
     pending |-> TRUE, announced |-> FALSE]

Eth10mMachineReset == eth10m' = Eth10mReset(eth10m.queued)

Eth10mInit == eth10m = Eth10mReset(0)

Eth10mRegisters ==
    \/ Eth10mWriteEir \/ Eth10mWriteEie \/ Eth10mWriteEcon1
    \/ Eth10mWriteErxst \/ Eth10mWriteErxstHigh \/ Eth10mWritePhy

Eth10mWorld == Eth10mPacket \/ Eth10mTick \/ Eth10mLinkTimer

Eth10mNext == Eth10mRegisters \/ Eth10mWorld \/ Eth10mMachineReset

Eth10mSpec == Eth10mInit /\ [][Eth10mNext]_eth10m

-----------------------------------------------------------------------------
Eth10mTypeOK == eth10m \in Eth10mState

\* The one buffer and the stash behind it do not lose their place: a packet
\* sits in the stash only while ERXST has no room for it, or since a store of
\* ERXST's high byte alone made that room, whichever order packets, RXEN and
\* ERXST came in; and a packet in memory the firmware has not acknowledged
\* shows as RXIF.
Eth10mFrameTold ==
    /\ eth10m.stash => ~eth10m.fits \/ eth10m.half
    /\ eth10m.unread => "RXIF" \in eth10m.eir

\* A write of ERXST delivers a stashed packet at once (the comment at
\* ch32-eth-10m.c:559 says so of every write): no packet is left in the stash
\* that ERXST has room for.
Eth10mStashDelivered == eth10m.stash => ~eth10m.fits

\* The link is announced after it is up and not missed: until it was, the
\* timer is pending and rings right after the deadline BMSR goes by, however
\* often the firmware reset the PHY while it was running.
Eth10mLinkInTime ==
    /\ eth10m.announced => Eth10mLinkUp(eth10m)
    /\ ~eth10m.announced =>
           eth10m.pending /\ eth10m.ringsIn \in {eth10m.upIn, eth10m.upIn + Eth10mSlack}
===============================================================================
