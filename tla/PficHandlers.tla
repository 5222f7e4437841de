----------------------------- MODULE PficHandlers -----------------------------
(***************************************************************************)
(* The resync functions of the devices and the walk of pfic_resync_table,  *)
(* statement by statement: a row calls its resync function, a resync that  *)
(* releases the slot walks the whole table again before it returns, and    *)
(* the rows that are left then run on what the nested walk left behind.    *)
(* HandlerSpec drives them with the steps of MeipSlot; that it implements  *)
(* MeipSlot's Spec is what justifies Rescan and the other closed forms     *)
(* there.                                                                  *)
(*                                                                         *)
(* A function takes the registers q the devices and the PFIC hold and the  *)
(* routing state e, and returns the routing state.                         *)
(***************************************************************************)
EXTENDS MeipSlot

\* No peripheral has this number.
NoIrq == 104

Routings == [slot : Nat, mip : SUBSET Bits, mie : SUBSET Bits,
             iactr : SUBSET Nat, ipr : SUBSET Nat, latched : SUBSET Nat]

Routing == [slot |-> slot, mip |-> mip, mie |-> mie, iactr |-> iactr,
            ipr |-> ipr, latched |-> latched]

\* A handler leaves the routing state behind that its function returns.
Becomes(result) ==
    \E e \in {result} :
        /\ slot' = e.slot /\ mip' = e.mip /\ mie' = e.mie
        /\ iactr' = e.iactr /\ ipr' = e.ipr /\ latched' = e.latched

Registers == [req |-> Requesting, ienr |-> ienr, stk |-> stk,
              usb |-> {x \in UsbIrqs : UsbOn(x)}, inIsr |-> vtfInIsr > 0]

RaiseMeip(e) == [e EXCEPT !.mip = @ \cup {"MEIP"}]
LowerMeip(e) == [e EXCEPT !.mip = @ \ {"MEIP"}]
EnableMeip(e) == [e EXCEPT !.mie = @ \cup {"MEIP"}]
DisableMeip(e) == [e EXCEPT !.mie = @ \ {"MEIP"}]
Own(e, x) == [e EXCEPT !.slot = x, !.iactr = @ \cup {x}]
Disown(e, x) == [e EXCEPT !.slot = 0, !.iactr = @ \ {x}]
Latch(e, x) == [e EXCEPT !.latched = @ \cup {x}]
Unlatch(e, x) == [e EXCEPT !.latched = @ \ {x}]

Taken(e, x) == e.slot \notin {0, x}

\* The units a row's function loops over, in the order of its loop.
LiteOrder == << 54, 55, 68, 69, 87, 88, 89 >>
TimOrder == << 44, 45, 46, 66, 70, 71 >>
DmaOrder == << 27, 28, 29, 30, 31, 32, 33, 72, 73, 74, 75, 76, 98, 99, 100, 101, 102, 103 >>

\* pfic_resync_table: the units each row's function goes through.
Table ==
    << << SoftwareIrq >>, << SysTickIrq >>, << Usart1Irq >>, LiteOrder, TimOrder,
       << Eth10mIrq >>, LiteOrder, << EthIrq >>, TimOrder, << UsbHsIrq >>, << UsbFsIrq >>,
       DmaOrder, DmaOrder, DmaOrder, DmaOrder >>

\* ch32_usart1_meip_resync and usart_lite_meip_one, which is its copy.
UsartOne(q, walk, e, x) ==
    CASE x \in q.req /\ Taken(e, x) -> e
      [] x \in q.req /\ ~Taken(e, x) -> RaiseMeip(Own(EnableMeip(e), x))
      [] x \notin q.req /\ e.slot = x /\ q.inIsr -> LowerMeip(e)
      [] x \notin q.req /\ e.slot = x /\ ~q.inIsr ->
            walk[Disown(LowerMeip(e), x)]
      [] OTHER -> e

\* ch32_tim_meip_update and ch32_eth_meip_resync
LatchOne(q, walk, e, x) ==
    CASE x \notin q.req /\ e.slot = x ->
            Unlatch(walk[Disown(DisableMeip(LowerMeip(e)), x)], x)
      [] x \notin q.req /\ e.slot # x -> Unlatch(e, x)
      [] x \in q.req /\ (x \in e.latched \/ Taken(e, x)) -> e
      [] OTHER -> RaiseMeip(Own(Latch(EnableMeip(e), x), x))

\* ch32_eth_10m_meip_resync, with its withdraw and inject.
Eth10m(q, walk, e) ==
    LET n == Eth10mIrq
        done == ~q.inIsr /\ e.slot = n
        \* path 2: withdraw without telling the others
        w == IF n \in e.latched
             THEN Unlatch(Disown(DisableMeip(LowerMeip(e)), n), n) ELSE e
    IN  CASE n \notin q.req /\ e.slot = n ->
                Unlatch(walk[Disown(DisableMeip(LowerMeip(e)), n)], n)
          [] n \notin q.req /\ e.slot # n -> Unlatch(e, n)
          [] n \in q.req /\ n \in e.latched /\ ~done -> e
          [] n \in q.req /\ n \notin e.latched /\ Taken(e, n) -> e
          [] OTHER -> RaiseMeip(Own(Latch(EnableMeip(w), n), n))

\* ch32_usbhost_meip_resync and ch32_usbfs_host_meip_resync
UsbOne(q, walk, e, x) ==
    LET on == EnableMeip(e)
    IN  CASE x \notin q.usb ->
                IF e.slot = x THEN Disown(LowerMeip(DisableMeip(e)), x) ELSE DisableMeip(e)
          [] x \in q.req -> IF Taken(e, x) THEN on ELSE RaiseMeip(Own(on, x))
          [] OTHER -> IF e.slot = x THEN walk[Disown(LowerMeip(on), x)] ELSE on

\* ch32_dma_fire_irq; ask is whether the caller's own conditions hold.
FireIrq(q, e, x, ask) ==
    IF ~ask \/ x \notin q.ienr THEN e
    ELSE IF e.slot # 0 THEN [e EXCEPT !.ipr = @ \cup {x}]
    ELSE RaiseMeip([EnableMeip(e) EXCEPT !.slot = x])

SoftMieSync(q, e) ==
    IF SoftwareIrq \in q.ienr THEN [e EXCEPT !.mie = @ \cup {"MSIP"}]
    ELSE [e EXCEPT !.mie = @ \ {"MSIP"}, !.mip = @ \ {"MSIP"}]

StkScheduleRow(q, e) == IF q.stk = "off" THEN [e EXCEPT !.mip = @ \ {"MTIP"}] ELSE e

\* What a row's function does for unit x.
Turn(q, walk, e, x) ==
    CASE x = SoftwareIrq -> SoftMieSync(q, e)
      [] x = SysTickIrq -> StkScheduleRow(q, e)
      [] x \in UsartIrqs -> UsartOne(q, walk, e, x)
      [] x \in TimIrqs \cup {EthIrq} -> LatchOne(q, walk, e, x)
      [] x = Eth10mIrq -> Eth10m(q, walk, e)
      [] x \in UsbIrqs -> UsbOne(q, walk, e, x)
      [] x \in DmaIrqs -> FireIrq(q, e, x, x \in q.req)
      [] OTHER -> e

\* Units that are not in the machine of this instance have nothing to do; a USB
\* host that is off still masks MEIP.
Idle == TableIrqs \ (Irqs \cup UsbIrqs)

\* The function of a row whose units are xs.
Row(q, walk, e, xs) ==
    LET after[i \in 0 .. Len(xs)] ==
            CASE i = 0 -> e
              [] i > 0 /\ xs[i] \in Idle -> after[i - 1]
              [] OTHER -> Turn(q, walk, after[i - 1], xs[i])
    IN  after[Len(xs)]

\* The loop of ch32_pfic_resync_pending_meip over the table.
WalkTable(q, walk, e) ==
    LET after[i \in 0 .. Len(Table)] ==
            IF i = 0 THEN e ELSE Row(q, walk, after[i - 1], Table[i])
    IN  after[Len(Table)]

\* The walk is entered again only from a release, and a walk starts with a
\* free slot.  Were a walk to release the slot too, it would leave behind
\* what no step of MeipSlot can.
Entered == [e \in Routings |-> [e EXCEPT !.slot = NoIrq]]

\* ch32_pfic_resync_pending_meip
ResyncPending(q) == [e \in Routings |-> WalkTable(q, Entered, e)]

\* The units of the row whose mask holds bit x.
RowOf(x) ==
    CASE x \in LiteIrqs -> LiteOrder
      [] x \in TimIrqs -> TimOrder
      [] x \in DmaIrqs -> DmaOrder
      [] OTHER -> << x >>

\* ch32_pfic_resync_changed, for a write that changes bit x.
ResyncChanged(q, e, x) == Row(q, ResyncPending(q), e, RowOf(x))

\* ch32_pfic_resync_software_pending
SoftwarePending(q, e) ==
    LET pend == (e.ipr \cap q.ienr) \ (TableIrqs \cup {SoftwareIrq, SysTickIrq})
        x == Lowest(pend)
    IN  IF e.slot # 0 \/ pend = {} THEN e
        ELSE [RaiseMeip(Own(EnableMeip(e), x)) EXCEPT !.ipr = @ \ {x}]

\* Variant: the callback of mret forgets to lower MEIP.
OnMretKeepsMeip(q, e) == SoftwarePending(q, ResyncPending(q)[Disown(e, e.slot)])

\* ch32_pfic_on_mret
OnMret(q, e) == SoftwarePending(q, ResyncPending(q)[LowerMeip(Disown(e, e.slot))])

-----------------------------------------------------------------------------
(***************************************************************************)
(* The steps.  A timer resyncs itself alone; the other devices call the    *)
(* function of their row.                                                  *)
(***************************************************************************)

DeviceHandler(q, e, x) ==
    Row(q, ResyncPending(q), e, IF x \in TimIrqs THEN << x >> ELSE RowOf(x))

HDeviceEvent(x, on) ==
    /\ vtf
    /\ x \in Irqs \cap (TableIrqs \ DmaIrqs)
    /\ line' = IF on THEN line \cup {x} ELSE line \ {x}
    /\ UNCHANGED << ienr, gate, stk, hart >>
    /\ Becomes(DeviceHandler(Registers', Routing, x))
    /\ Hear(x)

HUsbModeWrite(x, hostMode) ==
    /\ vtf
    /\ x \in Irqs \cap UsbIrqs
    /\ gate' = IF hostMode THEN gate \cup {x} ELSE gate \ {x}
    /\ UNCHANGED << ienr, line, stk, hart >>
    /\ Becomes(DeviceHandler(Registers', Routing, x))
    /\ Hear(x)

HDmaTransfer(x, tcie) ==
    /\ vtf
    /\ x \in (Irqs \cap DmaIrqs) \ {DeadDmaIrq}
    /\ line' = line \cup {x}
    /\ gate' = IF tcie THEN gate \cup {x} ELSE gate \ {x}
    /\ UNCHANGED << ienr, stk, untold, hart >>
    /\ Becomes(FireIrq(Registers', Routing, x, tcie))

\* Without TEIE nobody is told.
HDmaError(x, tcie, teie) ==
    /\ vtf
    /\ x \in (Irqs \cap DmaIrqs) \ {DeadDmaIrq}
    /\ gate' = IF tcie THEN gate \cup {x} ELSE gate \ {x}
    /\ UNCHANGED << ienr, line, stk, untold, hart >>
    /\ Becomes(FireIrq(Registers', Routing, x, teie))

\* IENR and IRER
HWriteEnable(x) ==
    /\ vtf
    /\ x \in PficIrqs
    /\ ienr' = IF x \in ienr THEN ienr \ {x} ELSE ienr \cup {x}
    /\ UNCHANGED << line, gate, stk, hart >>
    /\ Becomes(ResyncChanged(Registers', Routing, x))
    /\ Hear(x)

\* helper_mret: the callback runs after the counters went down.
HMret ==
    /\ handlers # << >>
    /\ handlers' = Tail(handlers)
    /\ gie' = mpie
    /\ mpie' = TRUE
    /\ swSkip' = FALSE
    /\ hpeDepth' = IF ~swSkip /\ hpeDepth > 0 THEN hpeDepth - 1 ELSE hpeDepth
    /\ vtfInIsr' = IF ~swSkip /\ vtfInIsr > 0 THEN vtfInIsr - 1 ELSE vtfInIsr
    /\ UNCHANGED << vtf, ienr, line, gate, stk >>
    /\ untold' = IF ~swSkip /\ slot # 0 THEN {} ELSE untold
    /\ Becomes(IF ~swSkip /\ slot # 0 THEN OnMret(Registers', Routing) ELSE Routing)

HandlerNext ==
    \/ \E x \in Irqs, b \in BOOLEAN :
           \/ HDeviceEvent(x, b) \/ QuietChange(x) \/ HUsbModeWrite(x, b)
           \/ HDmaTransfer(x, b) \/ DmaConfigure(x, b)
           \/ \E teie \in BOOLEAN : HDmaError(x, b, teie)
    \/ DmaStep
    \/ \E x \in PficIrqs : HWriteEnable(x) \/ WriteIPSR(x) \/ WriteIPRR(x)
    \/ \E mode \in {"off", "count", "irq"}, b \in BOOLEAN : WriteStkCtlr(mode, b)
    \/ ClearStkSr
    \/ StkTick
    \/ \E b \in BOOLEAN : SetGie(b)
    \/ TakeExternal \/ TakeSoftware \/ TakeTimer
    \/ Fault
    \/ HMret
    \/ StartFirmware
    \/ \E attached \in SUBSET (UsbIrqs \cap Irqs) : Reset(attached)

HandlerSpec == Init /\ [][HandlerNext]_vars

\* The handlers as written implement the closed forms of MeipSlot: every step
\* of theirs, nested walks included, is the step MeipSlot allows there.
ImplementsMeipSlot == Spec
===============================================================================
