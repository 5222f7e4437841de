------------------------------- MODULE MeipSlot -------------------------------
(***************************************************************************)
(* How the CH32V machine delivers peripheral interrupts to its single      *)
(* QingKe hart.  All peripherals share one machine external interrupt      *)
(* (MEIP) and one routing slot, env->wch_evt_mcause_override, that holds   *)
(* the PFIC number of the peripheral MEIP currently stands for (0 = free). *)
(* A device that finds the slot taken waits until somebody releases it and *)
(* walks pfic_resync_table.                                                *)
(*                                                                         *)
(* Every MMIO handler, timer callback, bottom half, trap entry and mret    *)
(* runs under the big QEMU lock, so each one is a single action.  The      *)
(* firmware is unconstrained: it may write any register at any time; the   *)
(* one thing it is assumed to do is set mtvec to VTF mode in its startup   *)
(* code before it enables interrupts.                                      *)
(***************************************************************************)
EXTENDS Naturals, Sequences, FiniteSets

CONSTANTS
    Irqs,        \* the PFIC numbers of the peripherals in this instance
    Pended,      \* the interrupts the firmware pends with NVIC_SetPendingIRQ
    MaxHandlers, \* bound: how many trap handlers may be on the stack
    Faults,      \* where synchronous exceptions may strike
    GuestReset   \* whether the guest (or its watchdog) may reset the machine

SysTickIrq == 12
SoftwareIrq == 14
\* The core's own interrupts that IPSR injects like a peripheral's.
SystemIrqs == {2, 3, SysTickIrq}
HardFault == 0         \* a synchronous exception; it runs word 3, as a pended 3 does
ExtCause == 11         \* IRQ_M_EXT, the vector when the slot is empty

Usart1Irq == 53
LiteIrqs  == {54, 55, 68, 69, 87, 88, 89}
TimIrqs   == {44, 45, 46, 66, 70, 71}
Eth10mIrq == 61
EthIrq    == 77
UsbHsIrq  == 85
UsbFsIrq  == 83
Dma1Irqs  == 27 .. 33
Dma2Irqs  == (72 .. 76) \cup {98, 99}
DmaExIrqs == 100 .. 103

\* Channel 8 of DMA2 has an interrupt but no reachable CFGR (module Dma).
DeadDmaIrq == 100

UsartIrqs == {Usart1Irq} \cup LiteIrqs
DmaIrqs   == Dma1Irqs \cup Dma2Irqs \cup DmaExIrqs
UsbIrqs   == {UsbHsIrq, UsbFsIrq}
\* Devices with an irq_active flag: they claim once per assertion.
LatchIrqs == TimIrqs \cup {Eth10mIrq, EthIrq}
\* Devices with a row in pfic_resync_table; the others are software-pended.
TableIrqs == UsartIrqs \cup LatchIrqs \cup UsbIrqs \cup DmaIrqs
\* Devices with a second enable bit: USB host mode, DMA TCIE.
GatedIrqs == UsbIrqs \cup DmaIrqs

ASSUME IrqsAssumption == Irqs \subseteq 16 .. 103
ASSUME PendedAssumption == Pended \subseteq Irqs \cup SystemIrqs
ASSUME MaxHandlersAssumption == MaxHandlers \in Nat \ {0}
ASSUME FaultsAssumption == Faults \in {"none", "thread", "anywhere"}
ASSUME GuestResetAssumption == GuestReset \in BOOLEAN

\* The order in which a walk of pfic_resync_table reaches the devices.
ScanOrder == << 53, 54, 55, 68, 69, 87, 88, 89, 44, 45, 46, 66, 70, 71,
                61, 77, 85, 83, 27, 28, 29, 30, 31, 32, 33,
                72, 73, 74, 75, 76, 98, 99, 100, 101, 102, 103 >>

Rank == [x \in TableIrqs |-> CHOOSE i \in 1 .. Len(ScanOrder) : ScanOrder[i] = x]

FirstInTable(S) == CHOOSE x \in S : \A y \in S : Rank[x] <= Rank[y]
Lowest(S) == CHOOSE x \in S : \A y \in S : x <= y

VARIABLES
    slot,      \* env->wch_evt_mcause_override
    mip, mie,  \* pending and enabled bits among MEIP, MSIP, MTIP
    iactr,     \* PFIC active bits
    ipr,       \* PFIC (software) pending bits
    latched,   \* the devices whose irq_active is set
    ienr,      \* PFIC enable bits
    line,      \* devices whose status && interrupt-enable registers ask
    untold,    \* history: devices whose registers changed without their resync
    gate,      \* gated devices whose second enable is set
    stk,       \* SysTick: "off", "count" (STE only) or "irq" (STE and STIE)
    gie, mpie, \* mstatus.MIE and mstatus.MPIE
    vtf,       \* mtvec[1:0] = 3
    vtfInIsr,  \* env->wch_vtf_in_isr
    hpeDepth,  \* env->wch_hpe_depth
    swSkip,    \* env->wch_hpe_sw_handler_skip
    handlers   \* vectors of the trap handlers being executed, innermost first

route == << slot, mip, mie, iactr, ipr, latched >>
request == << ienr, line, gate, stk, untold >>
hart == << gie, mpie, vtf, vtfInIsr, hpeDepth, swSkip, handlers >>
vars == << route, request, hart >>

HpeMax == 8            \* ARRAY_SIZE(env->wch_hpe_bank)
Bits == {"MEIP", "MSIP", "MTIP"}

(***************************************************************************)
(* The requests.                                                           *)
(***************************************************************************)

UsbOn(x) == x \in ienr /\ x \in gate

\* The devices whose request may change without a call of their resync.
QuietIrqs == {EthIrq, Usart1Irq}

\* The interrupts that may own the slot.
Owners == Irqs \cup Pended

\* The devices that ask for MEIP and that the PFIC lets through.
Requesting == {x \in Irqs \cap ienr \cap line : x \in GatedIrqs => x \in gate}

(***************************************************************************)
(* Building blocks of the resync functions.  They fix the next value of    *)
(* route; the caller has fixed the next value of request before.           *)
(***************************************************************************)

\* Variant: the slot is taken without raising MEIP.
ClaimSlotSilent(x) ==
    /\ slot' = x
    /\ UNCHANGED mip
    /\ mie' = mie \cup {"MEIP"}
    /\ iactr' = iactr \cup ({x} \ DmaIrqs)

ClaimSlot(x) ==
    /\ slot' = x
    /\ mip' = mip \cup {"MEIP"}
    /\ mie' = mie \cup {"MEIP"}
    /\ iactr' = iactr \cup ({x} \ DmaIrqs)

\* The owner gives the slot back and the whole table is walked: the first
\* device of the table that asks and is not latched takes the slot, after it
\* a software-pended interrupt if soft holds.  The SysTick and Software rows
\* reschedule and re-enable their own bits, the DMA rows leave a pending bit
\* for the channels that lost.  The two USB rows rewrite mie.MEIP whoever
\* owns the slot, and only a DMA channel or the injection comes after them.
\* A device of again re-asserts mie after the walk.
Rescan(soft, again) ==
    LET hw == Requesting' \ latched
        sw == IF soft /\ hw = {} THEN (ienr' \cap ipr) \ (TableIrqs \cup {SoftwareIrq, SysTickIrq}) ELSE {}
        w  == IF hw # {} THEN FirstInTable(hw)
              ELSE IF sw # {} THEN Lowest(sw) ELSE 0
    IN  /\ slot' = w
        /\ mip' = (IF w # 0 THEN {"MEIP"} ELSE {})
                    \cup (mip \cap (IF stk' # "off" THEN {"MTIP"} ELSE {}))
                    \cup (mip \cap (IF SoftwareIrq \in ienr' THEN {"MSIP"} ELSE {}))
        /\ mie' = (IF w \in DmaIrqs \cup sw \cup again \/ UsbOn(UsbFsIrq)'
                   THEN {"MEIP"} ELSE {})
                    \cup (mie \cap {"MTIP"})
                    \cup (IF SoftwareIrq \in ienr' THEN {"MSIP"} ELSE {})
        /\ iactr' = (iactr \ {slot}) \cup ({w} \ (DmaIrqs \cup {0}))
        /\ ipr' = (ipr \ (sw \cap {w})) \cup (Requesting' \cap DmaIrqs)
        /\ latched' = (latched \cap Requesting') \cup ({w} \cap LatchIrqs)

Hold == UNCHANGED route

\* The resync of x, and a walk that released the slot, hear of what changed.
\* A USB host that was switched off gives the slot back without a walk.
Hear(x) ==
    untold' = IF slot \notin {0, slot'} /\ (slot \in UsbIrqs => slot \in ienr' \cap gate')
              THEN {} ELSE untold \ {x}

(***************************************************************************)
(* The resync function of each kind of device.  F is the set of devices    *)
(* the function walks: one device, or the whole family where the code      *)
(* loops over all of its instances.                                        *)
(***************************************************************************)

\* Variant: with the arbitration but without the handler test.
UsartResyncAtOnce(F) ==
    LET want == F \cap Requesting'
    IN  \/ slot = 0 /\ want # {} /\ ClaimSlot(FirstInTable(want))
           /\ UNCHANGED << ipr, latched >>
        \/ slot = 0 /\ want = {} /\ Hold
        \/ slot \in F \ want /\ Rescan(FALSE, {})
        \/ slot # 0 /\ slot \notin F \ want /\ Hold

\* The USARTs give the slot back only outside handlers: inside one they drop
\* MEIP and keep the slot and the active bit until mret.
UsartResync(F) ==
    LET want == F \cap Requesting'
    IN  \/ /\ slot \in want \/ (slot = 0 /\ want # {})
           /\ ClaimSlot(IF slot = 0 THEN FirstInTable(want) ELSE slot)
           /\ UNCHANGED << ipr, latched >>
        \/ /\ slot \in F \ want
           /\ vtfInIsr > 0
           /\ mip' = mip \ {"MEIP"}
           /\ UNCHANGED << slot, mie, iactr, ipr, latched >>
        \/ /\ slot \in F \ want
           /\ vtfInIsr = 0
           /\ Rescan(FALSE, {y \in F : y > slot})
        \/ /\ slot \notin F
           /\ slot = 0 => want = {}
           /\ Hold

\* Variant: irq_active survives the request; the table is not walked.
LatchResyncSticky(F) ==
    LET fresh == (F \cap Requesting') \ latched
    IN  \/ /\ slot = 0 /\ fresh # {}
           /\ ClaimSlot(FirstInTable(fresh))
           /\ latched' = latched \cup {slot'}
           /\ UNCHANGED ipr
        \/ (slot # 0 \/ fresh = {}) /\ Hold

LatchResyncAlone(F) ==
    \/ /\ slot \in F \ Requesting'
       /\ slot' = 0 /\ mip' = mip \ {"MEIP"} /\ iactr' = iactr \ {slot}
       /\ latched' = latched \ {slot}
       /\ UNCHANGED << mie, ipr >>
    \/ slot \notin F \ Requesting' /\ LatchResyncSticky(F)

\* The TIMs and the MAC claim once per assertion (irq_active) and give the
\* slot back, inside their own handler too, as soon as the request is gone.
LatchResync(F) ==
    LET want  == F \cap Requesting'
        fresh == want \ latched
    IN  \/ /\ slot \in F \ want
           /\ Rescan(FALSE, {})
        \/ /\ slot \in fresh \/ (slot = 0 /\ fresh # {})
           /\ ClaimSlot(IF slot = 0 THEN FirstInTable(fresh) ELSE slot)
           /\ latched' = (latched \ (F \ want)) \cup {slot'}
           /\ UNCHANGED ipr
        \/ /\ slot \notin (F \ want) \cup fresh
           /\ slot = 0 => fresh = {}
           /\ latched' = latched \ (F \ want)
           /\ UNCHANGED << slot, mip, mie, iactr, ipr >>

\* ETH10M re-injects a request it still owns once no handler runs.
Eth10mResync ==
    LET want == Eth10mIrq \in Requesting'
        done == vtfInIsr = 0 /\ slot = Eth10mIrq
        inject == IF Eth10mIrq \in latched THEN done ELSE slot \in {0, Eth10mIrq}
    IN  \/ /\ ~want /\ slot = Eth10mIrq
           /\ Rescan(FALSE, {})
        \/ /\ ~want /\ slot # Eth10mIrq
           /\ latched' = latched \ {Eth10mIrq}
           /\ UNCHANGED << slot, mip, mie, iactr, ipr >>
        \/ /\ want /\ inject
           /\ ClaimSlot(Eth10mIrq)
           /\ latched' = latched \cup {Eth10mIrq}
           /\ UNCHANGED ipr
        \/ want /\ ~inject /\ Hold

\* Variant: leaving host mode masks MEIP and leaves the slot as it is.
UsbResyncKeeps(x) ==
    \/ ~UsbOn(x)' /\ mie' = mie \ {"MEIP"}
       /\ UNCHANGED << slot, mip, iactr, ipr, latched >>
    \/ /\ UsbOn(x)' /\ x \in Requesting' /\ slot \in {0, x}
       /\ ClaimSlot(x)
       /\ UNCHANGED << ipr, latched >>
    \/ /\ UsbOn(x)' /\ x \notin Requesting' /\ slot = x
       /\ Rescan(FALSE, {})
    \/ UsbOn(x)' /\ slot # x /\ (x \in Requesting' => slot # 0) /\ Hold

\* The USB hosts enable and disable mie.MEIP for everybody.
UsbResync(x) ==
    \/ /\ ~UsbOn(x)'
       /\ mie' = mie \ {"MEIP"}
       /\ slot' = IF slot = x THEN 0 ELSE slot
       /\ mip' = IF slot = x THEN mip \ {"MEIP"} ELSE mip
       /\ iactr' = iactr \ ({x} \cap {slot})
       /\ UNCHANGED << ipr, latched >>
    \/ /\ x \in Requesting' /\ slot \in {0, x}
       /\ ClaimSlot(x)
       /\ UNCHANGED << ipr, latched >>
    \/ /\ UsbOn(x)' /\ x \notin Requesting' /\ slot = x
       /\ Rescan(FALSE, {})
    \/ /\ UsbOn(x)' /\ slot # x
       /\ x \in Requesting' => slot # 0
       /\ mie' = mie \cup {"MEIP"}
       /\ UNCHANGED << slot, mip, iactr, ipr, latched >>

\* Variant: the channel takes the slot whoever owns it.
DmaFireBlind(D) ==
    \/ D # {} /\ ClaimSlot(Lowest(D)) /\ UNCHANGED << ipr, latched >>
    \/ D = {} /\ Hold

\* ch32_dma_fire_irq for the channels of D in turn.
DmaFire(D) ==
    \/ /\ D # {} /\ slot = 0
       /\ ClaimSlot(Lowest(D))
       /\ ipr' = ipr \cup (D \ {slot'})
       /\ UNCHANGED latched
    \/ /\ slot = 0 => D = {}
       /\ ipr' = ipr \cup D
       /\ UNCHANGED << slot, mip, mie, iactr, latched >>

SoftwareMieSync ==
    /\ IF SoftwareIrq \in ienr'
       THEN mie' = mie \cup {"MSIP"} /\ UNCHANGED mip
       ELSE mie' = mie \ {"MSIP"} /\ mip' = mip \ {"MSIP"}
    /\ UNCHANGED << slot, iactr, ipr, latched >>

StkSchedule ==
    /\ mip' = IF stk' = "off" THEN mip \ {"MTIP"} ELSE mip
    /\ UNCHANGED << slot, mie, iactr, ipr, latched >>

\* What the device of x itself calls after its registers changed.
DeviceResync(x) ==
    \/ x = Usart1Irq /\ UsartResync({Usart1Irq})
    \/ x \in LiteIrqs /\ UsartResync(LiteIrqs)
    \/ x \in TimIrqs \cup {EthIrq} /\ LatchResync({x})
    \/ x = Eth10mIrq /\ Eth10mResync
    \/ x \in UsbIrqs /\ UsbResync(x)

\* What the row of pfic_resync_table that covers bit x calls.
RowResync(x) ==
    \/ x \in UsartIrqs \cup UsbIrqs \cup {EthIrq, Eth10mIrq} /\ DeviceResync(x)
    \/ x \in TimIrqs /\ LatchResync(TimIrqs)
    \/ x \in DmaIrqs /\ DmaFire(Requesting' \cap DmaIrqs)
    \/ x = SoftwareIrq /\ SoftwareMieSync
    \/ x = SysTickIrq /\ StkSchedule
    \/ x \notin TableIrqs \cup {SoftwareIrq, SysTickIrq} /\ Hold

(***************************************************************************)
(* Devices: their registers change, by an MMIO access of the firmware or   *)
(* by a timer, chardev, network or USB callback, and they resync.  Before  *)
(* the startup code has run nothing is enabled and nothing changes.        *)
(***************************************************************************)

\* A handler of device x leaves its request raised (on) or not and resyncs.
DeviceEvent(x, on) ==
    /\ vtf
    /\ x \in Irqs \cap (TableIrqs \ DmaIrqs)
    /\ line' = IF on THEN line \cup {x} ELSE line \ {x}
    /\ UNCHANGED << ienr, gate, stk, hart >>
    /\ DeviceResync(x)
    /\ Hear(x)

\* The two register changes that no resync follows: a store to the MAC's
\* DMAIER, and a byte that USART1 receives under DMAR.
QuietChange(x) ==
    /\ vtf
    /\ x \in Irqs \cap QuietIrqs
    /\ x = Usart1Irq => x \notin line
    /\ line' = IF x \in line THEN line \ {x} ELSE line \cup {x}
    /\ untold' = untold \cup {x}
    /\ UNCHANGED << ienr, gate, stk, hart, route >>

\* The firmware writes a USB controller's mode register.
UsbModeWrite(x, hostMode) ==
    /\ vtf
    /\ x \in Irqs \cap UsbIrqs
    /\ gate' = IF hostMode THEN gate \cup {x} ELSE gate \ {x}
    /\ UNCHANGED << ienr, line, stk, hart >>
    /\ UsbResync(x)
    /\ Hear(x)

\* CFGR is written with EN: the whole transfer runs, TCIF is set and, with
\* TCIE, the interrupt fired.  EN is clear again when the write returns, so
\* the USART pumps, which want it set, never find a channel to feed.
DmaTransfer(x, tcie) ==
    /\ vtf
    /\ x \in (Irqs \cap DmaIrqs) \ {DeadDmaIrq}
    /\ line' = line \cup {x}
    /\ gate' = IF tcie THEN gate \cup {x} ELSE gate \ {x}
    /\ UNCHANGED << ienr, stk, untold, hart >>
    /\ DmaFire({x} \cap Requesting')

\* The same with a memory error: TEIF instead of TCIF, fired under TEIE.
DmaError(x, tcie) ==
    /\ vtf
    /\ x \in (Irqs \cap DmaIrqs) \ {DeadDmaIrq}
    /\ gate' = IF tcie THEN gate \cup {x} ELSE gate \ {x}
    /\ UNCHANGED << ienr, line, stk, untold, hart >>
    /\ DmaFire({x} \cap ienr)

\* CFGR is written without EN.
DmaConfigure(x, tcie) ==
    /\ vtf
    /\ x \in (Irqs \cap DmaIrqs) \ {DeadDmaIrq}
    /\ gate' = IF tcie THEN gate \cup {x} ELSE gate \ {x}
    /\ UNCHANGED << ienr, line, stk, untold, hart, route >>

\* INTFCR of the controller with channels C: the channels of clr lose their
\* flags, and an owner of C without TCIF loses the slot; nobody is told.
DmaClear(C, clr) ==
    /\ vtf
    /\ C \in {Dma1Irqs, Dma2Irqs, DmaExIrqs}
    /\ clr \subseteq C \cap Irqs
    /\ C \cap Irqs # {}
    /\ line' = line \ clr
    /\ UNCHANGED << ienr, gate, stk, untold, hart, mie, iactr, ipr, latched >>
    /\ IF slot \in C \ line'
       THEN slot' = 0 /\ mip' = mip \ {"MEIP"}
       ELSE UNCHANGED << slot, mip >>

(***************************************************************************)
(* The PFIC and SysTick registers the firmware writes.                     *)
(***************************************************************************)

PficIrqs == Owners \cup {SoftwareIrq, SysTickIrq}

WriteIENR(x) ==
    /\ vtf
    /\ x \in PficIrqs \ ienr
    /\ ienr' = ienr \cup {x}
    /\ UNCHANGED << line, gate, stk, hart >>
    /\ RowResync(x)
    /\ Hear(x)

WriteIRER(x) ==
    /\ vtf
    /\ x \in PficIrqs \cap ienr
    /\ ienr' = ienr \ {x}
    /\ UNCHANGED << line, gate, stk, hart >>
    /\ RowResync(x)
    /\ Hear(x)

\* Raise MSIP if the PFIC lets Software_IRQn through.
PendSoftware == mip' = IF SoftwareIrq \in ienr THEN mip \cup {"MSIP"} ELSE mip

\* NVIC_SetPendingIRQ: any bit but Software_IRQn's, enabled, is injected at once
\* if the slot is free, which also consumes its pending bit.
WriteIPSR(x) ==
    /\ vtf
    /\ x \in Pended \cup {SoftwareIrq}
    /\ \/ /\ x = SoftwareIrq
          /\ PendSoftware
          /\ ipr' = ipr \cup {x}
          /\ UNCHANGED << slot, mie, iactr >>
       \/ /\ x # SoftwareIrq /\ x \in ienr /\ slot = 0
          /\ slot' = x
          /\ mip' = mip \cup {"MEIP"}
          /\ mie' = mie \cup {"MEIP"}
          /\ iactr' = iactr \cup {x}
          /\ ipr' = ipr \ {x}
       \/ /\ x # SoftwareIrq /\ (x \notin ienr \/ slot # 0)
          /\ ipr' = ipr \cup {x}
          /\ UNCHANGED << slot, mip, mie, iactr >>
    /\ UNCHANGED << latched, request, hart >>

WriteIPRR(x) ==
    /\ vtf
    /\ x \in PficIrqs
    /\ ipr' = ipr \ {x}
    /\ mip' = IF x = SoftwareIrq THEN mip \ {"MSIP"} ELSE mip
    /\ UNCHANGED << slot, mie, iactr, latched, request, hart >>

\* STK_CTLR: the mode, and with SWTRG the context switch interrupt.
WriteStkCtlr(mode, swtrg) ==
    /\ vtf
    /\ stk' = mode
    /\ LET m == IF swtrg /\ SoftwareIrq \in ienr THEN mip \cup {"MSIP"} ELSE mip
       IN  mip' = IF mode = "off" THEN m \ {"MTIP"} ELSE m
    /\ UNCHANGED << slot, mie, iactr, ipr, latched, ienr, line, gate, untold, hart >>

\* STK_SR with CNTIF cleared.
ClearStkSr ==
    /\ vtf
    /\ mip' = mip \ {"MTIP"}
    /\ UNCHANGED << slot, mie, iactr, ipr, latched, request, hart >>

StkTick ==
    /\ stk # "off"
    /\ IF stk = "irq" /\ SysTickIrq \in ienr
       THEN mip' = mip \cup {"MTIP"} /\ mie' = mie \cup {"MTIP"}
       ELSE UNCHANGED << mip, mie >>
    /\ UNCHANGED << slot, iactr, ipr, latched, request, hart >>

(***************************************************************************)
(* The hart.                                                               *)
(***************************************************************************)

\* csrs/csrc mstatus.MIE, by the thread or by a handler.
SetGie(on) ==
    /\ vtf
    /\ gie' = on
    /\ UNCHANGED << route, request, mpie, vtf, vtfInIsr, hpeDepth, swSkip, handlers >>

Pending == mip \cap mie

\* Variant: the context switch may be interrupted.
BlockedByHandler == vtf /\ vtfInIsr > 0

\* VTF mode neither nests interrupts nor interrupts the context switch.
Blocked == vtf /\ (vtfInIsr > 0 \/ swSkip)

EnterTrap(vec) ==
    /\ Len(handlers) < MaxHandlers
    /\ gie' = FALSE
    /\ mpie' = gie
    /\ handlers' = << vec >> \o handlers
    /\ UNCHANGED << vtf, request >>

\* The common end of riscv_cpu_do_interrupt for a VTF interrupt.
EnterVtf(vec) ==
    /\ EnterTrap(vec)
    /\ vtfInIsr' = vtfInIsr + 1
    /\ hpeDepth' = IF hpeDepth < HpeMax THEN hpeDepth + 1 ELSE hpeDepth
    /\ UNCHANGED << route, swSkip >>

\* The lowest pending bit is taken: MSIP (3) before MTIP (7), MEIP (11) last.
TakeExternal ==
    /\ gie /\ ~Blocked
    /\ Pending = {"MEIP"}
    /\ EnterVtf(IF slot # 0 THEN slot ELSE ExtCause)

TakeSoftware ==
    /\ gie /\ ~Blocked
    /\ "MSIP" \in Pending
    /\ mip' = mip \ {"MSIP"}
    /\ swSkip' = TRUE
    /\ EnterTrap(SoftwareIrq)
    /\ UNCHANGED << slot, mie, iactr, ipr, latched, vtfInIsr, hpeDepth >>

TakeTimer ==
    /\ gie /\ ~Blocked
    /\ "MTIP" \in Pending /\ "MSIP" \notin Pending
    /\ EnterVtf(SysTickIrq)

\* A synchronous exception goes to HardFault_Handler and counts as nothing.
Fault ==
    /\ vtf
    /\ Faults = "anywhere" \/ (Faults = "thread" /\ handlers = << >>)
    /\ EnterTrap(HardFault)
    /\ UNCHANGED << route, vtfInIsr, hpeDepth, swSkip >>

\* helper_mret and, with an owner, ch32_pfic_on_mret.
Mret ==
    /\ handlers # << >>
    /\ handlers' = Tail(handlers)
    /\ gie' = mpie
    /\ mpie' = TRUE
    /\ swSkip' = FALSE
    /\ UNCHANGED << vtf, ienr, line, gate, stk >>
    /\ untold' = IF ~swSkip /\ slot # 0 THEN {} ELSE untold
    /\ \/ swSkip /\ UNCHANGED << hpeDepth, vtfInIsr, route >>
       \/ /\ ~swSkip
          /\ hpeDepth' = IF hpeDepth > 0 THEN hpeDepth - 1 ELSE 0
          /\ vtfInIsr' = IF vtfInIsr > 0 THEN vtfInIsr - 1 ELSE 0
          /\ IF slot # 0 THEN Rescan(TRUE, {}) ELSE Hold

\* The startup code: VTF mode, then mret to main with interrupts enabled.
StartFirmware ==
    /\ ~vtf
    /\ vtf' = TRUE
    /\ gie' = TRUE
    /\ mpie' = TRUE
    /\ UNCHANGED << route, request, vtfInIsr, hpeDepth, swSkip, handlers >>

\* ch32_machine_reset.  attached are the USB controllers with a device on the
\* root port.  The owner is withdrawn only by the devices reset before the
\* hart forgets who it was: the USARTs and an attached USB host.
Reset(attached) ==
    /\ GuestReset /\ vtf
    /\ attached \subseteq UsbIrqs \cap Irqs
    /\ slot' = 0
    /\ LET told == slot \in UsartIrqs \cup attached
           walked == slot \in LiteIrqs /\ vtfInIsr = 0
       IN  /\ mip' = (mip \cap {"MEIP"}) \ (IF told THEN {"MEIP"} ELSE {})
           /\ mie' = (mie \cap {"MEIP"})
                       \ (IF slot = Usart1Irq \/ walked \/ attached # {}
                          THEN {"MEIP"} ELSE {})
    /\ iactr' = {} /\ ipr' = {} /\ latched' = {}
    /\ ienr' = {} /\ line' = {} /\ gate' = {} /\ stk' = "off" /\ untold' = {}
    /\ gie' = FALSE /\ mpie' = mpie /\ vtf' = FALSE
    /\ vtfInIsr' = 0 /\ hpeDepth' = 0 /\ swSkip' = FALSE
    /\ handlers' = << >>

(***************************************************************************)
(* The specification.                                                      *)
(***************************************************************************)

Init ==
    /\ slot = 0 /\ mip = {} /\ mie = {}
    /\ iactr = {} /\ ipr = {} /\ latched = {}
    /\ ienr = {} /\ line = {} /\ gate = {} /\ stk = "off" /\ untold = {}
    /\ gie = FALSE /\ mpie = FALSE /\ vtf = FALSE
    /\ vtfInIsr = 0 /\ hpeDepth = 0 /\ swSkip = FALSE
    /\ handlers = << >>

DeviceStep ==
    \E x \in Irqs, b \in BOOLEAN :
        \/ DeviceEvent(x, b)
        \/ QuietChange(x)
        \/ UsbModeWrite(x, b)
        \/ DmaTransfer(x, b)
        \/ DmaError(x, b)
        \/ DmaConfigure(x, b)

DmaStep ==
    \E C \in {Dma1Irqs, Dma2Irqs, DmaExIrqs} :
        \E clr \in SUBSET (C \cap Irqs) : DmaClear(C, clr)

PficStep ==
    \/ \E x \in PficIrqs :
         WriteIENR(x) \/ WriteIRER(x) \/ WriteIPSR(x) \/ WriteIPRR(x)
    \/ \E mode \in {"off", "count", "irq"}, b \in BOOLEAN : WriteStkCtlr(mode, b)
    \/ ClearStkSr
    \/ StkTick

HartStep ==
    \/ \E b \in BOOLEAN : SetGie(b)
    \/ TakeExternal \/ TakeSoftware \/ TakeTimer
    \/ Fault
    \/ Mret
    \/ StartFirmware

Next ==
    \/ DeviceStep \/ DmaStep \/ PficStep \/ HartStep
    \/ \E attached \in SUBSET (UsbIrqs \cap Irqs) : Reset(attached)

Spec == Init /\ [][Next]_vars

(***************************************************************************)
(* Properties.                                                             *)
(***************************************************************************)

RouteOK ==
    /\ slot \in Owners \cup {0}
    /\ mip \in SUBSET Bits /\ mie \in SUBSET Bits
    /\ iactr \in SUBSET Owners
    /\ ipr \in SUBSET (Owners \cup {SoftwareIrq})
    /\ latched \in SUBSET (Irqs \cap LatchIrqs)

RequestOK ==
    /\ ienr \in SUBSET PficIrqs
    /\ line \in SUBSET (Irqs \cap TableIrqs)
    /\ gate \in SUBSET (Irqs \cap GatedIrqs)
    /\ stk \in {"off", "count", "irq"}
    /\ untold \in SUBSET (Irqs \cap QuietIrqs)

Vectors == Owners \cup {SoftwareIrq, SysTickIrq, HardFault, ExtCause}

HartOK ==
    /\ gie \in BOOLEAN /\ mpie \in BOOLEAN /\ vtf \in BOOLEAN
    /\ vtfInIsr \in Nat /\ hpeDepth \in 0 .. HpeMax /\ swSkip \in BOOLEAN
    /\ handlers \in Seq(Vectors)

\* The variables range over what the C fields can hold.
TypeOK == RouteOK /\ RequestOK /\ HartOK

\* The active bits reported to the firmware are exactly those of the owner of
\* the slot (DMA channels apart, which only a pend marks active): no release path of any
\* device forgets ch32_pfic_irq_active_clear and none clears another's bit.
IactrIsOwner == iactr \ DmaIrqs = {slot} \ (DmaIrqs \cup {0})

\* MEIP is raised exactly while some device owns the slot, except that a USART
\* whose request went away inside a handler keeps the slot with MEIP down; a
\* byte that comes back under DMAR there leaves it down until the next resync
\* (ch32-usart.c:529), so an owner in untold is excepted too.
MeipMatchesOwner ==
    /\ "MEIP" \in mip => slot # 0 /\ (slot \in UsartIrqs \ Pended => slot \in Requesting)
    /\ slot # 0 /\ (slot \in UsartIrqs => slot \in Requesting \ untold) => "MEIP" \in mip

\* A device owns the slot only while it asks for it; a USART may outlive its
\* request until the handler returns; a MAC whose request went with a store to
\* DMAIER keeps the slot until its resync runs (ch32-eth-dwmac.c:1340); DMA and
\* software owners are one-shot.
OwnerAsks ==
    slot \in TableIrqs \ (DmaIrqs \cup Pended \cup untold) =>
        slot \in Requesting \/ (slot \in UsartIrqs /\ vtfInIsr > 0)

\* irq_active is set only while the device asks, and always on an owner, so
\* the storm protection never survives the request it was set for by more than
\* the time to the next resync; only a store to DMAIER opens such a window.
LatchMatches ==
    /\ latched \ untold \subseteq Requesting
    /\ slot \in LatchIrqs \ Pended => slot \in latched

\* The interrupt context the VTF counters describe is the one that runs: at
\* most one interrupt, innermost, perhaps over a HardFault handler; one pushed
\* register bank while it runs, none for the context switch, and the skip flag
\* up exactly during the latter (wch-qingke.h promises no nesting).
VtfMatchesHandlers ==
    LET running == {i \in 1 .. Len(handlers) : handlers[i] # HardFault}
        switching == \E i \in running : handlers[i] = SoftwareIrq
    IN  /\ running \subseteq {1}
        /\ vtfInIsr = IF running # {} /\ ~switching THEN 1 ELSE 0
        /\ hpeDepth = vtfInIsr
        /\ swSkip <=> switching

\* While a USART handler runs, the slot still names that USART, whatever the
\* other devices, the PFIC and the USART itself do: vector 11 is never taken
\* in place of the handler's own (comment in ch32_usart1_meip_resync).
UsartKeepsSlot ==
    \A i \in 1 .. Len(handlers) : handlers[i] \in UsartIrqs => slot = handlers[i]

\* When the slot is free nobody who may claim it is left waiting, but a device
\* whose registers changed without its resync: the MAC after a store to DMAIER
\* waits for its poll timer, USART1 after a byte under DMAR for its next access.
\* A latched device waits too; EthCanReinject is about that.
NobodyWaitsForFreeSlot == slot = 0 => Requesting \ untold \subseteq latched

\* Arbitration: an owner loses the slot only by mret, by a reset, or because
\* its device does not ask any more; nobody ever takes it away (the regression
\* that the comment in ch32_dma_fire_irq recalls).
OwnerNeverPreempted ==
    [][slot # 0 /\ slot' # slot =>
         \/ Len(handlers') < Len(handlers)
         \/ ~vtf'
         \/ slot \in TableIrqs \ Requesting']_vars
===============================================================================
