------------------------------ MODULE MeipClaims ------------------------------
(***************************************************************************)
(* What comments of the source say of the interrupt routing of MeipSlot,   *)
(* and the code does not keep.  Each formula is refuted by a               *)
(* counterexample that the README tells, with the constants it was found   *)
(* under.                                                                  *)
(***************************************************************************)
EXTENDS MeipSlot

\* ch32-usart.c:216 "PFIC IENR governs, the firmware need not write the mie
\* CSR": an owner that raises MEIP also has MEIP enabled.  The USB host rows
\* that follow in pfic_resync_table disable it again.
OwnerIsDeliverable == slot # 0 /\ "MEIP" \in mip => "MEIP" \in mie

\* ch32-eth-dwmac.c:346 "after the guest's mret, if DMASR still has events,
\* the poll timer injects at its next call": outside handlers a MAC that asks
\* and does not own the slot is not held back by its own irq_active.
EthCanReinject ==
    vtfInIsr = 0 /\ slot = 0 /\ EthIrq \in Requesting => EthIrq \notin latched

\* ch32-eth-dwmac.c:1426 "withdraw the ETH interrupt at reset": a machine
\* that was just reset has MEIP down.
ResetWithdrawsMeip == ~vtf => "MEIP" \notin mip

\* ch32-stk-pfic.c:471 "clear the active bit of the current IRQ in IACTR":
\* the owner that the mret callback retires is the handler that returns.
MretEndsItsOwnIrq ==
    [][slot # 0 /\ vtfInIsr > 0 /\ Len(handlers') < Len(handlers) /\ vtf'
         => slot = Head(handlers)]_vars

\* ch32-dma.c:151 "pended in pfic_ipr, and tried again by
\* ch32_pfic_resync_software_pending after mret": a callback that leaves the
\* slot free leaves no enabled DMA interrupt pending.
DmaPendRetried ==
    [][slot # 0 /\ slot' = 0 /\ Len(handlers') < Len(handlers) /\ vtf'
         => ipr' \cap ienr' \cap DmaIrqs = {}]_vars

\* ch32-stk-pfic.c:89 "at mret IACTR is cleared by
\* ch32_pfic_irq_active_clear": nothing is active once no handler runs and
\* nobody owns the slot.
IdleHasNoActive == handlers = << >> /\ slot = 0 => iactr = {}

\* ch32-dma.c:448 "withdraw MEIP, so that the slot goes back to the other
\* devices", which ch32-usart.c:209 counts on: when the slot is free no device
\* but a DMA channel is left waiting for it, apart from one whose request
\* changed without a resync.
ReleaseServesWaiters ==
    slot = 0 => Requesting \ (DmaIrqs \cup untold) \subseteq latched

\* op_helper.c:426 "only asynchronous VTF interrupts, which counted at entry,
\* count down at mret": the return from a HardFault handler leaves the
\* interrupt depth and the register banks alone.
ExceptionReturnsAlone ==
    [][handlers # << >> /\ Len(handlers') < Len(handlers) /\ vtf'
         /\ Head(handlers) = HardFault
         => UNCHANGED << vtfInIsr, hpeDepth >>]_vars

\* ch32-stk-pfic.c:378 "ETH10M comes first, for the least packet latency": a
\* callback of mret that finds ETH10M asking gives it the slot.
Eth10mFirst ==
    [][slot # 0 /\ Len(handlers') < Len(handlers) /\ vtf' /\ ~swSkip
         /\ Eth10mIrq \in Requesting' \ latched
         => slot' = Eth10mIrq]_vars
===============================================================================
