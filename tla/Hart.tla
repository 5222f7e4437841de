---------------------------------- MODULE Hart ----------------------------------
(***************************************************************************)
(* The trap machinery of a QingKe hart in every mode of mtvec: direct,     *)
(* vectored and VTF, in machine and user mode, with the bank of caller-    *)
(* saved registers (HPE), the PMP, wfi and the gintenr register.           *)
(* Module MeipSlot has the VTF half of this with the peripherals that      *)
(* raise the interrupts; here a source just asks.                          *)
(*                                                                         *)
(* regs stands for the sixteen registers of wch_hpe_regmap; code changes   *)
(* them at will.  frames is the firmware's view, innermost last: what was  *)
(* interrupted and by what.  A handler puts back the mepc, MPP and MPIE it *)
(* found before its mret, so that only the registers can come back wrong.  *)
(***************************************************************************)
EXTENDS Naturals, Sequences

CONSTANTS
    HartBanks,      \* cells of wch_hpe_bank: 8
    HartNest,       \* bound: traps within one another
    HartValues,     \* values of regs
    HartUser,       \* misa has U
    HartRegions,    \* memory the PMP can tell apart
    HartRules       \* rules the firmware writes: {} for none, or "rule" with rights

ASSUME HartAssumption ==
    /\ HartBanks \in Nat \ {0} /\ HartNest \in Nat \ {0}
    /\ HartUser \in BOOLEAN
    /\ {} \in HartRules
    /\ \A r \in HartRules \ {{}} : "rule" \in r /\ r \subseteq {"rule", "read", "write"}

VARIABLE hart

HartModes == {"direct", "vectored", "reserved", "vtf"}
HartSources == {"soft", "ext"}
HartRights == {"read", "write"}
HartPrivs == IF HartUser THEN {"user", "machine"} ELSE {"machine"}

\* kind is what interrupted: "irq" and "yield" (the soft interrupt in VTF
\* mode) or "fault".
HartFrame == [kind : {"irq", "yield", "fault"}, regs : HartValues,
              priv : HartPrivs, mie : BOOLEAN]

HartState ==
    [mode : HartModes \ {"reserved"}, priv : HartPrivs, mie : BOOLEAN, mpie : BOOLEAN,
     mpp : HartPrivs, mip : SUBSET HartSources, halted : BOOLEAN,
     pmp : [HartRegions -> HartRules],
     bank : Seq(HartValues), inIsr : Nat, skip : BOOLEAN,
     regs : HartValues, frames : Seq(HartFrame), lost : BOOLEAN]

HartVtf(h) == h.mode = "vtf"
HartTop(h) == h.frames[Len(h.frames)]
HartNested(h) == Len(h.frames) > 0

\* The frames of a kind among the first i, in their order; all of them.
HartOfKind(frames, kind) ==
    LET upTo[i \in 0 .. Len(frames)] ==
            IF i = 0 THEN << >>
            ELSE IF frames[i].kind = kind THEN Append(upTo[i - 1], frames[i])
            ELSE upTo[i - 1]
    IN  upTo
HartPicked(h, kind) == HartOfKind(h.frames, kind)[Len(h.frames)]
HartCount(h, kind) == Len(HartPicked(h, kind))

\* ctz64 of what is pending: soft is 3, the timer 7 and external 11.
HartChosen(pending) == IF "soft" \in pending THEN "soft" ELSE "ext"

\* riscv_cpu_local_irq_pending: below machine mode MIE does not count.
HartPending(h) ==
    IF h.priv = "user" \/ h.mie THEN h.mip ELSE {}

\* Variant: a software handler is interrupted as any code is.
HartBlockedByHandler(h) == HartVtf(h) /\ h.inIsr > 0

\* In VTF mode neither an interrupt handler nor a yield is interrupted.
HartBlocked(h) == HartVtf(h) /\ (h.inIsr > 0 \/ h.skip)

\* The bank is pushed until it is full, and popped until it is empty.
HartPush(h) ==
    IF Len(h.bank) = HartBanks THEN [h EXCEPT !.lost = TRUE]
    ELSE [h EXCEPT !.bank = Append(@, h.regs)]
HartPop(h) ==
    IF h.skip THEN [h EXCEPT !.skip = FALSE]
    ELSE IF h.bank = << >> THEN h
    ELSE [h EXCEPT !.regs = h.bank[Len(h.bank)],
                   !.bank = SubSeq(@, 1, Len(@) - 1)]

\* riscv_cpu_do_interrupt, what every trap does.
HartTrap(h, kind) ==
    [h EXCEPT !.mpie = h.mie, !.mpp = h.priv, !.mie = FALSE, !.priv = "machine",
              !.halted = FALSE,
              !.frames = Append(@, [kind |-> kind, regs |-> h.regs, priv |-> h.priv,
                                    mie |-> h.mie])]

\* A synchronous exception takes no bank, and leaves its mret to find one.
HartRaise(h) ==
    [HartTrap(h, "fault") EXCEPT !.lost = @ \/ h.bank # << >> \/ h.skip \/ h.inIsr > 0]

\* An interrupt: the yield of an RTOS clears MSIP and takes no bank.
HartEnter(h, cause) ==
    LET yield == HartVtf(h) /\ cause = "soft"
        t == HartTrap(h, IF yield THEN "yield" ELSE "irq")
        d == IF yield THEN [t EXCEPT !.mip = @ \ {"soft"}, !.skip = TRUE]
             ELSE IF HartVtf(h) THEN [t EXCEPT !.inIsr = @ + 1]
             ELSE t
    IN  IF d.skip THEN d ELSE HartPush(d)

HartInterrupt ==
    /\ Len(hart.frames) < HartNest
    /\ HartPending(hart) # {} /\ ~HartBlocked(hart)
    /\ hart' = HartEnter(hart, HartChosen(HartPending(hart)))

HartFault ==
    /\ ~hart.halted /\ Len(hart.frames) < HartNest
    /\ hart' = HartRaise(hart)

\* helper_mret up to the check of the mode: the bank and the count go first.
HartUnwind(h) ==
    LET p == HartPop(h)
    IN  IF HartVtf(h) /\ ~h.skip /\ h.inIsr > 0 THEN [p EXCEPT !.inIsr = @ - 1] ELSE p

\* A handler ends, or the start-up code drops to what MPP says.
HartMret ==
    LET u == HartUnwind(hart)
        priv == IF HartNested(hart) THEN HartTop(hart).priv ELSE hart.mpp
        mie == IF HartNested(hart) THEN HartTop(hart).mie ELSE hart.mpie
        left == IF HartNested(hart) THEN SubSeq(hart.frames, 1, Len(hart.frames) - 1)
                ELSE << >>
    IN  /\ ~hart.halted /\ hart.priv = "machine"
        /\ hart' = [u EXCEPT !.priv = priv, !.mie = mie, !.mpie = TRUE,
                             !.mpp = IF HartUser THEN "user" ELSE "machine",
                             !.frames = left, !.lost = @ /\ left # << >>]

\* In user mode mret is illegal, which is found after the unwinding.
HartMretUser ==
    /\ ~hart.halted /\ hart.priv = "user" /\ Len(hart.frames) < HartNest
    /\ hart' = HartRaise(HartUnwind(hart))

\* The code of the firmware, and the yield handler that switches tasks.
HartCompute ==
    /\ ~hart.halted
    /\ \E v \in HartValues : hart' = [hart EXCEPT !.regs = v]

\* gintenr, which user code reaches as well, is mstatus under another name:
\* __enable_irq and __disable_irq set and clear 0x88, MIE and MPIE.
HartWriteGintenr ==
    /\ ~hart.halted
    /\ \E on \in BOOLEAN : hart' = [hart EXCEPT !.mie = on, !.mpie = on]

\* mstatus and mtvec are machine registers, and mtvec is written at start-up.
HartWriteMstatus ==
    /\ ~hart.halted /\ hart.priv = "machine" /\ ~HartNested(hart)
    /\ \E mpp \in HartPrivs : hart' = [hart EXCEPT !.mpp = mpp]
HartWriteMtvec ==
    /\ ~hart.halted /\ hart.priv = "machine" /\ ~HartNested(hart)
    /\ \E mode \in HartModes :
         hart' = IF mode = "reserved" THEN hart ELSE [hart EXCEPT !.mode = mode]

\* The PFIC raises and lowers what it has enabled.
HartAsk ==
    \E source \in HartSources :
        hart' = [hart EXCEPT !.mip = IF source \in @ THEN @ \ {source} ELSE @ \cup {source}]

\* wfi sleeps until something enabled is pending, whatever MIE says.
HartWfi ==
    /\ ~hart.halted
    /\ hart' = [hart EXCEPT !.halted = TRUE]
HartWake ==
    /\ hart.halted /\ hart.mip # {}
    /\ hart' = [hart EXCEPT !.halted = FALSE]

\* pmp_hart_has_privs asks for what was granted: nothing, for a region that
\* no rule is about, as for one whose rule grants nothing.
HartGranted(h, region) == h.pmp[region] \ {"rule"}
HartAllows(h, region, right) ==
    \/ right \in HartGranted(h, region)
    \/ HartGranted(h, region) = {}

HartWritePmp ==
    /\ ~hart.halted /\ hart.priv = "machine" /\ ~HartNested(hart)
    /\ \E region \in HartRegions, rule \in HartRules :
         hart' = [hart EXCEPT !.pmp[region] = rule]

HartAccess ==
    /\ ~hart.halted /\ hart.priv = "user" /\ Len(hart.frames) < HartNest
    /\ \E region \in HartRegions, right \in HartRights :
         ~HartAllows(hart, region, right)
    /\ hart' = HartRaise(hart)

\* riscv_cpu_reset_hold: what it does not name stays, MPP, MPIE and the rules
\* among it.
HartReset(h) ==
    [h EXCEPT !.priv = "machine", !.mie = FALSE, !.mode = "direct", !.bank = << >>,
              !.inIsr = 0, !.skip = FALSE, !.halted = FALSE,
              !.frames = << >>, !.lost = FALSE]
HartMachineReset == hart' = HartReset(hart)

HartInit ==
    \E v \in HartValues :
        hart = [mode |-> "direct", priv |-> "machine", mie |-> FALSE, mpie |-> FALSE,
                mpp |-> IF HartUser THEN "user" ELSE "machine", mip |-> {},
                halted |-> FALSE,
                pmp |-> [r \in HartRegions |-> {}], bank |-> << >>, inIsr |-> 0,
                skip |-> FALSE, regs |-> v, frames |-> << >>,
                lost |-> FALSE]

HartTraps == HartInterrupt \/ HartFault \/ HartMret \/ HartMretUser \/ HartAccess
HartCode ==
    \/ HartCompute \/ HartWriteGintenr \/ HartWriteMstatus \/ HartWriteMtvec
    \/ HartWritePmp \/ HartWfi
HartOutside == HartAsk \/ HartWake

HartNext == HartTraps \/ HartCode \/ HartOutside
HartSpec == HartInit /\ [][HartNext]_hart

HartTypeOK == hart \in HartState

\* The registers that wait in the bank are those of the interrupted code, in
\* its order, and the hart holds interrupts off for the handlers that run and
\* for nothing else.  Two things can upset the books, an exception inside a
\* handler and nesting beyond the bank (wch-qingke.h:29 to 61), and only until
\* the code at the bottom runs again: it is never left without interrupts.
HartBooksMatch ==
    /\ ~hart.lost =>
         /\ hart.bank = [i \in 1 .. HartCount(hart, "irq") |-> HartPicked(hart, "irq")[i].regs]
         /\ HartVtf(hart) => hart.inIsr = HartCount(hart, "irq")
         /\ hart.skip = (HartCount(hart, "yield") > 0)
    /\ ~HartNested(hart) => hart.bank = << >> /\ hart.inIsr = 0 /\ ~hart.skip

\* What csr.c:6709 promises of __disable_irq: with MIE clear no interrupt is
\* taken.
HartDisableHolds ==
    [][HartCount(hart', "irq") > HartCount(hart, "irq") => hart.mie]_hart

\* What cpu_helper.c:1131 says: a rule that is about an address decides.
HartRuleDecides ==
    \A region \in HartRegions :
        "rule" \in hart.pmp[region] =>
            \A right \in HartRights :
                HartAllows(hart, region, right) <=> right \in hart.pmp[region]
===============================================================================
