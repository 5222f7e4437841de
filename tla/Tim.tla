---------------------------------- MODULE Tim ----------------------------------
(***************************************************************************)
(* One of the timers TIM2 to TIM7 (ch32-tim.c).  Like SysTick it is never  *)
(* stepped: the count is base at time epoch plus the ticks since then,     *)
(* modulo the period.  Unlike SysTick it is put back to 0 by the callback, *)
(* when that runs, and not by the clock.  One QEMUTimer rings at the next  *)
(* overflow; a write that moves the overflow re-arms it.                   *)
(*                                                                         *)
(* The callback runs some time after its deadline, and the firmware may    *)
(* act in between.  Each handler and the callback are atomic: they hold    *)
(* the big QEMU lock.  Times are in units of which Second make a second.   *)
(* Where the interrupt goes from asked is MeipSlot's subject.              *)
(***************************************************************************)
EXTENDS Integers

CONSTANTS
    Second,   \* clock units per second (1000000000 in the code)
    Clks,     \* the values of TIMxCLK that CFGR0 can select
    ResetClk, \* the one after a reset
    Limit,    \* the largest 16-bit value
    Word,     \* the modulus of the 32-bit arithmetic on counts
    Horizon   \* bound: the virtual clock stops here

\* TIMxCLK is slower than the virtual clock.  It may be so slow that a large
\* prescaler leaves less than one count per second, which the code takes for 0.
ASSUME SecondAssumption == Second \in Nat \ {0}
ASSUME ClksAssumption == Clks \subseteq 1 .. Second
ASSUME ResetClkAssumption == ResetClk \in Clks
ASSUME WidthAssumption == Limit \in Nat \ {0} /\ Word \in Nat /\ Word > Limit + 1
ASSUME HorizonAssumption == Horizon \in Nat

VARIABLES
    now,              \* QEMU_CLOCK_VIRTUAL
    clk,              \* TIMxCLK, from the RCC registers
    cen, udis, urs, opm, arpe,  \* bits of CTLR1
    uie,              \* DMAINTENR
    uif,              \* INTFR
    psc,              \* the prescaler, in force at once
    atrlr, preload,   \* the period in force and the one of the next update
    base, epoch,      \* cnt_base, epoch_ns
    deadline,         \* expiry of the QEMUTimer, or Never
    asked             \* uif_active when ch32_tim_meip_update ran last

ctlr1 == << cen, udis, urs, opm, arpe >>
count == << base, epoch >>
irq == << uie, uif, asked >>
vars == << now, clk, ctlr1, irq, psc, atrlr, preload, count, deadline >>

Never == -1
Values == 0 .. Limit

\* ch32_tim_cnt_hz
CntHz(c, p) == c \div (p + 1)
Hz == CntHz(clk, psc)

Period == (IF atrlr = 0 THEN Limit ELSE atrlr) + 1

\* ch32_tim_cnt_now_at, at the frequency hz: at epoch itself, and before, the
\* base is not reduced.
CountFor(t, hz) ==
    IF cen /\ hz # 0 /\ t > epoch
    THEN (base + ((t - epoch) * hz) \div Second) % Period
    ELSE base

CountAt(t) == CountFor(t, Hz)

\* Counts to the next overflow, as a 32-bit number; a count that lies beyond
\* the period makes it wrap.
TicksLeft ==
    LET left == (Period - CountAt(now)) % Word
    IN  IF left = 0 THEN Period ELSE left

Delay(n) == (n * Second) \div Hz

\* Variant: a timer that is armed whether or not the counter runs.
NextRingAlways == IF Hz # 0 THEN now + Delay(TicksLeft) ELSE Never

NextRing == IF cen /\ Hz # 0 THEN now + Delay(TicksLeft) ELSE Never

\* ch32_tim_schedule, after the registers got their next value.
Schedule == deadline' = NextRing'

\* ch32_tim_meip_update
MeipUpdate == asked' = (uif /\ uie)'

SetCount(n) == base' = n /\ epoch' = now

-----------------------------------------------------------------------------
\* A rising CEN restarts the count; a falling one leaves base and epoch alone.
WriteCtlr1(on, upd, src, once, pre) ==
    /\ cen' = on /\ udis' = upd /\ urs' = src /\ opm' = once /\ arpe' = pre
    /\ IF ~cen /\ on THEN SetCount(0) ELSE UNCHANGED count
    /\ UNCHANGED << now, clk, irq, psc, atrlr, preload >>
    /\ Schedule

WriteDmaintenr(ie) ==
    /\ uie' = ie
    /\ UNCHANGED << now, clk, ctlr1, uif, psc, atrlr, preload, count, deadline >>
    /\ MeipUpdate

\* INTFR: writing 0 clears.
WriteIntfr(keep) ==
    /\ uif' = (uif /\ keep)
    /\ UNCHANGED << now, clk, ctlr1, uie, psc, atrlr, preload, count, deadline >>
    /\ MeipUpdate

\* SWEVGR.UG
GenerateUpdate ==
    /\ SetCount(0)
    /\ atrlr' = IF arpe THEN preload ELSE atrlr
    /\ uif' = (uif \/ ~urs)
    /\ UNCHANGED << now, clk, ctlr1, uie, psc, preload >>
    /\ IF urs THEN UNCHANGED asked ELSE MeipUpdate
    /\ Schedule

WriteCnt(v) ==
    /\ SetCount(v)
    /\ UNCHANGED << now, clk, ctlr1, irq, psc, atrlr, preload >>
    /\ Schedule

\* Variant: the prescaler changes under an armed timer.
WritePscOnly(v) ==
    /\ psc' = v
    /\ UNCHANGED << now, clk, ctlr1, irq, atrlr, preload, count, deadline >>

\* The count so far is converted at the new prescaler.
WritePsc(v) ==
    /\ psc' = v
    /\ SetCount(CountFor(now, CntHz(clk, v)))
    /\ UNCHANGED << now, clk, ctlr1, irq, atrlr, preload >>
    /\ Schedule

\* With ARPE the value waits for an update, without it it is in force now.
WriteAtrlr(v) ==
    /\ preload' = v
    /\ atrlr' = IF arpe THEN atrlr ELSE v
    /\ UNCHANGED << now, clk, ctlr1, irq, psc, count >>
    /\ IF arpe THEN UNCHANGED deadline ELSE Schedule

\* A write to RCC_CFGR0 that changes a clock field.  It is stored before
\* ch32_tim_rcc_clock_changed reads the frequency; a stopped timer is skipped.
WriteCfgr0(c) ==
    /\ clk' = c
    /\ UNCHANGED << now, ctlr1, irq, psc, atrlr, preload >>
    /\ IF cen THEN SetCount(CountFor(now, CntHz(c, psc))) /\ Schedule
       ELSE UNCHANGED << count, deadline >>

\* Variant: the next deadline is counted from the last one, against drift.
TickFromDeadline ==
    /\ deadline # Never /\ now >= deadline
    /\ SetCount(0)
    /\ uif' = (uif \/ ~udis)
    /\ cen' = ~opm
    /\ atrlr' = IF ~opm /\ arpe THEN preload ELSE atrlr
    /\ UNCHANGED << now, clk, udis, urs, opm, arpe, uie, psc, preload >>
    /\ IF udis THEN UNCHANGED asked ELSE MeipUpdate
    /\ deadline' = IF opm THEN Never ELSE deadline + Delay(Period)'

\* ch32_tim_tick.  CEN holds whenever the timer rings (ArmedWhileCounting).
\* In one-pulse mode it stops before the preload is latched.
Tick ==
    /\ deadline # Never /\ now >= deadline
    /\ SetCount(0)
    /\ uif' = (uif \/ ~udis)
    /\ cen' = ~opm
    /\ atrlr' = IF ~opm /\ arpe THEN preload ELSE atrlr
    /\ UNCHANGED << now, clk, udis, urs, opm, arpe, uie, psc, preload >>
    /\ IF udis THEN UNCHANGED asked ELSE MeipUpdate
    /\ Schedule

\* ch32_tim_reset and the reset of the RCC registers
Reset ==
    /\ clk' = ResetClk
    /\ cen' = FALSE /\ udis' = FALSE /\ urs' = FALSE /\ opm' = FALSE /\ arpe' = FALSE
    /\ uie' = FALSE /\ uif' = FALSE /\ asked' = FALSE
    /\ psc' = 0 /\ atrlr' = Limit /\ preload' = Limit
    /\ base' = 0 /\ epoch' = 0 /\ deadline' = Never
    /\ UNCHANGED now

Advance ==
    /\ now < Horizon
    /\ now' = now + 1
    /\ UNCHANGED << clk, ctlr1, irq, psc, atrlr, preload, count, deadline >>

Init ==
    /\ now = 0 /\ clk = ResetClk
    /\ cen = FALSE /\ udis = FALSE /\ urs = FALSE /\ opm = FALSE /\ arpe = FALSE
    /\ uie = FALSE /\ uif = FALSE /\ asked = FALSE
    /\ psc = 0 /\ atrlr = Limit /\ preload = Limit
    /\ base = 0 /\ epoch = 0 /\ deadline = Never

Firmware ==
    \/ \E on, upd, src, once, pre \in BOOLEAN : WriteCtlr1(on, upd, src, once, pre)
    \/ \E b \in BOOLEAN : WriteDmaintenr(b) \/ WriteIntfr(b)
    \/ GenerateUpdate
    \/ \E v \in Values : WriteCnt(v) \/ WritePsc(v) \/ WriteAtrlr(v)
    \/ \E c \in Clks : WriteCfgr0(c)

Next == Firmware \/ Tick \/ Reset \/ Advance

Spec == Init /\ [][Next]_vars

-----------------------------------------------------------------------------

\* The variables range over what the C fields can hold.
TypeOK ==
    /\ now \in 0 .. Horizon /\ clk \in Clks
    /\ cen \in BOOLEAN /\ udis \in BOOLEAN /\ urs \in BOOLEAN
    /\ opm \in BOOLEAN /\ arpe \in BOOLEAN
    /\ uie \in BOOLEAN /\ uif \in BOOLEAN /\ asked \in BOOLEAN
    /\ psc \in Values /\ atrlr \in Values /\ preload \in Values
    /\ base \in Values /\ epoch \in 0 .. now
    /\ deadline \in Nat \cup {Never}

\* No sequence of writes, updates and resets leaves a counting timer without a
\* deadline or an armed one that does not count: the early return of
\* ch32_tim_tick is never taken and no update is forgotten.
ArmedWhileCounting == deadline # Never <=> cen /\ Hz # 0

\* The timer rings within one count of an overflow of the counter the firmware
\* reads, and one that is not yet due at the next overflow and not at a later
\* one, whatever was written since it was armed, as long as the firmware keeps
\* the count it sets within the period (tim_rearm).
RingsAtNextOverflow ==
    deadline # Never /\ base < Period =>
        /\ (CountAt(deadline) + 1) % Period \in {0, 1}
        /\ deadline > now => deadline - now <= Delay(Period)

\* The request that the PFIC saw last is the one the registers make now: no
\* update, write or one-pulse stop leaves a stale interrupt request.
AskIsCurrent == asked = (uif /\ uie)

\* The callback never re-arms the timer for the same instant, which would hang
\* the main loop in ch32_tim_tick, however late it runs.
TickMovesOn == [][Tick => deadline' \notin 0 .. now]_vars
===============================================================================
