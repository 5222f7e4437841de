-------------------------------- MODULE SysTick --------------------------------
(***************************************************************************)
(* The SysTick (STK) timer of ch32-stk-pfic.c.  The counter is not stepped:*)
(* it is computed from the virtual clock, as the count cnt0 it had at time *)
(* epoch plus the clock ticks since then at the frequency RCC and STCLK    *)
(* give it now.  One QEMUTimer rings at the next multiple of CMP; every    *)
(* write that may move that instant re-arms it.                            *)
(*                                                                         *)
(* The machine's main loop runs an expired timer some time after its       *)
(* deadline, so that the firmware and the other devices may still act      *)
(* between the two.  A write and a callback are atomic: both hold the big  *)
(* QEMU lock.  Times are in units of which Second make a second.           *)
(***************************************************************************)
EXTENDS Integers

CONSTANTS
    Second,   \* clock units per second (1000000000 in the code)
    Hclks,    \* the HCLK frequencies the firmware may select in CFGR0
    Hsi,      \* the one a reset selects
    Half,     \* values of a 32-bit register half (2^32 in the code)
    Horizon   \* bound: the virtual clock stops here

\* The prescaler never stops the counter, and no counter of these parts is
\* faster than the virtual clock.
ASSUME SecondAssumption == Second \in Nat \ {0}
ASSUME HclksAssumption ==
    Hclks \subseteq Nat /\ \A h \in Hclks : h <= Second /\ h \div 8 > 0
ASSUME HsiAssumption == Hsi \in Hclks
ASSUME HalfAssumption == Half \in Nat \ {0}
ASSUME HorizonAssumption == Horizon \in Nat

VARIABLES
    now,             \* QEMU_CLOCK_VIRTUAL
    hclk,            \* what ch32_rcc_get_hclk_hz returns
    ste, stie, stclk,\* bits 0, 1 and 2 of STK_CTLR
    cntif,           \* bit 0 of STK_SR
    cmpl, cmph,      \* the halves of STK_CMP
    epoch, cnt0,     \* m->stk_epoch_ns, m->stk_cnt_at_epoch
    deadline,        \* expiry of m->stk_timer, or Never
    ienr,            \* the SysTick enable bit of the PFIC
    mtip             \* mip.MTIP of the hart

clock == << now, hclk >>
regs == << ste, stie, stclk, cmpl, cmph, ienr >>
vars == << clock, regs, cntif, epoch, cnt0, deadline, mtip >>

Never == -1
Halves == 0 .. Half - 1

Hz == IF stclk THEN hclk ELSE hclk \div 8
Cmp == cmph * Half + cmpl
Running == ste /\ Cmp # 0

\* ch32_stk_now_cnt at time t
CountAt(t) == cnt0 + ((t - epoch) * Hz) \div Second

\* Clock units until hz makes n more ticks, rounded down.
Delay(n, hz) == (n * Second) \div hz

\* Variant: nothing is left when the count is at CMP.
NextRingAtOnce ==
    IF Running THEN now + Delay((Cmp - (CountAt(now) % Cmp)) % Cmp, Hz) ELSE Never

\* When the timer must ring: at the next multiple of CMP.
NextRing ==
    IF Running THEN now + Delay(Cmp - (CountAt(now) % Cmp), Hz) ELSE Never

\* Variant of ch32_stk_schedule: the timer is left alone.
ScheduleNothing == UNCHANGED << deadline, mtip >>

\* ch32_stk_schedule, after the other registers got their next value.
Schedule ==
    /\ deadline' = NextRing'
    /\ mtip' = (mtip /\ Running')

SetCnt(n) == epoch' = now /\ cnt0' = n

\* STK_CTLR.  INIT restarts the count.
WriteCtlr(on, irq, hclkDirect, init) ==
    /\ ste' = on /\ stie' = irq /\ stclk' = hclkDirect
    /\ IF init THEN SetCnt(0) ELSE UNCHANGED << epoch, cnt0 >>
    /\ UNCHANGED << clock, cmpl, cmph, ienr, cntif >>
    /\ Schedule

\* Variant: the flag goes and its interrupt stays.
WriteSrKeepsMtip(flag) ==
    /\ cntif' = flag
    /\ UNCHANGED << clock, regs, epoch, cnt0, deadline, mtip >>

\* STK_SR: without the flag MTIP goes too.
WriteSr(flag) ==
    /\ cntif' = flag
    /\ UNCHANGED << clock, regs, epoch, cnt0 >>
    /\ deadline' = NextRing
    /\ mtip' = (mtip /\ flag /\ Running)

\* STK_CNTL clears the upper half, STK_CNTH keeps the lower one.
WriteCntl(v) ==
    /\ SetCnt(v)
    /\ UNCHANGED << clock, regs, cntif >>
    /\ Schedule

WriteCnth(v) ==
    /\ SetCnt((CountAt(now) % Half) + v * Half)
    /\ UNCHANGED << clock, regs, cntif >>
    /\ Schedule

WriteCmp(lo, hi) ==
    /\ cmpl' = lo /\ cmph' = hi
    /\ UNCHANGED << clock, ste, stie, stclk, ienr, cntif, epoch, cnt0 >>
    /\ Schedule

\* IENR or IRER changes the SysTick bit.
WriteIenr ==
    /\ ienr' = ~ienr
    /\ UNCHANGED << clock, ste, stie, stclk, cmpl, cmph, cntif, epoch, cnt0 >>
    /\ Schedule

\* A peripheral gives the interrupt routing slot back, in its own resync or
\* at mret: the walk of pfic_resync_table passes the SysTick row.
PeripheralRelease ==
    /\ UNCHANGED << clock, regs, cntif, epoch, cnt0 >>
    /\ Schedule

\* Variant: CFGR0 changes the frequency and nothing else.
WriteCfgr0Only(h) ==
    /\ hclk' = h
    /\ UNCHANGED << now, regs, cntif, epoch, cnt0, deadline, mtip >>

\* A write to RCC_CFGR0 that changes a clock field, perhaps not HCLK itself,
\* re-anchors the count (ch32_stk_rcc_clock_changed).
WriteCfgr0(h) ==
    /\ hclk' = h
    /\ UNCHANGED << now, regs, cntif >>
    /\ SetCnt(cnt0 + ((now - epoch) * Hz') \div Second)
    /\ Schedule

\* The callback of the timer, ch32_stk_tick.
Tick ==
    /\ deadline # Never /\ now >= deadline
    /\ cntif' = (cntif \/ Running)
    /\ mtip' = (Running /\ (mtip \/ (stie /\ ienr)))
    /\ deadline' = NextRing
    /\ UNCHANGED << clock, regs, epoch, cnt0 >>

\* Guest reset: ch32_stk_pfic_reset, then the RCC shadow.
Reset ==
    /\ hclk' = Hsi
    /\ ste' = FALSE /\ stie' = FALSE /\ stclk' = FALSE /\ cntif' = FALSE
    /\ cmpl' = 0 /\ cmph' = 0 /\ ienr' = FALSE
    /\ SetCnt(0)
    /\ deadline' = Never /\ mtip' = FALSE
    /\ UNCHANGED now

Advance ==
    /\ now < Horizon
    /\ now' = now + 1
    /\ UNCHANGED << hclk, regs, cntif, epoch, cnt0, deadline, mtip >>

Init ==
    /\ now = 0 /\ hclk = Hsi
    /\ ste = FALSE /\ stie = FALSE /\ stclk = FALSE /\ cntif = FALSE
    /\ cmpl = 0 /\ cmph = 0 /\ ienr = FALSE
    /\ epoch = 0 /\ cnt0 = 0 /\ deadline = Never /\ mtip = FALSE

Firmware ==
    \/ \E on, irq, direct, init \in BOOLEAN : WriteCtlr(on, irq, direct, init)
    \/ \E flag \in BOOLEAN : WriteSr(flag)
    \/ \E v \in Halves : WriteCntl(v)
    \/ \E v \in Halves : WriteCnth(v)
    \/ \E v \in Halves : WriteCmp(v, cmph)
    \/ \E v \in Halves : WriteCmp(cmpl, v)
    \/ WriteIenr
    \/ \E h \in Hclks : WriteCfgr0(h)

Next == Firmware \/ PeripheralRelease \/ Tick \/ Reset \/ Advance

Spec == Init /\ [][Next]_vars

-----------------------------------------------------------------------------

\* The variables range over what the C fields can hold.
TypeOK ==
    /\ now \in 0 .. Horizon /\ hclk \in Hclks
    /\ ste \in BOOLEAN /\ stie \in BOOLEAN /\ stclk \in BOOLEAN
    /\ cntif \in BOOLEAN /\ ienr \in BOOLEAN /\ mtip \in BOOLEAN
    /\ cmpl \in Halves /\ cmph \in Halves
    /\ epoch \in 0 .. now /\ cnt0 \in Nat
    /\ deadline \in Nat \cup {Never}

\* No sequence of writes, resets and walks leaves a running SysTick without a
\* timer, or a timer armed for a stopped one.
ArmedWhileRunning == deadline # Never <=> Running

\* An armed timer rings within one count of a multiple of CMP, at the current
\* frequency, compare value and count: no write forgets to re-arm it.
RingsNearWrap ==
    deadline # Never => (CountAt(deadline) + 1) % Cmp \in {0, 1 % Cmp}

\* A pending SysTick interrupt has its flag in STK_SR, so that the handler
\* that clears the flag also ends the interrupt, and a running counter.
MtipHasFlag == mtip => cntif /\ Running

\* The callback never re-arms the timer for the same instant, which would
\* hang the main loop in ch32_stk_tick, however late it runs.
TickMovesOn == [][Tick => deadline' > now]_vars
===============================================================================
