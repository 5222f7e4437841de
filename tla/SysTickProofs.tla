----------------------------- MODULE SysTickProofs -----------------------------
(***************************************************************************)
(* Proofs about SysTick: typing, the timer is armed exactly while the      *)
(* counter runs and rings near a multiple of CMP, a pending interrupt has  *)
(* its flag, and the callback never re-arms itself for the same instant.   *)
(***************************************************************************)
EXTENDS SysTick, Numbers, TLAPS

\* TypeOK without the timer: what NextRing is computed from.
CounterOK ==
    /\ now \in 0 .. Horizon /\ hclk \in Hclks
    /\ ste \in BOOLEAN /\ stie \in BOOLEAN /\ stclk \in BOOLEAN
    /\ cntif \in BOOLEAN /\ ienr \in BOOLEAN
    /\ cmpl \in Halves /\ cmph \in Halves
    /\ epoch \in 0 .. now /\ cnt0 \in Nat

TimerOK == deadline \in Nat \cup {Never} /\ mtip \in BOOLEAN

\* The inductive invariant: typing and the two relations of the timer to the
\* registers.
Inv == CounterOK /\ TimerOK /\ ArmedWhileRunning /\ MtipHasFlag

\* Rounding down keeps a delay positive as long as the counter is not faster
\* than the clock.
LEMMA DelayPositive ==
    ASSUME NEW n \in Nat \ {0}, NEW hz \in 1 .. Second
    PROVE  Delay(n, hz) \in Nat \ {0}
<1>1. Second \in Nat \ {0} /\ n * Second \in Nat /\ n * Second >= Second
    BY SecondAssumption
<1>2. n * Second >= hz
    BY <1>1
<1>3. \A a \in Nat : a >= hz => a \div hz \in Nat \ {0}
    BY Z3
<1> QED
    BY <1>1, <1>2, <1>3 DEF Delay

\* Elapsed time counts as a natural number of ticks.
LEMMA TicksNatural ==
    ASSUME NEW d \in Nat, NEW hz \in Nat
    PROVE  (d * hz) \div Second \in Nat
<1>1. d * hz \in Nat
    OBVIOUS
<1>2. \A a \in Nat : a \div Second \in Nat
    BY SecondAssumption
<1> QED
    BY <1>1, <1>2

\* The frequency of the counter, direct or divided, is positive and within
\* the clock's.
LEMMA HzBounds ==
    ASSUME NEW h \in Hclks
    PROVE  h \in 1 .. Second /\ h \div 8 \in 1 .. Second
    BY HclksAssumption, SecondAssumption

\* A quotient's remainder is below its divisor, so a wrap is always ahead.
LEMMA TicksLeft ==
    ASSUME NEW c \in Nat, NEW m \in Nat \ {0}
    PROVE  m - (c % m) \in Nat \ {0}
    BY Z3

\* The timer rings in the future if the counter runs, and never otherwise.
RingOK == IF Running THEN NextRing \in Nat /\ NextRing > now ELSE NextRing = Never

\* It follows from the ranges of the registers alone.
LEMMA RingAhead == CounterOK => RingOK
<1> SUFFICES ASSUME CounterOK
             PROVE  RingOK
    OBVIOUS
<1> USE DEF RingOK
<1>1. CASE ~Running
    BY <1>1 DEF NextRing
<1>2. CASE Running
  <2>1. Hz \in 1 .. Second
      BY HzBounds DEF Hz, CounterOK
  <2>2. CountAt(now) \in Nat
    <3>1. now - epoch \in Nat /\ Hz \in Nat
        BY <2>1, SecondAssumption, HorizonAssumption DEF CounterOK
    <3>2. ((now - epoch) * Hz) \div Second \in Nat
        BY <3>1, TicksNatural
    <3> QED
        BY <3>2 DEF CountAt, CounterOK
  <2>3. Cmp \in Nat \ {0}
    <3>1. cmph \in Nat /\ cmpl \in Nat /\ Half \in Nat
        BY HalfAssumption DEF CounterOK, Halves
    <3>2. cmph * Half \in Nat
        BY <3>1
    <3> QED
        BY <1>2, <3>1, <3>2 DEF Cmp, Running
  <2>4. Delay(Cmp - (CountAt(now) % Cmp), Hz) \in Nat \ {0}
      BY <2>1, <2>2, <2>3, TicksLeft, DelayPositive
  <2>5. now \in Nat
      BY HorizonAssumption DEF CounterOK
  <2> QED
      BY <1>2, <2>4, <2>5 DEF NextRing
<1> QED
    BY <1>1, <1>2

\* ch32_stk_schedule restores the part of the invariant about the timer.
LEMMA ScheduleArms ==
    ASSUME CounterOK', now' = now, Schedule, mtip \in BOOLEAN
    PROVE  TimerOK' /\ ArmedWhileRunning'
<1>1. RingOK'
    BY RingAhead, PTL
<1> QED
    BY <1>1 DEF RingOK, Schedule, TimerOK, ArmedWhileRunning, Never

\* The register writes that end with ch32_stk_schedule.
LEMMA WritesKeepInv ==
    ASSUME Inv, CounterOK', now' = now, Schedule, cntif' = cntif
    PROVE  Inv'
<1>1. TimerOK' /\ ArmedWhileRunning'
    BY ScheduleArms DEF Inv, TimerOK
<1>2. MtipHasFlag'
    BY DEF Inv, MtipHasFlag, Schedule
<1> QED
    BY <1>1, <1>2 DEF Inv

\* The counter read by a write is a natural number.
LEMMA CountNatural ==
    ASSUME CounterOK, NEW hz \in 1 .. Second
    PROVE  cnt0 + ((now - epoch) * hz) \div Second \in Nat
<1>1. now - epoch \in Nat /\ hz \in Nat
    BY SecondAssumption, HorizonAssumption DEF CounterOK
<1>2. ((now - epoch) * hz) \div Second \in Nat
    BY <1>1, TicksNatural
<1> QED
    BY <1>2 DEF CounterOK

\* Every firmware write, with its arguments in range, keeps the invariant.
LEMMA FirmwareKeepsInv == Inv /\ Firmware => Inv'
<1> SUFFICES ASSUME Inv, Firmware
             PROVE  Inv'
    OBVIOUS
<1> USE DEF Inv
<1>h. Hz \in 1 .. Second
    BY HzBounds DEF Hz, CounterOK
<1>n. now \in Nat /\ Half \in Nat \ {0} /\ now \in 0 .. now /\ 0 \in Nat
    BY HorizonAssumption, HalfAssumption DEF CounterOK
<1>1. ASSUME NEW on \in BOOLEAN, NEW irq \in BOOLEAN, NEW direct \in BOOLEAN,
             NEW init \in BOOLEAN, WriteCtlr(on, irq, direct, init)
      PROVE  Inv'
  <2>1. CounterOK'
      BY <1>1, <1>n DEF WriteCtlr, CounterOK, SetCnt, clock
  <2> QED
      BY <1>1, <2>1, WritesKeepInv DEF WriteCtlr, clock
<1>2. ASSUME NEW flag \in BOOLEAN, WriteSr(flag)
      PROVE  Inv'
  <2>1. CounterOK'
      BY <1>2 DEF WriteSr, CounterOK, clock, regs
  <2>2. Running' = Running
      BY <1>2 DEF WriteSr, regs, Running, Cmp
  <2>3. RingOK
      BY RingAhead
  <2>4. TimerOK' /\ ArmedWhileRunning'
      BY <1>2, <2>2, <2>3 DEF RingOK, WriteSr, TimerOK, ArmedWhileRunning, Never
  <2>5. MtipHasFlag'
      BY <1>2, <2>2 DEF WriteSr, MtipHasFlag
  <2> QED
      BY <2>1, <2>4, <2>5
<1>3. ASSUME NEW v \in Halves, WriteCntl(v)
      PROVE  Inv'
  <2>1. CounterOK'
      BY <1>3, <1>n DEF WriteCntl, CounterOK, SetCnt, clock, regs, Halves
  <2> QED
      BY <1>3, <2>1, WritesKeepInv DEF WriteCntl, clock
<1>4. ASSUME NEW v \in Halves, WriteCnth(v)
      PROVE  Inv'
  <2>1. CountAt(now) \in Nat
      BY <1>h, CountNatural DEF CountAt
  <2>2. CountAt(now) % Half \in Nat /\ v * Half \in Nat
      BY <1>n, <2>1 DEF Halves
  <2>3. (CountAt(now) % Half) + v * Half \in Nat
      BY <2>2
  <2>4. CounterOK'
      BY <1>4, <1>n, <2>3 DEF WriteCnth, CounterOK, SetCnt, clock, regs
  <2> QED
      BY <1>4, <2>4, WritesKeepInv DEF WriteCnth, clock
<1>5. ASSUME NEW lo \in Halves, NEW hi \in Halves, WriteCmp(lo, hi)
      PROVE  Inv'
  <2>1. CounterOK'
      BY <1>5 DEF WriteCmp, CounterOK, clock
  <2> QED
      BY <1>5, <2>1, WritesKeepInv DEF WriteCmp, clock
<1>6. CASE WriteIenr
  <2>1. CounterOK'
      BY <1>6 DEF WriteIenr, CounterOK, clock
  <2> QED
      BY <1>6, <2>1, WritesKeepInv DEF WriteIenr, clock
<1>7. ASSUME NEW h \in Hclks, WriteCfgr0(h)
      PROVE  Inv'
  <2>1. Hz' \in 1 .. Second
      BY <1>7, HzBounds DEF Hz, WriteCfgr0
  <2>2. cnt0 + ((now - epoch) * Hz') \div Second \in Nat
      BY <2>1, CountNatural
  <2>3. CounterOK'
      BY <1>7, <1>n, <2>2 DEF WriteCfgr0, CounterOK, SetCnt, regs
  <2> QED
      BY <1>7, <2>3, WritesKeepInv DEF WriteCfgr0
<1> QED
    BY <1>1, <1>2, <1>3, <1>4, <1>5, <1>6, <1>7 DEF Firmware, CounterOK

\* The callback of the timer keeps the invariant and looks ahead.
LEMMA TickKeepsInv == Inv /\ Tick => Inv' /\ deadline' > now
<1> SUFFICES ASSUME Inv, Tick
             PROVE  Inv' /\ deadline' > now
    OBVIOUS
<1> USE DEF Inv
<1>1. CounterOK'
    BY DEF Tick, CounterOK, clock, regs
<1>2. Running /\ Running'
    BY DEF Tick, ArmedWhileRunning, Running, Cmp, regs
<1>3. NextRing \in Nat /\ NextRing > now
    BY <1>2, RingAhead DEF RingOK
<1>4. TimerOK' /\ ArmedWhileRunning' /\ MtipHasFlag'
    BY <1>2, <1>3 DEF Tick, TimerOK, ArmedWhileRunning, MtipHasFlag, Never
<1> QED
    BY <1>1, <1>3, <1>4 DEF Tick

\* The invariant holds at power-on.
LEMMA InitInv == Init => Inv
<1> SUFFICES ASSUME Init
             PROVE  Inv
    OBVIOUS
<1>0. 0 \in Halves /\ 0 \in 0 .. Horizon /\ 0 \in 0 .. 0
    BY HorizonAssumption, HalfAssumption DEF Halves
<1>1. CounterOK
    BY <1>0, HsiAssumption DEF Init, CounterOK
<1>2. ~Running /\ ~mtip /\ deadline = Never
    BY DEF Init, Running
<1> QED
    BY <1>1, <1>2 DEF Init, Inv, TimerOK, ArmedWhileRunning, MtipHasFlag

\* No step of the firmware, the devices, the timer or the reset breaks it.
LEMMA NextInv == Inv /\ [Next]_vars => Inv'
<1> SUFFICES ASSUME Inv, [Next]_vars
             PROVE  Inv'
    OBVIOUS
<1>1. CASE Firmware
    BY <1>1, FirmwareKeepsInv
<1>2. CASE PeripheralRelease
  <2>1. CounterOK'
      BY <1>2 DEF PeripheralRelease, Inv, CounterOK, clock, regs
  <2> QED
      BY <1>2, <2>1, WritesKeepInv DEF PeripheralRelease, clock
<1>3. CASE Tick
    BY <1>3, TickKeepsInv
<1>4. CASE Reset
  <2>1. 0 \in Halves /\ now' = now /\ now \in 0 .. now
      BY <1>4, HorizonAssumption, HalfAssumption DEF Reset, Inv, CounterOK, Halves
  <2>2. CounterOK'
      BY <1>4, <2>1, HsiAssumption DEF Reset, SetCnt, Inv, CounterOK
  <2>3. ~Running' /\ mtip' = FALSE /\ deadline' = Never
      BY <1>4 DEF Reset, Running
  <2> QED
      BY <2>2, <2>3 DEF Inv, TimerOK, ArmedWhileRunning, MtipHasFlag
<1>5. CASE Advance
  <2>1. now' \in 0 .. Horizon /\ epoch' \in 0 .. now'
      BY <1>5, HorizonAssumption DEF Advance, Inv, CounterOK
  <2> QED
      BY <1>5, <2>1
      DEF Advance, Inv, CounterOK, TimerOK, ArmedWhileRunning, MtipHasFlag,
          Running, Cmp, regs
<1>6. CASE UNCHANGED vars
    BY <1>6 DEF vars, clock, regs, Inv, CounterOK, TimerOK, ArmedWhileRunning,
        MtipHasFlag, Running, Cmp
<1> QED
    BY <1>1, <1>2, <1>3, <1>4, <1>5, <1>6 DEF Next

\* So it always holds.
LEMMA Invariance == Spec => []Inv
    BY InitInv, NextInv, PTL DEF Spec

-----------------------------------------------------------------------------
(***************************************************************************)
(* When it rings.                                                          *)
(***************************************************************************)

RingNear == Running => (CountAt(NextRing) + 1) % Cmp \in {0, 1 % Cmp}

\* The instant that ch32_stk_schedule computes is near a multiple of CMP, for
\* all that the two divisions, from ticks to time and back, round away.
LEMMA RingsNear == CounterOK => RingNear
<1> SUFFICES ASSUME CounterOK, Running
             PROVE  (CountAt(NextRing) + 1) % Cmp \in {0, 1 % Cmp}
    BY DEF RingNear
<1> DEFINE a == now - epoch
           c == CountAt(now)
           n == Cmp - (c % Cmp)
           q == (a * Hz) \div Second
           d == (n * Second) \div Hz
<1>1. Hz \in 1 .. Second /\ Second \in Nat \ {0}
    BY HzBounds, SecondAssumption DEF Hz, CounterOK
<1>2. a \in Nat /\ now \in Int /\ epoch \in Int /\ cnt0 \in Int
    BY HorizonAssumption DEF CounterOK
<1>3. c \in Nat
    BY <1>1, CountNatural DEF CountAt
<1>4. Cmp \in Nat \ {0}
  <2>1. cmph \in Nat /\ cmpl \in Nat /\ Half \in Nat
      BY HalfAssumption DEF CounterOK, Halves
  <2>2. cmph * Half \in Nat
      BY <2>1
  <2> QED
      BY <2>1, <2>2 DEF Cmp, Running
<1>5. n \in Nat \ {0}
    BY <1>3, <1>4, TicksLeft
<1>6. q \in Nat /\ c = cnt0 + q
    BY <1>1, <1>2, TicksNatural DEF CountAt
<1>7. d \in Nat
    BY <1>1, <1>5, DelayPositive DEF Delay
<1>8. NextRing = now + d
    BY DEF NextRing, Delay
<1>9. NextRing - epoch = a + d
    BY <1>2, <1>7, <1>8
<1>10. PICK k \in {n - 1, n} : ((a + d) * Hz) \div Second = q + k
  <2>1. n \in Nat
      BY <1>5
  <2> HIDE DEF a, n
  <2> QED
      BY <1>1, <1>2, <2>1, TicksAfterDelay
<1>11. CountAt(NextRing) = c + k
  <2>1. CountAt(NextRing) = cnt0 + ((a + d) * Hz) \div Second
      BY <1>9 DEF CountAt
  <2> HIDE DEF a, c, n, q, d
  <2> QED
      BY <1>2, <1>5, <1>6, <1>10, <2>1
<1>12. (c + k + 1) % Cmp \in {0, 1 % Cmp}
  <2>1. c \in Int /\ k \in {(Cmp - (c % Cmp)) - 1, Cmp - (c % Cmp)}
      BY <1>3, <1>10
  <2> HIDE DEF c
  <2> QED
      BY <1>4, <2>1, NextMultiple
<1> QED
    BY <1>11, <1>12

\* The same of the next state.
LEMMA RingsNearNext == CounterOK' => RingNear'
    BY RingsNear, PTL

\* Each step arms the timer afresh, or leaves it and all that the count is
\* computed from as they are.
LEMMA NextRingsNear == Inv /\ RingsNearWrap /\ [Next]_vars => RingsNearWrap'
<1> SUFFICES ASSUME Inv, RingsNearWrap, [Next]_vars
             PROVE  RingsNearWrap'
    OBVIOUS
<1>1. Inv' /\ RingNear /\ RingNear'
    BY NextInv, RingsNear, RingsNearNext DEF Inv
<1>2. ASSUME Schedule PROVE RingsNearWrap'
    BY <1>1, <1>2 DEF Schedule, RingsNearWrap, RingNear, Inv, ArmedWhileRunning
<1>3. CASE Tick \/ \E flag \in BOOLEAN : WriteSr(flag)
  <2>1. deadline' = NextRing /\ UNCHANGED << hclk, epoch, cnt0, regs >>
      BY <1>3 DEF Tick, WriteSr, clock
  <2>2. Running' = Running /\ Cmp' = Cmp /\ Hz' = Hz
      BY <2>1 DEF regs, Running, Cmp, Hz
  <2>3. CountAt(deadline)' = CountAt(NextRing)
      BY <2>1, <2>2 DEF CountAt
  <2> QED
      BY <1>1, <2>1, <2>2, <2>3 DEF RingsNearWrap, RingNear, Inv, ArmedWhileRunning
<1>4. CASE Reset
    BY <1>4 DEF Reset, RingsNearWrap
<1>5. CASE Advance \/ UNCHANGED vars
    BY <1>5 DEF Advance, vars, clock, regs, RingsNearWrap, CountAt, Cmp, Hz
<1>6. CASE Firmware
  <2>1. \/ \E flag \in BOOLEAN : WriteSr(flag)
        \/ Schedule
      BY <1>6 DEF Firmware, WriteCtlr, WriteCntl, WriteCnth, WriteCmp, WriteIenr, WriteCfgr0
  <2> QED
      BY <1>2, <1>3, <2>1
<1>7. CASE PeripheralRelease
    BY <1>2, <1>7 DEF PeripheralRelease
<1> QED
    BY <1>3, <1>4, <1>5, <1>6, <1>7 DEF Next

\* The SysTick registers stay in range for every frequency, register width
\* and horizon.
THEOREM SysTickTyped == Spec => []TypeOK
<1>1. Inv => TypeOK
    BY DEF Inv, CounterOK, TimerOK, TypeOK
<1> QED
    BY <1>1, Invariance, PTL

\* The SysTick timer is armed exactly while STE and CMP say so.
THEOREM TimerFollowsEnable == Spec => []ArmedWhileRunning
<1>1. Inv => ArmedWhileRunning
    BY DEF Inv
<1> QED
    BY <1>1, Invariance, PTL

\* A pending SysTick interrupt always has its flag and a running counter.
THEOREM PendingHasFlag == Spec => []MtipHasFlag
<1>1. Inv => MtipHasFlag
    BY DEF Inv
<1> QED
    BY <1>1, Invariance, PTL

\* The SysTick callback cannot loop within one instant, whatever compare
\* value and frequency the firmware chose.
THEOREM CallbackAdvances == Spec => TickMovesOn
<1>1. Inv => [Tick => deadline' > now]_vars
    BY TickKeepsInv
<1> QED
    BY <1>1, Invariance, PTL DEF TickMovesOn

\* The SysTick timer rings within one count of a multiple of CMP, for every
\* clock, frequency and compare value: no write, walk or clock change leaves
\* it armed for an instant that means nothing any more.
THEOREM RingsAtCompare == Spec => []RingsNearWrap
<1>1. Init => RingsNearWrap
    BY DEF Init, RingsNearWrap
<1> QED
    BY <1>1, NextRingsNear, Invariance, PTL DEF Spec
===============================================================================
