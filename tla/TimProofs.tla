------------------------------- MODULE TimProofs -------------------------------
(***************************************************************************)
(* Proofs about Tim: typing, the timer is armed exactly while the counter  *)
(* counts and rings at the next overflow, the request the PFIC saw is      *)
(* current, and the callback never re-arms itself for the same instant.    *)
(***************************************************************************)
EXTENDS Tim, Numbers, TLAPS

\* TypeOK without the deadline: what NextRing is computed from.
CounterOK ==
    /\ now \in 0 .. Horizon /\ clk \in Clks
    /\ cen \in BOOLEAN /\ udis \in BOOLEAN /\ urs \in BOOLEAN
    /\ opm \in BOOLEAN /\ arpe \in BOOLEAN
    /\ uie \in BOOLEAN /\ uif \in BOOLEAN /\ asked \in BOOLEAN
    /\ psc \in Values /\ atrlr \in Values /\ preload \in Values
    /\ base \in Values /\ epoch \in 0 .. now

\* The inductive invariant.
Inv ==
    /\ CounterOK
    /\ deadline \in Nat \cup {Never}
    /\ ArmedWhileCounting
    /\ AskIsCurrent

\* The constants as the steps below use them.
LEMMA Constants ==
    /\ Second \in Nat \ {0} /\ Limit \in Nat \ {0} /\ Word \in Nat \ {0}
    /\ Horizon \in Nat /\ 0 \in Values /\ Limit \in Values
    BY SecondAssumption, WidthAssumption, HorizonAssumption DEF Values

\* The prescaler divides TIMxCLK down, perhaps to nothing, never above the
\* clock.
LEMMA CntHzRange ==
    ASSUME NEW c \in Clks, NEW p \in Values
    PROVE  CntHz(c, p) \in 0 .. Second
<1>1. c \in 1 .. Second /\ p \in Nat
    BY ClksAssumption, Constants DEF Values
<1>2. \A a \in Nat, b \in Nat \ {0} : a \div b \in 0 .. a
    BY Z3
<1>3. p + 1 \in Nat \ {0} /\ c \in Nat /\ c <= Second
    BY <1>1, Constants
<1>4. c \div (p + 1) \in 0 .. c
    BY <1>2, <1>3
<1> QED
    BY <1>3, <1>4, Constants DEF CntHz

\* A period has at least two counts: a reload value of 0 stands for the
\* largest one.
LEMMA PeriodRange == CounterOK => Period \in 2 .. Limit + 1
    BY Constants DEF CounterOK, Period, Values

\* The count read or saved at any time fits the register.
LEMMA CountRange ==
    ASSUME CounterOK, NEW t \in Nat, NEW hz \in Nat
    PROVE  CountFor(t, hz) \in Values
<1>1. CASE cen /\ hz # 0 /\ t > epoch
  <2>1. t - epoch \in Nat /\ base \in Nat
      BY <1>1, Constants DEF CounterOK, Values
  <2>2. (t - epoch) * hz \in Nat
      BY <2>1
  <2>3. \A a \in Nat : a \div Second \in Nat
      BY Constants
  <2>4. base + ((t - epoch) * hz) \div Second \in Nat
      BY <2>1, <2>2, <2>3
  <2>5. \A a \in Nat, m \in Nat \ {0} : a % m \in 0 .. m - 1
      BY Z3
  <2>6. Period \in Nat \ {0} /\ Period - 1 <= Limit
      BY PeriodRange, Constants
  <2>7. (base + ((t - epoch) * hz) \div Second) % Period \in 0 .. Period - 1
      BY <2>4, <2>5, <2>6
  <2> QED
      BY <1>1, <2>6, <2>7, Constants DEF CountFor, Values
<1>2. CASE ~(cen /\ hz # 0 /\ t > epoch)
    BY <1>2 DEF CountFor, CounterOK
<1> QED
    BY <1>1, <1>2

\* Whatever count was written, wrapped or not, an overflow is at least one
\* count ahead.
LEMMA TicksAhead == CounterOK => TicksLeft \in Nat \ {0}
<1> SUFFICES ASSUME CounterOK
             PROVE  TicksLeft \in Nat \ {0}
    OBVIOUS
<1>1. Period \in Nat \ {0}
    BY PeriodRange, Constants
<1>2. \A a \in Int : a % Word \in Nat
    BY Constants
<1>3. CountAt(now) \in Int
  <2>1. now \in Nat /\ Hz \in Nat
      BY CntHzRange, Constants DEF CounterOK, Hz
  <2> QED
      BY <2>1, CountRange, Constants DEF CountAt, Values
<1>4. (Period - CountAt(now)) % Word \in Nat
    BY <1>1, <1>2, <1>3
<1> QED
    BY <1>1, <1>4 DEF TicksLeft

\* Rounding down keeps a delay positive as long as the counter is not faster
\* than the clock.
LEMMA DelayPositive ==
    ASSUME CounterOK, Hz # 0, NEW n \in Nat \ {0}
    PROVE  Delay(n) \in Nat \ {0}
<1>1. Hz \in 1 .. Second
    BY CntHzRange, Constants DEF CounterOK, Hz
<1>2. n * Second \in Nat /\ n * Second >= Second
    BY Constants
<1>3. n * Second >= Hz
    BY <1>1, <1>2, Constants
<1>4. \A a \in Nat, h \in Nat \ {0} : a >= h => a \div h \in Nat \ {0}
    BY Z3
<1>5. Hz \in Nat \ {0}
    BY <1>1, Constants
<1> QED
    BY <1>2, <1>3, <1>4, <1>5 DEF Delay

\* The timer rings in the future if the counter counts, and never otherwise.
RingOK ==
    IF cen /\ Hz # 0 THEN NextRing \in Nat /\ NextRing > now ELSE NextRing = Never

\* It follows from the ranges of the registers alone.
LEMMA RingAhead == CounterOK => RingOK
<1> SUFFICES ASSUME CounterOK
             PROVE  RingOK
    OBVIOUS
<1>1. CASE cen /\ Hz # 0
  <2>1. Delay(TicksLeft) \in Nat \ {0}
      BY <1>1, TicksAhead, DelayPositive
  <2>2. now \in Nat
      BY Constants DEF CounterOK
  <2> QED
      BY <1>1, <2>1, <2>2 DEF RingOK, NextRing
<1>2. CASE ~(cen /\ Hz # 0)
    BY <1>2 DEF RingOK, NextRing
<1> QED
    BY <1>1, <1>2

\* ch32_tim_schedule restores what the invariant says of the deadline, and
\* arms the timer for a later instant.
LEMMA ScheduleArms ==
    ASSUME CounterOK', Schedule
    PROVE  /\ deadline' \in Nat \cup {Never}
           /\ ArmedWhileCounting'
           /\ deadline' # Never => deadline' > now'
<1>1. RingOK'
    BY RingAhead, PTL
<1> QED
    BY <1>1 DEF RingOK, Schedule, ArmedWhileCounting, Never

\* Every firmware write keeps the invariant.
LEMMA FirmwareKeepsInv == Inv /\ Firmware => Inv'
<1> SUFFICES ASSUME Inv, Firmware
             PROVE  Inv'
    OBVIOUS
<1> USE DEF Inv
<1>c. /\ now \in Nat /\ now \in 0 .. now /\ Hz \in Nat
      /\ 0 \in Values /\ base \in Values /\ epoch \in 0 .. now
    BY Constants, CntHzRange DEF CounterOK, Hz
<1>1. ASSUME NEW on \in BOOLEAN, NEW upd \in BOOLEAN, NEW src \in BOOLEAN,
             NEW once \in BOOLEAN, NEW pre \in BOOLEAN,
             WriteCtlr1(on, upd, src, once, pre)
      PROVE  Inv'
  <2>0. base' \in Values /\ epoch' \in 0 .. now
      BY <1>1, <1>c DEF WriteCtlr1, SetCount, count
  <2>1. CounterOK'
      BY <1>1, <2>0 DEF WriteCtlr1, CounterOK, irq
  <2>2. AskIsCurrent'
      BY <1>1 DEF WriteCtlr1, AskIsCurrent, irq
  <2> QED
      BY <1>1, <2>1, <2>2, ScheduleArms DEF WriteCtlr1
<1>2. ASSUME NEW ie \in BOOLEAN, WriteDmaintenr(ie)
      PROVE  Inv'
    BY <1>2 DEF WriteDmaintenr, MeipUpdate, CounterOK, AskIsCurrent,
        ArmedWhileCounting, Hz, ctlr1, count
<1>3. ASSUME NEW keep \in BOOLEAN, WriteIntfr(keep)
      PROVE  Inv'
    BY <1>3 DEF WriteIntfr, MeipUpdate, CounterOK, AskIsCurrent,
        ArmedWhileCounting, Hz, ctlr1, count
<1>4. CASE GenerateUpdate
  <2>1. CounterOK'
      BY <1>4, <1>c DEF GenerateUpdate, MeipUpdate, CounterOK, SetCount, ctlr1
  <2>2. AskIsCurrent'
      BY <1>4 DEF GenerateUpdate, MeipUpdate, AskIsCurrent, CounterOK
  <2> QED
      BY <1>4, <2>1, <2>2, ScheduleArms DEF GenerateUpdate
<1>5. ASSUME NEW v \in Values, WriteCnt(v)
      PROVE  Inv'
  <2>1. CounterOK'
      BY <1>5, <1>c DEF WriteCnt, CounterOK, SetCount, ctlr1, irq
  <2>2. AskIsCurrent'
      BY <1>5 DEF WriteCnt, AskIsCurrent, irq
  <2> QED
      BY <1>5, <2>1, <2>2, ScheduleArms DEF WriteCnt
<1>6. ASSUME NEW v \in Values, WritePsc(v)
      PROVE  Inv'
  <2>0. CountFor(now, CntHz(clk, v)) \in Values
      BY <1>c, CntHzRange, CountRange, Constants DEF CounterOK
  <2>1. CounterOK'
      BY <1>6, <1>c, <2>0 DEF WritePsc, CounterOK, SetCount, ctlr1, irq
  <2>2. AskIsCurrent'
      BY <1>6 DEF WritePsc, AskIsCurrent, irq
  <2> QED
      BY <1>6, <2>1, <2>2, ScheduleArms DEF WritePsc
<1>7. ASSUME NEW v \in Values, WriteAtrlr(v)
      PROVE  Inv'
  <2>1. CounterOK'
      BY <1>7 DEF WriteAtrlr, CounterOK, ctlr1, irq, count
  <2>2. AskIsCurrent'
      BY <1>7 DEF WriteAtrlr, AskIsCurrent, irq
  <2>3. CASE arpe
      BY <1>7, <2>1, <2>2, <2>3
      DEF WriteAtrlr, ArmedWhileCounting, Hz, ctlr1
  <2>4. CASE ~arpe
      BY <1>7, <2>1, <2>2, <2>4, ScheduleArms DEF WriteAtrlr
  <2> QED
      BY <2>3, <2>4
<1>8. ASSUME NEW c \in Clks, WriteCfgr0(c)
      PROVE  Inv'
  <2>0. CountFor(now, CntHz(c, psc)) \in Values
      BY <1>c, CntHzRange, CountRange, Constants DEF CounterOK
  <2>1. base' \in Values /\ epoch' \in 0 .. now
      BY <1>8, <1>c, <2>0 DEF WriteCfgr0, SetCount, count
  <2>2. CounterOK'
      BY <1>8, <2>1 DEF WriteCfgr0, CounterOK, ctlr1, irq
  <2>3. AskIsCurrent'
      BY <1>8 DEF WriteCfgr0, AskIsCurrent, irq
  <2>4. CASE cen
      BY <1>8, <2>2, <2>3, <2>4, ScheduleArms DEF WriteCfgr0
  <2>5. CASE ~cen
      BY <1>8, <2>2, <2>3, <2>5 DEF WriteCfgr0, ArmedWhileCounting, ctlr1
  <2> QED
      BY <2>4, <2>5
<1> QED
    BY <1>1, <1>2, <1>3, <1>4, <1>5, <1>6, <1>7, <1>8 DEF Firmware

\* The callback of the timer keeps the invariant and looks ahead.
LEMMA TickKeepsInv == Inv /\ Tick => Inv' /\ deadline' \notin 0 .. now
<1> SUFFICES ASSUME Inv, Tick
             PROVE  Inv' /\ deadline' \notin 0 .. now
    OBVIOUS
<1> USE DEF Inv
<1>1. 0 \in Values /\ now \in 0 .. now
    BY Constants DEF CounterOK
<1>2. CounterOK'
    BY <1>1 DEF Tick, MeipUpdate, CounterOK, SetCount
<1>3. AskIsCurrent'
    BY DEF Tick, MeipUpdate, AskIsCurrent, CounterOK
<1>4. now' = now /\ now \in Nat
    BY Constants DEF Tick, CounterOK
<1>5. /\ deadline' \in Nat \cup {Never} /\ ArmedWhileCounting'
      /\ deadline' # Never => deadline' > now'
    BY <1>2, ScheduleArms DEF Tick
<1> QED
    BY <1>2, <1>3, <1>4, <1>5 DEF Never

\* The invariant holds at power-on, as it does after a reset.
LEMMA InitInv == Init => Inv
<1> SUFFICES ASSUME Init
             PROVE  Inv
    OBVIOUS
<1>0. 0 \in 0 .. Horizon /\ 0 \in 0 .. 0
    BY Constants
<1>1. CounterOK
    BY <1>0, Constants, ResetClkAssumption DEF Init, CounterOK
<1>2. ArmedWhileCounting
    BY DEF Init, ArmedWhileCounting
<1>3. asked = FALSE /\ (uif /\ uie) = FALSE
    BY DEF Init
<1> QED
    BY <1>1, <1>2, <1>3 DEF Init, Inv, AskIsCurrent

\* No step of the firmware, the timer or the reset breaks it.
LEMMA NextInv == Inv /\ [Next]_vars => Inv'
<1> SUFFICES ASSUME Inv, [Next]_vars
             PROVE  Inv'
    OBVIOUS
<1>1. CASE Firmware
    BY <1>1, FirmwareKeepsInv
<1>2. CASE Tick
    BY <1>2, TickKeepsInv
<1>3. CASE Reset
  <2>0. 0 \in 0 .. now /\ now \in 0 .. Horizon
      BY Constants DEF Inv, CounterOK
  <2>1. CounterOK'
      BY <1>3, <2>0, Constants, ResetClkAssumption DEF Reset, CounterOK
  <2>2. ArmedWhileCounting'
      BY <1>3 DEF Reset, ArmedWhileCounting
  <2>3. asked' = FALSE /\ (uif /\ uie)' = FALSE
      BY <1>3 DEF Reset
  <2> QED
      BY <1>3, <2>1, <2>2, <2>3 DEF Reset, Inv, AskIsCurrent
<1>4. CASE Advance
  <2>1. now' \in 0 .. Horizon /\ epoch' \in 0 .. now'
      BY <1>4, Constants DEF Advance, Inv, CounterOK, count
  <2> QED
      BY <1>4, <2>1 DEF Advance, Inv, CounterOK, ArmedWhileCounting, AskIsCurrent,
          Hz, ctlr1, irq, count
<1>5. CASE UNCHANGED vars
    BY <1>5 DEF vars, ctlr1, irq, count, Inv, CounterOK, ArmedWhileCounting,
        AskIsCurrent, Hz
<1> QED
    BY <1>1, <1>2, <1>3, <1>4, <1>5 DEF Next

\* So it always holds.
LEMMA Invariance == Spec => []Inv
    BY InitInv, NextInv, PTL DEF Spec

-----------------------------------------------------------------------------
(***************************************************************************)
(* When it rings.                                                          *)
(***************************************************************************)

RingNear ==
    cen /\ Hz # 0 /\ base < Period =>
        /\ (CountAt(NextRing) + 1) % Period \in {0, 1}
        /\ NextRing - now <= Delay(Period)

\* A longer wait for more counts.
LEMMA DelayMonotone ==
    ASSUME NEW h \in Nat \ {0}, NEW n \in Nat, NEW p \in Nat, n <= p
    PROVE  (n * Second) \div h <= (p * Second) \div h
<1>1. n * Second \in Nat /\ p * Second \in Nat /\ n * Second <= p * Second
    BY Constants
<1>2. \A a, b \in Nat : a <= b => a \div h <= b \div h
    BY Z3
<1> QED
    BY <1>1, <1>2

\* The count that is read lies within the period, if the base does.
LEMMA CountInPeriod ==
    ASSUME CounterOK, cen, Hz # 0, base < Period, NEW t \in Nat, t >= epoch
    PROVE  /\ ((t - epoch) * Hz) \div Second \in Nat
           /\ CountAt(t) = (base + ((t - epoch) * Hz) \div Second) % Period
           /\ CountAt(t) \in 0 .. Period - 1
<1>1. /\ Period \in Nat \ {0} /\ base \in 0 .. Period - 1 /\ epoch \in Nat
      /\ Hz \in Nat /\ Second \in Nat \ {0}
    BY PeriodRange, CntHzRange, Constants DEF CounterOK, Values, Hz
<1>2. (t - epoch) * Hz \in Nat
    BY <1>1
<1>3. \A a \in Nat : a \div Second \in Nat
    BY <1>1
<1>4. ((t - epoch) * Hz) \div Second \in Nat
    BY <1>2, <1>3
<1>5. CountAt(t) = (base + ((t - epoch) * Hz) \div Second) % Period
  <2>1. CASE t > epoch
      BY <2>1 DEF CountAt, CountFor
  <2>2. CASE t = epoch
    <3>1. ((t - epoch) * Hz) \div Second = 0
        BY <1>1, <2>2
    <3>2. base % Period = base
        BY <1>1, ModSmall
    <3>3. base + 0 = base
        BY <1>1
    <3> QED
        BY <2>2, <3>1, <3>2, <3>3, <1>1 DEF CountAt, CountFor
  <2> QED
      BY <1>1, <2>1, <2>2
<1>6. base + ((t - epoch) * Hz) \div Second \in Int
    BY <1>1, <1>4
<1> QED
    BY <1>1, <1>4, <1>5, <1>6, DivisionFacts

\* The instant that ch32_tim_schedule computes is near an overflow and no more
\* than a period away.
LEMMA RingsNear == CounterOK => RingNear
<1> SUFFICES ASSUME CounterOK, cen, Hz # 0, base < Period
             PROVE  /\ (CountAt(NextRing) + 1) % Period \in {0, 1}
                    /\ NextRing - now <= Delay(Period)
    BY DEF RingNear
<1> DEFINE a == now - epoch
           q == (a * Hz) \div Second
           e == base + q
           n == Period - (e % Period)
           d == (n * Second) \div Hz
<1>1. /\ Hz \in 1 .. Second /\ Second \in Nat \ {0}
      /\ Period \in 2 .. Limit + 1 /\ Limit \in Nat /\ Word \in Nat \ {0} /\ Word > Limit + 1
    BY CntHzRange, PeriodRange, Constants, WidthAssumption DEF CounterOK, Hz
<1>2. a \in Nat /\ now \in Nat /\ epoch \in Nat /\ now >= epoch /\ base \in Nat
    BY Constants DEF CounterOK, Values
<1>3. q \in Nat /\ CountAt(now) = e % Period /\ e % Period \in 0 .. Period - 1
    BY <1>2, CountInPeriod
<1>4. TicksLeft = n /\ n \in 1 .. Period /\ n \in Nat \ {0}
  <2>1. n \in 1 .. Period /\ n \in 0 .. Word - 1
      BY <1>1, <1>3
  <2>2. n % Word = n
    <3> HIDE DEF n
    <3> QED
        BY <1>1, <2>1, ModSmall
  <2>3. n # 0
      BY <2>1
  <2>4. TicksLeft = (IF n % Word = 0 THEN Period ELSE n % Word)
      BY <1>3 DEF TicksLeft
  <2> HIDE DEF n
  <2> QED
      BY <1>1, <2>1, <2>2, <2>3, <2>4
<1>5. d \in Nat \ {0}
  <2> HIDE DEF n
  <2> QED
      BY <1>4, DelayPositive DEF Delay
<1>6. NextRing = now + d
  <2> HIDE DEF n
  <2> QED
      BY <1>4 DEF NextRing, Delay
<1>7. NextRing - epoch = a + d /\ NextRing \in Nat /\ NextRing >= epoch /\ NextRing - now = d
  <2> HIDE DEF d
  <2> QED
      BY <1>2, <1>5, <1>6
<1>8. PICK k \in {n - 1, n} : ((a + d) * Hz) \div Second = q + k
  <2>1. n \in Nat /\ a \in Nat /\ Hz \in 1 .. Second /\ Second \in Nat \ {0}
      BY <1>1, <1>2, <1>4
  <2> HIDE DEF a, n
  <2> QED
      BY <2>1, TicksAfterDelay
<1>9. CountAt(NextRing) = (e + k) % Period
  <2>1. CountAt(NextRing) = (base + ((a + d) * Hz) \div Second) % Period
    <3>1. CountAt(NextRing) = (base + ((NextRing - epoch) * Hz) \div Second) % Period
        BY <1>7, CountInPeriod
    <3> QED
        BY <1>7, <3>1
  <2>2. base + (q + k) = e + k
    <3> HIDE DEF n, q
    <3> QED
        BY <1>2, <1>3, <1>4, <1>8
  <2> QED
      BY <1>8, <2>1, <2>2
<1>10. (CountAt(NextRing) + 1) % Period \in {0, 1}
  <2>1. e \in Int /\ k \in {(Period - (e % Period)) - 1, Period - (e % Period)}
      BY <1>2, <1>3, <1>8
  <2>2. Period \in Nat \ {0} /\ 1 \in 0 .. Period - 1 /\ k \in Int
      BY <1>1, <1>4, <1>8
  <2> HIDE DEF e
  <2>3. (e + k + 1) % Period \in {0, 1 % Period}
      BY <2>1, <2>2, NextMultiple
  <2>4. 1 % Period = 1
      BY <2>2, ModSmall
  <2>5. e + k \in Int
      BY <2>1, <2>2
  <2>6. (e + k + 1) % Period = (((e + k) % Period) + 1) % Period
    <3> DEFINE x == e + k
    <3>1. x \in Int
        BY <2>5
    <3> HIDE DEF x
    <3>2. (x + 1) % Period = ((x % Period) + 1) % Period
        BY <2>2, <3>1, ModNext
    <3> QED
        BY <3>2 DEF x
  <2> QED
      BY <1>9, <2>3, <2>4, <2>6
<1>11. d <= Delay(Period)
  <2>1. Hz \in Nat \ {0} /\ n \in Nat /\ Period \in Nat /\ n <= Period
      BY <1>1, <1>4
  <2> HIDE DEF n
  <2> QED
      BY <2>1, DelayMonotone DEF Delay
<1> HIDE DEF d
<1> QED
    BY <1>7, <1>10, <1>11

\* The same of the next state.
LEMMA RingsNearNext == CounterOK' => RingNear'
    BY RingsNear, PTL

\* Each step arms the timer afresh, or leaves it, the count and the period as
\* they are; time that passes only brings the deadline nearer.
LEMMA NextRingsNear == Inv /\ RingsAtNextOverflow /\ [Next]_vars => RingsAtNextOverflow'
<1> SUFFICES ASSUME Inv, RingsAtNextOverflow, [Next]_vars
             PROVE  RingsAtNextOverflow'
    OBVIOUS
<1>1. Inv' /\ RingNear'
    BY NextInv, RingsNearNext DEF Inv
<1>2. ASSUME Schedule PROVE RingsAtNextOverflow'
    BY <1>1, <1>2 DEF Schedule, RingsAtNextOverflow, RingNear, Inv, ArmedWhileCounting
<1>3. ASSUME UNCHANGED << cen, clk, psc, atrlr, count, deadline >>, now' \in {now, now + 1}
      PROVE  RingsAtNextOverflow'
  <2>1. /\ Period' = Period /\ Hz' = Hz /\ base' = base
        /\ CountAt(deadline)' = CountAt(deadline) /\ Delay(Period)' = Delay(Period)
      BY <1>3 DEF count, Period, Hz, CountAt, CountFor, Delay
  <2>2. now \in Nat /\ deadline \in Int
      BY Constants DEF Inv, CounterOK, Never
  <2>3. CASE deadline' # Never /\ base' < Period'
    <3>1. (CountAt(deadline) + 1) % Period \in {0, 1}
        BY <1>3, <2>1, <2>3 DEF RingsAtNextOverflow
    <3>2. CASE deadline > now
      <4>1. deadline - now <= Delay(Period)
          BY <1>3, <2>1, <2>3, <3>2 DEF RingsAtNextOverflow
      <4>2. Delay(Period) \in Int
          BY <2>3, <1>3, <2>1, PeriodRange, DelayPositive, Constants
          DEF Inv, ArmedWhileCounting
      <4>3. deadline - now' <= Delay(Period)
          BY <1>3, <2>2, <4>1, <4>2
      <4> QED
          BY <1>3, <2>1, <3>1, <4>3 DEF RingsAtNextOverflow
    <3>3. CASE ~(deadline > now)
        BY <1>3, <2>1, <2>2, <3>1, <3>3 DEF RingsAtNextOverflow
    <3> QED
        BY <3>2, <3>3
  <2> QED
      BY <2>3 DEF RingsAtNextOverflow
<1>4. CASE Firmware
  <2>1. ASSUME NEW on \in BOOLEAN, NEW upd \in BOOLEAN, NEW src \in BOOLEAN,
               NEW once \in BOOLEAN, NEW pre \in BOOLEAN,
               WriteCtlr1(on, upd, src, once, pre)
        PROVE  Schedule
      BY <2>1 DEF WriteCtlr1
  <2>2. ASSUME NEW b \in BOOLEAN, WriteDmaintenr(b) \/ WriteIntfr(b)
        PROVE  RingsAtNextOverflow'
      BY <1>3, <2>2 DEF WriteDmaintenr, WriteIntfr, ctlr1
  <2>3. ASSUME GenerateUpdate PROVE Schedule
      BY <2>3 DEF GenerateUpdate
  <2>4. ASSUME NEW v \in Values, WriteCnt(v) \/ WritePsc(v) PROVE Schedule
      BY <2>4 DEF WriteCnt, WritePsc
  <2>5. ASSUME NEW v \in Values, WriteAtrlr(v) PROVE RingsAtNextOverflow'
      BY <1>2, <1>3, <2>5 DEF WriteAtrlr, ctlr1
  <2>6. ASSUME NEW c \in Clks, WriteCfgr0(c) PROVE RingsAtNextOverflow'
    <3>1. CASE cen
        BY <1>2, <2>6, <3>1 DEF WriteCfgr0
    <3>2. CASE ~cen
        BY <2>6, <3>2 DEF WriteCfgr0, Inv, ArmedWhileCounting, RingsAtNextOverflow
    <3> QED
        BY <3>1, <3>2
  <2> QED
      BY <1>2, <1>4, <2>1, <2>2, <2>3, <2>4, <2>5, <2>6 DEF Firmware
<1>5. CASE Tick
    BY <1>2, <1>5 DEF Tick
<1>6. CASE Reset
    BY <1>6 DEF Reset, RingsAtNextOverflow
<1>7. CASE Advance \/ UNCHANGED vars
    BY <1>3, <1>7 DEF Advance, vars, ctlr1
<1> QED
    BY <1>4, <1>5, <1>6, <1>7 DEF Next

\* The timer's registers stay in range for every register width, clock and
\* horizon: no sequence of writes makes CNT overrun its 16 bits.
THEOREM TimTyped == Spec => []TypeOK
<1>1. Inv => TypeOK
    BY DEF Inv, CounterOK, TypeOK
<1> QED
    BY <1>1, Invariance, PTL

\* The QEMU timer of a TIM is armed exactly while the counter counts.
THEOREM TimerFollowsCounter == Spec => []ArmedWhileCounting
<1>1. Inv => ArmedWhileCounting
    BY DEF Inv
<1> QED
    BY <1>1, Invariance, PTL

\* The update interrupt request is never stale.
THEOREM UpdateRequestCurrent == Spec => []AskIsCurrent
<1>1. Inv => AskIsCurrent
    BY DEF Inv
<1> QED
    BY <1>1, Invariance, PTL

\* The update callback cannot loop within one instant, however late it runs
\* and whatever period, prescaler and clock are set.
THEOREM UpdateAdvances == Spec => TickMovesOn
<1>1. Inv => [Tick => deadline' \notin 0 .. now]_vars
    BY TickKeepsInv
<1> QED
    BY <1>1, Invariance, PTL DEF TickMovesOn

\* The timer rings within one count of an overflow and not a period late, for
\* every clock, prescaler and period, as long as the firmware keeps the count
\* it sets within the period.
THEOREM RingsAtOverflow == Spec => []RingsAtNextOverflow
<1>1. Init => RingsAtNextOverflow
    BY DEF Init, RingsAtNextOverflow
<1> QED
    BY <1>1, NextRingsNear, Invariance, PTL DEF Spec
===============================================================================
