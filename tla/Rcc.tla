---------------------------------- MODULE Rcc ----------------------------------
(***************************************************************************)
(* The reset and clock controller: which oscillator, multiplier and        *)
(* dividers are selected, the frequencies that follow from it, and that    *)
(* SysTick and the timers are told when they change.  BDCTLR is in module  *)
(* Backup.  Oscillators are ready as soon as they are looked at.           *)
(***************************************************************************)
EXTENDS Naturals

CONSTANTS
    HsiHz, HseHz,   \* the board's oscillators
    RccHpres, RccPpres, RccMuls   \* the values of these fields that are written

ASSUME RccAssumption ==
    /\ HsiHz \in Nat \ {0} /\ HseHz \in Nat \ {0}
    /\ 0 \in RccHpres /\ RccHpres \subseteq 0 .. 15
    /\ 0 \in RccPpres /\ RccPpres \subseteq 0 .. 7
    /\ 0 \in RccMuls /\ RccMuls \subseteq 0 .. 15

VARIABLE rcc

RccFields == {"sw", "hpre", "ppre1", "pllsrc", "pllmul", "mco"}

\* CFGR0 by field; mco stands for the bits no frequency depends on.
RccWords ==
    [sw : 0 .. 3, hpre : RccHpres, ppre1 : RccPpres, pllsrc : {0, 1},
     pllmul : RccMuls, mco : {0, 1}]

\* The fields that lie in each byte of CFGR0; a narrow write changes those only.
RccByte == << {"sw", "hpre"}, {"ppre1"}, {"pllsrc", "pllmul"}, {"mco"} >>
RccAccesses == {RccByte[i] : i \in 1 .. 4}
                 \cup {RccByte[1] \cup RccByte[2], RccByte[3] \cup RccByte[4], RccFields}

RccPowers == << 2, 4, 8, 16, 64, 128, 256, 512 >>
RccHpreDiv(hpre) == IF hpre < 8 THEN 1 ELSE RccPowers[hpre - 7]
RccPpreDiv(ppre) == IF ppre < 4 THEN 1 ELSE RccPowers[ppre - 3]

\* 15 is x16 like 14.
RccPllMul(pllmul) == IF pllmul <= 14 THEN pllmul + 2 ELSE 16

RccSysclk(c) ==
    CASE c.sw = 1 -> HseHz
      [] c.sw = 2 -> (IF c.pllsrc = 1 THEN HseHz ELSE HsiHz \div 2) * RccPllMul(c.pllmul)
      [] OTHER -> HsiHz

RccHclk(c) == RccSysclk(c) \div RccHpreDiv(c.hpre)
RccPclk1(c) == RccHclk(c) \div RccPpreDiv(c.ppre1)
RccClocks(c) == << RccHclk(c), RccPclk1(c) >>

\* Variant: the PLL's input is left out of the mask.
RccClockFieldsNoSource == {"sw", "hpre", "ppre1", "pllmul"}

\* RCC_CFGR0_CLOCK_MASK
RccClockFields == {"sw", "hpre", "ppre1", "pllsrc", "pllmul"}

RccState ==
    [ctlr : SUBSET {"HSION", "HSEON", "PLLON"},
     cfgr0 : RccWords,
     told : Nat \X Nat]

\* What the firmware reads: every ready bit of CTLR is one, and SWS follows SW,
\* of which 3 shows as HSI.
RccReadCtlr == rcc.ctlr \cup {"HSIRDY", "HSERDY", "PLLRDY"}
RccReadSws == IF rcc.cfgr0.sw \in {1, 2} THEN rcc.cfgr0.sw ELSE 0

RccWriteCtlr ==
    \E bits \in SUBSET {"HSION", "HSEON", "PLLON"} : rcc' = [rcc EXCEPT !.ctlr = bits]

\* Clock bits that changed send SysTick and the timers to settle their counts
\* at the old frequency and go on at the one told here.
RccWriteCfgr0 ==
    \E word \in RccWords, touched \in RccAccesses :
        \E new \in {[f \in RccFields |-> IF f \in touched THEN word[f] ELSE rcc.cfgr0[f]]} :
            rcc' = [rcc EXCEPT
                !.cfgr0 = new,
                !.told = IF \E f \in RccClockFields : new[f] # rcc.cfgr0[f]
                         THEN RccClocks(new) ELSE @]

\* ch32_soft_state_reset; SysTick and the timers are reset in the same call and
\* take up the new frequencies there.
RccPowerOn ==
    LET none == [f \in RccFields |-> 0]
    IN  [ctlr |-> {"HSION"}, cfgr0 |-> none, told |-> RccClocks(none)]

RccInit == rcc = RccPowerOn
RccMachineReset == rcc' = RccPowerOn

RccRegisters == RccWriteCtlr \/ RccWriteCfgr0

RccNext == RccRegisters \/ RccMachineReset

RccSpec == RccInit /\ [][RccNext]_rcc

-----------------------------------------------------------------------------
RccTypeOK == rcc \in RccState

\* SysTick and the timers always count at the frequencies the registers select:
\* no sequence of full or narrow writes to CFGR0 changes HCLK or PCLK1 behind
\* their backs.
RccTimersKnowClock == rcc.told = RccClocks(rcc.cfgr0)
===============================================================================
