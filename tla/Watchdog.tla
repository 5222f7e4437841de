------------------------------- MODULE Watchdog -------------------------------
(***************************************************************************)
(* The two watchdogs.  The independent one (IWDG) runs on a QEMU timer:    *)
(* once it is enabled the firmware has to write the reload key before the  *)
(* timer rings, and a ring asks QEMU's main loop for a machine reset.  The *)
(* window watchdog (WWDG) is three registers that count nothing.           *)
(*                                                                         *)
(* Time advances in ticks of the slowest divider step; left is the number  *)
(* of ticks before the timer rings, DogIdle while it is not pending.       *)
(***************************************************************************)
EXTENDS Naturals

CONSTANTS
    DogPrescalers,  \* the exponents in PSCR (0 .. 6) that the firmware uses
    DogReloads      \* the values of RLDR that the firmware uses

ASSUME DogAssumption ==
    /\ 0 \in DogPrescalers /\ DogPrescalers \subseteq 0 .. 7
    /\ DogReloads \subseteq Nat
    /\ \E r \in DogReloads : \A s \in DogReloads : s <= r

VARIABLE dog

DogIdle == 0

\* PSCR 7 counts like 6; RLDR counts down to zero inclusive.
DogDivider(pscr) == << 1, 2, 4, 8, 16, 32, 64, 64 >>[pscr + 1]
DogTimeout(pscr, rldr) == (rldr + 1) * DogDivider(pscr)

DogMaxReload == CHOOSE r \in DogReloads : \A s \in DogReloads : s <= r
DogMaxTimeout == DogTimeout(6, DogMaxReload)

DogState ==
    [pscr : DogPrescalers, rldr : DogReloads, enabled : BOOLEAN, unlock : BOOLEAN,
     statr : SUBSET {"PVU", "RVU"}, clearing : BOOLEAN, left : 0 .. DogMaxTimeout,
     asked : BOOLEAN, wwdg : [ctlr : SUBSET {"T6"}, cfgr : SUBSET {"EWI"}, ewif : BOOLEAN]]

\* ch32_iwdt_reload_timer, with enabled as it is after the key.
DogReloaded(enabled) == IF enabled THEN DogTimeout(dog.pscr, dog.rldr) ELSE dog.left

DogUnlock == dog' = [dog EXCEPT !.unlock = TRUE]

DogReload == dog' = [dog EXCEPT !.left = DogReloaded(dog.enabled)]

\* Variant: enabling leaves it to the first reload to start the timer.
DogEnableLazily == dog' = [dog EXCEPT !.enabled = TRUE, !.unlock = FALSE]

DogEnable ==
    dog' = [dog EXCEPT !.enabled = TRUE, !.unlock = FALSE, !.left = DogReloaded(TRUE)]

\* Variant: the parameters may change under a running watchdog.
DogOpenAnyway == dog.unlock

\* Once enabled, the parameters are fixed until the next reset.
DogOpen == dog.unlock /\ ~dog.enabled

DogWritePscr ==
    /\ DogOpen
    /\ \E p \in DogPrescalers :
           dog' = [dog EXCEPT !.pscr = p, !.statr = @ \cup {"PVU"}, !.clearing = TRUE]

DogWriteRldr ==
    /\ DogOpen
    /\ \E r \in DogReloads :
           dog' = [dog EXCEPT !.rldr = r, !.statr = @ \cup {"RVU"}, !.clearing = TRUE]

\* ch32_iwdt_flags_clear: one timer for both flags, and every write re-arms it.
DogFlagsClear ==
    /\ dog.clearing
    /\ dog' = [dog EXCEPT !.statr = {}, !.clearing = FALSE]

\* Time passes; the tick on which the timer rings is DogFire.
DogTick ==
    /\ dog.left > 1
    /\ dog' = [dog EXCEPT !.left = @ - 1]

\* ch32_iwdt_fire: the reset comes later, from the main loop.  The timer is
\* not armed again, though a reload before the reset would.
DogFire ==
    /\ dog.left = 1
    /\ dog' = [dog EXCEPT !.left = DogIdle, !.asked = TRUE]

\* The window watchdog: CTLR drops WDGA, so that it never starts, and reads
\* with T6 set; writing a zero clears EWIF, which nothing sets.
DogWriteWwdg ==
    \/ \E bits \in SUBSET {"WDGA", "T6"} : dog' = [dog EXCEPT !.wwdg.ctlr = bits \ {"WDGA"}]
    \/ \E bits \in SUBSET {"EWI"} : dog' = [dog EXCEPT !.wwdg.cfgr = bits]
    \/ \E one \in BOOLEAN : dog' = [dog EXCEPT !.wwdg.ewif = @ /\ one]

DogReadWwdgCtlr == dog.wwdg.ctlr \cup {"T6"}

DogRegisters ==
    \/ DogUnlock \/ DogReload \/ DogEnable \/ DogWritePscr \/ DogWriteRldr \/ DogWriteWwdg

\* ch32_iwdt_reset and the window watchdog's lines of ch32_soft_state_reset;
\* RLDR goes to its largest value.  The reset answers the request.
DogPowerOn ==
    [pscr |-> 0, rldr |-> DogMaxReload, enabled |-> FALSE, unlock |-> FALSE,
     statr |-> {}, clearing |-> FALSE, left |-> DogIdle, asked |-> FALSE,
     wwdg |-> [ctlr |-> {"T6"}, cfgr |-> {}, ewif |-> FALSE]]

DogInit == dog = DogPowerOn
DogMachineReset == dog' = DogPowerOn

\* The main loop resets the machine once it was asked to; an operator may at
\* any time.
DogNext == DogRegisters \/ DogFlagsClear \/ DogTick \/ DogFire \/ DogMachineReset

\* Timers ring, and the main loop takes up a requested reset.
DogFairness ==
    /\ WF_dog(DogTick \/ DogFire)
    /\ WF_dog(DogFlagsClear)
    /\ WF_dog(dog.asked /\ DogMachineReset)

DogSpec == DogInit /\ [][DogNext]_dog /\ DogFairness

-----------------------------------------------------------------------------
DogTypeOK == dog \in DogState

\* The watchdog never goes to sleep: once enabled, its timer is pending or the
\* machine is about to be reset, and the timer is never further away than the
\* parameters say, which no write can stretch any more; without being enabled
\* it never rings.  An update flag that shows has its clearing under way.
DogWatches ==
    /\ dog.enabled => dog.left # DogIdle \/ dog.asked
    /\ ~dog.enabled => dog.left = DogIdle
    /\ dog.left <= DogTimeout(dog.pscr, dog.rldr)
    /\ dog.statr # {} => dog.clearing

\* A firmware that stops writing the reload key is reset: from every moment on
\* at which the watchdog runs, either the machine is reset or a key comes.
DogBites == (dog.enabled ~> ~dog.enabled) \/ []<><<DogReload \/ DogEnable>>_dog
===============================================================================
