----------------------------- MODULE SysTickClaims -----------------------------
(***************************************************************************)
(* What comments of ch32-stk-pfic.c say of the SysTick of module SysTick,  *)
(* and the code does not keep.  Each formula is refuted by a               *)
(* counterexample that the README tells, with the constants it was found   *)
(* under.                                                                  *)
(***************************************************************************)
EXTENDS SysTick

\* ch32-stk-pfic.c:907 "read the current count at the old frequency":
\* a change of HCLK leaves the count the firmware reads alone.  (A reset
\* clears STE.)
RccKeepsCount ==
    [][hclk' # hclk /\ ste' => CountAt(now)' = CountAt(now)]_vars

\* ch32-stk-pfic.c:175 "CNTIF is always set when the count reaches CMP":
\* a counter that stands at CMP with its timer due does not go on to the next
\* period without the flag.
WrapSetsFlag ==
    [][/\ deadline # Never /\ now >= deadline
       /\ Cmp > 1 /\ CountAt(now) % Cmp = 0
       /\ deadline' > now
       /\ UNCHANGED << regs, epoch, cnt0, cntif >>
       => cntif']_vars

\* The same comment, the other way: a callback that runs on time finds the
\* counter at CMP.
FlagNeedsWrap == [][Tick /\ now = deadline => CountAt(now) % Cmp = 0]_vars
===============================================================================
