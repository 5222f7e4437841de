------------------------------- MODULE TimClaims -------------------------------
(***************************************************************************)
(* What comments of ch32-tim.c say of the timer of module Tim, and the     *)
(* code does not keep.  Each formula is refuted by a counterexample that   *)
(* the README tells, with the constants it was found under.                *)
(***************************************************************************)
EXTENDS Tim

\* ch32-tim.c:245 "arms the timer for the next update event": an armed timer
\* that is not late is never more than a period away, whatever count was
\* written.
ArmsNextUpdate == deadline > now => deadline - now <= Delay(Period)

\* ch32-tim.c:489 "the prescaler takes effect at the next UG or overflow;
\* here the epoch is re-anchored": writing it leaves the count alone.
PrescalerKeepsCount ==
    [][psc' # psc /\ cen' => CountAt(now)' = CountAt(now)]_vars

\* ch32-tim.c:650 "settle the current count with the old TIMxCLK": a change of
\* the clock leaves the count alone.
ClockKeepsCount ==
    [][clk' # clk /\ cen' => CountAt(now)' = CountAt(now)]_vars
===============================================================================
