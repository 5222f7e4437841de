------------------------------ MODULE ByteQueue -------------------------------
(***************************************************************************)
(* What a serial receiver promises the firmware: bytes come out in the     *)
(* order in which they went in, none twice and none lost, except that a    *)
(* reset empties the line.  A read that finds no byte yet returns NoByte.  *)
(***************************************************************************)
EXTENDS Naturals, Sequences

CONSTANTS Bytes, NoByte, Capacity

VARIABLES
    q,    \* the bytes on their way, oldest first
    got   \* what the last read returned

vars == << q, got >>

Init == q = << >> /\ got = NoByte

Put(b) ==
    /\ Len(q) < Capacity
    /\ q' = Append(q, b)
    /\ UNCHANGED got

Take ==
    /\ q # << >>
    /\ got' = Head(q)
    /\ q' = Tail(q)

TakeNothing == got' = NoByte /\ UNCHANGED q

Flush == q' = << >> /\ UNCHANGED got

Next ==
    \/ \E b \in Bytes : Put(b)
    \/ Take
    \/ TakeNothing
    \/ Flush

Spec == Init /\ [][Next]_vars
===============================================================================
