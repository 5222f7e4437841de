------------------------------- MODULE LossyQueue -------------------------------
(***************************************************************************)
(* What a network card promises the two ends of its receive path: a frame  *)
(* the network sends is read by the firmware at most once and never before *)
(* a frame sent earlier; any frame on its way may be lost.                 *)
(***************************************************************************)
EXTENDS Naturals, Sequences

CONSTANTS
    Frames,   \* the frames of the network
    NoFrame   \* before the first frame is read

VARIABLES
    q,        \* the frames on their way, oldest first
    got       \* the frame read last

Init == q = << >> /\ got = NoFrame

Send(f) == q' = Append(q, f) /\ UNCHANGED got

\* A stretch of frames is lost, as when a buffer is given up.
Lose(i, j) ==
    /\ q' = SubSeq(q, 1, i - 1) \o SubSeq(q, j + 1, Len(q))
    /\ UNCHANGED got

Read ==
    /\ q # << >>
    /\ got' = Head(q)
    /\ q' = Tail(q)

Next ==
    \/ \E f \in Frames : Send(f)
    \/ \E i, j \in DOMAIN q : i <= j /\ Lose(i, j)
    \/ Read

Spec == Init /\ [][Next]_<< q, got >>
===============================================================================
