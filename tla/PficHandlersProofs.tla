-------------------------- MODULE PficHandlersProofs --------------------------
(***************************************************************************)
(* The resync functions as PficHandlers writes them, turn by turn and row  *)
(* by row, do what the closed forms of MeipSlot say: HandlerSpec           *)
(* implements Spec.                                                        *)
(*                                                                         *)
(* A walk of pfic_resync_table starts with a free slot; Passed says what   *)
(* is true of it after the units of S had their turn, StepPasses that a    *)
(* turn keeps it, and WalkCloses that the end of the table is Rescan.  A   *)
(* device's own call starts from any slot; RowActs says where its row ends *)
(* if only two of its turns do anything.                                   *)
(***************************************************************************)
EXTENDS PficHandlers, MeipSlotProofs, Numbers

-----------------------------------------------------------------------------
(***************************************************************************)
(* The order of the walk: the ranks of the devices are their places in the *)
(* rows.                                                                   *)
(***************************************************************************)

\* The place of a device in ScanOrder.
Place ==
    [x \in TableIrqs |->
       IF x <= 33 THEN x - 8
       ELSE IF x <= 46 THEN x - 35
       ELSE IF x <= 55 THEN x - 52
       ELSE IF x = 61 THEN 15
       ELSE IF x = 66 THEN 12
       ELSE IF x <= 69 THEN x - 64
       ELSE IF x <= 71 THEN x - 57
       ELSE IF x <= 76 THEN x - 46
       ELSE IF x = 77 THEN 16
       ELSE IF x = 83 THEN 18
       ELSE IF x = 85 THEN 17
       ELSE IF x <= 89 THEN x - 81
       ELSE x - 67]

\* The numbers of the devices with a row, written out.
LEMMA TableMembers ==
    \A x : x \in TableIrqs <=>
        \/ x \in 27 .. 33 \/ x \in 44 .. 46 \/ x \in 53 .. 55 \/ x \in {61, 66}
        \/ x \in 68 .. 71 \/ x \in 72 .. 77 \/ x \in {83, 85} \/ x \in 87 .. 89
        \/ x \in 98 .. 103
    BY DEF TableIrqs, UsartIrqs, LatchIrqs, UsbIrqs, DmaIrqs, LiteIrqs, TimIrqs, Usart1Irq,
       EthIrq, Eth10mIrq, UsbHsIrq, UsbFsIrq, Dma1Irqs, Dma2Irqs, DmaExIrqs

LEMMA TableIsNat == TableIrqs \subseteq Nat
    BY DEF TableIrqs, UsartIrqs, LatchIrqs, UsbIrqs, DmaIrqs, LiteIrqs, TimIrqs, Usart1Irq,
       EthIrq, Eth10mIrq, UsbHsIrq, UsbFsIrq, Dma1Irqs, Dma2Irqs, DmaExIrqs

\* Each device of the table stands at its place of ScanOrder and nowhere else.
LEMMA ScanPlaces ==
    /\ Len(ScanOrder) = 36
    /\ \A i \in 1 .. 36 : ScanOrder[i] \in TableIrqs /\ Place[ScanOrder[i]] = i
    /\ \A x \in TableIrqs : Place[x] \in 1 .. 36 /\ ScanOrder[Place[x]] = x
<1>1. Len(ScanOrder) = 36
    BY DEF ScanOrder
<1>2. ASSUME NEW i \in 1 .. 36
      PROVE  ScanOrder[i] \in TableIrqs /\ Place[ScanOrder[i]] = i
    BY TableMembers DEF ScanOrder, Place
<1>3. ASSUME NEW x \in TableIrqs
      PROVE  Place[x] \in 1 .. 36 /\ ScanOrder[Place[x]] = x
  <2> DEFINE At(p) == p \in 1 .. 36 /\ ScanOrder[p] = x
  <2>1. ASSUME x \in 27 .. 33 PROVE Place[x] = x - 8 /\ At(x - 8)
    <3>1. Place[x] = x - 8
        BY <2>1 DEF Place
    <3>2. At(x - 8)
        BY <2>1 DEF ScanOrder
    <3> QED
        BY <3>1, <3>2
  <2>2. ASSUME x \in 44 .. 46 PROVE Place[x] = x - 35 /\ At(x - 35)
    <3>1. Place[x] = x - 35
        BY <2>2 DEF Place
    <3>2. At(x - 35)
        BY <2>2 DEF ScanOrder
    <3> QED
        BY <3>1, <3>2
  <2>3. ASSUME x \in 53 .. 55 PROVE Place[x] = x - 52 /\ At(x - 52)
    <3>1. Place[x] = x - 52
        BY <2>3 DEF Place
    <3>2. At(x - 52)
        BY <2>3 DEF ScanOrder
    <3> QED
        BY <3>1, <3>2
  <2>4. ASSUME x \in {61} PROVE Place[x] = 15 /\ At(15)
    <3>1. Place[x] = 15
        BY <2>4 DEF Place
    <3>2. At(15)
        BY <2>4 DEF ScanOrder
    <3> QED
        BY <3>1, <3>2
  <2>5. ASSUME x \in {66} PROVE Place[x] = 12 /\ At(12)
    <3>1. Place[x] = 12
        BY <2>5 DEF Place
    <3>2. At(12)
        BY <2>5 DEF ScanOrder
    <3> QED
        BY <3>1, <3>2
  <2>6. ASSUME x \in 68 .. 69 PROVE Place[x] = x - 64 /\ At(x - 64)
    <3>1. Place[x] = x - 64
        BY <2>6 DEF Place
    <3>2. At(x - 64)
        BY <2>6 DEF ScanOrder
    <3> QED
        BY <3>1, <3>2
  <2>7. ASSUME x \in 70 .. 71 PROVE Place[x] = x - 57 /\ At(x - 57)
    <3>1. Place[x] = x - 57
        BY <2>7 DEF Place
    <3>2. At(x - 57)
        BY <2>7 DEF ScanOrder
    <3> QED
        BY <3>1, <3>2
  <2>8. ASSUME x \in 72 .. 76 PROVE Place[x] = x - 46 /\ At(x - 46)
    <3>1. Place[x] = x - 46
        BY <2>8 DEF Place
    <3>2. At(x - 46)
        BY <2>8 DEF ScanOrder
    <3> QED
        BY <3>1, <3>2
  <2>9. ASSUME x \in {77} PROVE Place[x] = 16 /\ At(16)
    <3>1. Place[x] = 16
        BY <2>9 DEF Place
    <3>2. At(16)
        BY <2>9 DEF ScanOrder
    <3> QED
        BY <3>1, <3>2
  <2>10. ASSUME x \in {83} PROVE Place[x] = 18 /\ At(18)
    <3>1. Place[x] = 18
        BY <2>10 DEF Place
    <3>2. At(18)
        BY <2>10 DEF ScanOrder
    <3> QED
        BY <3>1, <3>2
  <2>11. ASSUME x \in {85} PROVE Place[x] = 17 /\ At(17)
    <3>1. Place[x] = 17
        BY <2>11 DEF Place
    <3>2. At(17)
        BY <2>11 DEF ScanOrder
    <3> QED
        BY <3>1, <3>2
  <2>12. ASSUME x \in 87 .. 89 PROVE Place[x] = x - 81 /\ At(x - 81)
    <3>1. Place[x] = x - 81
        BY <2>12 DEF Place
    <3>2. At(x - 81)
        BY <2>12 DEF ScanOrder
    <3> QED
        BY <3>1, <3>2
  <2>13. ASSUME x \in 98 .. 103 PROVE Place[x] = x - 67 /\ At(x - 67)
    <3>1. Place[x] = x - 67
        BY <2>13 DEF Place
    <3>2. At(x - 67)
        BY <2>13 DEF ScanOrder
    <3> QED
        BY <3>1, <3>2
  <2>14. At(Place[x])
    <3> HIDE DEF At
    <3> QED
        BY <2>1, <2>2, <2>3, <2>4, <2>5, <2>6, <2>7, <2>8, <2>9, <2>10, <2>11, <2>12, <2>13, TableMembers
  <2> QED
      BY <2>14
<1> QED
    BY <1>1, <1>2, <1>3

\* Ranks are places.
LEMMA RankIsPlace == \A x \in TableIrqs : Rank[x] = Place[x]
<1> SUFFICES ASSUME NEW x \in TableIrqs PROVE Rank[x] = Place[x]
    OBVIOUS
<1>1. Rank[x] = CHOOSE i \in 1 .. 36 : ScanOrder[i] = x
    BY ScanPlaces DEF Rank
<1>2. Rank[x] \in 1 .. 36 /\ ScanOrder[Rank[x]] = x
    BY <1>1, ScanPlaces
<1> QED
    BY <1>2, ScanPlaces

\* So no two devices have the same rank, and a device that no other of a set
\* precedes is the first of the set.
LEMMA FirstIs ==
    ASSUME NEW S \in SUBSET TableIrqs, NEW x \in S, \A y \in S : Rank[x] <= Rank[y]
    PROVE  FirstInTable(S) = x
<1>1. ASSUME NEW z \in S, \A y \in S : Rank[z] <= Rank[y] PROVE z = x
  <2>1. Rank[z] = Rank[x]
      BY <1>1, RankIsNat
  <2> QED
      BY <2>1, RankIsPlace, ScanPlaces
<1> QED
    BY <1>1 DEF FirstInTable

\* A member below all others is the one that Lowest picks.
LEMMA LowestIs ==
    ASSUME NEW S \in SUBSET Nat, NEW x \in S, \A y \in S : x <= y
    PROVE  Lowest(S) = x
<1>1. ASSUME NEW z \in S, \A y \in S : z <= y PROVE z = x
    BY <1>1
<1> QED
    BY <1>1 DEF Lowest

\* The places of the units in their rows.
LEMMA RowPlaces ==
    /\ Rank[Usart1Irq] = 1 /\ Rank[Eth10mIrq] = 15 /\ Rank[EthIrq] = 16
    /\ Rank[UsbHsIrq] = 17 /\ Rank[UsbFsIrq] = 18
    /\ Len(LiteOrder) = 7 /\ \A i \in 1 .. 7 : LiteOrder[i] \in LiteIrqs /\ Rank[LiteOrder[i]] = 1 + i
    /\ Len(TimOrder) = 6 /\ \A i \in 1 .. 6 : TimOrder[i] \in TimIrqs /\ Rank[TimOrder[i]] = 8 + i
    /\ Len(DmaOrder) = 18 /\ \A i \in 1 .. 18 : DmaOrder[i] \in DmaIrqs /\ Rank[DmaOrder[i]] = 18 + i
<1>1. /\ Rank[Usart1Irq] = 1 /\ Rank[Eth10mIrq] = 15 /\ Rank[EthIrq] = 16
      /\ Rank[UsbHsIrq] = 17 /\ Rank[UsbFsIrq] = 18
    BY RankIsPlace, TableMembers DEF Place, Usart1Irq, Eth10mIrq, EthIrq, UsbHsIrq, UsbFsIrq
<1>2. Len(LiteOrder) = 7 /\ Len(TimOrder) = 6 /\ Len(DmaOrder) = 18
    BY DEF LiteOrder, TimOrder, DmaOrder
<1>3. ASSUME NEW i \in 1 .. 7 PROVE LiteOrder[i] \in LiteIrqs /\ Rank[LiteOrder[i]] = 1 + i
    BY RankIsPlace, TableMembers DEF Place, LiteOrder, LiteIrqs
<1>4. ASSUME NEW i \in 1 .. 6 PROVE TimOrder[i] \in TimIrqs /\ Rank[TimOrder[i]] = 8 + i
    BY RankIsPlace, TableMembers DEF Place, TimOrder, TimIrqs
<1>5. ASSUME NEW i \in 1 .. 18 PROVE DmaOrder[i] \in DmaIrqs /\ Rank[DmaOrder[i]] = 18 + i
    BY RankIsPlace, TableMembers DEF Place, DmaOrder, DmaIrqs, Dma1Irqs, Dma2Irqs, DmaExIrqs
<1> QED
    BY <1>1, <1>2, <1>3, <1>4, <1>5

\* The rows hold every unit of their family, the DMA rows in ascending order.
LEMMA RowMembers ==
    /\ \A x \in LiteIrqs : \E i \in 1 .. 7 : LiteOrder[i] = x
    /\ \A x \in TimIrqs : \E i \in 1 .. 6 : TimOrder[i] = x
    /\ \A x \in DmaIrqs : \E i \in 1 .. 18 : DmaOrder[i] = x
    /\ \A i, j \in 1 .. 7 : i < j => LiteOrder[i] < LiteOrder[j]
    /\ \A i, j \in 1 .. 6 : i < j => TimOrder[i] < TimOrder[j]
    /\ \A i, j \in 1 .. 18 : i < j => DmaOrder[i] < DmaOrder[j]
<1>1. ASSUME NEW x \in LiteIrqs PROVE \E i \in 1 .. 7 : LiteOrder[i] = x
    BY DEF LiteOrder, LiteIrqs
<1>2. ASSUME NEW x \in TimIrqs PROVE \E i \in 1 .. 6 : TimOrder[i] = x
    BY DEF TimOrder, TimIrqs
<1>3. ASSUME NEW x \in DmaIrqs PROVE \E i \in 1 .. 18 : DmaOrder[i] = x
  <2>1. CASE x \in 27 .. 33
    <3>1. x - 26 \in 1 .. 18 /\ DmaOrder[x - 26] = x
        BY <2>1 DEF DmaOrder
    <3> QED
        BY <3>1
  <2>2. CASE x \in 72 .. 76
    <3>1. x - 64 \in 1 .. 18 /\ DmaOrder[x - 64] = x
        BY <2>2 DEF DmaOrder
    <3> QED
        BY <3>1
  <2>3. CASE x \in 98 .. 103
    <3>1. x - 85 \in 1 .. 18 /\ DmaOrder[x - 85] = x
        BY <2>3 DEF DmaOrder
    <3> QED
        BY <3>1
  <2> QED
      BY <2>1, <2>2, <2>3 DEF DmaIrqs, Dma1Irqs, Dma2Irqs, DmaExIrqs
<1>4. ASSUME NEW i \in 1 .. 7, NEW j \in 1 .. 7, i < j PROVE LiteOrder[i] < LiteOrder[j]
    BY <1>4 DEF LiteOrder
<1>5. ASSUME NEW i \in 1 .. 6, NEW j \in 1 .. 6, i < j PROVE TimOrder[i] < TimOrder[j]
    BY <1>5 DEF TimOrder
<1>6. ASSUME NEW i \in 1 .. 18, NEW j \in 1 .. 18, i < j PROVE DmaOrder[i] < DmaOrder[j]
    BY <1>6 DEF DmaOrder
<1> QED
    BY <1>1, <1>2, <1>3, <1>4, <1>5, <1>6

-----------------------------------------------------------------------------
(***************************************************************************)
(* The functions of the rows as iterations.                                *)
(***************************************************************************)

\* What a handler may assume of the registers it reads.
RegistersOK(q) ==
    /\ q.req \subseteq Irqs \cap TableIrqs /\ q.req \subseteq q.ienr
    /\ q.usb \subseteq UsbIrqs /\ q.req \cap UsbIrqs \subseteq q.usb

\* A unit's turn in the loop of its row's function.
Step(q, walk, e, x) == IF x \in Idle THEN e ELSE Turn(q, walk, e, x)

\* The small updates of the handlers keep a routing state one.
LEMMA BuildingBlocks ==
    ASSUME NEW e \in Routings, NEW x \in Nat
    PROVE  /\ RaiseMeip(e) \in Routings /\ LowerMeip(e) \in Routings
           /\ EnableMeip(e) \in Routings /\ DisableMeip(e) \in Routings
           /\ Own(e, x) \in Routings /\ Disown(e, x) \in Routings
           /\ Latch(e, x) \in Routings /\ Unlatch(e, x) \in Routings
           /\ [e EXCEPT !.slot = x] \in Routings
           /\ [e EXCEPT !.ipr = @ \cup {x}] \in Routings
           /\ [e EXCEPT !.ipr = @ \ {x}] \in Routings
    BY DEF Routings, RaiseMeip, LowerMeip, EnableMeip, DisableMeip, Own, Disown, Latch,
       Unlatch, Bits

\* A turn leaves a routing state behind.
LEMMA TurnIsTyped ==
    ASSUME NEW q, NEW walk \in [Routings -> Routings], NEW e \in Routings, NEW x \in Nat
    PROVE  Turn(q, walk, e, x) \in Routings /\ Step(q, walk, e, x) \in Routings
<1>1. SoftMieSync(q, e) \in Routings /\ StkScheduleRow(q, e) \in Routings
    BY DEF SoftMieSync, StkScheduleRow, Routings, Bits
<1>2. UsartOne(q, walk, e, x) \in Routings
    BY BuildingBlocks DEF UsartOne
<1>3. LatchOne(q, walk, e, x) \in Routings
    BY BuildingBlocks DEF LatchOne
<1>4. Eth10m(q, walk, e) \in Routings
  <2> DEFINE n == Eth10mIrq
             d == Disown(DisableMeip(LowerMeip(e)), n)
             w == IF n \in e.latched THEN Unlatch(d, n) ELSE e
  <2>1. n \in Nat
      BY DEF Eth10mIrq
  <2>2. d \in Routings
      BY <2>1, BuildingBlocks
  <2>3. w \in Routings
      BY <2>1, <2>2, BuildingBlocks
  <2>4. walk[d] \in Routings
      BY <2>2
  <2>5. Unlatch(walk[d], n) \in Routings /\ Unlatch(e, n) \in Routings
      BY <2>1, <2>4, BuildingBlocks
  <2>6. RaiseMeip(Own(Latch(EnableMeip(w), n), n)) \in Routings
    <3> HIDE DEF w, n
    <3> QED
        BY <2>1, <2>3, BuildingBlocks
  <2> HIDE DEF d, w
  <2> QED
      BY <2>5, <2>6 DEF Eth10m, d, w
<1>5. UsbOne(q, walk, e, x) \in Routings
    BY BuildingBlocks DEF UsbOne
<1>6. FireIrq(q, e, x, x \in q.req) \in Routings
    BY BuildingBlocks DEF FireIrq
<1> QED
    BY <1>1, <1>2, <1>3, <1>4, <1>5, <1>6 DEF Turn, Step

\* What each turn does may be followed from the state before the row: after[i]
\* is what the first i turns leave behind.
RowRuns(q, walk, e, xs, after) ==
    /\ after \in [0 .. Len(xs) -> Routings]
    /\ after[0] = e
    /\ \A i \in 1 .. Len(xs) : after[i] = Step(q, walk, after[i - 1], xs[i])
    /\ Row(q, walk, e, xs) = after[Len(xs)]

LEMMA RowIterates ==
    ASSUME NEW q, NEW walk \in [Routings -> Routings], NEW e \in Routings,
           NEW xs \in Seq(Nat)
    PROVE  \E after : RowRuns(q, walk, e, xs, after)
<1> DEFINE n == Len(xs)
           D == Routings
           Eq(f) == f = [i \in 0 .. n |->
                           CASE i = 0 -> e
                             [] i > 0 /\ xs[i] \in Idle -> f[i - 1]
                             [] OTHER -> Turn(q, walk, f[i - 1], xs[i])]
           after == CHOOSE f : Eq(f)
<1>1. n \in Nat /\ \A i \in 1 .. n : xs[i] \in Nat
    OBVIOUS
<1>2. \A i \in 1 .. n, r \in D : Step(q, walk, r, xs[i]) \in D
    BY <1>1, TurnIsTyped
<1>3. ASSUME NEW f, f = [i \in 0 .. n |-> f[i]], f[0] = e,
             \A i \in 1 .. n : f[i] = Step(q, walk, f[i - 1], xs[i])
      PROVE  Eq(f)
  <2>1. ASSUME NEW i \in 0 .. n
        PROVE  f[i] = CASE i = 0 -> e
                        [] i > 0 /\ xs[i] \in Idle -> f[i - 1]
                        [] OTHER -> Turn(q, walk, f[i - 1], xs[i])
    <3>1. CASE i = 0
        BY <1>3, <3>1
    <3>2. CASE i # 0
      <4>1. i \in 1 .. n /\ i > 0
          BY <3>2
      <4>2. f[i] = Step(q, walk, f[i - 1], xs[i])
          BY <1>3, <4>1
      <4> HIDE DEF n
      <4> QED
          BY <3>2, <4>1, <4>2 DEF Step
    <3> QED
        BY <3>1, <3>2
  <2> HIDE DEF n
  <2> QED
      BY <1>3, <2>1
<1>4. \E f : Eq(f)
  <2> DEFINE F == [i \in 1 .. n |-> [r \in D |-> Step(q, walk, r, xs[i])]]
  <2>1. F \in [1 .. n -> [D -> D]]
    <3> HIDE DEF D, n
    <3> QED
        BY <1>2
  <2>2. PICK f : f \in Iterations(n, D, e, F)
    <3>1. e \in D
        OBVIOUS
    <3> HIDE DEF F, D, n
    <3>2. Iterations(n, D, e, F) # {}
        BY <2>1, <1>1, <3>1, IterateExists
    <3> QED
        BY <3>2
  <2>3. f \in [0 .. n -> D] /\ f[0] = e /\ \A i \in 1 .. n : f[i] = F[i][f[i - 1]]
    <3> HIDE DEF F, D, n
    <3> QED
        BY <2>2 DEF Iterations
  <2>4. ASSUME NEW i \in 1 .. n PROVE f[i] = Step(q, walk, f[i - 1], xs[i])
    <3>1. f[i - 1] \in D
      <4>1. i - 1 \in 0 .. n
          BY <1>1
      <4> HIDE DEF D
      <4> QED
          BY <4>1, <2>3
    <3>2. F[i][f[i - 1]] = Step(q, walk, f[i - 1], xs[i])
      <4> HIDE DEF D, n
      <4> QED
          BY <3>1
    <3> QED
        BY <2>3, <3>2
  <2>5. f = [i \in 0 .. n |-> f[i]]
    <3> HIDE DEF n, D, F
    <3> QED
        BY <2>3
  <2> HIDE DEF Eq, n, D, F
  <2> QED
      BY <1>3, <2>3, <2>4, <2>5
<1>5. Eq(after)
  <2> HIDE DEF Eq
  <2> QED
      BY <1>4
<1>6. after[0] = e
  <2>1. 0 \in 0 .. n
      BY <1>1
  <2> HIDE DEF n, after
  <2> QED
      BY <1>5, <2>1
<1>7. ASSUME NEW i \in 1 .. n PROVE after[i] = Step(q, walk, after[i - 1], xs[i])
  <2>1. i \in 0 .. n /\ i # 0 /\ i > 0
      BY <1>1
  <2> HIDE DEF n, after
  <2>2. after[i] = CASE i = 0 -> e
                     [] i > 0 /\ xs[i] \in Idle -> after[i - 1]
                     [] OTHER -> Turn(q, walk, after[i - 1], xs[i])
      BY <1>5, <2>1
  <2> QED
      BY <2>1, <2>2 DEF Step
<1>8. after \in [0 .. n -> D]
  <2>1. after = [i \in 0 .. n |-> after[i]]
    <3> HIDE DEF n, after
    <3> QED
        BY <1>5
  <2> DEFINE T == {i \in 0 .. n : after[i] \in D}
  <2>2. 0 \in T
    <3>1. 0 \in 0 .. n
        BY <1>1
    <3> HIDE DEF n, after
    <3> QED
        BY <1>6, <3>1
  <2>3. ASSUME NEW i \in 0 .. n - 1, i \in T PROVE i + 1 \in T
    <3>1. i + 1 \in 1 .. n /\ i + 1 \in 0 .. n /\ (i + 1) - 1 = i
        BY <1>1
    <3> HIDE DEF n, after, D
    <3>2. after[i + 1] = Step(q, walk, after[i], xs[i + 1])
        BY <1>7, <3>1
    <3> QED
        BY <2>3, <3>1, <3>2, <1>2
  <2> HIDE DEF T
  <2>4. 0 .. n \subseteq T
    <3> HIDE DEF n
    <3> QED
        BY <1>1, <2>2, <2>3, IntervalInduct
  <2> HIDE DEF n, after, D
  <2> QED
      BY <2>1, <2>4 DEF T
<1>9. Row(q, walk, e, xs) = after[n]
    BY DEF Row
<1> HIDE DEF n, after, D, Eq
<1> QED
    BY <1>6, <1>7, <1>8, <1>9 DEF n, D, RowRuns

\* What holds before a row and is carried over each turn holds after the row:
\* A[i] is the set of states that the first i turns may leave behind.
LEMMA RowFollows ==
    ASSUME NEW q, NEW walk \in [Routings -> Routings], NEW e \in Routings,
           NEW xs \in Seq(Nat), NEW A, e \in A[0],
           \A i \in 1 .. Len(xs), r \in Routings :
               r \in A[i - 1] => Step(q, walk, r, xs[i]) \in A[i]
    PROVE  Row(q, walk, e, xs) \in Routings /\ Row(q, walk, e, xs) \in A[Len(xs)]
<1> DEFINE n == Len(xs)
<1>1. n \in Nat
    OBVIOUS
<1>0. PICK after : RowRuns(q, walk, e, xs, after)
    BY RowIterates
<1>2. /\ after \in [0 .. n -> Routings]
      /\ after[0] = e
      /\ \A i \in 1 .. n : after[i] = Step(q, walk, after[i - 1], xs[i])
      /\ Row(q, walk, e, xs) = after[n]
    BY <1>0 DEF RowRuns
<1> DEFINE T == {i \in 0 .. n : after[i] \in A[i]}
<1>3. 0 \in T
    BY <1>1, <1>2
<1>4. ASSUME NEW i \in 0 .. n - 1, i \in T PROVE i + 1 \in T
  <2>1. i + 1 \in 1 .. n /\ i + 1 \in 0 .. n /\ (i + 1) - 1 = i /\ i \in 0 .. n
      BY <1>1
  <2>2. after[i] \in Routings /\ after[i] \in A[i]
      BY <1>2, <1>4, <2>1
  <2> HIDE DEF n
  <2>3. after[i + 1] = Step(q, walk, after[i], xs[i + 1])
      BY <1>2, <2>1
  <2>4. Step(q, walk, after[i], xs[i + 1]) \in A[i + 1]
      BY <2>1, <2>2 DEF n
  <2> QED
      BY <2>1, <2>3, <2>4
<1> HIDE DEF T
<1>5. 0 .. n \subseteq T
  <2> HIDE DEF n
  <2> QED
      BY <1>1, <1>3, <1>4, IntervalInduct
<1>6. n \in 0 .. n
    BY <1>1
<1> HIDE DEF n
<1>7. after[n] \in Routings /\ after[n] \in A[n]
    BY <1>2, <1>5, <1>6 DEF T
<1> QED
    BY <1>2, <1>7 DEF n

\* A row leads from routing state to routing state.
LEMMA RowIsTyped ==
    ASSUME NEW q, NEW walk \in [Routings -> Routings], NEW e \in Routings,
           NEW xs \in Seq(Nat)
    PROVE  Row(q, walk, e, xs) \in Routings
<1> DEFINE A == [i \in 0 .. Len(xs) |-> Routings]
<1>1. \A i \in 0 .. Len(xs) : A[i] = Routings
    OBVIOUS
<1>2. 0 \in 0 .. Len(xs)
    OBVIOUS
<1>3. \A i \in 1 .. Len(xs), r \in Routings :
          r \in A[i - 1] => Step(q, walk, r, xs[i]) \in A[i]
  <2> SUFFICES ASSUME NEW i \in 1 .. Len(xs), NEW r \in Routings
               PROVE  Step(q, walk, r, xs[i]) \in A[i]
      OBVIOUS
  <2>1. xs[i] \in Nat /\ i \in 0 .. Len(xs)
      OBVIOUS
  <2> HIDE DEF A
  <2> QED
      BY <1>1, <2>1, TurnIsTyped
<1>4. e \in A[0]
    BY <1>1, <1>2
<1> HIDE DEF A
<1> QED
    BY <1>3, <1>4, RowFollows

\* A row with one unit is that unit's turn.
LEMMA SingleRow ==
    ASSUME NEW q, NEW walk \in [Routings -> Routings], NEW e \in Routings, NEW x \in Nat
    PROVE  Row(q, walk, e, << x >>) = Step(q, walk, e, x)
<1> DEFINE xs == << x >>
<1>1. xs \in Seq(Nat) /\ Len(xs) = 1 /\ xs[1] = x
    OBVIOUS
<1> HIDE DEF xs
<1>2. PICK after : RowRuns(q, walk, e, xs, after)
    BY <1>1, RowIterates
<1>3. after[0] = e /\ Row(q, walk, e, xs) = after[1]
      /\ after[1] = Step(q, walk, after[0], xs[1])
    BY <1>1, <1>2 DEF RowRuns
<1>4. Row(q, walk, e, xs) = Step(q, walk, e, x)
    BY <1>1, <1>3
<1> QED
    BY <1>4 DEF xs

\* The table has fifteen rows of numbers.
LEMMA RowsAreTyped ==
    /\ LiteOrder \in Seq(Nat) /\ TimOrder \in Seq(Nat) /\ DmaOrder \in Seq(Nat)
    /\ Len(Table) = 15
    /\ \A i \in 1 .. 15 : Table[i] \in Seq(Nat)
<1>1. LiteOrder \in Seq(Nat) /\ TimOrder \in Seq(Nat) /\ DmaOrder \in Seq(Nat)
    BY DEF LiteOrder, TimOrder, DmaOrder
<1>2. \A x \in Nat : << x >> \in Seq(Nat)
    OBVIOUS
<1>3. Len(Table) = 15
    BY DEF Table
<1>4. \A x \in {SoftwareIrq, SysTickIrq, Usart1Irq, Eth10mIrq, EthIrq, UsbHsIrq, UsbFsIrq} : x \in Nat
    BY DEF SoftwareIrq, SysTickIrq, Usart1Irq, Eth10mIrq, EthIrq, UsbHsIrq, UsbFsIrq
<1>5. ASSUME NEW i \in 1 .. 15 PROVE Table[i] \in Seq(Nat)
  <2>1. Table[i] \in {LiteOrder, TimOrder, DmaOrder}
            \cup {<< x >> : x \in {SoftwareIrq, SysTickIrq, Usart1Irq, Eth10mIrq, EthIrq,
                                   UsbHsIrq, UsbFsIrq}}
    <3> HIDE DEF LiteOrder
    <3> QED
        BY DEF Table
  <2> QED
      BY <1>1, <1>2, <1>4, <2>1
<1> QED
    BY <1>1, <1>3, <1>5

\* The walk is its rows in turn.
LEMMA WalkIterates ==
    ASSUME NEW q, NEW walk \in [Routings -> Routings], NEW e \in Routings
    PROVE  \E after \in [0 .. 15 -> Routings] :
               /\ after[0] = e
               /\ \A i \in 1 .. 15 : after[i] = Row(q, walk, after[i - 1], Table[i])
               /\ WalkTable(q, walk, e) = after[15]
<1> DEFINE D == Routings
           Eq(f) == f = [i \in 0 .. Len(Table) |->
                           IF i = 0 THEN e ELSE Row(q, walk, f[i - 1], Table[i])]
           after == CHOOSE f : Eq(f)
<1>1. Len(Table) = 15
    BY RowsAreTyped
<1>2. \A i \in 1 .. 15, r \in D : Row(q, walk, r, Table[i]) \in D
    BY RowsAreTyped, RowIsTyped
<1>3. \E f : Eq(f) /\ f \in [0 .. 15 -> D]
  <2> DEFINE F == [i \in 1 .. 15 |-> [r \in D |-> Row(q, walk, r, Table[i])]]
  <2>1. F \in [1 .. 15 -> [D -> D]]
    <3> HIDE DEF D
    <3> QED
        BY <1>2
  <2>2. PICK f : f \in Iterations(15, D, e, F)
    <3>1. e \in D
        OBVIOUS
    <3> HIDE DEF F, D
    <3>2. Iterations(15, D, e, F) # {}
        BY <2>1, <3>1, IterateExists
    <3> QED
        BY <3>2
  <2>3. f \in [0 .. 15 -> D] /\ f[0] = e /\ \A i \in 1 .. 15 : f[i] = F[i][f[i - 1]]
    <3> HIDE DEF F, D
    <3> QED
        BY <2>2 DEF Iterations
  <2>4. ASSUME NEW i \in 1 .. 15 PROVE f[i] = Row(q, walk, f[i - 1], Table[i])
    <3>1. f[i - 1] \in D
      <4>1. i - 1 \in 0 .. 15
          OBVIOUS
      <4> HIDE DEF D
      <4> QED
          BY <4>1, <2>3
    <3>2. F[i][f[i - 1]] = Row(q, walk, f[i - 1], Table[i])
      <4> HIDE DEF D
      <4> QED
          BY <3>1
    <3> QED
        BY <2>3, <3>2
  <2>5. f = [i \in 0 .. 15 |-> IF i = 0 THEN e ELSE Row(q, walk, f[i - 1], Table[i])]
    <3>1. ASSUME NEW i \in 0 .. 15
          PROVE  f[i] = IF i = 0 THEN e ELSE Row(q, walk, f[i - 1], Table[i])
        BY <2>3, <2>4
    <3> HIDE DEF D, F
    <3> QED
        BY <2>3, <3>1
  <2> QED
      BY <1>1, <2>3, <2>5
<1>4. Eq(after)
  <2> HIDE DEF Eq
  <2> QED
      BY <1>3
<1>5. after = [i \in 0 .. 15 |-> IF i = 0 THEN e ELSE Row(q, walk, after[i - 1], Table[i])]
  <2> HIDE DEF after
  <2> QED
      BY <1>1, <1>4
<1>6. after[0] = e /\ \A i \in 1 .. 15 : after[i] = Row(q, walk, after[i - 1], Table[i])
  <2> HIDE DEF after
  <2>1. \A i \in 0 .. 15 : after[i] = IF i = 0 THEN e ELSE Row(q, walk, after[i - 1], Table[i])
      BY <1>5
  <2>2. 0 \in 0 .. 15 /\ \A i \in 1 .. 15 : i \in 0 .. 15 /\ i # 0
      OBVIOUS
  <2> QED
      BY <2>1, <2>2
<1>7. after \in [0 .. 15 -> D]
  <2> DEFINE T == {i \in 0 .. 15 : after[i] \in D}
  <2> HIDE DEF after, D
  <2>1. 0 \in T
      BY <1>6 DEF D
  <2>2. ASSUME NEW i \in 0 .. 14, i \in T PROVE i + 1 \in T
    <3>1. i + 1 \in 1 .. 15 /\ i + 1 \in 0 .. 15 /\ (i + 1) - 1 = i
        OBVIOUS
    <3>2. after[i + 1] = Row(q, walk, after[i], Table[i + 1])
        BY <1>6, <3>1
    <3> QED
        BY <2>2, <3>1, <3>2, <1>2
  <2> HIDE DEF T
  <2>3. 0 .. 15 \subseteq T
    <3>1. \A i \in 0 .. 15 - 1 : i \in T => i + 1 \in T
        BY <2>2
    <3> QED
        BY <2>1, <3>1, IntervalInduct
  <2> QED
      BY <1>5, <2>3 DEF T
<1>8. WalkTable(q, walk, e) = after[15]
    BY <1>1 DEF WalkTable
<1> HIDE DEF after, D
<1> QED
    BY <1>6, <1>7, <1>8 DEF D

-----------------------------------------------------------------------------
(***************************************************************************)
(* A walk that starts with a free slot.  c is the state after its first    *)
(* two rows, S the units that have had a turn.                             *)
(***************************************************************************)

\* A walk starts with a free slot.
StartsFree(c) ==
    /\ c \in Routings
    /\ c.slot = 0 /\ "MEIP" \notin c.mip
    /\ c.latched \subseteq Irqs \cap LatchIrqs

\* The units of S that may take the slot.
Wanting(q, c, S) == (q.req \ c.latched) \cap S

\* The slot belongs to the first of them; the rest follows from the owner.
Passed(q, c, e, S) ==
    /\ e \in Routings
    /\ e.slot \in Wanting(q, c, S) \cup {0}
    /\ e.slot = 0 => Wanting(q, c, S) = {}
    /\ \A y \in Wanting(q, c, S) : Rank[e.slot] <= Rank[y]
    /\ e.mip = c.mip \cup (IF e.slot # 0 THEN {"MEIP"} ELSE {})
    /\ e.mie \ {"MEIP"} = c.mie \ {"MEIP"}
    /\ e.iactr = c.iactr \cup ({e.slot} \ (DmaIrqs \cup {0}))
    /\ e.latched = (c.latched \ (S \ q.req)) \cup ({e.slot} \cap LatchIrqs)

\* What the turn of x does to the rest of the state.
Touched(q, e, r, x) ==
    /\ e.slot # 0 => r.slot = e.slot
    /\ x \in UsbIrqs => ("MEIP" \in r.mie <=> x \in q.usb)
    /\ x \in DmaIrqs => ("MEIP" \in r.mie <=> "MEIP" \in e.mie \/ r.slot # e.slot)
    /\ r.ipr = e.ipr \cup (IF x \in DmaIrqs \cap q.req /\ e.slot # 0 THEN {x} ELSE {})

\* A unit whose turn leaves everything as it is may have had it.
LEMMA PassesBy ==
    ASSUME NEW q, RegistersOK(q), NEW c, StartsFree(c),
           NEW S \in SUBSET TableIrqs, NEW x \in TableIrqs, NEW e, Passed(q, c, e, S),
           x \notin q.req \/ x \in c.latched \/ x \in S \/ (e.slot # 0 /\ Rank[e.slot] <= Rank[x]),
           x \in c.latched => x \in q.req \/ x \in S
    PROVE  Passed(q, c, e, S \cup {x})
<1>1. Wanting(q, c, S \cup {x}) = Wanting(q, c, S)
          \/ (e.slot # 0 /\ Rank[e.slot] <= Rank[x]
              /\ Wanting(q, c, S \cup {x}) = Wanting(q, c, S) \cup {x})
    BY DEF Wanting
<1>2. c.latched \ ((S \cup {x}) \ q.req) = c.latched \ (S \ q.req)
    OBVIOUS
<1> QED
    BY <1>1, <1>2 DEF Passed

\* A unit that takes the free slot.
LEMMA PassesClaiming ==
    ASSUME NEW q, RegistersOK(q), NEW c, StartsFree(c),
           NEW S \in SUBSET TableIrqs, NEW x \in TableIrqs, NEW e, Passed(q, c, e, S),
           e.slot = 0, x \in q.req \ c.latched,
           NEW r \in Routings, r.slot = x, r.mip = e.mip \cup {"MEIP"},
           r.mie \ {"MEIP"} = e.mie \ {"MEIP"},
           r.iactr = e.iactr \cup ({x} \ DmaIrqs),
           r.latched = e.latched \cup ({x} \cap LatchIrqs)
    PROVE  Passed(q, c, r, S \cup {x})
<1>1. Wanting(q, c, S) = {}
    BY DEF Passed
<1>2. Wanting(q, c, S \cup {x}) = {x}
    BY <1>1 DEF Wanting
<1>3. x # 0 /\ 0 \notin LatchIrqs /\ Rank[x] \in Nat
    BY IrqFacts, RankIsNat
<1>4. r.mip = c.mip \cup {"MEIP"} /\ r.mie \ {"MEIP"} = c.mie \ {"MEIP"}
    BY DEF Passed
<1>5. r.iactr = c.iactr \cup ({x} \ (DmaIrqs \cup {0}))
    BY <1>3 DEF Passed
<1>6. r.latched = (c.latched \ ((S \cup {x}) \ q.req)) \cup ({x} \cap LatchIrqs)
    BY <1>3 DEF Passed
<1>7. \A y \in {x} : Rank[x] <= Rank[y]
    BY <1>3
<1> QED
    BY <1>2, <1>3, <1>4, <1>5, <1>6, <1>7 DEF Passed

\* What Passed says of the owner and of the latches, device by device.
LEMMA SlotFacts ==
    ASSUME NEW q, RegistersOK(q), NEW c, StartsFree(c), NEW S, NEW e, Passed(q, c, e, S),
           NEW x \in TableIrqs
    PROVE  /\ x # 0 /\ x \in Nat /\ e \in Routings
           /\ e.slot = x => x \in q.req /\ x \in S /\ x \notin c.latched
           /\ e.slot # 0 => e.slot \in q.req /\ e.slot \in S /\ e.slot \in TableIrqs
           /\ x \notin LatchIrqs => x \notin c.latched /\ x \notin e.latched
           /\ x \in e.latched <=> (x \in c.latched /\ (x \in q.req \/ x \notin S)) \/ (e.slot = x /\ x \in LatchIrqs)
    BY IrqFacts, TableMembers DEF RegistersOK, StartsFree, Passed, Wanting

\* The state after a device has taken, or taken again, the slot.
LEMMA ClaimFields ==
    ASSUME NEW e \in Routings, NEW x \in Nat,
           NEW r, r = RaiseMeip(Own(EnableMeip(e), x))
    PROVE  /\ r \in Routings
           /\ r = [slot |-> x, mip |-> e.mip \cup {"MEIP"}, mie |-> e.mie \cup {"MEIP"},
                   iactr |-> e.iactr \cup {x}, ipr |-> e.ipr, latched |-> e.latched]
<1> DEFINE a == EnableMeip(e)
           b == Own(a, x)
<1>1. a \in Routings /\ b \in Routings /\ r \in Routings
  <2>1. a \in Routings
      BY BuildingBlocks
  <2>2. b \in Routings
    <3> HIDE DEF a
    <3> QED
        BY <2>1, BuildingBlocks
  <2> HIDE DEF b
  <2> QED
      BY <2>1, <2>2, BuildingBlocks DEF b
<1>2. /\ a.slot = e.slot /\ a.mip = e.mip /\ a.mie = e.mie \cup {"MEIP"}
      /\ a.iactr = e.iactr /\ a.ipr = e.ipr /\ a.latched = e.latched
    BY DEF EnableMeip, Routings
<1> HIDE DEF a
<1>3. /\ b.slot = x /\ b.mip = a.mip /\ b.mie = a.mie
      /\ b.iactr = a.iactr \cup {x} /\ b.ipr = a.ipr /\ b.latched = a.latched
    BY <1>1 DEF Own, Routings
<1>4. r = RaiseMeip(b)
    BY DEF a
<1> HIDE DEF b
<1>5. /\ r.slot = b.slot /\ r.mip = b.mip \cup {"MEIP"} /\ r.mie = b.mie
      /\ r.iactr = b.iactr /\ r.ipr = b.ipr /\ r.latched = b.latched
    BY <1>1, <1>4 DEF RaiseMeip, Routings
<1> QED
    BY <1>1, <1>2, <1>3, <1>5 DEF Routings

\* The turn of a USART keeps Passed: ch32_usart1_meip_resync and its copy.
LEMMA UsartPasses ==
    ASSUME NEW q, RegistersOK(q), NEW walk, NEW c, StartsFree(c),
           NEW S \in SUBSET TableIrqs, NEW x \in UsartIrqs, NEW e, Passed(q, c, e, S),
           x \in S \/ \A y \in S : Rank[y] < Rank[x]
    PROVE  LET r == UsartOne(q, walk, e, x)
           IN  Passed(q, c, r, S \cup {x}) /\ Touched(q, e, r, x)
<1> DEFINE r == UsartOne(q, walk, e, x)
<1>1. x \in TableIrqs /\ x \notin LatchIrqs /\ x \notin UsbIrqs /\ x \notin DmaIrqs
    BY IrqFacts
<1>2. /\ x # 0 /\ x \in Nat /\ e \in Routings
      /\ e.slot = x => x \in q.req /\ x \in S
      /\ e.slot # 0 => e.slot \in q.req /\ e.slot \in S /\ e.slot \in TableIrqs
      /\ x \notin c.latched /\ x \notin e.latched
    BY <1>1, SlotFacts
<1>3. CASE x \notin q.req \/ Taken(e, x)
  <2>1. r = e
      BY <1>2, <1>3 DEF UsartOne, Taken
  <2>2. x \notin q.req \/ x \in S \/ (e.slot # 0 /\ Rank[e.slot] <= Rank[x])
    <3>1. CASE e.slot # 0
      <4>1. Rank[e.slot] \in Nat /\ Rank[x] \in Nat
          BY <1>1, <1>2, <3>1, RankIsNat
      <4>2. x \in S \/ Rank[e.slot] < Rank[x]
          BY <1>2, <3>1
      <4> QED
          BY <3>1, <4>1, <4>2
    <3> QED
        BY <1>3, <3>1 DEF Taken
  <2>3. Passed(q, c, e, S \cup {x})
    <3>1. /\ x \in TableIrqs
          /\ x \notin q.req \/ x \in c.latched \/ x \in S \/ (e.slot # 0 /\ Rank[e.slot] <= Rank[x])
          /\ x \in c.latched => x \in q.req \/ x \in S
        BY <1>1, <1>2, <2>2
    <3> QED
        BY <3>1, PassesBy
  <2> QED
      BY <1>1, <2>1, <2>3 DEF Touched
<1>4. CASE x \in q.req /\ ~Taken(e, x)
  <2>1. r = RaiseMeip(Own(EnableMeip(e), x))
      BY <1>4 DEF UsartOne
  <2>2. /\ r \in Routings /\ r.slot = x /\ r.mip = e.mip \cup {"MEIP"}
        /\ r.mie = e.mie \cup {"MEIP"} /\ r.iactr = e.iactr \cup {x}
        /\ r.ipr = e.ipr /\ r.latched = e.latched
      BY <1>2, <2>1, ClaimFields
  <2>3. CASE e.slot = 0
    <3>1. Passed(q, c, r, S \cup {x})
        BY <1>1, <1>2, <1>4, <2>2, <2>3, PassesClaiming
    <3> QED
        BY <1>1, <2>2, <2>3, <3>1 DEF Touched
  <2>4. CASE e.slot = x
    <3>1. Passed(q, c, e, S \cup {x})
        BY <1>1, <1>2, <2>4, PassesBy
    <3>2. r.mip = e.mip /\ r.iactr = e.iactr
        BY <1>1, <1>2, <2>2, <2>4 DEF Passed
    <3>3. Passed(q, c, r, S \cup {x})
        BY <2>2, <2>4, <3>1, <3>2 DEF Passed
    <3> QED
        BY <1>1, <2>2, <2>4, <3>3 DEF Touched
  <2> QED
      BY <1>4, <2>3, <2>4 DEF Taken
<1> HIDE DEF r
<1> QED
    BY <1>3, <1>4 DEF r

\* A turn that leaves the state alone.
LEMMA PassesUnchanged ==
    ASSUME NEW q, RegistersOK(q), NEW c, StartsFree(c),
           NEW S \in SUBSET TableIrqs, NEW x \in TableIrqs, NEW e, Passed(q, c, e, S),
           x \in S \/ \A y \in S : Rank[y] < Rank[x],
           x \notin q.req \/ x \in c.latched \/ Taken(e, x),
           x \in c.latched => x \in q.req \/ x \in S
    PROVE  Passed(q, c, e, S \cup {x})
<1>1. e.slot # 0 => e.slot \in S /\ e.slot \in TableIrqs
    BY SlotFacts
<1>2. CASE e.slot # 0
  <2>1. Rank[e.slot] \in Nat /\ Rank[x] \in Nat
      BY <1>1, <1>2, RankIsNat
  <2>2. x \in S \/ Rank[e.slot] < Rank[x]
      BY <1>1, <1>2
  <2>3. x \in S \/ (e.slot # 0 /\ Rank[e.slot] <= Rank[x])
      BY <1>2, <2>1, <2>2
  <2> QED
      BY <2>3, PassesBy
<1>3. CASE e.slot = 0
  <2>1. x \notin q.req \/ x \in c.latched
      BY <1>3 DEF Taken
  <2> QED
      BY <2>1, PassesBy
<1> QED
    BY <1>2, <1>3

\* So does that of a timer or the MAC: their irq_active forgets with the request.
LEMMA LatchPasses ==
    ASSUME NEW q, RegistersOK(q), NEW walk, NEW c, StartsFree(c),
           NEW S \in SUBSET TableIrqs, NEW x \in TimIrqs \cup {EthIrq}, NEW e, Passed(q, c, e, S),
           x \in S \/ \A y \in S : Rank[y] < Rank[x]
    PROVE  LET r == LatchOne(q, walk, e, x)
           IN  Passed(q, c, r, S \cup {x}) /\ Touched(q, e, r, x)
<1> DEFINE r == LatchOne(q, walk, e, x)
<1> SUFFICES Passed(q, c, r, S \cup {x}) /\ Touched(q, e, r, x)
    OBVIOUS
<1>1. x \in TableIrqs /\ x \in LatchIrqs /\ x \notin UsbIrqs /\ x \notin DmaIrqs
    BY IrqFacts DEF LatchIrqs
<1>2. /\ x # 0 /\ x \in Nat /\ e \in Routings
      /\ e.slot = x => x \in q.req /\ x \in S /\ x \notin c.latched
      /\ e.slot # 0 => e.slot \in q.req /\ e.slot \in S /\ e.slot \in TableIrqs
      /\ x \in e.latched <=> (x \in c.latched /\ (x \in q.req \/ x \notin S)) \/ e.slot = x
    BY <1>1, SlotFacts
<1>3. CASE x \notin q.req
  <2>1. r = Unlatch(e, x)
      BY <1>2, <1>3 DEF LatchOne
  <2>2. /\ r \in Routings /\ r.slot = e.slot /\ r.mip = e.mip /\ r.mie = e.mie
        /\ r.iactr = e.iactr /\ r.ipr = e.ipr /\ r.latched = e.latched \ {x}
      BY <1>2, <2>1, BuildingBlocks DEF Unlatch, Routings
  <2>3. Wanting(q, c, S \cup {x}) = Wanting(q, c, S)
      BY <1>3 DEF Wanting
  <2>4. r.latched = (c.latched \ ((S \cup {x}) \ q.req)) \cup ({e.slot} \cap LatchIrqs)
      BY <1>2, <1>3, <2>2 DEF Passed
  <2>5. Passed(q, c, r, S \cup {x})
      BY <2>2, <2>3, <2>4 DEF Passed
  <2> HIDE DEF r
  <2> QED
      BY <1>1, <2>2, <2>5 DEF Touched
<1>4. CASE x \in q.req /\ (x \in e.latched \/ Taken(e, x))
  <2>1. r = e
      BY <1>4 DEF LatchOne
  <2>2. Passed(q, c, e, S \cup {x})
    <3>1. CASE e.slot = x
        BY <1>1, <1>2, <1>4, <3>1, PassesBy
    <3>2. CASE e.slot # x
        BY <1>1, <1>2, <1>4, <3>2, PassesUnchanged
    <3> QED
        BY <3>1, <3>2
  <2> HIDE DEF r
  <2> QED
      BY <1>1, <2>1, <2>2 DEF Touched
<1>5. CASE x \in q.req /\ ~(x \in e.latched \/ Taken(e, x))
  <2>1. e.slot = 0 /\ x \notin c.latched
      BY <1>2, <1>5 DEF Taken
  <2>2. r = RaiseMeip(Own(Latch(EnableMeip(e), x), x))
      BY <1>5 DEF LatchOne
  <2>3. RaiseMeip(Own(Latch(EnableMeip(e), x), x)) = Latch(RaiseMeip(Own(EnableMeip(e), x)), x)
      BY <1>2 DEF RaiseMeip, Own, Latch, EnableMeip, Routings
  <2> DEFINE d == RaiseMeip(Own(EnableMeip(e), x))
  <2>4. /\ d \in Routings
        /\ d = [slot |-> x, mip |-> e.mip \cup {"MEIP"}, mie |-> e.mie \cup {"MEIP"},
                iactr |-> e.iactr \cup {x}, ipr |-> e.ipr, latched |-> e.latched]
      BY <1>2, ClaimFields
  <2>5. r = Latch(d, x)
      BY <2>2, <2>3
  <2> HIDE DEF d
  <2>6. /\ r \in Routings /\ r.slot = x /\ r.mip = e.mip \cup {"MEIP"}
        /\ r.mie = e.mie \cup {"MEIP"} /\ r.iactr = e.iactr \cup {x} /\ r.ipr = e.ipr
        /\ r.latched = e.latched \cup {x}
      BY <1>2, <2>4, <2>5, BuildingBlocks DEF Latch, Routings
  <2> HIDE DEF r
  <2>7. Passed(q, c, r, S \cup {x})
      BY <1>1, <1>5, <2>1, <2>6, PassesClaiming
  <2> QED
      BY <1>1, <2>1, <2>6, <2>7 DEF Touched
<1> HIDE DEF r
<1> QED
    BY <1>3, <1>4, <1>5

\* So does that of the 10M controller.
LEMMA Eth10mPasses ==
    ASSUME NEW q, RegistersOK(q), NEW walk, NEW c, StartsFree(c),
           NEW S \in SUBSET TableIrqs, NEW e, Passed(q, c, e, S),
           \A y \in S : Rank[y] < Rank[Eth10mIrq]
    PROVE  LET r == Eth10m(q, walk, e)
           IN  Passed(q, c, r, S \cup {Eth10mIrq}) /\ Touched(q, e, r, Eth10mIrq)
<1> DEFINE n == Eth10mIrq
           r == Eth10m(q, walk, e)
<1> SUFFICES Passed(q, c, r, S \cup {n}) /\ Touched(q, e, r, n)
    OBVIOUS
<1>1. n \in TableIrqs /\ n \in LatchIrqs /\ n \notin UsbIrqs /\ n \notin DmaIrqs
    BY IrqFacts DEF LatchIrqs
<1>2. n \notin S
    BY <1>1, RankIsNat
<1> HIDE DEF n
<1>3. /\ n # 0 /\ n \in Nat /\ e \in Routings /\ e.slot # n
      /\ e.slot # 0 => e.slot \in q.req /\ e.slot \in S /\ e.slot \in TableIrqs
      /\ n \in e.latched <=> n \in c.latched
    BY <1>1, <1>2, SlotFacts
<1>4. CASE n \notin q.req
  <2>1. r = Unlatch(e, n)
      BY <1>3, <1>4 DEF Eth10m, n
  <2> HIDE DEF r
  <2>2. /\ r \in Routings /\ r.slot = e.slot /\ r.mip = e.mip /\ r.mie = e.mie
        /\ r.iactr = e.iactr /\ r.ipr = e.ipr /\ r.latched = e.latched \ {n}
      BY <1>3, <2>1, BuildingBlocks DEF Unlatch, Routings
  <2>3. Wanting(q, c, S \cup {n}) = Wanting(q, c, S)
      BY <1>4 DEF Wanting
  <2>4. r.latched = (c.latched \ ((S \cup {n}) \ q.req)) \cup ({e.slot} \cap LatchIrqs)
      BY <1>3, <1>4, <2>2 DEF Passed
  <2>5. Passed(q, c, r, S \cup {n})
      BY <2>2, <2>3, <2>4 DEF Passed
  <2> QED
      BY <1>1, <2>2, <2>5 DEF Touched
<1>5. CASE n \in q.req /\ (n \in e.latched \/ Taken(e, n))
  <2>1. r = e
      BY <1>3, <1>5 DEF Eth10m, n
  <2> HIDE DEF r
  <2>2. Passed(q, c, e, S \cup {n})
      BY <1>1, <1>3, <1>5, PassesUnchanged DEF n
  <2> QED
      BY <1>1, <2>1, <2>2 DEF Touched
<1>6. CASE n \in q.req /\ ~(n \in e.latched \/ Taken(e, n))
  <2>1. e.slot = 0 /\ n \notin c.latched
      BY <1>3, <1>6 DEF Taken
  <2>2. r = RaiseMeip(Own(Latch(EnableMeip(e), n), n))
      BY <1>3, <1>6 DEF Eth10m, n
  <2> HIDE DEF r
  <2>3. RaiseMeip(Own(Latch(EnableMeip(e), n), n)) = Latch(RaiseMeip(Own(EnableMeip(e), n)), n)
      BY <1>3 DEF RaiseMeip, Own, Latch, EnableMeip, Routings
  <2> DEFINE d == RaiseMeip(Own(EnableMeip(e), n))
  <2>4. /\ d \in Routings
        /\ d = [slot |-> n, mip |-> e.mip \cup {"MEIP"}, mie |-> e.mie \cup {"MEIP"},
                iactr |-> e.iactr \cup {n}, ipr |-> e.ipr, latched |-> e.latched]
      BY <1>3, ClaimFields
  <2>5. r = Latch(d, n)
      BY <2>2, <2>3
  <2> HIDE DEF d
  <2>6. /\ r \in Routings /\ r.slot = n /\ r.mip = e.mip \cup {"MEIP"}
        /\ r.mie = e.mie \cup {"MEIP"} /\ r.iactr = e.iactr \cup {n} /\ r.ipr = e.ipr
        /\ r.latched = e.latched \cup {n}
      BY <1>3, <2>4, <2>5, BuildingBlocks DEF Latch, Routings
  <2>7. Passed(q, c, r, S \cup {n})
      BY <1>1, <1>6, <2>1, <2>6, PassesClaiming
  <2> QED
      BY <1>1, <2>1, <2>6, <2>7 DEF Touched
<1> HIDE DEF r
<1> QED
    BY <1>4, <1>5, <1>6

\* So does that of a USB host, which decides mie.MEIP on its own.
LEMMA UsbPasses ==
    ASSUME NEW q, RegistersOK(q), NEW walk, NEW c, StartsFree(c),
           NEW S \in SUBSET TableIrqs, NEW x \in UsbIrqs, NEW e, Passed(q, c, e, S),
           \A y \in S : Rank[y] < Rank[x]
    PROVE  LET r == UsbOne(q, walk, e, x)
           IN  Passed(q, c, r, S \cup {x}) /\ Touched(q, e, r, x)
<1> DEFINE r == UsbOne(q, walk, e, x)
           on == EnableMeip(e)
<1> SUFFICES Passed(q, c, r, S \cup {x}) /\ Touched(q, e, r, x)
    OBVIOUS
<1>1. x \in TableIrqs /\ x \notin LatchIrqs /\ x \notin DmaIrqs
    BY IrqFacts
<1>2. x \notin S
    BY <1>1, RankIsNat
<1>3. /\ x # 0 /\ x \in Nat /\ e \in Routings /\ e.slot # x
      /\ e.slot # 0 => e.slot \in q.req /\ e.slot \in S /\ e.slot \in TableIrqs
      /\ x \notin c.latched /\ x \notin e.latched
    BY <1>1, <1>2, SlotFacts
<1>4. /\ on \in Routings /\ on.slot = e.slot /\ on.mip = e.mip /\ on.mie = e.mie \cup {"MEIP"}
      /\ on.iactr = e.iactr /\ on.ipr = e.ipr /\ on.latched = e.latched
    BY <1>3, BuildingBlocks DEF EnableMeip, Routings
<1>5. CASE x \notin q.req \/ Taken(e, x)
  <2>1. r = IF x \notin q.usb THEN DisableMeip(e) ELSE on
      BY <1>3, <1>5 DEF UsbOne, RegistersOK
  <2>2. /\ DisableMeip(e) \in Routings /\ DisableMeip(e).mie = e.mie \ {"MEIP"}
        /\ DisableMeip(e).slot = e.slot /\ DisableMeip(e).mip = e.mip
        /\ DisableMeip(e).iactr = e.iactr /\ DisableMeip(e).ipr = e.ipr
        /\ DisableMeip(e).latched = e.latched
      BY <1>3, BuildingBlocks DEF DisableMeip, Routings
  <2> HIDE DEF r, on
  <2>3. /\ r \in Routings /\ r.slot = e.slot /\ r.mip = e.mip /\ r.iactr = e.iactr
        /\ r.ipr = e.ipr /\ r.latched = e.latched /\ r.mie \ {"MEIP"} = e.mie \ {"MEIP"}
        /\ "MEIP" \in r.mie <=> x \in q.usb
      BY <1>4, <2>1, <2>2
  <2>4. Passed(q, c, e, S \cup {x})
      BY <1>1, <1>3, <1>5, PassesUnchanged
  <2>5. Passed(q, c, r, S \cup {x})
      BY <2>3, <2>4 DEF Passed
  <2> QED
      BY <1>1, <2>3, <2>5 DEF Touched
<1>6. CASE x \in q.req /\ ~Taken(e, x)
  <2>1. x \in q.usb /\ e.slot = 0
      BY <1>3, <1>6 DEF RegistersOK, Taken
  <2>2. r = RaiseMeip(Own(on, x))
      BY <1>6, <2>1 DEF UsbOne
  <2>3. /\ r \in Routings /\ r.slot = x /\ r.mip = e.mip \cup {"MEIP"}
        /\ r.mie = e.mie \cup {"MEIP"} /\ r.iactr = e.iactr \cup {x} /\ r.ipr = e.ipr
        /\ r.latched = e.latched
      BY <1>3, <2>2, ClaimFields
  <2> HIDE DEF r, on
  <2>4. Passed(q, c, r, S \cup {x})
      BY <1>1, <1>3, <1>6, <2>1, <2>3, PassesClaiming
  <2> QED
      BY <1>1, <2>1, <2>3, <2>4 DEF Touched
<1> HIDE DEF r
<1> QED
    BY <1>5, <1>6

\* So does that of a DMA channel, which leaves a pending bit if it lost.
LEMMA FirePasses ==
    ASSUME NEW q, RegistersOK(q), NEW c, StartsFree(c),
           NEW S \in SUBSET TableIrqs, NEW x \in DmaIrqs, NEW e, Passed(q, c, e, S),
           x \in S \/ \A y \in S : Rank[y] < Rank[x]
    PROVE  LET r == FireIrq(q, e, x, x \in q.req)
           IN  Passed(q, c, r, S \cup {x}) /\ Touched(q, e, r, x)
<1> DEFINE r == FireIrq(q, e, x, x \in q.req)
<1> SUFFICES Passed(q, c, r, S \cup {x}) /\ Touched(q, e, r, x)
    OBVIOUS
<1>1. x \in TableIrqs /\ x \notin LatchIrqs /\ x \notin UsbIrqs
    BY IrqFacts
<1>2. /\ x # 0 /\ x \in Nat /\ e \in Routings
      /\ e.slot = x => x \in q.req /\ x \in S
      /\ e.slot # 0 => e.slot \in q.req /\ e.slot \in S /\ e.slot \in TableIrqs
      /\ x \notin c.latched /\ x \notin e.latched /\ (x \in q.req => x \in q.ienr)
    BY <1>1, SlotFacts DEF RegistersOK
<1>3. CASE x \notin q.req
  <2>1. r = e
      BY <1>3 DEF FireIrq
  <2> HIDE DEF r
  <2>2. Passed(q, c, e, S \cup {x})
      BY <1>1, <1>2, <1>3, PassesUnchanged
  <2> QED
      BY <1>1, <1>3, <2>1, <2>2 DEF Touched
<1>4. CASE x \in q.req /\ e.slot # 0
  <2>1. r = [e EXCEPT !.ipr = @ \cup {x}]
      BY <1>2, <1>4 DEF FireIrq
  <2> HIDE DEF r
  <2>2. /\ r \in Routings /\ r.slot = e.slot /\ r.mip = e.mip /\ r.mie = e.mie
        /\ r.iactr = e.iactr /\ r.ipr = e.ipr \cup {x} /\ r.latched = e.latched
      BY <1>2, <2>1, BuildingBlocks DEF Routings
  <2>3. Passed(q, c, e, S \cup {x})
    <3>1. CASE e.slot = x
        BY <1>1, <1>2, <3>1, PassesBy
    <3>2. CASE e.slot # x
        BY <1>1, <1>2, <1>4, <3>2, PassesUnchanged DEF Taken
    <3> QED
        BY <3>1, <3>2
  <2>4. Passed(q, c, r, S \cup {x})
      BY <2>2, <2>3 DEF Passed
  <2> QED
      BY <1>1, <1>4, <2>2, <2>4 DEF Touched
<1>5. CASE x \in q.req /\ e.slot = 0
  <2> DEFINE on == EnableMeip(e)
             d == [on EXCEPT !.slot = x]
  <2>1. r = RaiseMeip(d)
      BY <1>2, <1>5 DEF FireIrq
  <2>2. d \in Routings
    <3>1. on \in Routings
        BY <1>2, BuildingBlocks
    <3> HIDE DEF on
    <3> QED
        BY <1>2, <3>1, BuildingBlocks
  <2>3. /\ r \in Routings /\ r.slot = x /\ r.mip = e.mip \cup {"MEIP"}
        /\ r.mie = e.mie \cup {"MEIP"} /\ r.iactr = e.iactr /\ r.ipr = e.ipr
        /\ r.latched = e.latched
    <3>1. /\ d.slot = x /\ d.mip = e.mip /\ d.mie = e.mie \cup {"MEIP"}
          /\ d.iactr = e.iactr /\ d.ipr = e.ipr /\ d.latched = e.latched
        BY <1>2 DEF EnableMeip, Routings
    <3> HIDE DEF d, r
    <3> QED
        BY <2>1, <2>2, <3>1, BuildingBlocks DEF RaiseMeip, Routings
  <2> HIDE DEF r, d, on
  <2>4. Passed(q, c, r, S \cup {x})
    <3>1. r.iactr = e.iactr \cup ({x} \ DmaIrqs) /\ r.latched = e.latched \cup ({x} \cap LatchIrqs)
        BY <1>1, <2>3
    <3> QED
        BY <1>1, <1>2, <1>5, <2>3, <3>1, PassesClaiming
  <2> QED
      BY <1>1, <1>2, <1>5, <2>3, <2>4 DEF Touched
<1> HIDE DEF r
<1> QED
    BY <1>3, <1>4, <1>5

\* A device's turn in a walk that started with a free slot.
LEMMA StepPasses ==
    ASSUME NEW q, RegistersOK(q), NEW walk, NEW c, StartsFree(c),
           NEW S \in SUBSET TableIrqs, NEW x \in TableIrqs, NEW e, Passed(q, c, e, S),
           x \in S \/ \A y \in S : Rank[y] < Rank[x],
           x \in {Eth10mIrq} \cup UsbIrqs => \A y \in S : Rank[y] < Rank[x],
           NEW r, r = Step(q, walk, e, x)
    PROVE  Passed(q, c, r, S \cup {x}) /\ Touched(q, e, r, x)
<1>1. CASE x \in Idle
  <2>1. r = e
      BY <1>1 DEF Step
  <2>2. x \notin q.req /\ x \notin c.latched /\ x \notin UsbIrqs
      BY <1>1 DEF Idle, RegistersOK, StartsFree
  <2>3. Passed(q, c, e, S \cup {x})
      BY <2>2, PassesBy
  <2> QED
      BY <2>1, <2>2, <2>3 DEF Touched
<1>2. CASE x \notin Idle
  <2>1. r = Turn(q, walk, e, x)
      BY <1>2 DEF Step
  <2>2. x # SoftwareIrq /\ x # SysTickIrq
      BY TableMembers DEF SoftwareIrq, SysTickIrq
  <2>3. CASE x \in UsartIrqs
    <3>1. r = UsartOne(q, walk, e, x)
        BY <2>1, <2>2, <2>3, IrqFacts DEF Turn, LatchIrqs
    <3>2. LET w == UsartOne(q, walk, e, x)
          IN  Passed(q, c, w, S \cup {x}) /\ Touched(q, e, w, x)
        BY <2>3, UsartPasses
    <3> QED
        BY <3>1, <3>2
  <2>4. CASE x \in TimIrqs \cup {EthIrq}
    <3>1. r = LatchOne(q, walk, e, x)
        BY <2>1, <2>2, <2>4, IrqFacts
        DEF Turn, LatchIrqs, TimIrqs, EthIrq, Eth10mIrq
    <3>2. LET w == LatchOne(q, walk, e, x)
          IN  Passed(q, c, w, S \cup {x}) /\ Touched(q, e, w, x)
        BY <2>4, LatchPasses
    <3> QED
        BY <3>1, <3>2
  <2>5. CASE x = Eth10mIrq
    <3>1. r = Eth10m(q, walk, e)
        BY <2>1, <2>2, <2>5, IrqFacts DEF Turn, LatchIrqs, TimIrqs, EthIrq, Eth10mIrq
    <3>2. \A y \in S : Rank[y] < Rank[Eth10mIrq]
        BY <2>5
    <3>3. LET w == Eth10m(q, walk, e)
          IN  Passed(q, c, w, S \cup {Eth10mIrq}) /\ Touched(q, e, w, Eth10mIrq)
        BY <3>2, Eth10mPasses
    <3> QED
        BY <2>5, <3>1, <3>3
  <2>6. CASE x \in UsbIrqs
    <3>1. r = UsbOne(q, walk, e, x)
        BY <2>1, <2>2, <2>6, IrqFacts DEF Turn, LatchIrqs
    <3>2. LET w == UsbOne(q, walk, e, x)
          IN  Passed(q, c, w, S \cup {x}) /\ Touched(q, e, w, x)
        BY <2>6, UsbPasses
    <3> QED
        BY <3>1, <3>2
  <2>7. CASE x \in DmaIrqs
    <3>1. r = FireIrq(q, e, x, x \in q.req)
        BY <2>1, <2>2, <2>7, IrqFacts DEF Turn, LatchIrqs
    <3>2. LET w == FireIrq(q, e, x, x \in q.req)
          IN  Passed(q, c, w, S \cup {x}) /\ Touched(q, e, w, x)
        BY <2>7, FirePasses
    <3> QED
        BY <3>1, <3>2
  <2> QED
      BY <2>3, <2>4, <2>5, <2>6, <2>7 DEF TableIrqs, LatchIrqs
<1> QED
    BY <1>1, <1>2

\* The units of a row.
Units(xs) == {xs[i] : i \in 1 .. Len(xs)}

\* The units of a row have had no turn yet, nor has any that precedes them.
Fresh(xs, S) ==
    \A i \in 1 .. Len(xs) :
        \A y \in S \cup {xs[j] : j \in 1 .. i - 1} : Rank[y] < Rank[xs[i]]

\* All of them have.
Stale(xs, S) == \A i \in 1 .. Len(xs) : xs[i] \in S \ ({Eth10mIrq} \cup UsbIrqs)

\* What a row of the units all leaves behind.
AfterRow(q, c, e, r, S, all) ==
    /\ Passed(q, c, r, S \cup all)
    /\ e.slot # 0 => r.slot = e.slot
    /\ r.ipr = e.ipr \cup ((q.req \cap DmaIrqs \cap all)
                              \ (IF e.slot = 0 THEN {r.slot} ELSE {}))
    /\ all \subseteq DmaIrqs =>
           ("MEIP" \in r.mie <=> "MEIP" \in e.mie \/ r.slot # e.slot)

\* Turn by turn, a whole row keeps it.
LEMMA RowPasses ==
    ASSUME NEW q, RegistersOK(q), NEW walk \in [Routings -> Routings], NEW c, StartsFree(c),
           NEW S \in SUBSET TableIrqs, NEW e, Passed(q, c, e, S),
           NEW xs \in Seq(TableIrqs), Fresh(xs, S) \/ Stale(xs, S),
           NEW all, all = Units(xs),
           NEW r, r = Row(q, walk, e, xs)
    PROVE  AfterRow(q, c, e, r, S, all)
<1> DEFINE n == Len(xs)
           had(i) == {xs[j] : j \in 1 .. i}
           Good(w, i) == /\ Passed(q, c, w, S \cup had(i))
                         /\ e.slot # 0 => w.slot = e.slot
                         /\ w.ipr = e.ipr \cup ((q.req \cap DmaIrqs \cap had(i))
                                                   \ (IF e.slot = 0 THEN {w.slot} ELSE {}))
                         /\ had(n) \subseteq DmaIrqs =>
                                ("MEIP" \in w.mie <=> "MEIP" \in e.mie \/ w.slot # e.slot)
           A == [i \in 0 .. n |-> {w \in Routings : Good(w, i)}]
<1>1. n \in Nat /\ \A i \in 1 .. n : xs[i] \in TableIrqs
    OBVIOUS
<1>2. xs \in Seq(Nat)
  <2>1. TableIrqs \subseteq Nat
      BY TableIsNat
  <2>2. \A i \in 1 .. n : xs[i] \in Nat
      BY <1>1, <2>1
  <2> QED
      BY <2>2
<1>3. e \in Routings
    BY DEF Passed
<1>4. Good(e, 0)
  <2>1. had(0) = {}
      OBVIOUS
  <2> HIDE DEF had
  <2> QED
      BY <2>1
<1>5. ASSUME NEW i \in 1 .. n, NEW v \in Routings, Good(v, i - 1),
             NEW w, w = Step(q, walk, v, xs[i])
      PROVE  Good(w, i)
  <2> DEFINE x == xs[i]
             B == S \cup had(i - 1)
  <2>1. x \in TableIrqs /\ i - 1 \in 0 .. n /\ i \in 0 .. n
      BY <1>1
  <2>2. had(i) = had(i - 1) \cup {x} /\ S \cup had(i) = B \cup {x}
    <3>1. \A j \in 1 .. i : j \in 1 .. i - 1 \/ j = i
        BY <2>1
    <3>2. \A j \in 1 .. i - 1 : j \in 1 .. i
        BY <2>1
    <3> QED
        BY <3>1, <3>2
  <2>3. B \in SUBSET TableIrqs
    <3>1. \A j \in 1 .. i - 1 : xs[j] \in TableIrqs
        BY <1>1
    <3> QED
        BY <3>1
  <2>4. x \in B \/ \A y \in B : Rank[y] < Rank[x]
      BY DEF Fresh, Stale
  <2>5. x \in {Eth10mIrq} \cup UsbIrqs => \A y \in B : Rank[y] < Rank[x]
      BY DEF Fresh, Stale
  <2>6. e.slot = 0 /\ v.slot # 0 => x # v.slot
    <3>1. SUFFICES ASSUME e.slot = 0, v.slot # 0, x = v.slot PROVE FALSE
        OBVIOUS
    <3>2. v.slot \in Wanting(q, c, B)
        BY <1>5, <3>1 DEF Passed
    <3>3. CASE Fresh(xs, S)
      <4>1. Rank[x] < Rank[x]
          BY <3>1, <3>2, <3>3 DEF Fresh, Wanting
      <4>2. Rank[x] \in Nat
          BY <2>1, RankIsNat
      <4> QED
          BY <4>1, <4>2
    <3>4. CASE Stale(xs, S)
      <4>1. had(i - 1) \subseteq S
        <5>1. \A j \in 1 .. i - 1 : j \in 1 .. n
            BY <1>1
        <5> QED
            BY <3>4, <5>1 DEF Stale
      <4>2. v.slot \in Wanting(q, c, S)
          BY <3>2, <4>1 DEF Wanting
      <4> QED
          BY <3>1, <4>2 DEF Passed
    <3> QED
        BY <3>3, <3>4
  <2> HIDE DEF x, B
  <2>7. Passed(q, c, v, B)
      BY <1>5 DEF B
  <2>8. w = Step(q, walk, v, x)
      BY <1>5 DEF x
  <2>9. Passed(q, c, w, B \cup {x}) /\ Touched(q, v, w, x)
      BY <2>1, <2>3, <2>4, <2>5, <2>7, <2>8, StepPasses
  <2>10. x \in DmaIrqs => x \notin c.latched
      BY IrqFacts DEF StartsFree
  <2>11. v.slot = 0 => q.req \cap DmaIrqs \cap had(i - 1) = {}
    <3>1. DmaIrqs \cap c.latched = {}
        BY IrqFacts DEF StartsFree
    <3> QED
        BY <2>7, <3>1 DEF Passed, Wanting, B
  <2>12. v.slot = 0 => (w.slot = 0 /\ (x \in DmaIrqs => x \notin q.req)) \/ w.slot = x
      BY <2>7, <2>9, <2>10 DEF Passed, Wanting
  <2> HIDE DEF had
  <2>13. w.ipr = e.ipr \cup ((q.req \cap DmaIrqs \cap had(i))
                               \ (IF e.slot = 0 THEN {w.slot} ELSE {}))
    <3>1. v.ipr = e.ipr \cup ((q.req \cap DmaIrqs \cap had(i - 1))
                               \ (IF e.slot = 0 THEN {v.slot} ELSE {}))
        BY <1>5
    <3>2. w.ipr = v.ipr \cup (IF x \in DmaIrqs \cap q.req /\ v.slot # 0 THEN {x} ELSE {})
        BY <2>9 DEF Touched
    <3>3. v.slot # 0 => w.slot = v.slot
        BY <2>9 DEF Touched
    <3>4. e.slot # 0 => v.slot # 0
        BY <1>5
    <3>5. CASE v.slot # 0
        BY <2>2, <2>6, <3>1, <3>2, <3>3, <3>5
    <3>6. CASE v.slot = 0
        BY <2>2, <2>11, <2>12, <3>1, <3>2, <3>4, <3>6
    <3> QED
        BY <3>5, <3>6
  <2>14. had(n) \subseteq DmaIrqs => ("MEIP" \in w.mie <=> "MEIP" \in e.mie \/ w.slot # e.slot)
    <3> SUFFICES ASSUME had(n) \subseteq DmaIrqs
                 PROVE  "MEIP" \in w.mie <=> "MEIP" \in e.mie \/ w.slot # e.slot
        OBVIOUS
    <3>1. x \in DmaIrqs
        BY DEF had, x
    <3>2. "MEIP" \in w.mie <=> "MEIP" \in v.mie \/ w.slot # v.slot
        BY <2>9, <3>1 DEF Touched
    <3>3. "MEIP" \in v.mie <=> "MEIP" \in e.mie \/ v.slot # e.slot
        BY <1>5
    <3>4. v.slot # 0 => w.slot = v.slot
        BY <2>9 DEF Touched
    <3>5. v.slot # e.slot => e.slot = 0 /\ v.slot # 0
        BY <1>5
    <3> QED
        BY <3>2, <3>3, <3>4, <3>5
  <2>15. e.slot # 0 => w.slot = e.slot
      BY <1>5, <2>9 DEF Touched
  <2> QED
      BY <2>2, <2>9, <2>13, <2>14, <2>15
<1>6. r \in A[n]
  <2>1. 0 \in 0 .. n /\ \A i \in 1 .. n : i \in 0 .. n /\ i - 1 \in 0 .. n
      BY <1>1
  <2>2. \A i \in 0 .. n, w \in Routings : w \in A[i] <=> Good(w, i)
    <3> HIDE DEF Good, n
    <3> QED
        OBVIOUS
  <2>3. e \in A[0]
    <3> HIDE DEF Good, n, A
    <3> QED
        BY <1>3, <1>4, <2>1, <2>2
  <2>4. ASSUME NEW i \in 1 .. n, NEW v \in Routings, v \in A[i - 1]
        PROVE  Step(q, walk, v, xs[i]) \in A[i]
    <3>1. Good(v, i - 1) /\ i \in 0 .. n
      <4> HIDE DEF Good, n, A
      <4> QED
          BY <2>1, <2>2, <2>4
    <3>2. Good(Step(q, walk, v, xs[i]), i)
      <4> HIDE DEF Good, n, A
      <4> QED
          BY <3>1, <1>5
    <3>3. xs[i] \in Nat
        BY <1>2
    <3>4. Step(q, walk, v, xs[i]) \in Routings
        BY <3>3, TurnIsTyped
    <3> HIDE DEF Good, n, A
    <3> QED
        BY <2>2, <3>1, <3>2, <3>4
  <2> HIDE DEF Good, A
  <2> QED
      BY <1>2, <1>3, <2>3, <2>4, RowFollows
<1>7. Good(r, n)
  <2>1. n \in 0 .. n
      BY <1>1
  <2> HIDE DEF Good, n
  <2> QED
      BY <1>6, <2>1
<1>8. had(n) = all
    BY DEF Units
<1> HIDE DEF had, n
<1> QED
    BY <1>7, <1>8 DEF AfterRow

\* What a walk over the whole table makes of the state c.
Rescanned(q, c, r) ==
    LET hw == q.req \ c.latched
        w == IF hw = {} THEN 0 ELSE FirstInTable(hw)
    IN  /\ r \in Routings
        /\ r.slot = w
        /\ r.mip = (IF w # 0 THEN {"MEIP"} ELSE {})
                     \cup (c.mip \cap (IF q.stk # "off" THEN {"MTIP"} ELSE {}))
                     \cup (c.mip \cap (IF SoftwareIrq \in q.ienr THEN {"MSIP"} ELSE {}))
        /\ r.mie = (IF w \in DmaIrqs \/ UsbFsIrq \in q.usb THEN {"MEIP"} ELSE {})
                     \cup (c.mie \cap {"MTIP"})
                     \cup (IF SoftwareIrq \in q.ienr THEN {"MSIP"} ELSE {})
        /\ r.iactr = c.iactr \cup ({w} \ (DmaIrqs \cup {0}))
        /\ r.ipr = c.ipr \cup (q.req \cap DmaIrqs)
        /\ r.latched = (c.latched \cap q.req) \cup ({w} \cap LatchIrqs)

\* A row of ascending ranks above those of S is fresh.
LEMMA FreshRow ==
    ASSUME NEW xs \in Seq(TableIrqs), NEW S \in SUBSET TableIrqs, NEW base \in Nat,
           \A y \in S : Rank[y] <= base,
           \A i \in 1 .. Len(xs) : Rank[xs[i]] = base + i
    PROVE  Fresh(xs, S)
<1> SUFFICES ASSUME NEW i \in 1 .. Len(xs),
                    NEW y \in S \cup {xs[j] : j \in 1 .. i - 1}
             PROVE  Rank[y] < Rank[xs[i]]
    BY DEF Fresh
<1>1. Rank[xs[i]] = base + i
    OBVIOUS
<1>2. CASE y \in S
  <2>1. Rank[y] \in Nat /\ Rank[y] <= base
      BY <1>2, RankIsNat
  <2> QED
      BY <1>1, <2>1
<1>3. CASE y \notin S
  <2>1. PICK j \in 1 .. i - 1 : y = xs[j]
      BY <1>3
  <2>2. Rank[y] = base + j
      BY <2>1
  <2> QED
      BY <1>1, <2>1, <2>2
<1> QED
    BY <1>2, <1>3

\* A sequence is one over any set that holds its elements.
LEMMA SeqOf ==
    ASSUME NEW R, NEW S, NEW xs \in Seq(R), \A i \in 1 .. Len(xs) : xs[i] \in S
    PROVE  xs \in Seq(S)
    OBVIOUS

\* The rows by their units.
LEMMA RowUnits ==
    /\ LiteOrder \in Seq(TableIrqs) /\ Units(LiteOrder) = LiteIrqs
    /\ TimOrder \in Seq(TableIrqs) /\ Units(TimOrder) = TimIrqs
    /\ DmaOrder \in Seq(TableIrqs) /\ Units(DmaOrder) = DmaIrqs
    /\ \A y \in LiteIrqs : Rank[y] \in 2 .. 8
    /\ \A y \in TimIrqs : Rank[y] \in 9 .. 14
    /\ LiteIrqs \subseteq TableIrqs /\ TimIrqs \subseteq TableIrqs /\ DmaIrqs \subseteq TableIrqs
<1>1. LiteIrqs \subseteq TableIrqs /\ TimIrqs \subseteq TableIrqs /\ DmaIrqs \subseteq TableIrqs
    BY DEF TableIrqs, UsartIrqs, LatchIrqs
<1>2. Len(LiteOrder) = 7 /\ Len(TimOrder) = 6 /\ Len(DmaOrder) = 18
    BY RowPlaces
<1>3. {LiteOrder[i] : i \in 1 .. 7} = LiteIrqs
    BY RowPlaces, RowMembers
<1>4. {TimOrder[i] : i \in 1 .. 6} = TimIrqs
    BY RowPlaces, RowMembers
<1>5. {DmaOrder[i] : i \in 1 .. 18} = DmaIrqs
    BY RowPlaces, RowMembers
<1>6. LiteOrder \in Seq(TableIrqs)
  <2>1. \A i \in 1 .. Len(LiteOrder) : LiteOrder[i] \in TableIrqs
      BY <1>1, <1>2, RowPlaces
  <2> QED
      BY <2>1, RowsAreTyped, SeqOf
<1>7. TimOrder \in Seq(TableIrqs)
  <2>1. \A i \in 1 .. Len(TimOrder) : TimOrder[i] \in TableIrqs
      BY <1>1, <1>2, RowPlaces
  <2> QED
      BY <2>1, RowsAreTyped, SeqOf
<1>8. DmaOrder \in Seq(TableIrqs)
  <2>1. \A i \in 1 .. Len(DmaOrder) : DmaOrder[i] \in TableIrqs
      BY <1>1, <1>2, RowPlaces
  <2> QED
      BY <2>1, RowsAreTyped, SeqOf
<1>9. ASSUME NEW y \in LiteIrqs PROVE Rank[y] \in 2 .. 8
  <2>1. PICK i \in 1 .. 7 : LiteOrder[i] = y
      BY RowMembers
  <2>2. Rank[y] = 1 + i
      BY <2>1, RowPlaces
  <2> QED
      BY <2>2
<1>10. ASSUME NEW y \in TimIrqs PROVE Rank[y] \in 9 .. 14
  <2>1. PICK i \in 1 .. 6 : TimOrder[i] = y
      BY RowMembers
  <2>2. Rank[y] = 8 + i
      BY <2>1, RowPlaces
  <2> QED
      BY <2>2
<1>11. Units(LiteOrder) = LiteIrqs /\ Units(TimOrder) = TimIrqs /\ Units(DmaOrder) = DmaIrqs
    BY <1>2, <1>3, <1>4, <1>5 DEF Units
<1> QED
    BY <1>1, <1>6, <1>7, <1>8, <1>9, <1>10, <1>11

\* The rows of the table by number.
LEMMA TableRows ==
    /\ Table[1] = << SoftwareIrq >> /\ Table[2] = << SysTickIrq >>
    /\ Table[3] = << Usart1Irq >> /\ Table[4] = LiteOrder /\ Table[5] = TimOrder
    /\ Table[6] = << Eth10mIrq >> /\ Table[7] = LiteOrder /\ Table[8] = << EthIrq >>
    /\ Table[9] = TimOrder /\ Table[10] = << UsbHsIrq >> /\ Table[11] = << UsbFsIrq >>
    /\ Table[12] = DmaOrder /\ Table[13] = DmaOrder /\ Table[14] = DmaOrder
    /\ Table[15] = DmaOrder
    BY DEF Table

\* What rows of other devices, and the DMA rows, leave behind.
DeviceRow(q, c, e, r, S, all) ==
    /\ Passed(q, c, r, S \cup all) /\ r.ipr = e.ipr
    /\ all = {UsbFsIrq} => ("MEIP" \in r.mie <=> UsbFsIrq \in q.usb)

\* What the row of the DMA channels leaves behind.
DmaRow(q, c, e, r, S) ==
    /\ Passed(q, c, r, S \cup DmaIrqs)
    /\ e.slot # 0 => r.slot = e.slot
    /\ r.ipr = e.ipr \cup ((q.req \cap DmaIrqs) \ (IF e.slot = 0 THEN {r.slot} ELSE {}))
    /\ "MEIP" \in r.mie <=> "MEIP" \in e.mie \/ r.slot # e.slot

\* A row of one device that has had no turn.
LEMMA SinglePasses ==
    ASSUME NEW q, RegistersOK(q), NEW walk \in [Routings -> Routings], NEW c, StartsFree(c),
           NEW S \in SUBSET TableIrqs, NEW e, Passed(q, c, e, S),
           NEW x \in TableIrqs \ DmaIrqs, \A y \in S : Rank[y] < Rank[x],
           NEW r, r = Row(q, walk, e, << x >>)
    PROVE  DeviceRow(q, c, e, r, S, {x})
<1>1. x \in Nat /\ e \in Routings
    BY TableIsNat DEF Passed
<1>2. r = Step(q, walk, e, x)
    BY <1>1, SingleRow
<1>3. Passed(q, c, r, S \cup {x}) /\ Touched(q, e, r, x)
    BY <1>2, StepPasses
<1> QED
    BY <1>3 DEF Touched, DeviceRow, UsbIrqs

\* A row of a family that is not of DMA.
LEMMA FamilyPasses ==
    ASSUME NEW q, RegistersOK(q), NEW walk \in [Routings -> Routings], NEW c, StartsFree(c),
           NEW S \in SUBSET TableIrqs, NEW e, Passed(q, c, e, S),
           NEW xs \in Seq(TableIrqs), Fresh(xs, S) \/ Stale(xs, S),
           NEW F, F = Units(xs), F \cap DmaIrqs = {}, UsbFsIrq \notin F,
           NEW r, r = Row(q, walk, e, xs)
    PROVE  DeviceRow(q, c, e, r, S, F)
<1>1. AfterRow(q, c, e, r, S, F)
    BY RowPasses
<1>2. F # {UsbFsIrq}
    OBVIOUS
<1> QED
    BY <1>1, <1>2 DEF AfterRow, DeviceRow

\* The DMA row.
LEMMA DmaRowPasses ==
    ASSUME NEW q, RegistersOK(q), NEW walk \in [Routings -> Routings], NEW c, StartsFree(c),
           NEW S \in SUBSET TableIrqs, NEW e, Passed(q, c, e, S),
           Fresh(DmaOrder, S) \/ DmaIrqs \subseteq S,
           NEW r, r = Row(q, walk, e, DmaOrder)
    PROVE  DmaRow(q, c, e, r, S)
<1>1. Units(DmaOrder) = DmaIrqs /\ DmaOrder \in Seq(TableIrqs)
    BY RowUnits
<1>2. DmaIrqs \subseteq S => Stale(DmaOrder, S)
  <2>1. \A i \in 1 .. Len(DmaOrder) : DmaOrder[i] \in DmaIrqs
      BY <1>1 DEF Units
  <2>2. DmaIrqs \cap ({Eth10mIrq} \cup UsbIrqs) = {}
      BY IrqFacts DEF LatchIrqs
  <2> QED
      BY <2>1, <2>2 DEF Stale
<1>3. AfterRow(q, c, e, r, S, DmaIrqs)
    BY <1>1, <1>2, RowPasses
<1> QED
    BY <1>3 DEF AfterRow, DmaRow

\* The first two rows belong to the core.
LEMMA CoreTurns ==
    ASSUME NEW q, NEW walk, NEW e
    PROVE  /\ Step(q, walk, e, SoftwareIrq) = SoftMieSync(q, e)
           /\ Step(q, walk, e, SysTickIrq) = StkScheduleRow(q, e)
<1>1. SoftwareIrq \notin TableIrqs /\ SysTickIrq \notin TableIrqs /\ SoftwareIrq # SysTickIrq
    BY TableMembers DEF SoftwareIrq, SysTickIrq
<1> QED
    BY <1>1, IrqFacts DEF Step, Idle, Turn, TableIrqs, LatchIrqs

\* A walk over the whole table.
LEMMA WalkCloses ==
    ASSUME NEW q, RegistersOK(q), NEW walk \in [Routings -> Routings], NEW c, StartsFree(c),
           NEW r, r = WalkTable(q, walk, c)
    PROVE  Rescanned(q, c, r)
<1>1. c \in Routings
    BY DEF StartsFree
<1>2. PICK at \in [0 .. 15 -> Routings] :
               /\ at[0] = c
               /\ \A i \in 1 .. 15 : at[i] = Row(q, walk, at[i - 1], Table[i])
               /\ r = at[15]
    BY <1>1, WalkIterates
<1>3. /\ at[1] = Row(q, walk, c, Table[1]) /\ at[2] = Row(q, walk, at[1], Table[2])
      /\ at[3] = Row(q, walk, at[2], Table[3]) /\ at[4] = Row(q, walk, at[3], Table[4])
      /\ at[5] = Row(q, walk, at[4], Table[5]) /\ at[6] = Row(q, walk, at[5], Table[6])
      /\ at[7] = Row(q, walk, at[6], Table[7]) /\ at[8] = Row(q, walk, at[7], Table[8])
    BY <1>2
<1>4. /\ at[9] = Row(q, walk, at[8], Table[9]) /\ at[10] = Row(q, walk, at[9], Table[10])
      /\ at[11] = Row(q, walk, at[10], Table[11]) /\ at[12] = Row(q, walk, at[11], Table[12])
      /\ at[13] = Row(q, walk, at[12], Table[13]) /\ at[14] = Row(q, walk, at[13], Table[14])
      /\ at[15] = Row(q, walk, at[14], Table[15])
    BY <1>2
<1>5. \A i \in 0 .. 15 : at[i] \in Routings
    BY <1>2
<1> DEFINE d == at[2]
           m == IF SoftwareIrq \in q.ienr THEN {"MSIP"} ELSE {}
           t == IF q.stk # "off" THEN {"MTIP"} ELSE {}
\* The rows of the core's own interrupts.
<1>6. /\ StartsFree(d) /\ d.mip = (c.mip \cap t) \cup (c.mip \cap m)
      /\ d.mie \ {"MEIP"} = (c.mie \cap {"MTIP"}) \cup m
      /\ d.iactr = c.iactr /\ d.ipr = c.ipr /\ d.latched = c.latched
  <2>1. at[1] = SoftMieSync(q, c)
    <3>1. SoftwareIrq \in Nat
        BY DEF SoftwareIrq
    <3>2. at[1] = Row(q, walk, c, << SoftwareIrq >>)
        BY <1>3, TableRows
    <3> QED
        BY <1>1, <3>1, <3>2, SingleRow, CoreTurns
  <2>2. at[2] = StkScheduleRow(q, at[1])
    <3>1. SysTickIrq \in Nat /\ at[1] \in Routings
        BY <1>5 DEF SysTickIrq
    <3>2. at[2] = Row(q, walk, at[1], << SysTickIrq >>)
        BY <1>3, TableRows
    <3> QED
        BY <3>1, <3>2, SingleRow, CoreTurns
  <2>3. /\ at[1] \in Routings /\ at[1].slot = 0
        /\ at[1].mip = c.mip \ (IF SoftwareIrq \in q.ienr THEN {} ELSE {"MSIP"})
        /\ at[1].mie = (c.mie \ {"MSIP"}) \cup m
        /\ at[1].iactr = c.iactr /\ at[1].ipr = c.ipr /\ at[1].latched = c.latched
      BY <1>1, <1>5, <2>1 DEF SoftMieSync, Routings, StartsFree
  <2>4. /\ d \in Routings /\ d.slot = 0
        /\ d.mip = at[1].mip \ (IF q.stk # "off" THEN {} ELSE {"MTIP"})
        /\ d.mie = at[1].mie
        /\ d.iactr = c.iactr /\ d.ipr = c.ipr /\ d.latched = c.latched
      BY <1>5, <2>2, <2>3 DEF StkScheduleRow, Routings
  <2>5. c.mip \subseteq {"MSIP", "MTIP"} /\ c.mie \subseteq {"MEIP", "MSIP", "MTIP"}
      BY DEF StartsFree, Routings, Bits
  <2> HIDE DEF d
  <2> QED
      BY <2>3, <2>4, <2>5 DEF StartsFree
<1> HIDE DEF d
<1>7. Passed(q, d, d, {})
  <2>1. Wanting(q, d, {}) = {}
      BY DEF Wanting
  <2>2. 0 \notin LatchIrqs
      BY IrqFacts
  <2>3. d \in Routings /\ d.slot = 0
      BY <1>6 DEF StartsFree
  <2> QED
      BY <2>1, <2>2, <2>3 DEF Passed
<1> DEFINE S4 == UsartIrqs
           S5 == S4 \cup TimIrqs
           S6 == S5 \cup {Eth10mIrq}
           S8 == S6 \cup {EthIrq}
           S10 == S8 \cup {UsbHsIrq}
           S11 == S10 \cup {UsbFsIrq}
<1>8. /\ Usart1Irq \in TableIrqs \ DmaIrqs /\ Eth10mIrq \in TableIrqs \ DmaIrqs
      /\ EthIrq \in TableIrqs \ DmaIrqs
      /\ UsbHsIrq \in TableIrqs \ DmaIrqs /\ UsbFsIrq \in TableIrqs \ DmaIrqs
      /\ LiteIrqs \cap DmaIrqs = {} /\ TimIrqs \cap DmaIrqs = {}
      /\ UsbFsIrq \notin LiteIrqs /\ UsbFsIrq \notin TimIrqs
    BY IrqFacts DEF UsartIrqs, LatchIrqs, UsbIrqs
<1>9. /\ S4 \in SUBSET TableIrqs /\ S5 \in SUBSET TableIrqs /\ S6 \in SUBSET TableIrqs
      /\ S8 \in SUBSET TableIrqs /\ S10 \in SUBSET TableIrqs /\ S11 \in SUBSET TableIrqs
      /\ S11 \cup DmaIrqs = TableIrqs
    BY DEF TableIrqs, LatchIrqs, UsbIrqs
<1>10. /\ \A y \in S4 : Rank[y] <= 8
       /\ \A y \in S5 : Rank[y] <= 14
       /\ \A y \in S6 : Rank[y] <= 15
       /\ \A y \in S8 : Rank[y] <= 16
       /\ \A y \in S10 : Rank[y] <= 17
       /\ \A y \in S11 : Rank[y] <= 18
  <2>1. ASSUME NEW y \in S4 PROVE Rank[y] \in 1 .. 8
    <3>1. CASE y = Usart1Irq
        BY <3>1, RowPlaces
    <3>2. CASE y \in LiteIrqs
      <4>1. Rank[y] \in 2 .. 8
          BY <3>2, RowUnits
      <4> QED
          BY <4>1
    <3> QED
        BY <3>1, <3>2 DEF UsartIrqs
  <2> HIDE DEF S4
  <2>2. ASSUME NEW y \in S5 PROVE Rank[y] \in 1 .. 14
      BY <2>1, RowUnits
  <2> HIDE DEF S5
  <2>3. ASSUME NEW y \in S6 PROVE Rank[y] \in 1 .. 15
      BY <2>2, RowPlaces
  <2> HIDE DEF S6
  <2>4. ASSUME NEW y \in S8 PROVE Rank[y] \in 1 .. 16
      BY <2>3, RowPlaces
  <2> HIDE DEF S8
  <2>5. ASSUME NEW y \in S10 PROVE Rank[y] \in 1 .. 17
      BY <2>4, RowPlaces
  <2> HIDE DEF S10
  <2>6. ASSUME NEW y \in S11 PROVE Rank[y] \in 1 .. 18
      BY <2>5, RowPlaces
  <2> HIDE DEF S11
  <2> QED
      BY <2>1, <2>2, <2>3, <2>4, <2>5, <2>6
<1>11. /\ \A y \in S5 : Rank[y] < Rank[Eth10mIrq]
       /\ \A y \in S6 : Rank[y] < Rank[EthIrq]
       /\ \A y \in S8 : Rank[y] < Rank[UsbHsIrq]
       /\ \A y \in S10 : Rank[y] < Rank[UsbFsIrq]
  <2>1. \A y \in S11 : Rank[y] \in Nat
      BY <1>9, RankIsNat
  <2> QED
      BY <1>10, <2>1, RowPlaces
\* The devices, each before those that it precedes.
<1>12. Passed(q, d, at[3], {Usart1Irq}) /\ at[3].ipr = c.ipr
  <2>1. at[3] = Row(q, walk, d, << Usart1Irq >>)
      BY <1>3, TableRows DEF d
  <2>2. DeviceRow(q, d, d, at[3], {}, {Usart1Irq})
    <3>1. {} \in SUBSET TableIrqs /\ \A y \in {} : Rank[y] < Rank[Usart1Irq]
        OBVIOUS
    <3> QED
        BY <1>6, <1>7, <1>8, <2>1, <3>1, SinglePasses
  <2>3. {} \cup {Usart1Irq} = {Usart1Irq}
      OBVIOUS
  <2> QED
      BY <1>6, <2>2, <2>3 DEF DeviceRow
<1>13. Passed(q, d, at[4], S4) /\ at[4].ipr = c.ipr
  <2>1. at[4] = Row(q, walk, at[3], LiteOrder)
      BY <1>3, TableRows
  <2>2. \A y \in {Usart1Irq} : Rank[y] <= 1
      BY RowPlaces
  <2>3. {Usart1Irq} \in SUBSET TableIrqs /\ S4 = {Usart1Irq} \cup LiteIrqs
      BY <1>8 DEF UsartIrqs
  <2>4. Fresh(LiteOrder, {Usart1Irq})
      BY <2>2, <2>3, RowPlaces, RowUnits, FreshRow
  <2>5. DeviceRow(q, d, at[3], at[4], {Usart1Irq}, LiteIrqs)
      BY <1>6, <1>8, <1>12, <2>1, <2>3, <2>4, RowUnits, FamilyPasses
  <2> QED
      BY <1>12, <2>3, <2>5 DEF DeviceRow
<1>14. Passed(q, d, at[5], S5) /\ at[5].ipr = c.ipr
  <2>1. at[5] = Row(q, walk, at[4], TimOrder)
      BY <1>3, TableRows
  <2>2. Fresh(TimOrder, S4)
    <3>1. /\ TimOrder \in Seq(TableIrqs) /\ S4 \in SUBSET TableIrqs
          /\ \A y \in S4 : Rank[y] <= 8
          /\ \A i \in 1 .. Len(TimOrder) : Rank[TimOrder[i]] = 8 + i
        BY <1>9, <1>10, RowPlaces, RowUnits
    <3> HIDE DEF S4
    <3> QED
        BY <3>1, FreshRow
  <2>3. DeviceRow(q, d, at[4], at[5], S4, TimIrqs)
    <3> HIDE DEF S4
    <3> QED
        BY <1>6, <1>8, <1>9, <1>13, <2>1, <2>2, RowUnits, FamilyPasses
  <2> QED
      BY <1>13, <2>3 DEF DeviceRow
<1>15. Passed(q, d, at[6], S6) /\ at[6].ipr = c.ipr
  <2>1. at[6] = Row(q, walk, at[5], << Eth10mIrq >>)
      BY <1>3, TableRows
  <2>2. DeviceRow(q, d, at[5], at[6], S5, {Eth10mIrq})
    <3> HIDE DEF S5
    <3> QED
        BY <1>6, <1>8, <1>9, <1>11, <1>14, <2>1, SinglePasses
  <2> QED
      BY <1>14, <2>2 DEF DeviceRow
<1>16. Passed(q, d, at[7], S6) /\ at[7].ipr = c.ipr
  <2>1. at[7] = Row(q, walk, at[6], LiteOrder)
      BY <1>3, TableRows
  <2>2. Stale(LiteOrder, S6)
    <3>1. \A i \in 1 .. Len(LiteOrder) : LiteOrder[i] \in LiteIrqs
        BY RowPlaces
    <3>2. LiteIrqs \cap ({Eth10mIrq} \cup UsbIrqs) = {} /\ LiteIrqs \subseteq S6
        BY IrqFacts DEF UsartIrqs, LatchIrqs
    <3> QED
        BY <3>1, <3>2 DEF Stale
  <2>3. S6 \cup LiteIrqs = S6
      BY DEF UsartIrqs
  <2>4. DeviceRow(q, d, at[6], at[7], S6, LiteIrqs)
    <3> HIDE DEF S6
    <3> QED
        BY <1>6, <1>8, <1>9, <1>15, <2>1, <2>2, RowUnits, FamilyPasses
  <2> HIDE DEF S6
  <2> QED
      BY <1>15, <2>3, <2>4 DEF DeviceRow
<1>17. Passed(q, d, at[8], S8) /\ at[8].ipr = c.ipr
  <2>1. at[8] = Row(q, walk, at[7], << EthIrq >>)
      BY <1>3, TableRows
  <2>2. DeviceRow(q, d, at[7], at[8], S6, {EthIrq})
    <3> HIDE DEF S6
    <3> QED
        BY <1>6, <1>8, <1>9, <1>11, <1>16, <2>1, SinglePasses
  <2> QED
      BY <1>16, <2>2 DEF DeviceRow
<1>18. Passed(q, d, at[9], S8) /\ at[9].ipr = c.ipr
  <2>1. at[9] = Row(q, walk, at[8], TimOrder)
      BY <1>4, TableRows
  <2>2. Stale(TimOrder, S8)
    <3>1. \A i \in 1 .. Len(TimOrder) : TimOrder[i] \in TimIrqs
        BY RowPlaces
    <3>2. TimIrqs \cap ({Eth10mIrq} \cup UsbIrqs) = {} /\ TimIrqs \subseteq S8
        BY IrqFacts DEF LatchIrqs, TimIrqs, Eth10mIrq
    <3> QED
        BY <3>1, <3>2 DEF Stale
  <2>3. S8 \cup TimIrqs = S8
      OBVIOUS
  <2>4. DeviceRow(q, d, at[8], at[9], S8, TimIrqs)
    <3> HIDE DEF S8
    <3> QED
        BY <1>6, <1>8, <1>9, <1>17, <2>1, <2>2, RowUnits, FamilyPasses
  <2> HIDE DEF S8
  <2> QED
      BY <1>17, <2>3, <2>4 DEF DeviceRow
<1>19. Passed(q, d, at[10], S10) /\ at[10].ipr = c.ipr
  <2>1. at[10] = Row(q, walk, at[9], << UsbHsIrq >>)
      BY <1>4, TableRows
  <2>2. DeviceRow(q, d, at[9], at[10], S8, {UsbHsIrq})
    <3> HIDE DEF S8
    <3> QED
        BY <1>6, <1>8, <1>9, <1>11, <1>18, <2>1, SinglePasses
  <2> QED
      BY <1>18, <2>2 DEF DeviceRow
<1>20. Passed(q, d, at[11], S11) /\ at[11].ipr = c.ipr /\ ("MEIP" \in at[11].mie <=> UsbFsIrq \in q.usb)
  <2>1. at[11] = Row(q, walk, at[10], << UsbFsIrq >>)
      BY <1>4, TableRows
  <2>2. DeviceRow(q, d, at[10], at[11], S10, {UsbFsIrq})
    <3> HIDE DEF S10
    <3> QED
        BY <1>6, <1>8, <1>9, <1>11, <1>19, <2>1, SinglePasses
  <2> HIDE DEF S10
  <2> QED
      BY <1>19, <2>2 DEF DeviceRow
\* The DMA channels, four times.
<1>21. /\ Passed(q, d, at[12], TableIrqs)
       /\ at[11].slot # 0 => at[12].slot = at[11].slot
       /\ at[12].ipr = c.ipr \cup ((q.req \cap DmaIrqs) \ (IF at[11].slot = 0 THEN {at[12].slot} ELSE {}))
       /\ "MEIP" \in at[12].mie <=> UsbFsIrq \in q.usb \/ at[12].slot # at[11].slot
  <2>1. at[12] = Row(q, walk, at[11], DmaOrder)
      BY <1>4, TableRows
  <2>2. Fresh(DmaOrder, S11)
    <3>1. S11 \in SUBSET TableIrqs /\ \A y \in S11 : Rank[y] <= 18
        BY <1>9, <1>10
    <3>2. DmaOrder \in Seq(TableIrqs) /\ \A i \in 1 .. Len(DmaOrder) : Rank[DmaOrder[i]] = 18 + i
        BY RowPlaces, RowUnits
    <3> HIDE DEF S11
    <3> QED
        BY <3>1, <3>2, FreshRow
  <2> HIDE DEF S11
  <2>3. DmaRow(q, d, at[11], at[12], S11)
      BY <1>6, <1>9, <1>20, <2>1, <2>2, DmaRowPasses
  <2> QED
      BY <1>9, <1>20, <2>3 DEF DmaRow
<1> DEFINE Last(e, f) ==
               Passed(q, d, e, TableIrqs) /\ f = Row(q, walk, e, DmaOrder) =>
                   /\ Passed(q, d, f, TableIrqs) /\ f.slot = e.slot
                   /\ f.ipr = e.ipr \cup (q.req \cap DmaIrqs)
                   /\ "MEIP" \in f.mie <=> "MEIP" \in e.mie
<1>22. ASSUME NEW e, NEW f PROVE Last(e, f)
  <2> SUFFICES ASSUME Passed(q, d, e, TableIrqs), f = Row(q, walk, e, DmaOrder)
               PROVE  /\ Passed(q, d, f, TableIrqs) /\ f.slot = e.slot
                      /\ f.ipr = e.ipr \cup (q.req \cap DmaIrqs)
                      /\ "MEIP" \in f.mie <=> "MEIP" \in e.mie
      OBVIOUS
  <2>1. TableIrqs \in SUBSET TableIrqs /\ DmaIrqs \subseteq TableIrqs /\ TableIrqs \cup DmaIrqs = TableIrqs
      BY RowUnits
  <2>2. /\ Passed(q, d, f, TableIrqs \cup DmaIrqs)
        /\ e.slot # 0 => f.slot = e.slot
        /\ f.ipr = e.ipr \cup ((q.req \cap DmaIrqs) \ (IF e.slot = 0 THEN {f.slot} ELSE {}))
        /\ "MEIP" \in f.mie <=> "MEIP" \in e.mie \/ f.slot # e.slot
    <3>1. DmaRow(q, d, e, f, TableIrqs)
        BY <1>6, <2>1, DmaRowPasses
    <3> QED
        BY <3>1 DEF DmaRow
  <2>3. Passed(q, d, f, TableIrqs)
      BY <2>1, <2>2
  <2>4. e.slot = 0 => f.slot = 0 /\ q.req \cap DmaIrqs = {}
    <3>1. e.slot = 0 => Wanting(q, d, TableIrqs) = {}
        BY DEF Passed
    <3>2. f.slot \in Wanting(q, d, TableIrqs) \cup {0}
        BY <2>3 DEF Passed
    <3>3. q.req \cap DmaIrqs \subseteq Wanting(q, d, TableIrqs)
        BY <1>6, IrqFacts DEF StartsFree, Wanting
    <3> QED
        BY <3>1, <3>2, <3>3
  <2> QED
      BY <2>2, <2>3, <2>4
<1>23. /\ Passed(q, d, r, TableIrqs) /\ r.slot = at[12].slot
       /\ r.ipr = at[12].ipr \cup (q.req \cap DmaIrqs)
       /\ "MEIP" \in r.mie <=> "MEIP" \in at[12].mie
  <2>1. at[13] = Row(q, walk, at[12], DmaOrder) /\ at[14] = Row(q, walk, at[13], DmaOrder)
        /\ r = Row(q, walk, at[14], DmaOrder)
      BY <1>2, <1>4, TableRows
  <2>2. /\ Passed(q, d, at[13], TableIrqs) /\ at[13].slot = at[12].slot
        /\ at[13].ipr = at[12].ipr \cup (q.req \cap DmaIrqs)
        /\ "MEIP" \in at[13].mie <=> "MEIP" \in at[12].mie
      BY <1>21, <1>22, <2>1
  <2>3. /\ Passed(q, d, at[14], TableIrqs) /\ at[14].slot = at[13].slot
        /\ at[14].ipr = at[13].ipr \cup (q.req \cap DmaIrqs)
        /\ "MEIP" \in at[14].mie <=> "MEIP" \in at[13].mie
      BY <1>22, <2>1, <2>2
  <2>4. /\ Passed(q, d, r, TableIrqs) /\ r.slot = at[14].slot
        /\ r.ipr = at[14].ipr \cup (q.req \cap DmaIrqs)
        /\ "MEIP" \in r.mie <=> "MEIP" \in at[14].mie
      BY <1>22, <2>1, <2>3
  <2> QED
      BY <2>2, <2>3, <2>4
\* What the walk made of the slot and the rest.
<1> DEFINE hw == q.req \ c.latched
           w == IF hw = {} THEN 0 ELSE FirstInTable(hw)
<1>24. Wanting(q, d, TableIrqs) = hw /\ hw \in SUBSET TableIrqs
    BY <1>6 DEF Wanting, RegistersOK
<1>25. r.slot = w
  <2>1. CASE hw = {}
      BY <1>23, <1>24, <2>1 DEF Passed
  <2>2. CASE hw # {}
    <3>1. 0 \notin hw
        BY <1>24, IrqFacts
    <3> HIDE DEF hw
    <3>2. r.slot \in hw /\ \A y \in hw : Rank[r.slot] <= Rank[y]
        BY <1>23, <1>24, <2>2, <3>1 DEF Passed
    <3>3. FirstInTable(hw) = r.slot
        BY <1>24, <3>2, FirstIs
    <3> QED
        BY <2>2, <3>3
  <2> QED
      BY <2>1, <2>2
<1> HIDE DEF hw, w
<1>26. "MEIP" \in r.mie <=> r.slot \in DmaIrqs \/ UsbFsIrq \in q.usb
  <2>1. at[12].slot # at[11].slot <=> r.slot \in DmaIrqs
    <3>1. at[11].slot # 0 => at[12].slot = at[11].slot /\ at[11].slot \notin DmaIrqs
      <4>1. S11 \cap DmaIrqs = {}
          BY <1>8, IrqFacts
      <4>2. at[11].slot \in Wanting(q, d, S11) \cup {0}
          BY <1>20 DEF Passed
      <4> HIDE DEF S11
      <4> QED
          BY <1>21, <4>1, <4>2 DEF Wanting
    <3>2. at[11].slot = 0 => at[12].slot \in DmaIrqs \cup {0}
      <4>1. at[11].slot = 0 => Wanting(q, d, S11) = {}
          BY <1>20 DEF Passed
      <4>2. at[12].slot \in Wanting(q, d, TableIrqs) \cup {0}
          BY <1>21 DEF Passed
      <4> HIDE DEF S11
      <4> QED
          BY <1>9, <4>1, <4>2 DEF Wanting
    <3>3. 0 \notin DmaIrqs
        BY IrqFacts
    <3> QED
        BY <1>23, <3>1, <3>2, <3>3
  <2> QED
      BY <1>21, <1>23, <2>1
<1>27. r.mie = (IF w \in DmaIrqs \/ UsbFsIrq \in q.usb THEN {"MEIP"} ELSE {})
                  \cup (c.mie \cap {"MTIP"}) \cup m
  <2>1. r.mie \ {"MEIP"} = (c.mie \cap {"MTIP"}) \cup m
      BY <1>6, <1>23 DEF Passed
  <2>2. "MEIP" \notin (c.mie \cap {"MTIP"}) \cup m
      OBVIOUS
  <2> HIDE DEF m
  <2> QED
      BY <1>25, <1>26, <2>1, <2>2
<1>28. /\ r \in Routings
       /\ r.mip = (IF w # 0 THEN {"MEIP"} ELSE {}) \cup (c.mip \cap t) \cup (c.mip \cap m)
       /\ r.iactr = c.iactr \cup ({w} \ (DmaIrqs \cup {0}))
  <2> HIDE DEF m, t
  <2> QED
      BY <1>6, <1>23, <1>25 DEF Passed
<1>29. r.ipr = c.ipr \cup (q.req \cap DmaIrqs)
    BY <1>21, <1>23
<1>30. r.latched = (c.latched \cap q.req) \cup ({w} \cap LatchIrqs)
  <2>1. c.latched \ (TableIrqs \ q.req) = c.latched \cap q.req
      BY IrqFacts DEF StartsFree
  <2> QED
      BY <1>6, <1>23, <1>25, <2>1 DEF Passed
<1> QED
    BY <1>25, <1>27, <1>28, <1>29, <1>30 DEF Rescanned, hw, w

\* The walk leads to a routing state, whatever stands for the nested one.
LEMMA PendingIsTyped ==
    ASSUME NEW q
    PROVE  ResyncPending(q) \in [Routings -> Routings]
<1>1. Entered \in [Routings -> Routings]
    BY DEF Entered, NoIrq, Routings
<1>2. ASSUME NEW e \in Routings PROVE WalkTable(q, Entered, e) \in Routings
  <2>1. PICK after \in [0 .. 15 -> Routings] : WalkTable(q, Entered, e) = after[15]
      BY <1>1, WalkIterates
  <2> QED
      BY <2>1
<1> QED
    BY <1>2 DEF ResyncPending

\* ch32_pfic_resync_pending_meip on a free slot is the closed form: no device
\* releases the slot inside the walk, or NoIrq would be left in it.
LEMMA PendingCloses ==
    ASSUME NEW q, RegistersOK(q), NEW c, StartsFree(c)
    PROVE  Rescanned(q, c, ResyncPending(q)[c])
<1>1. Entered \in [Routings -> Routings]
    BY DEF Entered, NoIrq, Routings
<1>2. c \in Routings
    BY DEF StartsFree
<1>3. ResyncPending(q)[c] = WalkTable(q, Entered, c)
    BY <1>2 DEF ResyncPending
<1> QED
    BY <1>1, <1>3, WalkCloses

-----------------------------------------------------------------------------
(***************************************************************************)
(* A device's own call, from whatever slot it finds.                       *)
(***************************************************************************)

\* A row goes through the states that its turns lead to.
LEMMA RowGoes ==
    ASSUME NEW q, NEW walk \in [Routings -> Routings], NEW xs \in Seq(Nat), NEW s,
           s[0] \in Routings,
           \A i \in 1 .. Len(xs) : Step(q, walk, s[i - 1], xs[i]) = s[i]
    PROVE  Row(q, walk, s[0], xs) = s[Len(xs)]
<1> DEFINE n == Len(xs)
           A == [i \in 0 .. n |-> {s[i]}]
<1>1. n \in Nat
    OBVIOUS
<1>2. \A i \in 0 .. n : A[i] = {s[i]}
    OBVIOUS
<1>3. 0 \in 0 .. n /\ n \in 0 .. n /\ \A i \in 1 .. n : i \in 0 .. n /\ i - 1 \in 0 .. n
    BY <1>1
<1> HIDE DEF A
<1>4. s[0] \in A[0]
    BY <1>2, <1>3
<1>5. ASSUME NEW i \in 1 .. n, NEW r \in Routings, r \in A[i - 1]
      PROVE  Step(q, walk, r, xs[i]) \in A[i]
  <2>1. A[i - 1] = {s[i - 1]} /\ A[i] = {s[i]}
      BY <1>2, <1>3
  <2> QED
      BY <1>5, <2>1
<1>6. Row(q, walk, s[0], xs) \in A[Len(xs)]
    BY <1>4, <1>5, RowFollows
<1> QED
    BY <1>2, <1>3, <1>6

\* Only the turns at k and m do anything.
Acts(q, walk, xs, e, f, g, k, m) ==
    /\ k \in 1 .. Len(xs) + 1 /\ m \in 1 .. Len(xs) + 2 /\ k < m
    /\ \A i \in 1 .. Len(xs) : i < k => Step(q, walk, e, xs[i]) = e
    /\ k <= Len(xs) => Step(q, walk, e, xs[k]) = f
    /\ \A i \in 1 .. Len(xs) : k < i /\ i < m => Step(q, walk, f, xs[i]) = f
    /\ m <= Len(xs) => Step(q, walk, f, xs[m]) = g
    /\ \A i \in 1 .. Len(xs) : m < i => Step(q, walk, g, xs[i]) = g

\* A row of which only the turns at k and m act ends in one of three states.
LEMMA RowActs ==
    ASSUME NEW q, NEW walk \in [Routings -> Routings], NEW xs \in Seq(Nat),
           NEW e \in Routings, NEW f, NEW g, NEW k, NEW m,
           Acts(q, walk, xs, e, f, g, k, m)
    PROVE  Row(q, walk, e, xs) = IF Len(xs) < k THEN e ELSE IF Len(xs) < m THEN f ELSE g
<1> USE DEF Acts
<1> DEFINE n == Len(xs)
           s == [i \in 0 .. n |-> IF i < k THEN e ELSE IF i < m THEN f ELSE g]
<1>1. n \in Nat
    OBVIOUS
<1>2. 0 \in 0 .. n /\ n \in 0 .. n /\ s[0] = e
    BY <1>1
<1>3. ASSUME NEW i \in 1 .. n PROVE Step(q, walk, s[i - 1], xs[i]) = s[i]
  <2>1. i \in 0 .. n /\ i - 1 \in 0 .. n
      BY <1>1
  <2>2. CASE i < k
    <3>1. s[i - 1] = e /\ s[i] = e
        BY <2>1, <2>2
    <3> QED
        BY <2>2, <3>1
  <2>3. CASE i = k
    <3>1. s[i - 1] = e /\ s[i] = f
        BY <2>1, <2>3
    <3> QED
        BY <2>3, <3>1
  <2>4. CASE k < i /\ i < m
    <3>1. s[i - 1] = f /\ s[i] = f
        BY <2>1, <2>4
    <3> QED
        BY <2>4, <3>1
  <2>5. CASE i = m
    <3>1. s[i - 1] = f /\ s[i] = g
        BY <2>1, <2>5
    <3> QED
        BY <2>5, <3>1
  <2>6. CASE m < i
    <3>1. s[i - 1] = g /\ s[i] = g
        BY <2>1, <2>6
    <3> QED
        BY <2>6, <3>1
  <2> QED
      BY <2>2, <2>3, <2>4, <2>5, <2>6
<1>4. s[n] = IF n < k THEN e ELSE IF n < m THEN f ELSE g
    BY <1>2
<1> HIDE DEF s
<1>5. Row(q, walk, s[0], xs) = s[n]
    BY <1>2, <1>3, RowGoes
<1> QED
    BY <1>2, <1>4, <1>5

-----------------------------------------------------------------------------
(***************************************************************************)
(* From the records of the handlers to the variables of MeipSlot.          *)
(***************************************************************************)

\* The registers a handler reads are those the step has just written.
LEMMA RegistersAre ==
    ASSUME RequestOK', NEW q, q = Registers'
    PROVE  /\ RegistersOK(q)
           /\ q.req = Requesting' /\ q.ienr = ienr' /\ q.stk = stk'
           /\ q.inIsr <=> vtfInIsr' > 0
           /\ \A x \in UsbIrqs : x \in q.usb <=> UsbOn(x)'
<1>1. /\ q.req = Requesting' /\ q.ienr = ienr' /\ q.stk = stk'
      /\ q.inIsr <=> vtfInIsr' > 0
      /\ q.usb = {x \in UsbIrqs : UsbOn(x)'}
    BY DEF Registers
<1>2. \A x \in UsbIrqs : x \in q.usb <=> UsbOn(x)'
    BY <1>1
<1>3. \A x \in Requesting' : x \in Irqs /\ x \in TableIrqs /\ x \in ienr' /\ (x \in UsbIrqs => UsbOn(x)')
    BY IrqFacts DEF RequestOK, Requesting, UsbOn
<1>4. q.req \subseteq Irqs \cap TableIrqs /\ q.req \subseteq q.ienr
      /\ q.usb \subseteq UsbIrqs /\ q.req \cap UsbIrqs \subseteq q.usb
    BY <1>1, <1>2, <1>3
<1> QED
    BY <1>1, <1>2, <1>4 DEF RegistersOK

\* The record of the routing variables is a routing state.
LEMMA RoutingIs ==
    ASSUME RouteOK, NEW e, e = Routing
    PROVE  /\ e \in Routings
           /\ e.slot = slot /\ e.mip = mip /\ e.mie = mie
           /\ e.iactr = iactr /\ e.ipr = ipr /\ e.latched = latched
    BY IrqFacts DEF RouteOK, Routing, Routings, SoftwareIrq

\* The routing variables become the fields of the result.
LEMMA BecomesFields ==
    ASSUME NEW r, Becomes(r)
    PROVE  /\ slot' = r.slot /\ mip' = r.mip /\ mie' = r.mie
           /\ iactr' = r.iactr /\ ipr' = r.ipr /\ latched' = r.latched
    BY DEF Becomes

\* c is a state of the routing from which the owner has been removed.
Without(c) ==
    /\ c \in Routings /\ c.slot = 0
    /\ c.mip = mip \ {"MEIP"} /\ c.mie \ {"MEIP"} = mie \ {"MEIP"}
    /\ c.iactr = iactr \ {slot} /\ c.ipr = ipr

\* A release followed by the closed walk is Rescan.
LEMMA ReleaseRescans ==
    ASSUME RouteOK, RequestOK', NEW q, q = Registers',
           NEW c, Without(c), c.latched \subseteq latched,
           q.req \cap c.latched = q.req \cap latched,
           NEW r, Rescanned(q, c, r), NEW again,
           slot' = r.slot, mip' = r.mip,
           mie' = r.mie \cup (IF r.slot \in again THEN {"MEIP"} ELSE {}),
           iactr' = r.iactr, ipr' = r.ipr, latched' = r.latched
    PROVE  Rescan(FALSE, again)
<1> DEFINE hw == Requesting' \ latched
           w == IF hw # {} THEN FirstInTable(hw) ELSE 0
<1>1. /\ q.req = Requesting' /\ q.ienr = ienr' /\ q.stk = stk'
      /\ UsbFsIrq \in q.usb <=> UsbOn(UsbFsIrq)'
    BY RegistersAre DEF UsbIrqs
<1>2. q.req \ c.latched = hw
    BY <1>1
<1>3. r.slot = w
    BY <1>2 DEF Rescanned
<1> HIDE DEF w
<1>4. /\ mip' = (IF w # 0 THEN {"MEIP"} ELSE {})
                    \cup (mip \cap (IF stk' # "off" THEN {"MTIP"} ELSE {}))
                    \cup (mip \cap (IF SoftwareIrq \in ienr' THEN {"MSIP"} ELSE {}))
      /\ iactr' = (iactr \ {slot}) \cup ({w} \ (DmaIrqs \cup {0}))
      /\ ipr' = ipr \cup (Requesting' \cap DmaIrqs)
      /\ latched' = (latched \cap Requesting') \cup ({w} \cap LatchIrqs)
    BY <1>1, <1>3 DEF Rescanned, Without
<1>5. mie' = (IF w \in DmaIrqs \cup again \/ UsbOn(UsbFsIrq)' THEN {"MEIP"} ELSE {})
                \cup (mie \cap {"MTIP"})
                \cup (IF SoftwareIrq \in ienr' THEN {"MSIP"} ELSE {})
  <2>1. c.mie \cap {"MTIP"} = mie \cap {"MTIP"}
      BY DEF Without
  <2>2. r.mie = (IF w \in DmaIrqs \/ UsbFsIrq \in q.usb THEN {"MEIP"} ELSE {})
                     \cup (c.mie \cap {"MTIP"})
                     \cup (IF SoftwareIrq \in q.ienr THEN {"MSIP"} ELSE {})
      BY <1>2, <1>3 DEF Rescanned, w
  <2> QED
      BY <1>1, <1>3, <2>1, <2>2
<1> QED
    BY <1>3, <1>4, <1>5 DEF Rescan, w

-----------------------------------------------------------------------------
(***************************************************************************)
(* The USARTs.                                                             *)
(***************************************************************************)

\* A row by ascending number, which is also the order of the walk.
Ascending(xs) ==
    \A i, j \in 1 .. Len(xs) : i < j => xs[i] < xs[j] /\ Rank[xs[i]] < Rank[xs[j]]

\* Some device of a set is reached first.
LEMMA RankHasLeast ==
    ASSUME NEW S \in SUBSET TableIrqs, S # {}
    PROVE  \E x \in S : \A y \in S : Rank[x] <= Rank[y]
<1> DEFINE ranks == {Rank[x] : x \in S}
<1>1. ranks \in SUBSET Nat /\ ranks # {}
    BY RankIsNat
<1>2. \E i \in ranks : \A j \in ranks : i <= j
    BY <1>1, LeastNat
<1> QED
    BY <1>2

\* The turn of a USART does nothing while another device owns the slot.
LEMMA UsartTurn ==
    ASSUME NEW q, RegistersOK(q), NEW walk, NEW e, NEW x \in UsartIrqs
    PROVE  /\ x \in Irqs => Step(q, walk, e, x) = UsartOne(q, walk, e, x)
           /\ Taken(e, x) \/ (x \notin q.req /\ e.slot # x) => Step(q, walk, e, x) = e
<1>1. x \in TableIrqs /\ x \notin UsbIrqs /\ x # SoftwareIrq /\ x # SysTickIrq
    BY IrqFacts, TableMembers DEF SoftwareIrq, SysTickIrq
<1>2. Step(q, walk, e, x) = IF x \in Irqs THEN UsartOne(q, walk, e, x) ELSE e
    BY <1>1, IrqFacts DEF Step, Idle, Turn, LatchIrqs
<1> QED
    BY <1>2 DEF UsartOne, Taken

\* The function of a USART row is UsartResync of its units.
LEMMA UsartRow ==
    ASSUME TypeOK, RequestOK', UNCHANGED vtfInIsr, NEW q, q = Registers',
           NEW xs \in Seq(Nat), Ascending(xs), NEW F \in SUBSET UsartIrqs, F = Units(xs),
           NEW r, r = Row(q, ResyncPending(q), Routing, xs), Becomes(r)
    PROVE  UsartResync(F)
<1> DEFINE n == Len(xs)
           e == Routing
           walk == ResyncPending(q)
           want == F \cap Requesting'
<1>1. RegistersOK(q) /\ q.req = Requesting' /\ (q.inIsr <=> vtfInIsr > 0)
    BY RegistersAre
<1>2. /\ e \in Routings
      /\ e.slot = slot /\ e.mip = mip /\ e.mie = mie
      /\ e.iactr = iactr /\ e.ipr = ipr /\ e.latched = latched
    BY RoutingIs DEF TypeOK
<1>3. /\ slot' = r.slot /\ mip' = r.mip /\ mie' = r.mie
      /\ iactr' = r.iactr /\ ipr' = r.ipr /\ latched' = r.latched
    BY BecomesFields
<1>4. walk \in [Routings -> Routings]
    BY PendingIsTyped
<1>5. /\ n \in Nat /\ \A i \in 1 .. n : xs[i] \in F /\ xs[i] \in UsartIrqs /\ xs[i] # 0
      /\ \A x \in F : \E i \in 1 .. n : xs[i] = x
      /\ \A i, j \in 1 .. n : i # j => xs[i] # xs[j]
  <2>1. n \in Nat /\ \A i \in 1 .. n : xs[i] \in Nat
      OBVIOUS
  <2>2. \A i \in 1 .. n : xs[i] \in F
      BY DEF Units
  <2>3. \A x \in F : \E i \in 1 .. n : xs[i] = x
      BY DEF Units
  <2>4. \A i, j \in 1 .. n : i # j => xs[i] # xs[j]
    <3> SUFFICES ASSUME NEW i \in 1 .. n, NEW j \in 1 .. n, i # j PROVE xs[i] # xs[j]
        OBVIOUS
    <3>1. (i < j \/ j < i) /\ (i < j => xs[i] < xs[j]) /\ (j < i => xs[j] < xs[i])
        BY DEF Ascending
    <3>2. xs[i] \in Nat /\ xs[j] \in Nat
        BY <2>1
    <3> QED
        BY <3>1, <3>2
  <2> QED
      BY <2>1, <2>2, <2>3, <2>4, IrqFacts
<1>6. F \subseteq TableIrqs /\ F \cap DmaIrqs = {} /\ F \cap LatchIrqs = {} /\ 0 \notin F
      /\ Requesting' \subseteq Irqs /\ slot \in Owners \cup {0}
    BY <1>1, IrqFacts DEF RegistersOK, TypeOK, RouteOK
<1>7. r = Row(q, walk, e, xs)
    OBVIOUS
<1> HIDE DEF e, walk
\* Nothing to do.
<1>8. CASE slot \notin F /\ (slot = 0 => want = {})
  <2>1. ASSUME NEW i \in 1 .. n PROVE Step(q, walk, e, xs[i]) = e
    <3>1. Taken(e, xs[i]) \/ (xs[i] \notin q.req /\ e.slot # xs[i])
        BY <1>1, <1>2, <1>5, <1>8 DEF Taken
    <3> QED
        BY <1>1, <1>5, <3>1, UsartTurn
  <2>2. n + 1 \in 1 .. n + 1 /\ n + 2 \in 1 .. n + 2 /\ n + 1 < n + 2 /\ n < n + 1
        /\ ~(n + 1 <= n) /\ ~(n + 2 <= n)
        /\ \A i \in 1 .. n : ~(n + 1 < i) /\ ~(n + 2 < i)
      BY <1>5
  <2> HIDE DEF n
  <2>3. Acts(q, walk, xs, e, e, e, n + 1, n + 2)
      BY <2>1, <2>2 DEF Acts, n
  <2>4. r = e
      BY <1>2, <1>4, <1>7, <2>2, <2>3, RowActs DEF n
  <2> QED
      BY <1>2, <1>3, <1>8, <2>4 DEF UsartResync, Hold, route
\* A claim, or the owner's own request again.
<1>9. CASE slot \in want \/ (slot = 0 /\ want # {})
  <2> DEFINE x == IF slot = 0 THEN FirstInTable(want) ELSE slot
             f == RaiseMeip(Own(EnableMeip(e), x))
  <2>1. x \in want /\ x \in Nat
    <3>1. want # {} => FirstInTable(want) \in want
      <4>1. want \in SUBSET TableIrqs
          BY <1>6
      <4> HIDE DEF want
      <4> QED
          BY <4>1, FirstIsIn
    <3> QED
        BY <1>6, <1>9, <3>1, IrqFacts
  <2>2. PICK k \in 1 .. n : xs[k] = x
      BY <1>5, <2>1
  <2>3. slot = 0 => \A y \in want : Rank[x] <= Rank[y]
    <3>1. want \in SUBSET TableIrqs /\ want # {}
        BY <1>6, <2>1
    <3> HIDE DEF want
    <3>2. \E z \in want : \A y \in want : Rank[z] <= Rank[y]
        BY <3>1, RankHasLeast
    <3> QED
        BY <3>2 DEF FirstInTable, x
  <2> HIDE DEF x
  <2>4. /\ f \in Routings /\ f.slot = x /\ f.mip = mip \cup {"MEIP"} /\ f.mie = mie \cup {"MEIP"}
        /\ f.iactr = iactr \cup {x} /\ f.ipr = ipr /\ f.latched = latched
      BY <1>2, <2>1, ClaimFields
  <2>5. Step(q, walk, e, xs[k]) = f
    <3>1. x \in Irqs /\ x \in UsartIrqs /\ x \in q.req /\ ~Taken(e, x)
        BY <1>1, <1>2, <1>6, <2>1 DEF Taken, x
    <3>2. Step(q, walk, e, x) = UsartOne(q, walk, e, x)
        BY <1>1, <3>1, UsartTurn
    <3> QED
        BY <2>2, <3>1, <3>2 DEF UsartOne
  <2> HIDE DEF f
  <2>6. ASSUME NEW i \in 1 .. n, i < k PROVE Step(q, walk, e, xs[i]) = e
    <3>1. xs[i] # x
        BY <1>5, <2>2, <2>6
    <3>2. slot = 0 => xs[i] \notin want
      <4>1. Rank[xs[i]] < Rank[x]
          BY <2>2, <2>6 DEF Ascending
      <4>2. Rank[xs[i]] \in Nat /\ Rank[x] \in Nat
          BY <1>5, <1>6, <2>1, RankIsNat
      <4> QED
          BY <2>3, <4>1, <4>2
    <3>3. Taken(e, xs[i]) \/ (xs[i] \notin q.req /\ e.slot # xs[i])
        BY <1>1, <1>2, <1>5, <3>1, <3>2 DEF Taken, x
    <3> QED
        BY <1>1, <1>5, <3>3, UsartTurn
  <2>7. ASSUME NEW i \in 1 .. n, k < i PROVE Step(q, walk, f, xs[i]) = f
    <3>1. Taken(f, xs[i])
        BY <1>5, <1>6, <2>1, <2>2, <2>4, <2>7 DEF Taken
    <3> QED
        BY <1>1, <1>5, <3>1, UsartTurn
  <2>8. k \in 1 .. n + 1 /\ n + 1 \in 1 .. n + 2 /\ k < n + 1 /\ n < n + 1 /\ ~(n < k) /\ ~(n + 1 <= n)
        /\ \A i \in 1 .. n : ~(n + 1 < i)
      BY <1>5
  <2> HIDE DEF n
  <2>9. Acts(q, walk, xs, e, f, f, k, n + 1)
      BY <2>5, <2>6, <2>7, <2>8 DEF Acts, n
  <2>10. r = f
      BY <1>2, <1>4, <1>7, <2>8, <2>9, RowActs DEF n
  <2>11. ClaimSlot(x) /\ UNCHANGED << ipr, latched >>
      BY <1>3, <1>6, <2>1, <2>4, <2>10 DEF ClaimSlot
  <2> QED
      BY <1>9, <2>11 DEF UsartResync, x
\* The request of the owner has gone.
<1>10. CASE slot \in F \ want
  <2>1. PICK k \in 1 .. n : xs[k] = slot
      BY <1>5, <1>10
  <2>2. slot # 0 /\ slot \in Irqs /\ slot \in UsartIrqs /\ slot \notin q.req /\ slot \in Nat
      BY <1>1, <1>6, <1>10, IrqFacts
  <2>3. \A i \in 1 .. n : i # k => Step(q, walk, e, xs[i]) = e
    <3> SUFFICES ASSUME NEW i \in 1 .. n, i # k PROVE Step(q, walk, e, xs[i]) = e
        OBVIOUS
    <3>1. Taken(e, xs[i])
        BY <1>2, <1>5, <2>1, <2>2 DEF Taken
    <3> QED
        BY <1>1, <1>5, <3>1, UsartTurn
  <2>4. Step(q, walk, e, slot) = UsartOne(q, walk, e, slot)
      BY <1>1, <2>2, UsartTurn
  <2>5. CASE vtfInIsr > 0
    <3> DEFINE f == LowerMeip(e)
    <3>1. Step(q, walk, e, xs[k]) = f
        BY <1>1, <1>2, <2>1, <2>2, <2>4, <2>5 DEF UsartOne
    <3>2. /\ f \in Routings /\ f.slot = slot /\ f.mip = mip \ {"MEIP"} /\ f.mie = mie
          /\ f.iactr = iactr /\ f.ipr = ipr /\ f.latched = latched
        BY <1>2, BuildingBlocks DEF LowerMeip, Routings
    <3> HIDE DEF f
    <3>3. ASSUME NEW i \in 1 .. n, k < i PROVE Step(q, walk, f, xs[i]) = f
      <4>1. Taken(f, xs[i])
          BY <1>5, <2>1, <2>2, <3>2, <3>3 DEF Taken
      <4> QED
          BY <1>1, <1>5, <4>1, UsartTurn
    <3>4. k \in 1 .. n + 1 /\ n + 1 \in 1 .. n + 2 /\ k < n + 1 /\ n < n + 1 /\ ~(n < k) /\ ~(n + 1 <= n)
          /\ \A i \in 1 .. n : ~(n + 1 < i) /\ (i < k => i # k)
        BY <1>5
    <3> HIDE DEF n
    <3>5. Acts(q, walk, xs, e, f, f, k, n + 1)
        BY <2>3, <3>1, <3>3, <3>4 DEF Acts, n
    <3>6. r = f
        BY <1>2, <1>4, <1>7, <3>4, <3>5, RowActs DEF n
    <3> QED
        BY <1>3, <1>10, <2>5, <3>2, <3>6 DEF UsartResync
  <2>6. CASE ~(vtfInIsr > 0)
    <3> DEFINE c == Disown(LowerMeip(e), slot)
               f == walk[c]
               again == {y \in F : y > slot}
    <3>1. Without(c) /\ c.latched = latched /\ StartsFree(c)
      <4>1. c \in Routings
        <5>1. LowerMeip(e) \in Routings
            BY <1>2, BuildingBlocks
        <5> QED
            BY <2>2, <5>1, BuildingBlocks
      <4>2. /\ c.slot = 0 /\ c.mip = mip \ {"MEIP"} /\ c.mie = mie
            /\ c.iactr = iactr \ {slot} /\ c.ipr = ipr /\ c.latched = latched
          BY <1>2 DEF Disown, LowerMeip, Routings
      <4> HIDE DEF c
      <4> QED
          BY <4>1, <4>2 DEF Without, StartsFree, TypeOK, RouteOK
    <3>2. Step(q, walk, e, xs[k]) = f
        BY <1>1, <1>2, <2>1, <2>2, <2>4, <2>6 DEF UsartOne
    <3> HIDE DEF c
    <3>3. Rescanned(q, c, f)
        BY <1>1, <3>1, PendingCloses DEF walk
    <3> HIDE DEF f
    <3>4. /\ f \in Routings
          /\ f.slot \in (q.req \ latched) \cup {0}
          /\ f.slot = 0 => q.req \ latched = {}
          /\ f.slot # 0 => "MEIP" \in f.mip
          /\ f.slot \notin DmaIrqs \cup {0} => f.slot \in f.iactr
      <4>1. q.req \ latched # {} => FirstInTable(q.req \ latched) \in q.req \ latched
        <5>1. q.req \ latched \in SUBSET TableIrqs
            BY <1>1 DEF RegistersOK
        <5> QED
            BY <5>1, FirstIsIn
      <4>2. 0 \notin q.req
          BY <1>1, <1>6, IrqFacts
      <4> QED
          BY <3>1, <3>3, <4>1, <4>2 DEF Rescanned
    <3>5. ASSUME NEW i \in 1 .. n, xs[i] # f.slot PROVE Step(q, walk, f, xs[i]) = f
      <4>1. xs[i] \notin latched
          BY <1>5, <1>6 DEF TypeOK, RouteOK
      <4>2. f.slot # 0 => Taken(f, xs[i])
          BY <3>5 DEF Taken
      <4>3. f.slot = 0 => xs[i] \notin q.req
          BY <3>4, <4>1
      <4> QED
          BY <1>1, <1>5, <3>5, <4>2, <4>3, UsartTurn
    <3>6. \A i \in 1 .. n : k < i <=> xs[i] > slot
      <4> SUFFICES ASSUME NEW i \in 1 .. n PROVE k < i <=> xs[i] > xs[k]
          BY <2>1
      <4>1. (k < i => xs[k] < xs[i]) /\ (i < k => xs[i] < xs[k])
          BY DEF Ascending
      <4>2. xs[i] \in Nat /\ xs[k] \in Nat /\ (k < i \/ k = i \/ i < k)
          OBVIOUS
      <4> QED
          BY <4>1, <4>2
    <3>7. CASE f.slot \notin again
      <4>1. ASSUME NEW i \in 1 .. n, k < i PROVE Step(q, walk, f, xs[i]) = f
        <5>1. xs[i] \in again
            BY <1>5, <3>6, <4>1
        <5> QED
            BY <3>5, <3>7, <5>1
      <4>2. k \in 1 .. n + 1 /\ n + 1 \in 1 .. n + 2 /\ k < n + 1 /\ n < n + 1 /\ ~(n < k) /\ ~(n + 1 <= n)
            /\ \A i \in 1 .. n : ~(n + 1 < i) /\ (i < k => i # k)
          BY <1>5
      <4> HIDE DEF n
      <4>3. r = f
        <5>1. Acts(q, walk, xs, e, f, f, k, n + 1)
            BY <2>3, <3>2, <4>1, <4>2 DEF Acts, n
        <5> QED
            BY <1>2, <1>4, <1>7, <4>2, <5>1, RowActs DEF n
      <4>4. Rescan(FALSE, again)
        <5>1. mie' = r.mie \cup (IF r.slot \in again THEN {"MEIP"} ELSE {})
            BY <1>3, <3>7, <4>3
        <5> HIDE DEF again
        <5> QED
            BY <1>3, <3>1, <3>3, <4>3, <5>1, ReleaseRescans DEF TypeOK
      <4>5. vtfInIsr = 0
          BY <2>6 DEF TypeOK, HartOK
      <4> QED
          BY <1>10, <4>4, <4>5 DEF UsartResync
    <3>8. CASE f.slot \in again
      <4> DEFINE w == f.slot
                 g == RaiseMeip(Own(EnableMeip(f), w))
      <4>1. w \in F /\ w \in Nat /\ w # 0 /\ w \in q.req /\ w \in Irqs
        <5>1. w \in F
            BY <3>8
        <5>2. w # 0
            BY <1>6, <5>1
        <5>3. w \in q.req
            BY <3>4, <5>2
        <5>4. w \in Irqs
            BY <1>1, <1>6, <5>3
        <5> QED
            BY <5>1, <5>2, <5>3, <5>4, IrqFacts
      <4>2. PICK m \in 1 .. n : xs[m] = w /\ k < m
          BY <1>5, <3>6, <3>8
      <4>3. /\ g.slot = w /\ g.mip = f.mip /\ g.mie = f.mie \cup {"MEIP"}
            /\ g.iactr = f.iactr /\ g.ipr = f.ipr /\ g.latched = f.latched
        <5>1. /\ g.slot = w /\ g.mip = f.mip \cup {"MEIP"} /\ g.mie = f.mie \cup {"MEIP"}
              /\ g.iactr = f.iactr \cup {w} /\ g.ipr = f.ipr /\ g.latched = f.latched
            BY <3>4, <4>1, ClaimFields
        <5> QED
            BY <1>6, <3>4, <4>1, <5>1
      <4>4. Step(q, walk, f, xs[m]) = g
        <5>1. Step(q, walk, f, w) = UsartOne(q, walk, f, w)
            BY <1>1, <4>1, UsartTurn
        <5> QED
            BY <4>1, <4>2, <5>1 DEF UsartOne, Taken
      <4> HIDE DEF g
      <4>5. ASSUME NEW i \in 1 .. n, m < i PROVE Step(q, walk, g, xs[i]) = g
        <5>1. Taken(g, xs[i])
            BY <1>5, <4>1, <4>2, <4>3, <4>5 DEF Taken
        <5> QED
            BY <1>1, <1>5, <5>1, UsartTurn
      <4>6. ASSUME NEW i \in 1 .. n, k < i, i < m PROVE Step(q, walk, f, xs[i]) = f
        <5>1. xs[i] # f.slot
            BY <1>5, <4>2, <4>6
        <5> QED
            BY <3>5, <5>1
      <4>7. k \in 1 .. n + 1 /\ m \in 1 .. n + 2 /\ ~(n < k) /\ ~(n < m)
            /\ \A i \in 1 .. n : i < k => i # k
          BY <1>5
      <4> HIDE DEF n
      <4>8. r = g
        <5>1. Acts(q, walk, xs, e, f, g, k, m)
            BY <2>3, <3>2, <4>2, <4>4, <4>5, <4>6, <4>7 DEF Acts, n
        <5> QED
            BY <1>2, <1>4, <1>7, <4>7, <5>1, RowActs DEF n
      <4>9. Rescan(FALSE, again)
        <5>1. mie' = f.mie \cup (IF f.slot \in again THEN {"MEIP"} ELSE {})
            BY <1>3, <3>8, <4>3, <4>8
        <5>2. slot' = f.slot /\ mip' = f.mip /\ iactr' = f.iactr /\ ipr' = f.ipr /\ latched' = f.latched
            BY <1>3, <4>3, <4>8
        <5> HIDE DEF again
        <5> QED
            BY <3>1, <3>3, <5>1, <5>2, ReleaseRescans DEF TypeOK
      <4>10. vtfInIsr = 0
          BY <2>6 DEF TypeOK, HartOK
      <4> QED
          BY <1>10, <4>9, <4>10 DEF UsartResync
    <3> QED
        BY <3>7, <3>8
  <2> QED
      BY <2>5, <2>6
<1> QED
    BY <1>8, <1>9, <1>10

-----------------------------------------------------------------------------
(***************************************************************************)
(* The timers and the MAC.                                                 *)
(***************************************************************************)

\* The devices of ch32_tim_meip_update and its copy in the MAC.
LatchOneIrqs == TimIrqs \cup {EthIrq}

\* e after the units of T without a request have cleared irq_active.
Cleaned(q, e, T) == [e EXCEPT !.latched = @ \ (T \ q.req)]

\* e after x has claimed the slot and set its irq_active.
LatchClaimed(e, x) == RaiseMeip(Own(Latch(EnableMeip(e), x), x))

\* Routing states with the same fields are the same.
LEMMA SameRouting ==
    ASSUME NEW a \in Routings, NEW b \in Routings, a.slot = b.slot, a.mip = b.mip,
           a.mie = b.mie, a.iactr = b.iactr, a.ipr = b.ipr, a.latched = b.latched
    PROVE  a = b
    BY DEF Routings

IsCleaned(d, q, e, T) ==
    /\ d \in Routings /\ d.slot = e.slot /\ d.mip = e.mip /\ d.mie = e.mie
    /\ d.iactr = e.iactr /\ d.ipr = e.ipr /\ d.latched = e.latched \ (T \ q.req)

LEMMA CleanedFields ==
    ASSUME NEW q, NEW e \in Routings, NEW T
    PROVE  IsCleaned(Cleaned(q, e, T), q, e, T)
    BY DEF Cleaned, Routings, IsCleaned

\* The fields after a claim that also latches.
LEMMA LatchClaimedFields ==
    ASSUME NEW e \in Routings, NEW x \in Nat
    PROVE  LET d == LatchClaimed(e, x)
           IN  /\ d \in Routings /\ d.slot = x /\ d.mip = e.mip \cup {"MEIP"}
               /\ d.mie = e.mie \cup {"MEIP"} /\ d.iactr = e.iactr \cup {x}
               /\ d.ipr = e.ipr /\ d.latched = e.latched \cup {x}
<1>1. LatchClaimed(e, x) = Latch(RaiseMeip(Own(EnableMeip(e), x)), x)
    BY DEF LatchClaimed, RaiseMeip, Own, Latch, EnableMeip, Routings
<1> DEFINE c == RaiseMeip(Own(EnableMeip(e), x))
<1>2. /\ c \in Routings
      /\ c = [slot |-> x, mip |-> e.mip \cup {"MEIP"}, mie |-> e.mie \cup {"MEIP"},
              iactr |-> e.iactr \cup {x}, ipr |-> e.ipr, latched |-> e.latched]
    BY ClaimFields
<1>3. LatchClaimed(e, x) = Latch(c, x)
    BY <1>1
<1> HIDE DEF c
<1> QED
    BY <1>2, <1>3, BuildingBlocks DEF Latch, Routings

\* The turn of a timer or the MAC is ch32_tim_meip_update, or its copy.
LEMMA LatchTurn ==
    ASSUME NEW q, RegistersOK(q), NEW walk, NEW e, NEW x \in LatchOneIrqs
    PROVE  Step(q, walk, e, x) = IF x \in Irqs THEN LatchOne(q, walk, e, x) ELSE e
<1>1. x \in TableIrqs /\ x \notin UsbIrqs /\ x # SoftwareIrq /\ x # SysTickIrq
      /\ x \notin UsartIrqs /\ x # Eth10mIrq /\ x \notin DmaIrqs
    BY IrqFacts, TableMembers
    DEF SoftwareIrq, SysTickIrq, LatchOneIrqs, LatchIrqs, Eth10mIrq, EthIrq, TimIrqs
<1> QED
    BY <1>1 DEF Step, Idle, Turn, LatchOneIrqs

\* Clearing a latch that is clear changes nothing.
LEMMA UnlatchNothing ==
    ASSUME NEW e \in Routings, NEW x \in Nat, x \notin e.latched
    PROVE  Unlatch(e, x) = e
<1> DEFINE d == Unlatch(e, x)
<1>1. /\ d \in Routings /\ d.slot = e.slot /\ d.mip = e.mip /\ d.mie = e.mie
      /\ d.iactr = e.iactr /\ d.ipr = e.ipr /\ d.latched = e.latched
    BY BuildingBlocks DEF Unlatch, Routings
<1> HIDE DEF d
<1>2. d = e
    BY <1>1, SameRouting
<1> QED
    BY <1>2 DEF d

\* The turn of a unit that does not own the slot and cannot take it.
LEMMA CleanTurn ==
    ASSUME NEW q, RegistersOK(q), NEW walk, NEW e \in Routings, e.latched \subseteq Irqs,
           NEW T, NEW x \in LatchOneIrqs,
           e.slot # x \/ (x \in q.req /\ x \in e.latched),
           x \notin q.req \/ x \in e.latched \/ e.slot # 0
    PROVE  Step(q, walk, Cleaned(q, e, T), x) = Cleaned(q, e, T \cup {x})
<1> DEFINE a == Cleaned(q, e, T)
           b == Cleaned(q, e, T \cup {x})
<1>1. /\ a \in Routings /\ a.slot = e.slot /\ a.mip = e.mip /\ a.mie = e.mie
      /\ a.iactr = e.iactr /\ a.ipr = e.ipr /\ a.latched = e.latched \ (T \ q.req)
    BY CleanedFields DEF IsCleaned
<1>2. /\ b \in Routings /\ b.slot = e.slot /\ b.mip = e.mip /\ b.mie = e.mie
      /\ b.iactr = e.iactr /\ b.ipr = e.ipr /\ b.latched = e.latched \ ((T \cup {x}) \ q.req)
  <2> DEFINE U == T \cup {x}
  <2> HIDE DEF U
  <2>1. IsCleaned(Cleaned(q, e, U), q, e, U)
      BY CleanedFields
  <2> QED
      BY <2>1 DEF U, IsCleaned
<1>3. Step(q, walk, a, x) = IF x \in Irqs THEN LatchOne(q, walk, a, x) ELSE a
    BY LatchTurn
<1>4. x \in Nat /\ q.req \subseteq Irqs
    BY IrqFacts, TableIsNat DEF LatchOneIrqs, LatchIrqs, RegistersOK
<1> HIDE DEF a, b
<1>5. CASE x \in q.req
  <2>1. x \in a.latched \/ Taken(a, x)
      BY <1>1, <1>5 DEF Taken
  <2>2. Step(q, walk, a, x) = a
      BY <1>3, <1>5, <2>1 DEF LatchOne
  <2>3. a.latched = b.latched
      BY <1>1, <1>2, <1>5
  <2>4. a = b
      BY <1>1, <1>2, <2>3, SameRouting
  <2> QED
      BY <2>2, <2>4 DEF a, b
<1>6. CASE x \notin q.req /\ x \in Irqs
  <2>1. Step(q, walk, a, x) = Unlatch(a, x)
      BY <1>1, <1>3, <1>6 DEF LatchOne
  <2> DEFINE d == Unlatch(a, x)
  <2>2. /\ d \in Routings /\ d.slot = a.slot /\ d.mip = a.mip /\ d.mie = a.mie
        /\ d.iactr = a.iactr /\ d.ipr = a.ipr /\ d.latched = a.latched \ {x}
      BY <1>1, <1>4, BuildingBlocks DEF Unlatch, Routings
  <2>3. Step(q, walk, a, x) = d
      BY <2>1
  <2> HIDE DEF d
  <2>4. d.latched = b.latched
      BY <1>1, <1>2, <1>6, <2>2
  <2>5. d = b
      BY <1>1, <1>2, <2>2, <2>4, SameRouting
  <2> QED
      BY <2>3, <2>5 DEF a, b
<1>7. CASE x \notin Irqs
  <2>1. a.latched = b.latched
      BY <1>1, <1>2, <1>7
  <2>2. a = b
      BY <1>1, <1>2, <2>1, SameRouting
  <2> QED
      BY <1>3, <1>7, <2>2 DEF a, b
<1> QED
    BY <1>5, <1>6, <1>7, <1>4

\* The turn that takes the slot.
LEMMA LatchClaimTurn ==
    ASSUME NEW q, RegistersOK(q), NEW walk, NEW e \in Routings,
           NEW T, NEW x \in LatchOneIrqs, e.slot \in {0, x}, x \in q.req \ e.latched
    PROVE  Step(q, walk, Cleaned(q, e, T), x) = Cleaned(q, LatchClaimed(e, x), T \cup {x})
<1> DEFINE a == Cleaned(q, e, T)
           d == LatchClaimed(e, x)
           b == Cleaned(q, d, T \cup {x})
           g == LatchClaimed(a, x)
<1>1. x \in Nat /\ x \in Irqs
    BY IrqFacts DEF RegistersOK
<1>2. /\ a \in Routings /\ a.slot = e.slot /\ a.mip = e.mip /\ a.mie = e.mie
      /\ a.iactr = e.iactr /\ a.ipr = e.ipr /\ a.latched = e.latched \ (T \ q.req)
    BY CleanedFields DEF IsCleaned
<1>3. /\ d \in Routings /\ d.slot = x /\ d.mip = e.mip \cup {"MEIP"}
      /\ d.mie = e.mie \cup {"MEIP"} /\ d.iactr = e.iactr \cup {x}
      /\ d.ipr = e.ipr /\ d.latched = e.latched \cup {x}
    BY <1>1, LatchClaimedFields
<1> HIDE DEF d
<1>4. /\ b \in Routings /\ b.slot = d.slot /\ b.mip = d.mip /\ b.mie = d.mie
      /\ b.iactr = d.iactr /\ b.ipr = d.ipr /\ b.latched = d.latched \ ((T \cup {x}) \ q.req)
    BY <1>3, CleanedFields DEF IsCleaned
<1> HIDE DEF b
<1>5. Step(q, walk, a, x) = g
  <2>1. Step(q, walk, a, x) = LatchOne(q, walk, a, x)
      BY <1>1, LatchTurn
  <2>2. x \notin a.latched /\ ~Taken(a, x)
      BY <1>2 DEF Taken
  <2> HIDE DEF a
  <2> QED
      BY <2>1, <2>2 DEF LatchOne, LatchClaimed
<1> HIDE DEF a
<1>6. /\ g \in Routings /\ g.slot = x /\ g.mip = a.mip \cup {"MEIP"}
      /\ g.mie = a.mie \cup {"MEIP"} /\ g.iactr = a.iactr \cup {x}
      /\ g.ipr = a.ipr /\ g.latched = a.latched \cup {x}
    BY <1>1, <1>2, LatchClaimedFields
<1> HIDE DEF g
<1>7. /\ g.latched = b.latched /\ g.slot = b.slot /\ g.mip = b.mip /\ g.mie = b.mie
      /\ g.iactr = b.iactr /\ g.ipr = b.ipr
    BY <1>2, <1>3, <1>4, <1>6
<1>8. g = b
    BY <1>4, <1>6, <1>7, SameRouting
<1> QED
    BY <1>5, <1>8 DEF a, b, d

\* The function of a row of timers, or of the MAC, is LatchResync of its units.
LEMMA LatchRow ==
    ASSUME TypeOK, RequestOK', UNCHANGED vtfInIsr, NEW q, q = Registers',
           NEW xs \in Seq(Nat), Ascending(xs), NEW F \in SUBSET LatchOneIrqs, F = Units(xs),
           NEW r, r = Row(q, ResyncPending(q), Routing, xs), Becomes(r)
    PROVE  LatchResync(F)
<1> DEFINE n == Len(xs)
           e == Routing
           walk == ResyncPending(q)
           want == F \cap Requesting'
           fresh == want \ latched
           had(i) == {xs[j] : j \in 1 .. i}
<1>1. RegistersOK(q) /\ q.req = Requesting'
    BY RegistersAre
<1>2. /\ e \in Routings
      /\ e.slot = slot /\ e.mip = mip /\ e.mie = mie
      /\ e.iactr = iactr /\ e.ipr = ipr /\ e.latched = latched
    BY RoutingIs DEF TypeOK
<1>3. /\ slot' = r.slot /\ mip' = r.mip /\ mie' = r.mie
      /\ iactr' = r.iactr /\ ipr' = r.ipr /\ latched' = r.latched
    BY BecomesFields
<1>4. walk \in [Routings -> Routings]
    BY PendingIsTyped
<1>5. F \subseteq TableIrqs /\ F \cap DmaIrqs = {} /\ F \subseteq LatchIrqs /\ 0 \notin F
      /\ F \subseteq LatchOneIrqs
      /\ Requesting' \subseteq Irqs /\ Requesting' \subseteq TableIrqs
      /\ slot \in Owners \cup {0} /\ latched \subseteq Irqs \cap LatchIrqs
    BY <1>1, IrqFacts DEF RegistersOK, TypeOK, RouteOK, LatchOneIrqs, LatchIrqs
<1>6. /\ n \in Nat /\ \A i \in 1 .. n : xs[i] \in F
      /\ \A x \in F : \E i \in 1 .. n : xs[i] = x
      /\ \A i, j \in 1 .. n : i # j => xs[i] # xs[j]
  <2>1. n \in Nat /\ \A i \in 1 .. n : xs[i] \in Nat
      OBVIOUS
  <2>2. \A i \in 1 .. n : xs[i] \in F
      BY DEF Units
  <2>3. \A x \in F : \E i \in 1 .. n : xs[i] = x
      BY DEF Units
  <2>4. \A i, j \in 1 .. n : i # j => xs[i] # xs[j]
    <3> SUFFICES ASSUME NEW i \in 1 .. n, NEW j \in 1 .. n, i # j PROVE xs[i] # xs[j]
        OBVIOUS
    <3>1. (i < j \/ j < i) /\ (i < j => xs[i] < xs[j]) /\ (j < i => xs[j] < xs[i])
        BY DEF Ascending
    <3>2. xs[i] \in Nat /\ xs[j] \in Nat
        BY <2>1
    <3> QED
        BY <3>1, <3>2
  <2> QED
      BY <2>1, <2>2, <2>3, <2>4
<1>7. r = Row(q, walk, e, xs)
    OBVIOUS
<1>8. /\ had(0) = {} /\ had(n) = F
      /\ \A i \in 1 .. n : had(i) = had(i - 1) \cup {xs[i]}
      /\ \A i, j \in 1 .. n : i < j => xs[j] \notin had(i)
  <2>1. had(n) = F /\ had(0) = {}
      BY DEF Units
  <2>2. ASSUME NEW i \in 1 .. n PROVE had(i) = had(i - 1) \cup {xs[i]}
    <3>1. \A j \in 1 .. i : j \in 1 .. i - 1 \/ j = i
        BY <1>6
    <3>2. \A j \in 1 .. i - 1 : j \in 1 .. i
        BY <1>6
    <3> QED
        BY <3>1, <3>2
  <2>3. ASSUME NEW i \in 1 .. n, NEW j \in 1 .. n, i < j PROVE xs[j] \notin had(i)
    <3>1. \A a \in 1 .. i : a \in 1 .. n /\ a # j
        BY <1>6, <2>3
    <3> QED
        BY <1>6, <3>1
  <2> QED
      BY <2>1, <2>2, <2>3
<1> HIDE DEF e, walk, had
\* Cleaned(q, e, {}) is e.
<1>9. ASSUME NEW d \in Routings PROVE Cleaned(q, d, {}) = d
  <2> DEFINE none == {}
             b == Cleaned(q, d, none)
  <2>1. d.latched \ (none \ q.req) = d.latched
      OBVIOUS
  <2> HIDE DEF none
  <2>2. IsCleaned(b, q, d, none)
      BY CleanedFields
  <2> HIDE DEF b
  <2>3. b = d
      BY <2>1, <2>2, SameRouting DEF IsCleaned
  <2> QED
      BY <2>3 DEF b, none
\* No release: the units clear their latches and one may take the slot.
<1>10. CASE slot \notin F \ want
  <2> DEFINE claims == slot \in fresh \/ (slot = 0 /\ fresh # {})
             x == IF slot = 0 THEN FirstInTable(fresh) ELSE slot
             d == LatchClaimed(e, x)
  <2>1. claims => x \in fresh /\ x \in Nat /\ x \in LatchOneIrqs /\ x \in q.req \ e.latched
                  /\ slot \in {0, x} /\ x # 0 /\ (slot # 0 => x = slot)
    <3>1. fresh # {} => FirstInTable(fresh) \in fresh
      <4>1. fresh \in SUBSET TableIrqs
          BY <1>5
      <4> HIDE DEF fresh
      <4> QED
          BY <4>1, FirstIsIn
    <3> QED
        BY <1>1, <1>2, <1>5, <3>1, IrqFacts
  <2>2. PICK k \in 1 .. n + 1 : IF claims THEN k \in 1 .. n /\ xs[k] = x ELSE k = n + 1
    <3>1. CASE claims
      <4>1. \E k \in 1 .. n : xs[k] = x
          BY <1>6, <2>1, <3>1
      <4>2. \A k \in 1 .. n : k \in 1 .. n + 1
          BY <1>6
      <4> HIDE DEF claims, x, n
      <4> QED
          BY <3>1, <4>1, <4>2
    <3>2. CASE ~claims
      <4>1. n + 1 \in 1 .. n + 1
          BY <1>6
      <4> HIDE DEF claims, x, n
      <4> QED
          BY <3>2, <4>1
    <3> QED
        BY <3>1, <3>2
  <2>3. claims /\ slot = 0 => \A y \in fresh : Rank[x] <= Rank[y]
    <3> SUFFICES ASSUME claims, slot = 0 PROVE \A y \in fresh : Rank[x] <= Rank[y]
        OBVIOUS
    <3>1. fresh \in SUBSET TableIrqs /\ fresh # {}
        BY <1>5, <2>1
    <3> HIDE DEF fresh
    <3>2. \E z \in fresh : \A y \in fresh : Rank[z] <= Rank[y]
        BY <3>1, RankHasLeast
    <3> QED
        BY <3>2 DEF FirstInTable, x
  <2>4. ~claims => slot \notin fresh /\ (slot = 0 => fresh = {})
      OBVIOUS
  <2> HIDE DEF x, claims
  <2>5. claims => /\ d \in Routings /\ d.slot = x /\ d.mip = mip \cup {"MEIP"}
                  /\ d.mie = mie \cup {"MEIP"} /\ d.iactr = iactr \cup {x}
                  /\ d.ipr = ipr /\ d.latched = latched \cup {x}
      BY <1>2, <2>1, LatchClaimedFields
  <2> DEFINE s == [i \in 0 .. n |-> Cleaned(q, IF i < k THEN e ELSE d, had(i))]
  <2>6. 0 \in 0 .. n /\ n \in 0 .. n /\ 0 < k
        /\ \A i \in 1 .. n : i \in 0 .. n /\ i - 1 \in 0 .. n
      BY <1>6
  <2>7. \A i \in 0 .. n : s[i] = Cleaned(q, IF i < k THEN e ELSE d, had(i))
      OBVIOUS
  <2> HIDE DEF d, s
  <2>8. s[0] = e
      BY <1>2, <1>8, <1>9, <2>6, <2>7
  <2>9. ASSUME NEW i \in 1 .. n PROVE Step(q, walk, s[i - 1], xs[i]) = s[i]
    <3> DEFINE T == had(i - 1)
               y == xs[i]
    <3>1. had(i) = T \cup {y} /\ y \in F /\ y \in LatchOneIrqs /\ y # 0
        BY <1>5, <1>6, <1>8
    <3> HIDE DEF T, y
    <3>2. CASE i < k
      <4>1. i - 1 < k /\ i < k
          BY <1>6, <3>2
      <4>2. s[i - 1] = Cleaned(q, e, T) /\ s[i] = Cleaned(q, e, T \cup {y})
          BY <2>6, <2>7, <3>1, <4>1 DEF T
      <4>3. claims => y # x /\ (slot = 0 => y \notin fresh)
        <5> SUFFICES ASSUME claims PROVE y # x /\ (slot = 0 => y \notin fresh)
            OBVIOUS
        <5>1. k \in 1 .. n /\ xs[k] = x
            BY <2>2
        <5>2. y # x
            BY <1>6, <3>2, <5>1 DEF y
        <5>3. Rank[y] < Rank[x]
            BY <3>2, <5>1 DEF y, Ascending
        <5>4. Rank[y] \in Nat /\ Rank[x] \in Nat
            BY <1>5, <2>1, <3>1, RankIsNat
        <5>5. slot = 0 => y \notin fresh
            BY <2>3, <5>3, <5>4
        <5> QED
            BY <5>2, <5>5
      <4>4. e.slot # y \/ (y \in q.req /\ y \in e.latched)
          BY <1>1, <1>2, <1>10, <2>1, <2>4, <3>1, <4>3
      <4>5. y \notin q.req \/ y \in e.latched \/ e.slot # 0
          BY <1>1, <1>2, <2>4, <3>1, <4>3
      <4> QED
          BY <1>1, <1>2, <1>5, <3>1, <4>2, <4>4, <4>5, CleanTurn DEF y
    <3>3. CASE i = k
      <4>1. i - 1 < k /\ ~(i < k) /\ claims /\ y = x
          BY <1>6, <2>2, <3>3 DEF y
      <4>2. s[i - 1] = Cleaned(q, e, T) /\ s[i] = Cleaned(q, LatchClaimed(e, x), T \cup {x})
          BY <2>6, <2>7, <3>1, <4>1 DEF T, d
      <4> QED
          BY <1>1, <1>2, <2>1, <4>1, <4>2, LatchClaimTurn DEF y
    <3>4. CASE k < i
      <4>1. ~(i - 1 < k) /\ ~(i < k) /\ claims /\ k \in 1 .. n /\ xs[k] = x
          BY <1>6, <2>2, <3>4
      <4>2. s[i - 1] = Cleaned(q, d, T) /\ s[i] = Cleaned(q, d, T \cup {y})
          BY <2>6, <2>7, <3>1, <4>1 DEF T
      <4>3. d.slot # y /\ d.slot # 0 /\ d \in Routings
          BY <1>6, <2>1, <2>5, <3>4, <4>1 DEF y
      <4>4. d.latched \subseteq Irqs
          BY <1>1, <1>5, <2>1, <2>5, <4>1
      <4> QED
          BY <1>1, <3>1, <4>2, <4>3, <4>4, CleanTurn DEF y
    <3> QED
        BY <3>2, <3>3, <3>4
  <2>10. r = s[n]
      BY <1>2, <1>4, <1>7, <2>8, <2>9, RowGoes
  <2>11. CASE claims
    <3>0. ~(n < k)
        BY <1>6, <2>2, <2>11
    <3>1. s[n] = Cleaned(q, d, F)
        BY <1>8, <2>6, <2>7, <3>0
    <3>2. /\ r.slot = d.slot /\ r.mip = d.mip /\ r.mie = d.mie
          /\ r.iactr = d.iactr /\ r.ipr = d.ipr /\ r.latched = d.latched \ (F \ q.req)
      <4>1. d \in Routings /\ r = Cleaned(q, d, F)
          BY <2>5, <2>10, <2>11, <3>1
      <4>2. IsCleaned(Cleaned(q, d, F), q, d, F)
          BY <4>1, CleanedFields
      <4> QED
          BY <4>1, <4>2 DEF IsCleaned
    <3>3. ClaimSlot(x) /\ UNCHANGED ipr
        BY <1>3, <1>5, <2>1, <2>5, <2>11, <3>2 DEF ClaimSlot
    <3>4. latched' = (latched \ (F \ want)) \cup {slot'}
        BY <1>1, <1>3, <2>1, <2>5, <2>11, <3>2
    <3> QED
        BY <2>11, <3>3, <3>4 DEF LatchResync, claims, x
  <2>12. CASE ~claims
    <3>1. s[n] = Cleaned(q, e, F)
        BY <1>6, <1>8, <2>2, <2>6, <2>7, <2>12
    <3>2. /\ r.slot = e.slot /\ r.mip = e.mip /\ r.mie = e.mie
          /\ r.iactr = e.iactr /\ r.ipr = e.ipr /\ r.latched = e.latched \ (F \ q.req)
      <4>1. r = Cleaned(q, e, F)
          BY <2>10, <3>1
      <4>2. IsCleaned(Cleaned(q, e, F), q, e, F)
          BY <1>2, CleanedFields
      <4> QED
          BY <4>1, <4>2 DEF IsCleaned
    <3>3. latched' = latched \ (F \ want)
        BY <1>1, <1>2, <1>3, <3>2
    <3> QED
        BY <1>2, <1>3, <1>10, <2>4, <2>12, <3>2, <3>3 DEF LatchResync
  <2> QED
      BY <2>11, <2>12
\* A release, somewhere in the row.
<1>11. CASE slot \in F \ want
  <2>1. PICK k \in 1 .. n : xs[k] = slot
      BY <1>6, <1>11
  <2>2. slot # 0 /\ slot \in Irqs /\ slot \in LatchOneIrqs /\ slot \notin q.req /\ slot \in Nat
      BY <1>1, <1>5, <1>11, IrqFacts
  <2> DEFINE b == Cleaned(q, e, had(k - 1))
             c == Disown(DisableMeip(LowerMeip(b)), slot)
             f == walk[c]
  <2>3. /\ Without(c) /\ StartsFree(c) /\ c.latched = latched \ (had(k - 1) \ q.req)
        /\ b.slot = slot
    <3> DEFINE T == had(k - 1)
    <3>0. IsCleaned(b, q, e, T)
      <4> HIDE DEF T
      <4> QED
          BY <1>2, CleanedFields DEF T
    <3> HIDE DEF b
    <3>1. /\ b \in Routings /\ b.slot = slot /\ b.mip = mip /\ b.mie = mie
          /\ b.iactr = iactr /\ b.ipr = ipr /\ b.latched = latched \ (had(k - 1) \ q.req)
        BY <1>2, <3>0 DEF IsCleaned
    <3>2. c \in Routings
      <4>1. LowerMeip(b) \in Routings
          BY <2>2, <3>1, BuildingBlocks
      <4>2. DisableMeip(LowerMeip(b)) \in Routings
          BY <2>2, <4>1, BuildingBlocks
      <4> QED
          BY <2>2, <4>2, BuildingBlocks
    <3>3. /\ c.slot = 0 /\ c.mip = mip \ {"MEIP"} /\ c.mie = mie \ {"MEIP"}
          /\ c.iactr = iactr \ {slot} /\ c.ipr = ipr /\ c.latched = b.latched
        BY <3>1 DEF Disown, DisableMeip, LowerMeip, Routings
    <3> HIDE DEF c
    <3> QED
        BY <1>5, <3>1, <3>2, <3>3 DEF Without, StartsFree
  <2> HIDE DEF c
  <2>4. Rescanned(q, c, f)
      BY <1>1, <2>3, PendingCloses DEF walk
  <2> HIDE DEF f
  <2>5. /\ f \in Routings /\ f.slot \in q.req \cup {0} /\ f.latched \subseteq q.req
        /\ \A y \in (q.req \cap LatchIrqs) \ f.latched : f.slot \notin {0, y}
    <3>1. q.req \ c.latched # {} => FirstInTable(q.req \ c.latched) \in q.req \ c.latched
      <4>1. q.req \ c.latched \in SUBSET TableIrqs
          BY <1>1, <1>5
      <4> QED
          BY <4>1, FirstIsIn
    <3>2. 0 \notin q.req /\ 0 \notin LatchIrqs
        BY <1>1, <1>5, IrqFacts
    <3>3. f.latched = (c.latched \cap q.req) \cup ({f.slot} \cap LatchIrqs) /\ f \in Routings
          /\ f.slot = IF q.req \ c.latched = {} THEN 0 ELSE FirstInTable(q.req \ c.latched)
        BY <2>4 DEF Rescanned
    <3> QED
        BY <3>1, <3>2, <3>3
  <2> DEFINE s == [i \in 0 .. n |-> IF i < k THEN Cleaned(q, e, had(i)) ELSE f]
  <2>6. 0 \in 0 .. n /\ n \in 0 .. n /\ 0 < k /\ ~(n < k)
        /\ \A i \in 1 .. n : i \in 0 .. n /\ i - 1 \in 0 .. n
      BY <1>6
  <2>7. \A i \in 0 .. n : s[i] = IF i < k THEN Cleaned(q, e, had(i)) ELSE f
      OBVIOUS
  <2> HIDE DEF s
  <2>8. s[0] = e
      BY <1>2, <1>8, <1>9, <2>6, <2>7
  <2>9. ASSUME NEW i \in 1 .. n PROVE Step(q, walk, s[i - 1], xs[i]) = s[i]
    <3> DEFINE y == xs[i]
    <3>1. y \in F /\ y \in LatchOneIrqs /\ y # 0 /\ y \in LatchIrqs /\ y \in Nat
        BY <1>5, <1>6
    <3> HIDE DEF y
    <3>2. CASE i < k
      <4> DEFINE T == had(i - 1)
      <4>1. i - 1 < k /\ i < k /\ had(i) = T \cup {y}
          BY <1>6, <1>8, <3>2 DEF y
      <4>2. s[i - 1] = Cleaned(q, e, T) /\ s[i] = Cleaned(q, e, T \cup {y})
          BY <2>6, <2>7, <4>1
      <4>3. e.slot # y /\ e.slot # 0
          BY <1>2, <1>6, <2>1, <2>2, <3>2 DEF y
      <4> HIDE DEF T
      <4> QED
          BY <1>1, <1>2, <1>5, <3>1, <4>2, <4>3, CleanTurn DEF y
    <3>3. CASE i = k
      <4>1. i - 1 < k /\ ~(i < k) /\ y = slot
          BY <1>6, <2>1, <3>3 DEF y
      <4>2. s[i - 1] = b /\ s[i] = f
          BY <2>6, <2>7, <3>3, <4>1
      <4>3. b.slot = slot
          BY <2>3
      <4>4. Step(q, walk, b, slot) = LatchOne(q, walk, b, slot)
          BY <1>1, <2>2, LatchTurn
      <4> HIDE DEF b
      <4>5. LatchOne(q, walk, b, slot) = Unlatch(f, slot)
          BY <2>2, <4>3 DEF LatchOne, f, c
      <4>6. Unlatch(f, slot) = f
          BY <2>2, <2>5, UnlatchNothing
      <4> QED
          BY <4>1, <4>2, <4>4, <4>5, <4>6 DEF y
    <3>4. CASE k < i
      <4>1. ~(i - 1 < k) /\ ~(i < k)
          BY <1>6, <3>4
      <4>2. s[i - 1] = f /\ s[i] = f
          BY <2>6, <2>7, <4>1
      <4>3. Step(q, walk, f, y) = IF y \in Irqs THEN LatchOne(q, walk, f, y) ELSE f
          BY <1>1, <3>1, LatchTurn
      <4>4. CASE y \notin q.req
        <5>1. f.slot # y /\ y \notin f.latched
            BY <2>5, <3>1, <4>4
        <5>2. LatchOne(q, walk, f, y) = Unlatch(f, y)
            BY <4>4, <5>1 DEF LatchOne
        <5>3. Unlatch(f, y) = f
            BY <2>5, <3>1, <5>1, UnlatchNothing
        <5> QED
            BY <4>2, <4>3, <5>2, <5>3 DEF y
      <4>5. CASE y \in q.req
        <5>1. y \in f.latched \/ Taken(f, y)
            BY <2>5, <3>1, <4>5 DEF Taken
        <5>2. LatchOne(q, walk, f, y) = f
            BY <4>5, <5>1 DEF LatchOne
        <5> QED
            BY <4>2, <4>3, <5>2 DEF y
      <4> QED
          BY <4>4, <4>5
    <3> QED
        BY <3>2, <3>3, <3>4
  <2>10. r = f
    <3>1. r = s[n]
        BY <1>2, <1>4, <1>7, <2>8, <2>9, RowGoes
    <3> QED
        BY <2>6, <2>7, <3>1
  <2>11. c.latched \subseteq latched /\ q.req \cap c.latched = q.req \cap latched
      BY <2>3
  <2>12. Rescan(FALSE, {})
    <3> DEFINE none == {}
    <3>1. mie' = f.mie \cup (IF f.slot \in none THEN {"MEIP"} ELSE {})
        BY <1>3, <2>10
    <3>2. /\ slot' = f.slot /\ mip' = f.mip /\ iactr' = f.iactr /\ ipr' = f.ipr
          /\ latched' = f.latched
        BY <1>3, <2>10
    <3> HIDE DEF none
    <3>3. Rescan(FALSE, none)
        BY <2>3, <2>4, <2>11, <3>1, <3>2, ReleaseRescans DEF TypeOK
    <3> QED
        BY <3>3 DEF none
  <2> QED
      BY <1>11, <2>12 DEF LatchResync
<1> QED
    BY <1>10, <1>11

-----------------------------------------------------------------------------
(***************************************************************************)
(* ETH10M and the USB hosts.                                               *)
(***************************************************************************)

\* A release that leaves nothing else behind is a Rescan.
LEMMA PlainRelease ==
    ASSUME TypeOK, RequestOK', NEW q, q = Registers',
           NEW c, Without(c), StartsFree(c), c.latched = latched,
           Becomes(ResyncPending(q)[c])
    PROVE  Rescan(FALSE, {})
<1> DEFINE none == {}
           r == ResyncPending(q)[c]
<1>1. RegistersOK(q)
    BY RegistersAre
<1>2. Rescanned(q, c, r)
    BY <1>1, PendingCloses
<1> HIDE DEF r
<1>3. /\ slot' = r.slot /\ mip' = r.mip /\ mie' = r.mie
      /\ iactr' = r.iactr /\ ipr' = r.ipr /\ latched' = r.latched
    BY BecomesFields DEF r
<1>4. mie' = r.mie \cup (IF r.slot \in none THEN {"MEIP"} ELSE {})
    BY <1>3
<1>5. c.latched \subseteq latched /\ q.req \cap c.latched = q.req \cap latched
    OBVIOUS
<1> HIDE DEF none
<1>6. Rescan(FALSE, none)
    BY <1>2, <1>3, <1>4, <1>5, ReleaseRescans DEF TypeOK
<1> QED
    BY <1>6 DEF none

\* A walk leaves the latch of a device without a request clear.
LEMMA RescannedLatch ==
    ASSUME NEW q, RegistersOK(q), NEW c, NEW r, Rescanned(q, c, r),
           NEW x \in TableIrqs, x \notin q.req
    PROVE  r \in Routings /\ x \notin r.latched
<1>1. q.req \ c.latched # {} => FirstInTable(q.req \ c.latched) \in q.req \ c.latched
  <2>1. q.req \ c.latched \in SUBSET TableIrqs
      BY DEF RegistersOK
  <2> QED
      BY <2>1, FirstIsIn
<1>2. r.latched = (c.latched \cap q.req) \cup ({r.slot} \cap LatchIrqs) /\ r \in Routings
      /\ r.slot = IF q.req \ c.latched = {} THEN 0 ELSE FirstInTable(q.req \ c.latched)
    BY DEF Rescanned
<1> QED
    BY <1>1, <1>2, IrqFacts

\* The function of the 10M controller is Eth10mResync.
LEMMA Eth10mRow ==
    ASSUME TypeOK, RequestOK', UNCHANGED vtfInIsr, NEW q, q = Registers',
           Eth10mIrq \in Irqs,
           NEW r, r = Row(q, ResyncPending(q), Routing, << Eth10mIrq >>), Becomes(r)
    PROVE  Eth10mResync
<1> DEFINE e == Routing
           walk == ResyncPending(q)
           n == Eth10mIrq
<1>1. RegistersOK(q) /\ q.req = Requesting' /\ (q.inIsr <=> vtfInIsr > 0)
    BY RegistersAre
<1>2. /\ e \in Routings
      /\ e.slot = slot /\ e.mip = mip /\ e.mie = mie
      /\ e.iactr = iactr /\ e.ipr = ipr /\ e.latched = latched
    BY RoutingIs DEF TypeOK
<1>3. /\ slot' = r.slot /\ mip' = r.mip /\ mie' = r.mie
      /\ iactr' = r.iactr /\ ipr' = r.ipr /\ latched' = r.latched
    BY BecomesFields
<1>4. n \in TableIrqs /\ n \in LatchIrqs /\ n \notin DmaIrqs /\ n \notin UsbIrqs /\ n \notin UsartIrqs
      /\ n \in Nat /\ n # 0
    BY IrqFacts DEF LatchIrqs
<1>5. r = Eth10m(q, walk, e)
  <2>1. r = Step(q, walk, e, n)
      BY <1>2, <1>4, PendingIsTyped, SingleRow
  <2> QED
      BY <1>4, <2>1
      DEF Step, Idle, Turn, SoftwareIrq, SysTickIrq, TimIrqs, EthIrq, Eth10mIrq
<1>6. vtfInIsr \in Nat /\ latched \subseteq Irqs \cap LatchIrqs
    BY DEF TypeOK, HartOK, RouteOK
<1> HIDE DEF e, walk, n
<1>7. CASE n \notin q.req /\ slot = n
  <2> DEFINE c == Disown(DisableMeip(LowerMeip(e)), n)
  <2>1. /\ c \in Routings /\ c.slot = 0 /\ c.mip = mip \ {"MEIP"} /\ c.mie = mie \ {"MEIP"}
        /\ c.iactr = iactr \ {slot} /\ c.ipr = ipr /\ c.latched = latched
    <3>1. LowerMeip(e) \in Routings
        BY <1>2, <1>4, BuildingBlocks
    <3>2. DisableMeip(LowerMeip(e)) \in Routings
        BY <1>4, <3>1, BuildingBlocks
    <3>3. c \in Routings
        BY <1>4, <3>2, BuildingBlocks
    <3> QED
        BY <1>2, <1>7, <3>3 DEF Disown, DisableMeip, LowerMeip, Routings
  <2>2. r = Unlatch(walk[c], n)
      BY <1>2, <1>5, <1>7 DEF Eth10m, n
  <2> HIDE DEF c
  <2>3. Without(c) /\ StartsFree(c)
      BY <1>6, <2>1 DEF Without, StartsFree
  <2>4. Rescanned(q, c, walk[c])
      BY <1>1, <2>3, PendingCloses DEF walk
  <2>5. walk[c] \in Routings /\ n \notin walk[c].latched
      BY <1>1, <1>4, <1>7, <2>4, RescannedLatch
  <2>6. r = walk[c]
      BY <1>4, <2>2, <2>5, UnlatchNothing
  <2>7. Rescan(FALSE, {})
      BY <2>1, <2>3, <2>6, PlainRelease DEF walk
  <2> QED
      BY <1>1, <1>7, <2>7 DEF Eth10mResync, n
<1>8. CASE n \notin q.req /\ slot # n
  <2>1. r = Unlatch(e, n)
      BY <1>2, <1>5, <1>8 DEF Eth10m, n
  <2>2. /\ r.slot = slot /\ r.mip = mip /\ r.mie = mie
        /\ r.iactr = iactr /\ r.ipr = ipr /\ r.latched = latched \ {n}
      BY <1>2, <2>1 DEF Unlatch, Routings
  <2> QED
      BY <1>1, <1>3, <1>8, <2>2 DEF Eth10mResync, n
<1> DEFINE inject == IF n \in latched THEN vtfInIsr = 0 /\ slot = n ELSE slot \in {0, n}
<1>9. CASE n \in q.req /\ ~inject
  <2>1. r = e
      BY <1>1, <1>2, <1>5, <1>6, <1>9 DEF Eth10m, n, Taken
  <2> QED
      BY <1>1, <1>2, <1>3, <1>9, <2>1 DEF Eth10mResync, n, Hold, route
<1>10. CASE n \in q.req /\ inject
  <2> DEFINE v == Disown(DisableMeip(LowerMeip(e)), n)
             w == IF n \in e.latched THEN Unlatch(v, n) ELSE e
  <2>1. r = LatchClaimed(w, n)
      BY <1>1, <1>2, <1>5, <1>6, <1>10 DEF Eth10m, n, Taken, LatchClaimed
  <2>2. /\ w \in Routings /\ w.mip \cup {"MEIP"} = mip \cup {"MEIP"}
        /\ w.mie \cup {"MEIP"} = mie \cup {"MEIP"} /\ w.iactr \cup {n} = iactr \cup {n}
        /\ w.ipr = ipr /\ w.latched \cup {n} = latched \cup {n}
    <3>1. LowerMeip(e) \in Routings
        BY <1>2, <1>4, BuildingBlocks
    <3>2. DisableMeip(LowerMeip(e)) \in Routings
        BY <1>4, <3>1, BuildingBlocks
    <3>3. v \in Routings
        BY <1>4, <3>2, BuildingBlocks
    <3>4. /\ v.mip = mip \ {"MEIP"} /\ v.mie = mie \ {"MEIP"}
          /\ v.iactr = iactr \ {n} /\ v.ipr = ipr /\ v.latched = latched
        BY <1>2, <3>3 DEF Disown, DisableMeip, LowerMeip, Routings
    <3> HIDE DEF v
    <3> DEFINE u == Unlatch(v, n)
    <3>5. /\ u \in Routings /\ u.mip = v.mip /\ u.mie = v.mie
          /\ u.iactr = v.iactr /\ u.ipr = v.ipr /\ u.latched = v.latched \ {n}
        BY <1>4, <3>3, BuildingBlocks DEF Unlatch, Routings
    <3> HIDE DEF u
    <3>6. w = IF n \in latched THEN u ELSE e
        BY <1>2 DEF u
    <3> HIDE DEF w
    <3> QED
        BY <1>2, <3>4, <3>5, <3>6
  <2> HIDE DEF w
  <2>3. /\ r.slot = n /\ r.mip = w.mip \cup {"MEIP"}
        /\ r.mie = w.mie \cup {"MEIP"} /\ r.iactr = w.iactr \cup {n}
        /\ r.ipr = w.ipr /\ r.latched = w.latched \cup {n}
    <3>1. LET d == LatchClaimed(w, n)
          IN  /\ d \in Routings /\ d.slot = n /\ d.mip = w.mip \cup {"MEIP"}
              /\ d.mie = w.mie \cup {"MEIP"} /\ d.iactr = w.iactr \cup {n}
              /\ d.ipr = w.ipr /\ d.latched = w.latched \cup {n}
        BY <1>4, <2>2, LatchClaimedFields
    <3> QED
        BY <2>1, <3>1
  <2>4. ClaimSlot(n) /\ latched' = latched \cup {n} /\ UNCHANGED ipr
      BY <1>3, <1>4, <2>2, <2>3 DEF ClaimSlot
  <2> QED
      BY <1>1, <1>10, <2>4 DEF Eth10mResync, n
<1> QED
    BY <1>7, <1>8, <1>9, <1>10

\* The function of a USB host is UsbResync of it.
LEMMA UsbRow ==
    ASSUME TypeOK, RequestOK', NEW q, q = Registers', NEW x \in UsbIrqs \cap Irqs,
           NEW r, r = Row(q, ResyncPending(q), Routing, << x >>), Becomes(r)
    PROVE  UsbResync(x)
<1> DEFINE e == Routing
           walk == ResyncPending(q)
           on == EnableMeip(e)
<1>1. RegistersOK(q) /\ q.req = Requesting' /\ (x \in q.usb <=> UsbOn(x)')
    BY RegistersAre
<1>2. /\ e \in Routings
      /\ e.slot = slot /\ e.mip = mip /\ e.mie = mie
      /\ e.iactr = iactr /\ e.ipr = ipr /\ e.latched = latched
    BY RoutingIs DEF TypeOK
<1>3. /\ slot' = r.slot /\ mip' = r.mip /\ mie' = r.mie
      /\ iactr' = r.iactr /\ ipr' = r.ipr /\ latched' = r.latched
    BY BecomesFields
<1>4. x \in TableIrqs /\ x \notin LatchIrqs /\ x \notin DmaIrqs /\ x \notin UsartIrqs
      /\ x \in Nat /\ x # 0 /\ x # SoftwareIrq /\ x # SysTickIrq
    BY IrqFacts, TableMembers DEF SoftwareIrq, SysTickIrq
<1>5. r = UsbOne(q, walk, e, x)
  <2>1. r = Step(q, walk, e, x)
      BY <1>2, <1>4, PendingIsTyped, SingleRow
  <2> QED
      BY <1>4, <2>1 DEF Step, Idle, Turn, LatchIrqs
<1>6. latched \subseteq Irqs \cap LatchIrqs
    BY DEF TypeOK, RouteOK
<1>7. x \in q.req => x \in q.usb
    BY <1>1 DEF RegistersOK
<1>8. /\ on \in Routings /\ on.slot = slot /\ on.mip = mip /\ on.mie = mie \cup {"MEIP"}
      /\ on.iactr = iactr /\ on.ipr = ipr /\ on.latched = latched
    BY <1>2, <1>4, BuildingBlocks DEF EnableMeip, Routings
<1> HIDE DEF e, walk
<1>9. CASE x \notin q.usb
  <2> DEFINE off == DisableMeip(e)
             gone == Disown(LowerMeip(off), x)
  <2>1. /\ off \in Routings /\ off.slot = slot /\ off.mip = mip /\ off.mie = mie \ {"MEIP"}
        /\ off.iactr = iactr /\ off.ipr = ipr /\ off.latched = latched
      BY <1>2, <1>4, BuildingBlocks DEF DisableMeip, Routings
  <2>2. r = IF slot = x THEN gone ELSE off
      BY <1>2, <1>5, <1>7, <1>9 DEF UsbOne
  <2> HIDE DEF off
  <2>3. /\ gone.slot = 0 /\ gone.mip = mip \ {"MEIP"} /\ gone.mie = mie \ {"MEIP"}
        /\ gone.iactr = iactr \ {x} /\ gone.ipr = ipr /\ gone.latched = latched
      BY <2>1 DEF Disown, LowerMeip, Routings
  <2> HIDE DEF gone
  <2>4. CASE slot = x
      BY <1>1, <1>3, <1>9, <2>2, <2>3, <2>4 DEF UsbResync
  <2>5. CASE slot # x
      BY <1>1, <1>3, <1>9, <2>1, <2>2, <2>5 DEF UsbResync
  <2> QED
      BY <2>4, <2>5
<1>10. CASE x \in q.req /\ slot \in {0, x}
  <2>1. r = RaiseMeip(Own(on, x))
      BY <1>2, <1>5, <1>7, <1>10 DEF UsbOne, Taken
  <2>2. /\ r.slot = x /\ r.mip = mip \cup {"MEIP"} /\ r.mie = mie \cup {"MEIP"}
        /\ r.iactr = iactr \cup {x} /\ r.ipr = ipr /\ r.latched = latched
    <3>1. /\ r \in Routings
          /\ r = [slot |-> x, mip |-> e.mip \cup {"MEIP"}, mie |-> e.mie \cup {"MEIP"},
                  iactr |-> e.iactr \cup {x}, ipr |-> e.ipr, latched |-> e.latched]
        BY <1>2, <1>4, <2>1, ClaimFields
    <3> QED
        BY <1>2, <3>1
  <2> QED
      BY <1>1, <1>3, <1>4, <1>10, <2>2 DEF UsbResync, ClaimSlot
<1>11. CASE x \in q.usb /\ x \notin q.req /\ slot = x
  <2> DEFINE c == Disown(LowerMeip(on), x)
  <2>1. r = walk[c]
      BY <1>2, <1>5, <1>11 DEF UsbOne
  <2> HIDE DEF on
  <2>2. /\ c \in Routings /\ c.slot = 0 /\ c.mip = mip \ {"MEIP"} /\ c.mie = mie \cup {"MEIP"}
        /\ c.iactr = iactr \ {slot} /\ c.ipr = ipr /\ c.latched = latched
    <3>1. LowerMeip(on) \in Routings
        BY <1>4, <1>8, BuildingBlocks
    <3>2. c \in Routings
        BY <1>4, <3>1, BuildingBlocks
    <3> QED
        BY <1>8, <1>11, <3>2 DEF Disown, LowerMeip, Routings
  <2> HIDE DEF c
  <2>3. Without(c) /\ StartsFree(c)
      BY <1>6, <2>2 DEF Without, StartsFree
  <2>4. Becomes(ResyncPending(q)[c]) /\ c.latched = latched
      BY <2>1, <2>2 DEF walk
  <2>5. Rescan(FALSE, {})
      BY <2>3, <2>4, PlainRelease
  <2> QED
      BY <1>1, <1>11, <2>5 DEF UsbResync
<1>12. CASE x \in q.usb /\ slot # x /\ (x \in q.req => slot # 0)
  <2>1. r = on
      BY <1>2, <1>5, <1>12 DEF UsbOne, Taken
  <2> QED
      BY <1>1, <1>3, <1>8, <1>12, <2>1 DEF UsbResync
<1> QED
    BY <1>7, <1>9, <1>10, <1>11, <1>12

-----------------------------------------------------------------------------
(***************************************************************************)
(* DMA, the core's own rows and mret.                                      *)
(***************************************************************************)

\* e after channel x has taken the slot.
Fired(e, x) == RaiseMeip([EnableMeip(e) EXCEPT !.slot = x])

\* The fields after a channel took the slot.
LEMMA FiredFields ==
    ASSUME NEW e \in Routings, NEW x \in Nat
    PROVE  /\ Fired(e, x) \in Routings
           /\ Fired(e, x) = [slot |-> x, mip |-> e.mip \cup {"MEIP"}, mie |-> e.mie \cup {"MEIP"},
                             iactr |-> e.iactr, ipr |-> e.ipr, latched |-> e.latched]
<1> DEFINE a == EnableMeip(e)
           b == [a EXCEPT !.slot = x]
           r == RaiseMeip(b)
           goal == [slot |-> x, mip |-> e.mip \cup {"MEIP"}, mie |-> e.mie \cup {"MEIP"},
                    iactr |-> e.iactr, ipr |-> e.ipr, latched |-> e.latched]
<1>1. a \in Routings /\ a = [e EXCEPT !.mie = @ \cup {"MEIP"}]
    BY BuildingBlocks DEF EnableMeip
<1>2. /\ a.slot = e.slot /\ a.mip = e.mip /\ a.mie = e.mie \cup {"MEIP"}
      /\ a.iactr = e.iactr /\ a.ipr = e.ipr /\ a.latched = e.latched
    BY <1>1 DEF Routings
<1>3. Fired(e, x) = r
    BY DEF Fired
<1> HIDE DEF a
<1>4. b \in Routings
    BY <1>1, BuildingBlocks
<1>5. /\ b.slot = x /\ b.mip = e.mip /\ b.mie = e.mie \cup {"MEIP"}
      /\ b.iactr = e.iactr /\ b.ipr = e.ipr /\ b.latched = e.latched
    BY <1>1, <1>2 DEF Routings
<1> HIDE DEF b
<1>6. r \in Routings
    BY <1>4, BuildingBlocks
<1>7. /\ r.slot = x /\ r.mip = e.mip \cup {"MEIP"} /\ r.mie = e.mie \cup {"MEIP"}
      /\ r.iactr = e.iactr /\ r.ipr = e.ipr /\ r.latched = e.latched
    BY <1>4, <1>5 DEF RaiseMeip, Routings
<1> HIDE DEF r
<1>8. r = [slot |-> r.slot, mip |-> r.mip, mie |-> r.mie,
           iactr |-> r.iactr, ipr |-> r.ipr, latched |-> r.latched]
    BY <1>6 DEF Routings
<1> QED
    BY <1>3, <1>6, <1>7, <1>8

\* Several channels have set their pending bits.
Pends(e, T) == [e EXCEPT !.ipr = @ \cup T]

\* The fields after channels that lost.
LEMMA PendsFields ==
    ASSUME NEW e \in Routings, NEW T \in SUBSET Nat
    PROVE  /\ Pends(e, T) \in Routings
           /\ Pends(e, T) = [slot |-> e.slot, mip |-> e.mip, mie |-> e.mie,
                             iactr |-> e.iactr, ipr |-> e.ipr \cup T, latched |-> e.latched]
<1> DEFINE r == Pends(e, T)
<1>1. r = [e EXCEPT !.ipr = @ \cup T] /\ e.ipr \cup T \in SUBSET Nat
    BY DEF Pends, Routings
<1>2. r \in Routings
    BY <1>1 DEF Routings
<1>3. /\ r.slot = e.slot /\ r.mip = e.mip /\ r.mie = e.mie
      /\ r.iactr = e.iactr /\ r.ipr = e.ipr \cup T /\ r.latched = e.latched
    BY <1>1 DEF Routings
<1> HIDE DEF r
<1>4. r = [slot |-> r.slot, mip |-> r.mip, mie |-> r.mie,
           iactr |-> r.iactr, ipr |-> r.ipr, latched |-> r.latched]
    BY <1>2 DEF Routings
<1>5. r \in Routings
      /\ r = [slot |-> e.slot, mip |-> e.mip, mie |-> e.mie,
              iactr |-> e.iactr, ipr |-> e.ipr \cup T, latched |-> e.latched]
    BY <1>2, <1>3, <1>4
<1> QED
    BY <1>5 DEF r

\* The turn of a DMA channel is ch32_dma_fire_irq under its own request.
LEMMA DmaTurn ==
    ASSUME NEW q, RegistersOK(q), NEW walk, NEW e, NEW x \in DmaIrqs
    PROVE  Step(q, walk, e, x) = FireIrq(q, e, x, x \in q.req)
<1>1. x \in TableIrqs /\ x \notin UsbIrqs /\ x # SoftwareIrq /\ x # SysTickIrq
      /\ x \notin UsartIrqs /\ x \notin LatchIrqs
    BY IrqFacts, TableMembers DEF SoftwareIrq, SysTickIrq
<1>2. CASE x \in Irqs
    BY <1>1, <1>2 DEF Step, Idle, Turn, LatchIrqs
<1>3. CASE x \notin Irqs
  <2>1. x \notin q.req /\ x \in Idle
      BY <1>1, <1>3 DEF Idle, RegistersOK
  <2> QED
      BY <2>1 DEF Step, FireIrq
<1> QED
    BY <1>2, <1>3

\* One channel.
LEMMA FireOne ==
    ASSUME TypeOK, RequestOK', NEW q, q = Registers', NEW x \in DmaIrqs, NEW ask \in BOOLEAN,
           NEW D, D = (IF ask THEN {x} \cap ienr' ELSE {}),
           Becomes(FireIrq(q, Routing, x, ask))
    PROVE  DmaFire(D)
<1> DEFINE e == Routing
           r == FireIrq(q, e, x, ask)
<1>1. q.ienr = ienr' /\ x \in Nat
    BY RegistersAre, TableIsNat, IrqFacts
<1>2. /\ e \in Routings
      /\ e.slot = slot /\ e.mip = mip /\ e.mie = mie
      /\ e.iactr = iactr /\ e.ipr = ipr /\ e.latched = latched
    BY RoutingIs DEF TypeOK
<1>3. /\ slot' = r.slot /\ mip' = r.mip /\ mie' = r.mie
      /\ iactr' = r.iactr /\ ipr' = r.ipr /\ latched' = r.latched
    BY BecomesFields
<1> HIDE DEF e
<1>4. CASE D = {}
  <2>1. r = e
      BY <1>1, <1>4 DEF FireIrq
  <2> QED
      BY <1>2, <1>3, <1>4, <2>1 DEF DmaFire
<1>5. CASE D = {x} /\ slot # 0
  <2>1. r = [e EXCEPT !.ipr = @ \cup {x}]
      BY <1>1, <1>2, <1>5 DEF FireIrq
  <2>2. /\ r.slot = slot /\ r.mip = mip /\ r.mie = mie
        /\ r.iactr = iactr /\ r.ipr = ipr \cup {x} /\ r.latched = latched
      BY <1>2, <2>1 DEF Routings
  <2> QED
      BY <1>3, <1>5, <2>2 DEF DmaFire
<1>6. CASE D = {x} /\ slot = 0
  <2>1. r = Fired(e, x)
      BY <1>1, <1>2, <1>6 DEF FireIrq, Fired
  <2>2. /\ Fired(e, x) \in Routings
        /\ Fired(e, x) = [slot |-> x, mip |-> e.mip \cup {"MEIP"}, mie |-> e.mie \cup {"MEIP"},
                          iactr |-> e.iactr, ipr |-> e.ipr, latched |-> e.latched]
      BY <1>1, <1>2, FiredFields
  <2>3. Lowest(D) = x
    <3>1. D \in SUBSET Nat /\ x \in D /\ \A y \in D : x <= y
        BY <1>1, <1>6
    <3> QED
        BY <3>1, LowestIs
  <2>4. ClaimSlot(x) /\ ipr' = ipr \cup (D \ {slot'}) /\ UNCHANGED latched
      BY <1>2, <1>3, <1>6, <2>1, <2>2 DEF ClaimSlot
  <2> QED
      BY <1>6, <2>3, <2>4 DEF DmaFire
<1> QED
    BY <1>4, <1>5, <1>6

\* The row.
LEMMA DmaRowFires ==
    ASSUME TypeOK, RequestOK', NEW q, q = Registers',
           NEW r, r = Row(q, ResyncPending(q), Routing, DmaOrder), Becomes(r)
    PROVE  DmaFire(Requesting' \cap DmaIrqs)
<1> DEFINE xs == DmaOrder
           n == 18
           e == Routing
           walk == ResyncPending(q)
           D == Requesting' \cap DmaIrqs
           had(i) == {xs[j] : j \in 1 .. i}
<1>1. RegistersOK(q) /\ q.req = Requesting' /\ q.req \subseteq q.ienr
    BY RegistersAre DEF RegistersOK
<1>2. /\ e \in Routings
      /\ e.slot = slot /\ e.mip = mip /\ e.mie = mie
      /\ e.iactr = iactr /\ e.ipr = ipr /\ e.latched = latched
    BY RoutingIs DEF TypeOK
<1>3. /\ slot' = r.slot /\ mip' = r.mip /\ mie' = r.mie
      /\ iactr' = r.iactr /\ ipr' = r.ipr /\ latched' = r.latched
    BY BecomesFields
<1>4. walk \in [Routings -> Routings] /\ xs \in Seq(Nat) /\ Len(xs) = 18
    BY PendingIsTyped, RowsAreTyped, RowPlaces
<1>5. /\ \A i \in 1 .. 18 : xs[i] \in DmaIrqs /\ xs[i] \in Nat /\ xs[i] # 0
      /\ \A x \in DmaIrqs : \E i \in 1 .. 18 : xs[i] = x
      /\ \A i, j \in 1 .. 18 : i < j => xs[i] < xs[j]
      /\ DmaIrqs \subseteq Nat
  <2>1. DmaIrqs \subseteq Nat /\ 0 \notin DmaIrqs
      BY IrqFacts, TableIsNat
  <2> QED
      BY <2>1, RowPlaces, RowMembers
<1>6. r = Row(q, walk, e, xs)
    OBVIOUS
<1> HIDE DEF e, walk, xs
<1>7. /\ had(0) = {} /\ had(18) = DmaIrqs /\ \A i \in 0 .. 18 : had(i) \subseteq DmaIrqs
      /\ \A i \in 1 .. 18 : had(i) = had(i - 1) \cup {xs[i]}
  <2>1. had(0) = {}
      OBVIOUS
  <2>2. \A i \in 0 .. 18 : had(i) \subseteq DmaIrqs
    <3> SUFFICES ASSUME NEW i \in 0 .. 18, NEW j \in 1 .. i PROVE xs[j] \in DmaIrqs
        OBVIOUS
    <3>1. j \in 1 .. 18
        OBVIOUS
    <3> QED
        BY <1>5, <3>1
  <2>3. had(18) = DmaIrqs
      BY <1>5
  <2>4. ASSUME NEW i \in 1 .. 18 PROVE had(i) = had(i - 1) \cup {xs[i]}
    <3>1. \A j \in 1 .. i : j \in 1 .. i - 1 \/ j = i
        OBVIOUS
    <3>2. \A j \in 1 .. i - 1 : j \in 1 .. i
        OBVIOUS
    <3> QED
        BY <3>1, <3>2
  <2> QED
      BY <2>1, <2>2, <2>3, <2>4
<1> HIDE DEF had
<1>8. ASSUME NEW d \in Routings, NEW T \in SUBSET Nat, NEW x \in DmaIrqs, d.slot # 0
      PROVE  Step(q, walk, Pends(d, T), x) = Pends(d, IF x \in D THEN T \cup {x} ELSE T)
  <2> DEFINE a == Pends(d, T)
             U == T \cup {x}
  <2>1. /\ a \in Routings
        /\ a = [slot |-> d.slot, mip |-> d.mip, mie |-> d.mie,
                iactr |-> d.iactr, ipr |-> d.ipr \cup T, latched |-> d.latched]
      BY <1>8, PendsFields
  <2>2. U \in SUBSET Nat
      BY <1>5, <1>8
  <2> HIDE DEF U
  <2>3. Pends(d, U) = [slot |-> d.slot, mip |-> d.mip, mie |-> d.mie,
                       iactr |-> d.iactr, ipr |-> d.ipr \cup U, latched |-> d.latched]
      BY <1>8, <2>2, PendsFields
  <2>4. Step(q, walk, a, x) = FireIrq(q, a, x, x \in q.req)
      BY <1>1, <1>8, DmaTurn
  <2> HIDE DEF a
  <2>5. CASE x \in D
    <3>1. FireIrq(q, a, x, x \in q.req) = [a EXCEPT !.ipr = @ \cup {x}]
        BY <1>1, <1>8, <2>1, <2>5 DEF FireIrq
    <3>2. [a EXCEPT !.ipr = @ \cup {x}] = [slot |-> d.slot, mip |-> d.mip, mie |-> d.mie,
              iactr |-> d.iactr, ipr |-> (d.ipr \cup T) \cup {x}, latched |-> d.latched]
        BY <2>1
    <3>3. (d.ipr \cup T) \cup {x} = d.ipr \cup U
        BY DEF U
    <3> QED
        BY <2>3, <2>4, <2>5, <3>1, <3>2, <3>3 DEF a, U
  <2>6. CASE x \notin D
    <3>1. FireIrq(q, a, x, x \in q.req) = a
        BY <1>1, <1>8, <2>6 DEF FireIrq
    <3> QED
        BY <2>4, <2>6, <3>1 DEF a
  <2> QED
      BY <2>5, <2>6
<1>9. ASSUME NEW d \in Routings PROVE Pends(d, {}) = d
  <2> DEFINE none == {}
  <2>1. none \in SUBSET Nat /\ d.ipr \cup none = d.ipr
      OBVIOUS
  <2> HIDE DEF none
  <2>2. Pends(d, none) = [slot |-> d.slot, mip |-> d.mip, mie |-> d.mie,
                          iactr |-> d.iactr, ipr |-> d.ipr, latched |-> d.latched]
      BY <2>1, PendsFields
  <2>3. Pends(d, none) = d
      BY <2>2 DEF Routings
  <2> QED
      BY <2>3 DEF none
<1>10. D \subseteq DmaIrqs /\ D \subseteq Nat
    BY <1>5
<1> HIDE DEF D
<1>13. 0 \in 0 .. 18 /\ 18 \in 0 .. 18
      /\ \A i \in 1 .. 18 : i \in 0 .. 18 /\ i - 1 \in 0 .. 18
    OBVIOUS
<1>14. \A i \in 0 .. 18 : had(i) \cap D \in SUBSET Nat
    BY <1>10
<1>11. CASE slot # 0 \/ D = {}
  <2> DEFINE s == [i \in 0 .. 18 |-> Pends(e, had(i) \cap D)]
  <2>1. \A i \in 0 .. 18 : s[i] = Pends(e, had(i) \cap D)
      OBVIOUS
  <2> HIDE DEF s
  <2>2. s[0] = e
    <3>1. s[0] = Pends(e, had(0) \cap D) /\ had(0) \cap D = {}
        BY <1>7, <1>13, <2>1
    <3> QED
        BY <1>2, <1>9, <3>1
  <2>3. ASSUME NEW i \in 1 .. 18 PROVE Step(q, walk, s[i - 1], xs[i]) = s[i]
    <3> DEFINE T == had(i - 1) \cap D
               x == xs[i]
    <3>1. s[i - 1] = Pends(e, T) /\ x \in DmaIrqs /\ T \in SUBSET Nat
        BY <1>5, <1>13, <1>14, <2>1
    <3>2. s[i] = Pends(e, IF x \in D THEN T \cup {x} ELSE T)
      <4>1. had(i) \cap D = IF x \in D THEN T \cup {x} ELSE T
          BY <1>7
      <4> QED
          BY <1>13, <2>1, <4>1
    <3> HIDE DEF x
    <3>5. D = {} => T = {}
        OBVIOUS
    <3> HIDE DEF T
    <3>3. CASE slot # 0
        BY <1>2, <1>8, <3>1, <3>2, <3>3 DEF x
    <3>4. CASE D = {}
      <4>1. s[i - 1] = e /\ s[i] = e
          BY <1>2, <1>9, <3>1, <3>2, <3>4, <3>5
      <4>2. Step(q, walk, e, x) = FireIrq(q, e, x, x \in q.req)
          BY <1>1, <3>1, DmaTurn
      <4>3. x \notin q.req
          BY <1>1, <3>1, <3>4 DEF D
      <4> QED
          BY <4>1, <4>2, <4>3 DEF FireIrq, x
    <3> QED
        BY <1>11, <3>3, <3>4
  <2>4. r = s[18]
    <3>1. \A i \in 1 .. Len(xs) : Step(q, walk, s[i - 1], xs[i]) = s[i]
        BY <1>4, <2>3
    <3>2. Row(q, walk, s[0], xs) = s[Len(xs)]
        BY <1>2, <1>4, <2>2, <3>1, RowGoes
    <3> QED
        BY <1>4, <1>6, <2>2, <3>2
  <2>5. r = Pends(e, D)
    <3>1. had(18) \cap D = D
        BY <1>7, <1>10
    <3> QED
        BY <1>13, <2>1, <2>4, <3>1
  <2>6. Pends(e, D) = [slot |-> e.slot, mip |-> e.mip, mie |-> e.mie,
                       iactr |-> e.iactr, ipr |-> e.ipr \cup D, latched |-> e.latched]
      BY <1>2, <1>10, PendsFields
  <2>7. DmaFire(D)
    <3>1. /\ slot' = slot /\ mip' = mip /\ mie' = mie
          /\ iactr' = iactr /\ ipr' = ipr \cup D /\ latched' = latched
        BY <1>2, <1>3, <2>5, <2>6
    <3> QED
        BY <1>11, <3>1 DEF DmaFire
  <2> QED
      BY <2>7 DEF D
<1>12. CASE slot = 0 /\ D # {}
  <2> DEFINE x == Lowest(D)
             f == Fired(e, x)
  <2>1. x \in D /\ \A y \in D : x <= y
    <3>1. \E z \in D : \A y \in D : z <= y
        BY <1>10, <1>12, LeastNat
    <3> QED
        BY <3>1 DEF Lowest
  <2> HIDE DEF x
  <2>2. PICK k \in 1 .. 18 : xs[k] = x
      BY <1>5, <1>10, <2>1
  <2>3. x \in Nat /\ x # 0 /\ x \in DmaIrqs /\ x \in q.req
      BY <1>1, <1>5, <1>10, <2>1, <2>2 DEF D
  <2>4. /\ f \in Routings
        /\ f = [slot |-> x, mip |-> e.mip \cup {"MEIP"}, mie |-> e.mie \cup {"MEIP"},
                iactr |-> e.iactr, ipr |-> e.ipr, latched |-> e.latched]
      BY <1>2, <2>3, FiredFields
  <2> DEFINE s == [i \in 0 .. 18 |-> IF i < k THEN e ELSE Pends(f, (had(i) \cap D) \ {x})]
  <2>5. \A i \in 0 .. 18 : s[i] = IF i < k THEN e ELSE Pends(f, (had(i) \cap D) \ {x})
      OBVIOUS
  <2> HIDE DEF s, f
  <2>6. \A i \in 1 .. 18 : i < k => xs[i] \notin D
    <3> SUFFICES ASSUME NEW i \in 1 .. 18, i < k PROVE xs[i] \notin D
        OBVIOUS
    <3>1. xs[i] < x /\ xs[i] \in Nat
        BY <1>5, <2>2
    <3> QED
        BY <2>1, <2>3, <3>1
  <2>7. s[0] = e
    <3>1. 0 < k
        OBVIOUS
    <3> QED
        BY <1>13, <2>5, <3>1
  <2>8. ASSUME NEW i \in 1 .. 18 PROVE Step(q, walk, s[i - 1], xs[i]) = s[i]
    <3> DEFINE T == (had(i - 1) \cap D) \ {x}
               y == xs[i]
    <3>1. y \in DmaIrqs /\ T \in SUBSET Nat /\ had(i) = had(i - 1) \cup {y}
        BY <1>5, <1>7, <1>10
    <3>0. i \in 0 .. 18 /\ i - 1 \in 0 .. 18
        OBVIOUS
    <3>2. CASE i < k
      <4>1. s[i - 1] = e /\ s[i] = e
        <5>1. i - 1 < k
            BY <3>2
        <5> QED
            BY <2>5, <3>0, <3>2, <5>1
      <4>2. y \notin q.req
          BY <1>1, <1>5, <2>6, <3>2 DEF D
      <4>3. Step(q, walk, e, y) = FireIrq(q, e, y, y \in q.req)
          BY <1>1, <3>1, DmaTurn
      <4> HIDE DEF y
      <4> QED
          BY <4>1, <4>2, <4>3 DEF FireIrq, y
    <3>3. CASE i = k
      <4>1. s[i - 1] = e /\ y = x /\ s[i] = Pends(f, (had(i) \cap D) \ {x})
        <5>1. i - 1 < k /\ ~(i < k)
            BY <3>3
        <5> QED
            BY <2>2, <2>5, <3>0, <3>3, <5>1
      <4>2. (had(i) \cap D) \ {x} = {}
        <5> SUFFICES ASSUME NEW j \in 1 .. i, xs[j] \in D PROVE xs[j] = x
            BY DEF had
        <5>1. j \in 1 .. 18 /\ (j < k \/ j = k)
            BY <3>3
        <5> QED
            BY <2>2, <2>6, <5>1
      <4>3. s[i] = f
          BY <1>9, <2>4, <4>1, <4>2
      <4>4. Step(q, walk, e, x) = FireIrq(q, e, x, x \in q.req)
          BY <1>1, <2>3, DmaTurn
      <4>5. FireIrq(q, e, x, x \in q.req) = f
          BY <1>1, <1>2, <1>12, <2>3 DEF FireIrq, f, Fired
      <4> HIDE DEF y
      <4> QED
          BY <4>1, <4>3, <4>4, <4>5 DEF y
    <3>4. CASE k < i
      <4>1. y # x
          BY <1>5, <2>2, <3>4
      <4>2. s[i - 1] = Pends(f, T) /\ s[i] = Pends(f, (had(i) \cap D) \ {x})
        <5>1. ~(i - 1 < k) /\ ~(i < k) /\ i - 1 \in 0 .. 18 /\ i \in 0 .. 18
            BY <3>4
        <5> QED
            BY <2>5, <5>1
      <4>3. (had(i) \cap D) \ {x} = IF y \in D THEN T \cup {y} ELSE T
          BY <3>1, <4>1
      <4>4. f.slot # 0
          BY <2>3, <2>4
      <4> HIDE DEF T, y
      <4>5. Step(q, walk, Pends(f, T), y) = Pends(f, IF y \in D THEN T \cup {y} ELSE T)
          BY <1>8, <2>4, <3>1, <4>4
      <4> QED
          BY <4>2, <4>3, <4>5 DEF y
    <3> QED
        BY <3>2, <3>3, <3>4
  <2>9. r = s[18]
    <3>1. \A i \in 1 .. Len(xs) : Step(q, walk, s[i - 1], xs[i]) = s[i]
        BY <1>4, <2>8
    <3>2. Row(q, walk, s[0], xs) = s[Len(xs)]
        BY <1>2, <1>4, <2>7, <3>1, RowGoes
    <3> QED
        BY <1>4, <1>6, <2>7, <3>2
  <2>10. r = Pends(f, D \ {x})
    <3>1. ~(18 < k) /\ 18 \in 0 .. 18
        OBVIOUS
    <3>2. had(18) \cap D = D
        BY <1>7, <1>10
    <3> QED
        BY <2>5, <2>9, <3>1, <3>2
  <2>11. Pends(f, D \ {x}) = [slot |-> f.slot, mip |-> f.mip, mie |-> f.mie, iactr |-> f.iactr,
                              ipr |-> f.ipr \cup (D \ {x}), latched |-> f.latched]
    <3> DEFINE T == D \ {x}
    <3>1. T \in SUBSET Nat
        BY <1>10
    <3> HIDE DEF T
    <3>2. Pends(f, T) = [slot |-> f.slot, mip |-> f.mip, mie |-> f.mie, iactr |-> f.iactr,
                         ipr |-> f.ipr \cup T, latched |-> f.latched]
        BY <2>4, <3>1, PendsFields
    <3> QED
        BY <3>2 DEF T
  <2>12. ClaimSlot(x) /\ ipr' = ipr \cup (D \ {slot'}) /\ UNCHANGED latched
    <3>1. /\ slot' = x /\ mip' = mip \cup {"MEIP"} /\ mie' = mie \cup {"MEIP"}
          /\ iactr' = iactr /\ ipr' = ipr \cup (D \ {x}) /\ latched' = latched
        BY <1>2, <1>3, <2>4, <2>10, <2>11
    <3>2. {x} \ DmaIrqs = {}
        BY <2>3
    <3> QED
        BY <3>1, <3>2 DEF ClaimSlot
  <2>13. DmaFire(D)
      BY <1>12, <2>12 DEF DmaFire, x
  <2> QED
      BY <2>13 DEF D
<1> QED
    BY <1>11, <1>12

-----------------------------------------------------------------------------
(***************************************************************************)
(* The rows of the core, mret, and the steps.                              *)
(***************************************************************************)

\* The rows are ascending, by number and by rank.
LEMMA AscendingRows ==
    /\ Ascending(LiteOrder) /\ Ascending(TimOrder)
    /\ \A x \in Nat : << x >> \in Seq(Nat) /\ Ascending(<< x >>) /\ Units(<< x >>) = {x}
<1>1. Ascending(LiteOrder)
    BY RowPlaces, RowMembers DEF Ascending
<1>2. Ascending(TimOrder)
    BY RowPlaces, RowMembers DEF Ascending
<1>3. ASSUME NEW x \in Nat
      PROVE  << x >> \in Seq(Nat) /\ Ascending(<< x >>) /\ Units(<< x >>) = {x}
  <2>1. << x >> \in Seq(Nat) /\ Len(<< x >>) = 1 /\ << x >>[1] = x
      OBVIOUS
  <2>2. \A i \in 1 .. 1 : i = 1
      OBVIOUS
  <2> QED
      BY <2>1, <2>2 DEF Ascending, Units
<1> QED
    BY <1>1, <1>2, <1>3

\* What a device calls after an event of its own.
LEMMA DeviceHandles ==
    ASSUME TypeOK, RequestOK', UNCHANGED vtfInIsr, NEW q, q = Registers',
           NEW x \in Irqs \cap (TableIrqs \ DmaIrqs),
           NEW xs, xs = IF x \in LiteIrqs THEN LiteOrder ELSE << x >>,
           Becomes(Row(q, ResyncPending(q), Routing, xs))
    PROVE  DeviceResync(x)
<1> DEFINE r == Row(q, ResyncPending(q), Routing, xs)
<1>1. x \in Nat /\ Ascending(<< x >>) /\ Units(<< x >>) = {x} /\ << x >> \in Seq(Nat)
    BY TableIsNat, AscendingRows
<1>2. r = Row(q, ResyncPending(q), Routing, xs) /\ Becomes(r)
    OBVIOUS
<1> HIDE DEF r
<1>3. CASE x \in LiteIrqs
  <2>1. Ascending(LiteOrder) /\ LiteOrder \in Seq(Nat) /\ Units(LiteOrder) = LiteIrqs
        /\ LiteIrqs \in SUBSET UsartIrqs
      BY AscendingRows, RowsAreTyped, RowUnits DEF UsartIrqs
  <2>2. UsartResync(LiteIrqs)
      BY <1>2, <1>3, <2>1, UsartRow
  <2> QED
      BY <1>3, <2>2 DEF DeviceResync
<1>4. CASE x = Usart1Irq
  <2>1. x \notin LiteIrqs /\ {x} \in SUBSET UsartIrqs
      BY <1>4 DEF LiteIrqs, Usart1Irq, UsartIrqs
  <2>2. UsartResync({x})
      BY <1>1, <1>2, <2>1, UsartRow
  <2> QED
      BY <1>4, <2>2 DEF DeviceResync
<1>5. CASE x \in LatchOneIrqs
  <2>1. x \notin LiteIrqs /\ {x} \in SUBSET LatchOneIrqs
      BY <1>5 DEF LiteIrqs, LatchOneIrqs, TimIrqs, EthIrq
  <2>2. LatchResync({x})
      BY <1>1, <1>2, <2>1, LatchRow
  <2> QED
      BY <1>5, <2>2 DEF DeviceResync, LatchOneIrqs
<1>6. CASE x = Eth10mIrq
  <2>1. x \notin LiteIrqs
      BY <1>6 DEF LiteIrqs, Eth10mIrq
  <2>2. Eth10mResync
      BY <1>2, <1>6, <2>1, Eth10mRow
  <2> QED
      BY <1>6, <2>2 DEF DeviceResync
<1>7. CASE x \in UsbIrqs
  <2>1. x \notin LiteIrqs
      BY <1>7 DEF LiteIrqs, UsbIrqs, UsbHsIrq, UsbFsIrq
  <2>2. UsbResync(x)
      BY <1>2, <1>7, <2>1, UsbRow
  <2> QED
      BY <1>7, <2>2 DEF DeviceResync
<1> QED
    BY <1>3, <1>4, <1>5, <1>6, <1>7 DEF TableIrqs, UsartIrqs, LatchIrqs, LatchOneIrqs

\* The device calls the function of its row; a timer resyncs itself alone.
LEMMA DeviceHandlerResyncs ==
    ASSUME TypeOK, RequestOK', UNCHANGED vtfInIsr,
           NEW x \in Irqs \cap (TableIrqs \ DmaIrqs),
           Becomes(DeviceHandler(Registers', Routing, x))
    PROVE  DeviceResync(x)
<1> DEFINE q == Registers'
           xs == IF x \in LiteIrqs THEN LiteOrder ELSE << x >>
<1>1. (IF x \in TimIrqs THEN << x >> ELSE RowOf(x)) = xs
    BY DEF RowOf, LiteIrqs, TimIrqs
<1>2. Becomes(Row(q, ResyncPending(q), Routing, xs))
    BY <1>1 DEF DeviceHandler
<1> HIDE DEF q, xs
<1>3. q = Registers'
    BY DEF q
<1>4. xs = IF x \in LiteIrqs THEN LiteOrder ELSE << x >>
    BY DEF xs
<1> QED
    BY <1>2, <1>3, <1>4, DeviceHandles

\* What a write to IENR or IRER that changes bit x calls.
LEMMA ChangedResyncs ==
    ASSUME TypeOK, RequestOK', UNCHANGED vtfInIsr, NEW x \in PficIrqs,
           Becomes(ResyncChanged(Registers', Routing, x))
    PROVE  RowResync(x)
<1> DEFINE q == Registers'
           e == Routing
           r == Row(q, ResyncPending(q), e, RowOf(x))
<1>1. Becomes(r)
    BY DEF ResyncChanged
<1>2. q = Registers' /\ r = Row(q, ResyncPending(q), Routing, RowOf(x))
    OBVIOUS
<1> HIDE DEF q
<1>3. /\ e \in Routings
      /\ e.slot = slot /\ e.mip = mip /\ e.mie = mie
      /\ e.iactr = iactr /\ e.ipr = ipr /\ e.latched = latched
    BY RoutingIs DEF TypeOK
<1>4. /\ slot' = r.slot /\ mip' = r.mip /\ mie' = r.mie
      /\ iactr' = r.iactr /\ ipr' = r.ipr /\ latched' = r.latched
    BY <1>1, BecomesFields
<1>5. q.ienr = ienr' /\ q.stk = stk'
    BY <1>2, RegistersAre
<1>6. x \in Nat
    BY IrqFacts DEF PficIrqs, SoftwareIrq, SysTickIrq
<1>7. CASE x \in TimIrqs
  <2>1. RowOf(x) = TimOrder
    <3>1. x \notin LiteIrqs /\ x \notin DmaIrqs
        BY <1>7 DEF LiteIrqs, TimIrqs, DmaIrqs, Dma1Irqs, Dma2Irqs, DmaExIrqs
    <3> QED
        BY <1>7, <3>1 DEF RowOf
  <2>2. Ascending(TimOrder) /\ TimOrder \in Seq(Nat) /\ Units(TimOrder) = TimIrqs
        /\ TimIrqs \in SUBSET LatchOneIrqs
      BY AscendingRows, RowsAreTyped, RowUnits DEF LatchOneIrqs
  <2> HIDE DEF r
  <2>3. LatchResync(TimIrqs)
      BY <1>1, <1>2, <2>1, <2>2, LatchRow
  <2> QED
      BY <1>7, <2>3 DEF RowResync
<1>8. CASE x \in DmaIrqs
  <2>1. RowOf(x) = DmaOrder
      BY <1>8 DEF RowOf, LiteIrqs, TimIrqs, DmaIrqs, Dma1Irqs, Dma2Irqs, DmaExIrqs
  <2> HIDE DEF r
  <2>2. DmaFire(Requesting' \cap DmaIrqs)
      BY <1>1, <1>2, <2>1, DmaRowFires
  <2> QED
      BY <1>8, <2>2 DEF RowResync
<1>9. CASE x \in TableIrqs /\ x \notin TimIrqs /\ x \notin DmaIrqs
  <2>1. RowOf(x) = IF x \in LiteIrqs THEN LiteOrder ELSE << x >>
      BY <1>9 DEF RowOf
  <2>2. x \in Irqs \cap (TableIrqs \ DmaIrqs)
      BY <1>9, IrqFacts DEF PficIrqs
  <2>3. Becomes(Row(q, ResyncPending(q), Routing, RowOf(x)))
      BY <1>1
  <2> HIDE DEF r
  <2>4. DeviceResync(x)
      BY <1>2, <2>1, <2>2, <2>3, DeviceHandles
  <2>5. x \in UsartIrqs \cup UsbIrqs \cup {EthIrq, Eth10mIrq}
      BY <1>9 DEF TableIrqs, LatchIrqs
  <2> QED
      BY <2>4, <2>5 DEF RowResync
<1>10. ASSUME x \notin TableIrqs PROVE r = Step(q, ResyncPending(q), e, x)
  <2>1. RowOf(x) = << x >>
      BY <1>10 DEF RowOf, TableIrqs, UsartIrqs, LatchIrqs
  <2> HIDE DEF e
  <2>2. Row(q, ResyncPending(q), e, << x >>) = Step(q, ResyncPending(q), e, x)
      BY <1>3, <1>6, PendingIsTyped, SingleRow
  <2> QED
      BY <2>1, <2>2
<1>11. CASE x = SoftwareIrq
  <2>1. x \notin TableIrqs
      BY <1>11, TableMembers DEF SoftwareIrq
  <2>2. r = SoftMieSync(q, e)
    <3>1. r = Step(q, ResyncPending(q), e, SoftwareIrq)
        BY <1>10, <1>11, <2>1
    <3> HIDE DEF e, r
    <3> QED
        BY <3>1, CoreTurns
  <2> HIDE DEF e, r
  <2>3. SoftwareMieSync
    <3>1. CASE SoftwareIrq \in q.ienr
      <4>1. r = [e EXCEPT !.mie = @ \cup {"MSIP"}]
          BY <2>2, <3>1 DEF SoftMieSync
      <4> QED
          BY <1>3, <1>4, <1>5, <3>1, <4>1 DEF SoftwareMieSync, Routings
    <3>2. CASE SoftwareIrq \notin q.ienr
      <4>1. r = [e EXCEPT !.mie = @ \ {"MSIP"}, !.mip = @ \ {"MSIP"}]
          BY <2>2, <3>2 DEF SoftMieSync
      <4> QED
          BY <1>3, <1>4, <1>5, <3>2, <4>1 DEF SoftwareMieSync, Routings
    <3> QED
        BY <3>1, <3>2
  <2> QED
      BY <1>11, <2>3 DEF RowResync
<1>12. CASE x = SysTickIrq
  <2>1. x \notin TableIrqs
      BY <1>12, TableMembers DEF SysTickIrq
  <2>2. r = StkScheduleRow(q, e)
    <3>1. r = Step(q, ResyncPending(q), e, SysTickIrq)
        BY <1>10, <1>12, <2>1
    <3> HIDE DEF e, r
    <3> QED
        BY <3>1, CoreTurns
  <2> HIDE DEF e, r
  <2>3. StkSchedule
    <3>1. CASE q.stk = "off"
      <4>1. r = [e EXCEPT !.mip = @ \ {"MTIP"}]
          BY <2>2, <3>1 DEF StkScheduleRow
      <4> QED
          BY <1>3, <1>4, <1>5, <3>1, <4>1 DEF StkSchedule, Routings
    <3>2. CASE q.stk # "off"
      <4>1. r = e
          BY <2>2, <3>2 DEF StkScheduleRow
      <4> QED
          BY <1>3, <1>4, <1>5, <3>2, <4>1 DEF StkSchedule
    <3> QED
        BY <3>1, <3>2
  <2> QED
      BY <1>12, <2>3 DEF RowResync
<1>13. CASE x \notin TableIrqs /\ x # SoftwareIrq /\ x # SysTickIrq
  <2>1. r = e
      BY <1>10, <1>13 DEF Step, Idle, Turn, TableIrqs, LatchIrqs
  <2> HIDE DEF e, r
  <2> QED
      BY <1>3, <1>4, <1>13, <2>1 DEF RowResync, Hold, route
<1> QED
    BY <1>7, <1>8, <1>9, <1>11, <1>12, <1>13

\* mret: the walk, and if it leaves the slot free a pending software interrupt.
LEMMA MretRescans ==
    ASSUME TypeOK, RequestOK', NEW q, q = Registers',
           Becomes(OnMret(q, Routing))
    PROVE  Rescan(TRUE, {})
<1> DEFINE e == Routing
           d == Disown(e, e.slot)
           c == LowerMeip(d)
           r == ResyncPending(q)[c]
           hw == Requesting' \ latched
           pend == (ienr' \cap ipr) \ (TableIrqs \cup {SoftwareIrq, SysTickIrq})
<1>1. RegistersOK(q) /\ q.req = Requesting' /\ q.ienr = ienr'
      /\ Requesting' \subseteq Irqs \cap TableIrqs
    BY RegistersAre DEF RegistersOK
<1>2. /\ e \in Routings
      /\ e.slot = slot /\ e.mip = mip /\ e.mie = mie
      /\ e.iactr = iactr /\ e.ipr = ipr /\ e.latched = latched
    BY RoutingIs DEF TypeOK
<1>3. /\ slot \in Nat /\ iactr \in SUBSET Nat
      /\ ipr \subseteq Owners \cup {SoftwareIrq}
      /\ latched \subseteq Irqs \cap LatchIrqs
    BY <1>2 DEF TypeOK, RouteOK, Routings
<1>4. Becomes(SoftwarePending(q, r))
    BY DEF OnMret
<1> HIDE DEF e
<1>5. d \in Routings /\ d.slot = 0 /\ d.mip = mip /\ d.mie = mie
      /\ d.iactr = iactr \ {slot} /\ d.ipr = ipr /\ d.latched = latched
  <2>1. d \in Routings
      BY <1>2, <1>3, BuildingBlocks
  <2> QED
      BY <1>2, <2>1 DEF Disown, Routings
<1> HIDE DEF d
<1>6. Without(c) /\ StartsFree(c) /\ c.latched = latched
  <2>1. c \in Routings
      BY <1>5, <1>3, BuildingBlocks
  <2>2. /\ c.slot = 0 /\ c.mip = mip \ {"MEIP"} /\ c.mie = mie
        /\ c.iactr = iactr \ {slot} /\ c.ipr = ipr /\ c.latched = latched
      BY <1>5, <2>1 DEF LowerMeip, Routings
  <2> HIDE DEF c
  <2> QED
      BY <1>3, <2>1, <2>2 DEF Without, StartsFree
<1> HIDE DEF c
<1>7. Rescanned(q, c, r)
    BY <1>1, <1>6, PendingCloses
<1> HIDE DEF r
<1>8. /\ r \in Routings
      /\ r.slot = (IF hw # {} THEN FirstInTable(hw) ELSE 0)
      /\ hw # {} => r.slot # 0
      /\ (r.ipr \cap q.ienr) \ (TableIrqs \cup {SoftwareIrq, SysTickIrq}) = pend
  <2>1. hw # {} => FirstInTable(hw) \in hw
    <3>1. hw \in SUBSET TableIrqs
        BY <1>1
    <3> HIDE DEF hw
    <3> QED
        BY <3>1, FirstIsIn
  <2>2. r.slot = (IF hw # {} THEN FirstInTable(hw) ELSE 0)
      BY <1>1, <1>6, <1>7 DEF Rescanned
  <2>3. r.ipr = ipr \cup (Requesting' \cap DmaIrqs)
      BY <1>1, <1>6, <1>7 DEF Rescanned, Without
  <2>5. (r.ipr \cap q.ienr) \ (TableIrqs \cup {SoftwareIrq, SysTickIrq}) = pend
      BY <1>1, <1>3, <2>3
  <2>6. 0 \notin hw
      BY <1>1, IrqFacts
  <2> QED
      BY <1>7, <2>1, <2>2, <2>5, <2>6 DEF Rescanned
<1>9. CASE hw # {} \/ pend = {}
  <2>1. SoftwarePending(q, r) = r
      BY <1>8, <1>9 DEF SoftwarePending
  <2>2. /\ slot' = r.slot /\ mip' = r.mip /\ mie' = r.mie
        /\ iactr' = r.iactr /\ ipr' = r.ipr /\ latched' = r.latched
      BY <1>4, <2>1, BecomesFields
  <2>3. Rescan(FALSE, {})
    <3> DEFINE none == {}
    <3>1. mie' = r.mie \cup (IF r.slot \in none THEN {"MEIP"} ELSE {})
        BY <2>2
    <3> HIDE DEF none
    <3>2. Rescan(FALSE, none)
        BY <1>6, <1>7, <2>2, <3>1, ReleaseRescans DEF TypeOK
    <3> QED
        BY <3>2 DEF none
  <2> QED
      BY <1>9, <2>3 DEF Rescan
<1>10. CASE hw = {} /\ pend # {}
  <2> DEFINE x == Lowest(pend)
             f == RaiseMeip(Own(EnableMeip(r), x))
             g == [f EXCEPT !.ipr = @ \ {x}]
  <2>1. x \in pend /\ x \in Nat /\ x \notin TableIrqs
        /\ x \notin DmaIrqs /\ x \notin LatchIrqs /\ x # 0
    <3>1. pend \in SUBSET Nat /\ pend # {} /\ 0 \notin pend
        BY <1>3, <1>10, IrqFacts DEF SoftwareIrq
    <3>2. pend \cap TableIrqs = {}
        OBVIOUS
    <3> HIDE DEF pend
    <3>3. x \in pend /\ x \in Nat
        BY <3>1, LowestIsIn
    <3> QED
        BY <3>1, <3>2, <3>3, IrqFacts
  <2>2. SoftwarePending(q, r) = g
      BY <1>8, <1>10 DEF SoftwarePending
  <2> HIDE DEF pend, x
  <2>3. /\ f \in Routings
        /\ f = [slot |-> x, mip |-> r.mip \cup {"MEIP"}, mie |-> r.mie \cup {"MEIP"},
                iactr |-> r.iactr \cup {x}, ipr |-> r.ipr, latched |-> r.latched]
      BY <1>8, <2>1, ClaimFields
  <2> HIDE DEF f
  <2>4. /\ g.slot = x /\ g.mip = r.mip \cup {"MEIP"} /\ g.mie = r.mie \cup {"MEIP"}
        /\ g.iactr = r.iactr \cup {x} /\ g.ipr = r.ipr \ {x} /\ g.latched = r.latched
      BY <2>3
  <2> HIDE DEF g
  <2>5. /\ slot' = g.slot /\ mip' = g.mip /\ mie' = g.mie
        /\ iactr' = g.iactr /\ ipr' = g.ipr /\ latched' = g.latched
      BY <1>4, <2>2, BecomesFields
  <2>6. /\ q.stk = stk' /\ r.slot = 0
        /\ UsbFsIrq \in q.usb <=> UsbOn(UsbFsIrq)'
      BY <1>8, <1>10, RegistersAre DEF UsbIrqs
  <2> HIDE DEF hw
  <2>7. /\ r.mip = (mip \cap (IF stk' # "off" THEN {"MTIP"} ELSE {}))
                     \cup (mip \cap (IF SoftwareIrq \in ienr' THEN {"MSIP"} ELSE {}))
        /\ r.iactr = iactr \ {slot}
        /\ r.ipr = ipr \cup (Requesting' \cap DmaIrqs)
        /\ r.latched = latched \cap Requesting'
    <3>1. c.mip = mip \ {"MEIP"} /\ c.iactr = iactr \ {slot} /\ c.ipr = ipr
        BY <1>6 DEF Without
    <3>2. /\ r.mip = (IF r.slot # 0 THEN {"MEIP"} ELSE {})
                        \cup (c.mip \cap (IF q.stk # "off" THEN {"MTIP"} ELSE {}))
                        \cup (c.mip \cap (IF SoftwareIrq \in q.ienr THEN {"MSIP"} ELSE {}))
          /\ r.iactr = c.iactr \cup ({r.slot} \ (DmaIrqs \cup {0}))
          /\ r.ipr = c.ipr \cup (q.req \cap DmaIrqs)
          /\ r.latched = (c.latched \cap q.req) \cup ({r.slot} \cap LatchIrqs)
        BY <1>7 DEF Rescanned
    <3>3. 0 \notin LatchIrqs
        BY IrqFacts
    <3>4. /\ r.mip = (c.mip \cap (IF stk' # "off" THEN {"MTIP"} ELSE {}))
                        \cup (c.mip \cap (IF SoftwareIrq \in ienr' THEN {"MSIP"} ELSE {}))
          /\ r.iactr = c.iactr
          /\ r.ipr = c.ipr \cup (Requesting' \cap DmaIrqs)
          /\ r.latched = latched \cap Requesting'
        BY <1>1, <1>6, <2>6, <3>2, <3>3
    <3>5. \A T : T \subseteq {"MTIP", "MSIP"} => c.mip \cap T = mip \cap T
        BY <3>1
    <3> QED
        BY <3>1, <3>4, <3>5
  <2>8. r.mie = (IF UsbOn(UsbFsIrq)' THEN {"MEIP"} ELSE {})
                     \cup (mie \cap {"MTIP"})
                     \cup (IF SoftwareIrq \in ienr' THEN {"MSIP"} ELSE {})
    <3>1. c.mie \cap {"MTIP"} = mie \cap {"MTIP"}
        BY <1>6 DEF Without
    <3>2. 0 \notin DmaIrqs
        BY IrqFacts
    <3>3. r.mie = (IF r.slot \in DmaIrqs \/ UsbFsIrq \in q.usb THEN {"MEIP"} ELSE {})
                       \cup (c.mie \cap {"MTIP"})
                       \cup (IF SoftwareIrq \in q.ienr THEN {"MSIP"} ELSE {})
        BY <1>7 DEF Rescanned
    <3> QED
        BY <1>1, <2>6, <3>1, <3>2, <3>3
  <2>9. /\ slot' = x
        /\ mip' = {"MEIP"}
                    \cup (mip \cap (IF stk' # "off" THEN {"MTIP"} ELSE {}))
                    \cup (mip \cap (IF SoftwareIrq \in ienr' THEN {"MSIP"} ELSE {}))
        /\ mie' = {"MEIP"}
                    \cup (mie \cap {"MTIP"})
                    \cup (IF SoftwareIrq \in ienr' THEN {"MSIP"} ELSE {})
        /\ iactr' = (iactr \ {slot}) \cup {x}
        /\ ipr' = (ipr \ {x}) \cup (Requesting' \cap DmaIrqs)
        /\ latched' = latched \cap Requesting'
    <3>1. (ipr \cup (Requesting' \cap DmaIrqs)) \ {x} = (ipr \ {x}) \cup (Requesting' \cap DmaIrqs)
        BY <2>1
    <3> QED
        BY <2>4, <2>5, <2>7, <2>8, <3>1
  <2>10. /\ pend \cap {x} = {x} /\ {x} \ (DmaIrqs \cup {0}) = {x} /\ {x} \cap LatchIrqs = {}
         /\ x \in DmaIrqs \cup pend \cup {}
      BY <2>1
  <2>11. Requesting' \ latched = {}
         /\ (ienr' \cap ipr) \ (TableIrqs \cup {SoftwareIrq, SysTickIrq}) = pend
         /\ pend # {} /\ x = Lowest(pend)
      BY <1>10 DEF hw, pend, x
  <2> QED
      BY <2>1, <2>9, <2>10, <2>11 DEF Rescan
<1> QED
    BY <1>9, <1>10

\* A device event as its handler runs it is a DeviceEvent.
LEMMA DeviceRefines ==
    ASSUME TypeOK, NEW x, NEW on \in BOOLEAN, HDeviceEvent(x, on) PROVE DeviceEvent(x, on)
<1>1. /\ vtf /\ x \in Irqs \cap (TableIrqs \ DmaIrqs)
      /\ line' = IF on THEN line \cup {x} ELSE line \ {x}
      /\ UNCHANGED << ienr, gate, stk, hart >>
      /\ Becomes(DeviceHandler(Registers', Routing, x))
      /\ Hear(x)
    BY DEF HDeviceEvent
<1>2. RequestOK' /\ UNCHANGED vtfInIsr
    BY <1>1, HearFacts DEF TypeOK, RequestOK, hart
<1>3. DeviceResync(x)
    BY <1>1, <1>2, DeviceHandlerResyncs
<1> QED
    BY <1>1, <1>3 DEF DeviceEvent

\* A write to a USB mode register is a UsbModeWrite.
LEMMA UsbModeRefines ==
    ASSUME TypeOK, NEW x, NEW b \in BOOLEAN, HUsbModeWrite(x, b) PROVE UsbModeWrite(x, b)
<1>1. /\ vtf /\ x \in Irqs \cap UsbIrqs
      /\ gate' = IF b THEN gate \cup {x} ELSE gate \ {x}
      /\ UNCHANGED << ienr, line, stk, hart >>
      /\ Becomes(DeviceHandler(Registers', Routing, x))
      /\ Hear(x)
    BY DEF HUsbModeWrite
<1>2. RequestOK' /\ UNCHANGED vtfInIsr /\ x \in Irqs \cap (TableIrqs \ DmaIrqs)
    BY <1>1, IrqFacts, HearFacts DEF TypeOK, RequestOK, hart
<1>3. DeviceResync(x)
    BY <1>1, <1>2, DeviceHandlerResyncs
<1>4. /\ x # Usart1Irq /\ x \notin LiteIrqs /\ x \notin TimIrqs \cup {EthIrq}
      /\ x # Eth10mIrq
    BY <1>1 DEF UsbIrqs, UsbHsIrq, UsbFsIrq, Usart1Irq, LiteIrqs, TimIrqs, EthIrq, Eth10mIrq
<1>5. UsbResync(x)
    BY <1>3, <1>4 DEF DeviceResync
<1> QED
    BY <1>1, <1>5 DEF UsbModeWrite

\* A transfer, or one that met a memory error, is one of the three DMA steps.
LEMMA DmaRefines ==
    ASSUME TypeOK, NEW x, NEW b \in BOOLEAN, NEW teie \in BOOLEAN,
           HDmaTransfer(x, b) \/ HDmaError(x, b, teie)
    PROVE  DmaTransfer(x, b) \/ DmaError(x, b) \/ DmaConfigure(x, b)
<1>1. /\ vtf /\ x \in (Irqs \cap DmaIrqs) \ {DeadDmaIrq}
      /\ gate' = IF b THEN gate \cup {x} ELSE gate \ {x}
      /\ UNCHANGED << ienr, stk, untold, hart >>
      /\ line' = line \cup {x} \/ line' = line
    BY DEF HDmaTransfer, HDmaError
<1>2. RequestOK' /\ x \in DmaIrqs
    BY <1>1, IrqFacts DEF TypeOK, RequestOK
<1>3. CASE HDmaTransfer(x, b)
  <2> DEFINE D == IF b THEN {x} \cap ienr' ELSE {}
  <2>1. line' = line \cup {x} /\ Becomes(FireIrq(Registers', Routing, x, b))
      BY <1>3 DEF HDmaTransfer
  <2>2. D = {x} \cap Requesting'
      BY <1>1, <1>2, <2>1, IrqFacts DEF Requesting
  <2>3. D = (IF b THEN {x} \cap ienr' ELSE {})
      OBVIOUS
  <2> HIDE DEF D
  <2>4. DmaFire(D)
      BY <1>2, <2>1, <2>3, FireOne
  <2> QED
      BY <1>1, <2>1, <2>2, <2>4 DEF DmaTransfer
<1>4. CASE HDmaError(x, b, teie)
  <2> DEFINE D == IF teie THEN {x} \cap ienr' ELSE {}
  <2>1. line' = line /\ Becomes(FireIrq(Registers', Routing, x, teie))
      BY <1>4 DEF HDmaError
  <2>2. D = (IF teie THEN {x} \cap ienr' ELSE {})
      OBVIOUS
  <2> HIDE DEF D
  <2>3. DmaFire(D)
      BY <1>2, <2>1, <2>2, FireOne
  <2>4. CASE teie
    <3>1. DmaFire({x} \cap ienr)
        BY <1>1, <2>2, <2>3, <2>4
    <3> QED
        BY <1>1, <2>1, <3>1 DEF DmaError
  <2>5. CASE ~teie
    <3>1. UNCHANGED << slot, mip, mie, iactr, ipr, latched >>
        BY <2>2, <2>3, <2>5 DEF DmaFire
    <3> QED
        BY <1>1, <2>1, <3>1 DEF DmaConfigure, route
  <2> QED
      BY <2>4, <2>5
<1> QED
    BY <1>3, <1>4

\* A write to IENR or IRER that changes bit x is WriteIENR or WriteIRER.
LEMMA EnableRefines ==
    ASSUME TypeOK, NEW x \in PficIrqs, HWriteEnable(x) PROVE WriteIENR(x) \/ WriteIRER(x)
<1>1. /\ vtf
      /\ ienr' = IF x \in ienr THEN ienr \ {x} ELSE ienr \cup {x}
      /\ UNCHANGED << line, gate, stk, hart >>
      /\ Becomes(ResyncChanged(Registers', Routing, x))
      /\ Hear(x)
    BY DEF HWriteEnable
<1>2. RequestOK' /\ UNCHANGED vtfInIsr
    BY <1>1, HearFacts DEF TypeOK, RequestOK, hart
<1>3. RowResync(x)
    BY <1>1, <1>2, ChangedResyncs
<1> QED
    BY <1>1, <1>3 DEF WriteIENR, WriteIRER

\* helper_mret with ch32_pfic_on_mret is Mret.
LEMMA MretRefines ==
    ASSUME TypeOK, HMret PROVE Mret
<1>1. /\ handlers # << >> /\ handlers' = Tail(handlers)
      /\ gie' = mpie /\ mpie' = TRUE /\ swSkip' = FALSE
      /\ hpeDepth' = IF ~swSkip /\ hpeDepth > 0 THEN hpeDepth - 1 ELSE hpeDepth
      /\ vtfInIsr' = IF ~swSkip /\ vtfInIsr > 0 THEN vtfInIsr - 1 ELSE vtfInIsr
      /\ UNCHANGED << vtf, ienr, line, gate, stk >>
      /\ untold' = IF ~swSkip /\ slot # 0 THEN {} ELSE untold
      /\ Becomes(IF ~swSkip /\ slot # 0 THEN OnMret(Registers', Routing) ELSE Routing)
    BY DEF HMret
<1>2. RequestOK'
    BY <1>1 DEF TypeOK, RequestOK
<1>3. hpeDepth \in Nat /\ vtfInIsr \in Nat
    BY DEF TypeOK, HartOK, HpeMax
<1>4. CASE swSkip \/ slot = 0
  <2>1. UNCHANGED << slot, mip, mie, iactr, ipr, latched >>
      BY <1>1, <1>4 DEF Becomes, Routing
  <2>2. CASE swSkip
    <3>1. UNCHANGED << hpeDepth, vtfInIsr, route >>
        BY <1>1, <2>1, <2>2 DEF route
    <3> QED
        BY <1>1, <2>2, <3>1 DEF Mret
  <2>3. CASE ~swSkip /\ slot = 0
    <3>1. /\ hpeDepth' = (IF hpeDepth > 0 THEN hpeDepth - 1 ELSE 0)
          /\ vtfInIsr' = (IF vtfInIsr > 0 THEN vtfInIsr - 1 ELSE 0)
        BY <1>1, <1>3, <2>3
    <3>2. Hold
        BY <2>1 DEF Hold, route
    <3> QED
        BY <1>1, <2>3, <3>1, <3>2 DEF Mret
  <2> QED
      BY <1>4, <2>2, <2>3
<1>5. CASE ~swSkip /\ slot # 0
  <2> DEFINE q == Registers'
  <2>1. q = Registers' /\ Becomes(OnMret(q, Routing))
      BY <1>1, <1>5
  <2> HIDE DEF q
  <2>2. Rescan(TRUE, {})
      BY <1>2, <2>1, MretRescans
  <2>3. /\ hpeDepth' = (IF hpeDepth > 0 THEN hpeDepth - 1 ELSE 0)
        /\ vtfInIsr' = (IF vtfInIsr > 0 THEN vtfInIsr - 1 ELSE 0)
      BY <1>1, <1>3, <1>5
  <2> QED
      BY <1>1, <1>5, <2>2, <2>3 DEF Mret
<1> QED
    BY <1>4, <1>5

\* Every step of the handlers is a step of MeipSlot, or changes nothing.
LEMMA HandlerStep ==
    ASSUME TypeOK, [HandlerNext]_vars PROVE [Next]_vars
<1>1. CASE \E x \in Irqs, b \in BOOLEAN :
               \/ HDeviceEvent(x, b) \/ QuietChange(x) \/ HUsbModeWrite(x, b)
               \/ HDmaTransfer(x, b) \/ DmaConfigure(x, b)
               \/ \E teie \in BOOLEAN : HDmaError(x, b, teie)
  <2>1. PICK x \in Irqs, b \in BOOLEAN :
            \/ HDeviceEvent(x, b) \/ QuietChange(x) \/ HUsbModeWrite(x, b)
            \/ HDmaTransfer(x, b) \/ DmaConfigure(x, b)
            \/ \E teie \in BOOLEAN : HDmaError(x, b, teie)
      BY <1>1
  <2>2. \/ DeviceEvent(x, b) \/ QuietChange(x) \/ UsbModeWrite(x, b)
        \/ DmaTransfer(x, b) \/ DmaError(x, b) \/ DmaConfigure(x, b)
      BY <2>1, DeviceRefines, UsbModeRefines, DmaRefines
  <2> QED
      BY <2>2 DEF Next, DeviceStep
<1>2. CASE \E x \in PficIrqs : HWriteEnable(x) \/ WriteIPSR(x) \/ WriteIPRR(x)
  <2>1. PICK x \in PficIrqs : HWriteEnable(x) \/ WriteIPSR(x) \/ WriteIPRR(x)
      BY <1>2
  <2>2. WriteIENR(x) \/ WriteIRER(x) \/ WriteIPSR(x) \/ WriteIPRR(x)
      BY <2>1, EnableRefines
  <2> QED
      BY <2>2 DEF Next, PficStep
<1>3. CASE HMret
    BY <1>3, MretRefines DEF Next, HartStep
<1>4. CASE \/ \E mode \in {"off", "count", "irq"}, b \in BOOLEAN : WriteStkCtlr(mode, b)
           \/ ClearStkSr
           \/ StkTick
    BY <1>4 DEF Next, PficStep
<1>5. CASE \/ \E b \in BOOLEAN : SetGie(b)
           \/ TakeExternal \/ TakeSoftware \/ TakeTimer
           \/ Fault
           \/ StartFirmware
    BY <1>5 DEF Next, HartStep
<1>6. CASE DmaStep \/ \E attached \in SUBSET (UsbIrqs \cap Irqs) : Reset(attached)
    BY <1>6 DEF Next
<1>7. CASE UNCHANGED vars
    BY <1>7
<1> QED
    BY <1>1, <1>2, <1>3, <1>4, <1>5, <1>6, <1>7 DEF HandlerNext

\* The handlers as written, nested walks of pfic_resync_table included, do only
\* what MeipSlot allows, for every set of peripherals: the closed forms stand
\* for the statements of the resync functions, ch32_pfic_resync_pending_meip
\* and ch32_pfic_on_mret, and what is proved of MeipSlot holds of them.
THEOREM HandlersRefine == HandlerSpec => ImplementsMeipSlot
<1>1. Init => Inv
    BY InitStep
<1>2. Inv /\ [HandlerNext]_vars => [Next]_vars
    BY HandlerStep DEF Inv
<1>3. Inv /\ [Next]_vars => Inv'
    BY InvStep
<1> QED
    BY <1>1, <1>2, <1>3, PTL DEF HandlerSpec, ImplementsMeipSlot, Spec
===============================================================================
