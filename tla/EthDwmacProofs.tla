---------------------------- MODULE EthDwmacProofs ----------------------------
(***************************************************************************)
(* The gigabit MAC keeps its registers in range, never leaves the tap      *)
(* unread, keeps its poll timer, and is a lossy queue of frames.           *)
(*                                                                         *)
(* The last rests on what the receive ring looks like from the firmware's  *)
(* position on (RingInv): first the frames nobody has read, then what the  *)
(* MAC owns, last what the firmware holds; and the MAC's cursor stands     *)
(* where its part begins.  The parts of this module, in order: the ring    *)
(* seen from a descriptor; what the scan finds; how each step turns or     *)
(* changes that view; the frames in it; the transmit round; typing; the    *)
(* tap and the timer; the refinement.                                      *)
(***************************************************************************)
EXTENDS EthDwmac, Numbers, SequenceTheorems

\* The constants as the steps below use them.
LEMMA Constants ==
    /\ RxRing \in Nat \ {0} /\ TxRing \in Nat \ {0} /\ MaxRing \in Nat \ {0}
    /\ NoFrame \notin Frames
    /\ "free" \notin Frames /\ "own" \notin Frames /\ "bad" \notin Frames
    BY FramesAssumption, RingAssumption

\* A cursor that moves on stays in its ring.
LEMMA NextInRing ==
    \A i \in Int : NextRx(i) \in 1 .. RxRing /\ NextTx(i) \in 1 .. TxRing
<1>1. ASSUME NEW n \in Nat \ {0}, NEW a \in Int PROVE (a % n) + 1 \in 1 .. n
  <2>1. a % n \in 0 .. n - 1
      BY DivisionFacts
  <2> QED
      BY <2>1
<1> QED
    BY <1>1, Constants DEF NextRx, NextTx

-----------------------------------------------------------------------------
(***************************************************************************)
(* The receive ring seen from a descriptor h: the i-th from there on.      *)
(***************************************************************************)

Cell(h, i) == ((h + i - 2) % RxRing) + 1

Cells == [1 .. RxRing -> {"free", "own", "bad"} \cup Frames]

View(h, r) == [i \in 1 .. RxRing |-> r[Cell(h, i)]]

\* Going round once at most takes the size of the ring off.
LEMMA CellAt ==
    ASSUME NEW h \in 1 .. RxRing, NEW i \in 1 .. RxRing + 1
    PROVE  Cell(h, i) = IF h + i - 1 <= RxRing THEN h + i - 1 ELSE h + i - 1 - RxRing
<1>1. CASE h + i - 1 <= RxRing
  <2>1. h + i - 2 \in 0 .. RxRing - 1
      BY <1>1, Constants
  <2> QED
      BY <1>1, <2>1, ModSmall, Constants DEF Cell
<1>2. CASE h + i - 1 > RxRing
  <2>1. h + i - 2 \in RxRing .. 2 * RxRing - 1
      BY <1>2, Constants
  <2> QED
      BY <1>2, <2>1, ModOnce, Constants DEF Cell
<1> QED
    BY <1>1, <1>2, Constants

\* Each descriptor has one place in the order of h.
LEMMA CellsApart ==
    ASSUME NEW h \in 1 .. RxRing
    PROVE  /\ \A i \in 1 .. RxRing + 1 : Cell(h, i) \in 1 .. RxRing
           /\ \A i, j \in 1 .. RxRing : Cell(h, i) = Cell(h, j) => i = j
           /\ Cell(h, 1) = h /\ Cell(h, RxRing + 1) = h
<1>1. /\ \A i \in 1 .. RxRing + 1 :
             Cell(h, i) = IF h + i - 1 <= RxRing THEN h + i - 1 ELSE h + i - 1 - RxRing
      /\ 1 \in 1 .. RxRing + 1 /\ RxRing + 1 \in 1 .. RxRing + 1
      /\ \A i \in 1 .. RxRing : i \in 1 .. RxRing + 1
    BY CellAt, Constants
<1> QED
    BY <1>1, Constants

\* The next descriptor is the next in order, and is where the order of the next starts.
LEMMA CellNext ==
    ASSUME NEW h \in 1 .. RxRing, NEW i \in Int
    PROVE  /\ NextRx(Cell(h, i)) = Cell(h, i + 1)
           /\ Cell(NextRx(h), i) = Cell(h, i + 1)
<1> DEFINE a == h + i - 2
<1>1. a \in Int /\ a + 1 = h + (i + 1) - 2 /\ RxRing \in Nat \ {0}
    BY Constants
<1>2. (((a % RxRing) + 1) % RxRing) = ((a + 1) % RxRing)
  <2> HIDE DEF a
  <2> QED
      BY <1>1, ModNext
<1>3. ((h % RxRing) + (i - 1)) % RxRing = (h + (i - 1)) % RxRing
  <2> DEFINE b == i - 1
  <2>1. b \in Int /\ h \in Int
      OBVIOUS
  <2> HIDE DEF b
  <2>2. ((h % RxRing) + b) % RxRing = (h + b) % RxRing
      BY <1>1, <2>1, ModSum
  <2> QED
      BY <2>2 DEF b
<1>4. h % RxRing \in Int
    BY <1>1, DivisionFacts
<1>5. (h % RxRing) + 1 + i - 2 = (h % RxRing) + (i - 1) /\ h + (i - 1) = h + (i + 1) - 2
    BY <1>4
<1> QED
    BY <1>1, <1>2, <1>3, <1>5 DEF NextRx, Cell

\* Steps from a place in the order lead on in the order.
LEMMA CellSum ==
    ASSUME NEW h \in 1 .. RxRing, NEW i \in Int, NEW k \in Int
    PROVE  /\ ((Cell(h, i) - 1 + k) % RxRing) + 1 = Cell(h, i + k)
           /\ Cell(h, i + RxRing * k) = Cell(h, i)
<1> DEFINE a == h + i - 2
<1>1. a \in Int /\ RxRing \in Nat \ {0} /\ a % RxRing \in Int /\ RxRing * k \in Int
  <2>1. a \in Int /\ RxRing \in Nat \ {0} /\ RxRing * k \in Int
      BY Constants
  <2> QED
      BY <2>1, DivisionFacts
<1>2. ((a % RxRing) + k) % RxRing = (a + k) % RxRing
  <2> HIDE DEF a
  <2> QED
      BY <1>1, ModSum
<1>3. (a + RxRing * k) % RxRing = a % RxRing
  <2> HIDE DEF a
  <2> QED
      BY <1>1, ModMultiple
<1>4. /\ ((a % RxRing) + 1) - 1 + k = (a % RxRing) + k
      /\ a + k = h + (i + k) - 2
      /\ a + RxRing * k = h + (i + RxRing * k) - 2
    BY <1>1
<1> QED
    BY <1>2, <1>3, <1>4 DEF Cell

\* And each has one.
LEMMA PlaceOf ==
    ASSUME NEW h \in 1 .. RxRing, NEW s \in 1 .. RxRing
    PROVE  \E p \in 1 .. RxRing : s = Cell(h, p)
<1> DEFINE p == IF s >= h THEN s - h + 1 ELSE s - h + 1 + RxRing
<1>1. p \in 1 .. RxRing /\ p \in 1 .. RxRing + 1
    BY Constants
<1>2. s = IF h + p - 1 <= RxRing THEN h + p - 1 ELSE h + p - 1 - RxRing
    BY Constants
<1> HIDE DEF p
<1>3. s = Cell(h, p)
    BY <1>1, <1>2, CellAt
<1> QED
    BY <1>1, <1>3

\* What is seen of a ring, and of one in which a descriptor has changed.
LEMMA ViewFacts ==
    ASSUME NEW h \in 1 .. RxRing, NEW r \in Cells, NEW p \in 1 .. RxRing, NEW x
    PROVE  /\ View(h, r) \in Cells
           /\ View(h, [r EXCEPT ![Cell(h, p)] = x]) = [View(h, r) EXCEPT ![p] = x]
<1>1. \A i \in 1 .. RxRing : Cell(h, i) \in 1 .. RxRing
  <2>1. \A i \in 1 .. RxRing : i \in 1 .. RxRing + 1
      BY Constants
  <2> QED
      BY <2>1, CellsApart
<1>2. ASSUME NEW i \in 1 .. RxRing
      PROVE  [r EXCEPT ![Cell(h, p)] = x][Cell(h, i)] = IF i = p THEN x ELSE r[Cell(h, i)]
    BY <1>1, CellsApart DEF Cells
<1> QED
    BY <1>1, <1>2 DEF View, Cells

-----------------------------------------------------------------------------
(***************************************************************************)
(* The scan of the receive ring.                                           *)
(***************************************************************************)

RxOK == rx \in Cells

Owned(d) == d \in {"own", "bad"}

\* The recursive definition of ScanFrom has a solution, which stays in the ring.
LEMMA ScanEquation ==
    ASSUME RxOK, NEW cur \in 1 .. RxRing
    PROVE  /\ ScanFrom(cur) \in [0 .. MaxRing - 1 -> 1 .. RxRing]
           /\ ScanFrom(cur)[0] = cur
           /\ \A i \in 1 .. MaxRing - 1 :
                  ScanFrom(cur)[i] = IF Owned(rx[ScanFrom(cur)[i - 1]])
                                     THEN ScanFrom(cur)[i - 1] ELSE NextRx(ScanFrom(cur)[i - 1])
<1> DEFINE D == 1 .. RxRing
           n == MaxRing - 1
           Step(c) == IF rx[c] \in {"own", "bad"} THEN c ELSE NextRx(c)
           Eq(f) == f = [i \in 0 .. MaxRing - 1 |-> IF i = 0 THEN cur ELSE Step(f[i - 1])]
<1>1. n \in Nat /\ n = MaxRing - 1
    BY Constants
<1>2. \A c \in D : Step(c) \in D
    BY NextInRing, Constants DEF Cells
<1>3. \E f : Eq(f)
  <2> DEFINE F == [i \in 1 .. n |-> [c \in D |-> Step(c)]]
  <2>1. F \in [1 .. n -> [D -> D]]
      BY <1>2
  <2>2. PICK g \in [0 .. n -> D] : g[0] = cur /\ \A i \in 1 .. n : g[i] = F[i][g[i - 1]]
    <3>1. cur \in D
        OBVIOUS
    <3>2. PICK g : g \in Iterations(n, D, cur, F)
      <4> HIDE DEF F, D, n, Step, Eq
      <4>1. n \in Nat
          BY <1>1
      <4>2. cur \in D
          BY <3>1
      <4>3. F \in [1 .. n -> [D -> D]]
          BY <2>1
      <4>4. Iterations(n, D, cur, F) # {}
          BY <4>1, <4>2, <4>3, IterateExists
      <4> QED
          BY <4>4
    <3> QED
        BY <3>2 DEF Iterations
  <2>3. \A i \in 1 .. n : g[i] = Step(g[i - 1])
    <3> SUFFICES ASSUME NEW i \in 1 .. n PROVE g[i] = Step(g[i - 1])
        OBVIOUS
    <3>1. i - 1 \in 0 .. n
        BY <1>1
    <3>2. g[i - 1] \in D
        BY <3>1
    <3>3. F[i] = [c \in D |-> Step(c)]
        OBVIOUS
    <3>4. F[i][g[i - 1]] = Step(g[i - 1])
      <4> HIDE DEF Step, D
      <4> QED
          BY <3>2, <3>3
    <3> QED
        BY <2>2, <3>4
  <2>4. Eq(g)
    <3> HIDE DEF Step
    <3> QED
        BY <2>2, <2>3, <1>1
  <2> QED
      BY <2>4
<1>4. Eq(ScanFrom(cur))
  <2>1. ScanFrom(cur) = CHOOSE f : Eq(f)
      BY DEF ScanFrom
  <2> HIDE DEF Eq
  <2> QED
      BY <2>1, <1>3
<1> DEFINE at == ScanFrom(cur)
<1>5. /\ at[0] = cur
      /\ \A i \in 1 .. n : at[i] = Step(at[i - 1])
  <2> HIDE DEF Step, at
  <2>1. Eq(at)
      BY <1>4 DEF at
  <2> QED
      BY <2>1, <1>1
<1>6. \A i \in 0 .. n : at[i] \in D
  <2> DEFINE T == {i \in 0 .. n : at[i] \in D}
  <2>1. 0 \in T
      BY <1>5, <1>1
  <2>2. ASSUME NEW i \in 0 .. n - 1, i \in T PROVE i + 1 \in T
    <3>1. i + 1 \in 1 .. n /\ i + 1 \in 0 .. n /\ (i + 1) - 1 = i
        BY <1>1
    <3>2. at[i + 1] = Step(at[i])
        BY <3>1, <1>5
    <3> HIDE DEF Step, at
    <3> QED
        BY <3>1, <3>2, <2>2, <1>2
  <2>3. 0 .. n \subseteq T
    <3> HIDE DEF T, n
    <3> QED
        BY <1>1, <2>1, <2>2, IntervalInduct
  <2> QED
      BY <2>3
<1>7. at \in [0 .. n -> D]
  <2> HIDE DEF Step, D
  <2>1. at = [i \in 0 .. n |-> at[i]]
      BY <1>4
  <2> HIDE DEF at
  <2> QED
      BY <2>1, <1>6
<1> QED
    BY <1>5, <1>7 DEF Owned

\* After i steps the scan has passed k descriptors, none of which the MAC owns.
LEMMA ScanWalk ==
    ASSUME RxOK, NEW cur \in 1 .. RxRing
    PROVE  \E k \in 0 .. MaxRing - 1 :
               /\ Scan(cur) = ((cur - 1 + k) % RxRing) + 1
               /\ \A j \in 0 .. k - 1 : ~ Owned(rx[((cur - 1 + j) % RxRing) + 1])
               /\ Owned(rx[Scan(cur)]) \/ k = MaxRing - 1
<1> DEFINE n == MaxRing - 1
           at == ScanFrom(cur)
           W(k) == ((cur - 1 + k) % RxRing) + 1
           Passed(i, k) == /\ at[i] = W(k)
                           /\ \A j \in 0 .. k - 1 : ~ Owned(rx[W(j)])
                           /\ Owned(rx[at[i]]) \/ k = i
           T == {i \in 0 .. n : \E k \in 0 .. i : Passed(i, k)}
<1>1. n \in Nat /\ n = MaxRing - 1 /\ RxRing \in Nat \ {0}
    BY Constants
<1>2. /\ at \in [0 .. n -> 1 .. RxRing]
      /\ at[0] = cur
      /\ \A i \in 1 .. n : at[i] = IF Owned(rx[at[i - 1]]) THEN at[i - 1] ELSE NextRx(at[i - 1])
    BY ScanEquation
<1>3. W(0) = cur
  <2>1. cur - 1 + 0 \in 0 .. RxRing - 1
      BY <1>1
  <2>2. (cur - 1 + 0) % RxRing = cur - 1 + 0
    <3> DEFINE a == cur - 1 + 0
    <3> HIDE DEF a
    <3> QED
        BY <1>1, <2>1, ModSmall DEF a
  <2> QED
      BY <2>2
<1>4. ASSUME NEW k \in Nat PROVE NextRx(W(k)) = W(k + 1)
  <2> DEFINE a == cur - 1 + k
  <2>1. a \in Int /\ cur - 1 + (k + 1) = a + 1
      BY <1>1
  <2>2. ((a % RxRing) + 1) % RxRing = (a + 1) % RxRing
    <3> HIDE DEF a
    <3> QED
        BY <2>1, <1>1, ModNext
  <2> QED
      BY <2>1, <2>2 DEF NextRx
<1>5. 0 \in T
  <2>1. Passed(0, 0)
      BY <1>2, <1>3
  <2> HIDE DEF Passed
  <2> QED
      BY <2>1, <1>1
<1>6. ASSUME NEW i \in 0 .. n - 1, i \in T PROVE i + 1 \in T
  <2>1. PICK k \in 0 .. i : Passed(i, k)
      BY <1>6
  <2>2. i + 1 \in 1 .. n /\ i + 1 \in 0 .. n /\ (i + 1) - 1 = i
      BY <1>1
  <2> HIDE DEF W, at, n
  <2>3. at[i + 1] = IF Owned(rx[at[i]]) THEN at[i] ELSE NextRx(at[i])
      BY <1>2, <2>2
  <2>4. CASE Owned(rx[at[i]])
    <3>1. Passed(i + 1, k)
        BY <2>1, <2>3, <2>4
    <3>2. k \in 0 .. i + 1
        OBVIOUS
    <3> HIDE DEF Passed
    <3> QED
        BY <3>1, <3>2, <2>2
  <2>5. CASE ~ Owned(rx[at[i]])
    <3>1. k = i /\ i \in Nat
        BY <2>1, <2>5
    <3>2. at[i + 1] = W(i + 1)
        BY <3>1, <2>1, <2>3, <2>5, <1>4
    <3>3. ~ Owned(rx[W(i)])
        BY <3>1, <2>1, <2>5
    <3>4. \A j \in 0 .. (i + 1) - 1 : j \in 0 .. i - 1 \/ j = i
        BY <3>1
    <3>5. \A j \in 0 .. (i + 1) - 1 : ~ Owned(rx[W(j)])
        BY <3>1, <3>3, <3>4, <2>1
    <3>6. Passed(i + 1, i + 1)
        BY <3>2, <3>5
    <3>7. i + 1 \in 0 .. i + 1
        BY <3>1
    <3> HIDE DEF Passed
    <3> QED
        BY <3>6, <3>7, <2>2
  <2> QED
      BY <2>4, <2>5
<1>7. n \in T
  <2> HIDE DEF T, n
  <2>1. 0 .. n \subseteq T
      BY <1>1, <1>5, <1>6, IntervalInduct
  <2> QED
      BY <2>1, <1>1
<1>8. PICK k \in 0 .. n : Passed(n, k)
    BY <1>7
<1> QED
    BY <1>8 DEF Scan

\* The ring fits the scan a whole number of times.
RingDivides == \E k \in Nat : MaxRing = RxRing * k

\* Seen from h, the scan that starts at place q stops at the first descriptor
\* from there on that the MAC owns; without one the cursor comes back to q.
LEMMA ScanPlace ==
    ASSUME RxOK, RingDivides, NEW h \in 1 .. RxRing, NEW q \in 1 .. RxRing
    PROVE  \/ \E p \in 1 .. RxRing :
                  /\ Scan(Cell(h, q)) = Cell(h, p)
                  /\ Owned(View(h, rx)[p])
                  /\ \/ q <= p /\ \A i \in q .. p - 1 : ~ Owned(View(h, rx)[i])
                     \/ p < q /\ \A i \in q .. RxRing : ~ Owned(View(h, rx)[i])
           \/ /\ \A i \in 1 .. RxRing : ~ Owned(View(h, rx)[i])
              /\ ~ Owned(rx[Scan(Cell(h, q))])
              /\ NextRx(Scan(Cell(h, q))) = Cell(h, q)
<1> DEFINE v == View(h, rx)
           s == Scan(Cell(h, q))
           m == MaxRing - 1
           At(j) == Cell(h, q + j)
<1>1. RxRing \in Nat \ {0} /\ m \in Nat
    BY Constants
<1>2. Cell(h, q) \in 1 .. RxRing
  <2>1. q \in 1 .. RxRing + 1
      BY <1>1
  <2> QED
      BY <2>1, CellsApart
<1>3. \A j \in Int : ((Cell(h, q) - 1 + j) % RxRing) + 1 = At(j)
    BY CellSum
<1>4. PICK k \in 0 .. m :
          /\ s = At(k)
          /\ \A j \in 0 .. k - 1 : ~ Owned(rx[At(j)])
          /\ Owned(rx[s]) \/ k = m
  <2>1. PICK k \in 0 .. m :
            /\ s = ((Cell(h, q) - 1 + k) % RxRing) + 1
            /\ \A j \in 0 .. k - 1 : ~ Owned(rx[((Cell(h, q) - 1 + j) % RxRing) + 1])
            /\ Owned(rx[s]) \/ k = m
      BY <1>2, ScanWalk
  <2>2. k \in Int /\ \A j \in 0 .. k - 1 : j \in Int
      BY <1>1
  <2> HIDE DEF At, s, m
  <2> QED
      BY <2>1, <2>2, <1>3
<1>5. \A i \in 1 .. RxRing : v[i] = rx[Cell(h, i)]
    BY DEF View
<1>6. \A i \in Int, l \in Int : Cell(h, i + RxRing * l) = Cell(h, i)
    BY CellSum
<1>7. \A i \in Int : Cell(h, i - RxRing) = Cell(h, i)
  <2> SUFFICES ASSUME NEW i \in Int PROVE Cell(h, i - RxRing) = Cell(h, i)
      OBVIOUS
  <2>1. i - RxRing = i + RxRing * (-1) /\ -1 \in Int
      BY <1>1
  <2> QED
      BY <2>1, <1>6
<1>8. CASE Owned(rx[s])
  <2>1. k < RxRing
    <3> SUFFICES ASSUME k >= RxRing PROVE FALSE
        BY <1>1
    <3>1. k - RxRing \in 0 .. k - 1 /\ q + k \in Int /\ q + (k - RxRing) = (q + k) - RxRing
        BY <1>1
    <3>2. At(k - RxRing) = At(k)
        BY <3>1, <1>7
    <3> HIDE DEF At, s
    <3> QED
        BY <3>1, <3>2, <1>4, <1>8
  <2>2. CASE q + k <= RxRing
    <3>1. q + k \in 1 .. RxRing /\ q <= q + k
        BY <2>2, <1>1
    <3>2. Owned(v[q + k])
        BY <3>1, <1>5, <1>4, <1>8
    <3>3. ASSUME NEW i \in q .. (q + k) - 1 PROVE ~ Owned(v[i])
      <4>1. i - q \in 0 .. k - 1 /\ q + (i - q) = i /\ i \in 1 .. RxRing
          BY <3>1, <1>1
      <4>2. ~ Owned(rx[At(i - q)]) /\ At(i - q) = Cell(h, i)
          BY <4>1, <1>4
      <4> QED
          BY <4>1, <4>2, <1>5
    <3> HIDE DEF v, s
    <3>4. s = Cell(h, q + k)
        BY <1>4
    <3> QED
        BY <3>1, <3>2, <3>3, <3>4 DEF v, s
  <2>3. CASE q + k > RxRing
    <3> DEFINE p == (q + k) - RxRing
    <3>1. p \in 1 .. RxRing /\ p < q /\ q + k \in Int
        BY <2>3, <2>1, <1>1
    <3>2. s = Cell(h, p)
        BY <3>1, <1>4, <1>7
    <3>3. Owned(v[p])
        BY <3>1, <3>2, <1>5, <1>8
    <3>4. ASSUME NEW i \in q .. RxRing PROVE ~ Owned(v[i])
      <4>1. i - q \in 0 .. k - 1 /\ q + (i - q) = i /\ i \in 1 .. RxRing
          BY <2>3, <1>1
      <4>2. ~ Owned(rx[At(i - q)]) /\ At(i - q) = Cell(h, i)
          BY <4>1, <1>4
      <4> QED
          BY <4>1, <4>2, <1>5
    <3> HIDE DEF v, s, p
    <3> QED
        BY <3>1, <3>2, <3>3, <3>4 DEF v, s
  <2> QED
      BY <2>2, <2>3, <1>1
<1>9. CASE ~ Owned(rx[s])
  <2>1. k = m
      BY <1>4, <1>9
  <2>2. PICK l \in Nat : MaxRing = RxRing * l
      BY DEF RingDivides
  <2>3. MaxRing >= RxRing
    <3>1. l # 0 /\ MaxRing \in Nat \ {0}
      <4>1. MaxRing \in Nat \ {0}
          BY Constants
      <4> QED
          BY <4>1, <2>2, <1>1
    <3>2. RxRing * l = RxRing + RxRing * (l - 1) /\ RxRing * (l - 1) >= 0
        BY <3>1, <1>1, Z3
    <3> QED
        BY <2>2, <3>1, <3>2, <1>1
  <2>4. \A j \in 0 .. m : ~ Owned(rx[At(j)])
    <3>1. \A j \in 0 .. m : j \in 0 .. k - 1 \/ j = k
        BY <2>1, <1>1
    <3> HIDE DEF At, s, m
    <3> QED
        BY <3>1, <1>4, <1>9
  <2>5. ASSUME NEW i \in 1 .. RxRing PROVE ~ Owned(v[i])
    <3>1. CASE i >= q
      <4>1. i - q \in 0 .. m /\ q + (i - q) = i
          BY <3>1, <2>3, Constants
      <4> QED
          BY <4>1, <2>4, <1>5
    <3>2. CASE i < q
      <4>1. i - q + RxRing \in 0 .. m /\ q + (i - q + RxRing) = i + RxRing
            /\ i + RxRing \in Int /\ (i + RxRing) - RxRing = i
          BY <3>2, <2>3, Constants
      <4>2. At(i - q + RxRing) = Cell(h, i)
          BY <4>1, <1>7
      <4>3. ~ Owned(rx[At(i - q + RxRing)])
          BY <4>1, <2>4
      <4> QED
          BY <4>2, <4>3, <1>5
    <3> QED
        BY <3>1, <3>2
  <2>6. NextRx(s) = Cell(h, q)
    <3>1. q + k \in Int /\ (q + k) + 1 = q + RxRing * l /\ l \in Int
        BY <2>1, <2>2, Constants
    <3>2. NextRx(Cell(h, q + k)) = Cell(h, (q + k) + 1)
      <4> DEFINE a == q + k
      <4>1. a \in Int
          BY <3>1
      <4> HIDE DEF a
      <4>2. NextRx(Cell(h, a)) = Cell(h, a + 1)
          BY <4>1, CellNext
      <4> QED
          BY <4>2 DEF a
    <3>3. Cell(h, q + RxRing * l) = Cell(h, q)
        BY <3>1, <1>6
    <3> QED
        BY <3>1, <3>2, <3>3, <1>4
  <2> HIDE DEF v, s
  <2> QED
      BY <2>5, <2>6, <1>9 DEF v, s
<1> QED
    BY <1>8, <1>9

-----------------------------------------------------------------------------
(***************************************************************************)
(* The order of the receive ring.  v is the ring as the firmware reads it, *)
(* n counts the descriptors it holds, cur is the MAC's cursor.             *)
(***************************************************************************)

\* What the firmware has read and not given back is the end of the order, free.
FreeTail(v, n) == \A i \in 1 .. RxRing : i > RxRing - n => v[i] = "free"

\* Place c parts the ring: what the MAC may still fill is not before it, frames
\* are before that, and a frame beyond c is one an earlier round left there, of
\* which the descriptor before c, given with a bad buffer, keeps the firmware.
Ordered(v, c) ==
    /\ \A i \in 1 .. RxRing : v[i] = "own" => i >= c
    /\ \A i, j \in 1 .. RxRing : v[i] \in Frames /\ v[j] = "own" => i < j
    /\ \A i \in 1 .. RxRing : v[i] \in Frames /\ i >= c => c > 1 /\ v[c - 1] = "bad"

InPlace(v, n, h, cur) ==
    /\ FreeTail(v, n)
    /\ \E c \in 1 .. RxRing - n + 1 : cur = Cell(h, c) /\ Ordered(v, c)

\* The delivery of a frame keeps the order, and puts it behind all others.
LEMMA DeliveryKeepsOrder ==
    ASSUME RxOK, RingDivides, NEW h \in 1 .. RxRing, NEW n \in 0 .. RxRing,
           NEW cur \in 1 .. RxRing, NEW f \in Frames,
           InPlace(View(h, rx), n, h, cur)
    PROVE  /\ rx[Scan(cur)] # "own" => InPlace(View(h, rx), n, h, NextRx(Scan(cur)))
           /\ rx[Scan(cur)] = "own" =>
                  \E p \in 1 .. RxRing :
                      /\ View(h, rx)[p] = "own"
                      /\ \A i \in 1 .. RxRing : View(h, rx)[i] \in Frames => i < p
                      /\ View(h, [rx EXCEPT ![Scan(cur)] = f]) = [View(h, rx) EXCEPT ![p] = f]
                      /\ InPlace([View(h, rx) EXCEPT ![p] = f], n, h, NextRx(Scan(cur)))
<1> DEFINE v == View(h, rx)
           s == Scan(cur)
<1>1. RxRing \in Nat \ {0} /\ "own" \notin Frames /\ "bad" \notin Frames /\ "free" \notin Frames
    BY Constants
<1>2. v \in Cells /\ \A i \in 1 .. RxRing : v[i] = rx[Cell(h, i)]
  <2>1. \A i \in 1 .. RxRing : v[i] = rx[Cell(h, i)]
      BY DEF View
  <2>2. 1 \in 1 .. RxRing
      BY <1>1
  <2>3. v \in Cells
      BY <2>2, ViewFacts DEF RxOK
  <2> QED
      BY <2>1, <2>3
<1>3. PICK c \in 1 .. RxRing - n + 1 : cur = Cell(h, c) /\ Ordered(v, c)
    BY DEF InPlace
<1>4. FreeTail(v, n)
    BY DEF InPlace
<1> DEFINE q == IF c = RxRing + 1 THEN 1 ELSE c
<1>5. q \in 1 .. RxRing /\ cur = Cell(h, q)
  <2>1. Cell(h, 1) = h /\ Cell(h, RxRing + 1) = h
      BY CellsApart
  <2>2. c \in 1 .. RxRing + 1
      BY <1>1
  <2> QED
      BY <2>1, <2>2, <1>1, <1>3
<1>6. \A i \in 1 .. RxRing : ~ Owned(v[i]) => v[i] # "own"
    BY DEF Owned
<1>7. \A i \in 1 .. RxRing : v[i] = "own" => i >= q /\ c = q
    BY <1>1, <1>3 DEF Ordered
<1> HIDE DEF q
<1>8. CASE \E p \in 1 .. RxRing :
               /\ s = Cell(h, p)
               /\ Owned(v[p])
               /\ \/ q <= p /\ \A i \in q .. p - 1 : ~ Owned(v[i])
                  \/ p < q /\ \A i \in q .. RxRing : ~ Owned(v[i])
  <2>1. PICK p \in 1 .. RxRing :
            /\ s = Cell(h, p)
            /\ Owned(v[p])
            /\ \/ q <= p /\ \A i \in q .. p - 1 : ~ Owned(v[i])
               \/ p < q /\ \A i \in q .. RxRing : ~ Owned(v[i])
      BY <1>8
  <2>2. rx[s] = v[p] /\ p \in Int
      BY <1>2, <2>1
  <2>3. NextRx(s) = Cell(h, p + 1)
      BY <2>1, <2>2, CellNext
  <2>4. p + 1 \in 1 .. RxRing - n + 1
    <3>1. v[p] # "free"
        BY <2>1 DEF Owned
    <3> QED
        BY <3>1, <1>1, <1>4 DEF FreeTail
  <2>5. \A i \in 1 .. RxRing : v[i] = "own" => i >= p
      BY <1>6, <1>7, <2>1
  <2>6. CASE v[p] = "own"
    <3> DEFINE w == [v EXCEPT ![p] = f]
    <3>1. \A i \in 1 .. RxRing : v[i] \in Frames => i < p
        BY <1>3, <2>6 DEF Ordered
    <3>2. \A i \in 1 .. RxRing : w[i] = IF i = p THEN f ELSE v[i]
        BY <1>2 DEF Cells
    <3>3. FreeTail(w, n)
        BY <3>2, <1>4, <2>4, <1>1 DEF FreeTail
    <3>4. Ordered(w, p + 1)
      <4>1. \A i \in 1 .. RxRing : w[i] = "own" => i >= p + 1
          BY <3>2, <2>5, <1>1
      <4>2. \A i, j \in 1 .. RxRing : w[i] \in Frames /\ w[j] = "own" => i < j
          BY <3>1, <3>2, <4>1, <1>1
      <4>3. \A i \in 1 .. RxRing : w[i] \in Frames => i < p + 1
          BY <3>1, <3>2, <1>1
      <4> HIDE DEF w
      <4> QED
          BY <4>1, <4>2, <4>3 DEF Ordered
    <3>5. View(h, [rx EXCEPT ![s] = f]) = w
        BY <2>1, ViewFacts DEF RxOK
    <3> HIDE DEF w
    <3>6. InPlace(w, n, h, NextRx(s))
        BY <2>3, <2>4, <3>3, <3>4 DEF InPlace
    <3> QED
        BY <2>2, <2>6, <3>1, <3>5, <3>6 DEF w
  <2>7. CASE v[p] # "own"
    <3>1. v[p] = "bad"
        BY <2>1, <2>7 DEF Owned
    <3>2. Ordered(v, p + 1)
      <4>1. \A i \in 1 .. RxRing : v[i] = "own" => i >= p + 1
          BY <2>5, <2>7
      <4>2. p + 1 > 1 /\ (p + 1) - 1 = p
          OBVIOUS
      <4> HIDE DEF v
      <4> QED
          BY <1>3, <4>1, <4>2, <3>1 DEF Ordered
    <3> HIDE DEF v, s
    <3>3. InPlace(v, n, h, NextRx(s))
        BY <1>4, <2>3, <2>4, <3>2 DEF InPlace
    <3> QED
        BY <2>2, <2>7, <3>3 DEF v, s
  <2> QED
      BY <2>6, <2>7
<1>9. CASE ~ Owned(rx[s]) /\ NextRx(s) = Cell(h, q)
  <2>1. NextRx(s) = cur
      BY <1>5, <1>9
  <2>2. rx[s] # "own"
      BY <1>9 DEF Owned
  <2> QED
      BY <2>1, <2>2
<1> QED
    BY <1>5, <1>8, <1>9, ScanPlace

\* The firmware frees the descriptor at the head of the order and goes on to the next.
LEMMA ReadView ==
    ASSUME NEW h \in 1 .. RxRing, NEW r \in Cells
    PROVE  View(NextRx(h), [r EXCEPT ![h] = "free"]) =
               [i \in 1 .. RxRing |-> IF i = RxRing THEN "free" ELSE View(h, r)[i + 1]]
<1> DEFINE v == View(h, r)
           s == [r EXCEPT ![h] = "free"]
           w == [i \in 1 .. RxRing |-> IF i = RxRing THEN "free" ELSE v[i + 1]]
<1>1. RxRing \in Nat \ {0}
    BY Constants
<1>2. /\ \A i \in 1 .. RxRing + 1 : Cell(h, i) \in 1 .. RxRing
      /\ \A i, j \in 1 .. RxRing : Cell(h, i) = Cell(h, j) => i = j
      /\ Cell(h, 1) = h /\ Cell(h, RxRing + 1) = h
    BY CellsApart
<1>3. \A i \in Int : Cell(NextRx(h), i) = Cell(h, i + 1)
    BY CellNext
<1>4. \A i \in 1 .. RxRing : v[i] = r[Cell(h, i)]
    BY DEF View
<1>5. View(NextRx(h), s) = w
  <2>1. ASSUME NEW i \in 1 .. RxRing PROVE s[Cell(NextRx(h), i)] = w[i]
    <3>1. Cell(NextRx(h), i) = Cell(h, i + 1)
        BY <1>3
    <3>2. CASE i = RxRing
        BY <3>1, <3>2, <1>2 DEF Cells
    <3>3. CASE i # RxRing
      <4>1. i + 1 \in 1 .. RxRing /\ i + 1 # 1 /\ 1 \in 1 .. RxRing
          BY <3>3, <1>1
      <4>2. Cell(h, i + 1) # h
          BY <4>1, <1>2
      <4>3. s[Cell(h, i + 1)] = r[Cell(h, i + 1)]
          BY <4>2 DEF Cells
      <4> QED
          BY <3>1, <3>3, <4>1, <4>3, <1>4
    <3> QED
        BY <3>2, <3>3
  <2> HIDE DEF s
  <2> QED
      BY <2>1 DEF View
<1> QED
    BY <1>5

\* So does the firmware that takes the frame at the head of the order ...
LEMMA ReadKeepsOrder ==
    ASSUME NEW h \in 1 .. RxRing, NEW r \in Cells, NEW n \in 0 .. RxRing,
           NEW cur \in 1 .. RxRing, InPlace(View(h, r), n, h, cur), r[h] \in Frames
    PROVE  /\ n + 1 \in 0 .. RxRing
           /\ View(NextRx(h), [r EXCEPT ![h] = "free"]) =
                  [i \in 1 .. RxRing |-> IF i = RxRing THEN "free" ELSE View(h, r)[i + 1]]
           /\ InPlace(View(NextRx(h), [r EXCEPT ![h] = "free"]), n + 1, NextRx(h), cur)
<1> DEFINE v == View(h, r)
           s == [r EXCEPT ![h] = "free"]
           w == [i \in 1 .. RxRing |-> IF i = RxRing THEN "free" ELSE v[i + 1]]
<1>1. RxRing \in Nat \ {0} /\ "own" \notin Frames /\ "bad" \notin Frames /\ "free" \notin Frames
    BY Constants
<1>2. /\ \A i \in 1 .. RxRing + 1 : Cell(h, i) \in 1 .. RxRing
      /\ \A i, j \in 1 .. RxRing : Cell(h, i) = Cell(h, j) => i = j
      /\ Cell(h, 1) = h /\ Cell(h, RxRing + 1) = h
    BY CellsApart
<1>3. \A i \in Int : Cell(NextRx(h), i) = Cell(h, i + 1)
    BY CellNext
<1>4. \A i \in 1 .. RxRing : v[i] = r[Cell(h, i)]
    BY DEF View
<1>5. View(NextRx(h), s) = w
    BY ReadView
<1>6. v[1] \in Frames /\ 1 \in 1 .. RxRing
    BY <1>1, <1>2, <1>4
<1>7. n + 1 \in 0 .. RxRing
    BY <1>1, <1>6 DEF InPlace, FreeTail
<1>8. PICK c \in 1 .. RxRing - n + 1 : cur = Cell(h, c) /\ Ordered(v, c)
    BY DEF InPlace
<1>9. c > 1 /\ c - 1 \in 1 .. RxRing - (n + 1) + 1 /\ (c - 1) + 1 = c
    BY <1>1, <1>6, <1>8 DEF Ordered
<1>10. \A i \in 1 .. RxRing : w[i] # "free" => i + 1 \in 1 .. RxRing /\ w[i] = v[i + 1]
    BY <1>1
<1>11. Ordered(w, c - 1)
  <2> HIDE DEF v, w
  <2>1. ASSUME NEW i \in 1 .. RxRing, w[i] = "own" PROVE i >= c - 1
    <3>1. i + 1 \in 1 .. RxRing /\ v[i + 1] = "own"
        BY <2>1, <1>10
    <3> QED
        BY <3>1, <1>1, <1>8 DEF Ordered
  <2>2. ASSUME NEW i \in 1 .. RxRing, NEW j \in 1 .. RxRing, w[i] \in Frames, w[j] = "own"
        PROVE  i < j
    <3>1. /\ i + 1 \in 1 .. RxRing /\ v[i + 1] \in Frames
          /\ j + 1 \in 1 .. RxRing /\ v[j + 1] = "own"
        BY <2>2, <1>1, <1>10
    <3> QED
        BY <3>1, <1>1, <1>8 DEF Ordered
  <2>3. ASSUME NEW i \in 1 .. RxRing, w[i] \in Frames, i >= c - 1
        PROVE  c - 1 > 1 /\ w[(c - 1) - 1] = "bad"
    <3>1. i + 1 \in 1 .. RxRing /\ v[i + 1] \in Frames /\ i + 1 >= c
        BY <2>3, <1>1, <1>8, <1>10
    <3>2. v[c - 1] = "bad"
        BY <3>1, <1>8 DEF Ordered
    <3>3. c - 1 # 1
        BY <3>2, <1>1, <1>6
    <3>4. (c - 1) - 1 \in 1 .. RxRing /\ (c - 1) - 1 # RxRing /\ ((c - 1) - 1) + 1 = c - 1
        BY <3>3, <1>1, <1>8, <1>9
    <3>5. w[(c - 1) - 1] = v[((c - 1) - 1) + 1]
        BY <3>4 DEF w
    <3> QED
        BY <3>2, <3>3, <3>4, <3>5, <1>8, <1>9
  <2> QED
      BY <2>1, <2>2, <2>3 DEF Ordered
<1>12. FreeTail(w, n + 1)
  <2> SUFFICES ASSUME NEW i \in 1 .. RxRing, i > RxRing - (n + 1), i # RxRing
               PROVE  w[i] = "free"
      BY DEF FreeTail
  <2>1. i + 1 \in 1 .. RxRing /\ i + 1 > RxRing - n /\ w[i] = v[i + 1]
      BY <1>1
  <2> HIDE DEF v, w
  <2> QED
      BY <2>1 DEF InPlace, FreeTail, v
<1>13. cur = Cell(NextRx(h), c - 1)
    BY <1>3, <1>8, <1>9
<1> HIDE DEF v, w, s
<1>14. InPlace(w, n + 1, NextRx(h), cur)
    BY <1>9, <1>11, <1>12, <1>13 DEF InPlace
<1> QED
    BY <1>5, <1>7, <1>14 DEF s, v, w

\* ... and the one that gives the oldest descriptor it holds back.
Given(h, r, n, kind) == [r EXCEPT ![((h + RxRing - n - 1) % RxRing) + 1] = kind]

LEMMA GiftKeepsOrder ==
    ASSUME NEW h \in 1 .. RxRing, NEW r \in Cells, NEW n \in 0 .. RxRing, n > 0,
           NEW cur \in 1 .. RxRing, NEW kind \in {"own", "bad"},
           InPlace(View(h, r), n, h, cur)
    PROVE  /\ \E g \in 1 .. RxRing :
                  /\ View(h, r)[g] = "free"
                  /\ View(h, Given(h, r, n, kind)) = [View(h, r) EXCEPT ![g] = kind]
           /\ InPlace(View(h, Given(h, r, n, kind)), n - 1, h, cur)
<1> DEFINE g == RxRing - n + 1
           v == View(h, r)
           w == [v EXCEPT ![g] = kind]
<1>1. RxRing \in Nat \ {0} /\ "own" \notin Frames /\ "bad" \notin Frames /\ "free" \notin Frames
    BY Constants
<1>2. g \in 1 .. RxRing /\ v[g] = "free"
    BY <1>1 DEF InPlace, FreeTail
<1>3. View(h, [r EXCEPT ![Cell(h, g)] = kind]) = w /\ v \in Cells
  <2> HIDE DEF g
  <2> QED
      BY <1>2, ViewFacts
<1>4. Cell(h, g) = ((h + RxRing - n - 1) % RxRing) + 1
  <2>1. h + g - 2 = h + RxRing - n - 1
      BY <1>1
  <2> QED
      BY <2>1 DEF Cell
<1>5. \A i \in 1 .. RxRing : w[i] = IF i = g THEN kind ELSE v[i]
    BY <1>2, <1>3 DEF Cells
<1>6. PICK c \in 1 .. RxRing - n + 1 : cur = Cell(h, c) /\ Ordered(v, c)
    BY DEF InPlace
<1> HIDE DEF v, w
<1>7. FreeTail(v, n)
    BY DEF InPlace, v
<1>8. FreeTail(w, n - 1)
    BY <1>1, <1>5, <1>7 DEF FreeTail
<1>9. Ordered(w, c)
  <2>1. \A i \in 1 .. RxRing : w[i] \in Frames => v[i] \in Frames /\ i < g
      BY <1>1, <1>5, <1>7 DEF FreeTail
  <2>2. \A i \in 1 .. RxRing : w[i] = "own" => v[i] = "own" \/ i = g
      BY <1>5
  <2>3. \A i \in 1 .. RxRing : w[i] \in Frames /\ i >= c => c > 1 /\ w[c - 1] = "bad"
    <3> SUFFICES ASSUME NEW i \in 1 .. RxRing, w[i] \in Frames, i >= c
                 PROVE  c > 1 /\ w[c - 1] = "bad"
        OBVIOUS
    <3>1. c > 1 /\ v[c - 1] = "bad"
        BY <2>1, <1>6 DEF Ordered
    <3>2. c - 1 \in 1 .. RxRing /\ c - 1 # g
        BY <3>1, <1>1, <1>6
    <3> QED
        BY <3>1, <3>2, <1>5
  <2>4. g >= c
      BY <1>1, <1>6
  <2> QED
      BY <2>1, <2>2, <2>3, <2>4, <1>6 DEF Ordered
<1>10. c \in 1 .. RxRing - (n - 1) + 1
    BY <1>1, <1>6
<1>11. InPlace(w, n - 1, h, cur)
    BY <1>6, <1>8, <1>9, <1>10 DEF InPlace
<1> QED
    BY <1>2, <1>3, <1>4, <1>11 DEF v, w, Given

\* A ring that is built anew is in order.
LEMMA FreshOrder ==
    ASSUME NEW x \in {"free", "own"}
    PROVE  LET r == [i \in 1 .. RxRing |-> x]
           IN  r \in Cells /\ View(1, r) = r /\ InPlace(View(1, r), 0, 1, 1)
<1> DEFINE r == [i \in 1 .. RxRing |-> x]
<1>1. RxRing \in Nat \ {0} /\ "own" \notin Frames /\ "bad" \notin Frames /\ "free" \notin Frames
    BY Constants
<1>2. 1 \in 1 .. RxRing /\ (\A i \in 1 .. RxRing : i \in 1 .. RxRing + 1)
    BY <1>1
<1>3. \A i \in 1 .. RxRing : Cell(1, i) \in 1 .. RxRing
    BY <1>2, CellsApart
<1>4. r \in Cells /\ View(1, r) = r
    BY <1>3 DEF Cells, View
<1>5. \A i \in 1 .. RxRing : r[i] = x
    OBVIOUS
<1> HIDE DEF r
<1>6. FreeTail(r, 0) /\ Ordered(r, 1)
    BY <1>1, <1>5 DEF FreeTail, Ordered
<1>7. Cell(1, 1) = 1
    BY <1>2, CellsApart
<1>8. InPlace(r, 0, 1, 1)
    BY <1>1, <1>6, <1>7 DEF InPlace
<1> QED
    BY <1>4, <1>8 DEF r

-----------------------------------------------------------------------------
(***************************************************************************)
(* The frames in the ring.                                                 *)
(***************************************************************************)

LEMMA FramesEquation ==
    ASSUME NEW v \in Cells
    PROVE  /\ FramesOf(v) \in [0 .. RxRing -> Seq(Frames)]
           /\ FramesOf(v)[0] = << >>
           /\ \A i \in 1 .. RxRing :
                  FramesOf(v)[i] = IF v[i] \in Frames THEN Append(FramesOf(v)[i - 1], v[i])
                                                      ELSE FramesOf(v)[i - 1]
<1> DEFINE D == Seq(Frames)
           n == RxRing
           Step(i, q) == IF v[i] \in Frames THEN Append(q, v[i]) ELSE q
           Eq(f) == f = [i \in 0 .. n |-> IF i = 0 THEN << >> ELSE Step(i, f[i - 1])]
           at == FramesOf(v)
<1>1. n \in Nat /\ << >> \in D
    BY Constants
<1>2. \A i \in 1 .. n, q \in D : Step(i, q) \in D
    OBVIOUS
<1>3. \E f : Eq(f)
  <2> DEFINE F == [i \in 1 .. n |-> [q \in D |-> Step(i, q)]]
             none == << >>
  <2>1. F \in [1 .. n -> [D -> D]]
    <3> HIDE DEF D, Step
    <3> QED
        BY <1>2
  <2>2. PICK g : g \in Iterations(n, D, none, F)
    <3>1. n \in Nat /\ none \in D
        BY <1>1
    <3> HIDE DEF F, D, n, none
    <3>2. Iterations(n, D, none, F) # {}
        BY <2>1, <3>1, IterateExists
    <3> QED
        BY <3>2
  <2>3. g \in [0 .. n -> D] /\ g[0] = << >> /\ \A i \in 1 .. n : g[i] = F[i][g[i - 1]]
    <3> HIDE DEF F, D, n
    <3> QED
        BY <2>2 DEF Iterations
  <2>4. \A i \in 1 .. n : g[i] = Step(i, g[i - 1])
    <3> SUFFICES ASSUME NEW i \in 1 .. n PROVE g[i] = Step(i, g[i - 1])
        OBVIOUS
    <3>1. g[i - 1] \in D
      <4>1. i - 1 \in 0 .. n
          BY <1>1
      <4> HIDE DEF D
      <4> QED
          BY <4>1, <2>3
    <3>2. F[i][g[i - 1]] = Step(i, g[i - 1])
      <4> HIDE DEF Step, D
      <4> QED
          BY <3>1
    <3> QED
        BY <2>3, <3>2
  <2>5. Eq(g)
    <3> HIDE DEF Step, D
    <3> QED
        BY <2>3, <2>4, <1>1
  <2> QED
      BY <2>5
<1>4. Eq(at)
  <2>1. at = CHOOSE f : Eq(f)
      BY DEF FramesOf
  <2> HIDE DEF Eq
  <2> QED
      BY <2>1, <1>3
<1>5. /\ at[0] = << >>
      /\ \A i \in 1 .. n : at[i] = Step(i, at[i - 1])
  <2> HIDE DEF Step, at
  <2>1. Eq(at)
      BY <1>4 DEF at
  <2> QED
      BY <2>1, <1>1
<1>6. \A i \in 0 .. n : at[i] \in D
  <2> DEFINE T == {i \in 0 .. n : at[i] \in D}
  <2>1. 0 \in T
    <3> HIDE DEF D, at
    <3> QED
        BY <1>5, <1>1
  <2>2. ASSUME NEW i \in 0 .. n - 1, i \in T PROVE i + 1 \in T
    <3>1. i + 1 \in 1 .. n /\ i + 1 \in 0 .. n /\ (i + 1) - 1 = i
        BY <1>1
    <3>2. at[i + 1] = Step(i + 1, at[i])
        BY <3>1, <1>5
    <3> HIDE DEF Step, at, D
    <3> QED
        BY <3>1, <3>2, <2>2, <1>2
  <2>3. 0 .. n \subseteq T
    <3> HIDE DEF T, n
    <3> QED
        BY <1>1, <2>1, <2>2, IntervalInduct
  <2> QED
      BY <2>3
<1>7. at \in [0 .. n -> D]
  <2> HIDE DEF Step, D
  <2>1. at = [i \in 0 .. n |-> at[i]]
      BY <1>4
  <2> HIDE DEF at
  <2> QED
      BY <2>1, <1>6
<1> QED
    BY <1>5, <1>7

\* Cells without a frame do not count ...
LEMMA FramesNone ==
    ASSUME NEW v \in Cells, NEW a \in 0 .. RxRing,
           \A i \in 1 .. RxRing : i > a => v[i] \notin Frames
    PROVE  FramesOf(v)[RxRing] = FramesOf(v)[a]
<1> DEFINE m == RxRing - a
           T == {j \in 0 .. m : FramesOf(v)[a + j] = FramesOf(v)[a]}
<1>1. RxRing \in Nat \ {0} /\ m \in Nat
    BY Constants
<1>2. 0 \in T
    BY <1>1
<1>3. ASSUME NEW j \in 0 .. m - 1, j \in T PROVE j + 1 \in T
  <2>1. /\ a + (j + 1) \in 1 .. RxRing /\ a + (j + 1) > a
        /\ (a + (j + 1)) - 1 = a + j /\ j + 1 \in 0 .. m
      BY <1>1
  <2>2. FramesOf(v)[a + (j + 1)] = FramesOf(v)[a + j]
      BY <2>1, FramesEquation
  <2> QED
      BY <2>1, <2>2, <1>3
<1>4. 0 .. m \subseteq T
  <2> HIDE DEF T, m
  <2> QED
      BY <1>1, <1>2, <1>3, IntervalInduct
<1>5. m \in T /\ a + m = RxRing
    BY <1>1, <1>4
<1> QED
    BY <1>5

\* ... and the others make the sequence.
LEMMA FramesAgree ==
    ASSUME NEW v \in Cells, NEW w \in Cells, NEW n \in 0 .. RxRing,
           \A i \in 1 .. n : v[i] \in Frames \/ w[i] \in Frames => v[i] = w[i]
    PROVE  FramesOf(v)[n] = FramesOf(w)[n]
<1> DEFINE T == {j \in 0 .. n : FramesOf(v)[j] = FramesOf(w)[j]}
<1>1. RxRing \in Nat \ {0} /\ n \in Nat
    BY Constants
<1>2. FramesOf(v)[0] = << >> /\ FramesOf(w)[0] = << >>
    BY FramesEquation
<1>3. 0 \in T
    BY <1>1, <1>2
<1>4. ASSUME NEW j \in 0 .. n - 1, j \in T PROVE j + 1 \in T
  <2>1. j + 1 \in 1 .. RxRing /\ j + 1 \in 1 .. n /\ (j + 1) - 1 = j /\ j + 1 \in 0 .. n
      BY <1>1
  <2>2. /\ FramesOf(v)[j + 1] = IF v[j + 1] \in Frames THEN Append(FramesOf(v)[j], v[j + 1])
                                                        ELSE FramesOf(v)[j]
        /\ FramesOf(w)[j + 1] = IF w[j + 1] \in Frames THEN Append(FramesOf(w)[j], w[j + 1])
                                                        ELSE FramesOf(w)[j]
      BY <2>1, FramesEquation
  <2>3. FramesOf(v)[j + 1] = FramesOf(w)[j + 1]
      BY <2>1, <2>2, <1>4
  <2> QED
      BY <2>1, <2>3
<1>5. 0 .. n \subseteq T
  <2> HIDE DEF T
  <2> QED
      BY <1>1, <1>3, <1>4, IntervalInduct
<1> QED
    BY <1>1, <1>5

\* A frame behind all others comes last.
LEMMA FramesAppend ==
    ASSUME NEW v \in Cells, NEW p \in 1 .. RxRing, NEW f \in Frames,
           \A i \in 1 .. RxRing : v[i] \in Frames => i < p
    PROVE  FramesOf([v EXCEPT ![p] = f])[RxRing] = Append(FramesOf(v)[RxRing], f)
<1> DEFINE w == [v EXCEPT ![p] = f]
<1>1. RxRing \in Nat \ {0} /\ p - 1 \in 0 .. RxRing /\ p \in 0 .. RxRing
    BY Constants
<1>2. w \in Cells /\ \A i \in 1 .. RxRing : w[i] = IF i = p THEN f ELSE v[i]
    BY DEF Cells
<1> HIDE DEF w
<1>3. FramesOf(w)[p - 1] = FramesOf(v)[p - 1]
  <2> DEFINE n == p - 1
  <2>1. \A i \in 1 .. n : v[i] = w[i]
      BY <1>1, <1>2
  <2>2. n \in 0 .. RxRing
      BY <1>1
  <2> HIDE DEF n
  <2>3. FramesOf(w)[n] = FramesOf(v)[n]
      BY <2>1, <2>2, <1>2, FramesAgree
  <2> QED
      BY <2>3 DEF n
<1>4. FramesOf(w)[p] = Append(FramesOf(w)[p - 1], f)
    BY <1>2, FramesEquation
<1>5. FramesOf(w)[RxRing] = FramesOf(w)[p]
  <2>1. \A i \in 1 .. RxRing : i > p => w[i] \notin Frames
      BY <1>2
  <2> QED
      BY <2>1, <1>1, <1>2, FramesNone
<1>6. FramesOf(v)[RxRing] = FramesOf(v)[p - 1]
  <2> DEFINE n == p - 1
  <2>1. \A i \in 1 .. RxRing : i > n => v[i] \notin Frames
      BY <1>1
  <2>2. n \in 0 .. RxRing
      BY <1>1
  <2> HIDE DEF n
  <2>3. FramesOf(v)[RxRing] = FramesOf(v)[n]
      BY <2>1, <2>2, FramesNone
  <2> QED
      BY <2>3 DEF n
<1> QED
    BY <1>3, <1>4, <1>5, <1>6 DEF w

\* The frame at the head of the order comes first.
LEMMA FramesTail ==
    ASSUME NEW v \in Cells, v[1] \in Frames
    PROVE  LET w == [i \in 1 .. RxRing |-> IF i = RxRing THEN "free" ELSE v[i + 1]]
           IN  FramesOf(v)[RxRing] = << v[1] >> \o FramesOf(w)[RxRing]
<1> DEFINE w == [i \in 1 .. RxRing |-> IF i = RxRing THEN "free" ELSE v[i + 1]]
           m == RxRing - 1
           T == {j \in 0 .. m : FramesOf(v)[j + 1] = << v[1] >> \o FramesOf(w)[j]}
<1>1. RxRing \in Nat \ {0} /\ m \in Nat /\ "free" \notin Frames
    BY Constants
<1>2. w \in Cells
  <2>1. \A i \in 1 .. RxRing : i # RxRing => i + 1 \in 1 .. RxRing
      BY <1>1
  <2> QED
      BY <2>1 DEF Cells
<1>3. w[RxRing] \notin Frames /\ \A i \in 1 .. m : w[i] = v[i + 1]
    BY <1>1
<1> HIDE DEF w
<1>4. 0 \in T
  <2>1. 1 \in 1 .. RxRing /\ 1 - 1 = 0
      BY <1>1
  <2>2. FramesOf(v)[1] = Append(FramesOf(v)[1 - 1], v[1]) /\ FramesOf(v)[0] = << >>
      BY <2>1, FramesEquation
  <2>3. FramesOf(w)[0] = << >>
      BY <1>2, FramesEquation
  <2>4. FramesOf(v)[0 + 1] = << v[1] >>
      BY <2>2
  <2>5. << v[1] >> \in Seq(Frames)
      OBVIOUS
  <2>6. << v[1] >> \o << >> = << v[1] >>
      BY <2>5, ConcatEmptySeq
  <2>7. FramesOf(v)[0 + 1] = << v[1] >> \o FramesOf(w)[0]
      BY <2>3, <2>4, <2>6
  <2> QED
      BY <2>7, <1>1
<1>5. ASSUME NEW j \in 0 .. m - 1, j \in T PROVE j + 1 \in T
  <2>1. /\ j + 1 \in 1 .. RxRing /\ j + 1 \in 1 .. m /\ (j + 1) - 1 = j /\ j + 1 \in 0 .. m
        /\ (j + 1) + 1 \in 1 .. RxRing /\ ((j + 1) + 1) - 1 = j + 1 /\ j \in 0 .. RxRing
      BY <1>1
  <2> DEFINE e == w[j + 1]
             a == << v[1] >>
             b == FramesOf(w)[j]
  <2>2. e = v[(j + 1) + 1]
      BY <1>3, <2>1
  <2>3. FramesOf(v)[(j + 1) + 1] = IF e \in Frames THEN Append(FramesOf(v)[j + 1], e)
                                                  ELSE FramesOf(v)[j + 1]
      BY <2>1, <2>2, FramesEquation
  <2>4. FramesOf(w)[j + 1] = IF e \in Frames THEN Append(b, e) ELSE b
      BY <2>1, <1>2, FramesEquation
  <2>5. FramesOf(v)[j + 1] = a \o b
      BY <1>5
  <2>6. b \in Seq(Frames) /\ a \in Seq(Frames)
    <3>1. FramesOf(w) \in [0 .. RxRing -> Seq(Frames)]
        BY <1>2, FramesEquation
    <3>2. b \in Seq(Frames)
        BY <3>1, <2>1
    <3> QED
        BY <3>2
  <2>7. ASSUME e \in Frames PROVE Append(a \o b, e) = a \o Append(b, e)
    <3> HIDE DEF a, b, e
    <3>1. a \o b \in Seq(Frames) /\ << e >> \in Seq(Frames)
        BY <2>6, <2>7, ConcatProperties
    <3>2. Append(a \o b, e) = (a \o b) \o << e >> /\ Append(b, e) = b \o << e >>
        BY <3>1, <2>6, <2>7, AppendIsConcat
    <3> QED
        BY <3>1, <3>2, <2>6, ConcatAssociative
  <2> HIDE DEF a, b, e
  <2>8. FramesOf(v)[(j + 1) + 1] = a \o FramesOf(w)[j + 1]
      BY <2>3, <2>4, <2>5, <2>7
  <2> QED
      BY <2>1, <2>8 DEF a
<1>6. 0 .. m \subseteq T
  <2> HIDE DEF T, m
  <2> QED
      BY <1>1, <1>4, <1>5, IntervalInduct
<1>7. FramesOf(v)[RxRing] = << v[1] >> \o FramesOf(w)[m]
  <2>1. m \in T /\ m + 1 = RxRing
      BY <1>1, <1>6
  <2> QED
      BY <2>1
<1>8. FramesOf(w)[RxRing] = FramesOf(w)[m]
  <2>1. RxRing \in 1 .. RxRing
      BY <1>1
  <2> QED
      BY <2>1, <1>2, <1>3, FramesEquation
<1> QED
    BY <1>7, <1>8 DEF w

-----------------------------------------------------------------------------
(***************************************************************************)
(* The transmit ring.                                                      *)
(***************************************************************************)

TxCells == [1 .. TxRing -> {"free", "own", "bad", "nolen"}]

Rounds == [tx : TxCells, cur : 1 .. TxRing, events : SUBSET {"T", "TBUS"}, go : BOOLEAN]

LEMMA TransmitOneTyped ==
    ASSUME NEW b \in Rounds
    PROVE  TransmitOne(b) \in Rounds
<1>1. /\ b.tx \in TxCells /\ b.cur \in 1 .. TxRing /\ b.events \subseteq {"T", "TBUS"}
      /\ b = [tx |-> b.tx, cur |-> b.cur, events |-> b.events, go |-> b.go]
    BY DEF Rounds
<1>2. NextTx(b.cur) \in 1 .. TxRing
    BY <1>1, NextInRing, Constants
<1>3. [b.tx EXCEPT ![b.cur] = "free"] \in TxCells
    BY <1>1 DEF TxCells
<1> QED
    BY <1>1, <1>2, <1>3 DEF TransmitOne, Rounds

\* Whatever a round of the transmitter does, ring and cursor keep their types.
LEMMA TransmitTyped ==
    ASSUME tx \in TxCells, txCur \in 0 .. TxRing
    PROVE  Transmit.tx \in TxCells /\ Transmit.cur \in 0 .. TxRing
<1> DEFINE n == MaxRing
           start == IF txCur = 0 THEN 1 ELSE txCur
           d == [tx |-> tx, cur |-> start, events |-> {}, go |-> TRUE]
           Eq(f) == f = [i \in 0 .. n |-> IF i = 0 THEN d ELSE TransmitOne(f[i - 1])]
           after == TransmitFrom(start)
<1>1. n \in Nat /\ d \in Rounds
    BY Constants DEF Rounds
<1>2. \E f : Eq(f)
  <2> DEFINE F == [i \in 1 .. n |-> [b \in Rounds |-> TransmitOne(b)]]
  <2>1. F \in [1 .. n -> [Rounds -> Rounds]]
      BY TransmitOneTyped
  <2>2. PICK g : g \in Iterations(n, Rounds, d, F)
    <3> HIDE DEF F, d, n
    <3>1. Iterations(n, Rounds, d, F) # {}
        BY <1>1, <2>1, IterateExists
    <3> QED
        BY <3>1
  <2>3. g \in [0 .. n -> Rounds] /\ g[0] = d /\ \A i \in 1 .. n : g[i] = F[i][g[i - 1]]
    <3> HIDE DEF F, d, n
    <3> QED
        BY <2>2 DEF Iterations
  <2>4. \A i \in 1 .. n : g[i] = TransmitOne(g[i - 1])
    <3> SUFFICES ASSUME NEW i \in 1 .. n PROVE g[i] = TransmitOne(g[i - 1])
        OBVIOUS
    <3>1. g[i - 1] \in Rounds
      <4>1. i - 1 \in 0 .. n
          BY <1>1
      <4> QED
          BY <4>1, <2>3
    <3> QED
        BY <2>3, <3>1
  <2>5. Eq(g)
    <3> HIDE DEF d
    <3> QED
        BY <2>3, <2>4, <1>1
  <2> QED
      BY <2>5
<1>3. Eq(after)
  <2>1. after = CHOOSE f : Eq(f)
      BY DEF TransmitFrom
  <2> HIDE DEF Eq
  <2> QED
      BY <2>1, <1>2
<1>4. after[0] = d /\ \A i \in 1 .. n : after[i] = TransmitOne(after[i - 1])
  <2> HIDE DEF d, after
  <2>1. Eq(after)
      BY <1>3 DEF after
  <2> QED
      BY <2>1, <1>1
<1> DEFINE T == {i \in 0 .. n : after[i] \in Rounds}
<1>5. 0 \in T
  <2> HIDE DEF d, after
  <2> QED
      BY <1>1, <1>4
<1>6. ASSUME NEW i \in 0 .. n - 1, i \in T PROVE i + 1 \in T
  <2>1. i + 1 \in 1 .. n /\ i + 1 \in 0 .. n /\ (i + 1) - 1 = i
      BY <1>1
  <2> HIDE DEF after
  <2>2. after[i + 1] = TransmitOne(after[i])
      BY <2>1, <1>4
  <2> QED
      BY <2>1, <2>2, <1>6, TransmitOneTyped
<1>7. 0 .. n \subseteq T
  <2> HIDE DEF T, n
  <2> QED
      BY <1>1, <1>5, <1>6, IntervalInduct
<1>8. after[n] \in Rounds
    BY <1>1, <1>7
<1> QED
    BY <1>8 DEF Transmit, Rounds

-----------------------------------------------------------------------------
(***************************************************************************)
(* Types.                                                                  *)
(***************************************************************************)

\* What the steps below need of a delivery.
LEMMA DeliveryFacts ==
    ASSUME TypeOK, NEW f \in Frames
    PROVE  LET cur == IF rxCur = 0 THEN 1 ELSE rxCur
               s == Scan(cur)
           IN  /\ cur \in 1 .. RxRing /\ s \in 1 .. RxRing /\ NextRx(s) \in 1 .. RxRing
               /\ \/ /\ ~ (sr /\ list = "ring")
                     /\ Deliver(f).rx = rx /\ Deliver(f).cur = rxCur
                  \/ /\ sr /\ list = "ring" /\ rx[s] = "own"
                     /\ Deliver(f).rx = [rx EXCEPT ![s] = f] /\ Deliver(f).cur = NextRx(s)
                  \/ /\ sr /\ list = "ring" /\ rx[s] # "own"
                     /\ Deliver(f).rx = rx /\ Deliver(f).cur = NextRx(s)
<1> DEFINE cur == IF rxCur = 0 THEN 1 ELSE rxCur
           s == Scan(cur)
<1>1. cur \in 1 .. RxRing /\ RxRing \in Nat \ {0} /\ RxOK /\ MaxRing - 1 \in 0 .. MaxRing - 1
    BY Constants DEF TypeOK, RxOK, Cells
<1>2. s \in 1 .. RxRing
  <2> HIDE DEF cur
  <2>1. ScanFrom(cur) \in [0 .. MaxRing - 1 -> 1 .. RxRing]
      BY <1>1, ScanEquation
  <2> QED
      BY <2>1, <1>1 DEF Scan
<1>3. NextRx(s) \in 1 .. RxRing
  <2> HIDE DEF s
  <2> QED
      BY <1>1, <1>2, NextInRing
<1> QED
    BY <1>1, <1>2, <1>3 DEF Deliver

\* Where the frames are once the tap was resumed.
LEMMA ResumedFacts ==
    ASSUME NEW s, NEW w
    PROVE  LET n == Resumed(s, w)
           IN  /\ n.reading = TRUE
               /\ \/ n.stash = s /\ n.queue = << >>
                  \/ n.stash = s /\ n.queue = w /\ s # NoFrame
                  \/ s = NoFrame /\ w # << >> /\ n.stash = Head(w) /\ n.queue = Tail(w)
    BY DEF Resumed

LEMMA ResumedTyped ==
    ASSUME NEW s \in Frames \cup {NoFrame}, NEW w \in Seq(Frames)
    PROVE  /\ Resumed(s, w).stash \in Frames \cup {NoFrame}
           /\ Resumed(s, w).queue \in Seq(Frames)
           /\ Resumed(s, w).reading \in BOOLEAN
<1>1. w # << >> => Head(w) \in Frames /\ Tail(w) \in Seq(Frames)
    BY HeadTailProperties
<1>2. << >> \in Seq(Frames)
    OBVIOUS
<1>3. Resumed(s, w).reading = TRUE
    BY DEF Resumed
<1> DEFINE n == Resumed(s, w)
<1>4. \/ n.stash = s /\ n.queue = << >>
      \/ n.stash = s /\ n.queue = w
      \/ w # << >> /\ n.stash = Head(w) /\ n.queue = Tail(w)
    BY DEF Resumed
<1> HIDE DEF n
<1>5. n.stash \in Frames \cup {NoFrame}
    BY <1>1, <1>4
<1>6. n.queue \in Seq(Frames)
    BY <1>1, <1>2, <1>4
<1> QED
    BY <1>3, <1>5, <1>6 DEF n

LEMMA RoundFacts ==
    ASSUME BottomHalf
    PROVE  /\ bh /\ UNCHANGED << dma, ier, timer, link, firmware >>
           /\ tx' = Transmit.tx /\ txCur' = Transmit.cur
           /\ \E events : Raise(events)
           /\ \/ stash = NoFrame /\ UNCHANGED << rx, rxCur, net >> /\ bh' = FALSE
              \/ /\ stash # NoFrame
                 /\ rx' = Deliver(stash).rx /\ rxCur' = Deliver(stash).cur
                 /\ stash' = Resumed(NoFrame, queue).stash
                 /\ queue' = Resumed(NoFrame, queue).queue
                 /\ reading' = Resumed(NoFrame, queue).reading
                 /\ bh' = (stash' # NoFrame)
    BY DEF BottomHalf

\* held counts what the firmware has not given back, which is free: only so
\* can it never exceed the ring.
TypeInv == TypeOK /\ FreeTail(InReadOrder, held)

LEMMA ReadOrderIsView == InReadOrder = View(rxHead, rx)
    BY DEF InReadOrder, RxCell, View, Cell

USE DEF dma, irq, rings, net, timer, link, firmware

LEMMA TypeInvInit ==
    Init => TypeInv
<1> SUFFICES ASSUME Init PROVE TypeInv
    OBVIOUS
<1>1. TypeOK
  <2>1. queue \in Seq(Frames)
      BY DEF Init
  <2>2. rx \in [1 .. RxRing -> {"free", "own", "bad"} \cup Frames]
      BY DEF Init
  <2>3. tx \in [1 .. TxRing -> {"free", "own", "bad", "nolen"}]
      BY DEF Init
  <2>4. polling \in BOOLEAN /\ pollTimer \in BOOLEAN
      BY DEF Init
  <2>5. /\ txCur \in 0 .. TxRing /\ rxCur \in 0 .. RxRing
        /\ txHead \in 1 .. TxRing /\ rxHead \in 1 .. RxRing /\ held \in 0 .. RxRing
      BY Constants DEF Init
  <2>6. /\ st \in BOOLEAN /\ sr \in BOOLEAN /\ list \in {"none", "bad", "ring"}
        /\ dmasr \subseteq Tracked /\ ier \subseteq Tracked /\ asked \in BOOLEAN
        /\ stash \in Frames \cup {NoFrame} /\ reading \in BOOLEAN /\ bh \in BOOLEAN
        /\ linkUp \in BOOLEAN /\ linkTold \in BOOLEAN /\ got \in Frames \cup {NoFrame}
      BY DEF Init
  <2> QED
      BY <2>1, <2>2, <2>3, <2>4, <2>5, <2>6 DEF TypeOK
<1>2. FreeTail(View(1, [i \in 1 .. RxRing |-> "free"]), 0)
    BY FreshOrder DEF InPlace
<1>3. FreeTail(InReadOrder, held)
    BY <1>2, ReadOrderIsView DEF Init
<1> QED
    BY <1>1, <1>3 DEF TypeInv

\* A delivery writes to a descriptor that the firmware has given back.
LEMMA DeliveryKeepsTail ==
    ASSUME TypeInv, NEW s \in 1 .. RxRing, rx[s] = "own", NEW f \in Frames
    PROVE  FreeTail(View(rxHead, [rx EXCEPT ![s] = f]), held)
<1>1. rxHead \in 1 .. RxRing /\ rx \in Cells /\ FreeTail(View(rxHead, rx), held)
    BY ReadOrderIsView DEF TypeInv, TypeOK, Cells
<1>2. PICK p \in 1 .. RxRing : s = Cell(rxHead, p)
    BY <1>1, PlaceOf
<1> DEFINE v == View(rxHead, rx)
<1>3. v[p] = "own"
    BY <1>2 DEF View
<1>4. v \in Cells /\ View(rxHead, [rx EXCEPT ![s] = f]) = [v EXCEPT ![p] = f]
    BY <1>1, <1>2, ViewFacts
<1> HIDE DEF v
<1>5. FreeTail([v EXCEPT ![p] = f], held)
    BY <1>1, <1>3, <1>4 DEF FreeTail, Cells, v
<1> QED
    BY <1>4, <1>5

LEMMA TypeInvStep ==
    TypeInv /\ [Next]_vars => TypeInv'
<1> SUFFICES ASSUME TypeInv, [Next]_vars
             PROVE  TypeInv'
    OBVIOUS
<1>0. TypeOK /\ FreeTail(InReadOrder, held)
    BY DEF TypeInv
<1> DEFINE Same == UNCHANGED << rx, rxHead, held >>
<1>1. ASSUME TypeOK', Same PROVE TypeInv'
  <2>1. InReadOrder' = InReadOrder
      BY <1>1 DEF InReadOrder, RxCell
  <2> QED
      BY <1>0, <1>1, <2>1 DEF TypeInv
<1>2. /\ RxRing \in Nat \ {0} /\ TxRing \in Nat \ {0}
      /\ rxHead \in 1 .. RxRing /\ rx \in Cells
    BY <1>0, Constants DEF TypeOK, Cells
<1>3. CASE UNCHANGED vars
    BY <1>0, <1>1, <1>3 DEF vars, TypeOK
<1>4. ASSUME NEW t \in BOOLEAN, NEW r \in BOOLEAN, WriteDmaomr(t, r)
      PROVE  TypeInv'
  <2>1. /\ st' = t /\ sr' = r /\ UNCHANGED << list, irq, rings, link, firmware >>
        /\ bh' \in BOOLEAN /\ polling' \in BOOLEAN /\ pollTimer' \in BOOLEAN
        /\ \/ UNCHANGED net
           \/ /\ stash' = Resumed(stash, queue).stash
              /\ queue' = Resumed(stash, queue).queue
              /\ reading' = Resumed(stash, queue).reading
      BY <1>0, <1>4 DEF WriteDmaomr, Resume, ArmPoll, StopPoll, TypeOK
  <2>2. /\ stash' \in Frames \cup {NoFrame} /\ queue' \in Seq(Frames) /\ reading' \in BOOLEAN
    <3>1. CASE UNCHANGED net
        BY <3>1, <1>0 DEF TypeOK
    <3>2. CASE /\ stash' = Resumed(stash, queue).stash
               /\ queue' = Resumed(stash, queue).queue
               /\ reading' = Resumed(stash, queue).reading
        BY <3>2, <1>0, ResumedTyped DEF TypeOK
    <3> QED
        BY <2>1, <3>1, <3>2
  <2>3. TypeOK'
      BY <1>0, <2>1, <2>2 DEF TypeOK
  <2> QED
      BY <1>1, <2>1, <2>3
<1>5. CASE PollDemand
    BY <1>0, <1>1, <1>5 DEF PollDemand, TypeOK
<1>6. ASSUME NEW events, NEW whole, WriteDmasr(events, whole)
      PROVE  TypeInv'
    BY <1>0, <1>1, <1>6 DEF WriteDmasr, Resync, TypeOK
<1>7. ASSUME NEW mask \in {{}, Tracked}, WriteDmaier(mask)
      PROVE  TypeInv'
    BY <1>0, <1>1, <1>7 DEF WriteDmaier, TypeOK
<1>8. ASSUME NEW kind \in {"own", "bad", "nolen"}, PutTx(kind)
      PROVE  TypeInv'
  <2>1. txHead' \in 1 .. TxRing
      BY <1>0, <1>2, <1>8, NextInRing DEF PutTx, TypeOK
  <2>2. tx' \in [1 .. TxRing -> {"free", "own", "bad", "nolen"}]
      BY <1>0, <1>8 DEF PutTx, TypeOK
  <2> QED
      BY <1>0, <1>1, <1>8, <2>1, <2>2 DEF PutTx, TypeOK
<1>9. ASSUME NEW kind \in {"own", "bad"}, GiveRx(kind)
      PROVE  TypeInv'
  <2> DEFINE v == View(rxHead, rx)
             g == RxRing - held + 1
  <2>1. held \in 0 .. RxRing /\ held > 0 /\ FreeTail(v, held)
      BY <1>0, <1>9, ReadOrderIsView DEF GiveRx, TypeOK
  <2>2. g \in 1 .. RxRing /\ rxHead + g - 2 = rxHead + RxRing - held - 1
      BY <1>2, <2>1
  <2>3. rx' = [rx EXCEPT ![Cell(rxHead, g)] = kind] /\ held' = held - 1 /\ rxHead' = rxHead
      BY <1>9, <2>2 DEF GiveRx, Cell
  <2> HIDE DEF g
  <2>4. v \in Cells /\ View(rxHead, rx') = [v EXCEPT ![g] = kind]
    <3>1. v \in Cells /\ View(rxHead, [rx EXCEPT ![Cell(rxHead, g)] = kind]) = [v EXCEPT ![g] = kind]
        BY <1>2, <2>2, ViewFacts
    <3> QED
        BY <2>3, <3>1
  <2>5. FreeTail(View(rxHead, rx'), held - 1)
    <3> HIDE DEF v
    <3> QED
        BY <1>2, <2>1, <2>4 DEF FreeTail, Cells, g
  <2>6. FreeTail(InReadOrder, held)'
      BY <2>3, <2>5, ReadOrderIsView DEF InReadOrder, View, RxCell, Cell
  <2>7. rx' \in [1 .. RxRing -> {"free", "own", "bad"} \cup Frames]
      BY <1>2, <2>3 DEF Cells
  <2>8. held' \in 0 .. RxRing
      BY <1>2, <2>1, <2>3
  <2>9. TypeOK'
      BY <1>0, <1>9, <2>7, <2>8 DEF GiveRx, TypeOK
  <2> QED
      BY <2>6, <2>9 DEF TypeInv
<1>10. CASE ReadRx
  <2> DEFINE v == View(rxHead, rx)
             w == [i \in 1 .. RxRing |-> IF i = RxRing THEN "free" ELSE v[i + 1]]
  <2>1. /\ rx[rxHead] \in Frames /\ rx' = [rx EXCEPT ![rxHead] = "free"]
        /\ rxHead' = NextRx(rxHead) /\ held' = held + 1 /\ got' = rx[rxHead]
      BY <1>10 DEF ReadRx
  <2>2. View(rxHead', rx') = w
      BY <1>2, <2>1, ReadView
  <2>3. v[1] \in Frames /\ 1 \in 1 .. RxRing /\ "free" \notin Frames
    <3>1. 1 \in 1 .. RxRing
        BY <1>2
    <3>2. v[1] = rx[Cell(rxHead, 1)]
        BY <3>1 DEF View
    <3>3. Cell(rxHead, 1) = rxHead
        BY <1>2, CellsApart
    <3> QED
        BY <3>1, <3>2, <3>3, <2>1, Constants
  <2>4. FreeTail(v, held) /\ held \in 0 .. RxRing
      BY <1>0, ReadOrderIsView DEF TypeOK
  <2> HIDE DEF v
  <2>5. held + 1 \in 0 .. RxRing
      BY <1>2, <2>3, <2>4 DEF FreeTail
  <2>6. FreeTail(w, held + 1)
    <3> SUFFICES ASSUME NEW i \in 1 .. RxRing, i > RxRing - (held + 1), i # RxRing
                 PROVE  w[i] = "free"
        BY DEF FreeTail
    <3>1. i + 1 \in 1 .. RxRing /\ i + 1 > RxRing - held /\ w[i] = v[i + 1]
        BY <1>2, <2>4
    <3> QED
        BY <3>1, <2>4 DEF FreeTail
  <2>7. InReadOrder' = View(rxHead', rx')
      BY DEF InReadOrder, View, RxCell, Cell
  <2>8. FreeTail(InReadOrder, held)'
      BY <2>1, <2>2, <2>6, <2>7 DEF FreeTail
  <2>9. rx' \in [1 .. RxRing -> {"free", "own", "bad"} \cup Frames] /\ rxHead' \in 1 .. RxRing
      BY <1>2, <2>1, NextInRing DEF Cells
  <2>10. TypeOK'
      BY <1>0, <1>10, <2>1, <2>5, <2>9 DEF ReadRx, TypeOK
  <2> QED
      BY <2>8, <2>10 DEF TypeInv
<1>11. CASE WriteBadLists
    BY <1>0, <1>1, <1>11 DEF WriteBadLists, TypeOK
<1>12. ASSUME NEW x \in {"free", "own"}, rx' = [i \in 1 .. RxRing |-> x], rxHead' = 1, held' = 0, TypeOK'
       PROVE  TypeInv'
  <2>1. FreeTail(View(1, [i \in 1 .. RxRing |-> x]), 0)
      BY FreshOrder DEF InPlace
  <2>2. InReadOrder' = View(1, [i \in 1 .. RxRing |-> x])
      BY <1>12 DEF InReadOrder, View, RxCell, Cell
  <2> QED
      BY <1>12, <2>1, <2>2 DEF TypeInv, FreeTail
<1>13. CASE Setup
  <2>1. TypeOK'
      BY <1>0, <1>2, <1>13 DEF Setup, TypeOK
  <2> QED
      BY <1>12, <1>13, <2>1 DEF Setup
<1>14. CASE PhyReset
    BY <1>0, <1>1, <1>14, ZenonT(40) DEF PhyReset, TypeOK
<1>15. ASSUME NEW f \in Frames, HostSend(f)
       PROVE  TypeInv'
  <2>1. Append(queue, f) \in Seq(Frames)
      BY <1>0, AppendProperties DEF TypeOK
  <2>2. queue' \in Seq(Frames) /\ stash' \in Frames \cup {NoFrame} /\ reading' \in BOOLEAN /\ bh' \in BOOLEAN
      BY <1>0, <1>15, <2>1 DEF HostSend, TypeOK
  <2>3. TypeOK' /\ Same
      BY <1>0, <1>15, <2>2 DEF HostSend, TypeOK
  <2> QED
      BY <1>1, <2>3
<1>16. CASE BottomHalf
  <2> DEFINE cur == IF rxCur = 0 THEN 1 ELSE rxCur
             s == Scan(cur)
  <2>1. tx' \in TxCells /\ txCur' \in 0 .. TxRing
      BY <1>0, <1>16, RoundFacts, TransmitTyped DEF TypeOK, TxCells
  <2>2. dmasr' \subseteq Tracked /\ asked' \in BOOLEAN
      BY <1>0, <1>16, RoundFacts DEF Raise, Resync, TypeOK
  <2>3. CASE stash = NoFrame
    <3>1. TypeOK' /\ Same
        BY <1>0, <1>16, <2>1, <2>2, <2>3, RoundFacts DEF TypeOK, TxCells
    <3> QED
        BY <1>1, <3>1
  <2>4. CASE stash # NoFrame
    <3>1. /\ rx' = Deliver(stash).rx /\ rxCur' = Deliver(stash).cur
          /\ stash' = Resumed(NoFrame, queue).stash
          /\ queue' = Resumed(NoFrame, queue).queue
          /\ reading' = Resumed(NoFrame, queue).reading
          /\ bh' = (stash' # NoFrame)
          /\ UNCHANGED << dma, ier, timer, link, firmware >>
        BY <1>16, <2>4, RoundFacts
    <3>2. stash \in Frames
        BY <1>0, <2>4 DEF TypeOK
    <3>3. stash' \in Frames \cup {NoFrame} /\ queue' \in Seq(Frames) /\ reading' = TRUE
      <4>1. queue \in Seq(Frames) /\ NoFrame \in Frames \cup {NoFrame}
          BY <1>0 DEF TypeOK
      <4> QED
          BY <3>1, <4>1, ResumedTyped, ResumedFacts
    <3>4. /\ s \in 1 .. RxRing /\ rxCur' \in 0 .. RxRing
          /\ \/ rx' = rx
             \/ rx[s] = "own" /\ rx' = [rx EXCEPT ![s] = stash]
      <4>1. rxCur \in 0 .. RxRing
          BY <1>0 DEF TypeOK
      <4>2. /\ s \in 1 .. RxRing /\ NextRx(s) \in 1 .. RxRing
            /\ \/ Deliver(stash).rx = rx /\ Deliver(stash).cur = rxCur
               \/ /\ rx[s] = "own" /\ Deliver(stash).rx = [rx EXCEPT ![s] = stash]
                  /\ Deliver(stash).cur = NextRx(s)
               \/ Deliver(stash).rx = rx /\ Deliver(stash).cur = NextRx(s)
          BY <1>0, <3>2, DeliveryFacts
      <4> HIDE DEF s
      <4> QED
          BY <1>2, <3>1, <4>1, <4>2
    <3> HIDE DEF s
    <3>5. rx' \in [1 .. RxRing -> {"free", "own", "bad"} \cup Frames]
        BY <1>2, <3>2, <3>4 DEF Cells
    <3>6. TypeOK'
        BY <1>0, <2>1, <2>2, <3>1, <3>3, <3>4, <3>5 DEF TypeOK, TxCells
    <3>7. CASE rx' = rx
        BY <1>1, <3>1, <3>6, <3>7
    <3>8. CASE rx[s] = "own" /\ rx' = [rx EXCEPT ![s] = stash]
      <4>1. FreeTail(View(rxHead, rx'), held)
          BY <3>2, <3>4, <3>8, DeliveryKeepsTail
      <4>2. InReadOrder' = View(rxHead, rx')
          BY <3>1 DEF InReadOrder, View, RxCell, Cell
      <4>3. FreeTail(InReadOrder, held)'
          BY <4>1, <4>2, <3>1 DEF FreeTail
      <4> QED
          BY <3>6, <4>3 DEF TypeInv
    <3> QED
        BY <3>4, <3>7, <3>8
  <2> QED
      BY <2>3, <2>4
<1>17. CASE PollTick
    BY <1>0, <1>1, <1>17 DEF PollTick, Raise, Resync, TypeOK
<1>18. CASE LinkComesUp
    BY <1>0, <1>1, <1>18 DEF LinkComesUp, TypeOK
<1>19. CASE Reset
  <2>1. TypeOK'
    <3>1. queue' \in Seq(Frames)
        BY <1>19 DEF Reset
    <3>2. rx' \in [1 .. RxRing -> {"free", "own", "bad"} \cup Frames]
        BY <1>19 DEF Reset
    <3>3. tx' \in [1 .. TxRing -> {"free", "own", "bad", "nolen"}]
        BY <1>19 DEF Reset
    <3>4. polling' \in BOOLEAN /\ pollTimer' \in BOOLEAN
        BY <1>19 DEF Reset
    <3>5. /\ txCur' \in 0 .. TxRing /\ rxCur' \in 0 .. RxRing
          /\ txHead' \in 1 .. TxRing /\ rxHead' \in 1 .. RxRing /\ held' \in 0 .. RxRing
        BY <1>2, <1>19 DEF Reset
    <3>6. /\ st' \in BOOLEAN /\ sr' \in BOOLEAN /\ list' \in {"none", "bad", "ring"}
          /\ dmasr' \subseteq Tracked /\ ier' \subseteq Tracked /\ asked' \in BOOLEAN
          /\ stash' \in Frames \cup {NoFrame} /\ reading' \in BOOLEAN /\ bh' \in BOOLEAN
          /\ linkUp' \in BOOLEAN /\ linkTold' \in BOOLEAN /\ got' \in Frames \cup {NoFrame}
        BY <1>0, <1>19 DEF Reset, TypeOK
    <3> QED
        BY <3>1, <3>2, <3>3, <3>4, <3>5, <3>6 DEF TypeOK
  <2> QED
      BY <1>12, <1>19, <2>1 DEF Reset
<1> QED
    BY <1>3, <1>4, <1>5, <1>6, <1>7, <1>8, <1>9, <1>10, <1>11, <1>13, <1>14, <1>15, <1>16,
       <1>17, <1>18, <1>19 DEF Next, Firmware

\* The registers, both rings and their cursors, the stash and the queue range
\* over what the C fields hold, and the firmware never has more descriptors in
\* hand than the ring has: for every ring and MaxRing.
THEOREM EthTyped ==
    Spec => []TypeOK
<1>1. TypeInv => TypeOK
    BY DEF TypeInv
<1> QED
    BY TypeInvInit, TypeInvStep, <1>1, PTL DEF Spec

-----------------------------------------------------------------------------
(***************************************************************************)
(* The tap and the poll timer.                                             *)
(***************************************************************************)

\* The actions that touch neither the stash, the queue, the tap nor the bottom half.
Bystander ==
    \/ \E events, whole : WriteDmasr(events, whole)
    \/ \E mask : WriteDmaier(mask)
    \/ \E kind : PutTx(kind) \/ GiveRx(kind)
    \/ ReadRx \/ WriteBadLists \/ Setup \/ PhyReset \/ LinkComesUp

LEMMA NextCases ==
    Next => \/ Bystander \/ PollDemand \/ BottomHalf \/ PollTick \/ Reset
            \/ \E f \in Frames : HostSend(f)
            \/ \E t, r \in BOOLEAN : WriteDmaomr(t, r)
<1> USE DEF Bystander
<1>1. (\E events \in SUBSET Tracked, whole \in BOOLEAN : WriteDmasr(events, whole)) => Bystander
    OBVIOUS
<1>2. (\E mask \in {{}, Tracked} : WriteDmaier(mask)) => Bystander
    OBVIOUS
<1>3. (\E kind \in {"own", "bad", "nolen"} : PutTx(kind)) => Bystander
    OBVIOUS
<1>4. (\E kind \in {"own", "bad"} : GiveRx(kind)) => Bystander
    OBVIOUS
<1>5. ReadRx \/ WriteBadLists \/ Setup \/ PhyReset \/ LinkComesUp => Bystander
    OBVIOUS
<1> HIDE DEF Bystander
<1> QED
    BY <1>1, <1>2, <1>3, <1>4, <1>5, Zenon DEF Next, Firmware

LEMMA Bystanders ==
    /\ Bystander => UNCHANGED << stash, queue, reading, bh, st, sr, polling, pollTimer >>
    /\ PollDemand \/ (\E f : HostSend(f)) \/ BottomHalf
           => UNCHANGED << st, sr, polling, pollTimer >>
<1>1. ASSUME NEW events, NEW whole, WriteDmasr(events, whole)
      PROVE  UNCHANGED << stash, queue, reading, bh, st, sr, polling, pollTimer >>
    BY <1>1 DEF WriteDmasr
<1>2. ASSUME NEW mask, WriteDmaier(mask)
      PROVE  UNCHANGED << stash, queue, reading, bh, st, sr, polling, pollTimer >>
    BY <1>2 DEF WriteDmaier
<1>3. ASSUME NEW kind, PutTx(kind) \/ GiveRx(kind)
      PROVE  UNCHANGED << stash, queue, reading, bh, st, sr, polling, pollTimer >>
    BY <1>3 DEF PutTx, GiveRx
<1>4. ASSUME ReadRx \/ WriteBadLists \/ Setup \/ PhyReset \/ LinkComesUp
      PROVE  UNCHANGED << stash, queue, reading, bh, st, sr, polling, pollTimer >>
    BY <1>4 DEF ReadRx, WriteBadLists, Setup, PhyReset, LinkComesUp
<1>5. PollDemand => UNCHANGED << st, sr, polling, pollTimer >>
    BY DEF PollDemand
<1>6. ASSUME NEW f, HostSend(f) PROVE UNCHANGED << st, sr, polling, pollTimer >>
    BY <1>6 DEF HostSend
<1>7. BottomHalf => UNCHANGED << st, sr, polling, pollTimer >>
    BY RoundFacts
<1> QED
    BY <1>1, <1>2, <1>3, <1>4, <1>5, <1>6, <1>7 DEF Bystander

LEMMA TapStep ==
    TypeOK /\ TapIsResumed /\ [Next]_vars => TapIsResumed'
<1> SUFFICES ASSUME TypeOK, TapIsResumed, [Next]_vars PROVE TapIsResumed'
    OBVIOUS
<1>1. CASE UNCHANGED << stash, queue, reading, bh >>
    BY <1>1 DEF TapIsResumed
<1>2. CASE UNCHANGED vars
    BY <1>1, <1>2 DEF vars
<1>3. ASSUME NEW t, NEW r, WriteDmaomr(t, r) PROVE TapIsResumed'
  <2>1. CASE UNCHANGED << stash, queue, reading, bh >>
      BY <2>1 DEF TapIsResumed
  <2>2. CASE Resume(stash)
    <3> DEFINE n == Resumed(stash, queue)
    <3>1. /\ stash' = n.stash /\ queue' = n.queue /\ reading' = n.reading
          /\ bh' = (bh \/ (n.stash # NoFrame /\ n.stash # stash))
        BY <2>2 DEF Resume
    <3>2. queue # << >> => Head(queue) # NoFrame
        BY HeadTailProperties, Constants DEF TypeOK
    <3>3. /\ n.reading = TRUE
          /\ \/ n.stash = stash /\ n.queue = << >>
             \/ n.stash = stash /\ n.queue = queue /\ stash # NoFrame
             \/ stash = NoFrame /\ queue # << >> /\ n.stash = Head(queue) /\ n.queue = Tail(queue)
        BY DEF Resumed
    <3> HIDE DEF n
    <3> QED
        BY <3>1, <3>2, <3>3 DEF TapIsResumed
  <2> QED
      BY <1>3, <2>1, <2>2 DEF WriteDmaomr
<1>4. CASE PollDemand
    BY <1>4 DEF PollDemand, TapIsResumed
<1>5. ASSUME NEW f \in Frames, HostSend(f) PROVE TapIsResumed'
    BY <1>5, Constants DEF HostSend, TapIsResumed
<1>6. CASE BottomHalf
  <2>1. CASE stash = NoFrame
      BY <1>6, <2>1, RoundFacts DEF TapIsResumed
  <2>2. CASE stash # NoFrame
    <3> DEFINE n == Resumed(NoFrame, queue)
    <3>1. /\ stash' = n.stash /\ queue' = n.queue /\ reading' = n.reading
          /\ bh' = (stash' # NoFrame)
        BY <1>6, <2>2, RoundFacts
    <3>2. queue # << >> => Head(queue) # NoFrame
        BY HeadTailProperties, Constants DEF TypeOK
    <3>3. /\ n.reading = TRUE
          /\ \/ n.stash = NoFrame /\ n.queue = << >>
             \/ queue # << >> /\ n.stash = Head(queue) /\ n.queue = Tail(queue)
        BY DEF Resumed
    <3> HIDE DEF n
    <3> QED
        BY <3>1, <3>2, <3>3 DEF TapIsResumed
  <2> QED
      BY <2>1, <2>2
<1>7. CASE PollTick
    BY <1>7 DEF PollTick, TapIsResumed, TypeOK
<1>8. CASE Reset
    BY <1>8 DEF Reset, TapIsResumed
<1>9. CASE Bystander
    BY <1>1, <1>9, Bystanders
<1> QED
    BY <1>2, <1>3, <1>4, <1>5, <1>6, <1>7, <1>8, <1>9, NextCases

\* The network is never frozen: a tap that is not read, a waiting frame or a
\* full stash has a bottom half scheduled that resumes it, for any rings,
\* queue and PHY and whatever order the firmware writes DMAOMR in.
THEOREM TapResumed ==
    Spec => []TapIsResumed
<1>1. Init => TapIsResumed
    BY DEF Init, TapIsResumed
<1>2. TypeInv => TypeOK
    BY DEF TypeInv
<1> QED
    BY TypeInvInit, TypeInvStep, TapStep, <1>1, <1>2, PTL DEF Spec

LEMMA PollStep ==
    TypeOK /\ PollMatches /\ [Next]_vars => PollMatches'
<1> SUFFICES ASSUME TypeOK, PollMatches, [Next]_vars PROVE PollMatches'
    OBVIOUS
<1>1. CASE UNCHANGED << st, sr, polling, pollTimer >>
    BY <1>1 DEF PollMatches
<1>2. CASE UNCHANGED vars
    BY <1>1, <1>2 DEF vars
<1>3. ASSUME NEW t \in BOOLEAN, NEW r \in BOOLEAN, WriteDmaomr(t, r) PROVE PollMatches'
  <2>1. CASE t \/ r
      BY <1>3, <2>1 DEF WriteDmaomr, ArmPoll, PollMatches, TypeOK
  <2>2. CASE ~ (t \/ r)
      BY <1>3, <2>2 DEF WriteDmaomr, StopPoll, PollMatches, TypeOK
  <2> QED
      BY <2>1, <2>2
<1>4. CASE PollTick
    BY <1>4 DEF PollTick, PollMatches, TypeOK
<1>5. CASE Reset
    BY <1>5 DEF Reset, PollMatches
<1>6. CASE Bystander \/ PollDemand \/ BottomHalf
    BY <1>1, <1>6, Bystanders
<1>7. ASSUME NEW f \in Frames, HostSend(f) PROVE PollMatches'
    BY <1>1, <1>7, Bystanders
<1> QED
    BY <1>2, <1>3, <1>4, <1>5, <1>6, <1>7, NextCases

\* poll_active is TRUE just while the timer is pending, and the timer is
\* pending as long as ST or SR is on and, with the built-in PHY, always.
THEOREM PollTimerKept ==
    Spec => []PollMatches
<1>1. Init => PollMatches
    BY DEF Init, PollMatches
<1>2. TypeInv => TypeOK
    BY DEF TypeInv
<1> QED
    BY TypeInvInit, TypeInvStep, PollStep, <1>1, <1>2, PTL DEF Spec

-----------------------------------------------------------------------------
(***************************************************************************)
(* The receive ring stays in order.                                        *)
(***************************************************************************)

Cursor == IF rxCur = 0 THEN 1 ELSE rxCur

\* rx_cur_desc parts the ring as Ordered says, and is reset as long as the MAC
\* has no ring.
RingInv ==
    /\ InPlace(InReadOrder, held, rxHead, Cursor)
    /\ list # "ring" => rxCur = 0

LEMMA RingCases ==
    Next => \/ UNCHANGED << rx, rxHead, held, rxCur, list >>
            \/ ReadRx \/ WriteBadLists \/ Setup \/ BottomHalf \/ Reset
            \/ \E kind \in {"own", "bad"} : GiveRx(kind)
<1>1. ASSUME NEW t, NEW r, WriteDmaomr(t, r) PROVE UNCHANGED << rx, rxHead, held, rxCur, list >>
    BY <1>1 DEF WriteDmaomr
<1>2. PollDemand \/ PhyReset \/ LinkComesUp => UNCHANGED << rx, rxHead, held, rxCur, list >>
    BY DEF PollDemand, PhyReset, LinkComesUp
<1>3. ASSUME NEW events, NEW whole, WriteDmasr(events, whole)
      PROVE  UNCHANGED << rx, rxHead, held, rxCur, list >>
    BY <1>3 DEF WriteDmasr
<1>4. ASSUME NEW mask, WriteDmaier(mask) PROVE UNCHANGED << rx, rxHead, held, rxCur, list >>
    BY <1>4 DEF WriteDmaier
<1>5. ASSUME NEW kind, PutTx(kind) PROVE UNCHANGED << rx, rxHead, held, rxCur, list >>
    BY <1>5 DEF PutTx
<1>6. ASSUME NEW f, HostSend(f) PROVE UNCHANGED << rx, rxHead, held, rxCur, list >>
    BY <1>6 DEF HostSend
<1>7. PollTick => UNCHANGED << rx, rxHead, held, rxCur, list >>
    BY DEF PollTick
<1> QED
    BY <1>1, <1>2, <1>3, <1>4, <1>5, <1>6, <1>7, Zenon DEF Next, Firmware

LEMMA RingInit ==
    Init => RingInv
<1> SUFFICES ASSUME Init PROVE RingInv
    OBVIOUS
<1>1. InReadOrder = View(1, [i \in 1 .. RxRing |-> "free"])
    BY ReadOrderIsView DEF Init
<1>2. InPlace(View(1, [i \in 1 .. RxRing |-> "free"]), 0, 1, 1)
    BY FreshOrder
<1>3. rxHead = 1 /\ held = 0 /\ rxCur = 0
    BY DEF Init
<1> QED
    BY <1>1, <1>2, <1>3 DEF RingInv, Cursor

\* What a round does to the ring: nothing, the frame behind all others, or the
\* cursor past a descriptor without a buffer.
LEMMA RoundKeepsOrder ==
    ASSUME TypeInv, RingInv, RingDivides, BottomHalf
    PROVE  /\ RingInv'
           /\ \/ UNCHANGED << rx, rxHead >>
              \/ /\ stash # NoFrame /\ rxHead' = rxHead
                 /\ \E p \in 1 .. RxRing :
                        /\ \A i \in 1 .. RxRing : InReadOrder[i] \in Frames => i < p
                        /\ InReadOrder' = [InReadOrder EXCEPT ![p] = stash]
<1> DEFINE s == Scan(Cursor)
           v == View(rxHead, rx)
<1>1. TypeOK /\ InReadOrder = v /\ rxHead \in 1 .. RxRing /\ held \in 0 .. RxRing /\ RxOK
    BY ReadOrderIsView DEF TypeInv, TypeOK, RxOK, Cells
<1>2. InPlace(v, held, rxHead, Cursor)
    BY <1>1 DEF RingInv
<1>3. rxHead' = rxHead /\ held' = held /\ list' = list
    BY RoundFacts
<1>4. InReadOrder' = View(rxHead, rx')
    BY <1>3 DEF InReadOrder, RxCell, View, Cell
<1>5. CASE UNCHANGED << rx, rxCur >>
  <2>1. Cursor' = Cursor /\ InReadOrder' = v
      BY <1>4, <1>5 DEF Cursor
  <2> HIDE DEF v
  <2>2. RingInv'
      BY <1>1, <1>2, <1>3, <1>5, <2>1 DEF RingInv
  <2> QED
      BY <1>3, <1>5, <2>2
<1>6. CASE stash # NoFrame
  <2>1. stash \in Frames /\ rx' = Deliver(stash).rx /\ rxCur' = Deliver(stash).cur
      BY <1>1, <1>6, RoundFacts DEF TypeOK
  <2>2. /\ Cursor \in 1 .. RxRing /\ s \in 1 .. RxRing /\ NextRx(s) \in 1 .. RxRing
        /\ \/ rx' = rx /\ rxCur' = rxCur
           \/ /\ list = "ring" /\ rx[s] = "own"
              /\ rx' = [rx EXCEPT ![s] = stash] /\ rxCur' = NextRx(s)
           \/ list = "ring" /\ rx[s] # "own" /\ rx' = rx /\ rxCur' = NextRx(s)
      BY <1>1, <2>1, DeliveryFacts DEF Cursor
  <2>3. /\ rx[s] # "own" => InPlace(v, held, rxHead, NextRx(s))
        /\ rx[s] = "own" =>
               \E p \in 1 .. RxRing :
                   /\ \A i \in 1 .. RxRing : v[i] \in Frames => i < p
                   /\ View(rxHead, [rx EXCEPT ![s] = stash]) = [v EXCEPT ![p] = stash]
                   /\ InPlace([v EXCEPT ![p] = stash], held, rxHead, NextRx(s))
    <3> DEFINE cur == Cursor
    <3>1. cur \in 1 .. RxRing /\ InPlace(View(rxHead, rx), held, rxHead, cur)
        BY <1>2, <2>2
    <3> HIDE DEF cur
    <3>2. /\ rx[Scan(cur)] # "own" => InPlace(View(rxHead, rx), held, rxHead, NextRx(Scan(cur)))
          /\ rx[Scan(cur)] = "own" =>
                 \E p \in 1 .. RxRing :
                     /\ View(rxHead, rx)[p] = "own"
                     /\ \A i \in 1 .. RxRing : View(rxHead, rx)[i] \in Frames => i < p
                     /\ View(rxHead, [rx EXCEPT ![Scan(cur)] = stash]) = [View(rxHead, rx) EXCEPT ![p] = stash]
                     /\ InPlace([View(rxHead, rx) EXCEPT ![p] = stash], held, rxHead, NextRx(Scan(cur)))
        BY <1>1, <2>1, <3>1, DeliveryKeepsOrder
    <3> QED
        BY <3>2 DEF cur
  <2>4. rxCur' = NextRx(s) => Cursor' = NextRx(s)
      BY <2>2 DEF Cursor
  <2> HIDE DEF v, s
  <2>5. CASE rx' = rx /\ rxCur' = rxCur
      BY <1>5, <2>5
  <2>6. CASE list = "ring" /\ rx[s] = "own" /\ rx' = [rx EXCEPT ![s] = stash] /\ rxCur' = NextRx(s)
    <3>1. PICK p \in 1 .. RxRing :
              /\ \A i \in 1 .. RxRing : v[i] \in Frames => i < p
              /\ View(rxHead, [rx EXCEPT ![s] = stash]) = [v EXCEPT ![p] = stash]
              /\ InPlace([v EXCEPT ![p] = stash], held, rxHead, NextRx(s))
        BY <2>3, <2>6
    <3>2. InReadOrder' = [v EXCEPT ![p] = stash]
        BY <1>4, <2>6, <3>1
    <3>3. RingInv'
        BY <1>3, <2>4, <2>6, <3>1, <3>2 DEF RingInv
    <3> QED
        BY <1>1, <1>3, <1>6, <3>1, <3>2, <3>3
  <2>7. CASE list = "ring" /\ rx[s] # "own" /\ rx' = rx /\ rxCur' = NextRx(s)
    <3>1. InReadOrder' = v
        BY <1>4, <2>7 DEF v
    <3>2. RingInv'
        BY <1>3, <2>3, <2>4, <2>7, <3>1 DEF RingInv
    <3> QED
        BY <1>3, <2>7, <3>2
  <2> QED
      BY <2>2, <2>5, <2>6, <2>7
<1>7. CASE stash = NoFrame
    BY <1>5, <1>7, RoundFacts
<1> QED
    BY <1>6, <1>7

LEMMA RingStep ==
    ASSUME Reinit = FALSE, RingDivides
    PROVE  TypeInv /\ RingInv /\ [Next]_vars => RingInv'
<1> SUFFICES ASSUME TypeInv, RingInv, [Next]_vars PROVE RingInv'
    OBVIOUS
<1> DEFINE v == View(rxHead, rx)
<1>1. /\ TypeOK /\ InReadOrder = v /\ rxHead \in 1 .. RxRing /\ held \in 0 .. RxRing
      /\ rx \in Cells /\ Cursor \in 1 .. RxRing
    BY ReadOrderIsView, Constants DEF TypeInv, TypeOK, Cells, Cursor
<1>2. InPlace(v, held, rxHead, Cursor)
    BY <1>1 DEF RingInv
<1>3. InReadOrder' = View(rxHead', rx')
    BY DEF InReadOrder, RxCell, View, Cell
<1>4. CASE UNCHANGED << rx, rxHead, held, rxCur, list >>
  <2>1. InReadOrder' = v /\ Cursor' = Cursor
      BY <1>3, <1>4 DEF Cursor
  <2> HIDE DEF v
  <2> QED
      BY <1>2, <1>4, <2>1 DEF RingInv
<1>5. CASE UNCHANGED vars
    BY <1>4, <1>5 DEF vars
<1>6. CASE ReadRx
  <2>1. /\ rx[rxHead] \in Frames /\ rx' = [rx EXCEPT ![rxHead] = "free"]
        /\ rxHead' = NextRx(rxHead) /\ held' = held + 1 /\ UNCHANGED << rxCur, list >>
      BY <1>6 DEF ReadRx
  <2>2. Cursor' = Cursor
      BY <2>1 DEF Cursor
  <2> DEFINE cur == Cursor
             h == rxHead
             r == rx
             n == held
  <2>3. InPlace(View(NextRx(h), [r EXCEPT ![h] = "free"]), n + 1, NextRx(h), cur)
    <3>1. /\ h \in 1 .. RxRing /\ r \in Cells /\ n \in 0 .. RxRing /\ cur \in 1 .. RxRing
          /\ InPlace(View(h, r), n, h, cur) /\ r[h] \in Frames
        BY <1>1, <1>2, <2>1
    <3> HIDE DEF h, r, n, cur
    <3> QED
        BY <3>1, ReadKeepsOrder
  <2>4. InPlace(InReadOrder', held', rxHead', Cursor')
      BY <1>3, <2>1, <2>2, <2>3
  <2> QED
      BY <2>1, <2>4 DEF RingInv
<1>7. ASSUME NEW kind \in {"own", "bad"}, GiveRx(kind) PROVE RingInv'
  <2>1. /\ held > 0 /\ rx' = Given(rxHead, rx, held, kind)
        /\ held' = held - 1 /\ UNCHANGED << rxHead, rxCur, list >>
      BY <1>7 DEF GiveRx, Given
  <2>2. Cursor' = Cursor
      BY <2>1 DEF Cursor
  <2> DEFINE cur == Cursor
             h == rxHead
             r == rx
             n == held
  <2>3. InPlace(View(h, Given(h, r, n, kind)), n - 1, h, cur)
    <3>1. /\ h \in 1 .. RxRing /\ r \in Cells /\ n \in 0 .. RxRing /\ cur \in 1 .. RxRing
          /\ InPlace(View(h, r), n, h, cur) /\ n > 0
        BY <1>1, <1>2, <2>1
    <3> HIDE DEF h, r, n, cur
    <3> QED
        BY <3>1, GiftKeepsOrder
  <2>4. InPlace(InReadOrder', held', rxHead', Cursor')
      BY <1>3, <2>1, <2>2, <2>3
  <2> QED
      BY <2>1, <2>4 DEF RingInv
<1>8. CASE WriteBadLists
  <2>1. InReadOrder' = v /\ Cursor' = Cursor /\ UNCHANGED << rxHead, held, rxCur >> /\ list = "none"
      BY <1>3, <1>8 DEF Cursor, WriteBadLists
  <2> HIDE DEF v
  <2> QED
      BY <1>2, <2>1 DEF RingInv
<1>9. ASSUME NEW x \in {"free", "own"}, rx' = [i \in 1 .. RxRing |-> x],
             rxHead' = 1, held' = 0, rxCur' = 0
      PROVE  RingInv'
  <2>1. InReadOrder' = View(1, [i \in 1 .. RxRing |-> x]) /\ Cursor' = 1
      BY <1>3, <1>9 DEF Cursor
  <2>2. InPlace(View(1, [i \in 1 .. RxRing |-> x]), 0, 1, 1)
      BY FreshOrder
  <2> QED
      BY <1>9, <2>1, <2>2 DEF RingInv
<1>10. CASE Setup
  <2>1. rxCur' = 0 /\ rx' = [i \in 1 .. RxRing |-> "own"] /\ rxHead' = 1 /\ held' = 0
      BY <1>10 DEF Setup, RingInv
  <2> QED
      BY <1>9, <2>1
<1>11. CASE Reset
  <2>1. rxCur' = 0 /\ rx' = [i \in 1 .. RxRing |-> "free"] /\ rxHead' = 1 /\ held' = 0
      BY <1>11 DEF Reset
  <2> QED
      BY <1>9, <2>1
<1>12. CASE BottomHalf
    BY <1>12, RoundKeepsOrder
<1> QED
    BY <1>4, <1>5, <1>6, <1>7, <1>8, <1>10, <1>11, <1>12, RingCases

-----------------------------------------------------------------------------
(***************************************************************************)
(* The receive path as a queue that may lose frames.                       *)
(***************************************************************************)

\* The frames behind the ring.
Pending(s, w) == (IF s = NoFrame THEN << >> ELSE << s >>) \o w

LEMMA PendingFacts ==
    ASSUME NEW r \in Seq(Frames), NEW s \in Frames \cup {NoFrame}, NEW w \in Seq(Frames)
    PROVE  /\ Pending(s, w) \in Seq(Frames)
           /\ (r \o (IF s = NoFrame THEN << >> ELSE << s >>)) \o w = r \o Pending(s, w)
           /\ Pending(NoFrame, w) = w
<1> DEFINE b == IF s = NoFrame THEN << >> ELSE << s >>
<1>1. b \in Seq(Frames)
    OBVIOUS
<1>2. Pending(NoFrame, w) = w
    BY ConcatEmptySeq DEF Pending
<1>3. Pending(s, w) = b \o w
    BY DEF Pending
<1> HIDE DEF b
<1>4. b \o w \in Seq(Frames) /\ (r \o b) \o w = r \o (b \o w)
    BY <1>1, ConcatProperties, ConcatAssociative
<1> QED
    BY <1>2, <1>3, <1>4 DEF b

\* A frame that waits may move up into the stash.
LEMMA PendingMoves ==
    ASSUME NEW w \in Seq(Frames), w # << >>
    PROVE  Pending(Head(w), Tail(w)) = w
<1>1. /\ Head(w) \in Frames /\ Tail(w) \in Seq(Frames) /\ Len(Tail(w)) = Len(w) - 1
      /\ \A i \in 1 .. Len(Tail(w)) : Tail(w)[i] = w[i + 1]
      /\ Head(w) = w[1] /\ Len(w) \in Nat \ {0}
    BY HeadTailProperties, EmptySeq
<1> DEFINE a == << Head(w) >>
           t == Tail(w)
<1>2. a \in Seq(Frames) /\ Len(a) = 1 /\ a[1] = w[1]
    BY <1>1
<1>3. Pending(Head(w), Tail(w)) = a \o t
    BY <1>1, Constants DEF Pending
<1>4. t \in Seq(Frames) /\ Len(t) = Len(w) - 1 /\ \A i \in 1 .. Len(t) : t[i] = w[i + 1]
    BY <1>1
<1> HIDE DEF a, t
<1>5. /\ a \o t \in Seq(Frames) /\ Len(a \o t) = Len(a) + Len(t)
      /\ \A i \in 1 .. Len(a) + Len(t) : (a \o t)[i] = IF i <= Len(a) THEN a[i] ELSE t[i - Len(a)]
  <2>1. a \in Seq(Frames) /\ t \in Seq(Frames)
      BY <1>2, <1>4
  <2> QED
      BY <2>1, ConcatProperties
<1>6. ASSUME NEW i \in 1 .. Len(w) PROVE (a \o t)[i] = w[i]
  <2>1. CASE i = 1
      BY <2>1, <1>1, <1>2, <1>4, <1>5
  <2>2. CASE i # 1
    <3>1. i - 1 \in 1 .. Len(t) /\ (i - 1) + 1 = i /\ i \in 1 .. Len(a) + Len(t)
        BY <2>2, <1>1, <1>2, <1>4
    <3>2. (a \o t)[i] = t[i - 1]
        BY <3>1, <2>2, <1>2, <1>5
    <3> QED
        BY <3>1, <3>2, <1>4
  <2> QED
      BY <2>1, <2>2
<1>7. a \o t = w
  <2>1. Len(a \o t) = Len(w)
      BY <1>1, <1>2, <1>4, <1>5
  <2> QED
      BY <2>1, <1>5, <1>6, SeqEqual
<1> QED
    BY <1>3, <1>7

\* A stretch that goes missing is a loss.
LEMMA LossIsAStep ==
    ASSUME NEW a \in Seq(Frames), NEW b \in Seq(Frames), NEW c \in Seq(Frames),
           OnTheWay = a \o (b \o c), OnTheWay' = a \o c, got' = got
    PROVE  [Lossy!Next]_<< OnTheWay, got >>
<1> DEFINE q == a \o (b \o c)
           i == Len(a) + 1
           j == Len(a) + Len(b)
           l == Len(a)
           m == Len(b)
           n == Len(c)
<1>1. l \in Nat /\ m \in Nat /\ n \in Nat
    BY LenProperties
<1>2. /\ b \o c \in Seq(Frames) /\ Len(b \o c) = m + n
      /\ \A k \in 1 .. m + n : (b \o c)[k] = IF k <= m THEN b[k] ELSE c[k - m]
    BY ConcatProperties
<1>3. /\ q \in Seq(Frames) /\ Len(q) = l + (m + n)
      /\ \A k \in 1 .. l + (m + n) : q[k] = IF k <= l THEN a[k] ELSE (b \o c)[k - l]
  <2> DEFINE d == b \o c
  <2> HIDE DEF d
  <2>1. d \in Seq(Frames)
      BY <1>2 DEF d
  <2>2. /\ a \o d \in Seq(Frames) /\ Len(a \o d) = l + Len(d)
        /\ \A k \in 1 .. l + Len(d) : (a \o d)[k] = IF k <= l THEN a[k] ELSE d[k - l]
      BY <2>1, ConcatProperties
  <2> QED
      BY <2>2, <1>2 DEF d
<1>4. CASE b = << >>
  <2>1. b \o c = c
      BY <1>4, ConcatEmptySeq
  <2> QED
      BY <2>1
<1>5. CASE b # << >>
  <2>1. m > 0
      BY <1>5, <1>1, EmptySeq
  <2>2. i \in DOMAIN q /\ j \in DOMAIN q /\ i <= j
    <3>1. DOMAIN q = 1 .. l + (m + n)
      <4> HIDE DEF q
      <4> QED
          BY <1>3, LenProperties
    <3> QED
        BY <3>1, <2>1, <1>1
  <2> HIDE DEF q
  <2>3. SubSeq(q, 1, i - 1) = a
    <3>1. \A k \in 1 .. l : q[k] = a[k] /\ q[k] \in Frames
        BY <1>1, <1>3, ElementOfSeq
    <3>2. /\ SubSeq(q, 1, l) \in Seq(Frames) /\ Len(SubSeq(q, 1, l)) = l
          /\ \A k \in 1 .. l : SubSeq(q, 1, l)[k] = q[k]
      <4> DEFINE u == 1
                 e == l
      <4>0. u \in Int /\ e \in Int /\ \A k \in u .. e : q[k] \in Frames
          BY <3>1, <1>1
      <4> HIDE DEF u, e
      <4>1. /\ SubSeq(q, u, e) \in Seq(Frames)
            /\ Len(SubSeq(q, u, e)) = IF u <= e THEN e - u + 1 ELSE 0
            /\ \A k \in 1 .. e - u + 1 : SubSeq(q, u, e)[k] = q[u + k - 1]
          BY <4>0, SubSeqProperties
      <4> QED
          BY <4>1, <1>1 DEF u, e
    <3>3. SubSeq(q, 1, l) = a
      <4> DEFINE z == SubSeq(q, 1, l)
      <4> HIDE DEF z
      <4>1. z \in Seq(Frames) /\ Len(z) = l /\ \A k \in 1 .. l : z[k] = a[k]
          BY <3>1, <3>2 DEF z
      <4>2. z = a
          BY <4>1, SeqEqual
      <4> QED
          BY <4>2 DEF z
    <3> QED
        BY <3>3, <1>1
  <2>4. SubSeq(q, j + 1, Len(q)) = c
    <3> DEFINE u == j + 1
               e == Len(q)
               z == SubSeq(q, u, e)
    <3>1. u \in Int /\ e \in Int /\ u = l + m + 1 /\ e = l + (m + n) /\ e - u + 1 = n
        BY <1>1, <1>3
    <3>2. ASSUME NEW k \in 1 .. n PROVE q[l + m + k] = c[k] /\ c[k] \in Frames
      <4>1. l + m + k \in 1 .. l + (m + n) /\ (l + m + k) - l = m + k /\ ~ (l + m + k <= l)
            /\ m + k \in 1 .. m + n /\ (m + k) - m = k /\ ~ (m + k <= m)
          BY <1>1
      <4>2. q[l + m + k] = (b \o c)[m + k]
          BY <4>1, <1>3
      <4>3. (b \o c)[m + k] = c[k]
          BY <4>1, <1>2
      <4> QED
          BY <4>2, <4>3, ElementOfSeq
    <3>3. ASSUME NEW x \in u .. e PROVE q[x] \in Frames
      <4>1. x - (l + m) \in 1 .. n /\ l + m + (x - (l + m)) = x
          BY <3>1, <1>1
      <4> QED
          BY <4>1, <3>2
    <3> HIDE DEF u, e
    <3>4. /\ z \in Seq(Frames)
          /\ Len(z) = IF u <= e THEN e - u + 1 ELSE 0
          /\ \A k \in 1 .. e - u + 1 : z[k] = q[u + k - 1]
        BY <3>1, <3>3, SubSeqProperties
    <3>5. Len(z) = n /\ \A k \in 1 .. n : z[k] = c[k]
      <4>1. Len(z) = n
          BY <3>1, <3>4, <1>1
      <4>2. ASSUME NEW k \in 1 .. n PROVE z[k] = c[k]
        <5>1. u + k - 1 = l + m + k
            BY <3>1, <1>1
        <5>2. z[k] = q[u + k - 1]
            BY <3>1, <3>4
        <5> QED
            BY <5>1, <5>2, <3>2
      <4> QED
          BY <4>1, <4>2
    <3> HIDE DEF z
    <3>6. z = c
        BY <3>4, <3>5, SeqEqual
    <3> QED
        BY <3>6 DEF z, u, e
  <2>5. OnTheWay = q
      BY DEF q
  <2>6. Lossy!Lose(i, j)
      BY <2>3, <2>4, <2>5 DEF Lossy!Lose
  <2> QED
      BY <2>2, <2>5, <2>6 DEF Lossy!Next
<1> QED
    BY <1>4, <1>5

\* The frames in the ring, before and after a step.
InRingOK ==
    /\ InReadOrder = View(rxHead, rx) /\ InReadOrder \in Cells
    /\ InRing = FramesOf(InReadOrder)[RxRing] /\ InRing \in Seq(Frames)
    /\ OnTheWay = InRing \o Pending(stash, queue) /\ Pending(stash, queue) \in Seq(Frames)

LEMMA InRingFacts ==
    TypeOK => InRingOK
<1> SUFFICES ASSUME TypeOK PROVE InRingOK
    OBVIOUS
<1>1. /\ rxHead \in 1 .. RxRing /\ rx \in Cells
      /\ stash \in Frames \cup {NoFrame} /\ queue \in Seq(Frames)
    BY DEF TypeOK, Cells
<1>2. InReadOrder = View(rxHead, rx) /\ View(rxHead, rx) \in Cells
  <2>1. 1 \in 1 .. RxRing
      BY Constants
  <2> QED
      BY <2>1, <1>1, ReadOrderIsView, ViewFacts
<1>3. InRing = FramesOf(View(rxHead, rx))[RxRing]
    BY <1>2 DEF InRing
<1>4. InRing \in Seq(Frames)
  <2>1. FramesOf(View(rxHead, rx)) \in [0 .. RxRing -> Seq(Frames)] /\ RxRing \in 0 .. RxRing
      BY <1>2, FramesEquation, Constants
  <2> QED
      BY <2>1, <1>3
<1>5. /\ Pending(stash, queue) \in Seq(Frames)
      /\ OnTheWay = InRing \o Pending(stash, queue)
  <2> DEFINE r == InRing
  <2>1. r \in Seq(Frames)
      BY <1>4
  <2>2. OnTheWay = (r \o (IF stash = NoFrame THEN << >> ELSE << stash >>)) \o queue
      BY DEF OnTheWay
  <2> HIDE DEF r
  <2> QED
      BY <1>1, <2>1, <2>2, PendingFacts DEF r
<1> QED
    BY <1>2, <1>3, <1>4, <1>5 DEF InRingOK

LEMMA InRingFactsNext ==
    TypeOK' => InRingOK'
    BY InRingFacts, PTL

\* Two steps of the same kind: what is behind the ring gets lost from some
\* place on, or moves up.
LEMMA TailOfLoss ==
    ASSUME NEW a \in Seq(Frames), NEW b \in Seq(Frames),
           OnTheWay = a \o b, OnTheWay' = a, got' = got
    PROVE  [Lossy!Next]_<< OnTheWay, got >>
<1>1. b \o << >> = b /\ a \o << >> = a /\ << >> \in Seq(Frames)
    BY ConcatEmptySeq
<1> DEFINE c == << >>
<1>2. c \in Seq(Frames) /\ OnTheWay = a \o (b \o c) /\ OnTheWay' = a \o c
    BY <1>1
<1> HIDE DEF c
<1> QED
    BY <1>2, LossIsAStep

\* What is put in front of a sequence is its head.
LEMMA PushFront ==
    ASSUME NEW x \in Frames, NEW t \in Seq(Frames)
    PROVE  /\ << x >> \o t # << >>
           /\ Head(<< x >> \o t) = x /\ Tail(<< x >> \o t) = t
<1> DEFINE a == << x >>
           q == a \o t
<1>1. a \in Seq(Frames) /\ Len(a) = 1 /\ a[1] = x
    OBVIOUS
<1> HIDE DEF a
<1>2. /\ q \in Seq(Frames) /\ Len(q) = 1 + Len(t) /\ Len(t) \in Nat
      /\ \A i \in 1 .. 1 + Len(t) : q[i] = IF i <= 1 THEN a[i] ELSE t[i - 1]
  <2>1. /\ a \o t \in Seq(Frames) /\ Len(a \o t) = Len(a) + Len(t)
        /\ \A i \in 1 .. Len(a) + Len(t) : (a \o t)[i] = IF i <= Len(a) THEN a[i] ELSE t[i - Len(a)]
      BY <1>1, ConcatProperties
  <2> QED
      BY <1>1, <2>1, LenProperties
<1> HIDE DEF q
<1>3. q # << >>
    BY <1>2, EmptySeq
<1>4. Head(q) = x
    BY <1>1, <1>2
<1>5. /\ Tail(q) \in Seq(Frames) /\ Len(Tail(q)) = Len(q) - 1
      /\ \A i \in 1 .. Len(Tail(q)) : Tail(q)[i] = q[i + 1]
    BY <1>2, <1>3, HeadTailProperties
<1>6. \A i \in 1 .. Len(t) : i + 1 \in 1 .. 1 + Len(t) /\ ~ (i + 1 <= 1) /\ (i + 1) - 1 = i
    BY <1>2
<1>7. Len(Tail(q)) = Len(t) /\ \A i \in 1 .. Len(t) : Tail(q)[i] = t[i]
    BY <1>2, <1>5, <1>6
<1> DEFINE z == Tail(q)
<1>8. z = t
  <2>1. z \in Seq(Frames) /\ Len(z) = Len(t) /\ \A i \in 1 .. Len(z) : z[i] = t[i]
      BY <1>5, <1>7
  <2> HIDE DEF z
  <2> QED
      BY <2>1, SeqEqual
<1> QED
    BY <1>3, <1>4, <1>8 DEF a, q

\* A ring that is built anew holds no frames.
LEMMA FreshFrames ==
    ASSUME NEW x \in {"free", "own"}
    PROVE  FramesOf(View(1, [i \in 1 .. RxRing |-> x]))[RxRing] = << >>
<1> DEFINE v == View(1, [i \in 1 .. RxRing |-> x])
           z == 0
<1>1. v \in Cells /\ v = [i \in 1 .. RxRing |-> x]
    BY FreshOrder
<1>2. z \in 0 .. RxRing /\ \A i \in 1 .. RxRing : i > z => v[i] \notin Frames
    BY <1>1, Constants
<1> HIDE DEF v, z
<1>3. FramesOf(v)[RxRing] = FramesOf(v)[z]
    BY <1>1, <1>2, FramesNone
<1>4. FramesOf(v)[0] = << >>
    BY <1>1, FramesEquation
<1> QED
    BY <1>3, <1>4 DEF v, z

LEMMA LossyStep ==
    ASSUME Reinit = FALSE, RingDivides
    PROVE  TypeInv /\ RingInv /\ TypeInv' /\ [Next]_vars => [Lossy!Next]_<< OnTheWay, got >>
<1> SUFFICES ASSUME TypeInv, RingInv, TypeInv', [Next]_vars
             PROVE  [Lossy!Next]_<< OnTheWay, got >>
    OBVIOUS
<1> DEFINE r == InRing
           v == InReadOrder
           p == Pending(stash, queue)
<1>1. /\ TypeOK
      /\ v = View(rxHead, rx) /\ v \in Cells
      /\ r = FramesOf(v)[RxRing] /\ r \in Seq(Frames)
      /\ OnTheWay = r \o p /\ p \in Seq(Frames)
    BY InRingFacts DEF TypeInv, InRingOK
<1>2. /\ TypeOK'
      /\ v' = View(rxHead', rx') /\ v' \in Cells
      /\ r' = FramesOf(v')[RxRing] /\ r' \in Seq(Frames)
      /\ OnTheWay' = r' \o Pending(stash', queue') /\ Pending(stash', queue') \in Seq(Frames)
    BY InRingFactsNext DEF TypeInv, InRingOK
<1> DEFINE e == Pending(stash', queue')
           x == v'
<1>3. CASE UNCHANGED << rx, rxHead, stash, queue, got >>
  <2>1. v' = v /\ r' = r
      BY <1>1, <1>2, <1>3
  <2> QED
      BY <1>1, <1>2, <1>3, <2>1
<1>4. ASSUME UNCHANGED << rx, rxHead, got >>
      PROVE  r' = r /\ got' = got /\ OnTheWay' = r \o e
    BY <1>1, <1>2, <1>4
<1>5. CASE UNCHANGED vars
    BY <1>3, <1>5 DEF vars
<1>6. ASSUME NEW t, NEW s, WriteDmaomr(t, s) PROVE [Lossy!Next]_<< OnTheWay, got >>
  <2>1. UNCHANGED << rx, rxHead, got >>
      BY <1>6 DEF WriteDmaomr
  <2>2. CASE UNCHANGED << stash, queue >>
      BY <1>3, <2>1, <2>2
  <2>3. CASE stash' = Resumed(stash, queue).stash /\ queue' = Resumed(stash, queue).queue
    <3>1. \/ stash' = stash /\ queue' = << >>
          \/ stash' = stash /\ queue' = queue
          \/ stash = NoFrame /\ queue # << >> /\ stash' = Head(queue) /\ queue' = Tail(queue)
        BY <2>3 DEF Resumed
    <3>2. CASE stash' = stash /\ queue' = << >>
      <4> DEFINE a == r \o (IF stash = NoFrame THEN << >> ELSE << stash >>)
      <4>1. a \in Seq(Frames) /\ queue \in Seq(Frames)
          BY <1>1, ConcatProperties DEF TypeOK
      <4>2. OnTheWay = a \o queue
          BY DEF OnTheWay
      <4>3. OnTheWay' = a \o << >>
          BY <1>4, <2>1, <3>2 DEF OnTheWay
      <4>4. a \o << >> = a
          BY <4>1, ConcatEmptySeq
      <4> HIDE DEF a
      <4> QED
          BY <2>1, <4>1, <4>2, <4>3, <4>4, TailOfLoss
    <3>3. CASE stash' = stash /\ queue' = queue
        BY <1>3, <2>1, <3>3
    <3>4. CASE stash = NoFrame /\ queue # << >> /\ stash' = Head(queue) /\ queue' = Tail(queue)
      <4>1. queue \in Seq(Frames) /\ InRing \in Seq(Frames) /\ NoFrame \in Frames \cup {NoFrame}
          BY <1>1 DEF TypeOK
      <4>2. e = queue
          BY <3>4, <4>1, PendingMoves
      <4>3. p = queue
          BY <3>4, <4>1, PendingFacts
      <4> QED
          BY <1>1, <1>4, <2>1, <4>2, <4>3
    <3> QED
        BY <3>1, <3>2, <3>3, <3>4
  <2> QED
      BY <1>6, <2>2, <2>3 DEF WriteDmaomr, Resume
<1>7. ASSUME NEW f \in Frames, HostSend(f) PROVE [Lossy!Next]_<< OnTheWay, got >>
  <2>1. UNCHANGED << rx, rxHead, got >> /\ queue \in Seq(Frames)
      BY <1>1, <1>7 DEF HostSend, TypeOK
  <2>2. CASE UNCHANGED << stash, queue >>
      BY <1>3, <2>1, <2>2
  <2> DEFINE a == r \o (IF stash = NoFrame THEN << >> ELSE << stash >>)
  <2>3. a \in Seq(Frames) /\ OnTheWay = a \o queue
      BY <1>1, ConcatProperties DEF TypeOK, OnTheWay
  <2>4. OnTheWay \in Seq(Frames) /\ Append(OnTheWay, f) = OnTheWay \o << f >>
    <3> HIDE DEF a
    <3>1. OnTheWay \in Seq(Frames)
        BY <2>1, <2>3, ConcatProperties
    <3> QED
        BY <3>1, AppendIsConcat
  <2>5. CASE queue' = Append(queue, f) /\ stash' = stash
    <3>1. OnTheWay' = a \o Append(queue, f)
        BY <1>4, <2>1, <2>5 DEF OnTheWay
    <3>2. Append(queue, f) = queue \o << f >> /\ << f >> \in Seq(Frames)
        BY <2>1, AppendIsConcat
    <3> HIDE DEF a
    <3>3. a \o (queue \o << f >>) = (a \o queue) \o << f >>
        BY <2>1, <2>3, <3>2, ConcatAssociative
    <3>4. OnTheWay' = Append(OnTheWay, f)
        BY <2>3, <2>4, <3>1, <3>2, <3>3
    <3> QED
        BY <2>1, <3>4 DEF Lossy!Next, Lossy!Send
  <2>6. CASE stash = NoFrame /\ queue = << >> /\ stash' = f /\ queue' = queue
    <3>1. f # NoFrame /\ << f >> \in Seq(Frames)
        BY Constants
    <3>2. OnTheWay' = (r \o << f >>) \o << >>
        BY <1>4, <2>1, <2>6, <3>1 DEF OnTheWay
    <3>3. OnTheWay = (r \o << >>) \o << >>
        BY <2>6 DEF OnTheWay
    <3> DEFINE b == << f >>
               c == r
    <3>4. b \in Seq(Frames) /\ c \in Seq(Frames)
        BY <1>1, <3>1
    <3>5. (c \o b) \o << >> = c \o b /\ (c \o << >>) \o << >> = c
      <4> HIDE DEF b, c
      <4>1. c \o b \in Seq(Frames)
          BY <3>4, ConcatProperties
      <4>2. c \o << >> = c /\ (c \o b) \o << >> = c \o b
          BY <3>4, <4>1, ConcatEmptySeq
      <4> QED
          BY <4>2
    <3>6. OnTheWay' = Append(OnTheWay, f)
        BY <2>4, <3>2, <3>3, <3>5
    <3> QED
        BY <2>1, <3>6 DEF Lossy!Next, Lossy!Send
  <2> QED
      BY <1>7, <2>2, <2>5, <2>6 DEF HostSend
<1>8. CASE ReadRx
  <2> DEFINE w == [i \in 1 .. RxRing |-> IF i = RxRing THEN "free" ELSE v[i + 1]]
  <2>1. /\ rx[rxHead] \in Frames /\ rx' = [rx EXCEPT ![rxHead] = "free"]
        /\ rxHead' = NextRx(rxHead) /\ got' = rx[rxHead] /\ UNCHANGED << stash, queue >>
      BY <1>8 DEF ReadRx
  <2>2. rxHead \in 1 .. RxRing /\ rx \in Cells /\ 1 \in 1 .. RxRing
      BY <1>1, Constants DEF TypeOK, Cells
  <2>3. v[1] = rx[rxHead] /\ v[1] \in Frames
    <3>1. Cell(rxHead, 1) = rxHead
        BY <2>2, CellsApart
    <3>2. View(rxHead, rx)[1] = rx[Cell(rxHead, 1)]
        BY <2>2 DEF View
    <3> QED
        BY <1>1, <2>1, <3>1, <3>2
  <2>4. v' = w
    <3>1. View(NextRx(rxHead), [rx EXCEPT ![rxHead] = "free"]) =
              [i \in 1 .. RxRing |-> IF i = RxRing THEN "free" ELSE View(rxHead, rx)[i + 1]]
        BY <2>2, ReadView
    <3> QED
        BY <1>1, <1>2, <2>1, <3>1
  <2>5. r = << v[1] >> \o FramesOf(w)[RxRing]
    <3> DEFINE c == v
    <3>1. c \in Cells /\ c[1] \in Frames
        BY <1>1, <2>3
    <3> HIDE DEF c
    <3>2. LET u == [i \in 1 .. RxRing |-> IF i = RxRing THEN "free" ELSE c[i + 1]]
          IN  FramesOf(c)[RxRing] = << c[1] >> \o FramesOf(u)[RxRing]
        BY <3>1, FramesTail
    <3> QED
        BY <1>1, <3>2 DEF c
  <2>6. r = << v[1] >> \o r'
      BY <1>2, <2>4, <2>5
  <2>7. OnTheWay' = r' \o p
      BY <1>2, <2>1
  <2> DEFINE a == << v[1] >>
             b == r'
             c == p
  <2>8. a \in Seq(Frames) /\ b \in Seq(Frames) /\ c \in Seq(Frames)
      BY <1>1, <1>2, <2>3
  <2>9. (a \o b) \o c = a \o (b \o c) /\ b \o c \in Seq(Frames)
    <3> HIDE DEF a, b, c
    <3> QED
        BY <2>8, ConcatAssociative, ConcatProperties, SMTT(20)
  <2>10. OnTheWay = << v[1] >> \o OnTheWay' /\ OnTheWay' \in Seq(Frames)
      BY <1>1, <2>6, <2>7, <2>9
  <2>11. /\ OnTheWay # << >> /\ Head(OnTheWay) = v[1] /\ Tail(OnTheWay) = OnTheWay'
      BY <2>3, <2>10, PushFront
  <2> QED
      BY <2>1, <2>3, <2>11 DEF Lossy!Next, Lossy!Read
<1>9. ASSUME NEW kind \in {"own", "bad"}, GiveRx(kind) PROVE [Lossy!Next]_<< OnTheWay, got >>
  <2>1. /\ held > 0 /\ rx' = Given(rxHead, rx, held, kind)
        /\ UNCHANGED << rxHead, stash, queue, got >>
      BY <1>9 DEF GiveRx, Given
  <2> DEFINE cur == Cursor
             h == rxHead
             c == rx
             n == held
  <2>2. \E g \in 1 .. RxRing :
            View(h, c)[g] = "free" /\ View(h, Given(h, c, n, kind)) = [View(h, c) EXCEPT ![g] = kind]
    <3>1. /\ h \in 1 .. RxRing /\ c \in Cells /\ n \in 0 .. RxRing /\ cur \in 1 .. RxRing
          /\ InPlace(View(h, c), n, h, cur) /\ n > 0
        BY <1>1, <2>1, Constants DEF TypeOK, Cells, Cursor, RingInv
    <3> HIDE DEF h, c, n, cur
    <3> QED
        BY <3>1, GiftKeepsOrder
  <2>3. PICK g \in 1 .. RxRing : v[g] = "free" /\ v' = [v EXCEPT ![g] = kind]
      BY <1>1, <1>2, <2>1, <2>2
  <2>4. \A i \in 1 .. RxRing : v[i] \in Frames \/ v'[i] \in Frames => v[i] = v'[i]
      BY <1>1, <2>3, Constants DEF Cells
  <2>5. r' = r
    <3> DEFINE u == v
               w == v'
               l == RxRing
    <3>1. u \in Cells /\ w \in Cells /\ l \in 0 .. RxRing /\ \A i \in 1 .. l : u[i] \in Frames \/ w[i] \in Frames => u[i] = w[i]
        BY <1>1, <1>2, <2>4, Constants
    <3> HIDE DEF u, w, l
    <3>2. FramesOf(u)[l] = FramesOf(w)[l]
        BY <3>1, FramesAgree
    <3> QED
        BY <1>1, <1>2, <3>2 DEF u, w, l
  <2> QED
      BY <1>1, <1>2, <2>1, <2>5
<1>10. CASE Setup
  <2>1. rx' = [i \in 1 .. RxRing |-> "own"] /\ rxHead' = 1 /\ UNCHANGED << stash, queue, got >>
      BY <1>10 DEF Setup
  <2>2. r' = << >>
      BY <1>2, <2>1, FreshFrames
  <2>3. OnTheWay' = << >> \o p
      BY <1>2, <2>1, <2>2
  <2> DEFINE a == << >>
             b == r
             c == p
  <2>4. a \in Seq(Frames) /\ b \in Seq(Frames) /\ c \in Seq(Frames)
      BY <1>1
  <2>5. a \o (b \o c) = b \o c
    <3> HIDE DEF b, c
    <3>1. b \o c \in Seq(Frames)
        BY <2>4, ConcatProperties
    <3> QED
        BY <3>1, ConcatEmptySeq
  <2>6. OnTheWay = a \o (b \o c) /\ OnTheWay' = a \o c /\ got' = got
      BY <1>1, <2>1, <2>3, <2>5
  <2> HIDE DEF a, b, c
  <2> QED
      BY <2>4, <2>6, LossIsAStep
<1>11. CASE Reset
  <2>1. /\ rx' = [i \in 1 .. RxRing |-> "free"] /\ rxHead' = 1
        /\ stash' = NoFrame /\ queue' = << >> /\ got' = got
      BY <1>11 DEF Reset
  <2>2. r' = << >>
      BY <1>2, <2>1, FreshFrames
  <2>3. e = << >>
      BY <2>1, ConcatEmptySeq DEF Pending
  <2>4. OnTheWay' = << >>
      BY <1>2, <2>2, <2>3, ConcatEmptySeq
  <2> DEFINE a == << >>
             b == OnTheWay
  <2>5. a \in Seq(Frames) /\ b \in Seq(Frames)
      BY <1>1, ConcatProperties
  <2>6. OnTheWay = a \o b /\ OnTheWay' = a
    <3> HIDE DEF b
    <3>1. << >> \o b = b
        BY <2>5, ConcatEmptySeq
    <3> QED
        BY <2>4, <3>1 DEF b
  <2> HIDE DEF a, b
  <2> QED
      BY <2>1, <2>5, <2>6, TailOfLoss
<1>12. CASE BottomHalf
  <2>1. CASE stash = NoFrame
      BY <1>3, <1>12, <2>1, RoundFacts
  <2>2. CASE stash # NoFrame
    <3>1. /\ stash \in Frames /\ queue \in Seq(Frames) /\ got' = got
          /\ stash' = Resumed(NoFrame, queue).stash /\ queue' = Resumed(NoFrame, queue).queue
        BY <1>1, <1>12, <2>2, RoundFacts DEF TypeOK
    <3>2. e = << >> \/ e = queue
      <4>1. \/ stash' = NoFrame /\ queue' = << >>
            \/ queue # << >> /\ stash' = Head(queue) /\ queue' = Tail(queue)
          BY <3>1 DEF Resumed
      <4>2. Pending(NoFrame, << >>) = << >>
          BY ConcatEmptySeq DEF Pending
      <4> QED
          BY <3>1, <4>1, <4>2, PendingMoves
    <3>3. p = << stash >> \o queue /\ << stash >> \in Seq(Frames)
        BY <2>2, <3>1 DEF Pending
    <3>4. \/ UNCHANGED << rx, rxHead >>
          \/ \E k \in 1 .. RxRing :
                 /\ \A i \in 1 .. RxRing : v[i] \in Frames => i < k
                 /\ v' = [v EXCEPT ![k] = stash]
        BY <1>12, RoundKeepsOrder
    <3> DEFINE a == r
               b == << stash >>
               c == queue
    <3>5. a \in Seq(Frames) /\ b \in Seq(Frames) /\ c \in Seq(Frames)
        BY <1>1, <3>1, <3>3
    <3>6. OnTheWay = a \o (b \o c)
        BY <1>1, <3>3
    <3>7. CASE UNCHANGED << rx, rxHead >>
      <4>1. OnTheWay' = a \o e
          BY <1>4, <3>1, <3>7
      <4>2. CASE e = << >>
        <5>1. a \o << >> = a /\ b \o c \in Seq(Frames)
          <6> HIDE DEF a, b, c
          <6> QED
              BY <3>5, ConcatEmptySeq, ConcatProperties
        <5>2. OnTheWay' = a
            BY <4>1, <4>2, <5>1
        <5> DEFINE d == b \o c
        <5>3. d \in Seq(Frames) /\ OnTheWay = a \o d
            BY <3>6, <5>1
        <5> HIDE DEF a, d
        <5> QED
            BY <3>1, <3>5, <5>2, <5>3, TailOfLoss
      <4>3. CASE e = queue
        <5>1. OnTheWay' = a \o c
            BY <4>1, <4>3
        <5> HIDE DEF a, b, c
        <5> QED
            BY <3>1, <3>5, <3>6, <5>1, LossIsAStep
      <4> QED
          BY <3>2, <4>2, <4>3
    <3>8. CASE \E k \in 1 .. RxRing :
                   /\ \A i \in 1 .. RxRing : v[i] \in Frames => i < k
                   /\ v' = [v EXCEPT ![k] = stash]
      <4>1. PICK k \in 1 .. RxRing :
                /\ \A i \in 1 .. RxRing : v[i] \in Frames => i < k
                /\ v' = [v EXCEPT ![k] = stash]
          BY <3>8
      <4>2. r' = Append(r, stash)
        <5> DEFINE u == v
        <5>1. u \in Cells /\ \A i \in 1 .. RxRing : u[i] \in Frames => i < k
            BY <1>1, <4>1
        <5> HIDE DEF u
        <5>2. FramesOf([u EXCEPT ![k] = stash])[RxRing] = Append(FramesOf(u)[RxRing], stash)
            BY <3>1, <5>1, FramesAppend
        <5> QED
            BY <1>1, <1>2, <4>1, <5>2 DEF u
      <4>3. r' = a \o b
          BY <1>1, <3>1, <4>2, AppendIsConcat
      <4> DEFINE d == a \o b
      <4>4. d \in Seq(Frames) /\ a \o (b \o c) = d \o c /\ d \o << >> = d
        <5> HIDE DEF a, b, c
        <5>1. a \o b \in Seq(Frames) /\ a \o (b \o c) = (a \o b) \o c
            BY <3>5, ConcatProperties, ConcatAssociative, SMTT(20)
        <5> QED
            BY <5>1, ConcatEmptySeq
      <4>5. OnTheWay = d \o c /\ OnTheWay' = d \o e
          BY <1>2, <3>6, <4>3, <4>4
      <4>6. CASE e = << >>
        <5>1. OnTheWay' = d
            BY <4>4, <4>5, <4>6
        <5> HIDE DEF d, c
        <5> QED
            BY <3>1, <3>5, <4>4, <4>5, <5>1, TailOfLoss
      <4>7. CASE e = queue
          BY <3>1, <4>5, <4>7
      <4> QED
          BY <3>2, <4>6, <4>7
    <3> QED
        BY <3>4, <3>7, <3>8
  <2> QED
      BY <2>1, <2>2
<1>13. CASE UNCHANGED << rx, rxHead, stash, queue, got >> \/ WriteBadLists \/ PollDemand
            \/ PollTick \/ PhyReset \/ LinkComesUp
    BY <1>3, <1>13 DEF WriteBadLists, PollDemand, PollTick, PhyReset, LinkComesUp
<1>14. ASSUME NEW events, NEW whole, WriteDmasr(events, whole)
       PROVE  [Lossy!Next]_<< OnTheWay, got >>
    BY <1>3, <1>14 DEF WriteDmasr
<1>15. ASSUME NEW mask, WriteDmaier(mask) PROVE [Lossy!Next]_<< OnTheWay, got >>
    BY <1>3, <1>15 DEF WriteDmaier
<1>16. ASSUME NEW kind, PutTx(kind) PROVE [Lossy!Next]_<< OnTheWay, got >>
    BY <1>3, <1>16 DEF PutTx
<1>17. CASE Next
    BY <1>6, <1>7, <1>8, <1>9, <1>10, <1>11, <1>12, <1>13, <1>14, <1>15, <1>16, <1>17, Zenon
       DEF Next, Firmware
<1> QED
    BY <1>5, <1>17

\* Through NIC queue, stash, ring and cursor the firmware reads every frame at
\* most once and never ahead of an earlier one, for every ring whose size
\* divides MaxRing and any frames, interleaved in any way with register writes,
\* lost descriptors and resets of the machine.  The firmware builds its rings
\* while the MAC has none.
THEOREM ReceiveIsLossyQueue ==
    ASSUME Reinit = FALSE, RingDivides
    PROVE  Spec => ImplementsLossyQueue
<1>1. Init => Lossy!Init
  <2> SUFFICES ASSUME Init PROVE Lossy!Init
      OBVIOUS
  <2>1. InRing = << >>
    <3>1. InReadOrder = View(1, [i \in 1 .. RxRing |-> "free"])
        BY ReadOrderIsView DEF Init
    <3> QED
        BY <3>1, FreshFrames DEF InRing
  <2>2. OnTheWay = (<< >> \o << >>) \o << >> /\ got = NoFrame
      BY <2>1 DEF Init, OnTheWay
  <2>3. << >> \o << >> = << >>
      BY ConcatEmptySeq
  <2> QED
      BY <2>2, <2>3 DEF Lossy!Init
<1>2. Init => TypeInv /\ RingInv
    BY TypeInvInit, RingInit
<1>3. TypeInv /\ RingInv /\ [Next]_vars => TypeInv' /\ RingInv'
    BY TypeInvStep, RingStep
<1>4. TypeInv /\ RingInv /\ TypeInv' /\ [Next]_vars => [Lossy!Next]_<< OnTheWay, got >>
    BY LossyStep
<1> QED
    BY <1>1, <1>2, <1>3, <1>4, PTL DEF Spec, ImplementsLossyQueue
===============================================================================
