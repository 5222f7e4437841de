-------------------------------- MODULE Numbers --------------------------------
(***************************************************************************)
(* Facts about natural numbers that several proofs rest on: induction,     *)
(* which the library states for operators and which is needed here for     *)
(* sets, iterated functions, and remainders by a number that is not a      *)
(* literal.                                                                *)
(***************************************************************************)
EXTENDS Integers, WellFoundedInduction, TLAPS

-----------------------------------------------------------------------------
(***************************************************************************)
(* Induction.  A property P is proved of every number by taking for T the  *)
(* set {n \in Nat : P}.                                                    *)
(***************************************************************************)

LessThan == {p \in Nat \X Nat : p[1] < p[2]}

\* A set of naturals that is not empty has a least element.
LEMMA NatLeast ==
    ASSUME NEW T, T \subseteq Nat, T # {}
    PROVE  \E x \in T : \A y \in T : x <= y
<1>1. OpToRel(<, Nat) = LessThan
    BY DEF OpToRel, LessThan
<1>2. IsWellFoundedOn(LessThan, Nat)
    BY <1>1, NatLessThanWellFounded
<1>3. PICK x \in T : \A y \in T : ~ (<< y, x >> \in LessThan)
    BY <1>2, WFMin
<1>4. ASSUME NEW y \in T PROVE x <= y
  <2>1. x \in Nat /\ y \in Nat /\ ~ (<< y, x >> \in LessThan)
      BY <1>3, <1>4
  <2> QED
      BY <2>1 DEF LessThan
<1> QED
    BY <1>4

\* A set that holds 0 and the successors of its numbers holds all of them.
LEMMA NatInduct ==
    ASSUME NEW T, 0 \in T, \A n \in Nat : n \in T => n + 1 \in T
    PROVE  Nat \subseteq T
<1> DEFINE U == Nat \ T
<1>1. SUFFICES ASSUME U # {} PROVE FALSE
    OBVIOUS
<1>2. PICK x \in U : \A y \in U : x <= y
    BY <1>1, NatLeast
<1>3. x # 0 /\ x - 1 \in Nat /\ x - 1 \notin U
    BY <1>2
<1> QED
    BY <1>2, <1>3

\* The same up to a bound.
LEMMA IntervalInduct ==
    ASSUME NEW T, NEW n \in Nat, 0 \in T,
           \A i \in 0 .. n - 1 : i \in T => i + 1 \in T
    PROVE  0 .. n \subseteq T
<1> DEFINE U == T \cup {i \in Nat : i > n}
<1>1. 0 \in U /\ \A i \in Nat : i \in U => i + 1 \in U
    OBVIOUS
<1>2. Nat \subseteq U
    BY <1>1, NatInduct
<1> QED
    BY <1>2

-----------------------------------------------------------------------------
(***************************************************************************)
(* A function that is defined by recursion over an interval is the choice  *)
(* of a function that satisfies the equation.  That there is one follows   *)
(* for each such definition from the existence of an iteration.            *)
(***************************************************************************)

\* What is passed through from d on when the i-th step applies F[i].
Iterations(n, D, d, F) ==
    {g \in [0 .. n -> D] : g[0] = d /\ \A i \in 1 .. n : g[i] = F[i][g[i - 1]]}

LEMMA IterateExists ==
    ASSUME NEW n \in Nat, NEW D, NEW d \in D, NEW F \in [1 .. n -> [D -> D]]
    PROVE  Iterations(n, D, d, F) # {}
<1> DEFINE Good(g, k) == g \in [0 .. k -> D] /\ g[0] = d /\ \A i \in 1 .. k : g[i] = F[i][g[i - 1]]
           T == {k \in 0 .. n : \E g : Good(g, k)}
<1>1. 0 \in T
  <2>1. Good([i \in 0 .. 0 |-> d], 0)
      OBVIOUS
  <2>2. 0 \in 0 .. n
      OBVIOUS
  <2> HIDE DEF Good
  <2> QED
      BY <2>1, <2>2
<1>2. ASSUME NEW k \in 0 .. n - 1, k \in T PROVE k + 1 \in T
  <2>1. PICK g : Good(g, k)
      BY <1>2
  <2> DEFINE h == [i \in 0 .. k + 1 |-> IF i = k + 1 THEN F[k + 1][g[k]] ELSE g[i]]
  <2>2. g[k] \in D /\ k + 1 \in 1 .. n /\ F[k + 1] \in [D -> D] /\ F[k + 1][g[k]] \in D
      BY <2>1
  <2>3. h \in [0 .. k + 1 -> D]
      BY <2>1, <2>2
  <2>4. h[0] = d
      BY <2>1
  <2>5. ASSUME NEW i \in 1 .. k + 1 PROVE h[i] = F[i][h[i - 1]]
    <3>1. CASE i = k + 1
        BY <3>1
    <3>2. CASE i # k + 1
      <4>1. i \in 1 .. k /\ i - 1 \in 0 .. k /\ i - 1 # k + 1 /\ i \in 0 .. k + 1
          BY <3>2
      <4> QED
          BY <4>1, <2>1
    <3> QED
        BY <3>1, <3>2
  <2>6. Good(h, k + 1)
      BY <2>3, <2>4, <2>5
  <2>7. k + 1 \in 0 .. n
      OBVIOUS
  <2> HIDE DEF Good, h
  <2> QED
      BY <2>6, <2>7
<1>3. n \in T
  <2> HIDE DEF T
  <2>1. 0 .. n \subseteq T
      BY <1>1, <1>2, IntervalInduct
  <2> QED
      BY <2>1
<1>4. PICK g : Good(g, n)
    BY <1>3
<1> QED
    BY <1>4 DEF Iterations

-----------------------------------------------------------------------------
(***************************************************************************)
(* Remainders and quotients.                                               *)
(***************************************************************************)

\* Quotient and remainder are what the division algorithm says.
LEMMA DivisionFacts ==
    ASSUME NEW a \in Int, NEW n \in Nat \ {0}
    PROVE  /\ a \div n \in Int /\ a % n \in 0 .. n - 1
           /\ a = n * (a \div n) + (a % n)
    BY Z3

\* And nothing else is.
LEMMA DivisionUnique ==
    ASSUME NEW a \in Int, NEW n \in Nat \ {0}, NEW k \in Int, NEW r \in 0 .. n - 1,
           a = n * k + r
    PROVE  a \div n = k /\ a % n = r
<1> DEFINE j == a \div n
           s == a % n
<1>1. j \in Int /\ s \in 0 .. n - 1 /\ a = n * j + s
    BY DivisionFacts
<1>2. n * (k - j) = s - r
    BY <1>1, Z3
<1>3. k = j
  <2>1. CASE k - j >= 1
    <3>1. n * (k - j) >= n
        BY <1>1, <2>1, Z3
    <3> QED
        BY <3>1, <1>2, <1>1
  <2>2. CASE j - k >= 1
    <3>1. n * (j - k) >= n
        BY <1>1, <2>2, Z3
    <3>2. n * (j - k) = r - s
        BY <1>1, <1>2, Z3
    <3> QED
        BY <3>1, <3>2, <1>1
  <2> QED
      BY <2>1, <2>2, <1>1
<1> QED
    BY <1>1, <1>2, <1>3

\* A number below the divisor is its own remainder.
LEMMA ModSmall ==
    ASSUME NEW n \in Nat \ {0}, NEW a \in 0 .. n - 1
    PROVE  a % n = a
<1>1. a = n * 0 + a
    OBVIOUS
<1> QED
    BY <1>1, DivisionUnique

\* Up to the next multiple the divisor is taken off once.
LEMMA ModOnce ==
    ASSUME NEW n \in Nat \ {0}, NEW a \in n .. 2 * n - 1
    PROVE  a % n = a - n
<1>1. a = n * 1 + (a - n) /\ a - n \in 0 .. n - 1
    OBVIOUS
<1> QED
    BY <1>1, DivisionUnique

\* Multiples of the divisor do not count.
LEMMA ModMultiple ==
    ASSUME NEW n \in Nat \ {0}, NEW a \in Int, NEW k \in Int
    PROVE  (a + n * k) % n = a % n
<1>1. a = n * (a \div n) + (a % n) /\ a \div n \in Int /\ a % n \in 0 .. n - 1
    BY DivisionFacts
<1>2. a + n * k = n * ((a \div n) + k) + (a % n)
    BY <1>1, Z3
<1>3. a + n * k \in Int /\ (a \div n) + k \in Int
    BY <1>1
<1> QED
    BY <1>1, <1>2, <1>3, DivisionUnique

\* A sum may be reduced before it is completed.
LEMMA ModSum ==
    ASSUME NEW n \in Nat \ {0}, NEW a \in Int, NEW b \in Int
    PROVE  ((a % n) + b) % n = (a + b) % n
<1> DEFINE k == a \div n
           r == (a % n) + b
<1>1. a = n * k + (a % n) /\ k \in Int /\ r \in Int
    BY DivisionFacts
<1>2. (r + n * k) % n = r % n
  <2> HIDE DEF k, r
  <2> QED
      BY <1>1, ModMultiple
<1>3. a + b = r + n * k
    BY <1>1
<1> QED
    BY <1>2, <1>3

\* The remainder of the successor.
LEMMA ModNext ==
    ASSUME NEW n \in Nat \ {0}, NEW a \in Int
    PROVE  (a + 1) % n = ((a % n) + 1) % n
<1> DEFINE b == 1
<1>1. b \in Int
    OBVIOUS
<1>2. ((a % n) + b) % n = (a + b) % n
  <2> HIDE DEF b
  <2> QED
      BY <1>1, ModSum
<1> QED
    BY <1>2

-----------------------------------------------------------------------------
(***************************************************************************)
(* Counters that are computed from a clock of S units per second.  A timer *)
(* that waits for n more ticks of a counter of h ticks per second waits    *)
(* n * S \div h units, rounded down.                                       *)
(***************************************************************************)

\* When it rings, a units having passed before it was armed, the counter shows
\* n more ticks or, for the rounding, one less.
LEMMA TicksAfterDelay ==
    ASSUME NEW S \in Nat \ {0}, NEW h \in 1 .. S, NEW a \in Nat, NEW n \in Nat
    PROVE  \E k \in {n - 1, n} : ((a + (n * S) \div h) * h) \div S = (a * h) \div S + k
<1> DEFINE q == (a * h) \div S
           r == (a * h) % S
           d == (n * S) \div h
           s == (n * S) % h
<1>1. /\ a * h \in Nat /\ n * S \in Nat /\ h \in Nat \ {0}
      /\ h - 1 <= S - 1
    OBVIOUS
<1>2. q \in Int /\ r \in 0 .. S - 1 /\ a * h = S * q + r
    BY <1>1, DivisionFacts
<1>3. d \in Int /\ s \in 0 .. h - 1 /\ n * S = h * d + s
    BY <1>1, DivisionFacts
<1> HIDE DEF q, r, d, s
<1>4. (a + d) * h = S * (q + n) + (r - s)
  <2>1. (a + d) * h = a * h + h * d /\ S * (q + n) = S * q + n * S
      BY <1>2, <1>3, Z3
  <2> QED
      BY <2>1, <1>1, <1>2, <1>3
<1>5. (a + d) * h \in Int /\ q + n \in Int /\ q + n - 1 \in Int
    BY <1>1, <1>2, <1>3
<1>6. CASE r - s >= 0
  <2>1. r - s \in 0 .. S - 1
      BY <1>1, <1>2, <1>3, <1>6
  <2>2. ((a + d) * h) \div S = q + n
      BY <1>4, <1>5, <2>1, DivisionUnique
  <2> QED
      BY <2>2 DEF q, d
<1>7. CASE r - s < 0
  <2>1. r - s + S \in 0 .. S - 1
      BY <1>1, <1>2, <1>3, <1>7
  <2>2. (a + d) * h = S * (q + n - 1) + (r - s + S)
      BY <1>2, <1>3, <1>4, Z3
  <2>3. ((a + d) * h) \div S = q + n - 1
      BY <1>5, <2>1, <2>2, DivisionUnique
  <2>4. q + n - 1 = q + (n - 1)
      BY <1>2
  <2> QED
      BY <2>3, <2>4 DEF q, d
<1> QED
    BY <1>1, <1>2, <1>3, <1>6, <1>7

\* What is missing to the next multiple of m completes a count c to one: the
\* count then, or the one behind it, is a multiple of m.
LEMMA NextMultiple ==
    ASSUME NEW m \in Nat \ {0}, NEW c \in Int, NEW k \in {(m - (c % m)) - 1, m - (c % m)}
    PROVE  (c + k + 1) % m \in {0, 1 % m}
<1> DEFINE q == c \div m
           e == c % m
<1>1. q \in Int /\ e \in 0 .. m - 1 /\ c = m * q + e
    BY DivisionFacts
<1>2. 0 + m * (q + 1) = c + m - e /\ 1 + m * (q + 1) = c + m - e + 1 /\ q + 1 \in Int
    BY <1>1, Z3
<1>3. ASSUME NEW a \in Int PROVE (a + m * (q + 1)) % m = a % m
  <2> DEFINE j == q + 1
  <2>1. j \in Int
      BY <1>2
  <2> HIDE DEF q, j
  <2>2. (a + m * j) % m = a % m
      BY <2>1, ModMultiple
  <2> QED
      BY <2>2 DEF j
<1>4. 0 % m = 0
    BY ModSmall
<1>5. (1 + m * (q + 1)) % m = 1 % m
  <2> DEFINE b == 1
  <2>1. b \in Int
      OBVIOUS
  <2> HIDE DEF b, q
  <2>2. (b + m * (q + 1)) % m = b % m
      BY <1>3, <2>1
  <2> QED
      BY <2>2 DEF b
<1>6. c + k + 1 = c + m - e \/ c + k + 1 = c + m - e + 1
    BY <1>1
<1>7. (0 + m * (q + 1)) % m = 0 % m
    BY <1>3
<1> HIDE DEF q, e
<1> QED
    BY <1>2, <1>4, <1>5, <1>6, <1>7
===============================================================================
