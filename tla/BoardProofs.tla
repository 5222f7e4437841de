------------------------------ MODULE BoardProofs ------------------------------
(***************************************************************************)
(* Proofs about the units of Board: the requests and announcements of the  *)
(* USB host, the receive buffer and the link of the 10M controller, the    *)
(* clocks that the timers know, the watchdog that never sleeps, what the   *)
(* flash controller protects, the ring of the light USARTs, the address    *)
(* the hart starts at, its register bank, the copying instruction mcpy,    *)
(* the words of the other instructions of WCH, and the memory map.  Each   *)
(* is shown of the unit on its own, and then of the board, whose every     *)
(* step is one of the unit or leaves it alone.                             *)
(***************************************************************************)
EXTENDS Board, Numbers, SequenceTheorems, TLAPS

-----------------------------------------------------------------------------
(***************************************************************************)
(* The memory map.  The devices have their places; only the memories       *)
(* depend on the board and on the flash size.                              *)
(***************************************************************************)

BusInv ==
    bus \in [board : BoardTable, size : BoardFlashSizes(BusSizes) \cup {0},
             mode : {"flash", "sysmem", "sram"}, mapped : Nat, refused : BOOLEAN]

\* Every board, and every flash size that the option accepts, stays within
\* these bounds.
BusBounded ==
    /\ BusFlash \in Nat /\ 1024 <= BusFlash /\ BusFlash <= 4194304
    /\ BusRam \in Nat /\ 512 <= BusRam /\ BusRam <= 196608

\* The sizes of the table and the limits of the option, in words.
LEMMA BusSizesBounded == ASSUME BusInv PROVE BusBounded
<1> DEFINE flashKiB == bus.board.flash
           ramKiB == bus.board.ram
           bytes == bus.size
<1>1. /\ flashKiB \in Nat /\ 16 <= flashKiB /\ flashKiB <= 992
      /\ ramKiB \in Nat /\ 2 <= ramKiB /\ ramKiB <= 768
    BY SMT DEF BusInv, BoardTable, BoardDesc
<1>2. bytes = 0 \/ (bytes \in BusSizes /\ bytes \in 4096 .. BoardLargestFlash)
    BY SMT DEF BusInv, BoardFlashSizes
<1>3. BusRam = ramKiB * 256 /\ BusFlash = (IF bytes = 0 THEN flashKiB * 1024 ELSE bytes) \div 4
    BY DEF BusRam, BusFlash
<1>4. BoardLargestFlash = 16777216 /\ BoardLargestFlash \in Nat
    BY SMT DEF BoardLargestFlash
<1>5. bytes = 0 \/ (bytes \in Nat /\ 4096 <= bytes /\ bytes <= BoardLargestFlash)
  <2>1. BusSizes \subseteq Nat
      BY BusAssumption, Zenon
  <2>2. \A n \in Nat : \A s \in 4096 .. n : s \in Nat /\ 4096 <= s /\ s <= n
      BY SMT
  <2>3. BoardLargestFlash \in Nat
      BY <1>4
  <2> HIDE DEF flashKiB, ramKiB, bytes
  <2> QED
      BY <1>2, <2>1, <2>2, <2>3, SMT
<1> HIDE DEF flashKiB, ramKiB, bytes
<1>6. BusRam \in Nat /\ 512 <= BusRam /\ BusRam <= 196608
    BY <1>1, <1>3, SMT
<1>7. CASE bytes = 0
  <2>1. BusFlash = flashKiB * 256
      BY <1>1, <1>3, <1>7, SMT
  <2> QED
      BY <1>1, <1>6, <2>1, SMT DEF BusBounded
<1>8. CASE bytes # 0
    BY <1>3, <1>4, <1>5, <1>6, <1>8, SMT DEF BusBounded
<1> QED
    BY <1>7, <1>8

\* At the address, s does not come before r.
MapClear(r, s, addr) == BusContains(s, addr) => s.prio < r.prio

\* If r must answer, s does not hide its first nor its last register.
MapKept(r, s) ==
    r.unit \notin BusFillers \cup {"afio"} =>
        /\ MapClear(r, s, BusRegisters(r))
        /\ r.unit # "gpio" => MapClear(r, s, r.base + r.size - 1)

\* The last KiB of flash that the signature announces.
MapAnnounced == At(\h0800, 0) + 256 * BoardEsigFlash(4 * BusFlash) - 1

\* No region of one part of the map hides one of the other.
MapApart(xs, ys) ==
    \A i \in 1 .. Len(xs), j \in 1 .. Len(ys) : MapKept(xs[i], ys[j]) /\ MapKept(ys[j], xs[i])

MapSound(xs) == \A i, j \in 1 .. Len(xs) : i # j => MapKept(xs[i], xs[j])

\* Each region of a part contains the registers that are asked for.
MapFilled(xs) ==
    \A i \in 1 .. Len(xs) :
        xs[i].unit \notin BusFillers \cup {"afio"} =>
            /\ BusContains(xs[i], BusRegisters(xs[i]))
            /\ BusContains(xs[i], xs[i].base + xs[i].size - 1)

\* From the interrupt sources to the clock unit, one region at a time.
LEMMA MapFirst == Len(BusFirst) = 20 /\ MapSound(BusFirst) /\ MapFilled(BusFirst)
<1>1. Len(BusFirst) = 20
    BY SMT DEF BusFirst, BusTimers
<1>2. MapSound(BusFirst)
    BY <1>1, SMTT(60) DEF MapSound, BusFirst, BusTimers, BusRegion, At, BusContains, MapKept,
       MapClear, BusRegisters, BusFillers
<1>3. MapFilled(BusFirst)
    BY <1>1, SMTT(60) DEF MapFilled, BusFirst, BusTimers, BusRegion, At, BusContains,
       BusRegisters, BusFillers
<1> QED
    BY <1>1, <1>2, <1>3

\* From the clocks of the backup domain to the serial buses.
LEMMA MapSecond == Len(BusSecond) = 21 /\ MapSound(BusSecond) /\ MapFilled(BusSecond)
<1>1. Len(BusSecond) = 21
    BY SMT DEF BusSecond
<1>2. MapSound(BusSecond)
    BY <1>1, SMTT(60) DEF MapSound, BusSecond, BusRegion, At, BusContains, MapKept, MapClear,
       BusRegisters, BusFillers
<1>3. MapFilled(BusSecond)
    BY <1>1, SMTT(60) DEF MapFilled, BusSecond, BusRegion, At, BusContains, BusRegisters,
       BusFillers
<1> QED
    BY <1>1, <1>2, <1>3

\* The placeholder lies under the converters.
LEMMA MapLast == Len(BusLast) = 4 /\ MapSound(BusLast) /\ MapFilled(BusLast)
    BY SMTT(60) DEF MapSound, MapFilled, BusLast, BusPlaceholder, BusRegion, At, BusContains,
       MapKept, MapClear, BusRegisters, BusFillers

\* The network device is one of these, or none.
MapNics ==
    << BusRegion("eth", At(\h4002, \h8000), \h30, 10),
       BusRegion("eth", At(\h4002, \h8000), \h1800, 10) >>

\* A board has one network device or none.
LEMMA MapNetworkIs ==
    BusNetwork = << >> \/ BusNetwork = << MapNics[1] >> \/ BusNetwork = << MapNics[2] >>
    BY SMT DEF BusNetwork, MapNics

\* A single region hides nothing of itself.
LEMMA MapNetwork == Len(BusNetwork) \in {0, 1} /\ MapSound(BusNetwork) /\ MapFilled(BusNetwork)
    BY MapNetworkIs, SMTT(60) DEF MapSound, MapFilled, MapNics, BusRegion, At, BusContains, MapKept,
       MapClear, BusRegisters, BusFillers

\* What lies apart from both lies apart from the one there is.
LEMMA MapNicsApart ==
    ASSUME NEW xs, Len(xs) \in Nat, MapApart(xs, MapNics) PROVE MapApart(xs, BusNetwork)
<1>1. \A i \in 1 .. Len(BusNetwork) :
          \E k \in 1 .. 2 : BusNetwork[i] = MapNics[k]
  <2> HIDE DEF MapNics
  <2> QED
    BY MapNetworkIs, SMT
<1>2. Len(MapNics) = 2
    BY SMT DEF MapNics
<1> QED
    BY <1>1, <1>2, Zenon DEF MapApart

\* The parts of the map that do not depend on the memories hide nothing of each
\* other: where they overlap the priorities decide for the device.
LEMMA MapDevicesApart ==
    /\ MapApart(BusFirst, BusSecond)
    /\ MapApart(BusFirst, BusLast)
    /\ MapApart(BusSecond, BusLast)
    /\ MapApart(BusFirst, BusNetwork)
    /\ MapApart(BusSecond, BusNetwork)
    /\ MapApart(BusLast, BusNetwork)
<1>1. MapApart(BusFirst, BusSecond)
    BY MapFirst, MapSecond, SMTT(60) DEF MapApart, BusFirst, BusTimers, BusSecond, BusRegion, At,
       BusContains, MapKept, MapClear, BusRegisters, BusFillers
<1>2. MapApart(BusFirst, BusLast)
    BY MapFirst, MapLast, SMTT(60) DEF MapApart, BusFirst, BusTimers, BusLast, BusPlaceholder,
       BusRegion, At, BusContains, MapKept, MapClear, BusRegisters, BusFillers
<1>3. MapApart(BusSecond, BusLast)
    BY MapSecond, MapLast, SMTT(60) DEF MapApart, BusSecond, BusLast, BusPlaceholder, BusRegion,
       At, BusContains, MapKept, MapClear, BusRegisters, BusFillers
<1>4. MapApart(BusFirst, BusNetwork)
  <2>1. MapApart(BusFirst, MapNics)
      BY MapFirst, SMTT(60) DEF MapApart, BusFirst, BusTimers, MapNics, BusRegion, At,
         BusContains, MapKept, MapClear, BusRegisters, BusFillers
  <2> QED
      BY <2>1, MapFirst, MapNicsApart
<1>5. MapApart(BusSecond, BusNetwork)
  <2>1. MapApart(BusSecond, MapNics)
      BY MapSecond, SMTT(60) DEF MapApart, BusSecond, MapNics, BusRegion, At,
         BusContains, MapKept, MapClear, BusRegisters, BusFillers
  <2> QED
      BY <2>1, MapSecond, MapNicsApart
<1>6. MapApart(BusLast, BusNetwork)
  <2>1. MapApart(BusLast, MapNics)
      BY MapLast, SMTT(60) DEF MapApart, BusLast, BusPlaceholder, MapNics, BusRegion, At,
         BusContains, MapKept, MapClear, BusRegisters, BusFillers
  <2> QED
      BY <2>1, MapLast, MapNicsApart
<1> QED
    BY <1>1, <1>2, <1>3, <1>4, <1>5, <1>6

\* The memories, and the two regions that fill holes.
MapFlash == [unit |-> "flash", base |-> At(\h0800, 0), size |-> BusFlash, prio |-> 0]
MapSysmem == [unit |-> "sysmem", base |-> At(\h1FFF, \h8000), size |-> 7168, prio |-> 0]
MapSram == [unit |-> "sram", base |-> At(\h2000, 0), size |-> BusRam, prio |-> 0]
MapGap ==
    [unit |-> "gap", base |-> At(\h2000, 0) + BusRam, size |-> At(\h2000, 0) - BusRam,
     prio |-> -1]
MapRemap(size) == [unit |-> "remap", base |-> 0, size |-> size, prio |-> -1]

MapMemory(r) ==
    \/ r = MapFlash \/ r = MapSysmem \/ r = MapSram \/ r = MapGap
    \/ r = MapRemap(BusFlash) \/ r = MapRemap(7168)

\* The flash comes first; in mode sram nothing is remapped.
LEMMA MapMemoriesAre ==
    ASSUME BusInv
    PROVE  /\ Len(BusMemories) \in {4, 5}
           /\ BusMemories[1] = MapFlash /\ BusMemories[2] = MapSysmem
           /\ Len(BusMemories) = 4 => BusMemories[3] = MapSram /\ BusMemories[4] = MapGap
           /\ Len(BusMemories) = 5 =>
                  /\ BusMemories[3] = MapRemap(BusFlash) \/ BusMemories[3] = MapRemap(7168)
                  /\ BusMemories[4] = MapSram /\ BusMemories[5] = MapGap
<1>1. BusFlash \in Nat /\ BusRam \in Nat
    BY BusSizesBounded, SMT DEF BusBounded
<1>2. (4 * BusFlash) \div 4 = BusFlash /\ (4 * BusRam) \div 4 = BusRam
    BY <1>1, SMT
<1>3. bus.mode \in {"flash", "sysmem", "sram"}
    BY DEF BusInv
<1> QED
    BY <1>1, <1>2, <1>3, SMTT(60) DEF BusMemories, BusRegion, MapFlash, MapSysmem, MapSram,
       MapGap, MapRemap

\* Each memory is one of these, and none is there twice.
LEMMA MapMemoriesKnown ==
    ASSUME BusInv
    PROVE  /\ \A i \in 1 .. Len(BusMemories) : MapMemory(BusMemories[i])
           /\ \A i, j \in 1 .. Len(BusMemories) :
                  i # j => BusMemories[i].unit # BusMemories[j].unit
<1>1. CASE Len(BusMemories) = 4
  <2>1. \A i \in 1 .. 4 : i = 1 \/ i = 2 \/ i = 3 \/ i = 4
      BY SMT
  <2>2. \A i \in 1 .. 4 : MapMemory(BusMemories[i])
    <3>1. /\ MapMemory(BusMemories[1]) /\ MapMemory(BusMemories[2]) /\ MapMemory(BusMemories[3])
          /\ MapMemory(BusMemories[4])
        BY <1>1, MapMemoriesAre, SMT DEF MapMemory
    <3> QED
        BY <2>1, <3>1
  <2>3. /\ BusMemories[1].unit = "flash" /\ BusMemories[2].unit = "sysmem"
        /\ BusMemories[3].unit = "sram" /\ BusMemories[4].unit = "gap"
      BY <1>1, MapMemoriesAre, SMT DEF MapFlash, MapSysmem, MapSram, MapGap
  <2> QED
      BY <1>1, <2>1, <2>2, <2>3, SMT
<1>2. CASE Len(BusMemories) = 5
  <2>1. \A i \in 1 .. 5 : i = 1 \/ i = 2 \/ i = 3 \/ i = 4 \/ i = 5
      BY SMT
  <2>2. \A i \in 1 .. 5 : MapMemory(BusMemories[i])
    <3>1. /\ MapMemory(BusMemories[1]) /\ MapMemory(BusMemories[2]) /\ MapMemory(BusMemories[3])
          /\ MapMemory(BusMemories[4]) /\ MapMemory(BusMemories[5])
        BY <1>2, MapMemoriesAre, SMT DEF MapMemory
    <3> QED
        BY <2>1, <3>1
  <2>3. /\ BusMemories[1].unit = "flash" /\ BusMemories[2].unit = "sysmem"
        /\ BusMemories[3].unit = "remap" /\ BusMemories[4].unit = "sram"
        /\ BusMemories[5].unit = "gap"
      BY <1>2, MapMemoriesAre, SMT DEF MapFlash, MapSysmem, MapSram, MapGap, MapRemap
  <2> QED
      BY <1>2, <2>1, <2>2, <2>3, SMT
<1> QED
    BY <1>1, <1>2, MapMemoriesAre

\* Whatever their sizes are, the memories do not overlap.
LEMMA MapMemories ==
    ASSUME BusInv PROVE MapSound(BusMemories) /\ MapFilled(BusMemories)
<1>1. /\ BusFlash \in Nat /\ 1024 <= BusFlash /\ BusFlash <= 4194304
      /\ BusRam \in Nat /\ 512 <= BusRam /\ BusRam <= 196608
    BY BusSizesBounded DEF BusBounded
<1>2. \A i \in 1 .. Len(BusMemories) : MapMemory(BusMemories[i])
    BY MapMemoriesKnown
<1>3. \A i, j \in 1 .. Len(BusMemories) :
          i # j => BusMemories[i].unit # BusMemories[j].unit
    BY MapMemoriesKnown
<1>4. ASSUME NEW r, MapMemory(r)
      PROVE  r.unit \notin BusFillers \cup {"afio"} =>
                 /\ BusContains(r, BusRegisters(r))
                 /\ BusContains(r, r.base + r.size - 1)
    BY <1>1, <1>4, SMT DEF MapMemory, MapFlash, MapSysmem, MapSram,
       MapGap, MapRemap, At, BusContains, BusRegisters, BusFillers
<1>5. ASSUME NEW r, MapMemory(r), NEW s, MapMemory(s), r.unit # s.unit
      PROVE  MapKept(r, s)
    BY <1>1, <1>5, SMT DEF MapMemory, MapFlash, MapSysmem, MapSram,
       MapGap, MapRemap, At, BusContains, BusRegisters, BusFillers, MapKept,
       MapClear
<1> QED
    BY <1>2, <1>3, <1>4, <1>5 DEF MapSound, MapFilled

\* Nor do they overlap with a device.
LEMMA MapMemoriesApart ==
    ASSUME BusInv
    PROVE  /\ MapApart(BusMemories, BusFirst)
           /\ MapApart(BusMemories, BusSecond)
           /\ MapApart(BusMemories, BusLast)
           /\ MapApart(BusMemories, BusNetwork)
<1>1. /\ BusFlash \in Nat /\ 1024 <= BusFlash /\ BusFlash <= 4194304
      /\ BusRam \in Nat /\ 512 <= BusRam /\ BusRam <= 196608
    BY BusSizesBounded DEF BusBounded
<1>2. \A i \in 1 .. Len(BusMemories) : MapMemory(BusMemories[i])
    BY MapMemoriesKnown
<1>3. ASSUME NEW r, MapMemory(r)
      PROVE  \A j \in 1 .. 20 : MapKept(r, BusFirst[j]) /\ MapKept(BusFirst[j], r)
    BY <1>1, <1>3, SMTT(60) DEF MapMemory, MapFlash, MapSysmem, MapSram,
       MapGap, MapRemap, BusFirst, BusTimers, BusRegion, At, BusContains,
       MapKept, MapClear, BusRegisters, BusFillers
<1>4. ASSUME NEW r, MapMemory(r)
      PROVE  \A j \in 1 .. 21 : MapKept(r, BusSecond[j]) /\ MapKept(BusSecond[j], r)
    BY <1>1, <1>4, SMTT(60) DEF MapMemory, MapFlash, MapSysmem, MapSram,
       MapGap, MapRemap, BusSecond, BusRegion, At, BusContains,
       MapKept, MapClear, BusRegisters, BusFillers
<1>5. ASSUME NEW r, MapMemory(r)
      PROVE  \A j \in 1 .. 4 : MapKept(r, BusLast[j]) /\ MapKept(BusLast[j], r)
    BY <1>1, <1>5, SMTT(60) DEF MapMemory, MapFlash, MapSysmem, MapSram,
       MapGap, MapRemap, BusLast, BusPlaceholder, BusRegion, At, BusContains,
       MapKept, MapClear, BusRegisters, BusFillers
<1>6. ASSUME NEW r, MapMemory(r)
      PROVE  \A j \in 1 .. 2 : MapKept(r, MapNics[j]) /\ MapKept(MapNics[j], r)
    BY <1>1, <1>6, SMTT(60) DEF MapMemory, MapFlash, MapSysmem, MapSram,
       MapGap, MapRemap, MapNics, BusRegion, At, BusContains,
       MapKept, MapClear, BusRegisters, BusFillers
<1>7. MapApart(BusMemories, MapNics)
  <2>1. Len(MapNics) = 2
      BY SMT DEF MapNics
  <2> QED
      BY <1>2, <1>6, <2>1 DEF MapApart
<1>8. MapApart(BusMemories, BusNetwork)
    BY <1>7, MapNicsApart, MapMemoriesAre
<1>9. MapApart(BusMemories, BusFirst)
    BY <1>2, <1>3, MapFirst DEF MapApart
<1>10. MapApart(BusMemories, BusSecond)
    BY <1>2, <1>4, MapSecond DEF MapApart
<1>11. MapApart(BusMemories, BusLast)
    BY <1>2, <1>5, MapLast DEF MapApart
<1> QED
    BY <1>8, <1>9, <1>10, <1>11

\* The parts of the map may be put together.
LEMMA MapJoins ==
    ASSUME NEW S, NEW xs \in Seq(S), NEW ys \in Seq(S),
           MapSound(xs), MapFilled(xs), MapSound(ys), MapFilled(ys), MapApart(xs, ys)
    PROVE  /\ xs \o ys \in Seq(S) /\ MapSound(xs \o ys) /\ MapFilled(xs \o ys)
           /\ \A zs : MapApart(xs, zs) /\ MapApart(ys, zs) => MapApart(xs \o ys, zs)
<1>1. /\ xs \o ys \in Seq(S) /\ Len(xs \o ys) = Len(xs) + Len(ys)
      /\ Len(xs) \in Nat /\ Len(ys) \in Nat
    BY ConcatProperties, LenProperties
<1>2. \A i \in 1 .. Len(xs \o ys) :
          \/ i \in 1 .. Len(xs) /\ (xs \o ys)[i] = xs[i]
          \/ i - Len(xs) \in 1 .. Len(ys) /\ (xs \o ys)[i] = ys[i - Len(xs)]
    BY <1>1, ConcatProperties
<1> DEFINE zs == xs \o ys
<1> HIDE DEF zs
<1>3. ASSUME NEW i \in 1 .. Len(zs), NEW j \in 1 .. Len(zs), i # j
      PROVE  MapKept(zs[i], zs[j])
  <2>1. CASE i \in 1 .. Len(xs) /\ zs[i] = xs[i] /\ j \in 1 .. Len(xs) /\ zs[j] = xs[j]
      BY <1>3, <2>1 DEF MapSound
  <2>2. CASE /\ i - Len(xs) \in 1 .. Len(ys) /\ zs[i] = ys[i - Len(xs)]
             /\ j - Len(xs) \in 1 .. Len(ys) /\ zs[j] = ys[j - Len(xs)]
    <3>1. i - Len(xs) # j - Len(xs)
        BY <1>1, <1>3
    <3> QED
        BY <2>2, <3>1 DEF MapSound
  <2>3. CASE /\ i \in 1 .. Len(xs) /\ zs[i] = xs[i]
             /\ j - Len(xs) \in 1 .. Len(ys) /\ zs[j] = ys[j - Len(xs)]
      BY <2>3 DEF MapApart
  <2>4. CASE /\ i - Len(xs) \in 1 .. Len(ys) /\ zs[i] = ys[i - Len(xs)]
             /\ j \in 1 .. Len(xs) /\ zs[j] = xs[j]
      BY <2>4 DEF MapApart
  <2> QED
      BY <1>2, <2>1, <2>2, <2>3, <2>4 DEF zs
<1>4. MapSound(xs \o ys)
    BY <1>3 DEF MapSound, zs
<1>5. MapFilled(xs \o ys)
    BY <1>2 DEF MapFilled
<1>6. ASSUME NEW vs, MapApart(xs, vs), MapApart(ys, vs) PROVE MapApart(xs \o ys, vs)
    BY <1>2, <1>6 DEF MapApart
<1> QED
    BY <1>1, <1>4, <1>5, <1>6

\* The regions of a part.
MapElements(xs) == {xs[i] : i \in 1 .. Len(xs)}

\* All the regions of the map.
MapRegions ==
    MapElements(BusMemories) \cup MapElements(BusFirst) \cup MapElements(BusSecond)
        \cup MapElements(BusLast) \cup MapElements(BusNetwork)

\* What the operators on sequences need to know of the parts.
LEMMA MapPartsAreSequences ==
    /\ BusMemories \in Seq(MapRegions)
    /\ BusFirst \in Seq(MapRegions)
    /\ BusSecond \in Seq(MapRegions)
    /\ BusLast \in Seq(MapRegions)
    /\ BusNetwork \in Seq(MapRegions)
<1>1. ASSUME NEW S, \A i \in 1 .. Len(BusMemories) : BusMemories[i] \in S
      PROVE  BusMemories \in Seq(S)
    BY <1>1, SMTT(30) DEF BusMemories
<1>2. ASSUME NEW S, \A i \in 1 .. 20 : BusFirst[i] \in S PROVE BusFirst \in Seq(S)
    BY <1>2, SMTT(30) DEF BusFirst, BusTimers
<1>3. ASSUME NEW S, \A i \in 1 .. 21 : BusSecond[i] \in S PROVE BusSecond \in Seq(S)
    BY <1>3, SMTT(30) DEF BusSecond
<1>4. ASSUME NEW S, \A i \in 1 .. 4 : BusLast[i] \in S PROVE BusLast \in Seq(S)
    BY <1>4, SMTT(30) DEF BusLast
<1>5. ASSUME NEW S, \A i \in 1 .. Len(BusNetwork) : BusNetwork[i] \in S
      PROVE  BusNetwork \in Seq(S)
    BY <1>5, SMTT(30) DEF BusNetwork
<1>6. /\ \A i \in 1 .. Len(BusMemories) : BusMemories[i] \in MapRegions
      /\ \A i \in 1 .. 20 : BusFirst[i] \in MapRegions
      /\ \A i \in 1 .. 21 : BusSecond[i] \in MapRegions
      /\ \A i \in 1 .. 4 : BusLast[i] \in MapRegions
      /\ \A i \in 1 .. Len(BusNetwork) : BusNetwork[i] \in MapRegions
    BY MapFirst, MapSecond, MapLast, Zenon DEF MapRegions, MapElements
<1> QED
    BY <1>1, <1>2, <1>3, <1>4, <1>5, <1>6

\* Only the flash answers at the last KiB that the signature announces.
MapAlone(xs) ==
    \A i \in 1 .. Len(xs) : BusContains(xs[i], MapAnnounced) => xs[i] = MapFlash

\* The signature announces no more than there is.
LEMMA MapAnnouncedInside ==
    ASSUME BusInv
    PROVE  /\ MapAnnounced \in Nat
           /\ 33554432 <= MapAnnounced /\ MapAnnounced < 33554432 + BusFlash
           /\ BusContains(MapFlash, MapAnnounced)
<1>1. BusFlash \in Nat /\ 1024 <= BusFlash /\ BusFlash <= 4194304
    BY BusSizesBounded DEF BusBounded
<1> DEFINE n == (4 * BusFlash) \div 1024
<1>2. n \in Nat /\ 1 <= n /\ n <= 16384 /\ 256 * n <= BusFlash
    BY <1>1, SMT
<1>3. BoardEsigFlash(4 * BusFlash) = n
  <2> HIDE DEF n
  <2>1. BoardEsigFlash(4 * BusFlash) = IF n > 65535 THEN 65535 ELSE n
      BY DEF BoardEsigFlash, n
  <2> QED
      BY <1>2, <2>1, SMT
<1> HIDE DEF n
<1>4. MapAnnounced = 33554432 + 256 * n - 1
    BY <1>3, SMT DEF MapAnnounced, At
<1> QED
    BY <1>1, <1>2, <1>4, SMT DEF BusContains, MapFlash, At

\* No part of the map but the flash reaches into it.
LEMMA MapFlashAlone ==
    ASSUME BusInv
    PROVE  /\ MapAlone(BusMemories) /\ MapAlone(BusFirst) /\ MapAlone(BusSecond)
           /\ MapAlone(BusLast) /\ MapAlone(BusNetwork)
<1>1. /\ BusFlash \in Nat /\ 1024 <= BusFlash /\ BusFlash <= 4194304
      /\ BusRam \in Nat /\ 512 <= BusRam /\ BusRam <= 196608
    BY BusSizesBounded DEF BusBounded
<1>2. /\ MapAnnounced \in Nat
      /\ 33554432 <= MapAnnounced /\ MapAnnounced <= 37748735
    BY <1>1, MapAnnouncedInside, SMT
<1>3. MapAlone(BusMemories)
  <2>1. ASSUME NEW r, MapMemory(r), BusContains(r, MapAnnounced) PROVE r = MapFlash
      BY <1>1, <1>2, <2>1, SMT DEF MapMemory, MapFlash, MapSysmem, MapSram, MapGap, MapRemap,
         BusContains, At
  <2> QED
      BY <2>1, MapMemoriesKnown DEF MapAlone
<1>4. MapAlone(BusFirst)
    BY <1>2, MapFirst, SMTT(60) DEF MapAlone, BusFirst, BusTimers, BusRegion, At, BusContains
<1>5. MapAlone(BusSecond)
    BY <1>2, MapSecond, SMTT(60) DEF MapAlone, BusSecond, BusRegion, At, BusContains
<1>6. MapAlone(BusLast)
    BY <1>2, MapLast, SMTT(60) DEF MapAlone, BusLast, BusPlaceholder, BusRegion, At, BusContains
<1>7. MapAlone(BusNetwork)
    BY <1>2, MapNetworkIs, SMTT(60) DEF MapAlone, MapNics, BusRegion, At, BusContains
<1> QED
    BY <1>3, <1>4, <1>5, <1>6, <1>7

\* So it is for parts put together.
LEMMA MapAloneJoins ==
    ASSUME NEW S, NEW xs \in Seq(S), NEW ys \in Seq(S), MapAlone(xs), MapAlone(ys)
    PROVE  MapAlone(xs \o ys)
<1>1. /\ Len(xs \o ys) = Len(xs) + Len(ys) /\ Len(xs) \in Nat /\ Len(ys) \in Nat
    BY ConcatProperties, LenProperties
<1>2. \A i \in 1 .. Len(xs \o ys) :
          \/ i \in 1 .. Len(xs) /\ (xs \o ys)[i] = xs[i]
          \/ i - Len(xs) \in 1 .. Len(ys) /\ (xs \o ys)[i] = ys[i - Len(xs)]
    BY <1>1, ConcatProperties
<1> QED
    BY <1>2 DEF MapAlone

\* The whole map: nobody hides a device, every region contains its registers,
\* and the flash comes first.
LEMMA MapWhole ==
    ASSUME BusInv
    PROVE  /\ BusMap \in Seq(MapRegions)
           /\ MapSound(BusMap) /\ MapFilled(BusMap) /\ MapAlone(BusMap)
           /\ 1 \in 1 .. Len(BusMap) /\ BusMap[1] = MapFlash
<1> DEFINE a == BusMemories
           b == a \o BusFirst
           c == b \o BusSecond
           d == c \o BusLast
           e == d \o BusNetwork
<1>1. /\ a \in Seq(MapRegions) /\ MapSound(a) /\ MapFilled(a) /\ MapAlone(a)
      /\ MapApart(a, BusFirst) /\ MapApart(a, BusSecond) /\ MapApart(a, BusLast)
      /\ MapApart(a, BusNetwork)
    BY MapPartsAreSequences, MapMemories, MapMemoriesApart, MapFlashAlone
<1>2. /\ b \in Seq(MapRegions) /\ MapSound(b) /\ MapFilled(b) /\ MapAlone(b)
      /\ MapApart(b, BusSecond) /\ MapApart(b, BusLast) /\ MapApart(b, BusNetwork)
  <2> HIDE DEF a
  <2> QED
      BY <1>1, MapPartsAreSequences, MapFirst, MapDevicesApart, MapFlashAlone, MapJoins,
         MapAloneJoins, Zenon
<1>3. /\ c \in Seq(MapRegions) /\ MapSound(c) /\ MapFilled(c) /\ MapAlone(c)
      /\ MapApart(c, BusLast) /\ MapApart(c, BusNetwork)
  <2> HIDE DEF b
  <2> QED
      BY <1>2, MapPartsAreSequences, MapSecond, MapDevicesApart, MapFlashAlone, MapJoins,
         MapAloneJoins, Zenon
<1>4. /\ d \in Seq(MapRegions) /\ MapSound(d) /\ MapFilled(d) /\ MapAlone(d)
      /\ MapApart(d, BusNetwork)
  <2> HIDE DEF c
  <2> QED
      BY <1>3, MapPartsAreSequences, MapLast, MapDevicesApart, MapFlashAlone, MapJoins,
         MapAloneJoins, Zenon
<1>5. e \in Seq(MapRegions) /\ MapSound(e) /\ MapFilled(e) /\ MapAlone(e)
  <2> HIDE DEF d
  <2> QED
      BY <1>4, MapPartsAreSequences, MapNetwork, MapFlashAlone, MapJoins, MapAloneJoins, Zenon
<1>6. Len(a) \in Nat /\ 1 <= Len(a) /\ a[1] = MapFlash
    BY MapMemoriesAre, SMT
<1>7. 1 <= Len(b) /\ b[1] = MapFlash
  <2> HIDE DEF a
  <2> QED
      BY <1>1, <1>6, MapPartsAreSequences, ConcatProperties, LenProperties
<1>8. 1 <= Len(c) /\ c[1] = MapFlash
  <2> HIDE DEF b
  <2> QED
      BY <1>2, <1>7, MapPartsAreSequences, ConcatProperties, LenProperties
<1>9. 1 <= Len(d) /\ d[1] = MapFlash
  <2> HIDE DEF c
  <2> QED
      BY <1>3, <1>8, MapPartsAreSequences, ConcatProperties, LenProperties
<1>10. 1 <= Len(e) /\ Len(e) \in Nat /\ e[1] = MapFlash
  <2> HIDE DEF d
  <2> QED
      BY <1>4, <1>9, MapPartsAreSequences, ConcatProperties, LenProperties
<1>11. BusMap = e
    BY DEF BusMap
<1> HIDE DEF e
<1> QED
    BY <1>5, <1>10, <1>11

\* What the regions are decides who answers.
LEMMA BusDevicesAnswer == BusInv => MapDevicesAnswer
<1> SUFFICES ASSUME BusInv, NEW map, map = BusMap
             PROVE  /\ \A i \in DOMAIN map :
                           map[i].unit \notin BusFillers \cup {"afio"} =>
                               /\ BusAnswers(map, i, BusRegisters(map[i]))
                               /\ map[i].unit # "gpio" =>
                                      BusAnswers(map, i, map[i].base + map[i].size - 1)
                    /\ BusAnswers(map, 1, MapAnnounced)
    BY DEF MapDevicesAnswer, MapAnnounced
<1>1. /\ map \in Seq(MapRegions)
      /\ MapSound(map) /\ MapFilled(map) /\ MapAlone(map)
      /\ 1 \in 1 .. Len(map) /\ map[1] = MapFlash
    BY MapWhole
<1>2. DOMAIN map = 1 .. Len(map) /\ Len(map) \in Nat
    BY <1>1, LenProperties
<1>3. ASSUME NEW i \in 1 .. Len(map), NEW addr, BusContains(map[i], addr),
             \A j \in 1 .. Len(map) : i # j => MapClear(map[i], map[j], addr)
      PROVE  BusAnswers(map, i, addr)
    BY <1>2, <1>3 DEF BusAnswers, MapClear
<1>4. ASSUME NEW i \in 1 .. Len(map), map[i].unit \notin BusFillers \cup {"afio"}
      PROVE  /\ BusAnswers(map, i, BusRegisters(map[i]))
             /\ map[i].unit # "gpio" => BusAnswers(map, i, map[i].base + map[i].size - 1)
    BY <1>1, <1>3, <1>4 DEF MapSound, MapFilled, MapKept
<1>5. BusAnswers(map, 1, MapAnnounced)
  <2>1. \A j \in 1 .. Len(map) : 1 # j => map[j] # MapFlash
    <3>1. /\ MapFlash.unit = "flash" /\ MapFlash.prio = 0
          /\ BusContains(MapFlash, BusRegisters(MapFlash))
      <4>1. BusFlash \in Nat /\ 1024 <= BusFlash
          BY BusSizesBounded DEF BusBounded
      <4> QED
          BY <4>1, SMT DEF MapFlash, BusContains, BusRegisters, At
    <3>2. "flash" \notin BusFillers \cup {"afio"} /\ ~(0 < 0)
        BY SMT DEF BusFillers
    <3> QED
        BY <1>1, <3>1, <3>2 DEF MapSound, MapKept, MapClear
  <2>2. \A j \in 1 .. Len(map) : 1 # j => MapClear(map[1], map[j], MapAnnounced)
      BY <1>1, <2>1 DEF MapAlone, MapClear
  <2> QED
      BY <1>1, <1>3, <2>2, MapAnnouncedInside
<1> QED
    BY <1>2, <1>4, <1>5

\* The machine starts with the sizes of its board.
LEMMA BusStarts == BusInit => BusInv
<1>1. /\ {0} \subseteq BoardFlashSizes(BusSizes) \cup {0} /\ {0} \subseteq Nat
      /\ {"flash"} \subseteq {"flash", "sysmem", "sram"} /\ {FALSE} \subseteq BOOLEAN
    OBVIOUS
<1> QED
    BY <1>1, Zenon DEF BusInit, BusInv

\* A size that is refused is not taken over.
LEMMA BusKeeps == BusInv /\ BusNext => BusInv'
<1> SUFFICES ASSUME BusInv, BusNext PROVE BusInv'
    OBVIOUS
<1>1. CASE BusSetFlashSize
  <2>1. PICK size \in BusSizes :
            bus' = IF size \in BoardFlashSizes(BusSizes) THEN [bus EXCEPT !.size = size]
                   ELSE [bus EXCEPT !.refused = TRUE]
      BY <1>1 DEF BusSetFlashSize
  <2>2. CASE size \in BoardFlashSizes(BusSizes)
      BY <2>1, <2>2 DEF BusInv
  <2>3. CASE size \notin BoardFlashSizes(BusSizes)
      BY <2>1, <2>3 DEF BusInv
  <2> QED
      BY <2>2, <2>3
<1>2. CASE BusSetBootMode
    BY <1>2 DEF BusSetBootMode, BusInv
<1>3. CASE BusMapNext
    BY <1>3 DEF BusMapNext, BusInv
<1> QED
    BY <1>1, <1>2, <1>3 DEF BusNext

-----------------------------------------------------------------------------
(***************************************************************************)
(* The USB host.                                                           *)
(***************************************************************************)

UsbInv == UsbTypeOK /\ UsbRequestKept /\ UsbDeviceAnnounced

\* A result that is applied answers the request that waits.
LEMMA UsbApplyKeeps ==
    ASSUME NEW u \in UsbState, NEW token \in UsbTokens, NEW r \in UsbResults,
           token \in u.asked, u.flight # "none" => u.flight \in u.asked
    PROVE  /\ UsbApply(u, token, r) \in UsbState
           /\ UsbApply(u, token, r).waiting = FALSE
           /\ UsbApply(u, token, r).flight = u.flight
           /\ UsbApply(u, token, r).asked = u.asked
           /\ UsbApply(u, token, r).intst.token = token
           /\ UsbApply(u, token, r).device = u.device
           /\ UsbApply(u, token, r).armed = u.armed
           /\ UsbApply(u, token, r).attach = u.attach
           /\ UsbApply(u, token, r).heard = u.heard
           /\ u.intfg \subseteq UsbApply(u, token, r).intfg
    BY DEF UsbState, UsbApply, UsbFlags, UsbTokens, UsbResults, UsbAnswers

\* What a packet may lead to: an answer at once, or itself in flight.
LEMMA UsbSubmitCases ==
    ASSUME NEW u, NEW token, NEW control \in BOOLEAN, NEW w \in UsbSubmit(u, token, control)
    PROVE  \/ w = UsbApply(u, token, "NODEV")
           \/ \E r \in UsbResults : w = UsbApply(UsbReplaced(u), token, r)
           \/ w = [u EXCEPT !.flight = token]
<1>1. CASE u.device # u.addr
    BY <1>1 DEF UsbSubmit
<1>2. CASE u.device = u.addr /\ u.flight # "none" /\ ~control
    BY <1>2 DEF UsbSubmit, UsbResults, UsbAnswers
<1>3. CASE u.device = u.addr /\ ~(u.flight # "none" /\ ~control)
  <2>1. w \in {UsbApply(UsbReplaced(u), token, r) : r \in UsbAnswers}
                \cup {[u EXCEPT !.flight = token]}
      BY <1>3 DEF UsbSubmit
  <2> QED
      BY <2>1 DEF UsbResults
<1> QED
    BY <1>1, <1>2, <1>3

\* A write of HOST_EP_PID answers at once or has its packet in flight.
LEMMA UsbSubmitKeeps == UsbInv /\ UsbWriteEpPid => UsbInv'
<1> SUFFICES ASSUME UsbInv, UsbWriteEpPid
             PROVE  UsbInv'
    OBVIOUS
<1>1. PICK token \in UsbSent, control \in BOOLEAN :
          usb' \in UsbSubmit([usb EXCEPT !.waiting = TRUE, !.asked = @ \cup {token}],
                             token, control)
    BY DEF UsbWriteEpPid
<1>2. PICK u : u = [usb EXCEPT !.waiting = TRUE, !.asked = @ \cup {token}]
    OBVIOUS
<1>3. token \in UsbTokens /\ token # "none"
    BY UsbSentAssumption DEF UsbTokens
<1>4. /\ u \in UsbState /\ UsbReplaced(u) \in UsbState
      /\ token \in u.asked /\ token \in UsbReplaced(u).asked
      /\ u.flight # "none" => u.flight \in u.asked
      /\ UsbReplaced(u).flight = "none" /\ UsbReplaced(u).asked = u.asked
      /\ u.device = usb.device /\ u.armed = usb.armed /\ u.attach = usb.attach
      /\ u.heard = usb.heard /\ u.intfg = usb.intfg
      /\ UsbReplaced(u).device = usb.device /\ UsbReplaced(u).armed = usb.armed
      /\ UsbReplaced(u).attach = usb.attach
      /\ UsbReplaced(u).heard = usb.heard /\ UsbReplaced(u).intfg = usb.intfg
    BY <1>2, <1>3 DEF UsbInv, UsbTypeOK, UsbState, UsbRequestKept, UsbReplaced
<1>5. usb' \in UsbSubmit(u, token, control)
    BY <1>1, <1>2
<1>6. usb.device # "none" /\ usb.armed =>
          usb.attach /\ (usb.heard \/ "DETECT" \in usb.intfg)
    BY DEF UsbInv, UsbDeviceAnnounced, UsbPresent
<1>7. CASE usb' = UsbApply(u, token, "NODEV")
  <2>1. "NODEV" \in UsbResults
      BY DEF UsbResults
  <2>2. /\ usb' \in UsbState /\ usb'.waiting = FALSE /\ usb'.flight = u.flight
        /\ usb'.asked = u.asked /\ usb'.intst.token = token
        /\ usb'.device = usb.device /\ usb'.armed = usb.armed /\ usb'.attach = usb.attach
        /\ usb'.heard = usb.heard /\ usb.intfg \subseteq usb'.intfg
      BY <1>3, <1>4, <1>7, <2>1, UsbApplyKeeps
  <2> QED
      BY <1>4, <1>6, <2>2 DEF UsbInv, UsbTypeOK, UsbRequestKept, UsbDeviceAnnounced, UsbPresent
<1>8. CASE \E r \in UsbResults : usb' = UsbApply(UsbReplaced(u), token, r)
  <2>1. PICK r \in UsbResults : usb' = UsbApply(UsbReplaced(u), token, r)
      BY <1>8
  <2>2. /\ usb' \in UsbState /\ usb'.waiting = FALSE /\ usb'.flight = "none"
        /\ usb'.asked = u.asked /\ usb'.intst.token = token
        /\ usb'.device = usb.device /\ usb'.armed = usb.armed /\ usb'.attach = usb.attach
        /\ usb'.heard = usb.heard /\ usb.intfg \subseteq usb'.intfg
      BY <1>3, <1>4, <2>1, UsbApplyKeeps
  <2> QED
      BY <1>4, <1>6, <2>2 DEF UsbInv, UsbTypeOK, UsbRequestKept, UsbDeviceAnnounced, UsbPresent
<1>9. CASE usb' = [u EXCEPT !.flight = token]
    BY <1>2, <1>3, <1>9
    DEF UsbInv, UsbTypeOK, UsbState, UsbRequestKept, UsbDeviceAnnounced, UsbPresent
<1> QED
    BY <1>5, <1>7, <1>8, <1>9, UsbSubmitCases

\* The calls of the USB core.
LEMMA UsbCoreKeeps == UsbInv /\ UsbCore => UsbInv'
<1> SUFFICES ASSUME UsbInv, UsbCore
             PROVE  UsbInv'
    OBVIOUS
<1> USE DEF UsbInv, UsbTypeOK, UsbState, UsbRequestKept, UsbDeviceAnnounced, UsbPresent,
            UsbFlags, UsbAddrs
<1>1. CASE UsbAttach
    BY <1>1 DEF UsbAttach
<1>2. CASE UsbDetach
    BY <1>2 DEF UsbDetach
<1>3. CASE UsbComplete
  <2>1. PICK r \in UsbAnswers :
            usb' = UsbApply([usb EXCEPT !.flight = "none"], usb.flight, r)
      BY <1>3 DEF UsbComplete
  <2>2. usb.flight \in UsbTokens /\ r \in UsbResults
      BY <1>3 DEF UsbComplete, UsbResults
  <2> QED
      BY <2>1, <2>2 DEF UsbApply
<1>4. CASE UsbTakeAddress
    BY <1>4 DEF UsbTakeAddress
<1> QED
    BY <1>1, <1>2, <1>3, <1>4 DEF UsbCore

\* The other register writes, and the machine reset.
LEMMA UsbRegistersKeep == UsbInv /\ (UsbRegisters \/ UsbMachineReset) => UsbInv'
<1> SUFFICES ASSUME UsbInv, UsbRegisters \/ UsbMachineReset
             PROVE  UsbInv'
    OBVIOUS
<1>0. CASE UsbWriteEpPid
    BY <1>0, UsbSubmitKeeps
<1> USE DEF UsbInv, UsbTypeOK, UsbState, UsbRequestKept, UsbDeviceAnnounced, UsbPresent,
            UsbFlags, UsbAddrs
<1>1. CASE UsbWriteBadPid
    BY <1>1, ZenonT(40) DEF UsbWriteBadPid, UsbApply, UsbTokens, UsbAnswers, UsbResults
<1>2. CASE UsbWriteIntFg
  <2>1. PICK ones \in SUBSET UsbFlags : usb' = UsbAcknowledge(usb, ones)
      BY <1>2 DEF UsbWriteIntFg
  <2>2. /\ usb'.intfg = usb.intfg \ ones
        /\ usb'.heard = (usb.heard \/ ("DETECT" \in usb.intfg \cap ones /\ UsbPresent(usb)))
        /\ usb' = [usb EXCEPT !.intfg = usb'.intfg, !.heard = usb'.heard]
      BY <2>1 DEF UsbAcknowledge
  <2>3. usb'.heard \in BOOLEAN
      BY <2>2
  <2> QED
      BY <2>2, <2>3
<1>3. CASE UsbWriteCtrl
  <2>1. PICK host \in BOOLEAN, bit \in {"none", "CLR_ALL", "RESET_SIE"} :
            usb' = IF bit = "none" THEN [usb EXCEPT !.host = host]
                   ELSE [usb EXCEPT
                            !.host = host, !.intfg = {}, !.armed = FALSE,
                            !.intst = IF bit = "CLR_ALL"
                                      THEN [token |-> "none", result |-> "none"] ELSE @]
      BY <1>3 DEF UsbWriteCtrl
  <2>2. CASE bit = "none"
      BY <2>1, <2>2
  <2>3. CASE bit = "CLR_ALL"
      BY <2>1, <2>3 DEF UsbResults
  <2>4. CASE bit = "RESET_SIE"
      BY <2>1, <2>4
  <2> QED
      BY <2>2, <2>3, <2>4
<1>4. CASE UsbWriteIntEn
    BY <1>4 DEF UsbWriteIntEn, UsbResyncRoot
<1>5. CASE UsbWriteAddr
    BY <1>5 DEF UsbWriteAddr
<1>6. CASE UsbWriteMis
    BY <1>6 DEF UsbWriteMis
<1>7. CASE UsbWriteHostCtrl
    BY <1>7 DEF UsbWriteHostCtrl
<1>8. CASE UsbMachineReset
    BY <1>8, ZenonT(40) DEF UsbMachineReset, UsbReset, UsbResyncRoot, UsbResults
<1> QED
    BY <1>0, <1>1, <1>2, <1>3, <1>4, <1>5, <1>6, <1>7, <1>8 DEF UsbRegisters

LEMMA UsbStarts == UsbInit => UsbInv
    BY DEF UsbInit, UsbInv, UsbTypeOK, UsbState, UsbRequestKept, UsbDeviceAnnounced,
           UsbPresent, UsbFlags, UsbAddrs, UsbResults

-----------------------------------------------------------------------------
(***************************************************************************)
(* The 10M Ethernet controller.                                            *)
(***************************************************************************)

Eth10mInv == Eth10mTypeOK /\ Eth10mFrameTold /\ Eth10mLinkInTime

\* What the packet path keeps of a state e, while it leaves the link alone.
Eth10mSound(e) ==
    /\ e \in Eth10mState
    /\ e.stash => ~e.fits \/ e.half
    /\ e.unread => "RXIF" \in e.eir
Eth10mSameLink(e, f) ==
    f.upIn = e.upIn /\ f.ringsIn = e.ringsIn /\ f.pending = e.pending
        /\ f.announced = e.announced

LEMMA Eth10mReceiveKeeps ==
    ASSUME NEW e, Eth10mSound(e)
    PROVE  Eth10mSound(Eth10mReceive(e)) /\ Eth10mSameLink(e, Eth10mReceive(e))
<1> USE DEF Eth10mSound, Eth10mSameLink, Eth10mState, Eth10mFlags
<1>1. CASE ~e.rxen
    BY <1>1 DEF Eth10mReceive
<1>2. CASE e.rxen /\ ~e.fits
    BY <1>2 DEF Eth10mReceive
<1>3. CASE e.rxen /\ e.fits
  <2>1. Eth10mReceive(e) = [e EXCEPT !.unread = TRUE, !.eir = @ \cup {"RXIF"}]
      BY <1>3 DEF Eth10mReceive, Eth10mStore
  <2> QED
      BY <1>3, <2>1, ZenonT(40)
<1> QED
    BY <1>1, <1>2, <1>3

LEMMA Eth10mFlushKeeps ==
    ASSUME NEW e, Eth10mSound(e)
    PROVE  Eth10mSound(Eth10mFlush(e)) /\ Eth10mSameLink(e, Eth10mFlush(e))
<1>1. CASE e.queued = 0
    BY <1>1 DEF Eth10mFlush, Eth10mSameLink
<1>2. CASE e.queued # 0
  <2>1. PICK f : f = [e EXCEPT !.queued = 0]
      OBVIOUS
  <2>2. Eth10mSound(f) /\ Eth10mSameLink(e, f)
      BY <2>1, Eth10mAssumption DEF Eth10mSound, Eth10mState, Eth10mSameLink
  <2>3. Eth10mFlush(e) = Eth10mReceive(f)
      BY <1>2, <2>1 DEF Eth10mFlush
  <2> QED
      BY <2>2, <2>3, Eth10mReceiveKeeps DEF Eth10mSameLink
<1> QED
    BY <1>1, <1>2

\* The invariant of the link is about the four fields that the packet path
\* leaves alone.
LEMMA Eth10mCarries ==
    ASSUME Eth10mInv, Eth10mSound(eth10m'), Eth10mSameLink(eth10m, eth10m')
    PROVE  Eth10mInv'
    BY DEF Eth10mInv, Eth10mTypeOK, Eth10mFrameTold, Eth10mLinkInTime, Eth10mSound,
           Eth10mSameLink, Eth10mLinkUp

Eth10mPunctual(e) ==
    /\ e.announced => e.upIn = 0
    /\ ~e.announced => e.pending /\ e.ringsIn \in {e.upIn, e.upIn + 1}

LEMMA Eth10mInParts ==
    /\ Eth10mInv <=> Eth10mSound(eth10m) /\ Eth10mPunctual(eth10m)
    /\ Eth10mInv' <=> Eth10mSound(eth10m') /\ Eth10mPunctual(eth10m')
    BY DEF Eth10mInv, Eth10mTypeOK, Eth10mFrameTold, Eth10mLinkInTime, Eth10mSound,
           Eth10mPunctual, Eth10mLinkUp, Eth10mSlack

\* A reset of the PHY starts the link over, deadline and timer together.
LEMMA Eth10mPhyKeeps ==
    ASSUME NEW e, Eth10mSound(e), NEW f,
           f = [e EXCEPT !.bmcr = "reset", !.upIn = Eth10mResetDelay, !.announced = FALSE,
                         !.ringsIn = Eth10mResetDelay + Eth10mSlack, !.pending = TRUE]
    PROVE  Eth10mSound(f) /\ Eth10mPunctual(f)
<1>1. Eth10mResetDelay \in Eth10mDelays
      /\ Eth10mResetDelay + Eth10mSlack \in 0 .. Eth10mResetDelay + Eth10mSlack
    BY DEF Eth10mDelays, Eth10mResetDelay, Eth10mSlack
<1>2. f \in Eth10mState
    BY <1>1 DEF Eth10mSound, Eth10mState
<1>3. f.stash = e.stash /\ f.fits = e.fits /\ f.half = e.half
      /\ f.unread = e.unread /\ f.eir = e.eir
    BY DEF Eth10mSound, Eth10mState
<1>4. ~f.announced /\ f.pending /\ f.upIn = 3 /\ f.ringsIn = 4
    BY DEF Eth10mSound, Eth10mState, Eth10mResetDelay, Eth10mSlack
<1> QED
    BY <1>2, <1>3, <1>4 DEF Eth10mSound, Eth10mPunctual

\* A tick brings both nearer, and the timer not before the deadline.
LEMMA Eth10mTickKeeps ==
    ASSUME NEW e, Eth10mSound(e), Eth10mPunctual(e), NEW f,
           f = [e EXCEPT !.upIn = IF @ = 0 THEN 0 ELSE @ - 1,
                         !.ringsIn = IF @ = 0 THEN 0 ELSE @ - 1]
    PROVE  Eth10mSound(f) /\ Eth10mPunctual(f)
<1> DEFINE u == IF e.upIn = 0 THEN 0 ELSE e.upIn - 1
           r == IF e.ringsIn = 0 THEN 0 ELSE e.ringsIn - 1
<1>1. e.upIn \in 0 .. 3 /\ e.ringsIn \in 0 .. 4
    BY DEF Eth10mSound, Eth10mState, Eth10mDelays, Eth10mResetDelay, Eth10mSlack
<1>2. u \in Eth10mDelays /\ r \in 0 .. Eth10mResetDelay + Eth10mSlack
    BY <1>1 DEF Eth10mDelays, Eth10mResetDelay, Eth10mSlack
<1>3. (e.announced => u = 0) /\ (~e.announced => e.pending /\ r \in {u, u + 1})
    BY <1>1 DEF Eth10mPunctual
<1>4. f = [e EXCEPT !.upIn = u, !.ringsIn = r]
    OBVIOUS
<1> HIDE DEF u, r
<1>5. f \in Eth10mState
    BY <1>2, <1>4 DEF Eth10mSound, Eth10mState
<1>6. f.stash = e.stash /\ f.fits = e.fits /\ f.half = e.half
      /\ f.unread = e.unread /\ f.eir = e.eir
      /\ f.announced = e.announced /\ f.pending = e.pending /\ f.upIn = u /\ f.ringsIn = r
    BY <1>4 DEF Eth10mSound, Eth10mState
<1> QED
    BY <1>3, <1>5, <1>6 DEF Eth10mSound, Eth10mPunctual

\* The timer finds the link up.
LEMMA Eth10mRingKeeps ==
    ASSUME NEW e, Eth10mSound(e), Eth10mPunctual(e), e.pending, e.ringsIn = 0, NEW f,
           f = [e EXCEPT !.pending = FALSE, !.announced = TRUE,
                         !.eir = IF e.announced THEN @ ELSE @ \cup {"LINKIF"}]
    PROVE  Eth10mSound(f) /\ Eth10mPunctual(f)
<1> DEFINE flags == IF e.announced THEN e.eir ELSE e.eir \cup {"LINKIF"}
<1>1. flags \in SUBSET Eth10mFlags /\ e.eir \subseteq flags
    BY DEF Eth10mSound, Eth10mState, Eth10mFlags
<1>2. e.upIn = 0
    BY DEF Eth10mSound, Eth10mPunctual, Eth10mState, Eth10mDelays, Eth10mResetDelay
<1>3. f = [e EXCEPT !.pending = FALSE, !.announced = TRUE, !.eir = flags]
    OBVIOUS
<1> HIDE DEF flags
<1>4. f \in Eth10mState
    BY <1>1, <1>3 DEF Eth10mSound, Eth10mState
<1>5. f.stash = e.stash /\ f.fits = e.fits /\ f.half = e.half
      /\ f.unread = e.unread /\ f.eir = flags
      /\ f.announced /\ f.upIn = e.upIn
    BY <1>3 DEF Eth10mSound, Eth10mState
<1> QED
    BY <1>1, <1>2, <1>4, <1>5 DEF Eth10mSound, Eth10mPunctual

LEMMA Eth10mKeeps == Eth10mInv /\ Eth10mNext => Eth10mInv'
<1> SUFFICES ASSUME Eth10mInv, Eth10mNext
             PROVE  Eth10mInv'
    OBVIOUS
<1>0. Eth10mSound(eth10m) /\ Eth10mSameLink(eth10m, eth10m)
    BY DEF Eth10mInv, Eth10mTypeOK, Eth10mFrameTold, Eth10mSound, Eth10mSameLink
<1>1. CASE Eth10mWriteEir
  <2>1. PICK ones \in SUBSET Eth10mFlags :
            eth10m' = [eth10m EXCEPT !.eir = @ \ ones, !.unread = @ /\ "RXIF" \notin ones]
      BY <1>1 DEF Eth10mWriteEir
  <2>2. (eth10m.unread /\ "RXIF" \notin ones) \in BOOLEAN
      OBVIOUS
  <2>3. Eth10mSound(eth10m') /\ Eth10mSameLink(eth10m, eth10m')
      BY <1>0, <2>1, <2>2 DEF Eth10mSound, Eth10mSameLink, Eth10mState
  <2> QED
      BY <2>3, Eth10mCarries
<1>2. CASE Eth10mWriteEie
  <2>1. PICK on \in SUBSET (Eth10mFlags \cup {"INTIE"}) : eth10m' = [eth10m EXCEPT !.eie = on]
      BY <1>2 DEF Eth10mWriteEie, Eth10mFlags
  <2>2. Eth10mSound(eth10m') /\ Eth10mSameLink(eth10m, eth10m')
      BY <1>0, <2>1 DEF Eth10mSound, Eth10mSameLink, Eth10mState
  <2> QED
      BY <2>2, Eth10mCarries
<1>3. CASE Eth10mWriteEcon1
  <2>1. PICK rxen \in BOOLEAN, txrts \in BOOLEAN :
            \E s \in (IF txrts THEN Eth10mTransmit([eth10m EXCEPT !.rxen = rxen])
                      ELSE {[eth10m EXCEPT !.rxen = rxen]}) :
                eth10m' = IF rxen /\ ~eth10m.rxen THEN Eth10mFlush(s) ELSE s
      BY <1>3 DEF Eth10mWriteEcon1
  <2>2. PICK e : e = [eth10m EXCEPT !.rxen = rxen]
      OBVIOUS
  <2>3. Eth10mSound(e) /\ Eth10mSameLink(eth10m, e)
      BY <1>0, <2>2 DEF Eth10mSound, Eth10mSameLink, Eth10mState
  <2>4. PICK s \in (IF txrts THEN Eth10mTransmit(e) ELSE {e}) :
            eth10m' = IF rxen /\ ~eth10m.rxen THEN Eth10mFlush(s) ELSE s
      BY <2>1, <2>2
  <2>5. Eth10mSound(s) /\ Eth10mSameLink(e, s)
      <3>1. CASE ~txrts
          BY <2>3, <2>4, <3>1 DEF Eth10mSameLink
      <3>2. CASE txrts
          <4>1. PICK f \in {"TXIF", "TXERIF"} : s = [e EXCEPT !.eir = @ \cup {f}]
              BY <2>4, <3>2 DEF Eth10mTransmit
          <4> QED
              BY <2>3, <4>1 DEF Eth10mSound, Eth10mSameLink, Eth10mState, Eth10mFlags
      <3> QED
          BY <3>1, <3>2
  <2>6. Eth10mSound(eth10m') /\ Eth10mSameLink(s, eth10m')
      BY <2>4, <2>5, Eth10mFlushKeeps DEF Eth10mSameLink
  <2>7. Eth10mSameLink(eth10m, eth10m')
      BY <2>3, <2>5, <2>6 DEF Eth10mSameLink
  <2> QED
      BY <2>6, <2>7, Eth10mCarries
<1>4. CASE Eth10mWriteErxst
  <2>1. PICK fits \in BOOLEAN :
            eth10m' = Eth10mUnstash([eth10m EXCEPT !.fits = fits, !.half = FALSE])
      BY <1>4 DEF Eth10mWriteErxst
  <2>2. PICK e : e = [eth10m EXCEPT !.fits = fits, !.half = FALSE]
      OBVIOUS
  <2>3. e \in Eth10mState /\ Eth10mSameLink(eth10m, e) /\ (e.unread => "RXIF" \in e.eir)
      BY <1>0, <2>2 DEF Eth10mSound, Eth10mSameLink, Eth10mState
  <2>4. CASE e.stash /\ e.fits
    <3>1. eth10m' = [e EXCEPT !.stash = FALSE, !.unread = TRUE, !.eir = @ \cup {"RXIF"}]
        BY <2>1, <2>2, <2>3, <2>4 DEF Eth10mUnstash, Eth10mStore, Eth10mState
    <3>2. Eth10mSound(eth10m') /\ Eth10mSameLink(eth10m, eth10m')
        BY <2>3, <3>1 DEF Eth10mSound, Eth10mSameLink, Eth10mState, Eth10mFlags
    <3> QED
        BY <3>2, Eth10mCarries
  <2>5. CASE ~(e.stash /\ e.fits)
    <3>1. eth10m' = e
        BY <2>1, <2>2, <2>5 DEF Eth10mUnstash
    <3>2. Eth10mSound(eth10m') /\ Eth10mSameLink(eth10m, eth10m')
        BY <2>3, <2>5, <3>1 DEF Eth10mSound, Eth10mState
    <3> QED
        BY <3>2, Eth10mCarries
  <2> QED
      BY <2>4, <2>5
<1>10. CASE Eth10mWriteErxstHigh
  <2>1. PICK fits \in BOOLEAN :
            eth10m' = [eth10m EXCEPT !.fits = fits, !.half = eth10m.stash /\ fits]
      BY <1>10 DEF Eth10mWriteErxstHigh
  <2>2. (eth10m.stash /\ fits) \in BOOLEAN
      OBVIOUS
  <2>3. Eth10mSound(eth10m') /\ Eth10mSameLink(eth10m, eth10m')
      BY <1>0, <2>1, <2>2 DEF Eth10mSound, Eth10mSameLink, Eth10mState
  <2> QED
      BY <2>3, Eth10mCarries
<1>5. CASE Eth10mPacket
  <2>1. CASE eth10m.rxen /\ ~eth10m.stash
      BY <1>0, <1>5, <2>1, Eth10mReceiveKeeps, Eth10mCarries DEF Eth10mPacket
  <2>2. CASE ~(eth10m.rxen /\ ~eth10m.stash)
    <3>1. eth10m.queued < Eth10mQueue /\ eth10m' = [eth10m EXCEPT !.queued = @ + 1]
        BY <1>5, <2>2 DEF Eth10mPacket
    <3>2. Eth10mSound(eth10m') /\ Eth10mSameLink(eth10m, eth10m')
        BY <1>0, <3>1, Eth10mAssumption DEF Eth10mSound, Eth10mSameLink, Eth10mState
    <3> QED
        BY <3>2, Eth10mCarries
  <2> QED
      BY <2>1, <2>2
<1>6. CASE Eth10mWritePhy
  <2>1. PICK reset \in BOOLEAN : Eth10mPhyWrite(reset)
      BY <1>6 DEF Eth10mWritePhy
  <2>2. CASE reset
    <3>1. PICK f :
            f = [eth10m EXCEPT !.bmcr = "reset", !.upIn = Eth10mResetDelay, !.announced = FALSE,
                               !.ringsIn = Eth10mResetDelay + Eth10mSlack, !.pending = TRUE]
        OBVIOUS
    <3>2. eth10m' = f
        BY <2>1, <2>2, <3>1 DEF Eth10mPhyWrite
    <3>3. Eth10mSound(f) /\ Eth10mPunctual(f)
        BY <1>0, <3>1, Eth10mPhyKeeps
    <3> QED
        BY <3>2, <3>3, Eth10mInParts
  <2>3. CASE ~reset
    <3>1. eth10m' = [eth10m EXCEPT !.bmcr = "written"]
        BY <2>1, <2>3 DEF Eth10mPhyWrite
    <3>2. Eth10mSound(eth10m') /\ Eth10mSameLink(eth10m, eth10m')
        BY <1>0, <3>1 DEF Eth10mSound, Eth10mSameLink, Eth10mState
    <3> QED
        BY <3>2, Eth10mCarries
  <2> QED
      BY <2>2, <2>3
<1>7. CASE Eth10mTick
  <2>1. PICK f : f = [eth10m EXCEPT !.upIn = IF @ = 0 THEN 0 ELSE @ - 1,
                                    !.ringsIn = IF @ = 0 THEN 0 ELSE @ - 1]
      OBVIOUS
  <2>2. eth10m' = f
      BY <1>7, <2>1 DEF Eth10mTick
  <2>3. Eth10mSound(f) /\ Eth10mPunctual(f)
      BY <1>0, <2>1, Eth10mInParts, Eth10mTickKeeps
  <2> QED
      BY <2>2, <2>3, Eth10mInParts
<1>8. CASE Eth10mLinkTimer
  <2>1. PICK f : f = [eth10m EXCEPT !.pending = FALSE, !.announced = TRUE,
                                    !.eir = IF eth10m.announced THEN @ ELSE @ \cup {"LINKIF"}]
      OBVIOUS
  <2>2. eth10m' = f /\ eth10m.pending /\ eth10m.ringsIn = 0
      BY <1>8, <2>1 DEF Eth10mLinkTimer
  <2>3. Eth10mSound(f) /\ Eth10mPunctual(f)
      BY <1>0, <2>1, <2>2, Eth10mInParts, Eth10mRingKeeps
  <2> QED
      BY <2>2, <2>3, Eth10mInParts
<1> USE DEF Eth10mInv, Eth10mTypeOK, Eth10mFrameTold, Eth10mLinkInTime, Eth10mState,
            Eth10mLinkUp, Eth10mFlags, Eth10mDelays, Eth10mUpDelay, Eth10mResetDelay,
            Eth10mSlack
<1>9. CASE Eth10mMachineReset
    BY <1>9 DEF Eth10mMachineReset, Eth10mReset
<1> QED
    BY <1>1, <1>2, <1>3, <1>4, <1>5, <1>6, <1>7, <1>8, <1>9, <1>10
    DEF Eth10mNext, Eth10mRegisters, Eth10mWorld

LEMMA Eth10mStarts == Eth10mInit => Eth10mInv
    BY Eth10mAssumption
    DEF Eth10mInit, Eth10mReset, Eth10mInv, Eth10mTypeOK, Eth10mFrameTold, Eth10mLinkInTime,
        Eth10mState, Eth10mLinkUp, Eth10mFlags, Eth10mDelays, Eth10mUpDelay,
        Eth10mResetDelay, Eth10mSlack

-----------------------------------------------------------------------------
(***************************************************************************)
(* The clocks.                                                             *)
(***************************************************************************)

RccShape(r) == r = [ctlr |-> r.ctlr, cfgr0 |-> r.cfgr0, told |-> r.told]
RccInv == RccShape(rcc) /\ RccTimersKnowClock

\* The frequencies depend on nothing but the fields of the mask.
LEMMA RccSameClocks ==
    ASSUME NEW c, NEW d, \A f \in RccClockFields : d[f] = c[f]
    PROVE  RccClocks(d) = RccClocks(c)
<1>1. d.sw = c.sw /\ d.hpre = c.hpre /\ d.ppre1 = c.ppre1 /\ d.pllsrc = c.pllsrc
      /\ d.pllmul = c.pllmul
    BY DEF RccClockFields
<1>2. RccSysclk(d) = RccSysclk(c)
    BY <1>1 DEF RccSysclk
<1>3. RccHclk(d) = RccHclk(c)
    BY <1>1, <1>2 DEF RccHclk
<1>4. RccPclk1(d) = RccPclk1(c)
    BY <1>1, <1>3 DEF RccPclk1
<1> QED
    BY <1>3, <1>4 DEF RccClocks

LEMMA RccKeeps == RccInv /\ RccNext => RccInv'
<1> SUFFICES ASSUME RccInv, RccNext
             PROVE  RccInv'
    OBVIOUS
<1>0. RccShape(rcc) /\ rcc.told = RccClocks(rcc.cfgr0)
    BY DEF RccInv, RccTimersKnowClock
<1>1. CASE RccWriteCtlr
  <2>1. PICK bits : rcc' = [rcc EXCEPT !.ctlr = bits]
      BY <1>1 DEF RccWriteCtlr
  <2>2. RccShape(rcc') /\ rcc'.cfgr0 = rcc.cfgr0 /\ rcc'.told = rcc.told
      BY <1>0, <2>1 DEF RccShape
  <2> QED
      BY <1>0, <2>2 DEF RccInv, RccTimersKnowClock
<1>2. CASE RccWriteCfgr0
  <2>1. PICK new :
            rcc' = [rcc EXCEPT
                !.cfgr0 = new,
                !.told = IF \E f \in RccClockFields : new[f] # rcc.cfgr0[f]
                         THEN RccClocks(new) ELSE @]
      BY <1>2 DEF RccWriteCfgr0
  <2>2. RccShape(rcc') /\ rcc'.cfgr0 = new
        /\ rcc'.told = IF \E f \in RccClockFields : new[f] # rcc.cfgr0[f]
                       THEN RccClocks(new) ELSE rcc.told
      BY <1>0, <2>1 DEF RccShape
  <2>3. rcc'.told = RccClocks(new)
      BY <1>0, <2>2, RccSameClocks
  <2> QED
      BY <2>2, <2>3 DEF RccInv, RccTimersKnowClock
<1>3. CASE RccMachineReset
    BY <1>3 DEF RccMachineReset, RccPowerOn, RccInv, RccShape, RccTimersKnowClock
<1> QED
    BY <1>1, <1>2, <1>3 DEF RccNext, RccRegisters

LEMMA RccStarts == RccInit => RccInv
    BY DEF RccInit, RccPowerOn, RccInv, RccShape, RccTimersKnowClock

-----------------------------------------------------------------------------
(***************************************************************************)
(* The watchdog.                                                           *)
(***************************************************************************)

DogTyped(d) ==
    /\ d.pscr \in 0 .. 7 /\ d.rldr \in Nat /\ d.left \in Nat
    /\ d.enabled \in BOOLEAN /\ d.unlock \in BOOLEAN /\ d.clearing \in BOOLEAN
    /\ d.asked \in BOOLEAN
DogShape(d) ==
    d = [pscr |-> d.pscr, rldr |-> d.rldr, enabled |-> d.enabled, unlock |-> d.unlock,
         statr |-> d.statr, clearing |-> d.clearing, left |-> d.left, asked |-> d.asked,
         wwdg |-> d.wwdg]
DogInv == DogShape(dog) /\ DogTyped(dog) /\ DogWatches

\* A timeout is at least one tick, whatever the parameters.
LEMMA DogDivides == \A p \in 0 .. 7 : DogDivider(p) \in Nat \ {0}
<1> TAKE p \in 0 .. 7
<1>1. << 1, 2, 4, 8, 16, 32, 64, 64 >> \in [1 .. 8 -> Nat \ {0}]
    OBVIOUS
<1> QED
    BY <1>1 DEF DogDivider

LEMMA DogMul == \A r \in Nat, d \in Nat \ {0} : (r + 1) * d \in Nat \ {0}
    BY Z3

LEMMA DogTakesTime == \A p \in 0 .. 7, r \in Nat : DogTimeout(p, r) \in Nat \ {0}
    BY DogDivides, DogMul DEF DogTimeout
LEMMA DogMaxReloadIsOne == DogMaxReload \in Nat
    BY DogAssumption DEF DogMaxReload

\* The invariant, of a state that is not the present one.
DogSound(d) ==
    /\ d.enabled => d.left # 0 \/ d.asked
    /\ ~d.enabled => d.left = 0
    /\ d.left <= DogTimeout(d.pscr, d.rldr)
    /\ d.statr # {} => d.clearing

LEMMA DogInParts ==
    /\ DogInv <=> DogShape(dog) /\ DogTyped(dog) /\ DogSound(dog)
    /\ DogInv' <=> DogShape(dog') /\ DogTyped(dog') /\ DogSound(dog')
    BY DEF DogInv, DogSound, DogWatches, DogIdle

LEMMA DogStarts == DogInit => DogInv
<1> SUFFICES ASSUME DogInit
             PROVE  DogInv
    OBVIOUS
<1>1. dog.pscr = 0 /\ dog.rldr = DogMaxReload /\ dog.left = 0 /\ dog.statr = {}
      /\ ~dog.enabled /\ ~dog.asked /\ DogShape(dog)
    BY DEF DogInit, DogPowerOn, DogShape, DogIdle
<1>2. DogTyped(dog)
    BY DogMaxReloadIsOne DEF DogInit, DogPowerOn, DogTyped, DogIdle
<1>3. DogTimeout(0, DogMaxReload) \in Nat
    BY DogMaxReloadIsOne, DogTakesTime
<1> QED
    BY <1>1, <1>2, <1>3, DogInParts DEF DogSound

LEMMA DogKeeps == DogInv /\ DogNext => DogInv'
<1> SUFFICES ASSUME DogInv, DogNext
             PROVE  DogInv'
    OBVIOUS
<1>0. DogShape(dog) /\ DogTyped(dog) /\ DogSound(dog)
    BY DogInParts
<1>t. DogTimeout(dog.pscr, dog.rldr) \in Nat \ {0}
    BY <1>0, DogTakesTime DEF DogTyped
<1>1. CASE DogUnlock
    BY <1>0, <1>1, DogInParts DEF DogUnlock, DogShape, DogTyped, DogSound
<1>2. CASE DogReload
  <2>1. DogShape(dog') /\ dog'.left = DogReloaded(dog.enabled) /\ dog'.enabled = dog.enabled
        /\ dog'.pscr = dog.pscr /\ dog'.rldr = dog.rldr /\ dog'.statr = dog.statr
        /\ dog'.clearing = dog.clearing /\ dog'.unlock = dog.unlock /\ dog'.asked = dog.asked
      BY <1>0, <1>2 DEF DogReload, DogShape
  <2> QED
      BY <1>0, <1>t, <2>1, DogInParts DEF DogReloaded, DogTyped, DogSound
<1>3. CASE DogEnable
  <2>1. DogShape(dog') /\ dog'.left = DogTimeout(dog.pscr, dog.rldr) /\ dog'.enabled = TRUE
        /\ dog'.pscr = dog.pscr /\ dog'.rldr = dog.rldr /\ dog'.statr = dog.statr
        /\ dog'.clearing = dog.clearing /\ dog'.unlock = FALSE /\ dog'.asked = dog.asked
      BY <1>0, <1>3 DEF DogEnable, DogReloaded, DogShape
  <2>7. DogTyped(dog')
      BY <1>0, <1>t, <2>1 DEF DogTyped
  <2>8. DogTimeout(dog'.pscr, dog'.rldr) = DogTimeout(dog.pscr, dog.rldr)
      BY <2>1
  <2>9. DogSound(dog')
      BY <1>0, <1>t, <2>1, <2>8 DEF DogTyped, DogSound
  <2> QED
      BY <2>1, <2>7, <2>9, DogInParts
<1>4. CASE DogWritePscr
  <2>1. PICK p \in DogPrescalers :
            dog' = [dog EXCEPT !.pscr = p, !.statr = @ \cup {"PVU"}, !.clearing = TRUE]
      BY <1>4 DEF DogWritePscr
  <2>2. DogShape(dog') /\ dog'.pscr = p /\ dog'.clearing = TRUE /\ dog'.left = dog.left
        /\ dog'.enabled = dog.enabled /\ dog'.rldr = dog.rldr /\ dog'.unlock = dog.unlock
        /\ dog'.asked = dog.asked
      BY <1>0, <2>1 DEF DogShape
  <2>3. ~dog.enabled /\ dog.left = 0
      BY <1>0, <1>4 DEF DogWritePscr, DogOpen, DogSound
  <2>4. p \in 0 .. 7 /\ DogTimeout(p, dog.rldr) \in Nat
      BY <1>0, DogAssumption, DogTakesTime DEF DogTyped
  <2>7. DogTyped(dog')
      BY <1>0, <2>2, <2>3, <2>4 DEF DogTyped
  <2>8. DogTimeout(dog'.pscr, dog'.rldr) = DogTimeout(p, dog.rldr)
      BY <2>2
  <2>9. DogSound(dog')
      BY <1>0, <1>t, <2>2, <2>3, <2>4, <2>8 DEF DogTyped, DogSound
  <2> QED
      BY <2>2, <2>7, <2>9, DogInParts
<1>5. CASE DogWriteRldr
  <2>1. PICK r \in DogReloads :
            dog' = [dog EXCEPT !.rldr = r, !.statr = @ \cup {"RVU"}, !.clearing = TRUE]
      BY <1>5 DEF DogWriteRldr
  <2>2. DogShape(dog') /\ dog'.rldr = r /\ dog'.clearing = TRUE /\ dog'.left = dog.left
        /\ dog'.enabled = dog.enabled /\ dog'.pscr = dog.pscr /\ dog'.unlock = dog.unlock
        /\ dog'.asked = dog.asked
      BY <1>0, <2>1 DEF DogShape
  <2>3. ~dog.enabled /\ dog.left = 0
      BY <1>0, <1>5 DEF DogWriteRldr, DogOpen, DogSound
  <2>4. r \in Nat /\ DogTimeout(dog.pscr, r) \in Nat
      BY <1>0, DogAssumption, DogTakesTime DEF DogTyped
  <2>7. DogTyped(dog')
      BY <1>0, <2>2, <2>3, <2>4 DEF DogTyped
  <2>8. DogTimeout(dog'.pscr, dog'.rldr) = DogTimeout(dog.pscr, r)
      BY <2>2
  <2>9. DogSound(dog')
      BY <1>0, <1>t, <2>2, <2>3, <2>4, <2>8 DEF DogTyped, DogSound
  <2> QED
      BY <2>2, <2>7, <2>9, DogInParts
<1>6. CASE DogWriteWwdg
  <2>1. PICK w : dog' = [dog EXCEPT !.wwdg = w]
    <3>1. CASE \E bits \in SUBSET {"WDGA", "T6"} : dog' = [dog EXCEPT !.wwdg.ctlr = bits \ {"WDGA"}]
        BY <3>1
    <3>2. CASE \E bits \in SUBSET {"EWI"} : dog' = [dog EXCEPT !.wwdg.cfgr = bits]
        BY <3>2
    <3>3. CASE \E one \in BOOLEAN : dog' = [dog EXCEPT !.wwdg.ewif = @ /\ one]
        BY <3>3
    <3> QED
        BY <1>6, <3>1, <3>2, <3>3 DEF DogWriteWwdg
  <2>2. DogShape(dog') /\ dog'.left = dog.left /\ dog'.enabled = dog.enabled
        /\ dog'.pscr = dog.pscr /\ dog'.rldr = dog.rldr /\ dog'.statr = dog.statr
        /\ dog'.clearing = dog.clearing /\ dog'.unlock = dog.unlock /\ dog'.asked = dog.asked
      BY <1>0, <2>1 DEF DogShape
  <2> QED
      BY <1>0, <2>2, DogInParts DEF DogTyped, DogSound
<1>7. CASE DogFlagsClear
    BY <1>0, <1>7, DogInParts DEF DogFlagsClear, DogShape, DogTyped, DogSound
<1>8. CASE DogTick
  <2>1. DogShape(dog') /\ dog'.left = dog.left - 1 /\ dog'.enabled = dog.enabled
        /\ dog'.pscr = dog.pscr /\ dog'.rldr = dog.rldr /\ dog'.statr = dog.statr
        /\ dog'.clearing = dog.clearing /\ dog'.unlock = dog.unlock /\ dog'.asked = dog.asked
        /\ dog.left > 1
      BY <1>0, <1>8 DEF DogTick, DogShape
  <2>7. DogTyped(dog')
      BY <1>0, <2>1 DEF DogTyped
  <2>8. DogTimeout(dog'.pscr, dog'.rldr) = DogTimeout(dog.pscr, dog.rldr)
      BY <2>1
  <2>9. DogSound(dog')
      BY <1>0, <1>t, <2>1, <2>8 DEF DogTyped, DogSound
  <2> QED
      BY <2>1, <2>7, <2>9, DogInParts
<1>9. CASE DogFire
  <2>1. DogShape(dog') /\ dog'.left = 0 /\ dog'.enabled = dog.enabled
        /\ dog'.pscr = dog.pscr /\ dog'.rldr = dog.rldr /\ dog'.statr = dog.statr
        /\ dog'.clearing = dog.clearing /\ dog'.unlock = dog.unlock /\ dog'.asked = TRUE
      BY <1>0, <1>9 DEF DogFire, DogShape, DogIdle
  <2>5. dog'.left \in Nat
      BY <2>1
  <2>6. dog'.asked \in BOOLEAN
      BY <2>1
  <2>7. DogTyped(dog')
      BY <1>0, <2>1, <2>5, <2>6 DEF DogTyped
  <2>8. DogTimeout(dog'.pscr, dog'.rldr) = DogTimeout(dog.pscr, dog.rldr)
      BY <2>1
  <2>9. DogSound(dog')
      BY <1>0, <1>t, <2>1, <2>8 DEF DogTyped, DogSound
  <2> QED
      BY <2>1, <2>7, <2>9, DogInParts
<1>10. CASE DogMachineReset
  <2>1. dog'.pscr = 0 /\ dog'.rldr = DogMaxReload /\ dog'.left = 0 /\ dog'.statr = {}
        /\ ~dog'.enabled /\ ~dog'.asked /\ DogShape(dog')
      BY <1>10 DEF DogMachineReset, DogPowerOn, DogShape, DogIdle
  <2>2. DogTyped(dog')
      BY <1>10, DogMaxReloadIsOne DEF DogMachineReset, DogPowerOn, DogTyped, DogIdle
  <2>3. DogTimeout(0, DogMaxReload) \in Nat
      BY DogMaxReloadIsOne, DogTakesTime
  <2> QED
      BY <2>1, <2>2, <2>3, DogInParts DEF DogSound
<1>11. CASE DogRegisters
    BY <1>1, <1>2, <1>3, <1>4, <1>5, <1>6, <1>11 DEF DogRegisters
<1> QED
    BY <1>7, <1>8, <1>9, <1>10, <1>11 DEF DogNext

-----------------------------------------------------------------------------
(***************************************************************************)
(* The flash controller.                                                   *)
(***************************************************************************)

\* What one step may do to the data.
FlashGuards ==
    /\ \A s \in flash.data \ flash'.data : flash.unlocked /\ ~FlashProtected(s)
    /\ "WRPRTERR" \in flash'.statr \ flash.statr => flash'.data = flash.data

FlashShape(f) ==
    f = [data |-> f.data, wpr |-> f.wpr, addr |-> f.addr, shown |-> f.shown,
         unlocked |-> f.unlocked, key |-> f.key, obkey |-> f.obkey, statr |-> f.statr]

\* What an erase takes lies in its area, and a refused one takes nothing.
LEMMA FlashEraseSpares ==
    ASSUME NEW area, NEW gone, gone \subseteq area
    PROVE  /\ \A s \in flash.data \ FlashErase(area, gone).data : ~FlashProtected(s)
           /\ "WRPRTERR" \in FlashErase(area, gone).statr \ flash.statr
                  => FlashErase(area, gone).data = flash.data
    BY DEF FlashErase

LEMMA FlashOperationSpares ==
    ASSUME NEW bits, NEW page \in SUBSET FlashSectorArea
    PROVE  /\ \A s \in flash.data \ FlashOperation(bits, page).data : ~FlashProtected(s)
           /\ "WRPRTERR" \in FlashOperation(bits, page).statr \ flash.statr
                  => FlashOperation(bits, page).data = flash.data
<1> DEFINE done == [data |-> flash.data, statr |-> flash.statr \cup {"EOP"}]
<1>1. PICK o : o = FlashOperation(bits, page)
    OBVIOUS
<1>2. \/ o = FlashErase(FlashSector, FlashSector)
      \/ o = FlashErase(FlashBlockArea, FlashBlockArea)
      \/ o = FlashErase(FlashSectorArea, FlashSectorArea)
      \/ o = FlashErase(FlashSectorArea, page)
      \/ o = done
    BY <1>1 DEF FlashOperation
<1>3. CASE o = done
    BY <1>1, <1>3
<1>4. CASE o # done
    BY <1>1, <1>2, <1>4, FlashEraseSpares
<1> QED
    BY <1>3, <1>4

LEMMA FlashStepGuards == FlashShape(flash) /\ FlashNext => FlashShape(flash') /\ FlashGuards
<1> SUFFICES ASSUME FlashShape(flash), FlashNext
             PROVE  FlashShape(flash') /\ FlashGuards
    OBVIOUS
<1>1. CASE FlashWriteCtlr
  <2>1. PICK bits \in FlashWords, page \in SUBSET FlashSectorArea :
            flash' = [flash EXCEPT
                !.unlocked = @ /\ "LOCK" \notin bits,
                !.data = (IF FlashStarts(bits) THEN FlashOperation(bits, page)
                          ELSE [data |-> flash.data, statr |-> flash.statr]).data,
                !.statr = (IF FlashStarts(bits) THEN FlashOperation(bits, page)
                           ELSE [data |-> flash.data, statr |-> flash.statr]).statr
                               \cup (IF "PG_STRT" \in bits THEN {"EOP"} ELSE {}),
                !.shown = IF "LOCK" \in bits THEN {"LOCK"} ELSE bits \cap {"OPTWRE"}]
      BY <1>1 DEF FlashWriteCtlr
  <2>2. PICK o : o = IF FlashStarts(bits) THEN FlashOperation(bits, page)
                     ELSE [data |-> flash.data, statr |-> flash.statr]
      OBVIOUS
  <2>3. FlashShape(flash') /\ flash'.data = o.data
        /\ flash'.statr = o.statr \cup (IF "PG_STRT" \in bits THEN {"EOP"} ELSE {})
      BY <2>1, <2>2 DEF FlashShape
  <2>4. CASE FlashStarts(bits)
    <3>1. flash.unlocked
        BY <2>4 DEF FlashStarts
    <3>2. o = FlashOperation(bits, page)
        BY <2>2, <2>4
    <3> QED
        BY <2>3, <3>1, <3>2, FlashOperationSpares DEF FlashGuards
  <2>5. CASE ~FlashStarts(bits)
      BY <2>2, <2>3, <2>5 DEF FlashGuards
  <2> QED
      BY <2>4, <2>5
<1>2. CASE FlashWriteKey
    BY <1>2 DEF FlashWriteKey, FlashShape, FlashGuards
<1>3. CASE FlashWriteObkey
    BY <1>3 DEF FlashWriteObkey, FlashShape, FlashGuards
<1>4. CASE FlashWriteStatr
    BY <1>4 DEF FlashWriteStatr, FlashShape, FlashGuards
<1>5. CASE FlashWriteAddr
    BY <1>5 DEF FlashWriteAddr, FlashShape, FlashGuards
<1>6. CASE FlashWriteWpr
    BY <1>6 DEF FlashWriteWpr, FlashShape, FlashGuards
<1>7. CASE FlashStore
    BY <1>7 DEF FlashStore, FlashShape, FlashGuards
<1>8. CASE FlashMachineReset
    BY <1>8 DEF FlashMachineReset, FlashReset, FlashShape, FlashGuards
<1> QED
    BY <1>1, <1>2, <1>3, <1>4, <1>5, <1>6, <1>7, <1>8 DEF FlashNext, FlashRegisters

LEMMA FlashComesUp == FlashInit => FlashShape(flash)
    BY DEF FlashInit, FlashReset, FlashShape

-----------------------------------------------------------------------------
(***************************************************************************)
(* The board: each of its steps is one of the unit's, or leaves the unit   *)
(* alone.                                                                  *)
(***************************************************************************)

LEMMA BoardStepsUsb == [BoardNext]_boardVars => (UsbCore \/ UsbRegisters \/ UsbMachineReset) \/ UNCHANGED usb
    BY DEF BoardNext, boardVars, FlashStep, DogStep, BackupStep, RccStep, I2cStep, SpiStep, PinsStep, SmallStep, PlainStep,
           UsbStep, Eth10mStep, DmaStep, LiteStep, PhyStep, HartStep, XwStep, McpyStep, BusStep,
           BootStep, BoardReset

LEMMA BoardStepsEth10m == [BoardNext]_boardVars => (Eth10mNext) \/ UNCHANGED eth10m
    BY DEF BoardNext, boardVars, FlashStep, DogStep, BackupStep, RccStep, I2cStep, SpiStep, PinsStep, SmallStep, PlainStep,
           UsbStep, Eth10mStep, DmaStep, LiteStep, PhyStep, HartStep, XwStep, McpyStep, BusStep,
           BootStep, BoardReset, Eth10mNext

LEMMA BoardStepsRcc == [BoardNext]_boardVars => (RccNext) \/ UNCHANGED rcc
    BY DEF BoardNext, boardVars, FlashStep, DogStep, BackupStep, RccStep, I2cStep, SpiStep, PinsStep, SmallStep, PlainStep,
           UsbStep, Eth10mStep, DmaStep, LiteStep, PhyStep, HartStep, XwStep, McpyStep, BusStep,
           BootStep, BoardReset, RccNext

LEMMA BoardStepsDog == [BoardNext]_boardVars => (DogNext) \/ UNCHANGED dog
    BY DEF BoardNext, boardVars, FlashStep, DogStep, BackupStep, RccStep, I2cStep, SpiStep, PinsStep, SmallStep, PlainStep,
           UsbStep, Eth10mStep, DmaStep, LiteStep, PhyStep, HartStep, XwStep, McpyStep, BusStep,
           BootStep, BoardReset, DogNext

LEMMA BoardStepsFlash == [BoardNext]_boardVars => (FlashNext) \/ UNCHANGED flash
    BY DEF BoardNext, boardVars, FlashStep, DogStep, BackupStep, RccStep, I2cStep, SpiStep, PinsStep, SmallStep, PlainStep,
           UsbStep, Eth10mStep, DmaStep, LiteStep, PhyStep, HartStep, XwStep, McpyStep, BusStep,
           BootStep, BoardReset, FlashNext

LEMMA BoardStarts ==
    BoardInit => UsbInit /\ Eth10mInit /\ RccInit /\ DogInit /\ FlashInit
    BY DEF BoardInit

LEMMA BoardUsbInv == BoardSpec => []UsbInv
<1>1. BoardInit => UsbInv
    BY BoardStarts, UsbStarts
<1>2. UsbInv /\ [BoardNext]_boardVars => UsbInv'
  <2>1. UsbInv /\ UNCHANGED usb => UsbInv'
      BY DEF UsbInv, UsbTypeOK, UsbRequestKept, UsbDeviceAnnounced, UsbTokens
  <2> QED
      BY <2>1, BoardStepsUsb, UsbCoreKeeps, UsbRegistersKeep
<1> QED
    BY <1>1, <1>2, PTL DEF BoardSpec

LEMMA BoardEth10mInv == BoardSpec => []Eth10mInv
<1>1. BoardInit => Eth10mInv
    BY BoardStarts, Eth10mStarts
<1>2. Eth10mInv /\ [BoardNext]_boardVars => Eth10mInv'
  <2>1. Eth10mInv /\ UNCHANGED eth10m => Eth10mInv'
      BY DEF Eth10mInv, Eth10mTypeOK, Eth10mFrameTold, Eth10mLinkInTime, Eth10mLinkUp
  <2> QED
      BY <2>1, BoardStepsEth10m, Eth10mKeeps
<1> QED
    BY <1>1, <1>2, PTL DEF BoardSpec

LEMMA BoardRccInv == BoardSpec => []RccInv
<1>1. BoardInit => RccInv
    BY BoardStarts, RccStarts
<1>2. RccInv /\ [BoardNext]_boardVars => RccInv'
  <2>1. RccInv /\ UNCHANGED rcc => RccInv'
      BY DEF RccInv, RccShape, RccTimersKnowClock
  <2> QED
      BY <2>1, BoardStepsRcc, RccKeeps
<1> QED
    BY <1>1, <1>2, PTL DEF BoardSpec

LEMMA BoardDogInv == BoardSpec => []DogInv
<1>1. BoardInit => DogInv
    BY BoardStarts, DogStarts
<1>2. DogInv /\ [BoardNext]_boardVars => DogInv'
  <2>1. DogInv /\ UNCHANGED dog => DogInv'
      BY DEF DogInv, DogShape, DogTyped, DogWatches
  <2> QED
      BY <2>1, BoardStepsDog, DogKeeps
<1> QED
    BY <1>1, <1>2, PTL DEF BoardSpec

LEMMA BoardFlashShaped == BoardSpec => []FlashShape(flash)
<1>1. BoardInit => FlashShape(flash)
    BY BoardStarts, FlashComesUp
<1>2. FlashShape(flash) /\ [BoardNext]_boardVars => FlashShape(flash)'
  <2>1. FlashShape(flash) /\ UNCHANGED flash => FlashShape(flash')
      BY DEF FlashShape
  <2> QED
      BY <2>1, BoardStepsFlash, FlashStepGuards
<1> QED
    BY <1>1, <1>2, PTL DEF BoardSpec

\* No USB request is lost: one that was never answered is in flight, and what
\* is in flight or shown as an answer was asked for since the last machine
\* reset, whatever requests, cancellations and late completions came between.
THEOREM BoardUsbRequestKept == BoardSpec => []UsbRequestKept
<1>1. UsbInv => UsbRequestKept
    BY DEF UsbInv
<1> QED
    BY <1>1, BoardUsbInv, PTL

\* A USB device on the port shows as attached and as DETECT, unless the
\* firmware threw the news away after it last wrote the interrupt enables.
THEOREM BoardUsbDeviceAnnounced == BoardSpec => []UsbDeviceAnnounced
<1>1. UsbInv => UsbDeviceAnnounced
    BY DEF UsbInv
<1> QED
    BY <1>1, BoardUsbInv, PTL

\* The 10M controller's one buffer and the stash behind it lose no place:
\* a packet is stashed only while ERXST has no room, and an unread packet in
\* memory shows as RXIF, for every queue of the network peer.
THEOREM BoardEth10mFrameTold == BoardSpec => []Eth10mFrameTold
<1>1. Eth10mInv => Eth10mFrameTold
    BY DEF Eth10mInv
<1> QED
    BY <1>1, BoardEth10mInv, PTL

\* The 10M link is announced after it is up and not missed, however often
\* the firmware resets the PHY.
THEOREM BoardEth10mLinkInTime == BoardSpec => []Eth10mLinkInTime
<1>1. Eth10mInv => Eth10mLinkInTime
    BY DEF Eth10mInv
<1> QED
    BY <1>1, BoardEth10mInv, PTL

\* For all oscillators and field values, SysTick and the timers count at
\* the frequencies that CFGR0 selects.
THEOREM BoardRccTimersKnowClock == BoardSpec => []RccTimersKnowClock
<1>1. RccInv => RccTimersKnowClock
    BY DEF RccInv
<1> QED
    BY <1>1, BoardRccInv, PTL

\* For all prescalers and reload values, an enabled watchdog has its timer
\* pending, within the timeout of its parameters, or has asked for the reset.
THEOREM BoardDogWatches == BoardSpec => []DogWatches
<1>1. DogInv => DogWatches
    BY DEF DogInv
<1> QED
    BY <1>1, BoardDogInv, PTL

\* For every number of sectors, block size and set of words written to CTLR:
\* data leaves the flash only through an open controller and never from a
\* protected sector, and an erase that protection refuses takes nothing.
THEOREM BoardFlashProtects == BoardSpec => FlashProtects
<1>1. FlashShape(flash) /\ [BoardNext]_boardVars => [FlashGuards]_flash
    BY BoardStepsFlash, FlashStepGuards
<1>2. BoardSpec => [][FlashGuards]_flash
    BY <1>1, BoardFlashShaped, PTL DEF BoardSpec
<1> QED
    BY <1>2 DEF FlashProtects, FlashGuards

-----------------------------------------------------------------------------
(***************************************************************************)
(* The light USARTs.                                                       *)
(***************************************************************************)

\* The remainders of the ring, written out: how many cells are taken, and the
\* cell of the i-th byte.
LiteFill(h, t) == IF t >= h THEN t - h ELSE t - h + LiteDepth
LitePlace(h, i) == IF h + i - 1 < LiteDepth THEN h + i - 1 ELSE h + i - 1 - LiteDepth

LEMMA LiteArithmetic ==
    /\ LiteDepth \in Nat \ {0}
    /\ \A h, t \in LiteCells : (t + LiteDepth - h) % LiteDepth = LiteFill(h, t)
    /\ \A h \in LiteCells, i \in 1 .. LiteDepth :
           (h + i - 1) % LiteDepth = LitePlace(h, i)
    /\ \A c \in LiteCells :
           /\ LiteNext1(c) = IF c = LiteDepth - 1 THEN 0 ELSE c + 1
           /\ LiteNext1(c) \in LiteCells
<1>1. LiteDepth \in Nat \ {0}
    BY LiteAssumption
<1>2. ASSUME NEW a \in 0 .. 2 * LiteDepth - 1
      PROVE  a % LiteDepth = IF a < LiteDepth THEN a ELSE a - LiteDepth
  <2>1. CASE a < LiteDepth
    <3>1. a \in 0 .. LiteDepth - 1
        BY <1>1, <2>1
    <3> QED
        BY <1>1, <2>1, <3>1, ModSmall
  <2>2. CASE a >= LiteDepth
    <3>1. a \in LiteDepth .. 2 * LiteDepth - 1
        BY <1>1, <2>2
    <3> QED
        BY <1>1, <2>2, <3>1, ModOnce
  <2> QED
      BY <1>1, <2>1, <2>2
<1>3. ASSUME NEW h \in LiteCells, NEW t \in LiteCells
      PROVE  (t + LiteDepth - h) % LiteDepth = LiteFill(h, t)
  <2> DEFINE a == t + LiteDepth - h
  <2>1. a \in 0 .. 2 * LiteDepth - 1 /\ (a < LiteDepth <=> t < h) /\ a - LiteDepth = t - h
      BY <1>1 DEF LiteCells
  <2>2. a % LiteDepth = IF a < LiteDepth THEN a ELSE a - LiteDepth
    <3> HIDE DEF a
    <3> QED
        BY <1>2, <2>1
  <2> QED
      BY <1>1, <2>1, <2>2 DEF LiteFill, LiteCells
<1>4. ASSUME NEW h \in LiteCells, NEW i \in 1 .. LiteDepth
      PROVE  (h + i - 1) % LiteDepth = LitePlace(h, i)
  <2> DEFINE a == h + i - 1
  <2>1. a \in 0 .. 2 * LiteDepth - 1
      BY <1>1 DEF LiteCells
  <2>2. a % LiteDepth = IF a < LiteDepth THEN a ELSE a - LiteDepth
    <3> HIDE DEF a
    <3> QED
        BY <1>2, <2>1
  <2> QED
      BY <1>1, <2>1, <2>2 DEF LitePlace, LiteCells
<1>5. ASSUME NEW c \in LiteCells
      PROVE  /\ LiteNext1(c) = IF c = LiteDepth - 1 THEN 0 ELSE c + 1
             /\ LiteNext1(c) \in LiteCells
  <2> DEFINE a == c + 1
  <2>1. a \in 0 .. 2 * LiteDepth - 1 /\ (a < LiteDepth <=> c # LiteDepth - 1)
      BY <1>1 DEF LiteCells
  <2>2. a % LiteDepth = IF a < LiteDepth THEN a ELSE a - LiteDepth
    <3> HIDE DEF a
    <3> QED
        BY <1>2, <2>1
  <2>3. LiteNext1(c) = a % LiteDepth
      BY DEF LiteNext1
  <2> QED
      BY <1>1, <2>1, <2>2, <2>3 DEF LiteCells
<1> QED
    BY <1>1, <1>3, <1>4, <1>5

\* The ring with these cells holds these bytes.
LiteHolds(f, h, t, s) ==
    /\ Len(s) = LiteFill(h, t)
    /\ \A i \in 1 .. Len(s) : s[i] = f[LitePlace(h, i)]

LiteFields(u) ==
    /\ u.fifo \in [LiteCells -> LiteBytes]
    /\ u.head \in LiteCells /\ u.tail \in LiteCells
    /\ u.sent \in Seq(LiteBytes)

\* The inductive invariant.
LiteInv == LiteTypeOK /\ LiteHolds(lite.fifo, lite.head, lite.tail, lite.sent)

LEMMA LiteInvIsQueue == LiteTypeOK => (LiteInv <=> LiteRingIsQueue)
<1> SUFFICES ASSUME LiteTypeOK PROVE LiteInv <=> LiteRingIsQueue
    OBVIOUS
<1>0. lite.head \in LiteCells /\ lite.tail \in LiteCells
    BY DEF LiteTypeOK, LiteState
<1>1. LiteFill(lite.head, lite.tail) \in 0 .. LiteDepth - 1
    BY <1>0, LiteAssumption DEF LiteCells, LiteFill
<1>2. Len(lite.sent) \in Nat
    BY DEF LiteTypeOK, LiteState
<1>3. ASSUME Len(lite.sent) = LiteFill(lite.head, lite.tail), NEW i \in 1 .. Len(lite.sent)
      PROVE  (lite.head + i - 1) % LiteDepth = LitePlace(lite.head, i)
  <2>1. i \in 1 .. LiteDepth
      BY <1>1, <1>3, LiteAssumption
  <2> QED
      BY <1>0, <2>1, LiteArithmetic
<1>4. (lite.tail + LiteDepth - lite.head) % LiteDepth = LiteFill(lite.head, lite.tail)
    BY <1>0, LiteArithmetic
<1> QED
    BY <1>3, <1>4 DEF LiteInv, LiteHolds, LiteRingIsQueue

\* A byte put into a ring that is not full comes last.
LEMMA LitePutKeeps ==
    ASSUME NEW f \in [LiteCells -> LiteBytes], NEW h \in LiteCells, NEW t \in LiteCells,
           NEW s \in Seq(LiteBytes), NEW b \in LiteBytes,
           LiteHolds(f, h, t, s), LiteNext1(t) # h
    PROVE  LiteHolds([f EXCEPT ![t] = b], h, LiteNext1(t), Append(s, b))
<1> DEFINE g == [f EXCEPT ![t] = b]
           r == Append(s, b)
<1>1. LiteDepth \in Nat \ {0} /\ Len(s) \in Nat
    BY LiteArithmetic
<1>2. LiteNext1(t) = IF t = LiteDepth - 1 THEN 0 ELSE t + 1
    BY LiteArithmetic
<1>3. LiteFill(h, LiteNext1(t)) = LiteFill(h, t) + 1 /\ LiteFill(h, t) \in 0 .. LiteDepth - 1
    BY <1>1, <1>2 DEF LiteFill, LiteCells
<1>4. Len(r) = Len(s) + 1 /\ \A i \in 1 .. Len(r) : r[i] = IF i = Len(s) + 1 THEN b ELSE s[i]
    OBVIOUS
<1>5. Len(r) = LiteFill(h, LiteNext1(t))
    BY <1>3, <1>4 DEF LiteHolds
<1>6. ASSUME NEW i \in 1 .. Len(r) PROVE r[i] = g[LitePlace(h, i)]
  <2>1. CASE i = Len(s) + 1
    <3>1. LitePlace(h, i) = t
        BY <1>1, <2>1, <1>3 DEF LiteHolds, LitePlace, LiteFill, LiteCells
    <3> QED
        BY <1>4, <2>1, <3>1
  <2>2. CASE i # Len(s) + 1
    <3>1. i \in 1 .. Len(s) /\ i <= LiteFill(h, t)
        BY <1>1, <1>4, <2>2 DEF LiteHolds
    <3>2. LitePlace(h, i) # t /\ LitePlace(h, i) \in LiteCells
        BY <1>1, <1>3, <3>1 DEF LitePlace, LiteFill, LiteCells
    <3>3. s[i] = f[LitePlace(h, i)]
        BY <3>1 DEF LiteHolds
    <3> QED
        BY <1>4, <2>2, <3>2, <3>3
  <2> QED
      BY <2>1, <2>2
<1> QED
    BY <1>5, <1>6 DEF LiteHolds

\* The oldest byte leaves a ring that is not empty.
LEMMA LiteTakeKeeps ==
    ASSUME NEW f \in [LiteCells -> LiteBytes], NEW h \in LiteCells, NEW t \in LiteCells,
           NEW s \in Seq(LiteBytes), LiteHolds(f, h, t, s), h # t
    PROVE  LiteHolds(f, LiteNext1(h), t, Tail(s)) /\ Tail(s) \in Seq(LiteBytes)
<1>1. LiteDepth \in Nat \ {0}
    BY LiteArithmetic
<1>2. LiteNext1(h) = IF h = LiteDepth - 1 THEN 0 ELSE h + 1
    BY LiteArithmetic
<1>3. /\ LiteFill(LiteNext1(h), t) = LiteFill(h, t) - 1
      /\ LiteFill(h, t) \in 1 .. LiteDepth - 1
    BY <1>1, <1>2 DEF LiteFill, LiteCells
<1>4. Len(s) \in 1 .. LiteDepth - 1 /\ s # << >>
    BY <1>3 DEF LiteHolds
<1>5. /\ Tail(s) \in Seq(LiteBytes) /\ Len(Tail(s)) = Len(s) - 1
      /\ \A i \in 1 .. Len(s) - 1 : Tail(s)[i] = s[i + 1]
    BY <1>4, HeadTailProperties
<1>6. ASSUME NEW i \in 1 .. Len(s) - 1 PROVE Tail(s)[i] = f[LitePlace(LiteNext1(h), i)]
  <2>1. LitePlace(LiteNext1(h), i) = LitePlace(h, i + 1)
      BY <1>1, <1>2, <1>4 DEF LitePlace, LiteCells
  <2>2. i + 1 \in 1 .. Len(s)
      BY <1>4
  <2> QED
      BY <1>5, <2>1, <2>2 DEF LiteHolds
<1> QED
    BY <1>3, <1>5, <1>6 DEF LiteHolds

LEMMA LiteStarts == LiteInit => LiteInv
<1> SUFFICES ASSUME LiteInit PROVE LiteInv
    OBVIOUS
<1>1. 0 \in LiteCells
    BY LiteAssumption DEF LiteCells
<1>2. LiteTypeOK
    BY <1>1, LiteAssumption DEF LiteInit, LitePowerOn, LiteTypeOK, LiteState
<1>3. lite.head = 0 /\ lite.tail = 0 /\ lite.sent = << >>
    BY DEF LiteInit, LitePowerOn
<1> QED
    BY <1>2, <1>3 DEF LiteInv, LiteHolds, LiteFill

LEMMA LiteKeeps == LiteInv /\ LiteNext => LiteInv'
<1> SUFFICES ASSUME LiteInv, LiteNext PROVE LiteInv'
    OBVIOUS
<1> DEFINE Same == /\ lite'.fifo = lite.fifo /\ lite'.head = lite.head
                   /\ lite'.tail = lite.tail /\ lite'.sent = lite.sent
<1>1. /\ lite \in LiteState
      /\ LiteHolds(lite.fifo, lite.head, lite.tail, lite.sent)
      /\ lite.fifo \in [LiteCells -> LiteBytes] /\ lite.head \in LiteCells
      /\ lite.tail \in LiteCells /\ lite.sent \in Seq(LiteBytes)
    BY DEF LiteInv, LiteTypeOK, LiteState
<1>2. ASSUME lite' \in LiteState, Same PROVE LiteInv'
    BY <1>1, <1>2 DEF LiteInv, LiteTypeOK
<1>3. ASSUME NEW u \in LiteState, ~LiteEmpty(u), lite' = LitePopped(u),
             u.fifo = lite.fifo, u.head = lite.head, u.tail = lite.tail, u.sent = lite.sent
      PROVE  LiteInv'
  <2>1. /\ lite'.fifo = lite.fifo /\ lite'.head = LiteNext1(lite.head)
        /\ lite'.tail = lite.tail /\ lite'.sent = Tail(lite.sent)
      BY <1>3 DEF LitePopped, LiteState
  <2>2. lite.head # lite.tail
      BY <1>3 DEF LiteEmpty
  <2>3. /\ LiteHolds(lite.fifo, LiteNext1(lite.head), lite.tail, Tail(lite.sent))
        /\ Tail(lite.sent) \in Seq(LiteBytes)
      BY <1>1, <2>2, LiteTakeKeeps
  <2>4. LiteNext1(lite.head) \in LiteCells
      BY <1>1, LiteArithmetic
  <2>5. lite' \in LiteState
      BY <1>3, <2>3, <2>4 DEF LitePopped, LiteState
  <2> QED
      BY <2>1, <2>3, <2>5 DEF LiteInv, LiteTypeOK
<1>4. CASE LiteReceive
  <2>1. PICK b \in LiteBytes :
            lite' = IF LiteFull(lite) THEN lite
                    ELSE [lite EXCEPT !.fifo[lite.tail] = b, !.tail = LiteNext1(@),
                                      !.sent = Append(@, b)]
      BY <1>4 DEF LiteReceive
  <2>2. CASE LiteFull(lite)
      BY <1>1, <1>2, <2>1, <2>2
  <2>3. CASE ~LiteFull(lite)
    <3>1. /\ lite'.fifo = [lite.fifo EXCEPT ![lite.tail] = b] /\ lite'.head = lite.head
          /\ lite'.tail = LiteNext1(lite.tail) /\ lite'.sent = Append(lite.sent, b)
        BY <1>1, <2>1, <2>3 DEF LiteState
    <3>2. LiteHolds([lite.fifo EXCEPT ![lite.tail] = b], lite.head, LiteNext1(lite.tail),
                    Append(lite.sent, b))
        BY <1>1, <2>3, LitePutKeeps DEF LiteFull
    <3>3. LiteNext1(lite.tail) \in LiteCells /\ Append(lite.sent, b) \in Seq(LiteBytes)
        BY <1>1, LiteArithmetic
    <3>4. lite' \in LiteState
        BY <1>1, <2>1, <2>3, <3>3 DEF LiteState
    <3> QED
        BY <3>1, <3>2, <3>4 DEF LiteInv, LiteTypeOK
  <2> QED
      BY <2>2, <2>3
<1>5. CASE LiteReadDatar
  <2>1. CASE LiteEmpty(lite)
      BY <1>1, <1>2, <1>5, <2>1 DEF LiteReadDatar
  <2>2. CASE ~LiteEmpty(lite)
    <3> DEFINE u == [lite EXCEPT !.last = lite.fifo[lite.head]]
    <3>1. /\ u \in LiteState /\ ~LiteEmpty(u) /\ u.fifo = lite.fifo /\ u.head = lite.head
          /\ u.tail = lite.tail /\ u.sent = lite.sent
        BY <1>1, <2>2 DEF LiteState, LiteEmpty
    <3>2. lite' = LitePopped(u)
        BY <1>5, <2>2 DEF LiteReadDatar
    <3> HIDE DEF u
    <3> QED
        BY <1>3, <3>1, <3>2
  <2> QED
      BY <2>1, <2>2
<1>6. CASE LiteWriteStatr
    BY <1>1, <1>2, <1>3, <1>6 DEF LiteWriteStatr
<1>7. CASE LiteWriteDatar \/ LiteWriteCtlr1 \/ LiteWriteCtlr3
  <2>1. lite' \in LiteState /\ Same
      BY <1>1, <1>7 DEF LiteWriteDatar, LiteWriteCtlr1, LiteWriteCtlr3, LiteState
  <2> QED
      BY <1>2, <2>1
<1>8. CASE LiteMachineReset
  <2>1. LiteInit' => LiteInv'
      BY LiteStarts, PTL
  <2> QED
      BY <1>8, <2>1 DEF LiteMachineReset, LiteInit
<1> QED
    BY <1>4, <1>5, <1>6, <1>7, <1>8 DEF LiteNext, LiteRegisters

-----------------------------------------------------------------------------
(***************************************************************************)
(* The start address.                                                      *)
(***************************************************************************)

\* The inductive invariant: until a start record was read the entry is the
\* start of the flash.
BootInv ==
    /\ BootTypeOK
    /\ ~boot.start => boot.hexEntry = BootBase
    /\ BootStartsInImage

LEMMA BootConstants ==
    /\ BootFlash \in Nat \ {0} /\ BootBase \in Nat \ {0} /\ BootJump \in Nat \ {0}
    /\ BootEntries \subseteq Nat /\ 0 \in BootOffsets /\ BootBase \in BootEntries
<1>1. /\ BootFlash \in Nat \ {0} /\ BootBase \in Nat \ {0} /\ BootJump \in Nat \ {0}
    BY BootAssumption
<1>2. {0, 1} \subseteq Nat /\ {BootBase, BootBase + 1} \subseteq Nat /\ 2 * BootBase \in Nat
    BY <1>1
<1> QED
    BY <1>1, <1>2 DEF BootEntries, BootOffsets

\* The jump in the first word is followed inside the window that it is in.
LEMMA BootJumpInside ==
    ASSUME NEW entry \in {0, BootBase}, NEW mem
    PROVE  \/ BootFollowed(entry, mem) = entry
           \/ /\ BootFollowed(entry, mem) = entry + BootJump
              /\ mem[0] = "jump" /\ BootJump \in BootOffsets
<1>1. CASE entry = 0
    BY <1>1, BootConstants DEF BootFollowed
<1>2. CASE entry = BootBase
  <2>1. BootBase + BootJump \in BootFlashWindow => BootJump \in BootOffsets
      BY BootConstants DEF BootFlashWindow, BootOffsets
  <2> QED
      BY <1>2, <2>1, BootConstants DEF BootFollowed
<1> QED
    BY <1>1, <1>2

LEMMA BootTyped ==
    ASSUME BootTypeOK
    PROVE  /\ boot \in BootState /\ boot.mem \in [BootOffsets -> BootWords]
           /\ boot.kind \in BootKinds /\ boot.hexEntry \in BootEntries
           /\ boot.haveEla \in BOOLEAN /\ boot.start \in BOOLEAN
    BY DEF BootTypeOK, BootState

LEMMA BootStartKeeps == BootInv /\ BootStart => BootInv'
<1> SUFFICES ASSUME BootInv, BootStart PROVE BootInv'
    OBVIOUS
<1>1. BootTypeOK /\ (~boot.start => boot.hexEntry = BootBase)
    BY DEF BootInv
<1> DEFINE mem == BootPatched(boot.mem)
<1>2. PICK elf \in BootEntries :
          boot' = [boot EXCEPT
               !.phase = "running", !.mem = mem,
               !.resetvec = IF boot.kind = "elf" THEN BootElfEntry(elf)
                            ELSE BootFollowed(BootImageEntry, mem)]
    BY DEF BootStart
<1>3. mem \in [BootOffsets -> BootWords]
    BY <1>1, BootTyped, BootConstants DEF BootPatched, BootWords
<1> HIDE DEF mem
<1>4. BootElfEntry(elf) \in Nat /\ BootImageEntry \in Nat
    BY <1>1, BootTyped, BootConstants DEF BootElfEntry, BootImageEntry, BootKinds
<1>5. BootFollowed(BootImageEntry, mem) \in Nat
    BY <1>4, BootConstants DEF BootFollowed
<1>6. /\ boot' \in BootState /\ boot'.kind = boot.kind /\ boot'.haveEla = boot.haveEla
      /\ boot'.start = boot.start /\ boot'.hexEntry = boot.hexEntry /\ boot'.mem = mem
      /\ boot.kind # "elf" => boot'.resetvec = BootFollowed(BootImageEntry, mem)
    BY <1>1, <1>2, <1>3, <1>4, <1>5, BootTyped DEF BootState
<1>7. ASSUME boot.kind # "elf", boot.haveEla => ~boot.start
      PROVE  BootImageEntry = IF boot.kind = "hex" /\ ~boot.haveEla THEN 0 ELSE BootBase
    BY <1>1, <1>7, BootTyped DEF BootImageEntry, BootKinds
<1>8. BootStartsInImage'
  <2> SUFFICES ASSUME boot.kind # "elf", boot.haveEla => ~boot.start
               PROVE  LET base == IF boot.kind = "hex" /\ ~boot.haveEla THEN 0 ELSE BootBase
                      IN  \/ boot'.resetvec = base
                          \/ /\ boot'.resetvec = base + BootJump /\ mem[0] = "jump"
                             /\ BootJump \in BootOffsets
      BY <1>6 DEF BootStartsInImage
  <2>1. BootImageEntry \in {0, BootBase}
      BY <1>7
  <2> QED
      BY <1>6, <1>7, <2>1, BootJumpInside
<1> QED
    BY <1>1, <1>6, <1>8 DEF BootInv, BootTypeOK

LEMMA BootKeeps == BootInv /\ BootNext => BootInv'
<1> SUFFICES ASSUME BootInv, BootNext PROVE BootInv'
    OBVIOUS
<1>1. boot \in BootState /\ (~boot.start => boot.hexEntry = BootBase)
    BY DEF BootInv, BootTypeOK
<1>2. ASSUME boot' \in BootState, boot'.phase # "running",
             ~boot'.start => boot'.hexEntry = BootBase
      PROVE  BootInv'
    BY <1>2 DEF BootInv, BootTypeOK, BootStartsInImage, BootRunning
<1>3. CASE BootData
  <2>1. PICK a \in 0 .. BootFlash, w \in BootWords \ {"blank"}, more \in BOOLEAN :
          LET hit == UNION {IF more THEN {o, o + 1} ELSE {o} : o \in BootWhere(BootAddress(a))}
          IN  boot' = [boot EXCEPT !.mem = [o \in BootOffsets |->
                                               IF o \in hit THEN w ELSE boot.mem[o]]]
      BY <1>3 DEF BootData
  <2> DEFINE hit == UNION {IF more THEN {o, o + 1} ELSE {o} : o \in BootWhere(BootAddress(a))}
             m == [o \in BootOffsets |-> IF o \in hit THEN w ELSE boot.mem[o]]
  <2>2. boot' = [boot EXCEPT !.mem = m]
      BY <2>1
  <2> HIDE DEF hit
  <2>3. m \in [BootOffsets -> BootWords]
      BY <1>1 DEF BootState
  <2> HIDE DEF m
  <2>4. boot.phase = "loading"
      BY <1>3 DEF BootData, BootReading
  <2> QED
      BY <1>1, <1>2, <2>2, <2>3, <2>4 DEF BootState
<1>4. CASE BootEof \/ BootSegment \/ BootEla \/ BootStartRecord \/ BootMalformed
    BY <1>1, <1>2, <1>4, ZenonT(40)
    DEF BootEof, BootSegment, BootEla, BootStartRecord, BootMalformed, BootReading, BootState
<1>5. CASE BootImage
  <2>1. PICK first \in BootWords, rest \in BootWords :
          boot' = [boot EXCEPT !.phase = "loaded",
                               !.mem = [o \in BootOffsets |-> IF o = 0 THEN first ELSE rest]]
      BY <1>5 DEF BootImage
  <2> DEFINE m == [o \in BootOffsets |-> IF o = 0 THEN first ELSE rest]
  <2>2. m \in [BootOffsets -> BootWords]
      OBVIOUS
  <2>3. boot' = [boot EXCEPT !.phase = "loaded", !.mem = m]
      BY <2>1
  <2> HIDE DEF m
  <2> QED
      BY <1>1, <1>2, <2>2, <2>3 DEF BootState
<1>6. CASE BootStart
    BY <1>6, BootStartKeeps
<1> QED
    BY <1>3, <1>4, <1>5, <1>6 DEF BootNext

\* The board loads an image, or finds one loaded.
LEMMA BootStarts == BoardInit => BootInv
<1> SUFFICES ASSUME BoardInit PROVE BootInv
    OBVIOUS
<1>1. /\ [o \in BootOffsets |-> "blank"] \in [BootOffsets -> BootWords]
      /\ [o \in BootOffsets |-> "other"] \in [BootOffsets -> BootWords]
      /\ BootBase \in Nat /\ BootBase \in BootEntries
    BY BootConstants DEF BootWords
<1>2. CASE BootInit
  <2>1. PICK mode \in BootModes, kind \in BootKinds :
            boot = [mode |-> mode, kind |-> kind, mem |-> [o \in BootOffsets |-> "blank"],
                    haveEla |-> FALSE, ulba |-> 0, sba |-> 0, start |-> FALSE,
                    hexEntry |-> BootBase, phase |-> "loading", resetvec |-> BootBase]
      BY <1>2 DEF BootInit
  <2> QED
      BY <1>1, <2>1 DEF BootInv, BootTypeOK, BootState, BootStartsInImage, BootRunning,
         BootUpper, BootSegments
<1>3. CASE ~BootInit
  <2>1. boot = [mode |-> "flash", kind |-> "bin", mem |-> [o \in BootOffsets |-> "other"],
                haveEla |-> FALSE, ulba |-> 0, sba |-> 0, start |-> FALSE,
                hexEntry |-> BootBase, phase |-> "running", resetvec |-> BootBase]
      BY <1>3 DEF BoardInit
  <2>2. BootTypeOK
      BY <1>1, <2>1 DEF BootTypeOK, BootState, BootUpper, BootSegments, BootModes, BootKinds
  <2> QED
      BY <2>1, <2>2 DEF BootInv, BootStartsInImage
<1> QED
    BY <1>2, <1>3

-----------------------------------------------------------------------------
(***************************************************************************)
(* The hart.  What was interrupted, innermost last, is a stack of frames.  *)
(* While the books are in order faults come first and then interrupts, or  *)
(* one yield: an exception inside either upsets the books.  So the frames  *)
(* of one kind are a section of the stack.                                 *)
(***************************************************************************)

\* The equation that defines HartOfKind, for it has a solution.
LEMMA HartOfKindEquation ==
    ASSUME NEW fr \in Seq(HartFrame), NEW kind
    PROVE  /\ HartOfKind(fr, kind)[0] = << >>
           /\ \A i \in 1 .. Len(fr) :
                  HartOfKind(fr, kind)[i] =
                      IF fr[i].kind = kind THEN Append(HartOfKind(fr, kind)[i - 1], fr[i])
                      ELSE HartOfKind(fr, kind)[i - 1]
<1> DEFINE D == Seq(HartFrame)
           n == Len(fr)
           Step(i, q) == IF fr[i].kind = kind THEN Append(q, fr[i]) ELSE q
           Eq(f) == f = [i \in 0 .. n |-> IF i = 0 THEN << >> ELSE Step(i, f[i - 1])]
           at == HartOfKind(fr, kind)
<1>1. n \in Nat /\ << >> \in D
    OBVIOUS
<1>2. \A i \in 1 .. n, q \in D : Step(i, q) \in D
  <2>1. \A i \in 1 .. n : fr[i] \in HartFrame
      OBVIOUS
  <2> QED
      BY <2>1
<1>3. \E f : Eq(f)
  <2> DEFINE F == [i \in 1 .. n |-> [q \in D |-> Step(i, q)]]
             none == << >>
  <2>1. F \in [1 .. n -> [D -> D]]
    <3> HIDE DEF D, Step, n
    <3> QED
        BY <1>2
  <2>2. PICK g : g \in Iterations(n, D, none, F)
    <3>1. n \in Nat /\ none \in D
        BY <1>1
    <3> HIDE DEF F, D, n, none
    <3>2. Iterations(n, D, none, F) # {}
        BY <2>1, <3>1, IterateExists
    <3> QED
        BY <3>2
  <2>3. g \in [0 .. n -> D] /\ g[0] = << >> /\ \A i \in 1 .. n : g[i] = F[i][g[i - 1]]
    <3> HIDE DEF F, D, n
    <3> QED
        BY <2>2 DEF Iterations
  <2>4. \A i \in 1 .. n : g[i] = Step(i, g[i - 1])
    <3> SUFFICES ASSUME NEW i \in 1 .. n PROVE g[i] = Step(i, g[i - 1])
        OBVIOUS
    <3>1. g[i - 1] \in D
      <4>1. i - 1 \in 0 .. n
          BY <1>1
      <4> HIDE DEF D, n
      <4> QED
          BY <4>1, <2>3
    <3>2. F[i][g[i - 1]] = Step(i, g[i - 1])
      <4> HIDE DEF Step, D, n
      <4> QED
          BY <3>1
    <3> QED
        BY <2>3, <3>2
  <2>5. Eq(g)
    <3> HIDE DEF Step, D, n
    <3> QED
        BY <2>3, <2>4, <1>1
  <2> QED
      BY <2>5
<1>4. Eq(at)
  <2>1. at = CHOOSE f : Eq(f)
      BY DEF HartOfKind
  <2> HIDE DEF Eq
  <2> QED
      BY <2>1, <1>3
<1>5. at[0] = << >> /\ \A i \in 1 .. n : at[i] = Step(i, at[i - 1])
  <2> HIDE DEF Step, at, n
  <2>1. Eq(at)
      BY <1>4 DEF at
  <2> QED
      BY <2>1, <1>1
<1> QED
    BY <1>5

\* If the frames of a kind are those from a + 1 on, they are what is picked.
LEMMA HartPickedIsSection ==
    ASSUME NEW fr \in Seq(HartFrame), NEW kind, NEW a \in 0 .. Len(fr),
           \A i \in 1 .. Len(fr) : fr[i].kind = kind <=> i > a
    PROVE  /\ HartOfKind(fr, kind)[Len(fr)] = [i \in 1 .. Len(fr) - a |-> fr[a + i]]
           /\ Len(HartOfKind(fr, kind)[Len(fr)]) = Len(fr) - a
<1> DEFINE at == HartOfKind(fr, kind)
           n == Len(fr)
           Sec(j) == [i \in 1 .. j - a |-> fr[a + i]]
           T == {j \in 0 .. n : at[j] = Sec(j)}
<1>1. n \in Nat /\ a \in 0 .. n
    OBVIOUS
<1>2. at[0] = << >> /\ \A i \in 1 .. n : at[i] = IF i > a THEN Append(at[i - 1], fr[i]) ELSE at[i - 1]
    BY HartOfKindEquation
<1>3. \A j \in 0 .. n : j <= a => Sec(j) = << >>
    BY <1>1
<1>4. \A j \in 0 .. n : j >= a => Sec(j) \in Seq(HartFrame) /\ Len(Sec(j)) = j - a
  <2> SUFFICES ASSUME NEW j \in 0 .. n, j >= a
               PROVE  Sec(j) \in Seq(HartFrame) /\ Len(Sec(j)) = j - a
      OBVIOUS
  <2>1. j - a \in Nat /\ \A i \in 1 .. j - a : a + i \in 1 .. n
      BY <1>1
  <2>2. \A i \in 1 .. j - a : fr[a + i] \in HartFrame
      BY <2>1
  <2> QED
      BY <2>1, <2>2
<1>5. 0 \in T
  <2> HIDE DEF at, Sec, n
  <2> QED
      BY <1>1, <1>2, <1>3
<1>6. ASSUME NEW j \in 0 .. n - 1, j \in T PROVE j + 1 \in T
  <2>1. j + 1 \in 1 .. n /\ (j + 1) - 1 = j /\ j \in 0 .. n /\ j + 1 \in 0 .. n
      BY <1>1
  <2>2. CASE j + 1 > a
    <3>1. at[j + 1] = Append(Sec(j), fr[j + 1])
      <4> HIDE DEF at, Sec, n
      <4> QED
          BY <1>2, <1>6, <2>1, <2>2
    <3>2. j >= a /\ j - a \in Nat /\ j + 1 - a = (j - a) + 1
        BY <1>1, <2>1, <2>2
    <3>3. Len(Sec(j)) = j - a /\ Sec(j) \in Seq(HartFrame)
      <4> HIDE DEF Sec, n
      <4> QED
          BY <1>4, <2>1, <3>2
    <3>4. Append(Sec(j), fr[j + 1]) = [i \in 1 .. (j - a) + 1 |-> IF i = (j - a) + 1 THEN fr[j + 1] ELSE Sec(j)[i]]
      <4> HIDE DEF Sec
      <4> QED
          BY <3>2, <3>3
    <3>5. \A i \in 1 .. (j - a) + 1 :
              fr[a + i] = IF i = (j - a) + 1 THEN fr[j + 1] ELSE Sec(j)[i]
        BY <1>1, <2>1, <3>2
    <3>6. Append(Sec(j), fr[j + 1]) = Sec(j + 1)
        BY <3>2, <3>4, <3>5
    <3> QED
      <4> HIDE DEF at, Sec, n
      <4> QED
          BY <2>1, <3>1, <3>6
  <2>3. CASE ~(j + 1 > a)
    <3>1. j <= a /\ j + 1 <= a
        BY <1>1, <2>1, <2>3
    <3> HIDE DEF at, Sec, n
    <3> QED
        BY <1>2, <1>3, <1>6, <2>1, <2>3, <3>1
  <2> QED
      BY <2>2, <2>3
<1>7. 0 .. n \subseteq T
  <2> HIDE DEF T, n
  <2> QED
      BY <1>1, <1>5, <1>6, IntervalInduct
<1>8. at[n] = Sec(n)
  <2>1. n \in T
    <3> HIDE DEF T, n
    <3> QED
        BY <1>1, <1>7
  <2> QED
      BY <2>1
<1>9. Len(Sec(n)) = n - a
  <2> HIDE DEF Sec
  <2> QED
      BY <1>1, <1>4
<1> QED
    BY <1>8, <1>9

\* The books of a stack of frames: bk is the bank, n the count of handlers and
\* sk the flag of a context switch.
HartTidy(vtf, fr, bk, n, sk) ==
    \E a \in 0 .. Len(fr) :
        /\ \A i \in 1 .. Len(fr) : i <= a => fr[i].kind = "fault"
        /\ \/ /\ sk /\ Len(fr) = a + 1 /\ fr[a + 1].kind = "yield"
              /\ bk = << >> /\ n = 0
           \/ /\ ~sk
              /\ \A i \in 1 .. Len(fr) : i > a => fr[i].kind = "irq"
              /\ Len(bk) = Len(fr) - a
              /\ \A i \in 1 .. Len(bk) : bk[i] = fr[a + i].regs
              /\ vtf => n = Len(fr) - a

\* In order or not, what the returns have left to undo is no more than the
\* frames that are there.
HartBounded(vtf, fr, bk, n, sk) ==
    /\ Len(bk) + (IF sk THEN 1 ELSE 0) <= Len(fr)
    /\ n + (IF sk THEN 1 ELSE 0) <= Len(fr)
    /\ ~vtf => n = 0 /\ ~sk

HartBooks(vtf, fr, bk, n, sk, lost) ==
    HartBounded(vtf, fr, bk, n, sk) /\ (~lost => HartTidy(vtf, fr, bk, n, sk))

LEMMA HartFrameKinds ==
    \A f \in HartFrame : f.kind \in {"irq", "yield", "fault"} /\ f.regs \in HartValues
    BY DEF HartFrame

\* At the bottom nothing is left, whatever happened above.
LEMMA HartBottom ==
    ASSUME NEW vtf \in BOOLEAN, NEW bk \in Seq(HartValues), NEW n \in Nat,
           NEW sk \in BOOLEAN, HartBounded(vtf, << >>, bk, n, sk)
    PROVE  /\ bk = << >> /\ n = 0 /\ ~sk
           /\ \A v, lost \in BOOLEAN : HartBooks(v, << >>, bk, n, sk, lost)
<1>1. bk = << >> /\ n = 0 /\ ~sk
    BY DEF HartBounded
<1>2. ASSUME NEW v \in BOOLEAN PROVE HartTidy(v, << >>, << >>, 0, FALSE)
  <2>1. 0 \in 0 .. Len(<< >>)
      OBVIOUS
  <2> QED
      BY <2>1 DEF HartTidy
<1> QED
    BY <1>1, <1>2 DEF HartBooks, HartBounded

\* The frames that stay when one is put on top.
LEMMA HartPushed ==
    ASSUME NEW fr \in Seq(HartFrame), NEW f \in HartFrame
    PROVE  /\ Append(fr, f) \in Seq(HartFrame) /\ Len(Append(fr, f)) = Len(fr) + 1
           /\ Append(fr, f)[Len(fr) + 1] = f
           /\ \A i \in 1 .. Len(fr) : Append(fr, f)[i] = fr[i]
           /\ Len(fr) \in Nat
    OBVIOUS

\* ... and when it is taken away.
LEMMA HartPopped ==
    ASSUME NEW S, NEW q \in Seq(S), q # << >>
    PROVE  /\ SubSeq(q, 1, Len(q) - 1) \in Seq(S)
           /\ Len(SubSeq(q, 1, Len(q) - 1)) = Len(q) - 1
           /\ \A i \in 1 .. Len(q) - 1 : SubSeq(q, 1, Len(q) - 1)[i] = q[i]
           /\ Len(q) \in Nat \ {0} /\ q[Len(q)] \in S
    BY SMTT(20)

\* An interrupt is put on a stack without a context switch, in VTF mode without
\* another interrupt.
LEMMA HartIrqKeeps ==
    ASSUME NEW vtf \in BOOLEAN, NEW fr \in Seq(HartFrame), NEW bk \in Seq(HartValues),
           NEW n \in Nat, NEW lost \in BOOLEAN, NEW f \in HartFrame,
           HartBooks(vtf, fr, bk, n, FALSE, lost), f.kind = "irq",
           NEW m \in Nat, m = IF vtf THEN n + 1 ELSE n
    PROVE  /\ HartBooks(vtf, Append(fr, f), bk, m, FALSE, TRUE)
           /\ HartBooks(vtf, Append(fr, f), Append(bk, f.regs), m, FALSE, lost)
<1> DEFINE g == Append(fr, f)
           b == Append(bk, f.regs)
<1>1. /\ Len(g) = Len(fr) + 1 /\ g[Len(fr) + 1] = f /\ Len(fr) \in Nat
      /\ \A i \in 1 .. Len(fr) : g[i] = fr[i]
    BY HartPushed
<1>2. /\ Len(b) = Len(bk) + 1 /\ b[Len(bk) + 1] = f.regs /\ Len(bk) \in Nat
      /\ \A i \in 1 .. Len(bk) : b[i] = bk[i]
    BY HartFrameKinds
<1> HIDE DEF g, b
<1>3. HartBounded(vtf, g, bk, m, FALSE) /\ HartBounded(vtf, g, b, m, FALSE)
    BY <1>1, <1>2 DEF HartBooks, HartBounded
<1>4. ASSUME ~lost PROVE HartTidy(vtf, g, b, m, FALSE)
  <2>1. PICK a \in 0 .. Len(fr) :
            /\ \A i \in 1 .. Len(fr) : i <= a => fr[i].kind = "fault"
            /\ \A i \in 1 .. Len(fr) : i > a => fr[i].kind = "irq"
            /\ Len(bk) = Len(fr) - a
            /\ \A i \in 1 .. Len(bk) : bk[i] = fr[a + i].regs
            /\ vtf => n = Len(fr) - a
      BY <1>4 DEF HartBooks, HartTidy
  <2>2. a \in 0 .. Len(g) /\ Len(b) = Len(g) - a /\ (vtf => m = Len(g) - a)
    <3>1. Len(g) = Len(fr) + 1 /\ Len(fr) \in Nat /\ Len(b) = Len(bk) + 1
        BY <1>1, <1>2
    <3>2. Len(bk) = Len(fr) - a /\ (vtf => n = Len(fr) - a)
        BY <2>1
    <3> QED
        BY <3>1, <3>2
  <2>4. ASSUME NEW i \in 1 .. Len(g)
        PROVE  (i <= a => g[i].kind = "fault") /\ (i > a => g[i].kind = "irq")
    <3>1. CASE i = Len(fr) + 1
      <4>1. ~(i <= a)
          BY <1>1, <2>1, <3>1
      <4> QED
          BY <1>1, <3>1, <4>1
    <3>2. CASE i # Len(fr) + 1
      <4>1. i \in 1 .. Len(fr)
          BY <1>1, <3>2
      <4> QED
          BY <1>1, <2>1, <4>1
    <3> QED
        BY <3>1, <3>2
  <2>3. ASSUME NEW i \in 1 .. Len(b) PROVE b[i] = g[a + i].regs
    <3>1. CASE i = Len(bk) + 1
      <4>1. a + i = Len(fr) + 1
          BY <1>1, <1>2, <2>1, <3>1
      <4> QED
          BY <1>1, <1>2, <3>1, <4>1
    <3>2. CASE i # Len(bk) + 1
      <4>1. i \in 1 .. Len(bk) /\ a + i \in 1 .. Len(fr)
          BY <1>1, <1>2, <2>1, <3>2
      <4> QED
          BY <1>1, <1>2, <2>1, <4>1
    <3> QED
        BY <3>1, <3>2
  <2> QED
      BY <2>2, <2>3, <2>4 DEF HartTidy
<1> QED
    BY <1>3, <1>4 DEF HartBooks, g, b

\* A yield is put on a stack without a handler.
LEMMA HartYieldKeeps ==
    ASSUME NEW fr \in Seq(HartFrame), NEW bk \in Seq(HartValues),
           NEW lost \in BOOLEAN, NEW f \in HartFrame,
           HartBooks(TRUE, fr, bk, 0, FALSE, lost), f.kind = "yield"
    PROVE  HartBooks(TRUE, Append(fr, f), bk, 0, TRUE, lost)
<1> DEFINE g == Append(fr, f)
<1>1. /\ Len(g) = Len(fr) + 1 /\ g[Len(fr) + 1] = f /\ Len(fr) \in Nat
      /\ \A i \in 1 .. Len(fr) : g[i] = fr[i]
    BY HartPushed
<1> HIDE DEF g
<1>2. HartBounded(TRUE, g, bk, 0, TRUE)
    BY <1>1 DEF HartBooks, HartBounded
<1>3. ASSUME ~lost PROVE HartTidy(TRUE, g, bk, 0, TRUE)
  <2>1. PICK a \in 0 .. Len(fr) :
            /\ \A i \in 1 .. Len(fr) : i <= a => fr[i].kind = "fault"
            /\ Len(bk) = Len(fr) - a
            /\ 0 = Len(fr) - a
      BY <1>3 DEF HartBooks, HartTidy
  <2>2. a = Len(fr) /\ bk = << >>
      BY <1>1, <2>1
  <2>3. /\ a \in 0 .. Len(g) /\ Len(g) = a + 1 /\ g[a + 1].kind = "yield"
        /\ \A i \in 1 .. Len(g) : i <= a => g[i].kind = "fault"
      BY <1>1, <2>1, <2>2
  <2> QED
      BY <2>2, <2>3 DEF HartTidy
<1> QED
    BY <1>2, <1>3 DEF HartBooks, g

\* An exception upsets the books unless the stack has nothing but exceptions.
LEMMA HartFaultKeeps ==
    ASSUME NEW vtf \in BOOLEAN, NEW fr \in Seq(HartFrame), NEW bk \in Seq(HartValues),
           NEW n \in Nat, NEW sk \in BOOLEAN, NEW lost \in BOOLEAN, NEW f \in HartFrame,
           HartBooks(vtf, fr, bk, n, sk, lost), f.kind = "fault"
    PROVE  HartBooks(vtf, Append(fr, f), bk, n, sk, lost \/ bk # << >> \/ sk \/ n > 0)
<1> DEFINE g == Append(fr, f)
<1>1. /\ Len(g) = Len(fr) + 1 /\ g[Len(fr) + 1] = f /\ Len(fr) \in Nat
      /\ \A i \in 1 .. Len(fr) : g[i] = fr[i]
    BY HartPushed
<1> HIDE DEF g
<1>2. HartBounded(vtf, g, bk, n, sk)
    BY <1>1 DEF HartBooks, HartBounded
<1>3. ASSUME ~(lost \/ bk # << >> \/ sk \/ n > 0) PROVE HartTidy(vtf, g, bk, n, sk)
  <2>1. PICK a \in 0 .. Len(fr) :
            /\ \A i \in 1 .. Len(fr) : i <= a => fr[i].kind = "fault"
            /\ Len(bk) = Len(fr) - a
      BY <1>3 DEF HartBooks, HartTidy
  <2>2. a = Len(fr) /\ bk = << >> /\ ~sk /\ n = 0
      BY <1>1, <1>3, <2>1
  <2> DEFINE c == a + 1
  <2>3. /\ c \in 0 .. Len(g) /\ Len(g) - c = 0
        /\ \A i \in 1 .. Len(g) : i <= c => g[i].kind = "fault"
        /\ \A i \in 1 .. Len(g) : i > c => g[i].kind = "irq"
      BY <1>1, <2>1, <2>2
  <2> HIDE DEF c
  <2>4. Len(bk) = 0 /\ \A i \in 1 .. Len(bk) : bk[i] = g[c + i].regs
      BY <2>2
  <2> QED
      BY <2>2, <2>3, <2>4 DEF HartTidy
<1> QED
    BY <1>2, <1>3 DEF HartBooks, g

\* What a return leaves of the stack, of the bank and of the count.
HartStackLeft(fr) == SubSeq(fr, 1, Len(fr) - 1)
HartBankLeft(bk, sk) == IF sk \/ bk = << >> THEN bk ELSE SubSeq(bk, 1, Len(bk) - 1)
HartCountLeft(vtf, n, sk) == IF vtf /\ ~sk /\ n > 0 THEN n - 1 ELSE n

\* A return takes the frame on top and what belongs to it.
LEMMA HartReturnKeeps ==
    ASSUME NEW vtf \in BOOLEAN, NEW fr \in Seq(HartFrame), NEW bk \in Seq(HartValues),
           NEW n \in Nat, NEW sk \in BOOLEAN, NEW lost \in BOOLEAN, fr # << >>,
           HartBooks(vtf, fr, bk, n, sk, lost)
    PROVE  /\ HartBooks(vtf, HartStackLeft(fr), HartBankLeft(bk, sk),
                        HartCountLeft(vtf, n, sk), FALSE, lost)
           /\ HartStackLeft(fr) = << >> =>
                  HartBooks(vtf, HartStackLeft(fr), HartBankLeft(bk, sk),
                            HartCountLeft(vtf, n, sk), FALSE, FALSE)
<1> DEFINE b == HartBankLeft(bk, sk)
           m == HartCountLeft(vtf, n, sk)
           left == HartStackLeft(fr)
<1>0. /\ b \in Seq(HartValues)
      /\ b = IF sk \/ bk = << >> THEN bk ELSE SubSeq(bk, 1, Len(bk) - 1)
      /\ m \in Nat /\ m = IF vtf /\ ~sk /\ n > 0 THEN n - 1 ELSE n
      /\ left = SubSeq(fr, 1, Len(fr) - 1)
  <2>1. b \in Seq(HartValues)
    <3>1. CASE sk \/ bk = << >>
        BY <3>1 DEF HartBankLeft
    <3>2. CASE ~(sk \/ bk = << >>)
        BY <3>2, HartPopped DEF HartBankLeft
    <3> QED
        BY <3>1, <3>2
  <2> QED
      BY <2>1 DEF HartBankLeft, HartCountLeft, HartStackLeft
<1> SUFFICES /\ HartBooks(vtf, left, b, m, FALSE, lost)
             /\ left = << >> => HartBooks(vtf, left, b, m, FALSE, FALSE)
    OBVIOUS
<1> HIDE DEF b, m, left
<1> USE <1>0
<1>1. /\ left \in Seq(HartFrame) /\ Len(left) = Len(fr) - 1 /\ Len(fr) \in Nat \ {0}
      /\ \A i \in 1 .. Len(left) : left[i] = fr[i]
    BY HartPopped
<1>2. /\ Len(bk) \in Nat
      /\ sk \/ bk = << >> => b = bk
      /\ ~sk /\ bk # << >> => /\ Len(b) = Len(bk) - 1 /\ Len(bk) > 0
                             /\ \A i \in 1 .. Len(b) : b[i] = bk[i]
  <2>1. CASE sk \/ bk = << >>
      BY <2>1
  <2>2. CASE ~sk /\ bk # << >>
      BY <2>2, HartPopped
  <2> QED
      BY <2>1, <2>2
<1>3. HartBounded(vtf, left, b, m, FALSE)
  <2>1. Len(b) <= Len(left)
    <3>1. CASE sk
        BY <1>1, <1>2, <3>1 DEF HartBooks, HartBounded
    <3>2. CASE ~sk /\ bk = << >>
        BY <1>1, <1>2, <3>2 DEF HartBooks, HartBounded
    <3>3. CASE ~sk /\ bk # << >>
        BY <1>1, <1>2, <3>3 DEF HartBooks, HartBounded
    <3> QED
        BY <3>1, <3>2, <3>3
  <2>2. m <= Len(left) /\ (~vtf => m = 0)
      BY <1>1 DEF HartBooks, HartBounded
  <2> QED
      BY <2>1, <2>2, <1>1 DEF HartBounded
<1>4. CASE left = << >>
  <2>1. HartBounded(vtf, << >>, b, m, FALSE)
      BY <1>3, <1>4
  <2>2. HartBooks(vtf, << >>, b, m, FALSE, FALSE) /\ HartBooks(vtf, << >>, b, m, FALSE, lost)
      BY <2>1, HartBottom
  <2> QED
      BY <1>4, <2>2
<1>5. CASE left # << >> /\ ~lost
  <2>0. PICK a \in 0 .. Len(fr) :
        /\ \A i \in 1 .. Len(fr) : i <= a => fr[i].kind = "fault"
        /\ \/ /\ sk /\ Len(fr) = a + 1 /\ fr[a + 1].kind = "yield"
              /\ bk = << >> /\ n = 0
           \/ /\ ~sk
              /\ \A i \in 1 .. Len(fr) : i > a => fr[i].kind = "irq"
              /\ Len(bk) = Len(fr) - a
              /\ \A i \in 1 .. Len(bk) : bk[i] = fr[a + i].regs
              /\ vtf => n = Len(fr) - a
      BY <1>5 DEF HartBooks, HartTidy
  <2> DEFINE c == IF a = Len(fr) THEN a - 1 ELSE a
  <2>1. c \in 0 .. Len(left) /\ \A i \in 1 .. Len(left) : i <= c => left[i].kind = "fault"
      BY <1>1, <2>0
  <2>5. ASSUME NEW i \in 1 .. Len(left), i > c PROVE left[i].kind = "irq"
    <3>1. ~sk /\ i > a /\ i \in 1 .. Len(fr)
        BY <1>1, <2>0, <2>5
    <3> QED
        BY <1>1, <2>0, <3>1
  <2>2. Len(b) = Len(left) - c /\ (vtf => m = Len(left) - c)
    <3>1. CASE sk
        BY <1>1, <1>2, <2>0, <3>1
    <3>2. CASE ~sk /\ a = Len(fr)
        BY <1>1, <1>2, <2>0, <3>2
    <3>3. CASE ~sk /\ a # Len(fr)
      <4>1. bk # << >> /\ (vtf => n > 0)
          BY <1>1, <2>0, <3>3
      <4>2. c = a /\ Len(left) - c = (Len(fr) - a) - 1
          BY <1>1, <3>3
      <4>3. Len(b) = (Len(fr) - a) - 1
          BY <1>2, <2>0, <3>3, <4>1
      <4>4. vtf => m = (Len(fr) - a) - 1
          BY <2>0, <3>3, <4>1
      <4> QED
          BY <4>2, <4>3, <4>4
    <3> QED
        BY <3>1, <3>2, <3>3
  <2>3. ASSUME NEW i \in 1 .. Len(b) PROVE b[i] = left[c + i].regs
    <3>1. ~sk /\ bk # << >> /\ a # Len(fr)
        BY <1>1, <1>2, <2>0
    <3>2. c = a /\ i \in 1 .. Len(bk) /\ a + i \in 1 .. Len(left)
        BY <1>1, <1>2, <2>0, <3>1
    <3> QED
        BY <1>1, <1>2, <2>0, <3>1, <3>2
  <2> HIDE DEF c
  <2>4. HartTidy(vtf, left, b, m, FALSE)
      BY <2>1, <2>2, <2>3, <2>5 DEF HartTidy
  <2> QED
      BY <1>3, <2>4, <1>5 DEF HartBooks
<1>6. CASE left # << >> /\ lost
    BY <1>3, <1>6 DEF HartBooks
<1> QED
    BY <1>4, <1>5, <1>6

\* What holds of a hart in every state: only what is at the bottom of the
\* stack can be user code, and the books are kept.
HartStacked(h) ==
    /\ Len(h.frames) > 0 => h.priv = "machine"
    /\ \A i \in 1 .. Len(h.frames) : i >= 2 => h.frames[i].priv = "machine"
HartGood(h) ==
    /\ h \in HartState /\ HartStacked(h)
    /\ HartBooks(HartVtf(h), h.frames, h.bank, h.inIsr, h.skip, h.lost)
HartInv == HartGood(hart)

LEMMA HartFields ==
    ASSUME NEW h \in HartState
    PROVE  /\ h.mode \in HartModes \ {"reserved"} /\ h.priv \in HartPrivs
           /\ h.mie \in BOOLEAN /\ h.mpie \in BOOLEAN /\ h.mpp \in HartPrivs
           /\ h.mip \in SUBSET HartSources /\ h.bank \in Seq(HartValues)
           /\ h.inIsr \in Nat /\ h.skip \in BOOLEAN /\ h.regs \in HartValues
           /\ h.frames \in Seq(HartFrame) /\ h.lost \in BOOLEAN
           /\ HartVtf(h) \in BOOLEAN
    BY DEF HartState, HartVtf

\* What leaves the stack, the books and the mode alone.
LEMMA HartSameBooks ==
    ASSUME NEW h, HartGood(h), NEW g \in HartState,
           g.mode = h.mode, g.priv = h.priv, g.frames = h.frames, g.bank = h.bank,
           g.inIsr = h.inIsr, g.skip = h.skip, g.lost = h.lost
    PROVE  HartGood(g)
    BY DEF HartGood, HartStacked, HartVtf

\* With nothing on the stack there is nothing to unwind, and any mode will do.
LEMMA HartAtBottom ==
    ASSUME NEW h, HartGood(h), h.frames = << >>
    PROVE  /\ h.bank = << >> /\ h.inIsr = 0 /\ ~h.skip
           /\ HartUnwind(h) = h
           /\ \A v, lost \in BOOLEAN : HartBooks(v, << >>, << >>, 0, FALSE, lost)
<1>1. HartBounded(HartVtf(h), << >>, h.bank, h.inIsr, h.skip)
    BY DEF HartGood, HartBooks
<1>2. h \in HartState
    BY DEF HartGood
<1>3. /\ h.bank = << >> /\ h.inIsr = 0 /\ ~h.skip
      /\ \A v, lost \in BOOLEAN : HartBooks(v, << >>, h.bank, h.inIsr, h.skip, lost)
    BY <1>1, <1>2, HartFields, HartBottom
<1>4. h.skip = FALSE
    BY <1>2, <1>3, HartFields
<1>5. HartPop(h) = h
    BY <1>3 DEF HartPop
<1>6. HartUnwind(h) = h
    BY <1>3, <1>5 DEF HartUnwind
<1> QED
    BY <1>3, <1>4, <1>6

\* What every trap does to the stack.
LEMMA HartTrapFields ==
    ASSUME NEW h \in HartState, HartStacked(h), NEW kind \in {"irq", "yield", "fault"},
           NEW t, t = HartTrap(h, kind)
    PROVE  \E f \in HartFrame :
             /\ f.kind = kind /\ f.regs = h.regs
             /\ t \in HartState /\ HartStacked(t)
             /\ t.frames = Append(h.frames, f)
             /\ t.mode = h.mode /\ t.bank = h.bank /\ t.inIsr = h.inIsr
             /\ t.skip = h.skip /\ t.lost = h.lost /\ t.regs = h.regs /\ t.mip = h.mip
<1> DEFINE f == [kind |-> kind, regs |-> h.regs, priv |-> h.priv, mie |-> h.mie]
<1>1. f \in HartFrame /\ f.kind = kind /\ f.regs = h.regs /\ f.priv = h.priv
    BY HartFields DEF HartFrame
<1>2. "machine" \in HartPrivs
    BY DEF HartPrivs
<1>3. h.frames \in Seq(HartFrame)
    BY HartFields
<1>4. /\ Append(h.frames, f) \in Seq(HartFrame)
      /\ Len(Append(h.frames, f)) = Len(h.frames) + 1 /\ Len(h.frames) \in Nat
      /\ Append(h.frames, f)[Len(h.frames) + 1] = f
      /\ \A i \in 1 .. Len(h.frames) : Append(h.frames, f)[i] = h.frames[i]
  <2> HIDE DEF f
  <2> QED
      BY <1>1, <1>3, HartPushed
<1>5. t \in HartState
  <2>1. t = [h EXCEPT !.mpie = h.mie, !.mpp = h.priv, !.mie = FALSE, !.priv = "machine",
                      !.halted = FALSE, !.frames = Append(h.frames, f)]
      BY DEF HartTrap, HartState
  <2> HIDE DEF f
  <2> QED
      BY <1>2, <1>4, <2>1 DEF HartState
<1>6. /\ t.frames = Append(h.frames, f) /\ t.priv = "machine"
      /\ t.mode = h.mode /\ t.bank = h.bank /\ t.inIsr = h.inIsr
      /\ t.skip = h.skip /\ t.lost = h.lost /\ t.regs = h.regs /\ t.mip = h.mip
    BY DEF HartTrap, HartState
<1>7. HartStacked(t)
  <2>1. ASSUME NEW i \in 1 .. Len(t.frames), i >= 2 PROVE t.frames[i].priv = "machine"
    <3>1. CASE i = Len(h.frames) + 1
      <4>1. Len(h.frames) > 0
          BY <1>4, <2>1, <3>1
      <4>2. f.priv = "machine"
          BY <1>1, <4>1 DEF HartStacked
      <4>3. t.frames[i] = f
        <5> HIDE DEF f
        <5> QED
            BY <1>4, <1>6, <3>1
      <4> QED
          BY <4>2, <4>3
    <3>2. CASE i # Len(h.frames) + 1
      <4>1. i \in 1 .. Len(h.frames)
        <5> HIDE DEF f
        <5> QED
            BY <1>4, <1>6, <2>1, <3>2
      <4>2. t.frames[i] = h.frames[i]
        <5> HIDE DEF f
        <5> QED
            BY <1>4, <1>6, <4>1
      <4> QED
          BY <2>1, <4>1, <4>2 DEF HartStacked
    <3> QED
        BY <3>1, <3>2
  <2> QED
      BY <1>6, <2>1 DEF HartStacked
<1> HIDE DEF f
<1> QED
    BY <1>1, <1>5, <1>6, <1>7

LEMMA HartRaiseKeeps ==
    ASSUME NEW h, HartGood(h)
    PROVE  HartGood(HartRaise(h))
<1> DEFINE t == HartTrap(h, "fault")
           r == HartRaise(h)
           upset == h.lost \/ h.bank # << >> \/ h.skip \/ h.inIsr > 0
<1>0. h \in HartState /\ HartStacked(h)
    BY DEF HartGood
<1>1. PICK f \in HartFrame :
             /\ f.kind = "fault" /\ f.regs = h.regs
             /\ t \in HartState /\ HartStacked(t)
             /\ t.frames = Append(h.frames, f)
             /\ t.mode = h.mode /\ t.bank = h.bank /\ t.inIsr = h.inIsr
             /\ t.skip = h.skip /\ t.lost = h.lost /\ t.regs = h.regs /\ t.mip = h.mip
  <2> HIDE DEF t
  <2>1. t = HartTrap(h, "fault")
      BY DEF t
  <2> QED
      BY <1>0, <2>1, HartTrapFields
<1>2. upset \in BOOLEAN
    BY <1>0, HartFields
<1>3. r = [t EXCEPT !.lost = t.lost \/ h.bank # << >> \/ h.skip \/ h.inIsr > 0]
  <2>1. r = [HartTrap(h, "fault") EXCEPT !.lost = @ \/ h.bank # << >> \/ h.skip \/ h.inIsr > 0]
      BY DEF HartRaise
  <2> QED
      BY <2>1
<1>4. /\ r \in HartState /\ r.frames = t.frames /\ r.priv = t.priv /\ r.mode = t.mode
      /\ r.bank = t.bank /\ r.inIsr = t.inIsr /\ r.skip = t.skip /\ r.lost = upset
  <2> HIDE DEF t, r
  <2> QED
      BY <1>1, <1>2, <1>3 DEF HartState
<1>5. HartStacked(r)
  <2> HIDE DEF t, r
  <2> QED
      BY <1>1, <1>4 DEF HartStacked
<1>6. HartBooks(HartVtf(h), Append(h.frames, f), h.bank, h.inIsr, h.skip, upset)
  <2>1. HartBooks(HartVtf(h), h.frames, h.bank, h.inIsr, h.skip, h.lost)
      BY DEF HartGood
  <2>2. /\ HartVtf(h) \in BOOLEAN /\ h.frames \in Seq(HartFrame) /\ h.bank \in Seq(HartValues)
        /\ h.inIsr \in Nat /\ h.skip \in BOOLEAN /\ h.lost \in BOOLEAN
      BY <1>0, HartFields
  <2>3. f.kind = "fault"
      BY <1>1
  <2> QED
      BY <2>1, <2>2, <2>3, HartFaultKeeps
<1> HIDE DEF t, r, upset
<1>7. HartVtf(r) = HartVtf(h)
    BY <1>1, <1>4 DEF HartVtf
<1>8. HartGood(r)
    BY <1>1, <1>4, <1>5, <1>6, <1>7 DEF HartGood
<1> QED
    BY <1>8 DEF r

LEMMA HartEnterKeeps ==
    ASSUME NEW h, HartGood(h), ~HartBlocked(h), NEW cause
    PROVE  HartGood(HartEnter(h, cause))
<1> DEFINE yield == HartVtf(h) /\ cause = "soft"
           kind == IF yield THEN "yield" ELSE "irq"
           t == HartTrap(h, kind)
           r == HartEnter(h, cause)
<1>0. h \in HartState /\ HartStacked(h)
    BY DEF HartGood
<1>1. PICK f \in HartFrame :
             /\ f.kind = kind /\ f.regs = h.regs
             /\ t \in HartState /\ HartStacked(t)
             /\ t.frames = Append(h.frames, f)
             /\ t.mode = h.mode /\ t.bank = h.bank /\ t.inIsr = h.inIsr
             /\ t.skip = h.skip /\ t.lost = h.lost /\ t.regs = h.regs /\ t.mip = h.mip
  <2>1. kind \in {"irq", "yield", "fault"}
      OBVIOUS
  <2>2. t = HartTrap(h, kind)
      OBVIOUS
  <2> HIDE DEF t, kind
  <2> QED
      BY <1>0, <2>1, <2>2, HartTrapFields, SMTT(20)
<1>2. HartBooks(HartVtf(h), h.frames, h.bank, h.inIsr, h.skip, h.lost)
    BY DEF HartGood
<1>3. /\ HartVtf(h) \in BOOLEAN /\ h.frames \in Seq(HartFrame) /\ h.bank \in Seq(HartValues)
      /\ h.inIsr \in Nat /\ h.skip \in BOOLEAN /\ h.lost \in BOOLEAN
    BY <1>0, HartFields
<1>4. h.skip = FALSE /\ (HartVtf(h) => h.inIsr = 0)
    BY <1>2, <1>3 DEF HartBlocked, HartBooks, HartBounded
<1>5. HartBooks(HartVtf(h), h.frames, h.bank, h.inIsr, FALSE, h.lost)
    BY <1>2, <1>4
<1>6. t \in HartState /\ HartStacked(t) /\ t.skip = FALSE
    BY <1>1, <1>4
<1>7. CASE yield
  <2>1. r = [t EXCEPT !.mip = t.mip \ {"soft"}, !.skip = TRUE]
    <3>1. \A x : x = [t EXCEPT !.mip = @ \ {"soft"}, !.skip = TRUE] => x.skip
        BY <1>6 DEF HartState
    <3> QED
        BY <1>7, <3>1 DEF HartEnter
  <2> HIDE DEF t, r, kind
  <2>2. /\ r \in HartState /\ r.mode = h.mode /\ r.frames = Append(h.frames, f)
        /\ r.bank = h.bank /\ r.inIsr = h.inIsr /\ r.skip = TRUE /\ r.lost = h.lost
        /\ r.priv = t.priv
      BY <1>1, <2>1 DEF HartState
  <2>3. HartStacked(r)
      BY <1>1, <2>2 DEF HartStacked
  <2>4. HartVtf(r) = TRUE /\ HartVtf(h) = TRUE
      BY <1>7, <2>2 DEF HartVtf
  <2>5. h.inIsr = 0
      BY <1>4, <2>4
  <2>6. HartBooks(TRUE, h.frames, h.bank, 0, FALSE, h.lost)
      BY <1>5, <2>4, <2>5
  <2>7. f.kind = "yield"
      BY <1>1, <1>7 DEF kind
  <2>8. HartBooks(TRUE, Append(h.frames, f), h.bank, 0, TRUE, h.lost)
      BY <1>3, <2>6, <2>7, HartYieldKeeps
  <2>9. HartGood(r)
      BY <2>2, <2>3, <2>4, <2>5, <2>8 DEF HartGood
  <2> QED
      BY <2>9 DEF r
<1>8. CASE ~yield
  <2> DEFINE m == IF HartVtf(h) THEN h.inIsr + 1 ELSE h.inIsr
             d == [t EXCEPT !.inIsr = m]
  <2>1. m \in Nat
      BY <1>3
  <2>2. r = HartPush(d)
    <3>1. d.skip = FALSE
        BY <1>6 DEF HartState
    <3>2. CASE HartVtf(h)
      <4>1. d = [t EXCEPT !.inIsr = @ + 1]
          BY <1>1, <3>2
      <4> QED
          BY <1>8, <3>1, <3>2, <4>1 DEF HartEnter
    <3>3. CASE ~HartVtf(h)
      <4>1. d = t
          BY <1>1, <3>3 DEF HartState
      <4> QED
          BY <1>8, <3>1, <3>3, <4>1 DEF HartEnter
    <3> QED
        BY <3>2, <3>3
  <2>3. /\ d \in HartState /\ d.mode = h.mode /\ d.frames = Append(h.frames, f)
        /\ d.bank = h.bank /\ d.inIsr = m /\ d.skip = FALSE /\ d.lost = h.lost
        /\ d.priv = t.priv /\ d.regs = f.regs
    <3> HIDE DEF t, m, kind
    <3> QED
        BY <1>1, <1>6, <2>1 DEF HartState
  <2>4. f.kind = "irq"
      BY <1>1, <1>8
  <2>5. f.regs \in HartValues
      BY HartFrameKinds
  <2>6. /\ HartBooks(HartVtf(h), Append(h.frames, f), h.bank, m, FALSE, TRUE)
        /\ HartBooks(HartVtf(h), Append(h.frames, f), Append(h.bank, f.regs), m, FALSE, h.lost)
    <3>1. m = IF HartVtf(h) THEN h.inIsr + 1 ELSE h.inIsr
        OBVIOUS
    <3> DEFINE v == HartVtf(h)
    <3>2. v \in BOOLEAN /\ (m = IF v THEN h.inIsr + 1 ELSE h.inIsr)
        BY <1>3, <3>1
    <3>3. HartBooks(v, h.frames, h.bank, h.inIsr, FALSE, h.lost)
        BY <1>5
    <3>4. /\ h.frames \in Seq(HartFrame) /\ h.bank \in Seq(HartValues)
          /\ h.inIsr \in Nat /\ h.lost \in BOOLEAN
        BY <1>3
    <3> HIDE DEF m, v
    <3>5. /\ HartBooks(v, Append(h.frames, f), h.bank, m, FALSE, TRUE)
          /\ HartBooks(v, Append(h.frames, f), Append(h.bank, f.regs), m, FALSE, h.lost)
        BY <2>1, <2>4, <3>2, <3>3, <3>4, HartIrqKeeps
    <3> QED
        BY <3>5 DEF v
  <2> HIDE DEF t, r, kind, m, d
  <2>7. /\ r \in HartState /\ r.mode = h.mode /\ r.frames = Append(h.frames, f)
        /\ r.inIsr = m /\ r.skip = FALSE /\ r.priv = t.priv
        /\ \/ r.bank = h.bank /\ r.lost = TRUE
           \/ r.bank = Append(h.bank, f.regs) /\ r.lost = h.lost
    <3>1. CASE Len(d.bank) = HartBanks
      <4>1. r = [d EXCEPT !.lost = TRUE]
          BY <2>2, <3>1 DEF HartPush
      <4> QED
          BY <2>3, <4>1 DEF HartState
    <3>2. CASE Len(d.bank) # HartBanks
      <4>1. r = [d EXCEPT !.bank = Append(d.bank, d.regs)]
          BY <2>2, <3>2 DEF HartPush
      <4>2. Append(h.bank, f.regs) \in Seq(HartValues)
          BY <1>3, <2>5
      <4> QED
          BY <2>3, <4>1, <4>2 DEF HartState
    <3> QED
        BY <3>1, <3>2
  <2>8. HartStacked(r)
      BY <1>1, <2>7 DEF HartStacked
  <2>9. HartVtf(r) = HartVtf(h)
      BY <2>7 DEF HartVtf
  <2>10. HartGood(r)
      BY <2>6, <2>7, <2>8, <2>9 DEF HartGood
  <2> QED
      BY <2>10 DEF r
<1> QED
    BY <1>7, <1>8

\* What a return leaves of the stack and the books, but for the mode it
\* returns to.
LEMMA HartUnwindFields ==
    ASSUME NEW h \in HartState, NEW u, u = HartUnwind(h)
    PROVE  /\ u \in HartState /\ u.mode = h.mode /\ u.frames = h.frames /\ u.lost = h.lost
           /\ u.skip = FALSE /\ u.mpp = h.mpp /\ u.mpie = h.mpie
           /\ u.bank \in Seq(HartValues) /\ u.inIsr \in Nat
           /\ u.bank = IF h.skip \/ h.bank = << >> THEN h.bank
                       ELSE SubSeq(h.bank, 1, Len(h.bank) - 1)
           /\ u.inIsr = IF HartVtf(h) /\ ~h.skip /\ h.inIsr > 0 THEN h.inIsr - 1 ELSE h.inIsr
<1> DEFINE p == HartPop(h)
           n == IF HartVtf(h) /\ ~h.skip /\ h.inIsr > 0 THEN h.inIsr - 1 ELSE h.inIsr
           b == IF h.skip \/ h.bank = << >> THEN h.bank ELSE SubSeq(h.bank, 1, Len(h.bank) - 1)
<1>1. /\ h.bank \in Seq(HartValues) /\ h.inIsr \in Nat /\ h.skip \in BOOLEAN
    BY HartFields
<1>2. n \in Nat
    BY <1>1
<1>3. b \in Seq(HartValues)
  <2>1. CASE h.skip \/ h.bank = << >>
      BY <1>1, <2>1
  <2>2. CASE ~(h.skip \/ h.bank = << >>)
      BY <1>1, <2>2, HartPopped
  <2> QED
      BY <2>1, <2>2
<1>4. /\ p \in HartState /\ p.mode = h.mode /\ p.frames = h.frames /\ p.lost = h.lost
      /\ p.skip = FALSE /\ p.mpp = h.mpp /\ p.mpie = h.mpie /\ p.inIsr = h.inIsr /\ p.bank = b
  <2>1. CASE h.skip
    <3>1. p = [h EXCEPT !.skip = FALSE] /\ b = h.bank
        BY <2>1 DEF HartPop
    <3> HIDE DEF p, b
    <3> QED
        BY <3>1 DEF HartState
  <2>2. CASE ~h.skip /\ h.bank = << >>
    <3>1. p = h /\ b = h.bank /\ h.skip = FALSE
        BY <1>1, <2>2 DEF HartPop
    <3> HIDE DEF p, b
    <3> QED
        BY <3>1 DEF HartState
  <2>3. CASE ~h.skip /\ h.bank # << >>
    <3>1. h.bank[Len(h.bank)] \in HartValues
        BY <1>1, <2>3, HartPopped
    <3>2. p = [h EXCEPT !.regs = h.bank[Len(h.bank)], !.bank = b]
        BY <2>3 DEF HartPop
    <3>3. h.skip = FALSE
        BY <1>1, <2>3
    <3> HIDE DEF p, b
    <3> QED
        BY <1>3, <3>1, <3>2, <3>3 DEF HartState
  <2> QED
      BY <2>1, <2>2, <2>3
<1>5. u = [p EXCEPT !.inIsr = n]
  <2>1. CASE HartVtf(h) /\ ~h.skip /\ h.inIsr > 0
    <3>1. u = [p EXCEPT !.inIsr = @ - 1]
        BY <2>1 DEF HartUnwind
    <3> QED
        BY <1>4, <2>1, <3>1
  <2>2. CASE ~(HartVtf(h) /\ ~h.skip /\ h.inIsr > 0)
    <3>1. u = p /\ n = p.inIsr
        BY <1>4, <2>2 DEF HartUnwind
    <3> HIDE DEF p, n
    <3> QED
        BY <1>4, <3>1 DEF HartState
  <2> QED
      BY <2>1, <2>2
<1>6. /\ u \in HartState /\ u.mode = h.mode /\ u.frames = h.frames /\ u.lost = h.lost
      /\ u.skip = FALSE /\ u.mpp = h.mpp /\ u.mpie = h.mpie /\ u.bank = b /\ u.inIsr = n
  <2> HIDE DEF p, n, b
  <2> QED
      BY <1>2, <1>4, <1>5 DEF HartState
<1> QED
    BY <1>2, <1>3, <1>6

LEMMA HartMretKeeps == HartInv /\ HartMret => HartInv'
<1> SUFFICES ASSUME HartInv, HartMret PROVE HartInv'
    OBVIOUS
<1> DEFINE h == hart
           u == HartUnwind(h)
           some == Len(h.frames) > 0
           priv == IF some THEN HartTop(h).priv ELSE h.mpp
           mie == IF some THEN HartTop(h).mie ELSE h.mpie
           left == IF some THEN SubSeq(h.frames, 1, Len(h.frames) - 1) ELSE << >>
           mpp == IF HartUser THEN "user" ELSE "machine"
           lost == h.lost /\ left # << >>
           r == [u EXCEPT !.priv = priv, !.mie = mie, !.mpie = TRUE, !.mpp = mpp,
                          !.frames = left, !.lost = lost]
<1>0. HartGood(h) /\ h \in HartState
    BY DEF HartInv, HartGood
<1>1. hart' = [u EXCEPT !.priv = priv, !.mie = mie, !.mpie = TRUE, !.mpp = mpp,
                        !.frames = left, !.lost = @ /\ left # << >>]
    BY DEF HartMret, HartNested
<1>2. /\ u \in HartState /\ u.mode = h.mode /\ u.frames = h.frames /\ u.lost = h.lost
      /\ u.skip = FALSE /\ u.mpp = h.mpp /\ u.mpie = h.mpie
      /\ u.bank \in Seq(HartValues) /\ u.inIsr \in Nat
      /\ u.bank = IF h.skip \/ h.bank = << >> THEN h.bank
                  ELSE SubSeq(h.bank, 1, Len(h.bank) - 1)
      /\ u.inIsr = IF HartVtf(h) /\ ~h.skip /\ h.inIsr > 0 THEN h.inIsr - 1 ELSE h.inIsr
  <2>1. u = HartUnwind(h)
      OBVIOUS
  <2> HIDE DEF u, h
  <2> QED
      BY <1>0, <2>1, HartUnwindFields
<1>3. hart' = r
  <2> HIDE DEF u, priv, mie, left, mpp, h
  <2> QED
      BY <1>1, <1>2
<1>4. /\ h.frames \in Seq(HartFrame) /\ h.skip \in BOOLEAN /\ h.lost \in BOOLEAN
      /\ h.bank \in Seq(HartValues) /\ h.inIsr \in Nat /\ HartVtf(h) \in BOOLEAN
      /\ h.mpp \in HartPrivs /\ h.mpie \in BOOLEAN
  <2> HIDE DEF h
  <2> QED
      BY <1>0, HartFields
<1>5. mpp \in HartPrivs /\ lost \in BOOLEAN
    BY <1>4, HartAssumption DEF HartPrivs
<1>6. some => /\ h.frames # << >> /\ HartTop(h) \in HartFrame
              /\ left \in Seq(HartFrame) /\ Len(left) = Len(h.frames) - 1
              /\ \A i \in 1 .. Len(left) : left[i] = h.frames[i]
              /\ Len(h.frames) \in Nat \ {0}
  <2> SUFFICES ASSUME some
               PROVE  /\ h.frames # << >> /\ HartTop(h) \in HartFrame
                      /\ left \in Seq(HartFrame) /\ Len(left) = Len(h.frames) - 1
                      /\ \A i \in 1 .. Len(left) : left[i] = h.frames[i]
                      /\ Len(h.frames) \in Nat \ {0}
      OBVIOUS
  <2>1. left = SubSeq(h.frames, 1, Len(h.frames) - 1) /\ h.frames # << >>
      OBVIOUS
  <2> HIDE DEF left, h
  <2> QED
      BY <1>4, <2>1, HartPopped DEF HartTop
<1>7. ~some => left = << >> /\ h.frames = << >>
    BY <1>4
<1>8. priv \in HartPrivs /\ mie \in BOOLEAN /\ left \in Seq(HartFrame)
  <2>1. CASE some
      BY <1>6, <2>1 DEF HartFrame
  <2>2. CASE ~some
      BY <1>4, <2>2
  <2> QED
      BY <2>1, <2>2
<1>9. HartBooks(HartVtf(h), left, u.bank, u.inIsr, FALSE, lost)
  <2>1. CASE some
    <3>1. h.frames # << >> /\ left = SubSeq(h.frames, 1, Len(h.frames) - 1)
        BY <1>6, <2>1
    <3>2. HartBooks(HartVtf(h), h.frames, h.bank, h.inIsr, h.skip, h.lost)
        BY <1>0 DEF HartGood
    <3> DEFINE v == HartVtf(h)
               b == u.bank
               m == u.inIsr
    <3>3. /\ b \in Seq(HartValues) /\ m \in Nat
          /\ b = IF h.skip \/ h.bank = << >> THEN h.bank
                 ELSE SubSeq(h.bank, 1, Len(h.bank) - 1)
          /\ m = IF v /\ ~h.skip /\ h.inIsr > 0 THEN h.inIsr - 1 ELSE h.inIsr
        BY <1>2
    <3>4. HartBooks(v, h.frames, h.bank, h.inIsr, h.skip, h.lost) /\ v \in BOOLEAN
        BY <1>4, <3>2
    <3> DEFINE fr == h.frames
               bk == h.bank
               n == h.inIsr
               sk == h.skip
               l == h.lost
    <3>5. /\ fr \in Seq(HartFrame) /\ bk \in Seq(HartValues) /\ n \in Nat
          /\ sk \in BOOLEAN /\ l \in BOOLEAN
        BY <1>4
    <3>6. HartBooks(v, fr, bk, n, sk, l)
        BY <3>4
    <3>7. fr # << >> /\ left = HartStackLeft(fr)
        BY <3>1 DEF HartStackLeft
    <3>8. b = HartBankLeft(bk, sk) /\ m = HartCountLeft(v, n, sk)
        BY <3>3 DEF HartBankLeft, HartCountLeft
    <3> HIDE DEF left, h, v, b, m, u, fr, bk, n, sk, l
    <3>9. /\ HartBooks(v, HartStackLeft(fr), HartBankLeft(bk, sk), HartCountLeft(v, n, sk),
                       FALSE, l)
          /\ HartStackLeft(fr) = << >> =>
                 HartBooks(v, HartStackLeft(fr), HartBankLeft(bk, sk), HartCountLeft(v, n, sk),
                           FALSE, FALSE)
      <4>1. v \in BOOLEAN
          BY <3>4
      <4> QED
          BY <3>5, <3>6, <3>7, <4>1, HartReturnKeeps
    <3>10. lost = IF left = << >> THEN FALSE ELSE l
        BY <3>5 DEF l, h
    <3> QED
        BY <3>7, <3>8, <3>9, <3>10 DEF v, b, m
  <2>2. CASE ~some
    <3>1. h.frames = << >> /\ left = << >>
        BY <1>7, <2>2
    <3>2. u = h
        BY <1>0, <3>1, HartAtBottom
    <3>3. h.bank = << >> /\ h.inIsr = 0
        BY <1>0, <3>1, HartAtBottom
    <3>4. lost \in BOOLEAN
        BY <1>5
    <3>5. HartBooks(HartVtf(h), << >>, << >>, 0, FALSE, lost)
      <4> HIDE DEF h, lost
      <4> QED
          BY <1>0, <1>4, <3>1, <3>4, HartAtBottom
    <3> QED
        BY <3>1, <3>2, <3>3, <3>5
  <2> QED
      BY <2>1, <2>2
<1>10. /\ r \in HartState /\ r.mode = h.mode /\ r.frames = left /\ r.lost = lost
       /\ r.skip = FALSE /\ r.bank = u.bank /\ r.inIsr = u.inIsr /\ r.priv = priv
  <2> HIDE DEF u, priv, mie, left, mpp, h, lost
  <2> QED
      BY <1>2, <1>5, <1>8 DEF HartState
<1>11. HartStacked(r)
  <2>1. CASE some
    <3>1. \A i \in 1 .. Len(h.frames) : i >= 2 => h.frames[i].priv = "machine"
        BY <1>0 DEF HartGood, HartStacked
    <3>2. Len(left) > 0 => priv = "machine"
      <4>1. SUFFICES ASSUME Len(left) > 0 PROVE priv = "machine"
          OBVIOUS
      <4>2. Len(h.frames) >= 2 /\ Len(h.frames) \in 1 .. Len(h.frames)
          BY <1>6, <2>1, <4>1
      <4>3. h.frames[Len(h.frames)].priv = "machine"
          BY <3>1, <4>2
      <4> QED
          BY <2>1, <4>3 DEF HartTop
    <3>3. ASSUME NEW i \in 1 .. Len(left), i >= 2 PROVE left[i].priv = "machine"
      <4>1. i \in 1 .. Len(h.frames) /\ left[i] = h.frames[i]
          BY <1>6, <2>1
      <4> QED
          BY <3>1, <3>3, <4>1
    <3> HIDE DEF left, priv, r
    <3> QED
        BY <1>10, <3>2, <3>3 DEF HartStacked
  <2>2. CASE ~some
    <3>1. r.frames = << >>
        BY <1>7, <1>10, <2>2
    <3> HIDE DEF r
    <3> QED
        BY <3>1 DEF HartStacked
  <2> QED
      BY <2>1, <2>2
<1>12. HartVtf(r) = HartVtf(h)
    BY <1>10 DEF HartVtf
<1>13. HartGood(r)
  <2> HIDE DEF r, left, u, h, lost, priv
  <2> QED
      BY <1>9, <1>10, <1>11, <1>12 DEF HartGood
<1> HIDE DEF r
<1> QED
    BY <1>3, <1>13 DEF HartInv

LEMMA HartTrapsKeep == HartInv /\ HartTraps => HartInv'
<1> SUFFICES ASSUME HartInv, HartTraps PROVE HartInv'
    OBVIOUS
<1>0. HartGood(hart) /\ hart \in HartState
    BY DEF HartInv, HartGood
<1>1. CASE HartInterrupt
  <2>1. HartGood(HartEnter(hart, HartChosen(HartPending(hart))))
      BY <1>0, <1>1, HartEnterKeeps DEF HartInterrupt
  <2> QED
      BY <1>1, <2>1 DEF HartInterrupt, HartInv
<1>2. CASE HartFault
  <2>1. HartGood(HartRaise(hart))
      BY <1>0, HartRaiseKeeps
  <2> QED
      BY <1>2, <2>1 DEF HartFault, HartInv
<1>3. CASE HartMret
    BY <1>3, HartMretKeeps
<1>4. CASE HartMretUser
  <2>1. ~(Len(hart.frames) > 0)
      BY <1>0, <1>4 DEF HartMretUser, HartGood, HartStacked
  <2>2. hart.frames = << >>
      BY <1>0, <2>1, HartFields
  <2>3. HartUnwind(hart) = hart
      BY <1>0, <2>2, HartAtBottom
  <2>4. HartGood(HartRaise(hart))
      BY <1>0, HartRaiseKeeps
  <2> QED
      BY <1>4, <2>3, <2>4 DEF HartMretUser, HartInv
<1>5. CASE HartAccess
  <2>1. HartGood(HartRaise(hart))
      BY <1>0, HartRaiseKeeps
  <2> QED
      BY <1>5, <2>1 DEF HartAccess, HartInv
<1> QED
    BY <1>1, <1>2, <1>3, <1>4, <1>5 DEF HartTraps

LEMMA HartCodeKeeps == HartInv /\ (HartCode \/ HartOutside) => HartInv'
<1> SUFFICES ASSUME HartInv, HartCode \/ HartOutside PROVE HartInv'
    OBVIOUS
<1>0. HartGood(hart) /\ hart \in HartState
    BY DEF HartInv, HartGood
<1>1. ASSUME hart' \in HartState,
             hart'.mode = hart.mode, hart'.priv = hart.priv, hart'.frames = hart.frames,
             hart'.bank = hart.bank, hart'.inIsr = hart.inIsr, hart'.skip = hart.skip,
             hart'.lost = hart.lost
      PROVE  HartInv'
  <2>1. HartGood(hart')
      BY <1>0, <1>1, HartSameBooks
  <2> QED
      BY <2>1 DEF HartInv
<1>2. CASE HartCompute
  <2>1. PICK v \in HartValues : hart' = [hart EXCEPT !.regs = v]
      BY <1>2 DEF HartCompute
  <2> QED
      BY <1>0, <1>1, <2>1 DEF HartState
<1>3. CASE HartWriteGintenr
  <2>1. PICK on \in BOOLEAN : hart' = [hart EXCEPT !.mie = on, !.mpie = on]
      BY <1>3 DEF HartWriteGintenr
  <2> QED
      BY <1>0, <1>1, <2>1 DEF HartState
<1>4. CASE HartWriteMstatus
  <2>1. PICK mpp \in HartPrivs : hart' = [hart EXCEPT !.mpp = mpp]
      BY <1>4 DEF HartWriteMstatus
  <2> QED
      BY <1>0, <1>1, <2>1 DEF HartState
<1>5. CASE HartWriteMtvec
  <2>1. PICK mode \in HartModes :
            hart' = IF mode = "reserved" THEN hart ELSE [hart EXCEPT !.mode = mode]
      BY <1>5 DEF HartWriteMtvec
  <2>2. CASE mode = "reserved"
      BY <1>0, <2>1, <2>2 DEF HartInv
  <2>3. CASE mode # "reserved"
    <3> DEFINE r == [hart EXCEPT !.mode = mode]
    <3>0. hart.frames \in Seq(HartFrame) /\ hart.lost \in BOOLEAN /\ hart.skip \in BOOLEAN
        BY <1>0, HartFields
    <3>1. hart.frames = << >>
        BY <1>5, <3>0 DEF HartWriteMtvec, HartNested
    <3>2. /\ r \in HartState /\ r.frames = << >> /\ r.bank = hart.bank
          /\ r.inIsr = hart.inIsr /\ r.skip = hart.skip /\ r.lost = hart.lost
        BY <1>0, <2>3, <3>1 DEF HartState
    <3>3. hart.bank = << >> /\ hart.inIsr = 0 /\ hart.skip = FALSE
        BY <1>0, <3>0, <3>1, HartAtBottom
    <3> HIDE DEF r
    <3>4. HartVtf(r) \in BOOLEAN
        BY DEF HartVtf
    <3>5. HartBooks(HartVtf(r), << >>, << >>, 0, FALSE, hart.lost)
        BY <1>0, <3>0, <3>1, <3>4, HartAtBottom
    <3>6. HartStacked(r)
        BY <3>2 DEF HartStacked
    <3>7. HartGood(r)
        BY <3>2, <3>3, <3>5, <3>6 DEF HartGood
    <3> QED
        BY <2>1, <2>3, <3>7 DEF HartInv, r
  <2> QED
      BY <2>2, <2>3
<1>6. CASE HartWritePmp
  <2>1. PICK region \in HartRegions, rule \in HartRules :
            hart' = [hart EXCEPT !.pmp[region] = rule]
      BY <1>6 DEF HartWritePmp
  <2> QED
      BY <1>0, <1>1, <2>1 DEF HartState
<1>7. CASE HartWfi
    BY <1>0, <1>1, <1>7 DEF HartWfi, HartState
<1>8. CASE HartAsk
  <2>1. PICK source \in HartSources :
            hart' = [hart EXCEPT !.mip = IF source \in @ THEN @ \ {source} ELSE @ \cup {source}]
      BY <1>8 DEF HartAsk
  <2> QED
      BY <1>0, <1>1, <2>1 DEF HartState
<1>9. CASE HartWake
    BY <1>0, <1>1, <1>9 DEF HartWake, HartState
<1> QED
    BY <1>2, <1>3, <1>4, <1>5, <1>6, <1>7, <1>8, <1>9 DEF HartCode, HartOutside

\* A hart that was reset, as one at power-on, has nothing on the stack.
LEMMA HartFresh ==
    ASSUME NEW h \in HartState, h.frames = << >>, h.bank = << >>, h.inIsr = 0, ~h.skip
    PROVE  HartGood(h)
<1>1. h.skip = FALSE /\ h.lost \in BOOLEAN /\ HartVtf(h) \in BOOLEAN
    BY HartFields
<1>2. HartBounded(HartVtf(h), << >>, h.bank, h.inIsr, h.skip)
    BY DEF HartBounded
<1>3. HartBooks(HartVtf(h), << >>, h.bank, h.inIsr, h.skip, h.lost)
    BY <1>1, <1>2, HartFields, HartBottom
<1>4. HartStacked(h)
    BY DEF HartStacked
<1> QED
    BY <1>1, <1>3, <1>4 DEF HartGood

LEMMA HartResetKeeps == HartInv /\ HartMachineReset => HartInv'
<1> SUFFICES ASSUME HartInv, HartMachineReset PROVE HartInv'
    OBVIOUS
<1>0. hart \in HartState
    BY DEF HartInv, HartGood
<1>1. "machine" \in HartPrivs
    BY DEF HartPrivs
<1>4. << >> \in Seq(HartFrame) /\ << >> \in Seq(HartValues)
      /\ "direct" \in HartModes \ {"reserved"}
    BY DEF HartModes
<1>2. /\ hart' \in HartState /\ hart'.frames = << >> /\ hart'.bank = << >>
      /\ hart'.inIsr = 0 /\ ~hart'.skip
    BY <1>0, <1>1, <1>4 DEF HartMachineReset, HartReset, HartState
<1>3. HartGood(hart')
    BY <1>2, HartFresh
<1> QED
    BY <1>3 DEF HartInv

LEMMA HartStarts == HartInit => HartInv
<1> SUFFICES ASSUME HartInit PROVE HartInv
    OBVIOUS
<1>1. (IF HartUser THEN "user" ELSE "machine") \in HartPrivs /\ "machine" \in HartPrivs
    BY DEF HartPrivs
<1>2. {} \in HartRules
    BY HartAssumption
<1>3. /\ hart \in HartState /\ hart.frames = << >> /\ hart.bank = << >>
      /\ hart.inIsr = 0 /\ ~hart.skip
    BY <1>1, <1>2 DEF HartInit, HartState, HartModes
<1> QED
    BY <1>3, HartFresh DEF HartInv

\* What is pushed on an orderly stack is what the firmware would count.
LEMMA HartInvIsBooks == HartInv => HartBooksMatch
<1> SUFFICES ASSUME HartInv PROVE HartBooksMatch
    OBVIOUS
<1> DEFINE fr == hart.frames
           bk == hart.bank
           n == Len(fr)
           Irqs == HartOfKind(fr, "irq")[n]
           Yields == HartOfKind(fr, "yield")[n]
<1>0. HartGood(hart) /\ hart \in HartState
    BY DEF HartInv, HartGood
<1>1. /\ fr \in Seq(HartFrame) /\ bk \in Seq(HartValues) /\ hart.inIsr \in Nat
      /\ hart.skip \in BOOLEAN /\ hart.lost \in BOOLEAN /\ HartVtf(hart) \in BOOLEAN
    BY <1>0, HartFields
<1>2. n \in Nat /\ n \in 0 .. n
    BY <1>1
<1>3. ASSUME ~hart.lost
      PROVE  /\ bk = [i \in 1 .. Len(Irqs) |-> Irqs[i].regs]
             /\ HartVtf(hart) => hart.inIsr = Len(Irqs)
             /\ hart.skip = (Len(Yields) > 0)
  <2>1. PICK a \in 0 .. n :
        /\ \A i \in 1 .. n : i <= a => fr[i].kind = "fault"
        /\ \/ /\ hart.skip /\ n = a + 1 /\ fr[a + 1].kind = "yield"
              /\ bk = << >> /\ hart.inIsr = 0
           \/ /\ ~hart.skip
              /\ \A i \in 1 .. n : i > a => fr[i].kind = "irq"
              /\ Len(bk) = n - a
              /\ \A i \in 1 .. Len(bk) : bk[i] = fr[a + i].regs
              /\ HartVtf(hart) => hart.inIsr = n - a
      BY <1>0, <1>3 DEF HartGood, HartBooks, HartTidy
  <2>2. CASE hart.skip
    <3>1. \A i \in 1 .. n : fr[i].kind = "irq" <=> i > n
        BY <1>2, <2>1, <2>2
    <3>2. \A i \in 1 .. n : fr[i].kind = "yield" <=> i > a
        BY <1>2, <2>1, <2>2
    <3>3. Len(Irqs) = n - n /\ Len(Yields) = n - a
      <4>1. \A i \in 1 .. Len(fr) : fr[i].kind = "irq" <=> i > n
          BY <3>1
      <4>2. \A i \in 1 .. Len(fr) : fr[i].kind = "yield" <=> i > a
          BY <3>2
      <4>3. n \in 0 .. Len(fr) /\ a \in 0 .. Len(fr)
          BY <1>2
      <4> HIDE DEF fr
      <4>4. Len(Irqs) = n - n
          BY <1>1, <4>1, <4>3, HartPickedIsSection
      <4>5. Len(Yields) = n - a
          BY <1>1, <4>2, <4>3, HartPickedIsSection
      <4> QED
          BY <4>4, <4>5
    <3>4. Len(Irqs) = 0 /\ Len(Yields) > 0
        BY <1>2, <2>1, <2>2, <3>3
    <3>5. bk = << >> /\ hart.inIsr = 0 /\ hart.skip = TRUE
        BY <1>1, <2>1, <2>2
    <3> HIDE DEF fr, bk, n, Irqs, Yields
    <3>6. bk = [i \in 1 .. Len(Irqs) |-> Irqs[i].regs]
      <4>1. \A e : [i \in 1 .. 0 |-> e[i].regs] = << >>
          OBVIOUS
      <4> QED
          BY <3>4, <3>5, <4>1
    <3>7. (Len(Yields) > 0) = TRUE
        BY <3>4
    <3> QED
        BY <3>4, <3>5, <3>6, <3>7
  <2>3. CASE ~hart.skip
    <3>1. \A i \in 1 .. n : fr[i].kind = "irq" <=> i > a
        BY <1>2, <2>1, <2>3
    <3>2. \A i \in 1 .. n : fr[i].kind = "yield" <=> i > n
        BY <1>2, <2>1, <2>3
    <3>3. /\ Len(Irqs) = n - a /\ Len(Yields) = n - n
          /\ Irqs = [i \in 1 .. n - a |-> fr[a + i]]
      <4>1. \A i \in 1 .. Len(fr) : fr[i].kind = "irq" <=> i > a
          BY <3>1
      <4>2. \A i \in 1 .. Len(fr) : fr[i].kind = "yield" <=> i > n
          BY <3>2
      <4>3. n \in 0 .. Len(fr) /\ a \in 0 .. Len(fr)
          BY <1>2
      <4> HIDE DEF fr
      <4>4. Len(Irqs) = n - a /\ Irqs = [i \in 1 .. n - a |-> fr[a + i]]
          BY <1>1, <4>1, <4>3, HartPickedIsSection
      <4>5. Len(Yields) = n - n
          BY <1>1, <4>2, <4>3, HartPickedIsSection
      <4> QED
          BY <4>4, <4>5
    <3>4. Len(bk) = n - a /\ \A i \in 1 .. n - a : bk[i] = fr[a + i].regs
        BY <2>1, <2>3
    <3>5. Len(Yields) = 0 /\ hart.skip = FALSE /\ (HartVtf(hart) => hart.inIsr = n - a)
        BY <1>1, <1>2, <2>1, <2>3, <3>3
    <3>6. \A i \in 1 .. n - a : Irqs[i].regs = bk[i]
      <4> HIDE DEF fr, bk, n, Irqs, Yields
      <4> QED
          BY <3>3, <3>4
    <3>7. bk = [i \in 1 .. Len(bk) |-> bk[i]]
        BY <1>1
    <3> HIDE DEF fr, bk, n, Irqs, Yields
    <3>8. bk = [i \in 1 .. Len(Irqs) |-> Irqs[i].regs]
        BY <3>3, <3>4, <3>6, <3>7
    <3>9. (Len(Yields) > 0) = FALSE
        BY <3>5
    <3> QED
        BY <3>3, <3>5, <3>8, <3>9
  <2> QED
      BY <2>2, <2>3
<1>4. ~HartNested(hart) => bk = << >> /\ hart.inIsr = 0 /\ ~hart.skip
  <2> SUFFICES ASSUME ~HartNested(hart) PROVE bk = << >> /\ hart.inIsr = 0 /\ ~hart.skip
      OBVIOUS
  <2>1. hart.frames = << >>
      BY <1>1 DEF HartNested
  <2> QED
      BY <1>0, <2>1, HartAtBottom
<1>5. Irqs = HartPicked(hart, "irq") /\ Yields = HartPicked(hart, "yield")
    BY DEF HartPicked
<1> HIDE DEF fr, Irqs, Yields
<1> QED
    BY <1>3, <1>4, <1>5 DEF HartBooksMatch, HartCount

-----------------------------------------------------------------------------
(***************************************************************************)
(* The copying instruction.                                                *)
(***************************************************************************)

McpyByteSet == McpyBytes \cup {0}
McpyMemories == [McpyCells -> McpyByteSet]
McpyRecords ==
    [mem : McpyMemories, src : 0 .. McpySize, end : 0 .. McpySize, dst : 0 .. McpySize,
     shut : SUBSET McpyCells, began : McpyMemories, running : BOOLEAN]

\* The cells a copy reads and those it writes.
McpyFrom(m) == m.src .. m.src + McpyLength(m.src, m.end) - 1
McpyTo(m) == m.dst .. m.dst + McpyLength(m.src, m.end) - 1
McpyApart(m) == McpyFrom(m) \cap McpyTo(m) = {}

\* The inductive invariant: while a copy is under way it fits into the memory,
\* and only the cells it writes can be other than when it began.
McpyInv ==
    /\ mcpy \in McpyRecords
    /\ mcpy.running =>
         /\ mcpy.dst + McpyLength(mcpy.src, mcpy.end) <= McpySize
         /\ McpyApart(mcpy) =>
              \A c \in McpyCells : c \notin McpyTo(mcpy) => mcpy.mem[c] = mcpy.began[c]

LEMMA McpyFields ==
    ASSUME NEW m \in McpyRecords
    PROVE  /\ McpySize \in Nat \ {0}
           /\ m.mem \in McpyMemories /\ m.began \in McpyMemories
           /\ m.src \in 0 .. McpySize /\ m.end \in 0 .. McpySize /\ m.dst \in 0 .. McpySize
           /\ m.shut \in SUBSET McpyCells /\ m.running \in BOOLEAN
           /\ McpyLength(m.src, m.end) \in 0 .. McpySize
           /\ m.src + McpyLength(m.src, m.end) \in 0 .. McpySize
<1>1. /\ m.src \in 0 .. McpySize /\ m.end \in 0 .. McpySize /\ McpySize \in Nat \ {0}
    BY IsaAssumption DEF McpyRecords
<1>2. /\ McpyLength(m.src, m.end) \in 0 .. McpySize
      /\ m.src + McpyLength(m.src, m.end) \in 0 .. McpySize
    BY <1>1 DEF McpyLength
<1> QED
    BY <1>1, <1>2 DEF McpyRecords

\* The loop stops at its end or before.
LEMMA McpyTurnsInside ==
    ASSUME NEW m \in McpyRecords
    PROVE  McpyTurns(m) \in 0 .. McpyLength(m.src, m.end)
<1> DEFINE len == McpyLength(m.src, m.end)
           Stop(k) == k = len \/ {m.src + k, m.dst + k} \cap m.shut # {}
           stops == {k \in 0 .. len : Stop(k)}
           Least(k) == \A l \in stops : k <= l
           t == McpyTurns(m)
<1>1. len \in Nat
    BY McpyFields
<1>2. len \in stops
  <2> HIDE DEF len
  <2> QED
      BY <1>1
<1>3. stops \subseteq Nat /\ stops # {}
    BY <1>1, <1>2
<1>4. \E k \in stops : Least(k)
  <2> HIDE DEF stops
  <2> QED
      BY <1>3, NatLeast
<1>5. t = CHOOSE k \in stops : Least(k)
    BY DEF McpyTurns
<1>6. t \in stops
  <2> HIDE DEF stops, Least, t
  <2> QED
      BY <1>4, <1>5
<1> QED
    BY <1>6

\* The equation of the turns of the loop, for it has a solution.
McpyTurn(m, k, x) == [x EXCEPT ![m.dst + k - 1] = x[m.src + k - 1]]

LEMMA McpyMemEquation ==
    ASSUME NEW m \in McpyRecords, NEW n \in 0 .. McpyLength(m.src, m.end)
    PROVE  \E at \in [0 .. n -> McpyMemories] :
               /\ McpyMem(m, n) = at[n]
               /\ at[0] = m.mem
               /\ \A k \in 1 .. n : at[k] = McpyTurn(m, k, at[k - 1])
<1> DEFINE D == McpyMemories
           start == m.mem
           Step(k, x) == McpyTurn(m, k, x)
           Eq(f) == f = [k \in 0 .. n |->
                           IF k = 0 THEN m.mem
                           ELSE [f[k - 1] EXCEPT ![m.dst + k - 1] = f[k - 1][m.src + k - 1]]]
           at == CHOOSE f : Eq(f)
           len == McpyLength(m.src, m.end)
<1>1. n \in Nat /\ start \in D
  <2>1. len \in Nat
      BY McpyFields
  <2> QED
      BY <2>1, McpyFields
<1>2. \A k \in 1 .. n, x \in D : Step(k, x) \in D
  <2> SUFFICES ASSUME NEW k \in 1 .. n, NEW x \in D PROVE Step(k, x) \in D
      OBVIOUS
  <2>1. /\ m.src \in Nat /\ m.src + len \in 0 .. McpySize /\ len \in Nat /\ McpySize \in Nat
      BY McpyFields
  <2>2. m.src + k - 1 \in McpyCells
    <3> HIDE DEF len
    <3>1. n \in 0 .. len
        BY DEF len
    <3> QED
        BY <2>1, <3>1 DEF McpyCells
  <2>3. x[m.src + k - 1] \in McpyByteSet
    <3> DEFINE c == m.src + k - 1
    <3> HIDE DEF c
    <3> QED
        BY <2>2 DEF McpyMemories, c
  <2> DEFINE v == x[m.src + k - 1]
             d == m.dst + k - 1
  <2> HIDE DEF v, d
  <2>4. [x EXCEPT ![d] = v] \in McpyMemories
      BY <2>3 DEF McpyMemories, v
  <2> QED
      BY <2>4 DEF McpyTurn, v, d
<1>3. \E f : Eq(f) /\ f \in [0 .. n -> D]
  <2> DEFINE F == [k \in 1 .. n |-> [x \in D |-> Step(k, x)]]
  <2>1. F \in [1 .. n -> [D -> D]]
    <3> HIDE DEF D, Step
    <3> QED
        BY <1>2
  <2>2. PICK g : g \in Iterations(n, D, start, F)
    <3> HIDE DEF F, D, start
    <3>2. Iterations(n, D, start, F) # {}
        BY <2>1, <1>1, IterateExists
    <3> QED
        BY <3>2
  <2>3. g \in [0 .. n -> D] /\ g[0] = start /\ \A i \in 1 .. n : g[i] = F[i][g[i - 1]]
    <3> HIDE DEF F, D, start
    <3> QED
        BY <2>2 DEF Iterations
  <2>4. \A i \in 1 .. n : g[i] = Step(i, g[i - 1])
    <3> SUFFICES ASSUME NEW i \in 1 .. n PROVE g[i] = Step(i, g[i - 1])
        OBVIOUS
    <3>1. g[i - 1] \in D
      <4>1. i - 1 \in 0 .. n
          BY <1>1
      <4> HIDE DEF D
      <4> QED
          BY <4>1, <2>3
    <3>2. F[i][g[i - 1]] = Step(i, g[i - 1])
      <4> HIDE DEF Step, D
      <4> QED
          BY <3>1
    <3> QED
        BY <2>3, <3>2
  <2>5. \A k \in 0 .. n : g[k] = IF k = 0 THEN m.mem ELSE Step(k, g[k - 1])
    <3> HIDE DEF Step, D
    <3> QED
        BY <2>3, <2>4, <1>1
  <2>6. g = [k \in 0 .. n |-> IF k = 0 THEN m.mem ELSE Step(k, g[k - 1])]
    <3> HIDE DEF Step, D
    <3> QED
        BY <2>3, <2>5
  <2>7. Eq(g)
      BY <2>6 DEF McpyTurn
  <2> HIDE DEF Eq, D
  <2> QED
      BY <2>3, <2>7
<1>4. Eq(at)
  <2>1. \E f : Eq(f)
      BY <1>3
  <2> HIDE DEF Eq
  <2> QED
      BY <2>1
<1>5. at = [k \in 0 .. n |-> IF k = 0 THEN m.mem ELSE Step(k, at[k - 1])]
  <2>1. at = [k \in 0 .. n |->
                IF k = 0 THEN m.mem
                ELSE [at[k - 1] EXCEPT ![m.dst + k - 1] = at[k - 1][m.src + k - 1]]]
    <3> HIDE DEF at
    <3> QED
        BY <1>4
  <2> HIDE DEF at
  <2> QED
      BY <2>1 DEF McpyTurn
<1>6. at[0] = m.mem /\ \A k \in 1 .. n : at[k] = Step(k, at[k - 1])
  <2> HIDE DEF at, Step
  <2> QED
      BY <1>1, <1>5
<1>7. McpyMem(m, n) = at[n]
    BY DEF McpyMem
<1>8. at \in [0 .. n -> D]
  <2> DEFINE T == {k \in 0 .. n : at[k] \in D}
  <2> HIDE DEF at, Step, D
  <2>1. 0 \in T
      BY <1>1, <1>6
  <2>2. ASSUME NEW k \in 0 .. n - 1, k \in T PROVE k + 1 \in T
    <3>1. k + 1 \in 1 .. n /\ (k + 1) - 1 = k /\ k + 1 \in 0 .. n
        BY <1>1
    <3>2. at[k + 1] = Step(k + 1, at[k])
        BY <1>6, <3>1
    <3>3. Step(k + 1, at[k]) \in D
        BY <1>2, <2>2, <3>1
    <3> QED
        BY <3>1, <3>2, <3>3
  <2>3. 0 .. n \subseteq T
    <3> HIDE DEF T
    <3> QED
        BY <1>1, <2>1, <2>2, IntervalInduct
  <2>4. at = [k \in 0 .. n |-> at[k]]
      BY <1>5
  <2> QED
      BY <2>3, <2>4
<1> HIDE DEF at, Step, D
<1> QED
    BY <1>6, <1>7, <1>8 DEF Step, D

\* Between areas apart, n turns copy the first n bytes and nothing else.
LEMMA McpyMemCopies ==
    ASSUME NEW m \in McpyRecords, NEW n \in 0 .. McpyLength(m.src, m.end),
           m.dst + McpyLength(m.src, m.end) <= McpySize
    PROVE  /\ McpyMem(m, n) \in McpyMemories
           /\ McpyApart(m) =>
                \A c \in McpyCells :
                    McpyMem(m, n)[c] = IF c \in m.dst .. m.dst + n - 1
                                       THEN m.mem[m.src + (c - m.dst)] ELSE m.mem[c]
<1> DEFINE len == McpyLength(m.src, m.end)
<1>1. PICK at \in [0 .. n -> McpyMemories] :
               /\ McpyMem(m, n) = at[n]
               /\ at[0] = m.mem
               /\ \A k \in 1 .. n : at[k] = McpyTurn(m, k, at[k - 1])
    BY McpyMemEquation
<1>2. /\ len \in Nat /\ m.src \in Nat /\ m.dst \in Nat /\ McpySize \in Nat
      /\ m.src + len <= McpySize /\ m.dst + len <= McpySize /\ m.mem \in McpyMemories
    BY McpyFields
<1>0. n \in 0 .. len
    OBVIOUS
<1>3. McpyMem(m, n) \in McpyMemories
    BY <1>0, <1>1, <1>2
<1>4. ASSUME McpyApart(m)
      PROVE  \A c \in McpyCells :
                 at[n][c] = IF c \in m.dst .. m.dst + n - 1
                            THEN m.mem[m.src + (c - m.dst)] ELSE m.mem[c]
  <2> DEFINE Copied(k) ==
                 \A c \in McpyCells :
                     at[k][c] = IF c \in m.dst .. m.dst + k - 1
                                THEN m.mem[m.src + (c - m.dst)] ELSE m.mem[c]
             T == {k \in 0 .. n : Copied(k)}
  <2>0. m.src .. m.src + len - 1 \cap m.dst .. m.dst + len - 1 = {}
      BY <1>4 DEF McpyApart, McpyFrom, McpyTo
  <2>1. 0 \in T
    <3>1. Copied(0)
        BY <1>1, <1>2
    <3> HIDE DEF Copied
    <3> QED
        BY <1>0, <1>2, <3>1
  <2>2. ASSUME NEW k \in 0 .. n - 1, k \in T PROVE k + 1 \in T
    <3> DEFINE a == m.src + k
               b == m.dst + k
               x == at[k]
    <3>1. /\ k + 1 \in 1 .. n /\ (k + 1) - 1 = k /\ k + 1 \in 0 .. n /\ k \in 0 .. n
          /\ m.src + (k + 1) - 1 = a /\ m.dst + (k + 1) - 1 = b
        BY <1>0, <1>2
    <3>2. at[k + 1] = [x EXCEPT ![b] = x[a]]
      <4>1. at[k + 1] = McpyTurn(m, k + 1, x)
        <5> DEFINE j == k + 1
        <5>1. j \in 1 .. n /\ j - 1 = k
            BY <3>1
        <5> HIDE DEF j
        <5>2. at[j] = McpyTurn(m, j, at[k])
            BY <1>1, <5>1
        <5> QED
            BY <5>2 DEF j
      <4> HIDE DEF a, b, x
      <4> QED
          BY <3>1, <4>1 DEF McpyTurn
    <3>3. /\ a \in McpyCells /\ b \in McpyCells /\ a \notin m.dst .. m.dst + k - 1
      <4>1. k \in 0 .. len - 1
          BY <1>0, <1>2
      <4>2. a \in m.src .. m.src + len - 1
          BY <1>2, <4>1
      <4>3. a \notin m.dst .. m.dst + len - 1
        <5> HIDE DEF a, len
        <5> QED
            BY <2>0, <4>2
      <4>4. a \notin m.dst .. m.dst + k - 1
          BY <1>2, <4>1, <4>3
      <4> QED
          BY <1>2, <4>1, <4>4, SMTT(20) DEF McpyCells
    <3>4. Copied(k) /\ x \in McpyMemories
        BY <1>1, <2>2, <3>1
    <3>5. x[a] = m.mem[a]
      <4> HIDE DEF a
      <4> QED
          BY <3>3, <3>4
    <3>6. ASSUME NEW c \in McpyCells
          PROVE  at[k + 1][c] = IF c \in m.dst .. m.dst + (k + 1) - 1
                                THEN m.mem[m.src + (c - m.dst)] ELSE m.mem[c]
      <4>0. c \in Int
          BY DEF McpyCells
      <4>1. CASE c = b
        <5>1. at[k + 1][c] = m.mem[a]
          <6> HIDE DEF a, b, x
          <6> QED
              BY <3>2, <3>3, <3>4, <3>5, <4>1 DEF McpyMemories
        <5>2. c \in m.dst .. m.dst + (k + 1) - 1 /\ m.src + (c - m.dst) = a
            BY <1>2, <3>1, <4>1
        <5> HIDE DEF a
        <5> QED
            BY <5>1, <5>2
      <4>2. CASE c # b
        <5>1. at[k + 1][c] = x[c]
          <6> HIDE DEF a, b, x
          <6> QED
              BY <3>2, <3>4, <4>2 DEF McpyMemories
        <5>2. c \in m.dst .. m.dst + (k + 1) - 1 <=> c \in m.dst .. m.dst + k - 1
            BY <1>2, <3>1, <4>0, <4>2
        <5>3. x[c] = IF c \in m.dst .. m.dst + k - 1
                     THEN m.mem[m.src + (c - m.dst)] ELSE m.mem[c]
            BY <3>4
        <5> HIDE DEF x
        <5> QED
            BY <5>1, <5>2, <5>3
      <4> QED
          BY <4>1, <4>2
    <3>7. Copied(k + 1)
        BY <3>6
    <3> HIDE DEF Copied
    <3> QED
        BY <3>1, <3>7
  <2>3. 0 .. n \subseteq T
    <3>1. n \in Nat
        BY <1>0, <1>2
    <3> HIDE DEF T
    <3> QED
        BY <2>1, <2>2, <3>1, IntervalInduct
  <2>4. Copied(n)
    <3> HIDE DEF Copied
    <3>1. n \in 0 .. n
        BY <1>0, <1>2
    <3> QED
        BY <2>3, <3>1
  <2> QED
      BY <2>4
<1> QED
    BY <1>1, <1>3, <1>4

LEMMA McpyStarts == McpyInit => McpyInv
<1> SUFFICES ASSUME McpyInit PROVE McpyInv
    OBVIOUS
<1>1. [c \in McpyCells |-> 0] \in McpyMemories
    BY DEF McpyMemories, McpyByteSet
<1> QED
    BY <1>1, IsaAssumption DEF McpyInit, McpyInv, McpyRecords

\* What a turn does to the registers: a copy that is over leaves src at the
\* end and dst behind the copy.
LEMMA McpyTryFields ==
    ASSUME McpyInv, McpyTry,
           NEW len, len = McpyLength(mcpy.src, mcpy.end),
           NEW n, n = McpyTurns(mcpy)
    PROVE  /\ n \in 0 .. len /\ mcpy.dst + len <= McpySize /\ mcpy.running
           /\ mcpy' \in McpyRecords /\ mcpy'.mem = McpyMem(mcpy, n)
           /\ n = len => mcpy'.src = mcpy.src + n /\ mcpy'.dst = mcpy.dst + n /\ ~mcpy'.running
           /\ n # len => /\ mcpy'.src = mcpy.src /\ mcpy'.dst = mcpy.dst /\ mcpy'.running
                         /\ mcpy'.end = mcpy.end /\ mcpy'.began = mcpy.began
<1> DEFINE m == mcpy
           r == [m EXCEPT !.mem = McpyMem(m, n),
                          !.src = IF n = len THEN @ + n ELSE @,
                          !.dst = IF n = len THEN @ + n ELSE @,
                          !.began = IF n = len THEN [c \in McpyCells |-> 0] ELSE @,
                          !.shut = IF n = len THEN {} ELSE @,
                          !.running = ~(n = len)]
<1>1. mcpy' = r
    BY DEF McpyTry
<1>2. m \in McpyRecords /\ m.running /\ m.dst + len <= McpySize
    BY DEF McpyInv, McpyTry
<1>3. n \in 0 .. len
    BY <1>2, McpyTurnsInside
<1>4. McpyMem(m, n) \in McpyMemories
    BY <1>2, <1>3, McpyMemCopies
<1>5. /\ len \in 0 .. McpySize /\ m.src + len \in 0 .. McpySize /\ m.src \in 0 .. McpySize
      /\ m.dst \in 0 .. McpySize /\ McpySize \in Nat
    BY <1>2, McpyFields
<1>6. [c \in McpyCells |-> 0] \in McpyMemories
    BY DEF McpyMemories, McpyByteSet
<1>7. CASE n = len
  <2> DEFINE src == m.src + n
             dst == m.dst + n
             none == [c \in McpyCells |-> 0]
  <2>1. r = [m EXCEPT !.mem = McpyMem(m, n), !.src = src, !.dst = dst,
                      !.began = none, !.shut = {}, !.running = FALSE]
      BY <1>2, <1>7 DEF McpyRecords
  <2>2. src \in 0 .. McpySize /\ dst \in 0 .. McpySize
      BY <1>2, <1>5, <1>7
  <2>3. none \in McpyMemories /\ {} \in SUBSET McpyCells
      BY <1>6
  <2> HIDE DEF r, src, dst, none, m
  <2>4. /\ r \in McpyRecords /\ r.mem = McpyMem(m, n) /\ r.src = src /\ r.dst = dst
        /\ r.running = FALSE
      BY <1>2, <1>4, <2>1, <2>2, <2>3 DEF McpyRecords
  <2> QED
      BY <1>1, <1>2, <1>3, <1>7, <2>4 DEF m, src, dst
<1>8. CASE n # len
  <2>1. r = [m EXCEPT !.mem = McpyMem(m, n), !.running = TRUE]
      BY <1>2, <1>8 DEF McpyRecords
  <2> HIDE DEF r, m
  <2>4. /\ r \in McpyRecords /\ r.mem = McpyMem(m, n) /\ r.src = m.src /\ r.dst = m.dst
        /\ r.running = TRUE /\ r.end = m.end /\ r.began = m.began
      BY <1>2, <1>4, <2>1 DEF McpyRecords
  <2> QED
      BY <1>1, <1>2, <1>3, <1>8, <2>4 DEF m
<1> QED
    BY <1>7, <1>8

LEMMA McpyKeeps == McpyInv /\ McpyNext => McpyInv'
<1> SUFFICES ASSUME McpyInv, McpyNext PROVE McpyInv'
    OBVIOUS
<1>0. mcpy \in McpyRecords /\ McpySize \in Nat
    BY McpyFields DEF McpyInv
<1>1. CASE McpySetup
  <2>1. PICK src \in 0 .. McpySize, end \in 0 .. McpySize, dst \in 0 .. McpySize,
             shut \in SUBSET McpyCells :
          /\ dst + McpyLength(src, end) <= McpySize
          /\ mcpy' = [mcpy EXCEPT !.src = src, !.end = end, !.dst = dst, !.shut = shut,
                                  !.began = mcpy.mem, !.running = TRUE]
      BY <1>1 DEF McpySetup
  <2>2. /\ mcpy' \in McpyRecords /\ mcpy'.src = src /\ mcpy'.end = end /\ mcpy'.dst = dst
        /\ mcpy'.mem = mcpy'.began
      BY <1>0, <2>1 DEF McpyRecords
  <2> QED
      BY <2>1, <2>2 DEF McpyInv
<1>2. CASE McpyStore
  <2>1. PICK cell \in McpyCells, byte \in McpyBytes :
             mcpy' = [mcpy EXCEPT !.mem = [mcpy.mem EXCEPT ![cell] = byte]]
      BY <1>0, <1>2 DEF McpyStore, McpyRecords
  <2>2. [mcpy.mem EXCEPT ![cell] = byte] \in McpyMemories
      BY <1>0, McpyFields DEF McpyMemories, McpyByteSet
  <2>3. mcpy' \in McpyRecords /\ ~mcpy'.running
      BY <1>0, <1>2, <2>1, <2>2 DEF McpyRecords, McpyStore
  <2> QED
      BY <2>3 DEF McpyInv
<1>3. CASE McpyTry
  <2> DEFINE len == McpyLength(mcpy.src, mcpy.end)
             n == McpyTurns(mcpy)
  <2>1. /\ n \in 0 .. len /\ mcpy.dst + len <= McpySize /\ mcpy.running
        /\ mcpy' \in McpyRecords /\ mcpy'.mem = McpyMem(mcpy, n)
        /\ n = len => mcpy'.src = mcpy.src + n /\ mcpy'.dst = mcpy.dst + n /\ ~mcpy'.running
        /\ n # len => /\ mcpy'.src = mcpy.src /\ mcpy'.dst = mcpy.dst /\ mcpy'.running
                      /\ mcpy'.end = mcpy.end /\ mcpy'.began = mcpy.began
      BY <1>3, McpyTryFields
  <2>2. CASE n = len
      BY <2>1, <2>2 DEF McpyInv
  <2>3. CASE n # len
    <3>1. /\ McpyTo(mcpy)' = McpyTo(mcpy) /\ (McpyApart(mcpy)' <=> McpyApart(mcpy))
          /\ McpyLength(mcpy'.src, mcpy'.end) = len
        BY <2>1, <2>3 DEF McpyTo, McpyFrom, McpyApart
    <3>2. ASSUME McpyApart(mcpy), NEW c \in McpyCells, c \notin McpyTo(mcpy)
          PROVE  mcpy'.mem[c] = mcpy'.began[c]
      <4>1. mcpy.mem[c] = mcpy.began[c]
          BY <2>1, <3>2 DEF McpyInv
      <4>2. c \notin mcpy.dst .. mcpy.dst + n - 1
        <5>1. c \notin mcpy.dst .. mcpy.dst + len - 1
            BY <3>2 DEF McpyTo
        <5>2. mcpy.dst \in Nat /\ len \in Nat
            BY <1>0, McpyFields
        <5> HIDE DEF len, n
        <5> QED
            BY <2>1, <5>1, <5>2
      <4>3. McpyMem(mcpy, n)[c] = mcpy.mem[c]
          BY <1>0, <2>1, <3>2, <4>2, McpyMemCopies
      <4> QED
          BY <2>1, <2>3, <4>1, <4>3
    <3> HIDE DEF len, n
    <3> QED
        BY <2>1, <2>3, <3>1, <3>2 DEF McpyInv
  <2> QED
      BY <2>2, <2>3
<1>4. CASE McpyOpen
  <2>1. PICK cell \in mcpy.shut : mcpy' = [mcpy EXCEPT !.shut = mcpy.shut \ {cell}]
      BY <1>0, <1>4 DEF McpyOpen, McpyRecords
  <2>2. /\ mcpy' \in McpyRecords /\ mcpy'.src = mcpy.src /\ mcpy'.dst = mcpy.dst
        /\ mcpy'.end = mcpy.end /\ mcpy'.mem = mcpy.mem /\ mcpy'.began = mcpy.began
        /\ mcpy'.running = mcpy.running
      BY <1>0, <2>1 DEF McpyRecords
  <2> QED
      BY <2>2 DEF McpyInv, McpyTo, McpyFrom, McpyApart
<1> QED
    BY <1>1, <1>2, <1>3, <1>4 DEF McpyNext

\* The step that ends a copy.
LEMMA McpyEndsRight ==
    ASSUME McpyInv, McpyNext
    PROVE  McpyCopied
<1> DEFINE n == IF mcpy.src < mcpy.end THEN mcpy.end - mcpy.src ELSE 0
           from == mcpy.src .. mcpy.src + n - 1
           to == mcpy.dst .. mcpy.dst + n - 1
<1>a. SUFFICES ASSUME mcpy.running, ~mcpy'.running, from \cap to = {}
               PROVE  /\ mcpy'.mem = [c \in McpyCells |->
                                        IF c \in to THEN mcpy.began[mcpy.src + (c - mcpy.dst)]
                                        ELSE mcpy.began[c]]
                      /\ mcpy'.src = mcpy.src + n /\ mcpy'.dst = mcpy.dst + n
    BY Zenon DEF McpyCopied
<1>b. /\ n = IF mcpy.src < mcpy.end THEN mcpy.end - mcpy.src ELSE 0
      /\ from = mcpy.src .. mcpy.src + n - 1
      /\ to = mcpy.dst .. mcpy.dst + n - 1
    OBVIOUS
<1> HIDE DEF n, from, to
<1> USE <1>a, <1>b
<1>0. mcpy \in McpyRecords
    BY DEF McpyInv
<1>1. McpyTry
  <2>1. ~McpySetup /\ ~McpyStore
      BY DEF McpySetup, McpyStore
  <2>2. ~McpyOpen
      BY <1>0 DEF McpyOpen, McpyRecords
  <2> QED
      BY <2>1, <2>2 DEF McpyNext
<1>2. n = McpyLength(mcpy.src, mcpy.end) /\ from = McpyFrom(mcpy) /\ to = McpyTo(mcpy)
    BY DEF McpyLength, McpyFrom, McpyTo
<1> DEFINE t == McpyTurns(mcpy)
<1>3. /\ t \in 0 .. n /\ mcpy.dst + n <= McpySize
      /\ mcpy' \in McpyRecords /\ mcpy'.mem = McpyMem(mcpy, t)
      /\ t = n => mcpy'.src = mcpy.src + t /\ mcpy'.dst = mcpy.dst + t
      /\ t # n => mcpy'.running
    BY <1>1, <1>2, McpyTryFields
<1>4. t = n
    BY <1>3
<1>5. McpyApart(mcpy)
    BY <1>2 DEF McpyApart
<1>6. /\ mcpy.src \in Nat /\ mcpy.dst \in Nat /\ n \in Nat /\ McpySize \in Nat
      /\ mcpy.src + n <= McpySize
    BY <1>0, <1>2, McpyFields
<1>7. \A c \in McpyCells : mcpy'.mem[c] = IF c \in to THEN mcpy.mem[mcpy.src + (c - mcpy.dst)]
                                          ELSE mcpy.mem[c]
  <2>1. n \in 0 .. McpyLength(mcpy.src, mcpy.end)
      BY <1>2, <1>6
  <2>2. mcpy.dst + McpyLength(mcpy.src, mcpy.end) <= McpySize
      BY <1>2, <1>3
  <2>3. \A c \in McpyCells :
            McpyMem(mcpy, n)[c] = IF c \in mcpy.dst .. mcpy.dst + n - 1
                                  THEN mcpy.mem[mcpy.src + (c - mcpy.dst)] ELSE mcpy.mem[c]
      BY <1>0, <1>5, <2>1, <2>2, McpyMemCopies
  <2>4. mcpy'.mem = McpyMem(mcpy, n)
      BY <1>3, <1>4
  <2> HIDE DEF t
  <2> QED
      BY <2>3, <2>4
<1>8. \A c \in McpyCells : c \notin to => mcpy.mem[c] = mcpy.began[c]
    BY <1>2, <1>5 DEF McpyInv
<1>9. ASSUME NEW c \in McpyCells
      PROVE  mcpy'.mem[c] = IF c \in to THEN mcpy.began[mcpy.src + (c - mcpy.dst)]
                            ELSE mcpy.began[c]
  <2>1. CASE c \in to
    <3> DEFINE d == mcpy.src + (c - mcpy.dst)
    <3>1. d \in McpyCells /\ d \in from
      <4>1. c \in Int /\ mcpy.dst <= c /\ c <= mcpy.dst + n - 1
          BY <1>6, <2>1 DEF McpyCells
      <4>2. d \in Int /\ mcpy.src <= d /\ d <= mcpy.src + n - 1
          BY <1>6, <4>1, SMTT(20)
      <4> HIDE DEF d
      <4> QED
          BY <1>6, <4>2 DEF McpyCells
    <3>2. d \notin to
      <4> HIDE DEF d
      <4> QED
          BY <3>1
    <3>3. mcpy.mem[d] = mcpy.began[d]
      <4> HIDE DEF d
      <4> QED
          BY <1>8, <3>1, <3>2
    <3>4. mcpy'.mem[c] = mcpy.mem[d]
        BY <1>7, <2>1
    <3> QED
        BY <2>1, <3>3, <3>4
  <2>2. CASE c \notin to
      BY <1>7, <1>8, <2>2
  <2> QED
      BY <2>1, <2>2
<1>10. mcpy'.mem = [c \in McpyCells |-> mcpy'.mem[c]]
    BY <1>3, McpyFields DEF McpyMemories
<1>11. mcpy'.src = mcpy.src + n /\ mcpy'.dst = mcpy.dst + n
    BY <1>3, <1>4
<1>12. mcpy'.mem = [c \in McpyCells |-> IF c \in to THEN mcpy.began[mcpy.src + (c - mcpy.dst)]
                                        ELSE mcpy.began[c]]
    BY <1>9, <1>10
<1> QED
    BY <1>11, <1>12

-----------------------------------------------------------------------------
(***************************************************************************)
(* The instructions of WCH.  Every field of a word is a quotient and a     *)
(* remainder by powers of two.                                             *)
(***************************************************************************)

LEMMA IsaBitsAre ==
    \A x :
        /\ IsaBits(x, 0, 1) = (x \div 1) % 2 /\ IsaBits(x, 0, 2) = (x \div 1) % 4
        /\ IsaBits(x, 0, 4) = (x \div 1) % 16 /\ IsaBits(x, 0, 5) = (x \div 1) % 32
        /\ IsaBits(x, 0, 7) = (x \div 1) % 128 /\ IsaBits(x, 1, 2) = (x \div 2) % 4
        /\ IsaBits(x, 1, 3) = (x \div 2) % 8 /\ IsaBits(x, 1, 4) = (x \div 2) % 16
        /\ IsaBits(x, 2, 3) = (x \div 4) % 8 /\ IsaBits(x, 3, 2) = (x \div 8) % 4
        /\ IsaBits(x, 3, 3) = (x \div 8) % 8 /\ IsaBits(x, 4, 1) = (x \div 16) % 2
        /\ IsaBits(x, 4, 5) = (x \div 16) % 32 /\ IsaBits(x, 5, 2) = (x \div 32) % 4
        /\ IsaBits(x, 5, 5) = (x \div 32) % 32 /\ IsaBits(x, 7, 1) = (x \div 128) % 2
        /\ IsaBits(x, 7, 3) = (x \div 128) % 8 /\ IsaBits(x, 7, 4) = (x \div 128) % 16
        /\ IsaBits(x, 7, 5) = (x \div 128) % 32 /\ IsaBits(x, 8, 3) = (x \div 256) % 8
        /\ IsaBits(x, 9, 2) = (x \div 512) % 4 /\ IsaBits(x, 10, 2) = (x \div 1024) % 4
        /\ IsaBits(x, 10, 3) = (x \div 1024) % 8 /\ IsaBits(x, 10, 5) = (x \div 1024) % 32
        /\ IsaBits(x, 11, 5) = (x \div 2048) % 32 /\ IsaBits(x, 12, 1) = (x \div 4096) % 2
        /\ IsaBits(x, 12, 3) = (x \div 4096) % 8 /\ IsaBits(x, 13, 3) = (x \div 8192) % 8
        /\ IsaBits(x, 15, 1) = (x \div 32768) % 2
    BY DEF IsaBits, IsaPowers

IsaByteWord(e, reg, base, imm) ==
    e * 8192 + ((imm \div 1) % 2) * 4096 + ((imm \div 8) % 4) * 1024
        + (((imm \div 2) % 4) * 32 + base * 128 + reg * 4)
IsaHalfWord(e, reg, base, imm) ==
    e * 8192 + ((imm \div 8) % 8) * 1024
        + (((imm \div 2) % 4) * 32 + base * 128 + reg * 4) + 2

\* What is found in the fields of such a word.
IsaByteRead(w, e, reg, base, imm) ==
    /\ (w \div 1) % 4 = 0 /\ (w \div 8192) % 8 = e /\ (w \div 2048) % 32 # 16
    /\ (w \div 4) % 8 = reg /\ (w \div 128) % 8 = base
    /\ ((w \div 4096) % 2) + ((w \div 32) % 4) * 2 + ((w \div 1024) % 4) * 8 = imm
IsaHalfRead(w, e, reg, base, imm) ==
    /\ (w \div 1) % 4 = 2 /\ (w \div 8192) % 8 = e
    /\ (w \div 4) % 8 = reg /\ (w \div 128) % 8 = base
    /\ ((w \div 1024) % 8) * 8 + ((w \div 32) % 4) * 2 = imm

\* The bytes: the quadrant, the operation, the registers and the offset are
\* where the translator looks for them.
LEMMA IsaByteFields ==
    ASSUME NEW e \in {1, 5}, NEW reg \in 0 .. 7, NEW base \in 0 .. 7,
           NEW imm \in 0 .. 31,
           NEW w, w = IsaByteWord(e, reg, base, imm)
    PROVE  IsaByteRead(w, e, reg, base, imm)
<1>1. PICK a \in 0 .. 1, b \in 0 .. 3, d \in 0 .. 3 :
          /\ a = (imm \div 1) % 2 /\ b = (imm \div 2) % 4 /\ d = (imm \div 8) % 4
          /\ imm = a + 2 * b + 8 * d
    BY Z3
<1>2. w = e * 8192 + a * 4096 + d * 1024 + base * 128 + b * 32 + reg * 4 /\ w \in Nat
    BY <1>1 DEF IsaByteWord
<1>3. (w \div 1) % 4 = 0
    BY <1>2, Z3
<1>4. (w \div 8192) % 8 = e
    BY <1>2, Z3
<1>5. (w \div 4) % 8 = reg
    BY <1>2, Z3
<1>6. (w \div 128) % 8 = base
    BY <1>2, Z3
<1>7. (w \div 4096) % 2 = a
    BY <1>2, Z3
<1>8. (w \div 32) % 4 = b
    BY <1>2, Z3
<1>9. (w \div 1024) % 4 = d
    BY <1>2, Z3
<1>10. (w \div 2048) % 32 # 16
    BY <1>2, Z3
<1>11. ((w \div 4096) % 2) + ((w \div 32) % 4) * 2 + ((w \div 1024) % 4) * 8 = imm
  <2>1. imm = a + b * 2 + d * 8
      BY <1>1
  <2> QED
      BY <1>7, <1>8, <1>9, <2>1
<1> QED
    BY <1>3, <1>4, <1>5, <1>6, <1>10, <1>11 DEF IsaByteRead

LEMMA IsaHalfFields ==
    ASSUME NEW e \in {1, 5}, NEW reg \in 0 .. 7, NEW base \in 0 .. 7,
           NEW i \in 0 .. 31, NEW imm, imm = 2 * i,
           NEW w, w = IsaHalfWord(e, reg, base, imm)
    PROVE  IsaHalfRead(w, e, reg, base, imm)
<1>1. PICK b \in 0 .. 3, d \in 0 .. 7 :
          b = (imm \div 2) % 4 /\ d = (imm \div 8) % 8 /\ imm = 2 * b + 8 * d
    BY Z3
<1>2. w = e * 8192 + d * 1024 + base * 128 + b * 32 + reg * 4 + 2 /\ w \in Nat
    BY <1>1 DEF IsaHalfWord
<1>3. (w \div 1) % 4 = 2
    BY <1>2, Z3
<1>4. (w \div 8192) % 8 = e
    BY <1>2, Z3
<1>5. (w \div 4) % 8 = reg
    BY <1>2, Z3
<1>6. (w \div 128) % 8 = base
  <2>1. w \div 128 = e * 64 + d * 8 + base
      BY <1>2, Z3
  <2> QED
      BY <2>1, Z3
<1>7. (w \div 1024) % 8 = d
    BY <1>2, Z3
<1>8. (w \div 32) % 4 = b
    BY <1>2, SMTT(20)
<1>9. ((w \div 1024) % 8) * 8 + ((w \div 32) % 4) * 2 = imm
    BY <1>1, <1>7, <1>8
<1> QED
    BY <1>3, <1>4, <1>5, <1>6, <1>9 DEF IsaHalfRead

\* The stack forms, whose code is a field of its own.
LEMMA IsaStackFields ==
    ASSUME NEW code \in 0 .. 3, NEW reg \in 0 .. 7, NEW rest \in 0 .. 15,
           NEW w, w = 32768 + code * 32 + reg * 4 + rest * 128
    PROVE  /\ (w \div 1) % 4 = 0 /\ (w \div 8192) % 8 = 4 /\ (w \div 2048) % 32 = 16
           /\ (w \div 32) % 4 = code /\ (w \div 4) % 8 = reg
           /\ (w \div 128) % 16 = rest
           /\ (w \div 256) % 8 = rest \div 2 /\ (w \div 128) % 2 = rest % 2
<1>2. w \in Nat
    OBVIOUS
<1>3. (w \div 1) % 4 = 0
    BY <1>2, Z3
<1>4. (w \div 8192) % 8 = 4
    BY <1>2, Z3
<1>5. (w \div 2048) % 32 = 16
    BY <1>2, Z3
<1>6. (w \div 32) % 4 = code
    BY <1>2, Z3
<1>7. (w \div 4) % 8 = reg
    BY <1>2, Z3
<1>8. (w \div 128) % 16 = rest
    BY <1>2, Z3
<1>9. (w \div 256) % 8 = rest \div 2
    BY <1>2, Z3
<1>10. (w \div 128) % 2 = rest % 2
    BY <1>2, Z3
<1> QED
    BY <1>3, <1>4, <1>5, <1>6, <1>7, <1>8, <1>9, <1>10

LEMMA IsaStackHalf ==
    ASSUME NEW i \in 0 .. 15, NEW imm, imm = 2 * i,
           NEW rest, rest = 2 * ((imm \div 2) % 8) + ((imm \div 16) % 2)
    PROVE  /\ rest \in 0 .. 15
           /\ (rest \div 2) * 2 + (rest % 2) * 16 = imm
<1>1. PICK b \in 0 .. 7, d \in 0 .. 1 :
          b = (imm \div 2) % 8 /\ d = (imm \div 16) % 2 /\ imm = 2 * b + 16 * d
    BY Z3
<1>2. rest = 2 * b + d
    BY <1>1
<1>3. rest \div 2 = b /\ rest % 2 = d
    BY <1>2, Z3
<1> QED
    BY <1>1, <1>2, <1>3

IsaWorks(model) == "xw" \in model.ext /\ "C" \in model.misa

LEMMA IsaReadsQuad0 ==
    ASSUME NEW model, IsaWorks(model), NEW w, (w \div 1) % 4 = 0
    PROVE  IsaDecode(model, w) = IsaDecodeQuad0(w)
    BY IsaBitsAre DEF IsaDecode, IsaWorks

LEMMA IsaReadsQuad2 ==
    ASSUME NEW model, IsaWorks(model), NEW w, (w \div 1) % 4 = 2
    PROVE  IsaDecode(model, w) = IsaDecodeQuad2(w)
<1>1. IsaBits(w, 0, 2) = 2
    BY IsaBitsAre
<1> QED
    BY <1>1 DEF IsaDecode, IsaWorks

LEMMA IsaRunsBytes ==
    ASSUME NEW model, IsaWorks(model), NEW op \in IsaBytesOps, NEW reg \in 0 .. 7,
           NEW base \in 0 .. 7, NEW imm \in 0 .. 31
    PROVE  IsaDecode(model, IsaEncode(op, reg, base, imm)) = IsaDone(op, 8 + reg, 8 + base, imm)
<1> DEFINE e == IF op = "lbu" THEN 1 ELSE 5
           w == IsaEncode(op, reg, base, imm)
<1>1. e \in {1, 5} /\ ((op = "lbu" /\ e = 1) \/ (op = "sb" /\ e = 5))
    BY DEF IsaBytesOps
<1>2. w = IsaByteWord(e, reg, base, imm)
  <2>1. w = (IF op = "lbu" THEN 8192 ELSE 40960)
                + IsaBits(imm, 0, 1) * 4096 + IsaBits(imm, 3, 2) * 1024
                + (IsaBits(imm, 1, 2) * 32 + base * 128 + reg * 4)
      BY DEF IsaEncode, IsaBytesOps, IsaHalfOps, IsaStackBytes, IsaStackHalves
  <2>2. /\ IsaBits(imm, 0, 1) = (imm \div 1) % 2 /\ IsaBits(imm, 3, 2) = (imm \div 8) % 4
        /\ IsaBits(imm, 1, 2) = (imm \div 2) % 4
      BY IsaBitsAre
  <2>3. (IF op = "lbu" THEN 8192 ELSE 40960) = e * 8192
      BY <1>1
  <2> HIDE DEF w, e
  <2> QED
      BY <2>1, <2>2, <2>3 DEF IsaByteWord
<1> HIDE DEF w, e
<1>3. IsaByteRead(w, e, reg, base, imm)
    BY <1>1, <1>2, IsaByteFields
<1>4. IsaDecode(model, w) = IsaDecodeQuad0(w)
    BY <1>3, IsaReadsQuad0 DEF IsaByteRead
<1>5. /\ IsaBits(w, 13, 3) = e /\ IsaBits(w, 2, 3) = reg /\ IsaBits(w, 7, 3) = base
      /\ IsaBits(w, 11, 5) # 16
      /\ IsaBits(w, 12, 1) + IsaBits(w, 5, 2) * 2 + IsaBits(w, 10, 2) * 8 = imm
    BY <1>3, IsaBitsAre DEF IsaByteRead
<1>6. IsaDecodeQuad0(w) = IsaDone(op, 8 + reg, 8 + base, imm)
  <2>1. CASE op = "lbu" /\ e = 1
      BY <1>5, <2>1 DEF IsaDecodeQuad0
  <2>2. CASE op = "sb" /\ e = 5
      BY <1>5, <2>2 DEF IsaDecodeQuad0
  <2> QED
      BY <1>1, <2>1, <2>2
<1> QED
    BY <1>4, <1>6 DEF w

LEMMA IsaRunsHalves ==
    ASSUME NEW model, IsaWorks(model), NEW op \in IsaHalfOps, NEW reg \in 0 .. 7,
           NEW base \in 0 .. 7, NEW imm \in {2 * i : i \in 0 .. 31}
    PROVE  IsaDecode(model, IsaEncode(op, reg, base, imm)) = IsaDone(op, 8 + reg, 8 + base, imm)
<1> DEFINE e == IF op = "lhu" THEN 1 ELSE 5
           w == IsaEncode(op, reg, base, imm)
<1>1. e \in {1, 5} /\ ((op = "lhu" /\ e = 1) \/ (op = "sh" /\ e = 5))
    BY DEF IsaHalfOps
<1>0. PICK i \in 0 .. 31 : imm = 2 * i
    OBVIOUS
<1>2. w = IsaHalfWord(e, reg, base, imm)
  <2>1. w = (IF op = "lhu" THEN 8192 ELSE 40960) + IsaBits(imm, 3, 3) * 1024
                + (IsaBits(imm, 1, 2) * 32 + base * 128 + reg * 4) + 2
      BY DEF IsaEncode, IsaBytesOps, IsaHalfOps, IsaStackBytes, IsaStackHalves
  <2>2. IsaBits(imm, 3, 3) = (imm \div 8) % 8 /\ IsaBits(imm, 1, 2) = (imm \div 2) % 4
      BY IsaBitsAre
  <2>3. (IF op = "lhu" THEN 8192 ELSE 40960) = e * 8192
      BY <1>1
  <2> HIDE DEF w, e
  <2> QED
      BY <2>1, <2>2, <2>3 DEF IsaHalfWord
<1> HIDE DEF w, e
<1>3. IsaHalfRead(w, e, reg, base, imm)
    BY <1>0, <1>1, <1>2, IsaHalfFields
<1>4. IsaDecode(model, w) = IsaDecodeQuad2(w)
    BY <1>3, IsaReadsQuad2 DEF IsaHalfRead
<1>5. /\ IsaBits(w, 13, 3) = e /\ IsaBits(w, 2, 3) = reg /\ IsaBits(w, 7, 3) = base
      /\ IsaBits(w, 10, 3) * 8 + IsaBits(w, 5, 2) * 2 = imm
    BY <1>3, IsaBitsAre DEF IsaHalfRead
<1>6. IsaDecodeQuad2(w) = IsaDone(op, 8 + reg, 8 + base, imm)
  <2>1. CASE op = "lhu" /\ e = 1
      BY <1>5, <2>1 DEF IsaDecodeQuad2
  <2>2. CASE op = "sh" /\ e = 5
      BY <1>5, <2>2 DEF IsaDecodeQuad2
  <2> QED
      BY <1>1, <2>1, <2>2
<1> QED
    BY <1>4, <1>6 DEF w

LEMMA IsaRunsStack ==
    ASSUME NEW model, IsaWorks(model), NEW op \in IsaStackBytes \cup IsaStackHalves,
           NEW reg \in 0 .. 7, NEW base, NEW imm \in IsaOffsets(op)
    PROVE  IsaDecode(model, IsaEncode(op, reg, base, imm)) = IsaDone(op, 8 + reg, 2, imm)
<1> DEFINE w == IsaEncode(op, reg, base, imm)
           code == IsaStackCode[op]
           rest == IF op \in IsaStackBytes THEN imm
                   ELSE 2 * ((imm \div 2) % 8) + ((imm \div 16) % 2)
<1>1. /\ code \in 0 .. 3
      /\ op \in IsaStackBytes => (op = "lbusp" /\ code = 0) \/ (op = "sbsp" /\ code = 2)
      /\ op \notin IsaStackBytes => (op = "lhusp" /\ code = 1) \/ (op = "shsp" /\ code = 3)
    BY DEF IsaStackCode, IsaStackBytes, IsaStackHalves
<1>2. CASE op \in IsaStackBytes
  <2>1. imm \in 0 .. 15 /\ rest = imm
      BY <1>2 DEF IsaOffsets, IsaStackBytes, IsaStackHalves, IsaBytesOps, IsaHalfOps
  <2>2. w = 32768 + code * 32 + reg * 4 + rest * 128
      BY <1>2 DEF IsaEncode, IsaBytesOps, IsaHalfOps, IsaStackBytes, IsaStackHalves
  <2> HIDE DEF w, code, rest
  <2>3. /\ (w \div 1) % 4 = 0 /\ (w \div 8192) % 8 = 4 /\ (w \div 2048) % 32 = 16
        /\ (w \div 32) % 4 = code /\ (w \div 4) % 8 = reg /\ (w \div 128) % 16 = rest
      BY <1>1, <2>1, <2>2, IsaStackFields
  <2>4. IsaDecode(model, w) = IsaDecodeQuad0(w)
      BY <2>3, IsaReadsQuad0
  <2>5. /\ IsaBits(w, 13, 3) = 4 /\ IsaBits(w, 11, 5) = 16 /\ IsaBits(w, 5, 2) = code
        /\ IsaBits(w, 2, 3) = reg /\ IsaBits(w, 7, 4) = rest
      BY <2>3, IsaBitsAre
  <2>6. IsaDecodeQuad0(w) = IsaDone(op, 8 + reg, 2, imm)
    <3>1. CASE op = "lbusp" /\ code = 0
        BY <2>1, <2>5, <3>1 DEF IsaDecodeQuad0
    <3>2. CASE op = "sbsp" /\ code = 2
        BY <2>1, <2>5, <3>2 DEF IsaDecodeQuad0
    <3> QED
        BY <1>1, <1>2, <3>1, <3>2
  <2> QED
      BY <2>4, <2>6 DEF w
<1>3. CASE op \notin IsaStackBytes
  <2>1. PICK i \in 0 .. 15 : imm = 2 * i
      BY <1>3 DEF IsaOffsets, IsaStackBytes, IsaStackHalves, IsaBytesOps, IsaHalfOps
  <2>2. /\ rest = 2 * ((imm \div 2) % 8) + ((imm \div 16) % 2)
        /\ (imm \div 2) % 8 \in Int /\ (imm \div 16) % 2 \in Int
      BY <1>3, <2>1
  <2>3. w = 32768 + code * 32 + reg * 4 + rest * 128
    <3>1. w = 32768 + code * 32 + reg * 4 + IsaBits(imm, 1, 3) * 256 + IsaBits(imm, 4, 1) * 128
        BY <1>3 DEF IsaEncode, IsaStackBytes, IsaStackHalves, IsaBytesOps, IsaHalfOps
    <3>2. IsaBits(imm, 1, 3) = (imm \div 2) % 8 /\ IsaBits(imm, 4, 1) = (imm \div 16) % 2
        BY IsaBitsAre
    <3> HIDE DEF w, code, rest
    <3> QED
        BY <1>1, <2>2, <3>1, <3>2
  <2> HIDE DEF w, code, rest
  <2>4. rest \in 0 .. 15 /\ (rest \div 2) * 2 + (rest % 2) * 16 = imm
      BY <2>1, <2>2, IsaStackHalf
  <2>5. /\ (w \div 1) % 4 = 0 /\ (w \div 8192) % 8 = 4 /\ (w \div 2048) % 32 = 16
        /\ (w \div 32) % 4 = code /\ (w \div 4) % 8 = reg
        /\ (w \div 256) % 8 = rest \div 2 /\ (w \div 128) % 2 = rest % 2
      BY <1>1, <2>3, <2>4, IsaStackFields
  <2>6. IsaDecode(model, w) = IsaDecodeQuad0(w)
      BY <2>5, IsaReadsQuad0
  <2>7. /\ IsaBits(w, 13, 3) = 4 /\ IsaBits(w, 11, 5) = 16 /\ IsaBits(w, 5, 2) = code
        /\ IsaBits(w, 2, 3) = reg
        /\ IsaBits(w, 8, 3) * 2 + IsaBits(w, 7, 1) * 16 = imm
      BY <2>4, <2>5, IsaBitsAre
  <2>8. IsaDecodeQuad0(w) = IsaDone(op, 8 + reg, 2, imm)
    <3>1. CASE op = "lhusp" /\ code = 1
        BY <2>7, <3>1 DEF IsaDecodeQuad0
    <3>2. CASE op = "shsp" /\ code = 3
        BY <2>7, <3>2 DEF IsaDecodeQuad0
    <3> QED
        BY <1>1, <1>3, <3>1, <3>2
  <2> QED
      BY <2>6, <2>8 DEF w
<1> QED
    BY <1>2, <1>3

\* The two halves of the word of mcpy, and what the decoder reads off them.
IsaMcpyLo(end) == 28687 + IsaBits(end, 0, 1) * 32768
IsaMcpyHi(dst, src, end) == dst * 2048 + src * 16 + IsaBits(end, 1, 4)
IsaMcpyRead(lo, hi, dst, src, end) ==
    /\ IsaBits(lo, 0, 7) = 15 /\ IsaBits(lo, 12, 3) = 7 /\ IsaBits(lo, 7, 5) = 0
    /\ IsaBits(hi, 9, 2) = 0 /\ IsaBits(hi, 11, 5) = dst /\ IsaBits(hi, 4, 5) = src
    /\ IsaBits(hi, 0, 4) * 2 + IsaBits(lo, 15, 1) = end

LEMMA IsaMcpyFields ==
    ASSUME NEW dst \in 0 .. 31, NEW src \in 0 .. 31, NEW end \in 0 .. 31
    PROVE  IsaMcpyRead(IsaMcpyLo(end), IsaMcpyHi(dst, src, end), dst, src, end)
<1> DEFINE lo == IsaMcpyLo(end)
           hi == IsaMcpyHi(dst, src, end)
<1>1. PICK a \in 0 .. 1, b \in 0 .. 15 :
          a = (end \div 1) % 2 /\ b = (end \div 2) % 16 /\ end = b * 2 + a
    BY Z3
<1>2. lo = 28687 + a * 32768 /\ lo \in Nat
    BY <1>1, IsaBitsAre DEF IsaMcpyLo
<1>3. hi = dst * 2048 + src * 16 + b /\ hi \in Nat
    BY <1>1, IsaBitsAre DEF IsaMcpyHi
<1> HIDE DEF lo, hi
<1>4. (lo \div 1) % 128 = 15
    BY <1>2, Z3
<1>5. (lo \div 4096) % 8 = 7
    BY <1>2, Z3
<1>6. (lo \div 128) % 32 = 0
    BY <1>2, Z3
<1>7. (hi \div 512) % 4 = 0
    BY <1>3, Z3
<1>8. (hi \div 2048) % 32 = dst
    BY <1>3, Z3
<1>9. (hi \div 16) % 32 = src
    BY <1>3, Z3
<1>10. (hi \div 1) % 16 = b
    BY <1>3, Z3
<1>11. (lo \div 32768) % 2 = a
    BY <1>2, Z3
<1>12. IsaBits(lo, 0, 7) = 15 /\ IsaBits(lo, 12, 3) = 7 /\ IsaBits(lo, 7, 5) = 0
    BY <1>4, <1>5, <1>6, IsaBitsAre
<1>13. IsaBits(hi, 9, 2) = 0 /\ IsaBits(hi, 11, 5) = dst /\ IsaBits(hi, 4, 5) = src
    BY <1>7, <1>8, <1>9, IsaBitsAre
<1>14. IsaBits(hi, 0, 4) = b /\ IsaBits(lo, 15, 1) = a
    BY <1>10, <1>11, IsaBitsAre
<1> QED
    BY <1>1, <1>12, <1>13, <1>14 DEF IsaMcpyRead, lo, hi

\* The word of mcpy, for every register.
LEMMA IsaRunsMcpy ==
    ASSUME NEW model, "mcpy" \in model.ext, NEW dst \in 0 .. 31, NEW src \in 0 .. 31,
           NEW end \in 0 .. 31
    PROVE  IsaDecodeMcpy(model, IsaMcpyLo(end), IsaMcpyHi(dst, src, end))
               = IsaDone("mcpy", dst, src, end)
<1>1. PICK lo, hi : /\ lo = IsaMcpyLo(end) /\ hi = IsaMcpyHi(dst, src, end)
                    /\ IsaMcpyRead(lo, hi, dst, src, end)
    BY IsaMcpyFields
<1>2. IsaDecodeMcpy(model, lo, hi) = IsaDone("mcpy", dst, src, end)
    BY <1>1 DEF IsaDecodeMcpy, IsaMcpyRead
<1> QED
    BY <1>1, <1>2

\* What is said of a model by its name.
LEMMA IsaModelFacts ==
    ASSUME NEW name \in DOMAIN IsaModels
    PROVE  /\ IsaModels[name].series \in 2 .. 5 /\ IsaModels[name].version \in 1 .. 22
           /\ "xw" \in IsaModels[name].ext => IsaWorks(IsaModels[name])
    BY DEF IsaModels, IsaModel, IsaWorks

\* marchid begins with a V and names the series and the letter.
LEMMA IsaTellsMarchid ==
    ASSUME NEW model, model.series \in 2 .. 5, model.version \in 1 .. 22,
           NEW id, id = IsaMarchid(model)
    PROVE  /\ IsaBits(id, 10, 5) = 22 /\ IsaBits(id, 5, 5) = model.series
           /\ IsaBits(id, 0, 5) = model.version
<1> DEFINE s == model.series
           v == model.version
<1>1. s \in 2 .. 5 /\ v \in 1 .. 22 /\ id = 55296 + s * 32 + (v % 32)
    BY DEF IsaMarchid
<1> HIDE DEF s, v
<1>2. v % 32 = v
    BY <1>1, Z3
<1>3. id = 55296 + s * 32 + v /\ id \in Nat
    BY <1>1, <1>2
<1>4. (id \div 1024) % 32 = 22
    BY <1>1, <1>3, Z3
<1>5. (id \div 32) % 32 = s
    BY <1>1, <1>3, Z3
<1>6. (id \div 1) % 32 = v
    BY <1>1, <1>3, Z3
<1> QED
    BY <1>4, <1>5, <1>6, IsaBitsAre DEF s, v

XwInv == xw.model \in DOMAIN IsaModels /\ xw = [model |-> xw.model, asked |-> xw.asked, did |-> xw.did]
         /\ IsaRunsWhatWasWritten

LEMMA XwStarts == XwInit => XwInv
    BY IsaUsedAssumption DEF XwInit, XwInv, IsaRunsWhatWasWritten

LEMMA XwKeeps == XwInv /\ XwNext => XwInv'
<1> SUFFICES ASSUME XwInv, XwNext PROVE XwInv'
    OBVIOUS
<1> DEFINE model == IsaModels[xw.model]
<1>0. /\ model.series \in 2 .. 5 /\ model.version \in 1 .. 22
      /\ "xw" \in model.ext => IsaWorks(model)
    BY IsaModelFacts DEF XwInv
<1>1. ASSUME NEW asked, XwTell(asked, asked) PROVE XwInv'
    BY <1>1 DEF XwInv, XwTell, IsaRunsWhatWasWritten
<1>2. CASE XwRun
  <2>1. PICK op \in IsaOps, reg \in IsaRegs, base \in IsaRegs : \E imm \in IsaOffsets(op) :
            XwTell(IF "xw" \in model.ext
                   THEN IsaDone(op, 8 + reg,
                                IF op \in IsaStackBytes \cup IsaStackHalves THEN 2 ELSE 8 + base,
                                imm)
                   ELSE IsaOther,
                   IsaDecode(model, IsaEncode(op, reg, base, imm)))
      BY <1>2 DEF XwRun
  <2>2. PICK imm \in IsaOffsets(op) :
            XwTell(IF "xw" \in model.ext
                   THEN IsaDone(op, 8 + reg,
                                IF op \in IsaStackBytes \cup IsaStackHalves THEN 2 ELSE 8 + base,
                                imm)
                   ELSE IsaOther,
                   IsaDecode(model, IsaEncode(op, reg, base, imm)))
      BY <2>1
  <2>3. reg \in 0 .. 7 /\ base \in 0 .. 7
      BY IsaAssumption
  <2> DEFINE word == IsaEncode(op, reg, base, imm)
  <2> HIDE DEF model
  <2>4. CASE "xw" \notin model.ext
    <3>1. IsaDecode(model, word) = IsaOther
        BY <2>4 DEF IsaDecode
    <3> HIDE DEF word
    <3>2. XwTell(IsaOther, IsaOther)
        BY <2>2, <2>4, <3>1 DEF word
    <3> QED
        BY <1>1, <3>2
  <2>5. CASE "xw" \in model.ext /\ op \in IsaStackBytes \cup IsaStackHalves
    <3>1. IsaDecode(model, word) = IsaDone(op, 8 + reg, 2, imm)
        BY <1>0, <2>3, <2>5, IsaRunsStack
    <3>2. XwTell(IsaDone(op, 8 + reg, 2, imm), IsaDone(op, 8 + reg, 2, imm))
        BY <2>2, <2>5, <3>1
    <3> QED
        BY <1>1, <3>2
  <2>6. CASE "xw" \in model.ext /\ op \notin IsaStackBytes \cup IsaStackHalves
    <3>1. IsaDecode(model, word) = IsaDone(op, 8 + reg, 8 + base, imm)
      <4>1. CASE op \in IsaBytesOps
        <5>1. imm \in 0 .. 31
            BY <4>1 DEF IsaOffsets, IsaStackBytes, IsaStackHalves, IsaBytesOps, IsaHalfOps
        <5> QED
            BY <1>0, <2>3, <2>6, <4>1, <5>1, IsaRunsBytes, SMTT(20)
      <4>2. CASE op \in IsaHalfOps
        <5>1. imm \in {2 * i : i \in 0 .. 31}
            BY <4>2 DEF IsaOffsets, IsaStackBytes, IsaStackHalves, IsaBytesOps, IsaHalfOps
        <5> QED
            BY <1>0, <2>3, <2>6, <4>2, <5>1, IsaRunsHalves
      <4> QED
          BY <2>6, <4>1, <4>2 DEF IsaOps
    <3>2. XwTell(IsaDone(op, 8 + reg, 8 + base, imm), IsaDone(op, 8 + reg, 8 + base, imm))
        BY <2>2, <2>6, <3>1
    <3> QED
        BY <1>1, <3>2
  <2> QED
      BY <2>4, <2>5, <2>6
<1>3. CASE XwRunMcpy
  <2>1. PICK dst \in {0, 10, 31}, src \in {0, 10, 31}, end \in {0, 10, 31} :
            XwTell(IF "mcpy" \in model.ext THEN IsaDone("mcpy", dst, src, end) ELSE IsaOther,
                   IsaDecodeMcpy(model, IsaMcpyLo(end), IsaMcpyHi(dst, src, end)))
      BY <1>3 DEF XwRunMcpy, IsaMcpyLo, IsaMcpyHi
  <2>2. dst \in 0 .. 31 /\ src \in 0 .. 31 /\ end \in 0 .. 31
      OBVIOUS
  <2> DEFINE run == IsaDecodeMcpy(model, IsaMcpyLo(end), IsaMcpyHi(dst, src, end))
  <2>3. CASE "mcpy" \in model.ext
    <3> HIDE DEF model
    <3>1. run = IsaDone("mcpy", dst, src, end)
        BY <2>2, <2>3, IsaRunsMcpy, ZenonT(40)
    <3> HIDE DEF run
    <3>2. XwTell(IsaDone("mcpy", dst, src, end), IsaDone("mcpy", dst, src, end))
        BY <2>1, <2>3, <3>1 DEF run
    <3> QED
        BY <1>1, <3>2
  <2>4. CASE "mcpy" \notin model.ext
    <3>1. run = IsaOther
        BY <2>4 DEF IsaDecodeMcpy
    <3> HIDE DEF run, model
    <3>2. XwTell(IsaOther, IsaOther)
        BY <2>1, <2>4, <3>1 DEF run
    <3> QED
        BY <1>1, <3>2
  <2> QED
      BY <2>3, <2>4
<1>4. CASE XwReadMarchid
  <2> DEFINE id == IsaMarchid(model)
  <2>1. XwTell(IsaDone("marchid", 22, model.series, model.version),
               IsaDone("marchid", IsaBits(id, 10, 5), IsaBits(id, 5, 5), IsaBits(id, 0, 5)))
      BY <1>4 DEF XwReadMarchid
  <2>2. /\ IsaBits(id, 10, 5) = 22 /\ IsaBits(id, 5, 5) = model.series
        /\ IsaBits(id, 0, 5) = model.version
    <3>1. id = IsaMarchid(model)
        OBVIOUS
    <3> HIDE DEF id, model
    <3> QED
        BY <1>0, <3>1, IsaTellsMarchid
  <2> HIDE DEF id, model
  <2> QED
      BY <1>1, <2>1, <2>2
<1>5. CASE XwRetire
    BY <1>5 DEF XwRetire, XwInv, IsaRunsWhatWasWritten
<1> QED
    BY <1>2, <1>3, <1>4, <1>5 DEF XwNext

-----------------------------------------------------------------------------
(***************************************************************************)
(* The board with these units.                                             *)
(***************************************************************************)

LEMMA BoardStepsLite == [BoardNext]_boardVars => LiteNext \/ UNCHANGED lite
    BY DEF BoardNext, boardVars, FlashStep, DogStep, BackupStep, RccStep, I2cStep, SpiStep,
           PinsStep, SmallStep, PlainStep, UsbStep, Eth10mStep, DmaStep, LiteStep, PhyStep,
           HartStep, XwStep, McpyStep, BusStep, BootStep, BoardReset, LiteNext

LEMMA BoardStepsBoot == [BoardNext]_boardVars => BootNext \/ UNCHANGED boot
    BY DEF BoardNext, boardVars, FlashStep, DogStep, BackupStep, RccStep, I2cStep, SpiStep,
           PinsStep, SmallStep, PlainStep, UsbStep, Eth10mStep, DmaStep, LiteStep, PhyStep,
           HartStep, XwStep, McpyStep, BusStep, BootStep, BoardReset

LEMMA BoardStepsHart == [BoardNext]_boardVars => (HartNext \/ HartMachineReset) \/ UNCHANGED hart
    BY DEF BoardNext, boardVars, FlashStep, DogStep, BackupStep, RccStep, I2cStep, SpiStep,
           PinsStep, SmallStep, PlainStep, UsbStep, Eth10mStep, DmaStep, LiteStep, PhyStep,
           HartStep, XwStep, McpyStep, BusStep, BootStep, BoardReset

\* The ring of a light USART (ch32-usart-lite.c) never loses an accepted byte
\* to a later one and never changes their order, whatever its size.
THEOREM BoardLiteRingIsQueue == BoardSpec => []LiteRingIsQueue
<1>1. BoardInit => LiteInv
    BY LiteStarts DEF BoardInit
<1>2. LiteInv /\ [BoardNext]_boardVars => LiteInv'
  <2>1. LiteInv /\ UNCHANGED lite => LiteInv'
      BY DEF LiteInv, LiteTypeOK, LiteHolds
  <2> QED
      BY <2>1, BoardStepsLite, LiteKeeps
<1>3. LiteInv => LiteRingIsQueue
    BY LiteInvIsQueue DEF LiteInv
<1> QED
    BY <1>1, <1>2, <1>3, PTL DEF BoardSpec

\* Whatever image the machine is given and wherever its records lie, the hart
\* starts at an address that is inside it (ch32_load_firmware).
THEOREM BoardBootStartsInImage == BoardSpec => []BootStartsInImage
<1>1. BoardInit => BootInv
    BY BootStarts
<1>2. BootInv /\ [BoardNext]_boardVars => BootInv'
  <2>1. BootInv /\ UNCHANGED boot => BootInv'
      BY DEF BootInv, BootTypeOK, BootStartsInImage, BootRunning
  <2> QED
      BY <2>1, BoardStepsBoot, BootKeeps
<1>3. BootInv => BootStartsInImage
    BY DEF BootInv
<1> QED
    BY <1>1, <1>2, <1>3, PTL DEF BoardSpec

\* In every mode of mtvec and for every depth of the bank and of nesting, the
\* bank, the count of handlers and the flag of a yield match the frames on the
\* stack, and are clear when nothing is nested (op_helper.c, cpu_helper.c).
THEOREM BoardHartBooksMatch == BoardSpec => []HartBooksMatch
<1>1. BoardInit => HartInv
    BY HartStarts DEF BoardInit
<1>2. HartInv /\ [BoardNext]_boardVars => HartInv'
  <2>1. HartInv /\ UNCHANGED hart => HartInv'
      BY DEF HartInv
  <2> QED
      BY <2>1, BoardStepsHart, HartTrapsKeep, HartCodeKeeps, HartResetKeeps
         DEF HartNext
<1> QED
    BY <1>1, <1>2, HartInvIsBooks, PTL DEF BoardSpec

LEMMA BoardStepsMcpy == [BoardNext]_boardVars => McpyNext \/ UNCHANGED mcpy
    BY DEF BoardNext, boardVars, FlashStep, DogStep, BackupStep, RccStep, I2cStep, SpiStep,
           PinsStep, SmallStep, PlainStep, UsbStep, Eth10mStep, DmaStep, LiteStep, PhyStep,
           HartStep, XwStep, McpyStep, BusStep, BootStep, BoardReset

\* However often a fault makes mcpy start again, a copy between areas apart
\* leaves the source as it was in the target and everything else alone, for a
\* memory of any size (decode_wch_mcpy32).
THEOREM BoardMcpyCopiesOnce == BoardSpec => McpyCopiesOnce
<1>1. BoardInit => McpyInv
    BY McpyStarts DEF BoardInit
<1>2. McpyInv /\ [BoardNext]_boardVars => McpyInv'
  <2>1. McpyInv /\ UNCHANGED mcpy => McpyInv'
      BY DEF McpyInv, McpyTo, McpyFrom, McpyApart
  <2> QED
      BY <2>1, BoardStepsMcpy, McpyKeeps
<1>3. McpyInv /\ [BoardNext]_boardVars => [McpyCopied]_mcpy
  <2>1. McpyInv /\ McpyNext => McpyCopied
      BY McpyEndsRight
  <2> QED
      BY <2>1, BoardStepsMcpy
<1> QED
    BY <1>1, <1>2, <1>3, PTL DEF BoardSpec, McpyCopiesOnce

LEMMA BoardStepsXw == [BoardNext]_boardVars => XwNext \/ UNCHANGED xw
    BY DEF BoardNext, boardVars, FlashStep, DogStep, BackupStep, RccStep, I2cStep, SpiStep,
           PinsStep, SmallStep, PlainStep, UsbStep, Eth10mStep, DmaStep, LiteStep, PhyStep,
           HartStep, XwStep, McpyStep, BusStep, BootStep, BoardReset

\* Every model that has the instructions of WCH runs the one that was written,
\* with its registers and its offset, for each register and each offset that
\* fits; the others take the word for what it is without them
\* (trans_rvwch.c.inc, th_csr.c).
THEOREM BoardIsaRunsWhatWasWritten == BoardSpec => []IsaRunsWhatWasWritten
<1>1. BoardInit => XwInv
    BY XwStarts DEF BoardInit
<1>2. XwInv /\ [BoardNext]_boardVars => XwInv'
  <2>1. XwInv /\ UNCHANGED xw => XwInv'
      BY DEF XwInv, IsaRunsWhatWasWritten
  <2> QED
      BY <2>1, BoardStepsXw, XwKeeps
<1>3. XwInv => IsaRunsWhatWasWritten
    BY DEF XwInv
<1> QED
    BY <1>1, <1>2, <1>3, PTL DEF BoardSpec

LEMMA BoardStepsBus == [BoardNext]_boardVars => BusNext \/ UNCHANGED bus
    BY DEF BoardNext, boardVars, FlashStep, DogStep, BackupStep, RccStep, I2cStep, SpiStep,
           PinsStep, SmallStep, PlainStep, UsbStep, Eth10mStep, DmaStep, LiteStep, PhyStep,
           HartStep, XwStep, McpyStep, BusStep, BootStep, BoardReset

\* On every board and with every flash size the machine accepts, each device
\* and each memory answers at its first and at its last address, except the
\* AFIO block, however the regions overlap (ch32_machine_init).
THEOREM BoardMapDevicesAnswer == BoardSpec => []MapDevicesAnswer
<1>1. BoardInit => BusInv
    BY BusStarts DEF BoardInit
<1>2. BusInv /\ [BoardNext]_boardVars => BusInv'
  <2>1. BusInv /\ UNCHANGED bus => BusInv'
      BY DEF BusInv
  <2> QED
      BY <2>1, BoardStepsBus, BusKeeps
<1>3. BusInv => MapDevicesAnswer
    BY BusDevicesAnswer
<1> QED
    BY <1>1, <1>2, <1>3, PTL DEF BoardSpec
===============================================================================
