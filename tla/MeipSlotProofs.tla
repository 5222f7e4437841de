---------------------------- MODULE MeipSlotProofs ----------------------------
(***************************************************************************)
(* Proofs about MeipSlot.                                                  *)
(***************************************************************************)
EXTENDS MeipSlot, WellFoundedInduction, SequenceTheorems, TLAPS

USE IrqsAssumption, PendedAssumption, GuestResetAssumption

\* The constant sets of interrupt numbers, as the provers need them.
LEMMA IrqFacts ==
    /\ Irqs \subseteq Nat /\ 0 \notin Irqs
    /\ Owners \subseteq Nat /\ 0 \notin Owners /\ Irqs \subseteq Owners
    /\ SoftwareIrq \notin Owners
    /\ Owners \cap TableIrqs \subseteq Irqs
    /\ SoftwareIrq \notin TableIrqs /\ SysTickIrq \notin TableIrqs
    /\ DmaIrqs \subseteq TableIrqs /\ DmaIrqs \subseteq GatedIrqs
    /\ LatchIrqs \subseteq TableIrqs /\ UsartIrqs \subseteq TableIrqs
    /\ UsbIrqs \subseteq TableIrqs /\ UsbIrqs \subseteq GatedIrqs
    /\ UsartIrqs \cap (LatchIrqs \cup UsbIrqs \cup DmaIrqs) = {}
    /\ LatchIrqs \cap (UsbIrqs \cup DmaIrqs) = {}
    /\ UsbIrqs \cap DmaIrqs = {}
    /\ 0 \notin TableIrqs
BY DEF SoftwareIrq, SysTickIrq, SystemIrqs, Owners, TableIrqs, GatedIrqs, LatchIrqs, UsartIrqs, UsbIrqs, DmaIrqs,
   LiteIrqs, TimIrqs, Usart1Irq, EthIrq, Eth10mIrq, UsbHsIrq, UsbFsIrq,
   Dma1Irqs, Dma2Irqs, DmaExIrqs

\* A non-empty set of naturals has a least element.
LEMMA LeastNat ==
    ASSUME NEW S \in SUBSET Nat, S # {}
    PROVE  \E x \in S : \A y \in S : x <= y
<1> DEFINE R == {p \in Nat \X Nat : p[1] < p[2]}
<1>1. IsWellFoundedOn(R, Nat)
  BY NatLessThanWellFounded DEF OpToRel
<1>2. PICK x \in S : \A y \in S : << y, x >> \notin R
  <2> HIDE DEF R
  <2> QED BY <1>1, WFMin
<1>3. ASSUME NEW y \in S PROVE x <= y
  <2>1. x \in Nat /\ y \in Nat
    OBVIOUS
  <2>2. << y, x >> \in Nat \X Nat /\ << y, x >> \notin R
    BY <1>2, <2>1
  <2>3. ~(y < x)
    BY <2>2, SMTT(20)
  <2> QED BY <2>1, <2>3
<1> QED BY <1>3

\* The lowest number of a set of numbers is in the set.
LEMMA LowestIsIn ==
    ASSUME NEW S \in SUBSET Nat, S # {}
    PROVE  Lowest(S) \in S
BY LeastNat DEF Lowest

\* Every device of the table has a rank.
LEMMA RankIsNat == \A x \in TableIrqs : Rank[x] \in Nat
<1>1. SUFFICES ASSUME NEW x \in TableIrqs
               PROVE  \E i \in 1 .. Len(ScanOrder) : ScanOrder[i] = x
  BY DEF Rank
<1>2. Len(ScanOrder) = 36
  BY DEF ScanOrder
<1>3. QED
  BY <1>2 DEF ScanOrder, TableIrqs, UsartIrqs, LatchIrqs, UsbIrqs, DmaIrqs,
     LiteIrqs, TimIrqs, Usart1Irq, EthIrq, Eth10mIrq, UsbHsIrq, UsbFsIrq,
     Dma1Irqs, Dma2Irqs, DmaExIrqs

\* The first device of a set in table order is in the set.
LEMMA FirstIsIn ==
    ASSUME NEW S \in SUBSET TableIrqs, S # {}
    PROVE  FirstInTable(S) \in S
<1> DEFINE ranks == {Rank[x] : x \in S}
<1>1. ranks \in SUBSET Nat /\ ranks # {}
  BY RankIsNat
<1>2. \E r \in ranks : \A q \in ranks : r <= q
  BY <1>1, LeastNat
<1>3. \E x \in S : \A y \in S : Rank[x] <= Rank[y]
  BY <1>2
<1> QED BY <1>3 DEF FirstInTable

-----------------------------------------------------------------------------
(***************************************************************************)
(* The inductive invariant.                                                *)
(***************************************************************************)

RouteInv ==
    /\ IactrIsOwner
    /\ LatchMatches
    /\ OwnerAsks
    /\ ~GuestReset => MeipMatchesOwner

Inv == TypeOK /\ RouteInv

\* The devices that ask are among those of the instance.
LEMMA RequestingIsTyped ==
    ASSUME RequestOK
    PROVE  Requesting \subseteq Irqs \cap TableIrqs
BY DEF RequestOK, Requesting

\* A walk of the table re-establishes every part of the invariant, whatever
\* the requests were before it.
LEMMA RescanStep ==
    ASSUME TypeOK, IactrIsOwner, RequestOK',
           NEW soft \in BOOLEAN, NEW again, Rescan(soft, again)
    PROVE  RouteOK' /\ RouteInv'
<1> DEFINE hw == Requesting' \ latched
           sw == IF soft /\ hw = {} THEN (ienr' \cap ipr) \ (TableIrqs \cup {SoftwareIrq, SysTickIrq})
                 ELSE {}
           w  == IF hw # {} THEN FirstInTable(hw)
                 ELSE IF sw # {} THEN Lowest(sw) ELSE 0
<1>1. Requesting' \subseteq Irqs \cap TableIrqs
  BY DEF RequestOK, Requesting
<1>2. hw # {} => FirstInTable(hw) \in hw
  <2> HIDE DEF hw
  <2>1. hw \in SUBSET TableIrqs
    BY <1>1 DEF hw
  <2> QED BY <2>1, FirstIsIn
<1>3. sw \subseteq Owners /\ sw \cap TableIrqs = {}
  BY DEF TypeOK, RouteOK
<1>4. sw # {} => Lowest(sw) \in sw
  <2> HIDE DEF sw
  <2>1. sw \in SUBSET Nat
    BY <1>3, IrqFacts
  <2> QED BY <2>1, LowestIsIn
<1>5. w \in hw \cup sw \cup {0}
  BY <1>2, <1>4
<1>6. /\ slot' = w
      /\ mip' = (IF w # 0 THEN {"MEIP"} ELSE {})
                    \cup (mip \cap (IF stk' # "off" THEN {"MTIP"} ELSE {}))
                    \cup (mip \cap (IF SoftwareIrq \in ienr' THEN {"MSIP"} ELSE {}))
      /\ mie' \subseteq Bits
      /\ iactr' = (iactr \ {slot}) \cup ({w} \ (DmaIrqs \cup {0}))
      /\ ipr' = (ipr \ (sw \cap {w})) \cup (Requesting' \cap DmaIrqs)
      /\ latched' = (latched \cap Requesting') \cup ({w} \cap LatchIrqs)
  BY DEF Rescan, Bits, TypeOK, RouteOK
<1> HIDE DEF hw, sw, w
<1>7. w \in Owners \cup {0} /\ (w \in TableIrqs => w \in Requesting')
  BY <1>1, <1>3, <1>5, IrqFacts DEF hw
<1>8. RouteOK'
  BY <1>1, <1>6, <1>7, IrqFacts DEF TypeOK, RouteOK, Bits
<1>9. IactrIsOwner'
  BY <1>6 DEF IactrIsOwner
<1>10. LatchMatches'
  BY <1>6, <1>7, IrqFacts DEF LatchMatches, TypeOK, RouteOK
<1>11. OwnerAsks'
  BY <1>6, <1>7 DEF OwnerAsks
<1>12. MeipMatchesOwner'
  BY <1>6, <1>7, IrqFacts DEF MeipMatchesOwner
<1> QED BY <1>8, <1>9, <1>10, <1>11, <1>12 DEF RouteInv

\* The parts of the invariant survive a step that leaves the owner and its
\* request alone.
LEMMA ClaimStep ==
    ASSUME TypeOK, RouteInv, RequestOK', UNCHANGED vtfInIsr,
           NEW x \in Requesting', slot \in {0, x}, ClaimSlot(x),
           ipr' \in SUBSET (Owners \cup {SoftwareIrq}),
           latched' \in SUBSET (Irqs \cap LatchIrqs),
           latched' \ untold' \subseteq Requesting',
           x \in LatchIrqs => x \in latched'
    PROVE  RouteOK' /\ RouteInv'
<1>1. x \in Irqs \cap TableIrqs /\ x # 0
  BY IrqFacts DEF RequestOK, Requesting
<1>2. RouteOK'
  BY <1>1, IrqFacts DEF ClaimSlot, TypeOK, RouteOK, Bits
<1>3. IactrIsOwner'
  BY <1>1 DEF ClaimSlot, RouteInv, IactrIsOwner
<1>4. LatchMatches' /\ OwnerAsks' /\ MeipMatchesOwner'
  BY <1>1 DEF ClaimSlot, LatchMatches, OwnerAsks, MeipMatchesOwner
<1> QED BY <1>2, <1>3, <1>4 DEF RouteInv

\* A USART resync, alone or of the Lite family, keeps the routing invariant.
LEMMA UsartStep ==
    ASSUME TypeOK, RouteInv, RequestOK', UNCHANGED vtfInIsr,
           NEW F \in SUBSET UsartIrqs,
           \A y \in TableIrqs \ F : y \in Requesting' <=> y \in Requesting,
           slot \in {0, slot'} => untold \ F \subseteq untold',
           UsartResync(F)
    PROVE  RouteOK' /\ RouteInv'
<1> DEFINE want == F \cap Requesting'
<1>1. want \in SUBSET TableIrqs /\ want \subseteq Requesting'
  BY IrqFacts
<1>2. want # {} => FirstInTable(want) \in want
  <2> HIDE DEF want
  <2> QED BY <1>1, FirstIsIn
<1>3. slot \in {0, slot'} => latched \ untold' \subseteq Requesting'
  BY IrqFacts DEF RouteInv, LatchMatches, TypeOK, RouteOK
<1>4. CASE /\ slot \in want \/ (slot = 0 /\ want # {})
           /\ ClaimSlot(IF slot = 0 THEN FirstInTable(want) ELSE slot)
           /\ UNCHANGED << ipr, latched >>
  <2> DEFINE x == IF slot = 0 THEN FirstInTable(want) ELSE slot
  <2>1. x \in want
    BY <1>2, <1>4
  <2>2. x \in Requesting' /\ slot \in {0, x} /\ x \notin LatchIrqs
    BY <2>1, <1>1, <1>4, IrqFacts
  <2>3. ClaimSlot(x) /\ slot' = x
    BY <1>4 DEF ClaimSlot
  <2> HIDE DEF x
  <2> QED BY <1>3, <1>4, <2>2, <2>3, ClaimStep DEF TypeOK, RouteOK
<1>5. CASE /\ slot \in F \ want
           /\ vtfInIsr > 0
           /\ mip' = mip \ {"MEIP"}
           /\ UNCHANGED << slot, mie, iactr, ipr, latched >>
  <2>1. RouteOK'
    BY <1>5 DEF TypeOK, RouteOK
  <2>2. slot \in UsartIrqs /\ slot \notin Requesting'
    BY <1>5
  <2>3. IactrIsOwner' /\ LatchMatches' /\ OwnerAsks' /\ MeipMatchesOwner'
    BY <1>3, <1>5, <2>2, IrqFacts
    DEF RouteInv, IactrIsOwner, LatchMatches, OwnerAsks, MeipMatchesOwner
  <2> QED BY <2>1, <2>3 DEF RouteInv
<1>6. CASE slot \in F \ want /\ vtfInIsr = 0 /\ Rescan(FALSE, {y \in F : y > slot})
  BY <1>6, RescanStep DEF RouteInv
<1>7. CASE slot \notin F /\ Hold
  <2>1. /\ slot \in TableIrqs => (slot \in Requesting' <=> slot \in Requesting)
        /\ slot \in untold => slot \in untold'
    BY <1>7 DEF Hold, route
  <2>2. RouteOK'
    BY <1>7 DEF Hold, route, TypeOK, RouteOK
  <2>3. RouteInv'
    BY <1>3, <1>7, <2>1, IrqFacts
    DEF Hold, route, RouteInv, IactrIsOwner, LatchMatches, OwnerAsks, MeipMatchesOwner
  <2> QED BY <2>2, <2>3
<1> QED BY <1>4, <1>5, <1>6, <1>7 DEF UsartResync

\* A resync that leaves the owner alone and at most takes MEIP from mie.
LEMMA HoldStep ==
    ASSUME TypeOK, RouteInv, RequestOK', UNCHANGED << slot, mip, iactr, vtfInIsr >>,
           \/ slot \in Requesting' \cap LatchIrqs
           \/ /\ slot \in TableIrqs => (slot \in Requesting' <=> slot \in Requesting)
              /\ slot \in untold => slot \in untold',
           mie' \in SUBSET Bits,
           ipr' \in SUBSET (Owners \cup {SoftwareIrq}),
           latched' \in SUBSET (Irqs \cap LatchIrqs),
           latched' \ untold' \subseteq Requesting',
           slot \in LatchIrqs \ Pended => slot \in latched'
    PROVE  RouteOK' /\ RouteInv'
<1>1. RouteOK'
  BY DEF TypeOK, RouteOK
<1>2. IactrIsOwner' /\ LatchMatches'
  BY DEF RouteInv, IactrIsOwner, LatchMatches
<1>3. OwnerAsks' /\ (~GuestReset => MeipMatchesOwner')
  BY IrqFacts DEF RouteInv, OwnerAsks, MeipMatchesOwner
<1> QED BY <1>1, <1>2, <1>3 DEF RouteInv

\* So does the resync of a timer or of the MAC, latch included.
LEMMA LatchStep ==
    ASSUME TypeOK, RouteInv, RequestOK', UNCHANGED vtfInIsr,
           NEW F \in SUBSET LatchIrqs,
           \A y \in TableIrqs \ F : y \in Requesting' <=> y \in Requesting,
           slot \in {0, slot'} => untold \ F \subseteq untold',
           LatchResync(F)
    PROVE  RouteOK' /\ RouteInv'
<1> DEFINE want == F \cap Requesting'
           fresh == want \ latched
<1>1. /\ slot \in {0, slot'} => (latched \ (F \ want)) \ untold' \subseteq Requesting'
      /\ latched \ (F \ want) \in SUBSET (Irqs \cap LatchIrqs)
  BY IrqFacts DEF RouteInv, LatchMatches, TypeOK, RouteOK
<1>2. fresh # {} => FirstInTable(fresh) \in fresh
  <2>1. fresh \in SUBSET TableIrqs
    BY IrqFacts
  <2> HIDE DEF fresh
  <2> QED BY <2>1, FirstIsIn
<1>3. CASE slot \in F \ want /\ Rescan(FALSE, {})
  BY <1>3, RescanStep DEF RouteInv
<1>4. CASE /\ slot \in fresh \/ (slot = 0 /\ fresh # {})
           /\ ClaimSlot(IF slot = 0 THEN FirstInTable(fresh) ELSE slot)
           /\ latched' = (latched \ (F \ want)) \cup {slot'}
           /\ UNCHANGED ipr
  <2> DEFINE x == IF slot = 0 THEN FirstInTable(fresh) ELSE slot
  <2>1. x \in fresh
    BY <1>2, <1>4
  <2>2. x \in Requesting' /\ slot \in {0, x} /\ x \in LatchIrqs
    BY <2>1, <1>4
  <2>3. ClaimSlot(x) /\ slot' = x
    BY <1>4 DEF ClaimSlot
  <2>4. x \in Irqs
    BY <2>2 DEF Requesting, RequestOK
  <2>5. /\ latched' \in SUBSET (Irqs \cap LatchIrqs)
        /\ latched' \ untold' \subseteq Requesting'
        /\ x \in latched'
    BY <1>1, <1>4, <2>2, <2>3, <2>4
  <2> HIDE DEF x
  <2> QED BY <1>4, <2>2, <2>3, <2>5, ClaimStep DEF TypeOK, RouteOK
<1>5. CASE /\ slot \notin (F \ want) \cup fresh
           /\ latched' = latched \ (F \ want)
           /\ UNCHANGED << slot, mip, mie, iactr, ipr >>
  <2>1. slot \in LatchIrqs \ Pended => slot \in latched'
    BY <1>5 DEF RouteInv, LatchMatches
  <2>2. \/ slot \in Requesting' \cap LatchIrqs
        \/ /\ slot \in TableIrqs => (slot \in Requesting' <=> slot \in Requesting)
           /\ slot \in untold => slot \in untold'
    BY <1>5
  <2> QED BY <1>1, <1>5, <2>1, <2>2, HoldStep DEF TypeOK, RouteOK
<1> QED BY <1>3, <1>4, <1>5 DEF LatchResync

\* So does that of ETH10M with its re-injection.
LEMMA Eth10mStep ==
    ASSUME TypeOK, RouteInv, RequestOK', UNCHANGED vtfInIsr,
           \A y \in TableIrqs \ {Eth10mIrq} : y \in Requesting' <=> y \in Requesting,
           slot \in {0, slot'} => untold \subseteq untold',
           Eth10mResync
    PROVE  RouteOK' /\ RouteInv'
<1> DEFINE want == Eth10mIrq \in Requesting'
           inject == IF Eth10mIrq \in latched
                     THEN vtfInIsr = 0 /\ slot = Eth10mIrq
                     ELSE slot \in {0, Eth10mIrq}
<1>1. /\ Eth10mIrq \in LatchIrqs
      /\ slot \in {0, slot'} => (latched \ {Eth10mIrq}) \ untold' \subseteq Requesting'
      /\ latched \in SUBSET (Irqs \cap LatchIrqs)
  BY IrqFacts DEF RouteInv, LatchMatches, TypeOK, RouteOK, LatchIrqs
<1>2. CASE ~want /\ slot = Eth10mIrq /\ Rescan(FALSE, {})
  BY <1>2, RescanStep DEF RouteInv
<1>3. CASE /\ ~want /\ slot # Eth10mIrq
           /\ latched' = latched \ {Eth10mIrq}
           /\ UNCHANGED << slot, mip, mie, iactr, ipr >>
  <2>1. slot \in LatchIrqs \ Pended => slot \in latched'
    BY <1>3 DEF RouteInv, LatchMatches
  <2> QED BY <1>1, <1>3, <2>1, HoldStep DEF TypeOK, RouteOK
<1>4. CASE /\ want /\ inject
           /\ ClaimSlot(Eth10mIrq)
           /\ latched' = latched \cup {Eth10mIrq}
           /\ UNCHANGED ipr
  <2>1. Eth10mIrq \in Irqs /\ slot' = Eth10mIrq /\ slot \in {0, slot'}
    BY <1>4 DEF Requesting, RequestOK, ClaimSlot, RouteInv, LatchMatches
  <2> QED BY <1>1, <1>4, <2>1, ClaimStep DEF TypeOK, RouteOK
<1>5. CASE want /\ ~inject /\ Hold
  <2>2. slot \in LatchIrqs \ Pended => slot \in latched
    BY DEF RouteInv, LatchMatches
  <2>3. UNCHANGED << slot, mip, mie, iactr, ipr, latched >>
    BY <1>5 DEF Hold, route
  <2>1. \/ slot \in Requesting' \cap LatchIrqs
        \/ /\ slot \in TableIrqs => (slot \in Requesting' <=> slot \in Requesting)
           /\ slot \in untold => slot \in untold'
    BY <1>1, <1>5, <2>3
  <2> QED BY <1>1, <1>5, <2>1, <2>2, <2>3, HoldStep DEF TypeOK, RouteOK
<1> QED BY <1>2, <1>3, <1>4, <1>5 DEF Eth10mResync

\* An owner that is neither latched nor a USART drops the slot and nobody is
\* told: the USB hosts and the DMA controllers do so.
LEMMA DropStep ==
    ASSUME TypeOK, RouteInv, RequestOK', slot \in UsbIrqs \cup DmaIrqs,
           slot' = 0, mip' = mip \ {"MEIP"}, mie' \in SUBSET Bits,
           iactr' \in SUBSET iactr, iactr' \ DmaIrqs = {},
           UNCHANGED << ipr, latched >>, latched \ untold' \subseteq Requesting'
    PROVE  RouteOK' /\ RouteInv'
<1>1. RouteOK'
  BY DEF TypeOK, RouteOK
<1>2. IactrIsOwner' /\ LatchMatches' /\ OwnerAsks' /\ MeipMatchesOwner'
  BY IrqFacts DEF IactrIsOwner, LatchMatches, OwnerAsks, MeipMatchesOwner
<1> QED BY <1>1, <1>2 DEF RouteInv

\* So does that of a USB host, which also lends and withdraws mie.MEIP.
LEMMA UsbStep ==
    ASSUME TypeOK, RouteInv, RequestOK', UNCHANGED vtfInIsr, NEW x \in UsbIrqs,
           \A y \in TableIrqs \ {x} : y \in Requesting' <=> y \in Requesting,
           slot \in {0, slot'} \/ (slot = x /\ ~UsbOn(x)') => untold \subseteq untold',
           UsbResync(x)
    PROVE  RouteOK' /\ RouteInv'
<1>1. /\ untold \subseteq untold' => latched \ untold' \subseteq Requesting'
      /\ latched \in SUBSET (Irqs \cap LatchIrqs)
  BY IrqFacts DEF RouteInv, LatchMatches, TypeOK, RouteOK
<1>2. slot \in LatchIrqs \ Pended => slot \in latched
  BY DEF RouteInv, LatchMatches
<1>3. CASE /\ ~UsbOn(x)'
           /\ mie' = mie \ {"MEIP"}
           /\ slot' = IF slot = x THEN 0 ELSE slot
           /\ mip' = IF slot = x THEN mip \ {"MEIP"} ELSE mip
           /\ iactr' = iactr \ ({x} \cap {slot})
           /\ UNCHANGED << ipr, latched >>
  <2>1. mie' \in SUBSET Bits
    BY <1>3 DEF TypeOK, RouteOK
  <2>2. CASE slot = x
    <3>1. iactr' \in SUBSET iactr /\ iactr' \ DmaIrqs = {}
      BY <1>3, <2>2, IrqFacts DEF RouteInv, IactrIsOwner
    <3>2. latched \ untold' \subseteq Requesting'
      BY <1>1, <1>3, <2>2
    <3> QED BY <1>3, <2>1, <2>2, <3>1, <3>2, DropStep
  <2>3. CASE slot # x
    <3>1. UNCHANGED << slot, mip, iactr, ipr, latched >> /\ untold \subseteq untold'
      BY <1>3, <2>3
    <3> QED BY <1>1, <1>2, <2>1, <2>3, <3>1, HoldStep DEF TypeOK, RouteOK
  <2> QED BY <2>2, <2>3
<1>4. CASE /\ x \in Requesting' /\ slot \in {0, x}
           /\ ClaimSlot(x)
           /\ UNCHANGED << ipr, latched >>
  <2>1. slot \in {0, slot'} /\ x \notin LatchIrqs
    BY <1>4, IrqFacts DEF ClaimSlot
  <2> QED BY <1>1, <1>4, <2>1, ClaimStep DEF TypeOK, RouteOK
<1>5. CASE slot = x /\ Rescan(FALSE, {})
  BY <1>5, RescanStep DEF RouteInv
<1>6. CASE /\ slot # x
           /\ mie' = mie \cup {"MEIP"}
           /\ UNCHANGED << slot, mip, iactr, ipr, latched >>
  <2>1. mie' \in SUBSET Bits
    BY <1>6 DEF TypeOK, RouteOK, Bits
  <2> QED BY <1>1, <1>2, <1>6, <2>1, HoldStep DEF TypeOK, RouteOK
<1> QED BY <1>3, <1>4, <1>5, <1>6 DEF UsbResync

\* A DMA interrupt needs no request: an error is fired without its flag.
LEMMA DmaFireStep ==
    ASSUME TypeOK, RouteInv, RequestOK', UNCHANGED vtfInIsr,
           NEW D \in SUBSET (Irqs \cap DmaIrqs),
           \A y \in TableIrqs \ DmaIrqs : y \in Requesting' <=> y \in Requesting,
           slot \in {0, slot'} => untold \subseteq untold',
           DmaFire(D)
    PROVE  RouteOK' /\ RouteInv'
<1>0. slot \in {0, slot'}
  BY DEF DmaFire
<1>1. latched \ untold' \subseteq Requesting' /\ latched \in SUBSET (Irqs \cap LatchIrqs)
  BY <1>0, IrqFacts DEF RouteInv, LatchMatches, TypeOK, RouteOK
<1>2. CASE /\ D # {} /\ slot = 0
           /\ ClaimSlot(Lowest(D))
           /\ ipr' = ipr \cup (D \ {slot'})
           /\ UNCHANGED latched
  <2> DEFINE x == Lowest(D)
  <2>1. x \in D
    BY <1>2, LowestIsIn, IrqFacts
  <2>2. x \in Irqs /\ x \in DmaIrqs /\ x # 0
    BY <2>1, IrqFacts
  <2>3. ClaimSlot(x)
    BY <1>2
  <2> HIDE DEF x
  <2>4. RouteOK'
    BY <1>2, <2>2, <2>3, IrqFacts DEF ClaimSlot, TypeOK, RouteOK, Bits
  <2>5. IactrIsOwner' /\ LatchMatches' /\ OwnerAsks' /\ MeipMatchesOwner'
    BY <1>1, <1>2, <2>2, <2>3, IrqFacts
    DEF ClaimSlot, RouteInv, IactrIsOwner, LatchMatches, OwnerAsks, MeipMatchesOwner
  <2> QED BY <2>4, <2>5 DEF RouteInv
<1>3. CASE /\ ipr' = ipr \cup D
           /\ UNCHANGED << slot, mip, mie, iactr, latched >>
  <2>1. RouteOK'
    BY <1>3, IrqFacts DEF TypeOK, RouteOK
  <2>2. RouteInv'
    BY <1>0, <1>1, <1>3, IrqFacts
    DEF RouteInv, IactrIsOwner, LatchMatches, OwnerAsks, MeipMatchesOwner
  <2> QED BY <2>1, <2>2
<1> QED BY <1>2, <1>3 DEF DmaFire

-----------------------------------------------------------------------------
(***************************************************************************)
(* One lemma per action, or per group of actions of one shape.             *)
(***************************************************************************)

\* Only the devices without a resync of their own are ever in untold; a step
\* that leaves the slot alone, or switches a USB owner off, makes at most the
\* device it is about hear of its change.
LEMMA HearFacts ==
    ASSUME RequestOK, NEW x, Hear(x)
    PROVE  /\ untold' \subseteq Irqs \cap QuietIrqs
           /\ slot \in {0, slot'} => untold \ {x} \subseteq untold'
           /\ slot \in UsbIrqs /\ slot \notin ienr' \cap gate' => untold \ {x} \subseteq untold'
           /\ x \notin QuietIrqs => untold \ {x} = untold
BY DEF Hear, RequestOK

\* The MAC and USART1 are neither USB hosts nor DMA channels nor ETH10M.
LEMMA QuietFacts ==
    /\ QuietIrqs \cap (UsbIrqs \cup DmaIrqs \cup {Eth10mIrq, SoftwareIrq, SysTickIrq}) = {}
    /\ QuietIrqs \cap LatchIrqs = {EthIrq} /\ QuietIrqs \cap UsartIrqs = {Usart1Irq}
    /\ QuietIrqs \subseteq TableIrqs
BY DEF QuietIrqs, EthIrq, Usart1Irq, UsbIrqs, UsbHsIrq, UsbFsIrq, DmaIrqs, Dma1Irqs,
   Dma2Irqs, DmaExIrqs, Eth10mIrq, SoftwareIrq, SysTickIrq, LatchIrqs, TimIrqs,
   UsartIrqs, LiteIrqs, TableIrqs

\* Any event of a device other than a DMA channel keeps the invariant.
LEMMA DeviceEventStep ==
    ASSUME Inv, NEW x \in Irqs, NEW on \in BOOLEAN, DeviceEvent(x, on)
    PROVE  Inv'
<1>0. /\ untold' \subseteq Irqs \cap QuietIrqs
      /\ slot \in {0, slot'} => untold \ {x} \subseteq untold'
      /\ slot \in UsbIrqs /\ slot \notin ienr' \cap gate' => untold \ {x} \subseteq untold'
      /\ x \in UsbIrqs \cup {Eth10mIrq} => untold \ {x} = untold
  BY HearFacts, QuietFacts DEF DeviceEvent, Inv, TypeOK
<1>1. RequestOK' /\ HartOK' /\ UNCHANGED vtfInIsr
  BY <1>0 DEF Inv, TypeOK, DeviceEvent, RequestOK, HartOK, hart
<1>2. x \in TableIrqs \ DmaIrqs /\ DeviceResync(x)
  BY DEF DeviceEvent
<1>3. \A y \in TableIrqs \ {x} : y \in Requesting' <=> y \in Requesting
  BY DEF DeviceEvent, Requesting
<1>4. RouteOK' /\ RouteInv'
  <2>1. CASE x = Usart1Irq /\ UsartResync({Usart1Irq})
    BY <1>0, <1>1, <1>3, <2>1, UsartStep DEF Inv, UsartIrqs
  <2>2. CASE x \in LiteIrqs /\ UsartResync(LiteIrqs)
    BY <1>0, <1>1, <1>3, <2>2, UsartStep DEF Inv, UsartIrqs
  <2>3. CASE x \in TimIrqs \cup {EthIrq} /\ LatchResync({x})
    BY <1>0, <1>1, <1>3, <2>3, LatchStep DEF Inv, LatchIrqs
  <2>4. CASE x = Eth10mIrq /\ Eth10mResync
    BY <1>0, <1>1, <1>3, <2>4, Eth10mStep DEF Inv
  <2>5. CASE x \in UsbIrqs /\ UsbResync(x)
    BY <1>0, <1>1, <1>3, <2>5, UsbStep DEF Inv, UsbOn
  <2> QED BY <1>2, <2>1, <2>2, <2>3, <2>4, <2>5 DEF DeviceResync
<1> QED BY <1>1, <1>4 DEF Inv, TypeOK

\* So does a write of a USB mode register.
LEMMA UsbModeWriteStep ==
    ASSUME Inv, NEW x \in Irqs, NEW on \in BOOLEAN, UsbModeWrite(x, on)
    PROVE  Inv'
<1>0. /\ untold' \subseteq Irqs \cap QuietIrqs
      /\ slot \in {0, slot'} => untold \subseteq untold'
      /\ slot = x /\ ~UsbOn(x)' => untold \subseteq untold'
  BY HearFacts, QuietFacts DEF UsbModeWrite, UsbOn, Inv, TypeOK
<1>1. RequestOK' /\ HartOK' /\ UNCHANGED vtfInIsr
  BY <1>0, IrqFacts DEF Inv, TypeOK, UsbModeWrite, RequestOK, HartOK, hart
<1>2. \A y \in TableIrqs \ {x} : y \in Requesting' <=> y \in Requesting
  BY DEF UsbModeWrite, Requesting
<1>3. RouteOK' /\ RouteInv'
  BY <1>0, <1>1, <1>2, UsbStep DEF Inv, UsbModeWrite
<1> QED BY <1>1, <1>3 DEF Inv, TypeOK

\* The steps of the DMA controllers change the requests of DMA channels only.
LEMMA DmaFrame ==
    ASSUME UNCHANGED ienr,
           \A y \in TableIrqs \ DmaIrqs :
               (y \in line' <=> y \in line) /\ (y \in gate' <=> y \in gate)
    PROVE  \A y \in TableIrqs \ DmaIrqs : y \in Requesting' <=> y \in Requesting
BY DEF Requesting

\* So do the DMA steps that fire an interrupt or change an enable.
LEMMA DmaStepLemma ==
    ASSUME Inv, NEW x \in Irqs, NEW b \in BOOLEAN,
           DmaTransfer(x, b) \/ DmaError(x, b) \/ DmaConfigure(x, b)
    PROVE  Inv'
<1>1. x \in DmaIrqs /\ UNCHANGED << ienr, untold, hart, vtfInIsr >>
  BY DEF DmaTransfer, DmaError, DmaConfigure, hart
<1>2. RequestOK' /\ HartOK'
  BY <1>1, IrqFacts DEF Inv, TypeOK, RequestOK, HartOK, hart,
     DmaTransfer, DmaError, DmaConfigure
<1>3. \A y \in TableIrqs \ DmaIrqs : y \in Requesting' <=> y \in Requesting
  <2>1. \A y \in TableIrqs \ DmaIrqs :
            (y \in line' <=> y \in line) /\ (y \in gate' <=> y \in gate)
    BY <1>1 DEF DmaTransfer, DmaError, DmaConfigure
  <2> QED BY <1>1, <2>1, DmaFrame
<1>4. ASSUME NEW D \in SUBSET {x}, DmaFire(D)
      PROVE  RouteOK' /\ RouteInv'
  <2>1. D \in SUBSET (Irqs \cap DmaIrqs)
    BY <1>1
  <2> QED BY <1>1, <1>2, <1>3, <1>4, <2>1, DmaFireStep DEF Inv
<1>5. ASSUME Hold PROVE RouteOK' /\ RouteInv'
  <2>1. DmaFire({})  \/ slot # 0
    BY <1>5 DEF Hold, route, DmaFire
  <2>2. UNCHANGED << slot, mip, mie, iactr, ipr, latched >>
    BY <1>5 DEF Hold, route
  <2>3. latched \ untold' \subseteq Requesting'
    BY <1>1, <1>3, IrqFacts DEF Inv, RouteInv, LatchMatches, TypeOK, RouteOK
  <2>4. RouteOK'
    BY <2>2 DEF Inv, TypeOK, RouteOK
  <2>5. RouteInv'
    BY <1>1, <1>3, <2>2, <2>3, IrqFacts
    DEF Inv, RouteInv, IactrIsOwner, LatchMatches, OwnerAsks, MeipMatchesOwner
  <2> QED BY <2>4, <2>5
<1>6. RouteOK' /\ RouteInv'
  <2>1. CASE DmaTransfer(x, b)
    BY <1>4, <2>1 DEF DmaTransfer
  <2>2. CASE DmaError(x, b)
    BY <1>4, <2>2 DEF DmaError
  <2>3. CASE DmaConfigure(x, b)
    BY <1>5, <2>3 DEF DmaConfigure, Hold
  <2> QED BY <2>1, <2>2, <2>3
<1> QED BY <1>2, <1>6 DEF Inv, TypeOK

\* So does INTFR, which frees the slot without telling anybody.
LEMMA DmaClearStep ==
    ASSUME Inv, NEW C, NEW clr, DmaClear(C, clr)
    PROVE  Inv'
<1>1. C \subseteq DmaIrqs /\ UNCHANGED << ienr, untold, hart, vtfInIsr, mie, iactr, ipr, latched >>
  BY DEF DmaClear, hart, DmaIrqs
<1>2. RequestOK' /\ HartOK'
  BY <1>1 DEF Inv, TypeOK, RequestOK, HartOK, hart, DmaClear
<1>3. \A y \in TableIrqs \ DmaIrqs : y \in Requesting' <=> y \in Requesting
  <2>1. \A y \in TableIrqs \ DmaIrqs :
            (y \in line' <=> y \in line) /\ (y \in gate' <=> y \in gate)
    BY <1>1 DEF DmaClear
  <2> QED BY <1>1, <2>1, DmaFrame
<1>4. latched \ untold' \subseteq Requesting'
  BY <1>1, <1>3, IrqFacts DEF Inv, RouteInv, LatchMatches, TypeOK, RouteOK
<1>5. CASE slot \in C \ line'
  <2>1. iactr' \in SUBSET iactr /\ iactr' \ DmaIrqs = {} /\ slot \in UsbIrqs \cup DmaIrqs
    BY <1>1, <1>5 DEF Inv, RouteInv, IactrIsOwner
  <2>2. slot' = 0 /\ mip' = mip \ {"MEIP"} /\ mie' \in SUBSET Bits
    BY <1>1, <1>5 DEF DmaClear, Inv, TypeOK, RouteOK
  <2>3. RouteOK' /\ RouteInv'
    BY <1>1, <1>2, <1>4, <2>1, <2>2, DropStep DEF Inv
  <2> QED BY <1>2, <2>3 DEF Inv, TypeOK
<1>6. CASE slot \notin C \ line'
  <2>1. UNCHANGED << slot, mip, mie, iactr, ipr, latched >>
    BY <1>1, <1>6 DEF DmaClear
  <2>2. RouteOK'
    BY <2>1 DEF Inv, TypeOK, RouteOK
  <2>3. RouteInv'
    BY <1>1, <1>3, <1>4, <2>1, IrqFacts
    DEF Inv, RouteInv, IactrIsOwner, LatchMatches, OwnerAsks, MeipMatchesOwner
  <2> QED BY <1>2, <2>2, <2>3 DEF Inv, TypeOK
<1> QED BY <1>5, <1>6

\* A step that leaves the routing to the devices alone: SysTick, the software
\* interrupt and the hart.
LEMMA QuietStep ==
    ASSUME TypeOK, RouteInv, RequestOK',
           UNCHANGED << slot, iactr, latched >>,
           "MEIP" \in mip' <=> "MEIP" \in mip,
           mip' \in SUBSET Bits, mie' \in SUBSET Bits,
           ipr' \in SUBSET (Owners \cup {SoftwareIrq}),
           Requesting' = Requesting, untold \subseteq untold',
           slot # 0 /\ vtfInIsr > 0 => vtfInIsr' > 0
    PROVE  RouteOK' /\ RouteInv'
<1>1. RouteOK'
  BY DEF TypeOK, RouteOK
<1>2. IactrIsOwner' /\ LatchMatches'
  BY DEF RouteInv, IactrIsOwner, LatchMatches
<1>3. OwnerAsks' /\ (~GuestReset => MeipMatchesOwner')
  BY IrqFacts DEF RouteInv, OwnerAsks, MeipMatchesOwner
<1> QED BY <1>1, <1>2, <1>3 DEF RouteInv

\* A register that changes without a resync costs nobody but its own device,
\* and that one is in untold from then on.
LEMMA QuietChangeStep ==
    ASSUME Inv, NEW x \in Irqs, QuietChange(x)
    PROVE  Inv'
<1>1. /\ x \in QuietIrqs /\ untold' = untold \cup {x}
      /\ UNCHANGED << ienr, gate, stk, hart, slot, mip, mie, iactr, ipr, latched, vtfInIsr >>
      /\ line' \subseteq line \cup {x}
  BY DEF QuietChange, hart, route
<1>2. RequestOK' /\ HartOK' /\ RouteOK'
  BY <1>1, QuietFacts DEF Inv, TypeOK, RequestOK, HartOK, RouteOK, hart
<1>3. \A y : y # x => (y \in Requesting' <=> y \in Requesting)
  BY DEF QuietChange, Requesting
<1>4. x \in UsartIrqs => Requesting \subseteq Requesting'
  <2>1. x \in UsartIrqs => x = Usart1Irq
    BY <1>1, QuietFacts
  <2> QED BY <2>1 DEF QuietChange, Requesting
<1>5. IactrIsOwner' /\ LatchMatches'
  BY <1>1, <1>3 DEF Inv, RouteInv, IactrIsOwner, LatchMatches
<1>6. OwnerAsks' /\ (~GuestReset => MeipMatchesOwner')
  BY <1>1, <1>3, <1>4, IrqFacts DEF Inv, RouteInv, OwnerAsks, MeipMatchesOwner
<1> QED BY <1>2, <1>5, <1>6 DEF Inv, TypeOK, RouteInv

\* The rows of the table, called after one enable bit changed.
LEMMA RowStep ==
    ASSUME TypeOK, RouteInv, NEW x \in PficIrqs,
           ienr' \in SUBSET PficIrqs,
           \A y : y # x => (y \in ienr' <=> y \in ienr),
           UNCHANGED << line, gate, stk, vtfInIsr >>,
           RowResync(x), Hear(x)
    PROVE  RequestOK' /\ RouteOK' /\ RouteInv'
<1>0. /\ untold' \subseteq Irqs \cap QuietIrqs
      /\ slot \in {0, slot'} => untold \ {x} \subseteq untold'
      /\ slot \in UsbIrqs /\ slot \notin ienr' \cap gate' => untold \ {x} \subseteq untold'
      /\ x \in UsbIrqs \cup DmaIrqs \cup {Eth10mIrq, SoftwareIrq, SysTickIrq}
            \/ x \notin TableIrqs => untold \ {x} = untold
  BY HearFacts, QuietFacts DEF TypeOK
<1>1. RequestOK'
  BY <1>0 DEF TypeOK, RequestOK
<1>2. \A y \in TableIrqs \ {x} : y \in Requesting' <=> y \in Requesting
  BY DEF Requesting
<1>3. x \notin TableIrqs => Requesting' = Requesting
  BY DEF TypeOK, RequestOK, Requesting
<1>4. SoftwareIrq \notin TableIrqs /\ SysTickIrq \notin TableIrqs
  BY IrqFacts
<1>5. CASE x = Usart1Irq /\ UsartResync({Usart1Irq})
  BY <1>0, <1>1, <1>2, <1>5, UsartStep DEF UsartIrqs
<1>6. CASE x \in LiteIrqs /\ UsartResync(LiteIrqs)
  BY <1>0, <1>1, <1>2, <1>6, UsartStep DEF UsartIrqs
<1>7. CASE x \in TimIrqs \cup {EthIrq} /\ LatchResync({x})
  BY <1>0, <1>1, <1>2, <1>7, LatchStep DEF LatchIrqs
<1>8. CASE x = Eth10mIrq /\ Eth10mResync
  BY <1>0, <1>1, <1>2, <1>8, Eth10mStep
<1>9. CASE x \in UsbIrqs /\ UsbResync(x)
  BY <1>0, <1>1, <1>2, <1>9, UsbStep DEF UsbOn
<1>10. CASE x \in TimIrqs /\ LatchResync(TimIrqs)
  BY <1>0, <1>1, <1>2, <1>10, LatchStep DEF LatchIrqs
<1>11. CASE x \in DmaIrqs /\ DmaFire(Requesting' \cap DmaIrqs)
  <2>1. Requesting' \cap DmaIrqs \in SUBSET (Irqs \cap DmaIrqs)
    BY DEF Requesting
  <2>2. \A y \in TableIrqs \ DmaIrqs : y \in Requesting' <=> y \in Requesting
    BY <1>2, <1>11
  <2> QED BY <1>0, <1>1, <1>11, <2>1, <2>2, DmaFireStep
<1>12. CASE x = SoftwareIrq /\ SoftwareMieSync
  <2>1. mip' \in SUBSET Bits /\ mie' \in SUBSET Bits /\ ("MEIP" \in mip' <=> "MEIP" \in mip)
    BY <1>12 DEF SoftwareMieSync, TypeOK, RouteOK, Bits
  <2>2. UNCHANGED << slot, iactr, ipr, latched >> /\ untold \subseteq untold'
    BY <1>0, <1>12 DEF SoftwareMieSync
  <2> QED BY <1>0, <1>1, <1>3, <1>4, <1>12, <2>1, <2>2, QuietStep DEF TypeOK, RouteOK
<1>13. CASE x = SysTickIrq /\ StkSchedule
  <2>1. mip' \in SUBSET Bits /\ mie' \in SUBSET Bits /\ ("MEIP" \in mip' <=> "MEIP" \in mip)
    BY <1>13 DEF StkSchedule, TypeOK, RouteOK, Bits
  <2>2. UNCHANGED << slot, iactr, ipr, latched >> /\ untold \subseteq untold'
    BY <1>0, <1>13 DEF StkSchedule
  <2> QED BY <1>0, <1>1, <1>3, <1>4, <1>13, <2>1, <2>2, QuietStep DEF TypeOK, RouteOK
<1>14. CASE x \notin TableIrqs \cup {SoftwareIrq, SysTickIrq} /\ Hold
  <2>1. UNCHANGED << slot, mip, mie, iactr, ipr, latched >> /\ untold \subseteq untold'
    BY <1>0, <1>14 DEF Hold, route
  <2> QED BY <1>0, <1>1, <1>3, <1>14, <2>1, QuietStep DEF TypeOK, RouteOK
<1>15. RouteOK' /\ RouteInv'
  BY <1>5, <1>6, <1>7, <1>8, <1>9, <1>10, <1>11, <1>12, <1>13, <1>14
  DEF RowResync, DeviceResync
<1> QED BY <1>1, <1>15

\* So do IENR and IRER, through the row of the table that holds the bit.
LEMMA EnableStep ==
    ASSUME Inv, NEW x \in PficIrqs, WriteIENR(x) \/ WriteIRER(x)
    PROVE  Inv'
<1>1. /\ UNCHANGED << line, gate, stk, vtfInIsr >> /\ HartOK'
      /\ \A y : y # x => (y \in ienr' <=> y \in ienr)
      /\ ienr' \in SUBSET PficIrqs
      /\ RowResync(x) /\ Hear(x)
  BY DEF WriteIENR, WriteIRER, hart, Inv, TypeOK, HartOK, RequestOK
<1>2. RequestOK' /\ RouteOK' /\ RouteInv'
  BY <1>1, RowStep DEF Inv
<1> QED BY <1>1, <1>2 DEF Inv, TypeOK

\* A software-pended interrupt may own the slot without any request.
LEMMA WriteIPSRStep ==
    ASSUME Inv, NEW x, WriteIPSR(x)
    PROVE  Inv'
<1>1. /\ UNCHANGED << latched, request, hart >> /\ x \in Pended \cup {SoftwareIrq}
      /\ UNCHANGED << line, gate, stk, ienr, untold, vtfInIsr >>
  BY DEF WriteIPSR, request, hart
<1>2. RequestOK' /\ HartOK' /\ Requesting' = Requesting
  BY <1>1 DEF Inv, TypeOK, RequestOK, HartOK, request, hart, Requesting
<1>3. CASE /\ x = SoftwareIrq
           /\ PendSoftware
           /\ ipr' = ipr \cup {x}
           /\ UNCHANGED << slot, mie, iactr >>
  <2>1. mip' \in SUBSET Bits /\ ("MEIP" \in mip' <=> "MEIP" \in mip)
    BY <1>3 DEF PendSoftware, Inv, TypeOK, RouteOK, Bits
  <2>2. mie' \in SUBSET Bits /\ ipr' \in SUBSET (Owners \cup {SoftwareIrq})
    BY <1>3 DEF Inv, TypeOK, RouteOK
  <2>3. RouteOK' /\ RouteInv'
    BY <1>1, <1>2, <1>3, <2>1, <2>2, QuietStep DEF Inv
  <2> QED BY <1>2, <2>3 DEF Inv, TypeOK
<1>4. CASE /\ slot = 0 /\ slot' = x /\ x # SoftwareIrq
           /\ mip' = mip \cup {"MEIP"}
           /\ mie' = mie \cup {"MEIP"}
           /\ iactr' = iactr \cup {x}
           /\ ipr' = ipr \ {x}
  <2>1. x \in Pended /\ x \in Owners /\ x # 0
    BY <1>1, <1>4, IrqFacts DEF Owners
  <2>2. RouteOK'
    BY <1>1, <1>4, <2>1 DEF Inv, TypeOK, RouteOK, Bits
  <2>3. IactrIsOwner' /\ LatchMatches' /\ OwnerAsks'
    BY <1>1, <1>2, <1>4, <2>1 DEF Inv, RouteInv, IactrIsOwner, LatchMatches, OwnerAsks
  <2>4. MeipMatchesOwner'
    BY <1>4, <2>1 DEF MeipMatchesOwner
  <2> QED BY <1>2, <2>2, <2>3, <2>4 DEF Inv, TypeOK, RouteInv
<1>5. CASE /\ x # SoftwareIrq
           /\ ipr' = ipr \cup {x}
           /\ UNCHANGED << slot, mip, mie, iactr >>
  <2>1. ipr' \in SUBSET (Owners \cup {SoftwareIrq})
    BY <1>1, <1>5 DEF Inv, TypeOK, RouteOK, Owners
  <2>2. RouteOK' /\ RouteInv'
    BY <1>1, <1>2, <1>5, <2>1, QuietStep DEF Inv, TypeOK, RouteOK
  <2> QED BY <1>2, <2>2 DEF Inv, TypeOK
<1> QED BY <1>3, <1>4, <1>5 DEF WriteIPSR

\* The other PFIC and SysTick registers.
LEMMA RegisterStep ==
    ASSUME Inv, NEW x, NEW mode \in {"off", "count", "irq"}, NEW b \in BOOLEAN,
           WriteIPRR(x) \/ WriteStkCtlr(mode, b) \/ ClearStkSr \/ StkTick
    PROVE  Inv'
<1>1. UNCHANGED << slot, iactr, latched, ienr, line, gate, untold, hart, vtfInIsr >>
  BY DEF WriteIPRR, WriteStkCtlr, ClearStkSr, StkTick, request, hart
<1>2. RequestOK' /\ HartOK' /\ Requesting' = Requesting
  BY <1>1 DEF Inv, TypeOK, RequestOK, HartOK, request, hart, Requesting,
     WriteIPRR, WriteStkCtlr, ClearStkSr, StkTick
<1>3. mip' \in SUBSET Bits /\ ("MEIP" \in mip' <=> "MEIP" \in mip)
  BY DEF Inv, TypeOK, RouteOK, Bits, WriteIPRR, WriteStkCtlr, ClearStkSr, StkTick
<1>4. mie' \in SUBSET Bits /\ ipr' \in SUBSET (Owners \cup {SoftwareIrq})
  BY DEF Inv, TypeOK, RouteOK, Bits, WriteIPRR, WriteStkCtlr, ClearStkSr, StkTick
<1>5. RouteOK' /\ RouteInv'
  BY <1>1, <1>2, <1>3, <1>4, QuietStep DEF Inv
<1> QED BY <1>2, <1>5 DEF Inv, TypeOK

\* Entering a trap, or changing mstatus.
LEMMA HartQuietStep ==
    ASSUME Inv, NEW b \in BOOLEAN,
           \/ SetGie(b) \/ TakeExternal \/ TakeSoftware \/ TakeTimer
           \/ Fault \/ StartFirmware
    PROVE  Inv'
<1>1. /\ UNCHANGED << slot, iactr, latched, mie, ipr, ienr, line, gate, stk, untold >>
      /\ mip' \in {mip, mip \ {"MSIP"}}
  BY DEF SetGie, TakeExternal, TakeSoftware, TakeTimer, Fault, StartFirmware,
     EnterVtf, EnterTrap, route, request
<1>2. HartOK' /\ vtfInIsr' >= vtfInIsr
  <2>1. handlers' \in Seq(Vectors)
    <3>1. ASSUME NEW v \in Vectors, handlers' = << v >> \o handlers
          PROVE  handlers' \in Seq(Vectors)
      BY <3>1 DEF Inv, TypeOK, HartOK
    <3>2. /\ SoftwareIrq \in Vectors /\ SysTickIrq \in Vectors
          /\ HardFault \in Vectors /\ ExtCause \in Vectors
          /\ slot # 0 => slot \in Vectors
      BY DEF Vectors, Inv, TypeOK, RouteOK
    <3> QED BY <3>1, <3>2 DEF SetGie, TakeExternal, TakeSoftware, TakeTimer, Fault,
            StartFirmware, EnterVtf, EnterTrap, Inv, TypeOK, HartOK
  <2>2. vtfInIsr' \in {vtfInIsr, vtfInIsr + 1}
        /\ hpeDepth' \in {hpeDepth, IF hpeDepth < HpeMax THEN hpeDepth + 1 ELSE hpeDepth}
    BY DEF SetGie, TakeExternal, TakeSoftware, TakeTimer, Fault, StartFirmware,
       EnterVtf, EnterTrap, route
  <2>3. vtfInIsr' \in Nat /\ hpeDepth' \in 0 .. HpeMax /\ vtfInIsr' >= vtfInIsr
    BY <2>2 DEF Inv, TypeOK, HartOK, HpeMax
  <2>4. gie' \in BOOLEAN /\ mpie' \in BOOLEAN /\ vtf' \in BOOLEAN /\ swSkip' \in BOOLEAN
    BY ZenonT(30) DEF SetGie, TakeExternal, TakeSoftware, TakeTimer, Fault, StartFirmware,
       EnterVtf, EnterTrap, Inv, TypeOK, HartOK, route, request
  <2> QED BY <2>1, <2>3, <2>4 DEF HartOK
<1>3. RequestOK' /\ Requesting' = Requesting
  BY <1>1 DEF Inv, TypeOK, RequestOK, Requesting
<1>4. /\ mip' \in SUBSET Bits /\ ("MEIP" \in mip' <=> "MEIP" \in mip)
      /\ mie' \in SUBSET Bits /\ ipr' \in SUBSET (Owners \cup {SoftwareIrq})
  BY <1>1 DEF Inv, TypeOK, RouteOK, Bits
<1>5. vtfInIsr > 0 => vtfInIsr' > 0
  BY <1>2 DEF Inv, TypeOK, HartOK
<1>6. RouteOK' /\ RouteInv'
  BY <1>1, <1>3, <1>4, <1>5, QuietStep DEF Inv
<1> QED BY <1>2, <1>3, <1>6 DEF Inv, TypeOK

\* The return from a trap: with an owner the table is walked.
LEMMA MretStep ==
    ASSUME Inv, Mret
    PROVE  Inv'
<1>1. /\ UNCHANGED << vtf, ienr, line, gate, stk >>
      /\ handlers # << >> /\ handlers' = Tail(handlers)
      /\ gie' = mpie /\ mpie' = TRUE /\ swSkip' = FALSE
      /\ untold' \in {untold, {}}
  BY DEF Mret
<1>2. RequestOK' /\ Requesting' = Requesting
  BY <1>1 DEF Inv, TypeOK, RequestOK, Requesting
<1>3. /\ vtfInIsr' \in {vtfInIsr, IF vtfInIsr > 0 THEN vtfInIsr - 1 ELSE 0}
      /\ hpeDepth' \in {hpeDepth, IF hpeDepth > 0 THEN hpeDepth - 1 ELSE 0}
  BY DEF Mret
<1>4. HartOK'
  <2>1. handlers' \in Seq(Vectors)
    BY <1>1 DEF Inv, TypeOK, HartOK
  <2>2. vtfInIsr' \in Nat /\ hpeDepth' \in 0 .. HpeMax
    BY <1>3 DEF Inv, TypeOK, HartOK, HpeMax
  <2> QED BY <1>1, <2>1, <2>2 DEF Inv, TypeOK, HartOK
<1>5. CASE Rescan(TRUE, {})
  BY <1>2, <1>4, <1>5, RescanStep DEF Inv, RouteInv, TypeOK
<1>6. CASE UNCHANGED << route, untold >> /\ (slot = 0 \/ UNCHANGED vtfInIsr)
  <2>1. UNCHANGED << slot, mip, mie, iactr, ipr, latched >>
    BY <1>6 DEF route
  <2>2. RouteOK' /\ RouteInv'
    BY <1>2, <1>6, <2>1, QuietStep DEF Inv, TypeOK, RouteOK
  <2> QED BY <1>2, <1>4, <2>2 DEF Inv, TypeOK
<1> QED BY <1>5, <1>6 DEF Mret, Hold

\* A reset leaves no owner; what it may leave is a stale MEIP.
LEMMA ResetStep ==
    ASSUME Inv, NEW attached, Reset(attached)
    PROVE  Inv'
<1>1. /\ GuestReset /\ slot' = 0 /\ iactr' = {} /\ ipr' = {} /\ latched' = {}
      /\ mip' \subseteq mip /\ mie' \subseteq mie
  BY DEF Reset
<1>2. RouteOK' /\ RequestOK'
  BY <1>1 DEF Inv, TypeOK, RouteOK, RequestOK, Reset
<1>3. HartOK'
  <2>1. handlers' \in Seq(Vectors)
    BY DEF Reset
  <2>2. vtfInIsr' \in Nat /\ hpeDepth' \in 0 .. HpeMax
    BY DEF Reset, HpeMax
  <2>3. gie' \in BOOLEAN /\ mpie' \in BOOLEAN /\ vtf' \in BOOLEAN /\ swSkip' \in BOOLEAN
    BY Zenon DEF Inv, TypeOK, HartOK, Reset
  <2> QED BY <2>1, <2>2, <2>3 DEF HartOK
<1>4. RouteInv'
  BY <1>1, IrqFacts DEF RouteInv, IactrIsOwner, LatchMatches, OwnerAsks
<1> QED BY <1>2, <1>3, <1>4 DEF Inv, TypeOK

-----------------------------------------------------------------------------
(***************************************************************************)
(* The theorems.                                                           *)
(***************************************************************************)

\* The inductive invariant holds at power-on.
LEMMA InitStep == ASSUME Init PROVE Inv
<1>1. RouteOK /\ RequestOK /\ HartOK
  <2>1. RouteOK /\ RequestOK
    BY DEF Init, RouteOK, RequestOK
  <2>2. handlers \in Seq(Vectors)
    BY DEF Init
  <2>3. vtfInIsr \in Nat /\ hpeDepth \in 0 .. HpeMax
    BY DEF Init, HpeMax
  <2>4. gie \in BOOLEAN /\ mpie \in BOOLEAN /\ vtf \in BOOLEAN /\ swSkip \in BOOLEAN
    BY Zenon DEF Init
  <2> QED BY <2>1, <2>2, <2>3, <2>4 DEF HartOK
<1>2. RouteInv
  BY IrqFacts DEF Init, RouteInv, IactrIsOwner, LatchMatches, OwnerAsks, MeipMatchesOwner
<1> QED BY <1>1, <1>2 DEF Inv, TypeOK

\* It survives a step that changes nothing.
LEMMA StutterStep == ASSUME Inv, UNCHANGED vars PROVE Inv'
<1>1. UNCHANGED << slot, mip, mie, iactr, ipr, latched, ienr, line, gate, stk, untold,
                   gie, mpie, vtf, vtfInIsr, hpeDepth, swSkip, handlers >>
  BY DEF vars, route, request, hart
<1>2. TypeOK'
  BY <1>1 DEF Inv, TypeOK, RouteOK, RequestOK, HartOK
<1>3. RouteInv'
  <2>1. Requesting' = Requesting
    BY <1>1 DEF Requesting
  <2> QED BY <1>1, <2>1 DEF Inv, RouteInv, IactrIsOwner, LatchMatches, OwnerAsks,
             MeipMatchesOwner
<1> QED BY <1>2, <1>3 DEF Inv

\* No step of the machine breaks it.
LEMMA InvStep == ASSUME Inv, [Next]_vars PROVE Inv'
<1>1. CASE DeviceStep
  <2>1. PICK x \in Irqs, b \in BOOLEAN :
            \/ DeviceEvent(x, b) \/ QuietChange(x) \/ UsbModeWrite(x, b)
            \/ DmaTransfer(x, b) \/ DmaError(x, b) \/ DmaConfigure(x, b)
    BY <1>1 DEF DeviceStep
  <2> QED BY <2>1, DeviceEventStep, QuietChangeStep, UsbModeWriteStep, DmaStepLemma
<1>2. CASE DmaStep
  BY <1>2, DmaStepLemma, DmaClearStep DEF DmaStep
<1>3. CASE PficStep
  <2>1. CASE \E x \in PficIrqs :
                 WriteIENR(x) \/ WriteIRER(x) \/ WriteIPSR(x) \/ WriteIPRR(x)
    BY <2>1, EnableStep, WriteIPSRStep, RegisterStep
  <2>2. CASE \E mode \in {"off", "count", "irq"}, b \in BOOLEAN : WriteStkCtlr(mode, b)
    BY <2>2, RegisterStep
  <2>3. CASE ClearStkSr \/ StkTick
    BY <2>3, RegisterStep
  <2> QED BY <1>3, <2>1, <2>2, <2>3 DEF PficStep
<1>4. CASE HartStep
  BY <1>4, HartQuietStep, MretStep DEF HartStep
<1>5. CASE \E attached \in SUBSET (UsbIrqs \cap Irqs) : Reset(attached)
  BY <1>5, ResetStep
<1>6. CASE UNCHANGED vars
  BY <1>6, StutterStep
<1> QED BY <1>1, <1>2, <1>3, <1>4, <1>5, <1>6 DEF Next

\* So it always holds.
LEMMA Invariance == Spec => []Inv
<1>1. Init => Inv
  BY InitStep
<1>2. Inv /\ [Next]_vars => Inv'
  BY InvStep
<1> QED BY <1>1, <1>2, PTL DEF Spec

\* Every variable stays within what the C field holds, for every set of
\* peripherals.
THEOREM TypeCorrect == Spec => []TypeOK
BY Invariance, PTL DEF Inv

\* The active bits the firmware reads are those of the owner, whatever the
\* devices, the PFIC and the hart do.
THEOREM ActiveBits == Spec => []IactrIsOwner
<1>1. Inv => IactrIsOwner
  BY DEF Inv, RouteInv
<1> QED BY <1>1, Invariance, PTL

\* A storm-protection flag never outlives the request it was set for.
THEOREM Latches == Spec => []LatchMatches
<1>1. Inv => LatchMatches
  BY DEF Inv, RouteInv
<1> QED BY <1>1, Invariance, PTL

\* The slot is never kept by a device that has nothing to ask.
THEOREM OwnersAsk == Spec => []OwnerAsks
<1>1. Inv => OwnerAsks
  BY DEF Inv, RouteInv
<1> QED BY <1>1, Invariance, PTL

\* Without a guest reset, MEIP is raised exactly for the owner.
THEOREM MeipIsOwners ==
    ASSUME ~GuestReset
    PROVE  Spec => []MeipMatchesOwner
<1>1. Inv => MeipMatchesOwner
  BY DEF Inv, RouteInv
<1> QED BY <1>1, Invariance, PTL

-----------------------------------------------------------------------------
(***************************************************************************)
(* Arbitration.                                                            *)
(***************************************************************************)

\* The owner keeps the slot or does not ask any more.
Arbitrated == slot' = slot \/ slot \in TableIrqs \ Requesting'

\* No resync function takes the slot from an owner that still asks.
LEMMA ResyncArbitrates ==
    ASSUME slot # 0, NEW F \in SUBSET UsartIrqs, NEW L \in SUBSET LatchIrqs,
           NEW x \in UsbIrqs, NEW D,
           \/ UsartResync(F) \/ LatchResync(L) \/ Eth10mResync \/ UsbResync(x)
           \/ DmaFire(D) \/ Hold
    PROVE  Arbitrated
<1>1. CASE UsartResync(F)
  BY <1>1, IrqFacts DEF UsartResync, ClaimSlot, Hold, route, Arbitrated
<1>2. CASE LatchResync(L)
  BY <1>2, IrqFacts DEF LatchResync, ClaimSlot, Arbitrated
<1>3. CASE Eth10mResync
  BY <1>3, IrqFacts DEF Eth10mResync, ClaimSlot, Hold, route, Arbitrated, LatchIrqs
<1>4. CASE UsbResync(x)
  BY <1>4, IrqFacts DEF UsbResync, UsbOn, Requesting, ClaimSlot, Arbitrated
<1>5. CASE DmaFire(D)
  BY <1>5 DEF DmaFire, Arbitrated
<1>6. CASE Hold
  BY <1>6 DEF Hold, route, Arbitrated
<1> QED BY <1>1, <1>2, <1>3, <1>4, <1>5, <1>6

\* A device resync takes the slot only from nobody, or from an owner of its
\* own that asks no more.
LEMMA DeviceArbitrates ==
    ASSUME slot # 0, NEW x, DeviceResync(x) \/ RowResync(x)
    PROVE  Arbitrated
<1>1. {Usart1Irq} \in SUBSET UsartIrqs /\ LiteIrqs \in SUBSET UsartIrqs
  BY DEF UsartIrqs
<1>2. /\ TimIrqs \in SUBSET LatchIrqs
      /\ \A y \in TimIrqs \cup {EthIrq} : {y} \in SUBSET LatchIrqs
  BY DEF LatchIrqs
<1>3. UsbHsIrq \in UsbIrqs
  BY DEF UsbIrqs
<1>4. CASE DeviceResync(x)
  BY <1>1, <1>2, <1>3, <1>4, ResyncArbitrates DEF DeviceResync
<1>5. CASE RowResync(x) /\ ~DeviceResync(x)
  <2>1. CASE x \in TimIrqs /\ LatchResync(TimIrqs)
    BY <1>1, <1>2, <1>3, <2>1, ResyncArbitrates
  <2>2. CASE x \in DmaIrqs /\ DmaFire(Requesting' \cap DmaIrqs)
    BY <1>1, <1>2, <1>3, <2>2, ResyncArbitrates
  <2>3. CASE SoftwareMieSync \/ StkSchedule \/ Hold
    BY <2>3 DEF SoftwareMieSync, StkSchedule, Hold, route, Arbitrated
  <2> QED BY <1>5, <2>1, <2>2, <2>3 DEF RowResync
<1> QED BY <1>4, <1>5

\* Whatever happens, an owner loses the slot only by mret, by a reset or
\* because its device stopped asking.
THEOREM Arbitration == Spec => OwnerNeverPreempted
<1> DEFINE A == slot # 0 /\ slot' # slot =>
                  \/ Len(handlers') < Len(handlers)
                  \/ ~vtf'
                  \/ slot \in TableIrqs \ Requesting'
<1>1. ASSUME Inv, Next, slot # 0, slot' # slot, vtf',
             slot \notin TableIrqs \ Requesting'
      PROVE  Len(handlers') < Len(handlers)
  <2>1. ~Arbitrated
    BY <1>1 DEF Arbitrated
  <2>2. ~DeviceStep
    <3>1. ASSUME NEW x \in Irqs, NEW b \in BOOLEAN,
                 DeviceEvent(x, b) \/ UsbModeWrite(x, b)
          PROVE  FALSE
      BY <1>1, <2>1, <3>1, DeviceArbitrates, ResyncArbitrates DEF DeviceEvent, UsbModeWrite
    <3>2. ASSUME NEW x \in Irqs, NEW b \in BOOLEAN,
                 DmaTransfer(x, b) \/ DmaError(x, b) \/ DmaConfigure(x, b)
          PROVE  FALSE
      BY <1>1, <3>2 DEF DmaTransfer, DmaError, DmaConfigure, DmaFire, route
    <3>3. ASSUME NEW x \in Irqs, QuietChange(x) PROVE FALSE
      BY <1>1, <3>3 DEF QuietChange, route
    <3> QED BY <3>1, <3>2, <3>3 DEF DeviceStep
  <2>3. ~DmaStep
    <3>1. ASSUME NEW C \in {Dma1Irqs, Dma2Irqs, DmaExIrqs}, NEW clr, DmaClear(C, clr)
          PROVE  FALSE
      <4>1. slot \in C \ line'
        BY <1>1, <3>1 DEF DmaClear
      <4>2. slot \in TableIrqs \ Requesting'
        BY <4>1, IrqFacts DEF Requesting, DmaIrqs
      <4> QED BY <1>1, <4>2
    <3> QED BY <3>1 DEF DmaStep
  <2>4. ~PficStep
    <3>1. ASSUME NEW x, WriteIENR(x) \/ WriteIRER(x) PROVE FALSE
      BY <1>1, <2>1, <3>1, DeviceArbitrates DEF WriteIENR, WriteIRER
    <3>2. ASSUME NEW x, NEW mode, NEW b,
                 WriteIPSR(x) \/ WriteIPRR(x) \/ WriteStkCtlr(mode, b) \/ ClearStkSr \/ StkTick
          PROVE  FALSE
      BY <1>1, <3>2 DEF WriteIPSR, WriteIPRR, WriteStkCtlr, ClearStkSr, StkTick
    <3> QED BY <3>1, <3>2 DEF PficStep
  <2>5. ~\E attached \in SUBSET (UsbIrqs \cap Irqs) : Reset(attached)
    BY <1>1 DEF Reset
  <2>6. ASSUME NEW b, \/ SetGie(b) \/ TakeExternal \/ TakeSoftware \/ TakeTimer
                      \/ Fault \/ StartFirmware
        PROVE  FALSE
    BY <1>1, <2>6 DEF SetGie, TakeExternal, TakeSoftware, TakeTimer, Fault,
       StartFirmware, EnterVtf, EnterTrap, route
  <2>7. Mret
    BY <1>1, <2>2, <2>3, <2>4, <2>5, <2>6 DEF Next, HartStep
  <2>8. handlers # << >> /\ handlers' = Tail(handlers) /\ handlers \in Seq(Vectors)
    BY <1>1, <2>7 DEF Mret, Inv, TypeOK, HartOK
  <2> QED BY <2>8
<1>2. Inv /\ [Next]_vars => [A]_vars
  BY <1>1
<1>3. Spec => [][A]_vars
  <2> HIDE DEF A
  <2> QED BY <1>2, Invariance, PTL DEF Spec
<1> QED BY <1>3 DEF OwnerNeverPreempted

-----------------------------------------------------------------------------
(***************************************************************************)
(* Nesting: what the counters of wch-qingke.h say about the handlers.      *)
(***************************************************************************)

\* Nothing is interrupted before the startup code has set VTF mode.
NestInv ==
    /\ gie \/ handlers # << >> => vtf
    /\ VtfMatchesHandlers

\* The steps that leave the hart alone.
LEMMA OthersLeaveHart ==
    ASSUME DeviceStep \/ DmaStep \/ PficStep
    PROVE  UNCHANGED hart
<1>1. CASE DeviceStep
  BY <1>1 DEF DeviceStep, DeviceEvent, QuietChange, UsbModeWrite, DmaTransfer, DmaError, DmaConfigure
<1>2. CASE DmaStep
  BY <1>2 DEF DmaStep, DmaClear
<1>3. CASE PficStep
  BY <1>3 DEF PficStep, WriteIENR, WriteIRER, WriteIPSR, WriteIPRR, WriteStkCtlr,
     ClearStkSr, StkTick
<1> QED BY <1>1, <1>2, <1>3

\* Pushing a handler over HardFault handlers only makes it the running one.
LEMMA PushStep ==
    ASSUME handlers \in Seq(Vectors), NEW vec \in Vectors,
           handlers' = << vec >> \o handlers,
           \A i \in 1 .. Len(handlers) : handlers[i] = HardFault
    PROVE  /\ Len(handlers') > 0 /\ handlers'[1] = vec
           /\ \A i \in 1 .. Len(handlers') : i # 1 => handlers'[i] = HardFault
<1>1. Len(handlers') = Len(handlers) + 1 /\ Len(handlers) \in Nat
  OBVIOUS
<1>2. handlers'[1] = vec
  OBVIOUS
<1>3. ASSUME NEW i \in 1 .. Len(handlers'), i # 1
      PROVE  handlers'[i] = HardFault
  <2>1. i - 1 \in 1 .. Len(handlers)
    BY <1>1, <1>3
  <2>2. handlers'[i] = handlers[i - 1]
    BY <1>1, <1>3, <2>1
  <2> QED BY <2>1, <2>2
<1> QED BY <1>1, <1>2, <1>3

\* No step breaks the nesting invariant while exceptions stay out of handlers.
LEMMA NestStep ==
    ASSUME Faults # "anywhere", Inv, NestInv, [Next]_vars
    PROVE  NestInv'
<1> handlers \in Seq(Vectors) /\ vtfInIsr \in Nat /\ hpeDepth \in Nat
  BY DEF Inv, TypeOK, HartOK, HpeMax
<1>1. CASE DeviceStep \/ DmaStep \/ PficStep \/ UNCHANGED vars
  <2>1. UNCHANGED hart
    BY <1>1, OthersLeaveHart DEF vars
  <2> QED BY <2>1 DEF NestInv, VtfMatchesHandlers, hart
<1>2. CASE \E b \in BOOLEAN : SetGie(b)
  BY <1>2 DEF SetGie, NestInv, VtfMatchesHandlers
<1>3. CASE TakeExternal \/ TakeTimer
  <2> DEFINE vec == handlers'[1]
  <2>1. vtf /\ ~swSkip /\ vtfInIsr = 0
    BY <1>3 DEF TakeExternal, TakeTimer, Blocked, NestInv
  <2>2. \A i \in 1 .. Len(handlers) : handlers[i] = HardFault
    BY <2>1 DEF NestInv, VtfMatchesHandlers
  <2>3. PICK v \in Vectors : /\ v \notin {SoftwareIrq, HardFault}
                             /\ handlers' = << v >> \o handlers
    <3>1. CASE TakeExternal
      <4> DEFINE v == IF slot # 0 THEN slot ELSE ExtCause
      <4>1. v \in Vectors /\ v \notin {SoftwareIrq, HardFault}
        BY IrqFacts DEF Vectors, Inv, TypeOK, RouteOK, SoftwareIrq, HardFault, ExtCause
      <4>2. handlers' = << v >> \o handlers
        BY <3>1 DEF TakeExternal, EnterVtf, EnterTrap
      <4> QED BY <4>1, <4>2
    <3>2. CASE TakeTimer
      <4>1. handlers' = << SysTickIrq >> \o handlers
        BY <3>2 DEF TakeTimer, EnterVtf, EnterTrap
      <4>2. SysTickIrq \in Vectors /\ SysTickIrq \notin {SoftwareIrq, HardFault}
        BY DEF Vectors, SysTickIrq, SoftwareIrq, HardFault
      <4> QED BY <4>1, <4>2
    <3> QED BY <1>3, <3>1, <3>2
  <2>4. /\ Len(handlers') > 0 /\ handlers'[1] = v
        /\ \A i \in 1 .. Len(handlers') : i # 1 => handlers'[i] = HardFault
    BY <2>2, <2>3, PushStep
  <2>5. Len(handlers') \in Nat
    BY <2>3
  <2>6. vtfInIsr' = vtfInIsr + 1 /\ vtf' /\ ~swSkip'
        /\ hpeDepth' = IF hpeDepth < HpeMax THEN hpeDepth + 1 ELSE hpeDepth
    <3>1. EnterVtf(IF slot # 0 THEN slot ELSE ExtCause) \/ EnterVtf(SysTickIrq)
      BY <1>3 DEF TakeExternal, TakeTimer
    <3>2. /\ vtfInIsr' = vtfInIsr + 1 /\ vtf' = vtf /\ swSkip' = swSkip
          /\ hpeDepth' = IF hpeDepth < HpeMax THEN hpeDepth + 1 ELSE hpeDepth
      BY <3>1 DEF EnterVtf, EnterTrap
    <3>3. vtf' /\ ~swSkip'
      BY <2>1, <3>2
    <3> QED BY <3>2, <3>3
  <2>7. hpeDepth = vtfInIsr
    BY DEF NestInv, VtfMatchesHandlers
  <2>8. vtfInIsr' = 1 /\ hpeDepth' = 1
    BY <2>1, <2>6, <2>7 DEF HpeMax
  <2>9. VtfMatchesHandlers'
    <3> DEFINE running == {i \in 1 .. Len(handlers') : handlers'[i] # HardFault}
    <3>1. running = {1} /\ ~\E i \in running : handlers'[i] = SoftwareIrq
      BY <2>3, <2>4, <2>5
    <3> HIDE DEF running
    <3>2. /\ running \subseteq {1} /\ running # {}
          /\ 1 = IF running # {} /\ ~\E i \in running : handlers'[i] = SoftwareIrq THEN 1 ELSE 0
          /\ swSkip' <=> \E i \in running : handlers'[i] = SoftwareIrq
      BY <2>6, <3>1
    <3> QED BY <2>8, <3>2 DEF VtfMatchesHandlers, running
  <2> QED BY <2>6, <2>9 DEF NestInv
<1>4. CASE TakeSoftware
  <2>1. vtf /\ ~swSkip /\ vtfInIsr = 0
    BY <1>4 DEF TakeSoftware, Blocked, NestInv
  <2>2. \A i \in 1 .. Len(handlers) : handlers[i] = HardFault
    BY <2>1 DEF NestInv, VtfMatchesHandlers
  <2>3. SoftwareIrq \in Vectors /\ handlers' = << SoftwareIrq >> \o handlers
    BY <1>4 DEF TakeSoftware, EnterTrap, Vectors
  <2>4. /\ Len(handlers') > 0 /\ handlers'[1] = SoftwareIrq
        /\ \A i \in 1 .. Len(handlers') : i # 1 => handlers'[i] = HardFault
    BY <2>2, <2>3, PushStep
  <2>5. Len(handlers') \in Nat /\ SoftwareIrq # HardFault
    BY <2>3 DEF SoftwareIrq, HardFault
  <2>6. vtfInIsr' = 0 /\ hpeDepth' = 0 /\ swSkip' /\ vtf' = vtf
    BY <1>4, <2>1 DEF TakeSoftware, EnterTrap, NestInv, VtfMatchesHandlers
  <2> QED BY <2>1, <2>4, <2>5, <2>6 DEF NestInv, VtfMatchesHandlers
<1>5. CASE Fault
  <2>1. vtf /\ vtf' /\ handlers = << >> /\ HardFault \in Vectors
        /\ handlers' = << HardFault >> \o handlers
        /\ UNCHANGED << vtfInIsr, hpeDepth, swSkip >>
    BY <1>5 DEF Fault, EnterTrap, Vectors
  <2>2. handlers' = << HardFault >>
    BY <2>1
  <2> QED BY <2>1, <2>2 DEF NestInv, VtfMatchesHandlers
<1>6. CASE Mret
  <2>1. /\ handlers # << >> /\ handlers' = Tail(handlers) /\ ~swSkip' /\ vtf' = vtf
        /\ \/ swSkip /\ vtfInIsr' = vtfInIsr /\ hpeDepth' = hpeDepth
           \/ /\ vtfInIsr' = (IF vtfInIsr > 0 THEN vtfInIsr - 1 ELSE 0)
              /\ hpeDepth' = (IF hpeDepth > 0 THEN hpeDepth - 1 ELSE 0)
    BY <1>6 DEF Mret
  <2>2. /\ Len(handlers') = Len(handlers) - 1 /\ Len(handlers) \in Nat \ {0}
        /\ \A i \in 1 .. Len(handlers') : handlers'[i] = handlers[i + 1]
    BY <2>1
  <2>3. \A i \in 1 .. Len(handlers') : handlers'[i] = HardFault
    BY <2>2 DEF NestInv, VtfMatchesHandlers
  <2>4. vtfInIsr' = 0 /\ hpeDepth' = 0 /\ vtf'
    <3>1. hpeDepth = vtfInIsr /\ vtfInIsr \in {0, 1} /\ (swSkip => vtfInIsr = 0)
      BY DEF NestInv, VtfMatchesHandlers
    <3>2. vtf'
      BY <2>1 DEF NestInv
    <3> QED BY <2>1, <3>1, <3>2
  <2> QED BY <2>1, <2>3, <2>4 DEF NestInv, VtfMatchesHandlers
<1>7. CASE StartFirmware
  BY <1>7 DEF StartFirmware, NestInv, VtfMatchesHandlers
<1>8. CASE \E attached \in SUBSET (UsbIrqs \cap Irqs) : Reset(attached)
  <2>1. /\ handlers' = << >> /\ vtfInIsr' = 0 /\ hpeDepth' = 0
        /\ swSkip' = FALSE /\ gie' = FALSE
    BY <1>8 DEF Reset
  <2> QED BY <2>1 DEF NestInv, VtfMatchesHandlers
<1> QED BY <1>1, <1>2, <1>3, <1>4, <1>5, <1>6, <1>7, <1>8 DEF Next, HartStep

\* So the nesting invariant always holds then.
LEMMA NestInvariance ==
    ASSUME Faults # "anywhere"
    PROVE  Spec => []NestInv
<1>1. Init => NestInv
  BY DEF Init, NestInv, VtfMatchesHandlers
<1>2. Inv /\ NestInv /\ [Next]_vars => NestInv'
  BY NestStep
<1> QED BY <1>1, <1>2, Invariance, PTL DEF Spec

\* If only the thread faults, the nesting counters always describe the
\* handlers that run, whatever the number of handlers.
THEOREM Nesting ==
    ASSUME Faults # "anywhere"
    PROVE  Spec => []VtfMatchesHandlers
<1>1. NestInv => VtfMatchesHandlers
  BY DEF NestInv
<1> QED BY <1>1, NestInvariance, PTL

-----------------------------------------------------------------------------
(***************************************************************************)
(* The USARTs keep the slot while their handler runs.                      *)
(***************************************************************************)

\* Inside an interrupt handler nobody but mret and the reset moves the slot
\* away from a USART.
LEMMA UsartOwnerStays ==
    ASSUME Inv, Next, vtf', slot \in UsartIrqs, vtfInIsr > 0, slot' # slot
    PROVE  Mret
<1>0. slot # 0 /\ vtfInIsr # 0
  BY IrqFacts DEF Inv, TypeOK, HartOK
<1>1. ASSUME NEW x, DeviceResync(x) \/ RowResync(x)
      PROVE  FALSE
  <2>1. ASSUME NEW F, UsartResync(F) PROVE FALSE
    BY <1>0, <2>1, Zenon DEF UsartResync, ClaimSlot, Hold, route
  <2>2. ASSUME NEW F \in SUBSET LatchIrqs, LatchResync(F) PROVE FALSE
    BY <1>0, <2>2, IrqFacts DEF LatchResync, ClaimSlot
  <2>3. ~Eth10mResync
    <3>1. slot # Eth10mIrq
      BY DEF UsartIrqs, Usart1Irq, LiteIrqs, Eth10mIrq
    <3> QED BY <1>0, <3>1 DEF Eth10mResync, ClaimSlot, Hold, route
  <2>4. ASSUME NEW y \in UsbIrqs, UsbResync(y) PROVE FALSE
    BY <1>0, <2>4, IrqFacts DEF UsbResync, ClaimSlot
  <2>5. ASSUME NEW D, DmaFire(D) PROVE FALSE
    BY <1>0, <2>5 DEF DmaFire
  <2>6. ~SoftwareMieSync /\ ~StkSchedule /\ ~Hold
    BY DEF SoftwareMieSync, StkSchedule, Hold, route
  <2>7. TimIrqs \in SUBSET LatchIrqs /\ \A y \in TimIrqs \cup {EthIrq} : {y} \in SUBSET LatchIrqs
    BY DEF LatchIrqs
  <2>8. ~DeviceResync(x)
    BY <2>1, <2>2, <2>3, <2>4, <2>7 DEF DeviceResync
  <2> QED BY <1>1, <2>2, <2>5, <2>6, <2>7, <2>8 DEF RowResync
<1>2. ~DeviceStep
  <2>1. ASSUME NEW x \in Irqs, NEW b \in BOOLEAN, DeviceEvent(x, b) PROVE FALSE
    BY <1>1, <2>1 DEF DeviceEvent
  <2>2. ASSUME NEW x \in Irqs, NEW b \in BOOLEAN, UsbModeWrite(x, b) PROVE FALSE
    BY <1>0, <2>2, IrqFacts DEF UsbModeWrite, UsbResync, ClaimSlot
  <2>3. ASSUME NEW x \in Irqs, NEW b \in BOOLEAN,
               DmaTransfer(x, b) \/ DmaError(x, b) \/ DmaConfigure(x, b)
        PROVE  FALSE
    BY <1>0, <2>3 DEF DmaTransfer, DmaError, DmaConfigure, DmaFire, route
  <2>4. ASSUME NEW x \in Irqs, QuietChange(x) PROVE FALSE
    BY <2>4 DEF QuietChange, route
  <2> QED BY <2>1, <2>2, <2>3, <2>4 DEF DeviceStep
<1>3. ~DmaStep
  <2>1. ASSUME NEW C \in {Dma1Irqs, Dma2Irqs, DmaExIrqs}, NEW clr, DmaClear(C, clr)
        PROVE  FALSE
    BY <2>1, IrqFacts DEF DmaClear, DmaIrqs
  <2> QED BY <2>1 DEF DmaStep
<1>4. ~PficStep
  <2>1. ASSUME NEW x, WriteIENR(x) \/ WriteIRER(x) PROVE FALSE
    BY <1>1, <2>1 DEF WriteIENR, WriteIRER
  <2>2. ASSUME NEW x, NEW mode, NEW b,
               WriteIPSR(x) \/ WriteIPRR(x) \/ WriteStkCtlr(mode, b) \/ ClearStkSr \/ StkTick
        PROVE  FALSE
    BY <1>0, <2>2 DEF WriteIPSR, WriteIPRR, WriteStkCtlr, ClearStkSr, StkTick
  <2> QED BY <2>1, <2>2 DEF PficStep
<1>5. ~\E attached \in SUBSET (UsbIrqs \cap Irqs) : Reset(attached)
  BY DEF Reset
<1>6. ASSUME NEW b, \/ SetGie(b) \/ TakeExternal \/ TakeSoftware \/ TakeTimer
                    \/ Fault \/ StartFirmware
      PROVE  FALSE
  BY <1>6 DEF SetGie, TakeExternal, TakeSoftware, TakeTimer, Fault,
     StartFirmware, EnterVtf, EnterTrap, route
<1> QED BY <1>2, <1>3, <1>4, <1>5, <1>6 DEF Next, HartStep

\* No step takes the slot from a USART whose handler runs.
LEMMA UsartKeepsSlotStep ==
    ASSUME Faults # "anywhere", Inv, NestInv, NestInv', UsartKeepsSlot, [Next]_vars
    PROVE  UsartKeepsSlot'
<1> handlers \in Seq(Vectors) /\ vtfInIsr \in Nat
  BY DEF Inv, TypeOK, HartOK
<1>1. HardFault \notin UsartIrqs /\ SoftwareIrq \notin UsartIrqs
      /\ ExtCause \notin UsartIrqs /\ SysTickIrq \notin UsartIrqs
  BY DEF UsartIrqs, Usart1Irq, LiteIrqs, HardFault, SoftwareIrq, ExtCause, SysTickIrq
<1>2. SUFFICES ASSUME NEW i \in 1 .. Len(handlers'), handlers'[i] \in UsartIrqs
               PROVE  slot' = handlers'[i]
  BY DEF UsartKeepsSlot
<1>3. CASE handlers' = handlers
  <2>1. slot = handlers[i] /\ slot \in UsartIrqs
    BY <1>2, <1>3 DEF UsartKeepsSlot
  <2>2. vtfInIsr > 0
    <3> DEFINE running == {k \in 1 .. Len(handlers) : handlers[k] # HardFault}
    <3>1. i \in running /\ running \subseteq {1}
      BY <1>1, <1>2, <1>3 DEF NestInv, VtfMatchesHandlers
    <3>2. running # {} /\ ~\E k \in running : handlers[k] = SoftwareIrq
      BY <1>1, <1>2, <1>3, <3>1
    <3>3. vtfInIsr = IF running # {} /\ ~\E k \in running : handlers[k] = SoftwareIrq THEN 1 ELSE 0
      BY DEF NestInv, VtfMatchesHandlers
    <3> HIDE DEF running
    <3> QED BY <3>2, <3>3
  <2>3. vtf'
    BY <1>2 DEF NestInv
  <2>4. ~Mret
    <3>1. Mret => Len(handlers') < Len(handlers)
      BY DEF Mret
    <3> QED BY <1>3, <3>1
  <2>5. CASE Next
    BY <1>3, <2>1, <2>2, <2>3, <2>4, <2>5, UsartOwnerStays
  <2>6. CASE UNCHANGED vars
    BY <1>3, <2>1, <2>6 DEF vars, route
  <2> QED BY <2>5, <2>6
<1>4. CASE handlers' # handlers
  <2>1. \/ TakeExternal \/ TakeSoftware \/ TakeTimer \/ Fault \/ Mret
        \/ \E attached \in SUBSET (UsbIrqs \cap Irqs) : Reset(attached)
    <3>1. ~UNCHANGED hart
      BY <1>4 DEF hart
    <3> QED BY <1>4, <3>1, OthersLeaveHart DEF Next, HartStep, SetGie, StartFirmware, vars
  <2>2. CASE TakeExternal \/ TakeSoftware \/ TakeTimer \/ Fault
    <3>1. PICK v \in Vectors : /\ handlers' = << v >> \o handlers
                               /\ v \in UsartIrqs => v = slot
      <4>1. /\ SoftwareIrq \in Vectors /\ SysTickIrq \in Vectors
            /\ HardFault \in Vectors /\ ExtCause \in Vectors
            /\ slot # 0 => slot \in Vectors
        BY DEF Vectors, Inv, TypeOK, RouteOK
      <4> QED BY <1>1, <2>2, <4>1 DEF TakeExternal, TakeSoftware, TakeTimer, Fault,
              EnterVtf, EnterTrap
    <3>2. slot' = slot
      BY <2>2 DEF TakeExternal, TakeSoftware, TakeTimer, Fault, EnterVtf, EnterTrap, route
    <3>3. CASE i = 1
      BY <1>2, <3>1, <3>2, <3>3
    <3>4. CASE i # 1
      <4>1. i - 1 \in 1 .. Len(handlers) /\ handlers'[i] = handlers[i - 1]
        BY <1>2, <3>1, <3>4
      <4> QED BY <1>2, <3>2, <4>1 DEF UsartKeepsSlot
    <3> QED BY <3>3, <3>4
  <2>3. CASE Mret
    <3>1. i + 1 \in 1 .. Len(handlers) /\ handlers'[i] = handlers[i + 1] /\ i + 1 # 1
      BY <1>2, <2>3 DEF Mret
    <3>2. handlers[i + 1] = HardFault
      BY <3>1 DEF NestInv, VtfMatchesHandlers
    <3> QED BY <1>1, <1>2, <3>1, <3>2
  <2>4. CASE \E attached \in SUBSET (UsbIrqs \cap Irqs) : Reset(attached)
    BY <1>2, <2>4 DEF Reset
  <2> QED BY <2>1, <2>2, <2>3, <2>4
<1> QED BY <1>3, <1>4

\* While the handler of a USART runs, the slot names that USART.
THEOREM UsartHandlers ==
    ASSUME Faults # "anywhere"
    PROVE  Spec => []UsartKeepsSlot
<1>1. Init => UsartKeepsSlot
  BY DEF Init, UsartKeepsSlot
<1>2. Inv /\ NestInv /\ NestInv' /\ UsartKeepsSlot /\ [Next]_vars => UsartKeepsSlot'
  BY UsartKeepsSlotStep
<1> QED BY <1>1, <1>2, Invariance, NestInvariance, PTL DEF Spec

-----------------------------------------------------------------------------
(***************************************************************************)
(* Nobody waits for a free slot.  The two kinds of devices that give the   *)
(* slot back without walking the table must be absent.                     *)
(***************************************************************************)

\* After a walk of the table, a free slot means that nobody could claim it.
LEMMA RescanServes ==
    ASSUME RequestOK', NEW soft, NEW again, Rescan(soft, again)
    PROVE  NobodyWaitsForFreeSlot'
<1> DEFINE hw == Requesting' \ latched
           sw == IF soft /\ hw = {} THEN (ienr' \cap ipr) \ (TableIrqs \cup {SoftwareIrq, SysTickIrq})
                 ELSE {}
           w  == IF hw # {} THEN FirstInTable(hw)
                 ELSE IF sw # {} THEN Lowest(sw) ELSE 0
<1>1. Requesting' \subseteq Irqs \cap TableIrqs
  BY DEF RequestOK, Requesting
<1>2. hw # {} => FirstInTable(hw) \in hw
  <2> HIDE DEF hw
  <2>1. hw \in SUBSET TableIrqs
    BY <1>1 DEF hw
  <2> QED BY <2>1, FirstIsIn
<1>3. slot' = w /\ latched' = (latched \cap Requesting') \cup ({w} \cap LatchIrqs)
  BY DEF Rescan
<1>4. CASE hw # {}
  <2>1. w \in hw
    BY <1>2, <1>4
  <2>2. w # 0
    BY <1>1, <2>1, IrqFacts
  <2> QED BY <1>3, <2>2 DEF NobodyWaitsForFreeSlot
<1>5. CASE hw = {}
  BY <1>3, <1>5 DEF NobodyWaitsForFreeSlot
<1> QED BY <1>4, <1>5

\* A USART, a TIM or a MAC leaves the slot free only if it does not want it.
LEMMA ResyncServes ==
    ASSUME Inv, NobodyWaitsForFreeSlot, RequestOK',
           NEW F \in SUBSET (UsartIrqs \cup LatchIrqs),
           \A y \in TableIrqs \ F : y \in Requesting' <=> y \in Requesting,
           slot \in {0, slot'} => untold \ F \subseteq untold',
           \/ F \subseteq UsartIrqs /\ UsartResync(F)
           \/ F \subseteq LatchIrqs /\ LatchResync(F)
           \/ F = {Eth10mIrq} /\ Eth10mResync
    PROVE  NobodyWaitsForFreeSlot'
<1>1. Requesting' \subseteq Irqs \cap TableIrqs
  BY DEF RequestOK, Requesting
<1>2. ASSUME NEW x \in Requesting', ClaimSlot(x)
      PROVE  NobodyWaitsForFreeSlot'
  <2>1. slot' # 0
    BY <1>1, <1>2, IrqFacts DEF ClaimSlot
  <2> QED BY <2>1 DEF NobodyWaitsForFreeSlot
<1>3. CASE F \subseteq UsartIrqs /\ UsartResync(F)
  <2> DEFINE want == F \cap Requesting'
  <2>1. want # {} => FirstInTable(want) \in want
    <3>1. want \in SUBSET TableIrqs
      BY IrqFacts
    <3> HIDE DEF want
    <3> QED BY <3>1, FirstIsIn
  <2>2. CASE /\ slot \in want \/ (slot = 0 /\ want # {})
             /\ ClaimSlot(IF slot = 0 THEN FirstInTable(want) ELSE slot)
    <3>1. (IF slot = 0 THEN FirstInTable(want) ELSE slot) \in Requesting'
      BY <2>1, <2>2
    <3> QED BY <1>2, <2>2, <3>1
  <2>3. CASE \E again : Rescan(FALSE, again)
    BY <2>3, RescanServes
  <2>4. CASE slot \in F /\ slot' = slot
    BY <2>4, <1>3, IrqFacts DEF NobodyWaitsForFreeSlot
  <2>5. CASE slot \notin F /\ (slot = 0 => want = {}) /\ Hold
    BY <1>1, <2>5 DEF Hold, route, NobodyWaitsForFreeSlot
  <2> QED BY <1>3, <2>2, <2>3, <2>4, <2>5 DEF UsartResync
<1>4. CASE F \subseteq LatchIrqs /\ LatchResync(F)
  <2> DEFINE want == F \cap Requesting'
             fresh == want \ latched
  <2>1. fresh # {} => FirstInTable(fresh) \in fresh
    <3>1. fresh \in SUBSET TableIrqs
      BY IrqFacts
    <3> HIDE DEF fresh
    <3> QED BY <3>1, FirstIsIn
  <2>2. CASE /\ slot \in fresh \/ (slot = 0 /\ fresh # {})
             /\ ClaimSlot(IF slot = 0 THEN FirstInTable(fresh) ELSE slot)
    <3>1. (IF slot = 0 THEN FirstInTable(fresh) ELSE slot) \in Requesting'
      BY <2>1, <2>2
    <3> QED BY <1>2, <2>2, <3>1
  <2>3. CASE Rescan(FALSE, {})
    BY <2>3, RescanServes
  <2>4. CASE /\ slot = 0 => fresh = {}
             /\ latched' = latched \ (F \ want)
             /\ slot' = slot
    BY <1>1, <2>4 DEF NobodyWaitsForFreeSlot
  <2> QED BY <1>4, <2>2, <2>3, <2>4 DEF LatchResync
<1>5. CASE F = {Eth10mIrq} /\ Eth10mResync
  <2>1. CASE Rescan(FALSE, {})
    BY <2>1, RescanServes
  <2>2. CASE Eth10mIrq \notin Requesting' /\ latched' = latched \ {Eth10mIrq} /\ slot' = slot
    BY <1>1, <1>5, <2>2 DEF NobodyWaitsForFreeSlot
  <2>3. CASE Eth10mIrq \in Requesting' /\ ClaimSlot(Eth10mIrq)
    BY <1>2, <2>3
  <2>4. CASE /\ Eth10mIrq \in latched \/ slot # 0
             /\ Hold
    BY <1>1, <1>5, <2>4 DEF Hold, route, NobodyWaitsForFreeSlot
  <2> QED BY <1>5, <2>1, <2>2, <2>3, <2>4 DEF Eth10mResync
<1> QED BY <1>3, <1>4, <1>5

\* Without DMA and USB no device is left waiting while the slot is free: each
\* release walks the table.
THEOREM FreeSlotServes ==
    ASSUME Irqs \cap (DmaIrqs \cup UsbIrqs) = {}
    PROVE  Spec => []NobodyWaitsForFreeSlot
<1>1. Init => NobodyWaitsForFreeSlot
  BY DEF Init, NobodyWaitsForFreeSlot, Requesting
<1>2. ASSUME Inv, Inv', NobodyWaitsForFreeSlot, [Next]_vars
      PROVE  NobodyWaitsForFreeSlot'
  <2>1. RequestOK' /\ Requesting' \subseteq Irqs \cap TableIrqs
        /\ Requesting \subseteq Irqs \cap TableIrqs
    BY <1>2 DEF Inv, TypeOK, RequestOK, Requesting
  <2>2. ASSUME NEW x \in Irqs, NEW b \in BOOLEAN, DeviceEvent(x, b)
        PROVE  NobodyWaitsForFreeSlot'
    <3>0. slot \in {0, slot'} => untold \ {x} \subseteq untold'
      BY <1>2, <2>2, HearFacts DEF DeviceEvent, Inv, TypeOK
    <3>1. \A y \in TableIrqs \ {x} : y \in Requesting' <=> y \in Requesting
      BY <2>2 DEF DeviceEvent, Requesting
    <3>2. \A y \in TableIrqs \ LiteIrqs : x \in LiteIrqs => (y \in Requesting' <=> y \in Requesting)
      BY <3>1
    <3> QED BY <1>2, <2>1, <2>2, <3>0, <3>1, <3>2, ResyncServes
        DEF DeviceEvent, DeviceResync, UsartIrqs, LatchIrqs
  <2>3. ASSUME NEW x \in PficIrqs, WriteIENR(x) \/ WriteIRER(x)
        PROVE  NobodyWaitsForFreeSlot'
    <3>0. /\ slot \in {0, slot'} => untold \ {x} \subseteq untold'
          /\ x \notin TableIrqs => untold \ {x} = untold
      BY <1>2, <2>3, HearFacts, QuietFacts DEF WriteIENR, WriteIRER, Inv, TypeOK
    <3>1. \A y \in TableIrqs \ {x} : y \in Requesting' <=> y \in Requesting
      BY <2>3 DEF WriteIENR, WriteIRER, Requesting
    <3>2. \A y \in TableIrqs \ LiteIrqs : x \in LiteIrqs => (y \in Requesting' <=> y \in Requesting)
      BY <3>1
    <3>3. \A y \in TableIrqs \ TimIrqs : x \in TimIrqs => (y \in Requesting' <=> y \in Requesting)
      BY <3>1
    <3>4. RowResync(x) /\ line' = line
      BY <2>3 DEF WriteIENR, WriteIRER
    <3>5. CASE x \in UsartIrqs \cup LatchIrqs
      <4>1. x \in UsbIrqs \cup DmaIrqs => FALSE
        BY <3>5, IrqFacts
      <4>2. x # SoftwareIrq /\ x # SysTickIrq
        BY <3>5 DEF SoftwareIrq, SysTickIrq, UsartIrqs, LatchIrqs, LiteIrqs, TimIrqs,
           Usart1Irq, EthIrq, Eth10mIrq
      <4>3. x \in TableIrqs
        BY <3>5, IrqFacts
      <4>4. \/ x = Usart1Irq /\ UsartResync({Usart1Irq})
            \/ x \in LiteIrqs /\ UsartResync(LiteIrqs)
            \/ x \in TimIrqs \cup {EthIrq} /\ LatchResync({x})
            \/ x \in TimIrqs /\ LatchResync(TimIrqs)
            \/ x = Eth10mIrq /\ Eth10mResync
        BY <3>4, <4>1, <4>2, <4>3 DEF RowResync, DeviceResync
      <4>5. CASE x = Usart1Irq /\ UsartResync({Usart1Irq})
        BY <1>2, <2>1, <3>0, <3>1, <4>5, ResyncServes DEF UsartIrqs
      <4>6. CASE x \in LiteIrqs /\ UsartResync(LiteIrqs)
        BY <1>2, <2>1, <3>0, <3>2, <4>6, ResyncServes DEF UsartIrqs
      <4>7. CASE x \in TimIrqs \cup {EthIrq} /\ LatchResync({x})
        BY <1>2, <2>1, <3>0, <3>1, <4>7, ResyncServes DEF LatchIrqs
      <4>8. CASE x \in TimIrqs /\ LatchResync(TimIrqs)
        BY <1>2, <2>1, <3>0, <3>3, <4>8, ResyncServes DEF LatchIrqs
      <4>9. CASE x = Eth10mIrq /\ Eth10mResync
        BY <1>2, <2>1, <3>0, <3>1, <4>9, ResyncServes DEF LatchIrqs
      <4> QED BY <4>4, <4>5, <4>6, <4>7, <4>8, <4>9
    <3>6. CASE x \notin TableIrqs
      <4>1. Requesting' = Requesting
        BY <2>1, <3>1, <3>6
      <4>2. UNCHANGED << slot, latched >>
        BY <3>4, <3>6, IrqFacts
        DEF RowResync, DeviceResync, SoftwareMieSync, StkSchedule, Hold, route,
            TableIrqs, LatchIrqs, UsartIrqs
      <4> QED BY <1>2, <3>0, <3>6, <4>1, <4>2 DEF NobodyWaitsForFreeSlot
    <3>7. CASE x \in UsbIrqs \cup DmaIrqs
      <4>1. x \notin {SoftwareIrq, SysTickIrq}
        BY <3>7 DEF SoftwareIrq, SysTickIrq, UsbIrqs, DmaIrqs, UsbHsIrq, UsbFsIrq,
           Dma1Irqs, Dma2Irqs, DmaExIrqs
      <4> QED BY <3>7, <4>1, IrqFacts DEF PficIrqs
    <3> QED BY <3>5, <3>6, <3>7 DEF TableIrqs
  <2>4. ASSUME UNCHANGED << slot, latched, ienr, line, gate, untold >>
        PROVE  NobodyWaitsForFreeSlot'
    BY <1>2, <2>4 DEF NobodyWaitsForFreeSlot, Requesting
  <2>5. CASE DeviceStep
    <3>1. ASSUME NEW x \in Irqs, NEW b \in BOOLEAN,
                 \/ UsbModeWrite(x, b) \/ DmaTransfer(x, b)
                 \/ DmaError(x, b) \/ DmaConfigure(x, b)
          PROVE  FALSE
      BY <3>1 DEF UsbModeWrite, DmaTransfer, DmaError, DmaConfigure
    <3>2. ASSUME NEW x \in Irqs, QuietChange(x) PROVE NobodyWaitsForFreeSlot'
      BY <1>2, <3>2 DEF QuietChange, route, NobodyWaitsForFreeSlot, Requesting
    <3> QED BY <2>2, <2>5, <3>1, <3>2 DEF DeviceStep
  <2>6. ~DmaStep
    BY DEF DmaStep, DmaClear, DmaIrqs
  <2>7. CASE PficStep
    <3>1. ASSUME NEW x, WriteIPSR(x) PROVE NobodyWaitsForFreeSlot'
      <4>1. UNCHANGED << latched, ienr, line, gate, untold >>
        BY <3>1 DEF WriteIPSR, request
      <4>2. slot' = slot \/ slot' # 0
        <5>1. x \in Pended \/ x = SoftwareIrq
          BY <3>1 DEF WriteIPSR
        <5> QED BY <3>1, <5>1, IrqFacts DEF WriteIPSR
      <4>3. CASE slot' = slot
        BY <2>4, <4>1, <4>3
      <4>4. CASE slot' # 0
        BY <4>4 DEF NobodyWaitsForFreeSlot
      <4> QED BY <4>2, <4>3, <4>4
    <3>2. ASSUME NEW x, NEW mode, NEW b,
                 WriteIPRR(x) \/ WriteStkCtlr(mode, b) \/ ClearStkSr \/ StkTick
          PROVE  NobodyWaitsForFreeSlot'
      BY <2>4, <3>2 DEF WriteIPRR, WriteStkCtlr, ClearStkSr, StkTick, request
    <3> QED BY <2>3, <2>7, <3>1, <3>2 DEF PficStep
  <2>8. CASE HartStep
    <3>1. CASE Mret
      <4>1. CASE Rescan(TRUE, {})
        BY <2>1, <4>1, RescanServes
      <4>2. CASE UNCHANGED << route, untold >>
        BY <2>4, <3>1, <4>2 DEF Mret, route
      <4> QED BY <3>1, <4>1, <4>2 DEF Mret, Hold
    <3>2. ASSUME NEW b, \/ SetGie(b) \/ TakeExternal \/ TakeSoftware \/ TakeTimer
                        \/ Fault \/ StartFirmware
          PROVE  NobodyWaitsForFreeSlot'
      BY <2>4, <3>2 DEF SetGie, TakeExternal, TakeSoftware, TakeTimer, Fault,
         StartFirmware, EnterVtf, EnterTrap, route, request
    <3> QED BY <2>8, <3>1, <3>2 DEF HartStep
  <2>9. CASE \E attached \in SUBSET (UsbIrqs \cap Irqs) : Reset(attached)
    BY <2>9 DEF Reset, NobodyWaitsForFreeSlot, Requesting
  <2>10. CASE UNCHANGED vars
    BY <2>4, <2>10 DEF vars, route, request
  <2> QED BY <1>2, <2>5, <2>6, <2>7, <2>8, <2>9, <2>10 DEF Next
<1>3. Inv /\ Inv' /\ NobodyWaitsForFreeSlot /\ [Next]_vars => NobodyWaitsForFreeSlot'
  BY <1>2
<1> QED BY <1>1, <1>3, Invariance, PTL DEF Spec
=============================================================================
