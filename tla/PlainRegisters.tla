---------------------------- MODULE PlainRegisters ----------------------------
(***************************************************************************)
(* The registers that are stored and read back and that the rest of the    *)
(* code never looks at: the priorities, the threshold, the VTF channels    *)
(* and SCTLR of the PFIC, and the capture/compare, mode and DMA registers  *)
(* of a TIM.  What they have of behaviour is which access reaches them: a  *)
(* byte of the PFIC's tables can be written alone, its words cannot; a TIM *)
(* register is 16 bits and 16 bits of padding, and which of them exist     *)
(* depends on the kind of the timer.                                       *)
(*                                                                         *)
(* A register is a function from its bytes to what they hold.              *)
(***************************************************************************)
EXTENDS Naturals

CONSTANTS
    PlainBytes,     \* the values of a byte that are told apart
    PlainTim,       \* the TIM registers the firmware uses
    PlainChannels,  \* the VTF channels it uses
    PlainSctlr      \* the bits of SCTLR it uses

GptmOnly == {"CHCTLR1", "CHCTLR2", "CCER", "CH1CVR", "CH2CVR", "CH3CVR", "CH4CVR", "AUX"}
EveryTim == {"CTLR2", "SMCFGR", "DMACFGR", "DMAADR"}
SctlrStored == {"SEVONPEND", "WFITOWFE", "SLEEPDEEP", "SLEEPONEXIT"}

ASSUME PlainAssumption ==
    /\ 0 \in PlainBytes
    /\ PlainTim \subseteq GptmOnly \cup EveryTim \cup {"RPTCR", "BDTR"}
    /\ PlainChannels \subseteq 0 .. 3
    /\ PlainSctlr \subseteq SctlrStored \cup {"SETEVENT", "SYSRST"}

VARIABLE plain

\* The unit whose registers they are: the PFIC, a general-purpose timer (TIM2
\* to TIM5) or a basic one (TIM6 and TIM7).
PlainKinds == {"pfic", "gptm", "bctm"}

PlainState ==
    [kind : PlainKinds, prior : [0 .. 3 -> PlainBytes], vtfid : [0 .. 3 -> PlainBytes],
     vtfaddr : [PlainChannels -> PlainBytes], ithres : PlainBytes,
     sctlr : SUBSET SctlrStored, tim : [PlainTim -> [0 .. 1 -> PlainBytes]]]

\* The bytes in lanes are replaced, the others stay.
Lanes(old, new, lanes) == [i \in DOMAIN old |-> IF i \in lanes THEN new[i] ELSE old[i]]
Span(at, size) == at .. at + size - 1
Aligned(size) == {at \in 0 .. 3 : at % size = 0}

\* IPRIOR and VTFIDR are byte tables.
PlainWritePrior ==
    \E size \in {1, 2, 4}, new \in [0 .. 3 -> PlainBytes] :
        \E at \in Aligned(size) :
            plain' = [plain EXCEPT !.prior = Lanes(@, new, Span(at, size))]

PlainWriteVtfid ==
    \E size \in {1, 2, 4}, new \in [0 .. 3 -> PlainBytes] :
        \E at \in Aligned(size) :
            plain' = [plain EXCEPT !.vtfid = Lanes(@, new, Span(at, size))]

\* Words only: a narrow write is lost.
PlainWriteVtfaddr ==
    \E c \in PlainChannels, v \in PlainBytes : plain' = [plain EXCEPT !.vtfaddr[c] = v]
PlainWriteIthres == \E v \in PlainBytes : plain' = [plain EXCEPT !.ithres = v]

\* With SYSRST a machine reset is asked for and nothing is stored.  Every
\* stored bit is in the low byte, so that the width does not matter.
PlainWriteSctlr ==
    \E ones \in SUBSET PlainSctlr :
        plain' = [plain EXCEPT !.sctlr = IF "SYSRST" \in ones THEN @ ELSE ones \cap SctlrStored]

\* RPTCR and BDTR belong to TIM1 and TIM8, which are not built.
TimStores(r) == r \in EveryTim \/ (r \in GptmOnly /\ plain.kind = "gptm")

\* ch32_tim_read: what is not stored reads as zero.
TimReads(r) == IF TimStores(r) THEN plain.tim[r] ELSE [i \in 0 .. 1 |-> 0]

\* The half word of padding takes no half-word write; a byte written to it
\* lands in the register's byte at the same place.
TimLanes(at, size) ==
    CASE size = 4 -> {0, 1}
      [] size = 2 -> IF at = 0 THEN {0, 1} ELSE {}
      [] size = 1 -> {at % 2}

\* The rest of a byte write comes from what the register reads as.
PlainWriteTim ==
    \E r \in PlainTim, size \in {1, 2, 4}, new \in [0 .. 1 -> PlainBytes] :
        \E at \in Aligned(size) :
            plain' = [plain EXCEPT !.tim[r] =
                         IF TimStores(r) THEN Lanes(TimReads(r), new, TimLanes(at, size)) ELSE @]

PlainPowerOn(kind) ==
    [kind |-> kind, prior |-> [i \in 0 .. 3 |-> 0], vtfid |-> [i \in 0 .. 3 |-> 0],
     vtfaddr |-> [c \in PlainChannels |-> 0], ithres |-> 0, sctlr |-> {},
     tim |-> [r \in PlainTim |-> [i \in 0 .. 1 |-> 0]]]

PlainInit == \E kind \in PlainKinds : plain = PlainPowerOn(kind)
PlainMachineReset == plain' = PlainPowerOn(plain.kind)

PlainPfic ==
    /\ plain.kind = "pfic"
    /\ \/ PlainWritePrior \/ PlainWriteVtfid \/ PlainWriteVtfaddr
       \/ PlainWriteIthres \/ PlainWriteSctlr

PlainWrites == PlainPfic \/ (plain.kind # "pfic" /\ PlainWriteTim)

PlainNext == PlainWrites \/ PlainMachineReset

PlainSpec == PlainInit /\ [][PlainNext]_plain

-----------------------------------------------------------------------------
PlainTypeOK == plain \in PlainState
===============================================================================
