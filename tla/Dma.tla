--------------------------------- MODULE Dma ---------------------------------
(***************************************************************************)
(* The DMA controllers as the firmware sees them through their registers.  *)
(* A write to CFGR with EN set runs the whole transfer before it returns,  *)
(* so that there is no state between two units of a transfer.  What was    *)
(* moved is a number of units: span says how many units fit in the memory  *)
(* at the channel's two addresses.  CIRC, MEM2MEM and the priorities are   *)
(* stored and not used; HTIF is never raised.  The interrupt that a        *)
(* transfer fires is part of module MeipSlot.                              *)
(***************************************************************************)
EXTENDS Integers

CONSTANTS
    DmaUsed,    \* the channels the firmware uses: 1 .. 7 are those of DMA1,
                \* 8 .. 18 are channels 1 .. 11 of DMA2
    DmaCount    \* the longest transfer, in units

DmaChannels == 1 .. 18

ASSUME DmaAssumption == DmaUsed \subseteq DmaChannels /\ DmaCount \in Nat

VARIABLE dma

DmaFlags == {"GIF", "TCIF", "TEIF"}
DmaEnables == {"TCIE", "TEIE"}
DmaRegisters == {"CFGR", "CNTR", "ADDR"}

DmaState ==
    [DmaUsed -> [cfgr : SUBSET DmaEnables, cnt : 0 .. DmaCount, span : 0 .. DmaCount,
                 moved : 0 .. DmaCount, flags : SUBSET DmaFlags,
                 told : BOOLEAN]]   \* EN written, flags not cleared since

DmaIdle ==
    [cfgr |-> {}, cnt |-> 0, span |-> DmaCount, moved |-> 0, flags |-> {}, told |-> FALSE]

-----------------------------------------------------------------------------
(***************************************************************************)
(* The register layout.                                                    *)
(***************************************************************************)

\* Where a channel's registers begin (DMA1_CH_BASE, DMA2_CH17_BASE and
\* DMA2_CH811_BASE): the base that the firmware's header files use.
DmaBase(c) ==
    CASE c \in 1 .. 7 -> 8 + (c - 1) * 20
      [] c \in 8 .. 14 -> 1032 + (c - 8) * 20
      [] c \in 15 .. 18 -> 1168 + (c - 15) * 16

DmaOffset(r) == CASE r = "CFGR" -> 0 [] r = "CNTR" -> 4 [] r = "ADDR" -> 8

DmaInBlock(addr, first, count, size) == first <= addr /\ addr < first + count * size

\* The channel that the handlers take for an address, and the offset in its
\* block.  The blocks are tried in this order; the first seven channels of a
\* controller are 20 bytes apart.
DmaDecode(addr) ==
    CASE DmaInBlock(addr, 8, 7, 20) ->
            [channel |-> 1 + (addr - 8) \div 20, offset |-> (addr - 8) % 20]
      [] DmaInBlock(addr, 1032, 7, 20) ->
            [channel |-> 8 + (addr - 1032) \div 20, offset |-> (addr - 1032) % 20]
      [] ~DmaInBlock(addr, 1032, 7, 20) /\ DmaInBlock(addr, 1168, 4, 16) ->
            [channel |-> 15 + (addr - 1168) \div 16, offset |-> (addr - 1168) % 16]

\* An offset that is no register of the block is ignored.
DmaHits(c, r) ==
    LET d == DmaDecode(DmaBase(c) + DmaOffset(r))
    IN  d.channel = c /\ d.offset = DmaOffset(r)

-----------------------------------------------------------------------------
\* ch32_dma_exec: CNTR and EN are clear afterwards, whether it ended well or
\* at a unit that is outside the memory.  A count of zero touches nothing.
DmaExec(ch) ==
    IF ch.cnt <= ch.span
    THEN [ch EXCEPT !.moved = ch.cnt, !.cnt = 0, !.flags = @ \cup {"GIF", "TCIF"}]
    ELSE [ch EXCEPT !.moved = ch.span, !.cnt = 0, !.flags = @ \cup {"GIF", "TEIF"}]

DmaWriteCfgr(c) ==
    \E on \in SUBSET DmaEnables, en \in BOOLEAN :
        LET asked == [dma[c] EXCEPT !.told = @ \/ en]
            written == [asked EXCEPT !.cfgr = on]
        IN  dma' = [dma EXCEPT
                ![c] = CASE ~DmaHits(c, "CFGR") -> asked
                         [] DmaHits(c, "CFGR") /\ en -> DmaExec(written)
                         [] OTHER -> written]

DmaWriteCntr(c) ==
    /\ DmaHits(c, "CNTR")
    /\ \E n \in 0 .. DmaCount : dma' = [dma EXCEPT ![c].cnt = n]

DmaWriteAddr(c) ==
    /\ DmaHits(c, "ADDR")
    /\ \E n \in 0 .. DmaCount : dma' = [dma EXCEPT ![c].span = n]

\* INTFCR clears the flags whose bits are written, each for itself.
DmaWriteIntfcr(c) ==
    \E ones \in {{"GIF"}, {"TCIF"}, DmaFlags} :
        dma' = [dma EXCEPT ![c].flags = @ \ ones, ![c].told = FALSE]

DmaPowerOn == [c \in DmaUsed |-> DmaIdle]

DmaInit == dma = DmaPowerOn
DmaMachineReset == dma' = DmaPowerOn

DmaRegisterWrite ==
    \E c \in DmaUsed :
        DmaWriteCfgr(c) \/ DmaWriteCntr(c) \/ DmaWriteAddr(c) \/ DmaWriteIntfcr(c)

DmaNext == DmaRegisterWrite \/ DmaMachineReset

DmaSpec == DmaInit /\ [][DmaNext]_dma

-----------------------------------------------------------------------------
DmaTypeOK == dma \in DmaState

\* Every channel of the two controllers can be used: once the firmware wrote
\* EN at the base address of the channel, the transfer has ended and shows in
\* the flags until they are cleared.
DmaTransferEnds ==
    \A c \in DmaUsed : dma[c].told => dma[c].flags \cap {"TCIF", "TEIF"} # {}
===============================================================================
