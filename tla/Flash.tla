--------------------------------- MODULE Flash ---------------------------------
(***************************************************************************)
(* The flash controller at 0x40022000: unlocking by key sequences, erasing *)
(* a page, a sector, a block or the whole memory, write protection.        *)
(*                                                                         *)
(* The flash memory itself is plain RAM that stores reach without the      *)
(* controller.  A sector either holds data or is blank; the keys, the      *)
(* status flags and the lock bits are kept one by one.  An operation ends  *)
(* within the register write that starts it, so BSY is never seen.         *)
(***************************************************************************)
EXTENDS Naturals

CONSTANTS
    FlashSectors,   \* number of 4 KiB sectors
    FlashBlock,     \* sectors in the block that BER32 erases (8)
    FlashLastBit,   \* the bit of WPR that protects all further sectors (31)
    FlashWords      \* the words the firmware writes to CTLR, as sets of bits

FlashCtlBits == {"LOCK", "OPTWRE", "STRT", "MER", "OPTER", "BER32", "PER", "PAGE_ER",
                 "OPTPG", "PG_STRT"}

ASSUME FlashAssumption ==
    /\ FlashSectors \in Nat \ {0} /\ FlashBlock \in Nat \ {0}
    /\ FlashLastBit \in Nat
    /\ FlashWords \subseteq SUBSET FlashCtlBits

VARIABLE flash

FlashSector == 0 .. FlashSectors - 1
FlashWprBits == 0 .. FlashLastBit

\* The registers; addr is the sector that ADDR points into, FlashSectors if it
\* points past the end.  LOCK and OPTWRE are what CTLR shows of the locks.
FlashState ==
    [data : SUBSET FlashSector, wpr : SUBSET FlashWprBits, addr : 0 .. FlashSectors,
     shown : SUBSET {"LOCK", "OPTWRE"}, unlocked : BOOLEAN,
     key : {0, 1}, obkey : {0, 1}, statr : SUBSET {"WRPRTERR", "EOP"}]

FlashWpBit(s) == IF s < FlashLastBit THEN s ELSE FlashLastBit
FlashProtected(s) == FlashWpBit(s) \in flash.wpr

\* Whether two sectors are in the same 32 KiB block.
FlashSameBlock(s, t) == s \div FlashBlock = t \div FlashBlock

\* Variant: only the sector that ADDR points into is looked up in WPR.
FlashEraseFirst(area, gone) ==
    LET refused == flash.addr \in FlashSector /\ FlashProtected(flash.addr)
    IN  [data |-> IF refused THEN flash.data ELSE flash.data \ gone,
         statr |-> flash.statr \cup {"EOP"} \cup (IF refused THEN {"WRPRTERR"} ELSE {})]

\* op_complete after an operation on the sectors area, of which any that is
\* protected refuses the whole: what stays, and the flags.
FlashErase(area, gone) ==
    LET refused == \E s \in area : FlashProtected(s)
    IN  [data |-> IF refused THEN flash.data ELSE flash.data \ gone,
         statr |-> flash.statr \cup {"EOP"} \cup (IF refused THEN {"WRPRTERR"} ELSE {})]

\* The areas of PER and BER32: nothing if ADDR points past the end; the last
\* block may be cut short.
FlashSectorArea == FlashSector \cap {flash.addr}
FlashBlockArea == {s \in FlashSector : \E t \in FlashSectorArea : FlashSameBlock(s, t)}

\* The operation that CTLR starts, in the order the code looks at the bits.
\* Erasing a page may or may not leave data in its sector.
FlashOperation(bits, page) ==
    LET done == [data |-> flash.data, statr |-> flash.statr \cup {"EOP"}]
    IN  CASE "MER" \in bits -> FlashErase(FlashSector, FlashSector)
          [] "MER" \notin bits /\ "OPTER" \in bits -> done
          [] bits \cap {"MER", "OPTER", "BER32"} = {"BER32"} ->
                FlashErase(FlashBlockArea, FlashBlockArea)
          [] bits \cap {"MER", "OPTER", "BER32", "PER"} = {"PER"} ->
                FlashErase(FlashSectorArea, FlashSectorArea)
          [] bits \cap {"MER", "OPTER", "BER32", "PER", "PAGE_ER"} = {"PAGE_ER"} ->
                FlashErase(FlashSectorArea, page)
          [] OTHER -> done

\* LOCK in the very word that starts an operation locks first.
FlashStarts(bits) == flash.unlocked /\ "LOCK" \notin bits /\ "STRT" \in bits

FlashWriteCtlr ==
    \E bits \in FlashWords, page \in SUBSET FlashSectorArea :
        \E after \in {IF FlashStarts(bits) THEN FlashOperation(bits, page)
                      ELSE [data |-> flash.data, statr |-> flash.statr]} :
            flash' = [flash EXCEPT
                !.unlocked = @ /\ "LOCK" \notin bits,
                !.data = after.data,
                !.statr = after.statr \cup (IF "PG_STRT" \in bits THEN {"EOP"} ELSE {}),
                !.shown = IF "LOCK" \in bits THEN {"LOCK"} ELSE bits \cap {"OPTWRE"}]

\* KEYR and MODEKEYR count together; any other word starts the sequence over.
FlashWriteKey ==
    \E w \in {"KEY1", "KEY2", "other"} :
        flash' = IF w = "KEY2" /\ flash.key = 1
                 THEN [flash EXCEPT !.unlocked = TRUE, !.shown = @ \ {"LOCK"}, !.key = 0]
                 ELSE [flash EXCEPT !.key = IF w = "KEY1" THEN 1 ELSE 0]

FlashWriteObkey ==
    \E w \in {"KEY1", "KEY2", "other"} :
        flash' = IF w = "KEY2" /\ flash.obkey = 1
                 THEN [flash EXCEPT !.shown = @ \cup {"OPTWRE"}, !.obkey = 0]
                 ELSE [flash EXCEPT !.obkey = IF w = "KEY1" THEN 1 ELSE 0]

\* The flags are cleared by writing them as ones.
FlashWriteStatr ==
    \E ones \in SUBSET {"WRPRTERR", "EOP"} : flash' = [flash EXCEPT !.statr = @ \ ones]

\* ADDR and WPR are plain words: the code checks no lock for them.
FlashWriteAddr == \E a \in 0 .. FlashSectors : flash' = [flash EXCEPT !.addr = a]
FlashWriteWpr == \E w \in SUBSET FlashWprBits : flash' = [flash EXCEPT !.wpr = w]

\* A store of the firmware into the flash memory.
FlashStore == \E s \in FlashSector : flash' = [flash EXCEPT !.data = @ \cup {s}]

\* What ch32_soft_state_reset sets; the memory keeps its data.
FlashReset(data) ==
    [data |-> data, wpr |-> {}, addr |-> 0, shown |-> {"LOCK"}, unlocked |-> FALSE,
     key |-> 0, obkey |-> 0, statr |-> {}]

FlashInit == flash = FlashReset(FlashSector)

FlashRegisters ==
    \/ FlashWriteCtlr \/ FlashWriteKey \/ FlashWriteObkey \/ FlashWriteStatr
    \/ FlashWriteAddr \/ FlashWriteWpr \/ FlashStore

FlashMachineReset == flash' = FlashReset(flash.data)

FlashNext == FlashRegisters \/ FlashMachineReset

FlashSpec == FlashInit /\ [][FlashNext]_flash

-----------------------------------------------------------------------------
FlashTypeOK == flash \in FlashState

\* An open controller says so: LOCK reads 0 from the second key on until the
\* firmware locks again (ch32_flash_key_write, ch32_flash_ctl_write).
FlashOpenShows == flash.unlocked => "LOCK" \notin flash.shown

\* Data leaves the flash memory only while the controller is open and never
\* from a sector under write protection, whichever of the four operations was
\* asked for and however large its area is; and an erase that protection
\* refuses is refused whole, with WRPRTERR.
FlashProtects ==
    [][/\ \A s \in flash.data \ flash'.data :
              flash.unlocked /\ ~FlashProtected(s)
       /\ "WRPRTERR" \in flash'.statr \ flash.statr => flash'.data = flash.data]_flash

\* What docs/CH32FV2x_V3xRM-*/32-FLASH-*.md says of CTLR.LOCK (line 81): a
\* zero means that the controller is open, and software can only write one.
FlashLockReads == "LOCK" \notin flash.shown => flash.unlocked
===============================================================================
