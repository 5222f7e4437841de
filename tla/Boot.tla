---------------------------------- MODULE Boot ----------------------------------
(***************************************************************************)
(* How ch32_machine_init fills the flash memory and chooses the address    *)
(* that the hart starts at: from an ELF file (-kernel), a raw binary or an *)
(* Intel HEX file (flash-image).  The flash answers at BootBase and, in    *)
(* boot-mode flash, at 0; an image is linked to one or the other.          *)
(*                                                                         *)
(* Addresses count words.  A word of the image is an instruction that the  *)
(* loader knows, or "other".  A HEX file is read record by record.         *)
(***************************************************************************)
EXTENDS Naturals

CONSTANTS
    BootFlash,      \* words of flash
    BootBase,       \* where it answers, CH32_FLASH_BASE
    BootJump,       \* words that the jump of an image's first word goes
    BootBadJump     \* where the jump that WCH's ISP tool miscomputes goes

ASSUME BootAssumption ==
    /\ BootFlash \in Nat \ {0} /\ BootBase \in Nat /\ 2 * BootFlash < BootBase
    /\ BootJump \in Nat \ {0} /\ BootBadJump \in Nat \ {0}

VARIABLE boot

BootOffsets == 0 .. BootFlash - 1
BootFlashWindow == BootBase .. BootBase + BootFlash - 1

\* "gp" is the auipc gp that a startup file begins with; "bad" is the jump
\* that is repaired, "fixed" what it is repaired to.
BootWords == {"blank", "other", "jump", "gp", "bad", "fixed"}

BootModes == {"flash", "sysmem", "sram"}
BootKinds == {"elf", "bin", "hex"}

\* 0 and BootBase, the upper halves of addresses of the two windows, and one
\* that is in neither; segments are in the first MiB.
BootUpper == {0, BootBase, 2 * BootBase}
BootSegments == {0, 1}
BootEntries == {0, 1} \cup {BootBase, BootBase + 1} \cup {2 * BootBase}

BootState ==
    [mode : BootModes, kind : BootKinds, mem : [BootOffsets -> BootWords],
     haveEla : BOOLEAN, ulba : BootUpper, sba : BootSegments,
     start : BOOLEAN,       \* a type 05 record was read
     hexEntry : BootEntries,
     phase : {"loading", "loaded", "running", "exited"},
     resetvec : Nat]

-----------------------------------------------------------------------------
(***************************************************************************)
(* ch32_load_hex_image, one action per record.                             *)
(***************************************************************************)

BootReading == boot.phase = "loading" /\ boot.kind = "hex"

\* Type 00.  Once an ELA record was read, only addresses in the flash window
\* count; before, those from 0 on do as well.  What is outside is skipped, and
\* a record is cut at the end of the flash.
BootAddress(a) == IF boot.haveEla THEN boot.ulba + a ELSE boot.sba + a
BootWhere(addr) ==
    CASE addr \in BootFlashWindow -> {addr - BootBase}
      [] addr \in BootOffsets /\ ~boot.haveEla -> {addr}
      [] OTHER -> {}

BootData ==
    /\ BootReading
    /\ \E a \in 0 .. BootFlash, w \in BootWords \ {"blank"}, more \in BOOLEAN :
           LET hit == UNION {IF more THEN {o, o + 1} ELSE {o} : o \in BootWhere(BootAddress(a))}
           IN  boot' = [boot EXCEPT !.mem = [o \in BootOffsets |->
                                                IF o \in hit THEN w ELSE boot.mem[o]]]

\* Type 01 ends the file; a file without one is taken as it is.
BootEof == BootReading /\ boot' = [boot EXCEPT !.phase = "loaded"]

\* Types 02, 04 and 05; type 03 and unknown types change nothing.
BootSegment == BootReading /\ \E s \in BootSegments : boot' = [boot EXCEPT !.sba = s]
BootEla ==
    /\ BootReading
    /\ \E u \in BootUpper : boot' = [boot EXCEPT !.ulba = u, !.haveEla = TRUE]
BootStartRecord ==
    /\ BootReading
    /\ \E e \in BootEntries : boot' = [boot EXCEPT !.hexEntry = e, !.start = TRUE]

\* A record that is malformed, or a file that cannot be read or is too long,
\* ends the program.
BootMalformed == boot.phase = "loading" /\ boot' = [boot EXCEPT !.phase = "exited"]

\* A raw binary goes to the start of the flash, an ELF file where it says.
BootImage ==
    /\ boot.phase = "loading" /\ boot.kind \in {"elf", "bin"}
    /\ \E first \in BootWords, rest \in BootWords :
           boot' = [boot EXCEPT !.phase = "loaded",
                                !.mem = [o \in BootOffsets |-> IF o = 0 THEN first ELSE rest]]

-----------------------------------------------------------------------------
(***************************************************************************)
(* The address that the hart starts at.                                    *)
(***************************************************************************)

\* ch32_flash_patch_vector_jal_if_needed
BootPatched(mem) ==
    IF mem[0] = "bad" /\ ~(BootBadJump \in BootOffsets /\ mem[BootBadJump] = "gp")
    THEN [mem EXCEPT ![0] = "fixed"] ELSE mem

\* An ELF entry outside of both windows falls back to the flash.
BootElfEntry(entry) ==
    IF entry \in BootFlashWindow \cup BootOffsets THEN entry ELSE BootBase

\* Variant: a file without ELA records is taken to be linked to the flash.
BootImageEntryFlash == IF boot.kind = "hex" THEN boot.hexEntry ELSE BootBase

\* Without ELA records the program was linked to 0, type 05 or not.
BootImageEntry ==
    CASE boot.kind = "bin" -> BootBase
      [] boot.kind = "hex" /\ ~boot.haveEla -> 0
      [] OTHER -> boot.hexEntry

\* A jump in the first word is followed at once, from the entry and not from
\* where the word is, if it leads to a place inside the window after its first
\* word.  The two jumps of the ISP tool do not lead to a whole word.
BootFollowed(entry, mem) ==
    LET target == entry + BootJump
    IN  IF /\ mem[0] = "jump"
           /\ target \in (IF entry = 0 THEN BootOffsets ELSE BootFlashWindow)
           /\ target \notin {0, BootBase}
        THEN target ELSE entry

\* The entry that the boot mode chose is overwritten on every path.
BootStart ==
    /\ boot.phase = "loaded"
    /\ \E mem \in {BootPatched(boot.mem)}, elf \in BootEntries :
           boot' = [boot EXCEPT
               !.phase = "running", !.mem = mem,
               !.resetvec = IF boot.kind = "elf" THEN BootElfEntry(elf)
                            ELSE BootFollowed(BootImageEntry, mem)]

BootInit ==
    \E mode \in BootModes, kind \in BootKinds :
        boot = [mode |-> mode, kind |-> kind, mem |-> [o \in BootOffsets |-> "blank"],
                haveEla |-> FALSE, ulba |-> 0, sba |-> 0, start |-> FALSE,
                hexEntry |-> BootBase, phase |-> "loading", resetvec |-> BootBase]

BootNext ==
    \/ BootData \/ BootEof \/ BootSegment \/ BootEla \/ BootStartRecord
    \/ BootMalformed \/ BootImage \/ BootStart

BootSpec == BootInit /\ [][BootNext]_boot

-----------------------------------------------------------------------------
BootTypeOK == boot \in BootState

BootRunning == boot.phase = "running"

\* The hart starts inside the image, in the window that the image was linked
\* to: at 0 for a HEX file without ELA records, in the flash for a raw binary
\* and for a HEX file that has them and names no other start; there at the
\* first word, or where a jump in the first word leads.
BootStartsInImage ==
    BootRunning /\ boot.kind # "elf" /\ (boot.haveEla => ~boot.start) =>
        LET base == IF boot.kind = "hex" /\ ~boot.haveEla THEN 0 ELSE BootBase
        IN  \/ boot.resetvec = base
            \/ boot.resetvec = base + BootJump /\ boot.mem[0] = "jump" /\ BootJump \in BootOffsets

\* What the comment on the boot modes says (ch32-v.c:404-415): mode sysmem
\* starts at 0x1FFF8000, mode sram at 0x20000000, and neither in the flash.
BootModeDecides ==
    BootRunning /\ boot.mode # "flash" =>
        boot.resetvec \notin BootOffsets \cup BootFlashWindow

\* What the comment on the jump says (ch32-v.c:592-599): it is followed as the
\* hart would, from where it is, the start of the flash.
BootJumpFollowed ==
    BootRunning /\ boot.kind = "hex" /\ boot.haveEla /\ boot.mem[0] = "jump" =>
        boot.resetvec \in {boot.hexEntry, BootBase + BootJump}
===============================================================================
