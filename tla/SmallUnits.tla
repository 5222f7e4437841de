------------------------------ MODULE SmallUnits ------------------------------
(***************************************************************************)
(* The units that answer within one register access and keep little state: *)
(* the CRC unit, the random number generator, the SDIO command engine and  *)
(* the ADC stub.                                                           *)
(*                                                                         *)
(* A word of the CRC unit is a polynomial over GF(2), the set of its       *)
(* exponents; CrcWidth is 32 in the code and CrcPoly 0x04C11DB7.           *)
(***************************************************************************)
EXTENDS Naturals, FiniteSets

CONSTANTS
    CrcWidth, CrcPoly,  \* bits of a word; the generator without its top bit
    RngCap,             \* bound of the draws that are told apart
    SdioCommands        \* the command indices the firmware sends

ASSUME SmallAssumption ==
    /\ CrcWidth \in Nat \ {0} /\ CrcPoly \subseteq 0 .. CrcWidth - 1
    /\ RngCap \in Nat /\ SdioCommands \subseteq 0 .. 63

VARIABLE small

CrcWords == SUBSET (0 .. CrcWidth - 1)
CrcOnes == 0 .. CrcWidth - 1
CrcXor(a, b) == (a \ b) \cup (b \ a)

\* One turn of the loop: shift left, and reduce by the generator if the top
\* bit fell out.
CrcShift(crc) ==
    LET shifted == {i + 1 : i \in crc \ {CrcWidth - 1}}
    IN  IF CrcWidth - 1 \in crc THEN CrcXor(shifted, CrcPoly) ELSE shifted

\* ch32_crc32_word
CrcWord(crc, data) ==
    LET after[n \in 0 .. CrcWidth] ==
            IF n = 0 THEN CrcXor(crc, data) ELSE CrcShift(after[n - 1])
    IN  after[CrcWidth]

SmallState ==
    [crc : CrcWords, idr : {0, 1}, rngen : BOOLEAN, draws : 0 .. RngCap,
     cmd : SdioCommands \cup {0}, respcmd : SdioCommands \cup {0},
     sta : SUBSET {"CMDSENT", "CMDREND"}]

CrcWrite == \E w \in CrcWords : small' = [small EXCEPT !.crc = CrcWord(@, w)]
CrcReset == small' = [small EXCEPT !.crc = CrcOnes]
CrcWriteIdr == \E v \in {0, 1} : small' = [small EXCEPT !.idr = v]

\* A draw is never zero, and needs no enable; the counter mixed into it is all
\* that it leaves behind.
RngDraw == small.draws < RngCap /\ small' = [small EXCEPT !.draws = @ + 1]
RngWriteCtlr == \E on \in BOOLEAN : small' = [small EXCEPT !.rngen = on]
RngReady == small.rngen

\* A command is sent as soon as it is written with CPSMEN; command 0 has no
\* answer, every other one is answered.
SdioWriteCmd ==
    \E c \in SdioCommands, go \in BOOLEAN :
        small' = [small EXCEPT
            !.cmd = c,
            !.respcmd = IF go /\ c # 0 THEN c ELSE @,
            !.sta = @ \cup (IF go THEN {"CMDSENT"} ELSE {})
                      \cup (IF go /\ c # 0 THEN {"CMDREND"} ELSE {})]

SdioWriteIcr == \E ones \in SUBSET {"CMDSENT", "CMDREND"} : small' = [small EXCEPT !.sta = @ \ ones]

\* The ADC converts nothing: its status always shows EOC.
AdcStatus == {"EOC"}

SmallPowerOn ==
    [crc |-> CrcOnes, idr |-> 0, rngen |-> FALSE, draws |-> 0, cmd |-> 0, respcmd |-> 0,
     sta |-> {}]

SmallInit == small = SmallPowerOn
SmallMachineReset == small' = SmallPowerOn

SmallRegisters ==
    \/ CrcWrite \/ CrcReset \/ CrcWriteIdr \/ RngDraw \/ RngWriteCtlr
    \/ SdioWriteCmd \/ SdioWriteIcr

SmallNext == SmallRegisters \/ SmallMachineReset

SmallSpec == SmallInit /\ [][SmallNext]_small

-----------------------------------------------------------------------------
SmallTypeOK == small \in SmallState
===============================================================================
