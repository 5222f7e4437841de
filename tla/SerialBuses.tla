------------------------------ MODULE SerialBuses ------------------------------
(***************************************************************************)
(* The I2C and SPI controllers.  Nothing is attached to either bus: I2C    *)
(* answers every address and data byte at once, and SPI receives what it   *)
(* sends.  An access is carried out byte by byte, each byte as a read of   *)
(* the old register followed by a write of the merged one, with the side   *)
(* effects of both; the model has one action per access and composes the   *)
(* bytes.                                                                  *)
(***************************************************************************)
EXTENDS Naturals

VARIABLES i2c, spi

-----------------------------------------------------------------------------
(***************************************************************************)
(* I2C.  The flags start_pending, addr_pending and stop_pending exclude    *)
(* each other: phase is the one that is set.  ctlr1 has the two request    *)
(* bits, which stay as they were written.                                  *)
(***************************************************************************)

I2cRequests == {"START", "STOP"}
I2cStar1 == {"SB", "ADDR", "BTF", "TXE", "STOPF"}
I2cStar2 == {"BUSY", "MSL", "TRA"}

I2cState ==
    [phase : {"idle", "start", "addr", "stop"}, ctlr1 : SUBSET I2cRequests,
     star1 : SUBSET I2cStar1, star2 : SUBSET I2cStar2, ack : BOOLEAN]

\* ch32_i2c_update_state
I2cUpdate(s) ==
    CASE s.phase = "start" -> [s EXCEPT !.star1 = @ \cup {"SB"}, !.star2 = @ \cup {"BUSY", "MSL"}]
      [] s.phase = "addr" -> [s EXCEPT !.star1 = (@ \cup {"ADDR", "TXE", "BTF"}) \ {"SB"},
                                       !.star2 = @ \cup {"TRA"}]
      [] s.phase = "stop" -> [s EXCEPT !.star1 = {"STOPF"}, !.star2 = {}]
      [] OTHER -> s

\* A byte of CTLR1 is written, after which the request bits are bits: a START
\* among them is obeyed before a STOP.
I2cCtlr1Byte(s, bits) ==
    LET started == IF "START" \in bits THEN "start" ELSE s.phase
        stopped == IF "STOP" \in bits THEN "stop" ELSE started
    IN  I2cUpdate([s EXCEPT !.phase = stopped, !.ctlr1 = bits])

\* The low byte comes first and carries the old request bits along; ACK is in
\* the high byte with them.
I2cWriteCtlr1 ==
    \E bits \in SUBSET I2cRequests, ack \in BOOLEAN :
        \/ i2c' = [I2cCtlr1Byte(I2cCtlr1Byte(i2c, i2c.ctlr1), bits) EXCEPT !.ack = ack]
        \/ i2c' = [I2cCtlr1Byte(i2c, bits) EXCEPT !.ack = ack]
        \/ i2c' = I2cCtlr1Byte(i2c, i2c.ctlr1)

\* The first byte after a START is the address; every byte is acknowledged.
I2cWriteDatar ==
    i2c' = I2cUpdate([i2c EXCEPT !.phase = IF @ = "start" THEN "addr" ELSE @])

\* Writing STAR1 keeps the flags that are one in the word.  Reading STAR1
\* changes nothing, reading STAR2 takes ADDR away, and so does writing it.
I2cWriteStar1 == \E ones \in SUBSET I2cStar1 : i2c' = [i2c EXCEPT !.star1 = @ \cap ones]
I2cReadStar2 == i2c' = [i2c EXCEPT !.star1 = @ \ {"ADDR"}]
I2cWriteStar2 ==
    \E bits \in SUBSET I2cStar2 : i2c' = [i2c EXCEPT !.star1 = @ \ {"ADDR"}, !.star2 = bits]

\* What STAR1 reads as.
I2cReadStar1 == i2c.star1 \cup (IF i2c.phase = "addr" THEN {"TXE", "BTF"} ELSE {})

I2cPowerOn == [phase |-> "idle", ctlr1 |-> {}, star1 |-> {}, star2 |-> {}, ack |-> FALSE]

I2cNext == I2cWriteCtlr1 \/ I2cWriteDatar \/ I2cWriteStar1 \/ I2cReadStar2 \/ I2cWriteStar2

\* GenerateSTART of the vendor's library: the register is read, START is set
\* in it, and the halfword is written back.
I2cGenerateStart ==
    i2c' = I2cCtlr1Byte(I2cCtlr1Byte(i2c, i2c.ctlr1), i2c.ctlr1 \cup {"START"})

-----------------------------------------------------------------------------
(***************************************************************************)
(* SPI.  A data word is two bytes, each 0 or 1 here.                       *)
(***************************************************************************)

SpiByte == {0, 1}

SpiState == [rxne : BOOLEAN, statr : SUBSET {"RXNE"}, low : SpiByte, high : SpiByte,
             spe : BOOLEAN]

\* Reading either byte of DATAR takes the word; what it reads stays there.
SpiTaken(s) == [s EXCEPT !.rxne = FALSE, !.statr = {}]
SpiReadDatar == spi' = SpiTaken(spi)

\* A byte of DATAR is merged with the other byte of the word received last,
\* and the word is received back; a halfword is two such bytes.
SpiLowByte(s, b) == [s EXCEPT !.low = b, !.rxne = TRUE, !.statr = {"RXNE"}]
SpiHighByte(s, b) == [s EXCEPT !.high = b, !.rxne = TRUE, !.statr = {"RXNE"}]

SpiWriteDatar ==
    \E b, c \in SpiByte :
        \/ spi' = SpiLowByte(SpiTaken(spi), b)
        \/ spi' = SpiHighByte(SpiTaken(spi), b)
        \/ spi' = SpiHighByte(SpiTaken(SpiLowByte(SpiTaken(spi), b)), c)

\* Writing STATR can only clear RXNE.  The high byte alone is merged with the
\* low byte as it reads, and changes nothing.
SpiWriteStatr ==
    \E ones \in SUBSET {"RXNE"} :
        spi' = IF "RXNE" \in ones THEN spi ELSE SpiTaken(spi)

SpiWriteCtlr1 == \E on \in BOOLEAN : spi' = [spi EXCEPT !.spe = on]

\* TXE is always set.
SpiReadStatr == {"TXE"} \cup (IF spi.rxne THEN {"RXNE"} ELSE {})

SpiPowerOn == [rxne |-> FALSE, statr |-> {}, low |-> 0, high |-> 0, spe |-> FALSE]

SpiNext == SpiReadDatar \/ SpiWriteDatar \/ SpiWriteStatr \/ SpiWriteCtlr1

-----------------------------------------------------------------------------
BusesInit == i2c = I2cPowerOn /\ spi = SpiPowerOn

BusesNext ==
    \/ I2cNext /\ UNCHANGED spi
    \/ SpiNext /\ UNCHANGED i2c
    \/ i2c' = I2cPowerOn /\ spi' = SpiPowerOn

BusesSpec == BusesInit /\ [][BusesNext]_<< i2c, spi >>

-----------------------------------------------------------------------------
BusesTypeOK == i2c \in I2cState /\ spi \in SpiState

\* What the head of ch32-i2c.c says of its strategy (line 22): GenerateSTART
\* leads to SB, BUSY and MSL set.
I2cStartAnswered ==
    [][I2cGenerateStart => "SB" \in i2c'.star1 /\ {"BUSY", "MSL"} \subseteq i2c'.star2]_i2c
===============================================================================
