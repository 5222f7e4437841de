---------------------------------- MODULE Pins ----------------------------------
(***************************************************************************)
(* The GPIO ports, the alternate-function unit (AFIO) and the external     *)
(* interrupt controller (EXTI).  One port stands for the eight, which are  *)
(* alike and share nothing.  Nothing drives a pin from outside: an input   *)
(* reads as pulled up.  AFIO and EXTI are words that are read back; EXTI   *)
(* raises no interrupt.                                                    *)
(***************************************************************************)
EXTENDS Naturals

CONSTANT PinSet   \* the pins of the port

VARIABLE pins

\* An output pin has a mode other than zero in CFGLR or CFGHR; lckr is the set
\* of pins whose lock bit is written, which locks nothing.
PinsState ==
    [output : SUBSET PinSet, outdr : SUBSET PinSet, lckr : SUBSET PinSet,
     exticr : {0, 1}, intenr : SUBSET PinSet, intfr : SUBSET PinSet]

\* INDR: an output pin reads back what it drives, an input pin one.
PinsIndr == (pins.outdr \cap pins.output) \cup (PinSet \ pins.output)

PinsWriteCfgr == \E out \in SUBSET PinSet : pins' = [pins EXCEPT !.output = out]
PinsWriteOutdr == \E on \in SUBSET PinSet : pins' = [pins EXCEPT !.outdr = on]

\* The word is complete whatever its width; a pin in both halves is cleared.
PinsWriteBshr ==
    \E set, clear \in SUBSET PinSet :
        pins' = [pins EXCEPT !.outdr = (@ \cup set) \ clear]

PinsWriteBcr == \E clear \in SUBSET PinSet : pins' = [pins EXCEPT !.outdr = @ \ clear]
PinsWriteLckr == \E locked \in SUBSET PinSet : pins' = [pins EXCEPT !.lckr = locked]

\* Words only; a narrow write is ignored.
PinsWriteAfio == \E v \in {0, 1} : pins' = [pins EXCEPT !.exticr = v]

\* INTFR takes what is written, ones and zeros alike.
PinsWriteExti ==
    \E on \in SUBSET PinSet :
        pins' = [pins EXCEPT !.intenr = on] \/ pins' = [pins EXCEPT !.intfr = on]

PinsPowerOn ==
    [output |-> {}, outdr |-> {}, lckr |-> {}, exticr |-> 0, intenr |-> {}, intfr |-> {}]

PinsInit == pins = PinsPowerOn
PinsMachineReset == pins' = PinsPowerOn

PinsRegisters ==
    \/ PinsWriteCfgr \/ PinsWriteOutdr \/ PinsWriteBshr \/ PinsWriteBcr
    \/ PinsWriteLckr \/ PinsWriteAfio \/ PinsWriteExti

PinsNext == PinsRegisters \/ PinsMachineReset

PinsSpec == PinsInit /\ [][PinsNext]_pins

-----------------------------------------------------------------------------
PinsTypeOK == pins \in PinsState

\* Section 5 of docs/CH32FV2x_V3xRM-*/10-GPIO-AFIO-*.md (line 91): a pin that is
\* set and cleared by one word is set.
PinsSetWins ==
    [][\A set, clear \in SUBSET PinSet :
           pins' = [pins EXCEPT !.outdr = (@ \cup set) \ clear] /\ pins' # pins
               => set \subseteq pins'.outdr]_pins
===============================================================================
