------------------------------- MODULE UsartLite -------------------------------
(***************************************************************************)
(* A light USART (USART2, USART3, UART4 to UART8): registers without a     *)
(* character backend behind them.  A byte arrives through                  *)
(* ch32_usart_lite_push_rx_byte, which the machine offers and nobody       *)
(* calls; what the firmware sends is dropped.  The seven are alike and one *)
(* stands for them.  The interrupt line is module MeipSlot's business.     *)
(*                                                                         *)
(* The receive FIFO is a ring of LiteDepth cells, of which one stays free. *)
(***************************************************************************)
EXTENDS Naturals, Sequences

CONSTANTS
    LiteDepth,      \* CH32_USART_LITE_RXFIFO_DEPTH
    LiteBytes       \* the bytes that are told apart, 0 among them

ASSUME LiteAssumption == LiteDepth \in Nat \ {0} /\ 0 \in LiteBytes

VARIABLE lite

LiteCells == 0 .. LiteDepth - 1

LiteState ==
    [fifo : [LiteCells -> LiteBytes], head : LiteCells, tail : LiteCells,
     last : LiteBytes,                  \* datar_last
     rxPending : BOOLEAN, ctlr1 : SUBSET {"RXNEIE"}, ctlr3 : SUBSET {"DMAR"},
     sent : Seq(LiteBytes)]             \* the bytes that were put into the FIFO
                                        \* and not taken out

LiteNext1(cell) == (cell + 1) % LiteDepth
LiteEmpty(u) == u.head = u.tail

\* Variant: the ring is full when every cell is.
LiteFullNever(u) == FALSE

LiteFull(u) == LiteNext1(u.tail) = u.head

\* STATR: TXE and TC always, RXNE from the FIFO.
LiteStatr(u) == {"TXE", "TC"} \cup (IF LiteEmpty(u) THEN {} ELSE {"RXNE"})

\* What ch32_usart_lite_meip_resync asks the PFIC for.
LiteAsks(u) == "RXNEIE" \in u.ctlr1 /\ "RXNE" \in LiteStatr(u)

LitePopped(u) == [u EXCEPT !.head = LiteNext1(@), !.sent = Tail(@)]

\* A byte that finds the ring full is lost and no flag tells.
LiteReceive ==
    \E b \in LiteBytes :
        lite' = IF LiteFull(lite) THEN lite
                ELSE [lite EXCEPT !.fifo[lite.tail] = b, !.tail = LiteNext1(@),
                                  !.sent = Append(@, b)]

\* Reading DATAR takes the oldest byte, or repeats the last one.
LiteReadDatar ==
    lite' = IF LiteEmpty(lite) THEN lite
            ELSE LitePopped([lite EXCEPT !.last = lite.fifo[lite.head]])

\* A zero written to RXNE takes the oldest byte and shows it to nobody.
LiteWriteStatr ==
    \E clear \in BOOLEAN :
        lite' = IF clear /\ ~LiteEmpty(lite) THEN LitePopped(lite) ELSE lite

\* Writing DATAR sends nothing.  It takes the place of the byte received last
\* and, with DMAR, is offered to the receive DMA channel; that channel only
\* takes it while its EN bit is set, and CFGR never keeps EN.
LiteWriteDatar ==
    \E b \in LiteBytes :
        lite' = [lite EXCEPT !.last = b, !.rxPending = @ \/ "DMAR" \in lite.ctlr3]

LiteWriteCtlr1 == \E on \in SUBSET {"RXNEIE"} : lite' = [lite EXCEPT !.ctlr1 = on]
LiteWriteCtlr3 == \E on \in SUBSET {"DMAR"} : lite' = [lite EXCEPT !.ctlr3 = on]

\* ch32_usart_lite_one_init and ch32_usart_lite_reset
LitePowerOn ==
    [fifo |-> [c \in LiteCells |-> 0], head |-> 0, tail |-> 0, last |-> 0,
     rxPending |-> FALSE, ctlr1 |-> {}, ctlr3 |-> {}, sent |-> << >>]

LiteInit == lite = LitePowerOn
LiteMachineReset == lite' = LitePowerOn

LiteRegisters ==
    \/ LiteReadDatar \/ LiteWriteStatr \/ LiteWriteDatar \/ LiteWriteCtlr1 \/ LiteWriteCtlr3

LiteNext == LiteRegisters \/ LiteReceive \/ LiteMachineReset

LiteSpec == LiteInit /\ [][LiteNext]_lite

-----------------------------------------------------------------------------
LiteTypeOK == lite \in LiteState

\* The ring holds the bytes that were accepted and not taken, in their order:
\* a full ring never overwrites its oldest byte, and a ring that came full
\* circle is not mistaken for an empty one.
LiteRingIsQueue ==
    /\ Len(lite.sent) = (lite.tail + LiteDepth - lite.head) % LiteDepth
    /\ \A i \in 1 .. Len(lite.sent) :
           lite.sent[i] = lite.fifo[(lite.head + i - 1) % LiteDepth]
===============================================================================
