----------------------------- MODULE Usart1Proofs -----------------------------
(***************************************************************************)
(* Proofs about Usart1, for every ring size and every set of bytes: the    *)
(* cached flags agree with the buffers, every buffer with work has its     *)
(* timer, a silenced backend is woken, the interrupt request is current,   *)
(* and stage, FIFO and cached byte together implement one queue.           *)
(***************************************************************************)
EXTENDS Usart1, SequenceTheorems, TLAPS

(***************************************************************************)
(* Sequences.                                                              *)
(***************************************************************************)

LEMMA AppendFacts ==
    ASSUME NEW S, NEW s \in Seq(S), NEW e \in S
    PROVE  /\ Append(s, e) \in Seq(S)
           /\ Append(s, e) # << >>
           /\ Len(Append(s, e)) = Len(s) + 1
           /\ s # << >> => Head(Append(s, e)) = Head(s)
           /\ s = << >> => Head(Append(s, e)) = e
BY AppendProperties, HeadTailAppend

LEMMA TailFacts ==
    ASSUME NEW S, NEW s \in Seq(S), s # << >>
    PROVE  /\ Head(s) \in S
           /\ Tail(s) \in Seq(S)
           /\ Len(s) \in Nat \ {0}
           /\ Len(Tail(s)) = Len(s) - 1
BY HeadTailProperties, EmptySeq

\* Moving the head of the second sequence to the end of the first keeps the
\* whole.
LEMMA MoveHead ==
    ASSUME NEW S, NEW s \in Seq(S), NEW t \in Seq(S), t # << >>
    PROVE  Append(s, Head(t)) \o Tail(t) = s \o t
<1> DEFINE u == Append(s, Head(t))
           v == Tail(t)
<1>1. u \in Seq(S) /\ v \in Seq(S) /\ Len(u) = Len(s) + 1 /\ Len(v) = Len(t) - 1
    BY AppendFacts, TailFacts
<1>2. Len(s) \in Nat /\ Len(t) \in Nat \ {0}
    BY TailFacts, LenProperties
<1>3. /\ u \o v \in Seq(S) /\ s \o t \in Seq(S)
      /\ Len(u \o v) = Len(s) + Len(t) /\ Len(s \o t) = Len(s) + Len(t)
    BY <1>1, <1>2, ConcatProperties
<1>4. ASSUME NEW i \in 1 .. Len(s) + Len(t)
      PROVE  (u \o v)[i] = (s \o t)[i]
    <2>1. (s \o t)[i] = IF i <= Len(s) THEN s[i] ELSE t[i - Len(s)]
        BY ConcatProperties
    <2>2. (u \o v)[i] = IF i <= Len(s) + 1 THEN u[i] ELSE v[i - Len(s) - 1]
        <3>1. i \in 1 .. Len(u) + Len(v)
            BY <1>1, <1>2
        <3>2. (u \o v)[i] = IF i <= Len(u) THEN u[i] ELSE v[i - Len(u)]
            BY <1>1, <3>1, ConcatProperties
        <3> QED BY <1>1, <1>2, <3>2
    <2>3. CASE i <= Len(s)
        BY <2>1, <2>2, <2>3, <1>2
    <2>4. CASE i = Len(s) + 1
        <3>1. u[i] = Head(t)
            BY <2>4, <1>2
        <3>2. Head(t) = t[1]
            BY <1>2
        <3> QED BY <2>1, <2>2, <2>4, <3>1, <3>2, <1>2
    <2>5. CASE i > Len(s) + 1
        <3>1. i - Len(s) - 1 \in 1 .. Len(v)
            BY <2>5, <1>1, <1>2
        <3>2. v[i - Len(s) - 1] = t[i - Len(s)]
            BY <3>1, <1>1, <1>2, HeadTailProperties
        <3> QED BY <2>1, <2>2, <2>5, <3>2, <1>2
    <2> QED BY <2>3, <2>4, <2>5, <1>2
<1> QED
    BY <1>3, <1>4, SeqEqual

\* Taking the head of the first sequence takes the head of the whole.
LEMMA TakeHead ==
    ASSUME NEW S, NEW s \in Seq(S), NEW t \in Seq(S), s # << >>
    PROVE  /\ s \o t # << >>
           /\ Head(s \o t) = Head(s)
           /\ Tail(s \o t) = Tail(s) \o t
<1> DEFINE w == s \o t
<1>1. Len(s) \in Nat \ {0} /\ Len(t) \in Nat
    BY TailFacts, LenProperties
<1>2. w \in Seq(S) /\ Len(w) = Len(s) + Len(t)
    BY ConcatProperties
<1>3. w # << >>
    BY <1>1, <1>2
<1>4. Head(w) = Head(s)
    <2>1. w[1] = s[1]
        BY <1>1, ConcatProperties
    <2> QED BY <2>1, <1>1, <1>2
<1>5. /\ Tail(w) \in Seq(S) /\ Tail(s) \o t \in Seq(S)
      /\ Len(Tail(w)) = Len(s) + Len(t) - 1
      /\ Len(Tail(s) \o t) = Len(s) + Len(t) - 1
    BY <1>1, <1>2, <1>3, TailFacts, ConcatProperties
<1>6. ASSUME NEW i \in 1 .. Len(Tail(w))
      PROVE  Tail(w)[i] = (Tail(s) \o t)[i]
    <2>1. Tail(w)[i] = w[i + 1]
        BY <1>2, <1>3, HeadTailProperties
    <2>2. w[i + 1] = IF i + 1 <= Len(s) THEN s[i + 1] ELSE t[i + 1 - Len(s)]
        BY <1>1, <1>5, ConcatProperties
    <2>3. (Tail(s) \o t)[i] = IF i <= Len(s) - 1 THEN Tail(s)[i] ELSE t[i - (Len(s) - 1)]
        <3>1. i \in 1 .. Len(Tail(s)) + Len(t)
            BY <1>1, <1>5, TailFacts
        <3>2. (Tail(s) \o t)[i] =
                IF i <= Len(Tail(s)) THEN Tail(s)[i] ELSE t[i - Len(Tail(s))]
            BY <3>1, TailFacts, ConcatProperties
        <3> QED BY <3>2, TailFacts, <1>1
    <2>4. CASE i <= Len(s) - 1
        <3>1. Tail(s)[i] = s[i + 1]
            BY <2>4, <1>1, TailFacts, HeadTailProperties
        <3> QED BY <2>1, <2>2, <2>3, <2>4, <3>1, <1>1
    <2>5. CASE i > Len(s) - 1
        BY <2>1, <2>2, <2>3, <2>5, <1>1
    <2> QED BY <2>4, <2>5, <1>1, <1>5
<1> QED
    BY <1>3, <1>4, <1>5, <1>6, SeqEqual

(***************************************************************************)
(* The invariant.  Its parts need each other: the wakeup rests on the      *)
(* receive timer being pending for every staged byte, the request on the   *)
(* transmit flags agreeing with the transmit FIFO.                         *)
(***************************************************************************)

Inv == TypeOK /\ FlagsMatchFifo /\ TimersMatchQueues /\ BackendWakes /\ AskIsCurrent


\* A step that ends in the resync leaves the request current.
LEMMA ResyncCurrent == Resync => AskIsCurrent'
BY DEF Resync, AskIsCurrent, Irq, RxAsks, TxAsks, Rxne, Txe, Tc, Sending

\* A step that offers the room to the backend leaves nobody asleep in vain.
LEMMA AcceptWakes == TryAccept => BackendWakes'
BY DEF TryAccept, BackendWakes, RxEnabled, FifoFull

\* A step that touches no receive state and no control bit keeps it awake.
LEMMA WakesFrame ==
    BackendWakes /\ UNCHANGED << rx, asleep, c1 >> => BackendWakes'
BY DEF rx, BackendWakes, RxEnabled, FifoFull

LEMMA RoomFacts == RxRoom \in Nat \ {0} /\ TxRoom \in Nat \ {0}
BY DepthAssumption DEF RxRoom, TxRoom

\* An empty buffer fits.
LEMMA EmptyFacts ==
    /\ << >> \in Seq(Bytes) /\ Len(<< >>) <= RxRoom
    /\ 0 \in 0 .. TxRoom /\ ~(0 > 0)
BY RoomFacts, EmptySeq

LEMMA InvInit == Init => Inv
<1> SUFFICES ASSUME Init PROVE Inv
    OBVIOUS
<1>1. TypeOK
    BY EmptyFacts DEF Init, TypeOK
<1>2. FlagsMatchFifo /\ TimersMatchQueues
    BY EmptyFacts DEF Init, FlagsMatchFifo, TimersMatchQueues
<1>3. BackendWakes /\ AskIsCurrent
    BY DEF Init, BackendWakes, AskIsCurrent
<1> QED BY <1>1, <1>2, <1>3 DEF Inv

\* The type, flag and timer parts, one step per action.
LEMMA BuffersStep ==
    ASSUME TypeOK, FlagsMatchFifo, TimersMatchQueues, [Next]_vars
    PROVE  (TypeOK /\ FlagsMatchFifo /\ TimersMatchQueues)'
<1> USE DEF TypeOK, FlagsMatchFifo, TimersMatchQueues
<1>1. ASSUME NEW b \in Bytes, BackendSend(b)
      PROVE  (TypeOK /\ FlagsMatchFifo /\ TimersMatchQueues)'
    <2>1. stage' \in Seq(Bytes) /\ Len(stage') = Len(stage) + 1 /\ stage' # << >>
        BY <1>1, AppendFacts DEF BackendSend
    <2>2. Len(stage') <= RxRoom
        BY <1>1, <2>1, RoomFacts, LenProperties DEF BackendSend
    <2> QED BY <1>1, <2>1, <2>2 DEF BackendSend, tx, control
<1>2. ASSUME BackendBlocked
      PROVE  (TypeOK /\ FlagsMatchFifo /\ TimersMatchQueues)'
    BY <1>2 DEF BackendBlocked, rx, tx, control
<1>3. ASSUME RxTick
      PROVE  (TypeOK /\ FlagsMatchFifo /\ TimersMatchQueues)'
    <2>1. Head(stage) \in Bytes /\ Tail(stage) \in Seq(Bytes) /\ Len(Tail(stage)) <= RxRoom
        BY <1>3, TailFacts, RoomFacts DEF RxTick
    <2>2. /\ fifo' \in Seq(Bytes) /\ Len(fifo') = Len(fifo) + 1 /\ fifo' # << >>
        BY <1>3, <2>1, AppendFacts DEF RxTick
    <2>3. Len(fifo') <= RxRoom
        BY <1>3, <2>2, RoomFacts, LenProperties DEF RxTick, FifoFull
    <2>4. Head(fifo') \in Bytes
        BY <2>2, TailFacts
    <2>5. asked' \in BOOLEAN /\ asleep' \in BOOLEAN
        BY <1>3 DEF RxTick, Resync, TryAccept, Irq, RxAsks, TxAsks
    <2> QED BY <1>3, <2>1, <2>2, <2>3, <2>4, <2>5 DEF RxTick, RearmRx, tx, control
<1>4. ASSUME NEW k \in 1 .. TxRoom, TxDrain(k)
      PROVE  (TypeOK /\ FlagsMatchFifo /\ TimersMatchQueues)'
    <2>1. txLen' \in 0 .. TxRoom /\ (k = txLen <=> txLen' = 0)
        BY <1>4, RoomFacts DEF TxDrain
    <2>2. txLen' > 0 <=> k < txLen
        BY <1>4, RoomFacts DEF TxDrain
    <2>3. asked' \in BOOLEAN
        BY <1>4 DEF TxDrain, Resync, Irq, RxAsks, TxAsks
    <2>4. (txEmpty' <=> txLen' = 0) /\ (txComplete' <=> txEmpty')
        <3>1. CASE k = txLen
            BY <1>4, <3>1, <2>1 DEF TxDrain
        <3>2. CASE k # txLen
            BY <1>4, <3>2, <2>1, RoomFacts DEF TxDrain
        <3> QED BY <3>1, <3>2
    <2>5. txEmpty' \in BOOLEAN /\ txComplete' \in BOOLEAN /\ txTimer' \in BOOLEAN
        <3>1. txTimer' = (k < txLen) /\ ((k < txLen) \in BOOLEAN)
            BY <1>4 DEF TxDrain
        <3>2. txEmpty' \in BOOLEAN /\ txComplete' \in BOOLEAN
            BY <1>4 DEF TxDrain
        <3> QED BY <3>1, <3>2
    <2>6. txTimer' <=> txLen' > 0
        <3>1. txTimer' <=> k < txLen
            BY <1>4 DEF TxDrain
        <3> QED BY <3>1, <2>2
    <2>7. UNCHANGED << stage, fifo, rxPending, rdr, rxTimer, c1, dmar, ienr, asleep, got >>
        BY <1>4 DEF TxDrain, rx, control
    <2> HIDE DEF TypeOK, FlagsMatchFifo, TimersMatchQueues
    <2>8. TypeOK'
        BY <2>1, <2>3, <2>5, <2>7 DEF TypeOK, FifoFull
    <2>9. FlagsMatchFifo' /\ TimersMatchQueues'
        BY <2>4, <2>6, <2>7 DEF FlagsMatchFifo, TimersMatchQueues
    <2> QED BY <2>8, <2>9
<1>5. ASSUME ReadDatar
      PROVE  (TypeOK /\ FlagsMatchFifo /\ TimersMatchQueues)'
    <2>1. asked' \in BOOLEAN /\ asleep' \in BOOLEAN
        BY <1>5 DEF ReadDatar, Resync, TryAccept, Irq, RxAsks, TxAsks
    <2>2. CASE rxPending
        <3>1. /\ Head(fifo) \in Bytes /\ fifo' \in Seq(Bytes) /\ Len(fifo') <= RxRoom
            BY <1>5, <2>2, TailFacts, RoomFacts DEF ReadDatar, PopFifo
        <3>2. fifo' # << >> => Head(fifo') \in Bytes
            BY <3>1, TailFacts
        <3> QED BY <1>5, <2>1, <2>2, <3>1, <3>2 DEF ReadDatar, PopFifo, tx, control
    <2>3. CASE ~rxPending
        BY <1>5, <2>1, <2>3 DEF ReadDatar, tx, control
    <2> QED BY <2>2, <2>3
<1>6. ASSUME WriteDatar
      PROVE  (TypeOK /\ FlagsMatchFifo /\ TimersMatchQueues)'
    <2>1. asked' \in BOOLEAN
        BY <1>6 DEF WriteDatar, Resync, Irq, RxAsks, TxAsks
    <2>2. CASE "UE" \in c1 /\ txLen < TxRoom
        <3>1. txLen' \in 0 .. TxRoom /\ txLen' # 0 /\ txLen' > 0
            BY <1>6, <2>2, RoomFacts DEF WriteDatar, PushTx
        <3>2. txEmpty' = FALSE /\ txComplete' = FALSE /\ txTimer' = TRUE
            BY <1>6, <2>2 DEF WriteDatar, PushTx
        <3> QED BY <1>6, <2>1, <3>1, <3>2 DEF WriteDatar, rx, control
    <2>3. CASE "UE" \in c1 /\ ~(txLen < TxRoom)
        <3>1. txLen > 0 /\ UNCHANGED << txLen, txEmpty, txComplete >> /\ txTimer' = TRUE
            BY <1>6, <2>3, RoomFacts DEF WriteDatar, PushTx
        <3> QED BY <1>6, <2>1, <3>1 DEF WriteDatar, rx, control
    <2>4. CASE "UE" \notin c1
        BY <1>6, <2>1, <2>4 DEF WriteDatar, rx, tx, control
    <2> QED BY <2>2, <2>3, <2>4
<1>7. ASSUME NEW bits \in SUBSET Ctlr1Bits, NEW on \in BOOLEAN,
             WriteStatr \/ WriteCtlr1(bits) \/ WriteCtlr3(on) \/ WritePficEnable(on)
      PROVE  (TypeOK /\ FlagsMatchFifo /\ TimersMatchQueues)'
    <2>1. asked' \in BOOLEAN /\ asleep' \in BOOLEAN
        BY <1>7 DEF WriteStatr, WriteCtlr1, WriteCtlr3, WritePficEnable,
                    Resync, TryAccept, Irq, RxAsks, TxAsks
    <2>2. UNCHANGED << rx, tx, got >>
        BY <1>7 DEF WriteStatr, WriteCtlr1, WriteCtlr3, WritePficEnable
    <2>3. c1' \subseteq Ctlr1Bits /\ dmar' \in BOOLEAN /\ ienr' \in BOOLEAN
        BY <1>7 DEF WriteStatr, WriteCtlr1, WriteCtlr3, WritePficEnable, control
    <2> QED BY <2>1, <2>2, <2>3 DEF rx, tx
<1>8. ASSUME Reset
      PROVE  (TypeOK /\ FlagsMatchFifo /\ TimersMatchQueues)'
    BY <1>8, EmptyFacts DEF Reset
<1>9. ASSUME UNCHANGED vars
      PROVE  (TypeOK /\ FlagsMatchFifo /\ TimersMatchQueues)'
    BY <1>9 DEF vars, rx, tx, control
<1> QED
    BY <1>1, <1>2, <1>3, <1>4, <1>5, <1>6, <1>7, <1>8, <1>9
       DEF Next, BackendStep, TimerStep, RegisterStep

\* The backend is woken whenever the reason to keep it asleep goes away.
LEMMA WakesStep ==
    ASSUME Inv, [Next]_vars
    PROVE  BackendWakes'
<1> USE DEF Inv
<1>1. ASSUME NEW b \in Bytes, BackendSend(b) PROVE BackendWakes'
    BY <1>1 DEF BackendSend, BackendWakes
<1>2. ASSUME BackendBlocked PROVE BackendWakes'
    <2>1. stage # << >>
        BY <1>2, RoomFacts, EmptySeq DEF BackendBlocked, TypeOK
    <2> QED BY <1>2, <2>1 DEF BackendBlocked, BackendWakes, TimersMatchQueues, rx
<1>3. ASSUME RxTick PROVE BackendWakes'
    <2>1. CASE stage' = << >>
        BY <1>3, <2>1, AcceptWakes DEF RxTick
    <2>2. CASE stage' # << >>
        BY <1>3, <2>2 DEF RxTick, RearmRx, BackendWakes
    <2> QED BY <2>1, <2>2
<1>4. ASSUME NEW k, TxDrain(k) PROVE BackendWakes'
    BY <1>4, WakesFrame DEF TxDrain, control
<1>5. ASSUME ReadDatar PROVE BackendWakes'
    BY <1>5, AcceptWakes DEF ReadDatar
<1>6. ASSUME NEW bits, WriteCtlr1(bits) PROVE BackendWakes'
    BY <1>6, AcceptWakes DEF WriteCtlr1
<1>7. ASSUME NEW on, WriteDatar \/ WriteStatr \/ WriteCtlr3(on) \/ WritePficEnable(on)
      PROVE  BackendWakes'
    <2>1. UNCHANGED << rx, asleep, c1 >>
        BY <1>7 DEF WriteDatar, WriteStatr, WriteCtlr3, WritePficEnable, control
    <2> QED BY <2>1, WakesFrame
<1>8. ASSUME Reset PROVE BackendWakes'
    BY <1>8 DEF Reset, BackendWakes, RxEnabled
<1>9. ASSUME UNCHANGED vars PROVE BackendWakes'
    BY <1>9, WakesFrame DEF vars, control
<1> QED
    BY <1>1, <1>2, <1>3, <1>4, <1>5, <1>6, <1>7, <1>8, <1>9
       DEF Next, BackendStep, TimerStep, RegisterStep

\* Every step resyncs, or changes nothing the request is made of but the
\* receive FIFO.
LEMMA AskStep ==
    ASSUME Inv, [Next]_vars
    PROVE  AskIsCurrent'
<1> USE DEF Inv
<1>1. ASSUME NEW x,
             \/ TxDrain(x) \/ ReadDatar \/ WriteDatar \/ WriteStatr
             \/ WriteCtlr1(x) \/ WritePficEnable(x)
      PROVE  AskIsCurrent'
    BY <1>1, ResyncCurrent
       DEF TxDrain, ReadDatar, WriteDatar, WriteStatr, WriteCtlr1, WritePficEnable
<1>2. ASSUME UNCHANGED << tx, c1, ienr, asked >>, Rxne => Rxne'
      PROVE  AskIsCurrent'
    BY <1>2 DEF tx, AskIsCurrent, Irq, RxAsks, TxAsks, Txe, Tc, Sending
<1>3. ASSUME NEW x,
             BackendSend(x) \/ BackendBlocked \/ WriteCtlr3(x) \/ UNCHANGED vars
      PROVE  AskIsCurrent'
    <2>1. UNCHANGED << tx, c1, ienr, asked, fifo >>
        BY <1>3 DEF BackendSend, BackendBlocked, WriteCtlr3, vars, rx, control
    <2> QED BY <2>1, <1>2 DEF Rxne
<1>4. ASSUME RxTick PROVE AskIsCurrent'
    <2>1. Rxne'
        <3>1. Head(stage) \in Bytes
            BY <1>4, TailFacts DEF RxTick, TypeOK
        <3> QED BY <1>4, <3>1, AppendFacts DEF RxTick, Rxne, TypeOK
    <2>2. CASE dmar
        BY <1>4, <2>1, <2>2, <1>2 DEF RxTick, control
    <2>3. CASE ~dmar
        BY <1>4, <2>3, ResyncCurrent DEF RxTick
    <2> QED BY <2>2, <2>3
<1>5. ASSUME Reset PROVE AskIsCurrent'
    BY <1>5 DEF Reset, AskIsCurrent
<1> QED
    <2>1. CASE BackendStep
        BY <2>1, <1>3 DEF BackendStep
    <2>2. CASE TimerStep
        BY <2>2, <1>1, <1>4 DEF TimerStep
    <2>3. CASE RegisterStep
        BY <2>3, <1>1, <1>3 DEF RegisterStep
    <2> QED BY <2>1, <2>2, <2>3, <1>3, <1>5 DEF Next

THEOREM Invariant == Spec => []Inv
<1>1. Inv /\ [Next]_vars => Inv'
    BY BuffersStep, WakesStep, AskStep DEF Inv
<1> QED
    BY InvInit, <1>1, PTL DEF Spec

\* The buffers of USART1 stay within their rings.
THEOREM Usart1Typed == Spec => []TypeOK
BY Invariant, PTL DEF Inv

\* The cached byte and the flags the firmware sees agree with the FIFOs.
THEOREM FlagsAreCurrent == Spec => []FlagsMatchFifo
BY Invariant, PTL DEF Inv

\* A timer is pending exactly for a buffer with work in it.
THEOREM NoForgottenByte == Spec => []TimersMatchQueues
BY Invariant, PTL DEF Inv

\* A silenced backend always has something ahead that wakes it.
THEOREM NoSilentBackend == Spec => []BackendWakes
BY Invariant, PTL DEF Inv

\* The request the PFIC saw last is still the one the registers make.
THEOREM RequestIsCurrent == Spec => []AskIsCurrent
BY Invariant, PTL DEF Inv

(***************************************************************************)
(* The refinement: BackendSend puts, a read of DATAR takes, a reset        *)
(* flushes, and the tick that moves a byte from stage to FIFO stutters.    *)
(***************************************************************************)

qvars == << fifo \o stage, got >>

LEMMA QueueStep ==
    ASSUME Inv, [Next]_vars
    PROVE  [Queue!Next]_qvars
<1> USE DEF Inv, TypeOK
<1>1. ASSUME NEW b \in Bytes, BackendSend(b) PROVE Queue!Put(b)
    <2>1. Len(fifo \o stage) = Len(fifo) + Len(stage)
        BY ConcatProperties
    <2>2. Len(fifo \o stage) < 2 * RxRoom
        BY <1>1, <2>1, RoomFacts, LenProperties DEF BackendSend
    <2>3. fifo \o Append(stage, b) = Append(fifo \o stage, b)
        <3>1. <<b>> \in Seq(Bytes) /\ fifo \o stage \in Seq(Bytes)
            BY ConcatProperties
        <3> QED BY <3>1, AppendIsConcat, ConcatAssociative
    <2> QED BY <1>1, <2>2, <2>3 DEF BackendSend, Queue!Put
<1>2. ASSUME RxTick PROVE UNCHANGED qvars
    BY <1>2, MoveHead DEF RxTick, qvars
<1>3. ASSUME ReadDatar PROVE Queue!Take \/ Queue!TakeNothing
    <2>1. CASE rxPending
        <3>1. fifo # << >> /\ rdr = Head(fifo)
            BY <2>1 DEF FlagsMatchFifo
        <3>2. /\ fifo \o stage # << >>
              /\ Head(fifo \o stage) = Head(fifo)
              /\ Tail(fifo \o stage) = Tail(fifo) \o stage
            BY <3>1, TakeHead
        <3> QED BY <1>3, <2>1, <3>1, <3>2 DEF ReadDatar, PopFifo, Queue!Take
    <2>2. CASE ~rxPending
        BY <1>3, <2>2 DEF ReadDatar, Queue!TakeNothing
    <2> QED BY <2>1, <2>2
<1>4. ASSUME Reset PROVE Queue!Flush
    <2>1. << >> \o << >> = << >>
        BY EmptySeq, ConcatEmptySeq
    <2> QED BY <1>4, <2>1 DEF Reset, Queue!Flush
<1>5. ASSUME NEW k, NEW bits, NEW on,
             \/ BackendBlocked \/ TxDrain(k) \/ WriteDatar \/ WriteStatr
             \/ WriteCtlr1(bits) \/ WriteCtlr3(on) \/ WritePficEnable(on)
             \/ UNCHANGED vars
      PROVE  UNCHANGED qvars
    BY <1>5 DEF BackendBlocked, TxDrain, WriteDatar, WriteStatr, WriteCtlr1, WriteCtlr3,
                WritePficEnable, vars, rx, qvars
<1> QED
    BY <1>1, <1>2, <1>3, <1>4, <1>5
       DEF Next, BackendStep, TimerStep, RegisterStep, Queue!Next

\* Stage, FIFO and cached byte implement one first-in first-out queue, for
\* every ring size: no interleaving of backend, timer and firmware loses,
\* repeats or reorders a received byte.
THEOREM Refinement == Spec => ImplementsByteQueue
<1>1. Init => Queue!Init
    <2>1. << >> \o << >> = << >>
        BY EmptySeq, ConcatEmptySeq
    <2> QED BY <2>1 DEF Init, Queue!Init
<1>2. Inv /\ [Next]_vars => [Queue!Next]_qvars
    BY QueueStep
<1> QED
    BY <1>1, <1>2, Invariant, PTL DEF Spec, ImplementsByteQueue, qvars
===============================================================================
