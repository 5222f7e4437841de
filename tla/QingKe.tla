--------------------------------- MODULE QingKe ---------------------------------
(***************************************************************************)
(* The QingKe models and the instructions that are WCH's own: the XW       *)
(* compressed loads and stores and the memory copy mcpy.                   *)
(*                                                                         *)
(* A word is two halves of sixteen bits, lo and hi.  The assembler is not  *)
(* part of the repository: IsaEncode is what binutils -M xw makes of an    *)
(* instruction, read off the comments of trans_rvwch.c.inc, and IsaDecode  *)
(* is the translator's reading.                                            *)
(***************************************************************************)
EXTENDS Naturals, FiniteSets

CONSTANTS
    IsaUsed,        \* the models that are built
    IsaRegs,        \* compressed register numbers that are told apart
    McpySize,       \* bytes of memory
    McpyBytes       \* values of a byte

ASSUME IsaAssumption == IsaRegs \subseteq 0 .. 7 /\ McpySize \in Nat \ {0}

VARIABLES
    xw,         \* the model and the last instruction: asked for and done
    mcpy        \* the memory, the registers of mcpy and a copy under way

(***************************************************************************)
(* The models.                                                             *)
(***************************************************************************)
IsaModel(series, version, misa, regions, ext) ==
    [series |-> series, version |-> version, misa |-> misa, regions |-> regions,
     ext |-> ext]

IsaModels ==
    [V4F |-> IsaModel(4, 6, {"I", "M", "A", "F", "C", "U"}, 4, {"xw"}),
     V4A |-> IsaModel(4, 1, {"I", "M", "A", "C", "U"}, 4, {}),
     V4B |-> IsaModel(4, 2, {"I", "M", "A", "C", "U"}, 0, {"xw"}),
     V4C |-> IsaModel(4, 3, {"I", "M", "A", "C", "U"}, 4, {"xw"}),
     V4J |-> IsaModel(4, 10, {"I", "M", "A", "C", "U"}, 4, {"xw"}),
     V3A |-> IsaModel(3, 1, {"I", "M", "A", "C", "U"}, 0, {}),
     V3B |-> IsaModel(3, 2, {"I", "M", "C", "B", "U"}, 0, {"xw", "mcpy"}),
     V3C |-> IsaModel(3, 3, {"I", "M", "C", "B", "U"}, 4, {"xw", "mcpy"}),
     V3F |-> IsaModel(3, 6, {"I", "M", "A", "F", "C", "B", "U"}, 4, {"xw", "mcpy"}),
     V3V |-> IsaModel(3, 22, {"I", "M", "A", "C", "B", "U"}, 4, {"xw", "mcpy"}),
     V2A |-> IsaModel(2, 1, {"E", "C"}, 4, {"xw"}),
     V2C |-> IsaModel(2, 3, {"E", "C"}, 4, {"xw", "zmmul"}),
     V5F |-> IsaModel(5, 6, {"I", "M", "A", "F", "C", "B", "U"}, 4, {"xw"})]

ASSUME IsaUsedAssumption == IsaUsed \subseteq DOMAIN IsaModels

\* Bits lo to lo + n - 1 of a half word; IsaPowers[i] is 2^(i - 1), written out
\* because the provers know nothing of ^.
IsaPowers == << 1, 2, 4, 8, 16, 32, 64, 128, 256, 512, 1024, 2048, 4096, 8192, 16384,
                32768 >>
IsaBits(half, lo, n) == (half \div IsaPowers[lo + 1]) % IsaPowers[n + 1]

\* marchid, the half below 0xDC68.
IsaMarchid(model) == 55296 + model.series * 32 + (model.version % 32)

(***************************************************************************)
(* Words.                                                                  *)
(***************************************************************************)
IsaBytesOps == {"lbu", "sb"}
IsaHalfOps == {"lhu", "sh"}
IsaStackBytes == {"lbusp", "sbsp"}
IsaStackHalves == {"lhusp", "shsp"}
IsaOps == IsaBytesOps \cup IsaHalfOps \cup IsaStackBytes \cup IsaStackHalves

IsaOffsets(op) ==
    CASE op \in IsaBytesOps -> 0 .. 31
      [] op \in IsaHalfOps -> {2 * i : i \in 0 .. 31}
      [] op \in IsaStackBytes -> 0 .. 15
      [] op \in IsaStackHalves -> {2 * i : i \in 0 .. 15}

IsaStackCode == [lbusp |-> 0, lhusp |-> 1, sbsp |-> 2, shsp |-> 3]

IsaEncode(op, reg, base, imm) ==
    LET low == IsaBits(imm, 1, 2) * 32 + base * 128 + reg * 4
        sp == 32768 + IsaStackCode[op] * 32 + reg * 4
    IN  CASE op \in IsaBytesOps ->
               (IF op = "lbu" THEN 8192 ELSE 40960)
                   + IsaBits(imm, 0, 1) * 4096 + IsaBits(imm, 3, 2) * 1024 + low
          [] op \in IsaHalfOps ->
               (IF op = "lhu" THEN 8192 ELSE 40960) + IsaBits(imm, 3, 3) * 1024 + low + 2
          [] op \in IsaStackBytes -> sp + imm * 128
          [] op \in IsaStackHalves -> sp + IsaBits(imm, 1, 3) * 256 + IsaBits(imm, 4, 1) * 128

IsaOther == [op |-> "other", reg |-> 0, base |-> 0, imm |-> 0]
IsaDone(op, reg, base, imm) == [op |-> op, reg |-> reg, base |-> base, imm |-> imm]

\* decode_wch_xw16: quadrant 0, where the D loads and stores would be, and the
\* stack forms.  Register 2 is sp.
IsaDecodeQuad0(w) ==
    LET reg == 8 + IsaBits(w, 2, 3)
        base == 8 + IsaBits(w, 7, 3)
        imm == IsaBits(w, 12, 1) + IsaBits(w, 5, 2) * 2 + IsaBits(w, 10, 2) * 8
        nibble == IsaBits(w, 7, 4)
        half == IsaBits(w, 8, 3) * 2 + IsaBits(w, 7, 1) * 16
        form == IsaBits(w, 5, 2)
    IN  CASE IsaBits(w, 13, 3) = 1 -> IsaDone("lbu", reg, base, imm)
          [] IsaBits(w, 13, 3) = 5 -> IsaDone("sb", reg, base, imm)
          [] IsaBits(w, 11, 5) = 16 ->
               CASE form = 0 -> IsaDone("lbusp", reg, 2, nibble)
                 [] form = 1 -> IsaDone("lhusp", reg, 2, half)
                 [] form = 2 -> IsaDone("sbsp", reg, 2, nibble)
                 [] form = 3 -> IsaDone("shsp", reg, 2, half)
          [] OTHER -> IsaOther

\* Variant: the offset of the halves is scaled as that of c.fldsp is.
IsaDecodeQuad2Scaled(w) ==
    LET imm == IsaBits(w, 10, 3) * 8 + IsaBits(w, 5, 2) * 64
        op == CASE IsaBits(w, 13, 3) = 1 -> "lhu" [] IsaBits(w, 13, 3) = 5 -> "sh"
                [] OTHER -> "other"
    IN  IF op = "other" THEN IsaOther
        ELSE IsaDone(op, 8 + IsaBits(w, 2, 3), 8 + IsaBits(w, 7, 3), imm)

\* decode_wch_xw16_quad2: quadrant 2.  No model has D, Zcmp or Zcmt.
IsaDecodeQuad2(w) ==
    LET imm == IsaBits(w, 10, 3) * 8 + IsaBits(w, 5, 2) * 2
        op == CASE IsaBits(w, 13, 3) = 1 -> "lhu" [] IsaBits(w, 13, 3) = 5 -> "sh"
                [] OTHER -> "other"
    IN  IF op = "other" THEN IsaOther
        ELSE IsaDone(op, 8 + IsaBits(w, 2, 3), 8 + IsaBits(w, 7, 3), imm)

\* decode_opc: XW comes before the standard decoder, and mcpy before the rest.
IsaDecode(model, w) ==
    IF ~("xw" \in model.ext /\ "C" \in model.misa) THEN IsaOther
    ELSE IF IsaBits(w, 0, 2) = 0 THEN IsaDecodeQuad0(w)
    ELSE IF IsaBits(w, 0, 2) = 2 THEN IsaDecodeQuad2(w)
    ELSE IsaOther

\* mcpy: dst in [31:27], src in [24:20] and end in [19:15].
IsaDecodeMcpy(model, lo, hi) ==
    IF /\ "mcpy" \in model.ext
       /\ IsaBits(lo, 0, 7) = 15 /\ IsaBits(lo, 12, 3) = 7 /\ IsaBits(lo, 7, 5) = 0
       /\ IsaBits(hi, 9, 2) = 0
    THEN IsaDone("mcpy", IsaBits(hi, 11, 5), IsaBits(hi, 4, 5),
                 IsaBits(hi, 0, 4) * 2 + IsaBits(lo, 15, 1))
    ELSE IsaOther

(***************************************************************************)
(* Instructions that a program runs, one at a time.                        *)
(***************************************************************************)
XwTell(asked, did) ==
    /\ xw.asked = IsaOther
    /\ xw' = [xw EXCEPT !.asked = asked, !.did = did]

\* The instruction retires and the next one can come.
XwRetire ==
    /\ xw.asked # IsaOther
    /\ xw' = [xw EXCEPT !.asked = IsaOther, !.did = IsaOther]

XwRun ==
    \E op \in IsaOps, reg, base \in IsaRegs : \E imm \in IsaOffsets(op) :
        LET stack == op \in IsaStackBytes \cup IsaStackHalves
            asked == IsaDone(op, 8 + reg, IF stack THEN 2 ELSE 8 + base, imm)
            model == IsaModels[xw.model]
        IN  XwTell(IF "xw" \in model.ext THEN asked ELSE IsaOther,
                   IsaDecode(model, IsaEncode(op, reg, base, imm)))

XwRunMcpy ==
    \E dst, src, end \in {0, 10, 31} :
        LET model == IsaModels[xw.model]
        IN  XwTell(IF "mcpy" \in model.ext THEN IsaDone("mcpy", dst, src, end) ELSE IsaOther,
                   IsaDecodeMcpy(model, 28687 + IsaBits(end, 0, 1) * 32768,
                                 dst * 2048 + src * 16 + IsaBits(end, 1, 4)))

\* The firmware reads who it runs on: a V, the series and the letter.
XwReadMarchid ==
    LET model == IsaModels[xw.model]
        id == IsaMarchid(model)
    IN  XwTell(IsaDone("marchid", 22, model.series, model.version),
               IsaDone("marchid", IsaBits(id, 10, 5), IsaBits(id, 5, 5), IsaBits(id, 0, 5)))

(***************************************************************************)
(* mcpy: a loop over the bytes inside one instruction.  The registers are  *)
(* written when it is over; an access that the firmware has shut leaves    *)
(* them, and what was copied, as they are, and the instruction runs again  *)
(* when the handler has opened the byte.                                   *)
(***************************************************************************)
McpyCells == 0 .. McpySize - 1

McpyState ==
    [mem : [McpyCells -> McpyBytes], src : 0 .. McpySize, end : 0 .. McpySize,
     dst : 0 .. McpySize, shut : SUBSET McpyCells,
     began : [McpyCells -> McpyBytes], running : BOOLEAN]

\* Variant: the byte before the end is not copied.
McpyLengthShort(src, end) == IF src + 1 < end THEN end - src - 1 ELSE 0

McpyLength(src, end) == IF src < end THEN end - src ELSE 0

\* The memory after n turns of the loop.
McpyMem(m, n) ==
    LET turn[k \in 0 .. n] ==
          IF k = 0 THEN m.mem
          ELSE [turn[k - 1] EXCEPT ![m.dst + k - 1] = turn[k - 1][m.src + k - 1]]
    IN  turn[n]

\* The turns until the end or the first byte that may not be touched.
McpyTurns(m) ==
    LET stops == {k \in 0 .. McpyLength(m.src, m.end) :
                    \/ k = McpyLength(m.src, m.end)
                    \/ {m.src + k, m.dst + k} \cap m.shut # {}}
    IN  CHOOSE k \in stops : \A l \in stops : k <= l

McpySetup ==
    /\ ~mcpy.running
    /\ \E src, end, dst \in 0 .. McpySize, shut \in SUBSET McpyCells :
         /\ dst + McpyLength(src, end) <= McpySize
         /\ mcpy' = [mcpy EXCEPT !.src = src, !.end = end, !.dst = dst, !.shut = shut,
                                 !.began = mcpy.mem, !.running = TRUE]

McpyStore ==
    /\ ~mcpy.running
    /\ \E cell \in McpyCells, byte \in McpyBytes :
         mcpy' = [mcpy EXCEPT !.mem[cell] = byte]

McpyTry ==
    /\ mcpy.running
    /\ LET n == McpyTurns(mcpy)
           over == n = McpyLength(mcpy.src, mcpy.end)
       IN  mcpy' = [mcpy EXCEPT !.mem = McpyMem(mcpy, n),
                                !.src = IF over THEN @ + n ELSE @,
                                !.dst = IF over THEN @ + n ELSE @,
                                !.began = IF over THEN [c \in McpyCells |-> 0] ELSE @,
                                !.shut = IF over THEN {} ELSE @,
                                !.running = ~over]

McpyOpen ==
    /\ mcpy.running
    /\ \E cell \in mcpy.shut : mcpy' = [mcpy EXCEPT !.shut = @ \ {cell}]

XwInit == \E model \in IsaUsed : xw = [model |-> model, asked |-> IsaOther, did |-> IsaOther]
McpyInit ==
    mcpy = [mem |-> [c \in McpyCells |-> 0], src |-> 0, end |-> 0, dst |-> 0, shut |-> {},
            began |-> [c \in McpyCells |-> 0], running |-> FALSE]
IsaInit == XwInit /\ McpyInit

XwNext == XwRun \/ XwRunMcpy \/ XwReadMarchid \/ XwRetire
McpyNext == McpySetup \/ McpyStore \/ McpyTry \/ McpyOpen

\* Every XW and mcpy word of the assembler is run as written on the models
\* that have the extension, each register and every offset of the encoding
\* included, and left to the standard decoder on the others; marchid tells the
\* model it is read on.
IsaRunsWhatWasWritten == xw.did = xw.asked

\* The step that ends a mcpy between areas that do not overlap.
McpyCopied ==
    mcpy.running /\ ~mcpy'.running =>
        LET n == IF mcpy.src < mcpy.end THEN mcpy.end - mcpy.src ELSE 0
            from == mcpy.src .. mcpy.src + n - 1
            to == mcpy.dst .. mcpy.dst + n - 1
        IN  from \cap to = {} =>
              /\ mcpy'.mem = [c \in McpyCells |->
                                IF c \in to THEN mcpy.began[mcpy.src + (c - mcpy.dst)]
                                ELSE mcpy.began[c]]
              /\ mcpy'.src = mcpy.src + n /\ mcpy'.dst = mcpy.dst + n

\* A mcpy between areas that do not overlap copies all of the source as it was
\* when the instruction was first tried, and nothing else changes, however
\* often an access fault made it start again; it leaves src at end and dst
\* behind the copy.
McpyCopiesOnce == [][McpyCopied]_mcpy

\* What wch-qingke-cpu.c.inc:50 calls the baseline of all models: c.lbu of Zcb
\* reaches the standard decoder.
IsaZcbLoads ==
    \A reg, base \in IsaRegs, form \in 0 .. 3 :
        IsaDecode(IsaModels[xw.model], 32768 + base * 128 + form * 32 + reg * 4) = IsaOther
===============================================================================
