---------------------------- MODULE MCInstructions ----------------------------
(***************************************************************************)
(* Single instructions from every context of a grid: an image holds one    *)
(* instruction at Entry and some data, and the run ends at the fetch of    *)
(* the unmapped word that follows.  Which grid depends on the instruction: *)
(* operands around the edges of the widths, factors whose product TLC can  *)
(* hold, or addresses around the edges of two mapped ranges.               *)
(***************************************************************************)
EXTENDS InterpreterProps

I(op, ops) == [op |-> op, ops |-> ops]
Sys(crm, op2, op) == [op |-> "SYS", ops |-> <<op>>, crm |-> crm, op2 |-> op2]
R(k) == OpReg(X(k))
R32(k) == OpReg(W(k))
Off(k) == OpMem("offset", X(1), k)
Pre(k) == OpMem("pre", X(1), k)
Post(k) == OpMem("post", X(1), k)

Q(n) == OpReg(VecReg(n, 16))
D(n) == OpReg(VecReg(n, 8))
S(n) == OpReg(VecReg(n, 4))
B16(n) == OpVec(n, 1)
H8(n) == OpVec(n, 2)
S4(n) == OpVec(n, 4)
D2(n) == OpVec(n, 8)
Low64(op) == [op EXCEPT !.low = TRUE]

Arithmetic == <<
  I("ADD",  <<R(0), R(1), OpShifted(X(2), Shift("LSL", 3))>>),
  I("ADDS", <<R(0), R(1), R(2)>>),
  I("ADDS", <<R32(0), R32(1), R32(2)>>),
  I("SUBS", <<R(0), R(1), OpShifted(W(2), Shift("SXTW", 1))>>),
  I("SUBS", <<R32(0), R32(1), OpShifted(W(2), Shift("ASR", 2))>>),
  I("CMP",  <<R(1), R(2)>>),
  I("CMP",  <<R32(1), OpImm(9)>>),
  I("CMN",  <<R32(1), R32(2)>>),
  I("CMN",  <<OpReg(SP), R(2)>>),
  I("NEGS", <<R(0), R(1)>>),
  I("NEGS", <<R32(0), OpShifted(W(1), Shift("LSR", 1))>>),
  I("CCMP", <<R(1), R(2), OpImm(5), OpCond("GE")>>),
  I("CCMN", <<R32(1), R32(2), OpImm(10), OpCond("LS")>>),
  I("CCMP", <<R32(1), OpImm(3), OpImm(6), OpCond("NE")>>) >>

Bits == <<
  I("UBFX", <<R(0), R(1), OpImm(3), OpImm(9)>>),
  I("UBFX", <<R32(0), R32(1), OpImm(2), OpImm(6)>>),
  I("SBFX", <<R(0), R(1), OpImm(5), OpImm(4)>>),
  I("SBFX", <<R32(0), R32(1), OpImm(1), OpImm(7)>>),
  I("UBFM", <<R(0), R(1), OpImm(4), OpImm(15)>>),
  I("UBFM", <<R32(0), R32(1), OpImm(6), OpImm(3)>>),
  I("SBFM", <<R(0), R(1), OpImm(0), OpImm(7)>>),
  I("SBFM", <<R32(0), R32(1), OpImm(0), OpImm(7)>>),
  I("LSL",  <<R(0), R(1), R(2)>>),
  I("LSL",  <<R32(0), R32(1), OpImm(3)>>),
  I("LSR",  <<R32(0), R32(1), R32(2)>>),
  I("ASR",  <<R32(0), R32(1), OpImm(7)>>),
  I("ASR",  <<R(0), R(1), R(2)>>),
  I("ROR",  <<R(0), R(1), OpImm(5)>>),
  I("ROR",  <<R32(0), R32(1), R32(2)>>),
  I("EXTR", <<R(0), R(1), R(2), OpImm(6)>>),
  I("EXTR", <<R32(0), R32(1), R32(2), OpImm(3)>>),
  I("MOVK", <<R(0), OpImmShifted(9, Shift("LSL", 8))>>),
  I("MOVK", <<R32(0), OpImmShifted(6, Shift("LSL", 4))>>),
  I("MOVZ", <<R(0), OpImm(11)>>),
  I("MOVN", <<R32(0), OpImm(6)>>),
  I("AND",  <<R(0), R(1), R(2)>>),
  I("ANDS", <<R32(0), R32(1), R32(2)>>),
  I("ORR",  <<R(0), R(1), R(2)>>),
  I("EOR",  <<R32(0), R32(1), R32(2)>>),
  I("BIC",  <<R(0), R(1), R(2)>>),
  I("MVN",  <<R32(0), R32(1)>>),
  I("SXTB", <<R(0), R32(1)>>),
  I("SXTH", <<R32(0), R32(1)>>),
  I("SXTW", <<R(0), R32(1)>>),

  I("UBFIZ", <<R(0), R(1), OpImm(3), OpImm(5)>>),
  I("UBFIZ", <<R(0), R(1), OpImm(10), OpImm(6)>>),
  I("SBFIZ", <<R32(0), R32(1), OpImm(2), OpImm(3)>>),
  I("SBFIZ", <<R32(0), R32(1), OpImm(1), OpImm(7)>>),
  I("SBFIZ", <<R(0), R(1), OpImm(9), OpImm(4)>>),
  I("SBFIZ", <<R(0), R(1), OpImm(1), OpImm(15)>>),
  I("REV",   <<R(0), R(1)>>),
  I("REV",   <<R32(0), R32(1)>>),
  I("REV16", <<R(0), R(1)>>),
  I("REV16", <<R32(0), R32(1)>>),
  I("REV32", <<R(0), R(1)>>),
  I("RBIT",  <<R(0), R(1)>>),
  I("RBIT",  <<R32(0), R32(1)>>) >>

Division == <<
  I("SDIV", <<R(0), R(1), R(2)>>),
  I("SDIV", <<R32(0), R32(1), R32(2)>>),
  I("UDIV", <<R(0), R(1), R(2)>>),
  I("UDIV", <<R32(0), R32(1), R32(2)>>) >>

Selection == <<
  I("NEG",   <<R(0), R(1)>>),
  I("CSEL",  <<R(0), R(1), R(2), OpCond("GT")>>),
  I("CSNEG", <<R32(0), R32(1), R32(2), OpCond("MI")>>),
  I("CSNEG", <<R(0), R(1), R(2), OpCond("EQ")>>) >>

Branches == <<
  I("B",    <<OpLabel(8)>>),
  I("BL",   <<OpLabel(-8)>>),
  I("BR",   <<R(1)>>),
  I("BLR",  <<R(2)>>),
  I("BLR",  <<R(30)>>),
  I("RET",  <<>>),
  I("RET",  <<R(1)>>),
  I("CBZ",  <<R32(1), OpLabel(8)>>),
  I("CBNZ", <<R(1), OpLabel(8)>>),
  I("TBZ",  <<R(1), OpImm(15), OpLabel(8)>>),
  I("TBNZ", <<R32(1), OpImm(3), OpLabel(-4)>>),
  [op |-> "B_COND", ops |-> <<OpLabel(8)>>, cond |-> "LT"],
  [op |-> "B_COND", ops |-> <<OpLabel(8)>>, cond |-> "HI"] >>

Products == <<
  I("MUL",    <<R(0), R(1), R(2)>>),
  I("MADD",   <<R32(0), R32(1), R32(2), R32(0)>>),
  I("MSUB",   <<R(0), R(1), R(2), R(0)>>),
  I("MNEG",   <<R(0), R(1), R(2)>>),
  I("UMULH",  <<R(0), R(1), R(2)>>),
  I("SMULH",  <<R(0), R(1), R(2)>>),
  I("SMULL",  <<R(0), R32(1), R32(2)>>),
  I("UMULL",  <<R(0), R32(1), R32(2)>>),
  I("SMADDL", <<R(0), R32(1), R32(2), R(0)>>),
  I("UMADDL", <<R(0), R32(1), R32(2), R(0)>>),
  I("SMSUBL", <<R(0), R32(1), R32(2), R(0)>>),
  I("UMSUBL", <<R(0), R32(1), R32(2), R(0)>>) >>

Loads == <<
  I("LDR",   <<R(0), Off(8)>>),
  I("LDR",   <<R32(0), Pre(-4)>>),
  I("LDR",   <<R(1), Post(8)>>),
  I("LDR",   <<R32(0), OpMem("post", SP, 4)>>),
  I("LDR",   <<R(0), OpMemExt(X(1), W(2), Shift("UXTW", 2))>>),
  I("LDR",   <<R32(0), OpMemExt(X(1), X(2), NoShift)>>),
  I("LDR",   <<R(0), OpLabel(26)>>),
  I("LDRB",  <<R32(0), OpMemPostReg(X(1), X(2))>>),
  I("LDRH",  <<R32(0), Off(1)>>),
  I("LDRSB", <<R(0), Off(0)>>),
  I("LDRSB", <<R32(0), Post(-1)>>),
  I("LDRSH", <<R(0), Pre(2)>>),
  I("LDRSH", <<R32(0), Off(0)>>),
  I("LDRSW", <<R(0), Off(-2)>>),
  I("LDR",   <<Q(0), Post(16)>>),
  I("LDR",   <<S(1), Off(4)>>),
  I("LDP",   <<D(0), D(2), Pre(8)>>),
  I("LD1",   <<OpMulti(<<0, 1>>, 1), Off(0), OpImm(32)>>),
  I("LD1",   <<Low64(OpMulti(<<2, 0>>, 1)), Off(0), R(2)>>),
  I("LD1R",  <<OpMulti(<<1>>, 2), Off(0)>>),
  I("LD2",   <<OpMulti(<<0, 1>>, 4), Off(0), OpImm(32)>>),
  I("LDP",   <<R(0), R(1), Post(16)>>),
  I("LDP",   <<R32(0), R32(2), OpMem("pre", SP, -8)>>) >>

Stores == <<
  I("STR",   <<R(0), Pre(-8)>>),
  I("STR",   <<R32(0), Post(4)>>),
  I("STR",   <<OpReg(XZR), Off(0)>>),
  I("STRB",  <<R32(0), OpMemExt(X(1), W(2), Shift("SXTW", 0))>>),
  I("STRH",  <<R32(0), Off(-1)>>),
  I("STP",   <<R(0), R(1), Pre(-16)>>),
  I("STP",   <<R32(0), R32(1), Off(4)>>),
  I("STP",   <<R(0), R(2), OpMem("post", SP, 16)>>),
  I("STXR",  <<R32(2), R(0), OpMem("offset", X(1), 0)>>),
  I("STXR",  <<R32(2), R32(0), OpMem("offset", X(1), 0)>>),
  I("STR",   <<Q(1), Pre(-4)>>),
  I("STR",   <<S(2), Off(0)>>),
  I("STP",   <<Q(2), Q(1), Off(-16)>>),
  I("STP",   <<D(2), D(1), Post(16)>>),
  I("ST1",   <<OpMulti(<<1, 2>>, 1), Off(0)>>),
  I("ST1",   <<Low64(OpMulti(<<1, 2>>, 1)), Off(0), OpImm(16)>>),
  I("STXRB", <<R32(2), R32(0), OpMem("offset", X(1), 0)>>),
  Sys(4, 1, R(1)),
  Sys(4, 3, R(1)),
  Sys(5, 1, R(1)),
  Sys(10, 1, R(1)) >>

Lanewise == <<
  I("ADD",    <<B16(0), B16(1), B16(2)>>),
  I("ADD",    <<D2(0), D2(1), D2(2)>>),
  I("ADD",    <<Low64(H8(0)), Low64(H8(1)), Low64(H8(2))>>),
  I("SUB",    <<D(0), D(1), D(2)>>),
  I("SHL",    <<H8(0), H8(1), OpImm(3)>>),
  I("USHL",   <<S4(0), S4(1), S4(2)>>),
  I("SSHL",   <<H8(0), H8(1), H8(2)>>),
  I("CMEQ",   <<B16(0), B16(1), B16(2)>>),
  I("CMEQ",   <<H8(0), H8(1), OpImm(0)>>),
  I("CMHI",   <<H8(0), H8(1), H8(2)>>),
  I("CMHS",   <<B16(0), B16(1), B16(2)>>),
  I("CMGT",   <<S4(0), S4(1), S4(2)>>),
  I("CMGE",   <<D2(0), D2(1), D2(2)>>),
  I("CMTST",  <<B16(0), B16(1), B16(2)>>),
  I("MOV",    <<B16(0), B16(1)>>),
  I("MOVI",   <<S4(0), OpImm(37)>>),
  I("MVNI",   <<H8(0), OpImm(5)>>),
  I("DUP",    <<H8(0), R32(1)>>),
  I("USHR",   <<S4(0), S4(1), OpImm(5)>>),
  I("SSHR",   <<S4(0), S4(1), OpImm(3)>>),
  I("ORR",    <<B16(0), B16(1), B16(2)>>),
  I("AND",    <<B16(0), B16(1), B16(2)>>),
  I("EOR",    <<B16(0), B16(1), B16(2)>>),
  I("BIT",    <<B16(0), B16(1), B16(2)>>),
  I("BIF",    <<B16(0), B16(1), B16(2)>>),
  I("BSL",    <<B16(0), B16(1), B16(2)>>),
  I("REV16",  <<B16(0), B16(1)>>),
  I("REV32",  <<B16(0), B16(1)>>),
  I("REV64",  <<B16(0), B16(1)>>),
  I("RBIT",   <<B16(0), B16(1)>>),
  I("CNT",    <<B16(0), B16(1)>>),
  I("EXT",    <<B16(0), B16(1), B16(2), OpImm(5)>>),
  I("ADDP",   <<D2(0), D2(1), D2(2)>>),
  I("ADDP",   <<H8(0), H8(1), H8(2)>>),
  I("UMAXP",  <<B16(0), B16(1), B16(2)>>),
  I("SMINP",  <<H8(0), H8(1), H8(2)>>),
  I("SMAXP",  <<S4(0), S4(1), S4(2)>>),
  I("ADDV",   <<OpReg(VecReg(0, 1)), B16(1)>>),
  I("UADDLV", <<OpReg(VecReg(0, 2)), B16(1)>>),
  I("SADDLV", <<OpReg(VecReg(0, 4)), H8(1)>>),
  I("UMINV",  <<OpReg(VecReg(0, 1)), B16(1)>>),
  I("SMAXV",  <<OpReg(VecReg(0, 2)), H8(1)>>),
  I("ZIP1",   <<S4(0), S4(1), S4(2)>>),
  I("ZIP2",   <<S4(0), S4(1), S4(2)>>),
  I("SHRN",   <<Low64(B16(0)), H8(1), OpImm(1)>>),
  I("SHRN2",  <<H8(0), S4(1), OpImm(3)>>),
  I("XTN",    <<Low64(H8(0)), S4(1)>>),
  I("SXTL",   <<S4(0), Low64(H8(1))>>),
  I("UXTL",   <<S4(0), Low64(H8(1))>>),
  I("UMOV",   <<R(0), OpLane(1, 8, 1)>>),
  I("FMOV",   <<D(0), R(1)>>) >>

Others == << I("SVC", <<OpImm(0)>>), I("UNDECODED", <<>>), I("UNDECODED_SYSTEM", <<>>), I("UNIMPLEMENTED", <<>>) >>

DataTable == Arithmetic \o Bits \o Division \o Selection \o Branches
RegisterTable == DataTable \o Products \o Lanewise
MemoryTable == Loads \o Stores \o Others
Table == RegisterTable \o MemoryTable

(* An instruction's word is its position; the others do not decode.        *)
MCDecode ==
  [word \in 0 .. 2^WBits - 1 |-> IF word \in DOMAIN Table THEN Table[word] ELSE I("UNDECODED", <<>>)]

Entry == 16

(* Two ranges of data, with a gap of three bytes between them. *)
Data == 40 .. 57 \cup 61 .. 95

WordAt(w) == [b \in Entry .. Entry + 3 |-> ToBytes(w, 4)[b - Entry]]

DataImages == {WordAt(w) : w \in DOMAIN RegisterTable}

MemoryImages ==
  {[b \in Entry .. Entry + 3 \cup Data |->
      IF b \in Data THEN (b * b + b \div 4 + b \div 8 + k) % 4 ELSE WordAt(w)[b]] :
     w \in Len(RegisterTable) + 1 .. Len(Table), k \in {0, 2}}

MCImages == DataImages \cup MemoryImages

SystemImages == {image \in MemoryImages : MCDecode[FromBytes([j \in 0 .. 3 |-> image[Entry + j]])].op = "SYS"}

(* Around 0, the top and the sign of every width, and two mixed patterns.  *)
Edges == {0, 2^HBits, 2^WBits, 2^XBits, 2^(WBits - 1), 2^(XBits - 1)}
Values == {v \in UNION {{e - 1, e, e + 1} : e \in Edges} : v \in XWord} \cup {23210, 41715}

(* Vectors: mixed lanes, small amounts to shift by, and extremes. *)
Patterns ==
  {[j \in VBytes |-> (j * j + j \div 4) % 4], [j \in VBytes |-> (3 * j + j \div 2) % 4],
   [j \in VBytes |-> IF j % 2 = 0 THEN 3 ELSE 0], [j \in VBytes |-> IF j % 4 = 0 THEN 2 ELSE 0],
   [j \in VBytes |-> 3], Zeros}

Context(x0, x1, x2, sp, flags) ==
  [v |-> [n \in VRegs |-> [j \in VBytes |-> (j + n) % 4]],
   x |-> [n \in Regs |-> CASE n = 1 -> x1 [] n = 2 -> x2 [] OTHER -> x0], sp |-> sp,
   pc |-> Entry, nzcv |-> flags, tpidr_el0 |-> 0, exited |-> FALSE, exit_code |-> 0]

DataContexts ==
  {Context(c, a, b, a, f) :
     a \in Values, b \in Values, c \in {0, 2^XBits - 1},
     f \in {SubFlags(Half(XBits), 0, 1), SubFlags(Half(XBits), 2^(XBits - 1), 1)}}

(* An unsigned product stays below 2^31 when one factor does below 2^15. *)
ProductContexts ==
  {Context(c, a, b, 0, AddFlags(Half(XBits), 0, 0)) :
     a \in Values, b \in {v \in Values : v < 2^15}, c \in {0, 127, 2^15, 2^16 - 1}}

SignedProductContexts ==
  {Context(c, a, b, 0, AddFlags(Half(XBits), 0, 0)) :
     a \in Values, b \in Values, c \in {0, 127, 2^15, 2^16 - 1}}

MemoryContexts ==
  {Context(v, base, index, base, AddFlags(Half(XBits), 0, v)) :
     base \in 36 .. 97 \cup {0, 2^XBits - 1, 2^(XBits - 1)}, index \in {0, 1, 2^XBits - 1}, v \in {23210, 41715}}

VectorContexts ==
  {[Context(0, 41715, 2, 0, AddFlags(Half(XBits), 0, 0)) EXCEPT !.v[1] = a, !.v[2] = b] :
     a \in Patterns, b \in Patterns}

MCContexts(image) ==
  LET i == MCDecode[FromBytes([j \in 0 .. 3 |-> image[Entry + j]])]
  IN  CASE i \in Range(DataTable) -> DataContexts
        [] i \in Range(Products) /\ i.op \in {"MUL", "UMULH", "MNEG", "MSUB"} -> ProductContexts
        [] i \in Range(Products) /\ i.op \notin {"MUL", "UMULH", "MNEG", "MSUB"} -> SignedProductContexts
        [] i \in Range(Lanewise) -> VectorContexts
        [] i \in Range(MemoryTable) -> MemoryContexts

=============================================================================
