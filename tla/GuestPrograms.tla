----------------------------- MODULE GuestPrograms -----------------------------
(***************************************************************************)
(* Small guest programs, from their first instruction to their exit, and   *)
(* how a list of programs is laid out in memory: a program starts at       *)
(* Entry, below a stack, and the word of an instruction is its place in    *)
(* the concatenation of the list.  Each takes an argument in X0.           *)
(***************************************************************************)
EXTENDS Interpreter, SequencesExt

I(op, ops) == [op |-> op, ops |-> ops]
R(k) == OpReg(X(k))
R32(k) == OpReg(W(k))
BIf(cond, to) == [op |-> "B_COND", ops |-> <<to>>, cond |-> cond]
To(n) == OpLabel(InsBytes * n)      \* n instructions ahead of this one
Nr(n) == I("MOV", <<R(8), OpImm(n)>>)
Svc == I("SVC", <<OpImm(0)>>)
Exit == <<Nr(93), Svc>>

(* 0 + 1 + ... + x, a frame of a register pair per call. *)
SumTo == << I("BL", <<To(4)>>), I("NOP", <<>>) >> \o Exit \o <<
  I("CBNZ", <<R(0), To(2)>>),
  I("RET",  <<>>),
  I("STP",  <<R(0), R(30), OpMem("pre", SP, -16)>>),
  I("SUB",  <<R(0), R(0), OpImm(1)>>),
  I("BL",   <<To(-4)>>),
  I("LDP",  <<R(1), R(30), OpMem("post", SP, 16)>>),
  I("ADD",  <<R(0), R(0), R(1)>>),
  I("RET",  <<>>) >>

(* The greatest common divisor of x + 1 and 6, by subtraction. *)
Gcd == <<
  I("ADD",  <<R(0), R(0), OpImm(1)>>),
  I("MOVZ", <<R(1), OpImm(6)>>),
  I("CMP",  <<R(0), R(1)>>),
  BIf("EQ", To(6)),
  BIf("LO", To(3)),
  I("SUB",  <<R(0), R(0), R(1)>>),
  I("B",    <<To(-4)>>),
  I("SUB",  <<R(1), R(1), R(0)>>),
  I("B",    <<To(-6)>>) >> \o Exit

(* The bits set in x, counted by a routine called through a register. *)
PopCount == <<
  I("MOV",  <<R(1), R32(31)>>),
  I("ADR",  <<R(2), To(9)>>),
  I("CBZ",  <<R(0), To(5)>>),
  I("TBZ",  <<R(0), OpImm(0), To(2)>>),
  I("BLR",  <<R(2)>>),
  I("LSR",  <<R(0), R(0), OpImm(1)>>),
  I("B",    <<To(-4)>>),
  I("MOV",  <<R(0), R(1)>>) >> \o Exit \o <<
  I("CINC", <<R(1), R(1), OpCond("AL")>>),
  I("BR",   <<R(30)>>) >>

(* x + 5, through the thread pointer: set by a call, read, changed, and    *)
(* kept over a call without an arm, which returns 0.                       *)
Thread == <<
  Nr(169), Svc,
  I("ADD", <<R(1), R(0), OpImm(5)>>),
  I("MRS", <<R(2), OpSys("TPIDR_EL0")>>),
  I("ADD", <<R(2), R(2), R(1)>>),
  I("MSR", <<OpSys("TPIDR_EL0"), R(2)>>),
  I("UNDECODED_SYSTEM", <<>>),
  Nr(70), Svc,
  I("MRS", <<R(1), OpSys("TPIDR_EL0")>>),
  I("ADD", <<R(0), R(0), R(1)>>) >> \o Exit

(* How many of the first x + 1 bytes of the program are 1 or more. *)
Walk == <<
  I("ADD",  <<R(0), R(0), OpImm(1)>>),
  I("ADR",  <<R(1), To(-1)>>),
  I("MOVZ", <<R(2), OpImm(0)>>),
  I("LDRB", <<R32(30), OpMem("post", X(1), 1)>>),
  I("CMP",  <<R32(30), OpImm(1)>>),
  I("CINC", <<R(2), R(2), OpCond("HS")>>),
  I("SUBS", <<R(0), R(0), OpImm(1)>>),
  BIf("NE", To(-4)),
  I("MOV",  <<R(0), R(2)>>) >> \o Exit

(* The length of a string of x bytes, on the stack before its terminator:  *)
(* a mask of the zero bytes, a bit for each, and the zeros below the first *)
(* of them.                                                                *)
StringLength == <<
  I("MOVI", <<OpVec(0, 1), OpImm(1)>>),
  I("STR",  <<OpReg(VecReg(0, 16)), OpMem("pre", SP, -16)>>),
  I("STRB", <<OpReg(W(31)), OpMemExt(SP, X(0), NoShift)>>),
  I("LDR",  <<OpReg(VecReg(1, 16)), OpMem("post", SP, 16)>>),
  I("CMEQ", <<OpVec(1, 1), OpVec(1, 1), OpImm(0)>>),
  I("SHRN", <<OpVec64(1, 1), OpVec(1, 2), OpImm(ByteBits \div 2)>>),
  I("FMOV", <<R(1), OpReg(VecReg(1, 8))>>),
  I("RBIT", <<R(1), R(1)>>),
  I("CLZ",  <<R(1), R(1)>>),
  I("MOV",  <<R(2), OpImm(ByteBits \div 2)>>),
  I("UDIV", <<R(0), R(1), R(2)>>) >> \o Exit

(* The bits set in x, byte by byte. *)
VectorPopCount == <<
  I("FMOV",   <<OpReg(VecReg(0, 8)), R(0)>>),
  I("CNT",    <<OpVec64(0, 1), OpVec64(0, 1)>>),
  I("UADDLV", <<OpReg(VecReg(0, 2)), OpVec64(0, 1)>>),
  I("FMOV",   <<R32(0), OpReg(VecReg(0, 4))>>) >> \o Exit

(* The largest of the sixteen bytes from the program's byte x on. *)
VectorMax == <<
  I("ADR",   <<R(1), To(0)>>),
  I("LDR",   <<OpReg(VecReg(0, 16)), OpMemExt(X(1), X(0), NoShift)>>),
  I("UMAXP", <<OpVec(0, 1), OpVec(0, 1), OpVec(0, 1)>>),
  I("UMAXP", <<OpVec(0, 1), OpVec(0, 1), OpVec(0, 1)>>),
  I("UMAXP", <<OpVec(0, 1), OpVec(0, 1), OpVec(0, 1)>>),
  I("UMAXP", <<OpVec(0, 1), OpVec(0, 1), OpVec(0, 1)>>),
  I("UMOV",  <<R32(0), OpLane(0, 4, 0)>>),
  I("UXTB",  <<R32(0), R32(0)>>) >> \o Exit

(* Byte 16 + x of the program: pairs of words taken apart, put together    *)
(* and stored on the stack.                                                *)
Shuffle == <<
  I("ADR",  <<R(1), To(0)>>),
  I("LD2",  <<OpMulti(<<0, 1>>, 4), OpMem("offset", X(1), 0)>>),
  I("ZIP2", <<OpVec(2, 4), OpVec(0, 4), OpVec(1, 4)>>),
  I("ZIP1", <<OpVec(1, 4), OpVec(0, 4), OpVec(1, 4)>>),
  I("STP",  <<OpReg(VecReg(1, 16)), OpReg(VecReg(2, 16)), OpMem("pre", SP, -32)>>),
  I("ADD",  <<R(0), R(0), OpImm(16)>>),
  I("LDRB", <<R32(0), OpMemExt(SP, X(0), NoShift)>>),
  I("ADD",  <<OpReg(SP), OpReg(SP), OpImm(32)>>) >> \o Exit

-----------------------------------------------------------------------------

Entry == 16
StackTop == 256
Stack == StackTop - 64 .. StackTop - 1

(* An instruction's word is its position; the others do not decode.        *)
DecodeOf(programs) ==
  LET table == FlattenSeq(programs)
  IN  [word \in 0 .. 2^WBits - 1 |-> IF word \in DOMAIN table THEN table[word] ELSE I("UNDECODED", <<>>)]

(* The word of a program's first instruction. *)
FirstWord(programs, p) == 1 + MapThenSumSet(LAMBDA q : Len(programs[q]), 1 .. p - 1)

CodeBytes(programs, p) == Entry .. Entry + InsBytes * Len(programs[p]) - 1

ImageOf(programs, p) ==
  [b \in CodeBytes(programs, p) \cup Stack |->
     IF b \in Stack THEN 0
     ELSE LET word == FirstWord(programs, p) + (b - Entry) \div InsBytes
          IN  Low(Shr(word, ByteBits * ((b - Entry) % InsBytes)), ByteBits)]

EntryContext(arg) ==
  [x |-> [n \in Regs |-> IF n = 0 THEN arg ELSE 0], sp |-> StackTop, pc |-> Entry,
   nzcv |-> AddFlags(Half(XBits), 0, 0), tpidr_el0 |-> 0, exited |-> FALSE, exit_code |-> 0,
   v |-> [n \in VRegs |-> Zeros]]

=============================================================================
