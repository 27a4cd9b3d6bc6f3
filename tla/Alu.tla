-------------------------------- MODULE Alu --------------------------------
(***************************************************************************)
(* The data-processing arms of Interpreter::step (src/src/interp/mod.rs):  *)
(* each operator gives the context an instruction i leaves behind in ctx,  *)
(* except for the program counter.  i.op is the bad64 mnemonic, i.ops its  *)
(* operands.  The lane-wise arms are in Vectors.                           *)
(***************************************************************************)
EXTENDS Cpu, Sequences

CONSTANT PageBits          \* ADRP clears these low bits; 12 in the source

ASSUME PageBitsAssumption == PageBits \in 0 .. 8 * ByteBits

Rd(i) == i.ops[1].reg

(* The two inputs of an arithmetic or logical instruction: all operands    *)
(* are inputs of the comparing forms, and of the forms without Rd.         *)
Comparing == {"CMP", "CMN", "TST"}

Source(i, k) ==
  IF Len(i.ops) >= 3 /\ i.op \notin Comparing THEN i.ops[k + 1] ELSE i.ops[k]

(* The width of an instruction, taken from its first input. *)
OperandWidth(op) == IF IsReg(op) THEN Width(op.reg) ELSE XBits

Half(n) == 2^(n - 1)

AddSubOps == {"ADD", "ADDS", "CMN", "SUB", "SUBS", "CMP"}

AddSub(i, ctx) ==
  LET adds == i.op \in {"ADD", "ADDS", "CMN"}
      v1 == get_operand_val(Source(i, 1), ctx)
      v2 == get_operand_val(Source(i, 2), ctx)
      n  == OperandWidth(Source(i, 1))
      after == IF i.op \in Comparing THEN ctx
               ELSE set_reg_val(Rd(i), Wrap(IF adds THEN v1 + v2 ELSE v1 - v2), ctx)
      flags == IF adds THEN AddFlags(Half(n), Low(v1, n), Low(v2, n))
               ELSE SubFlags(Half(n), Low(v1, n), Low(v2, n))
  IN  IF i.op \in {"ADD", "SUB"} THEN after ELSE [after EXCEPT !.nzcv = flags]

NegOps == {"NEG", "NEGS"}

Neg(i, ctx) ==
  LET v2 == get_operand_val(i.ops[2], ctx)
      n  == Width(Rd(i))
      after == set_reg_val(Rd(i), Wrap(-v2), ctx)
  IN  IF i.op = "NEG" THEN after
      ELSE [after EXCEPT !.nzcv = SubFlags(Half(n), 0, Low(v2, n))]

MoveOps == {"MOV", "MOVK", "MOVN", "MOVZ", "ADR", "ADRP"}

(* MOVN and MOVZ shift an immediate get_operand_val has shifted already. *)
Move(i, ctx) ==
  LET val == get_operand_val(i.ops[2], ctx)
      s   == i.ops[2].shift.amt
      cur == get_reg_val(Rd(i), ctx)
      wide == Shl(Low(val, HBits), s, XBits)
  IN  set_reg_val(Rd(i),
        CASE i.op \in {"MOV", "ADR"} -> val
          [] i.op = "MOVK" -> cur - Shl(Low(Shr(cur, s), HBits), s, XBits)
                                  + Shl(Low(i.ops[2].val, HBits), s, XBits)
          [] i.op = "MOVN" -> Not(wide)
          [] i.op = "MOVZ" -> wide
          [] i.op = "ADRP" -> val - Low(val, PageBits), ctx)

MultiplyOps == {"MUL", "UMULH", "SMULH", "MADD", "MSUB", "MNEG", "SMULL", "UMULL",
                "SMADDL", "UMADDL", "SMSUBL", "UMSUBL"}

(* The factors, cut to the width the mnemonic or the destination gives, as *)
(* unsigned or signed integers.                                            *)
\* Mutant: SMULH and the long forms multiply unsigned integers.
Factor_Unsigned(i, k, ctx) ==
  LET v == get_operand_val(i.ops[k], ctx)
  IN  CASE i.op \in {"MUL", "UMULH", "SMULH"} -> v
        [] i.op \in {"MADD", "MSUB", "MNEG"} -> Low(v, Width(Rd(i)))
        [] OTHER -> Low(v, WBits)

Factor(i, k, ctx) ==
  LET v == get_operand_val(i.ops[k], ctx)
  IN  CASE i.op \in {"MUL", "UMULH"} -> v
        [] i.op = "SMULH" -> Signed(v, XBits)
        [] i.op \in {"MADD", "MSUB", "MNEG"} -> Low(v, Width(Rd(i)))
        [] i.op \in {"UMULL", "UMADDL", "UMSUBL"} -> Low(v, WBits)
        [] i.op \in {"SMULL", "SMADDL", "SMSUBL"} -> Signed(v, WBits)

Product(op, product, addend) ==
  CASE op \in {"MUL", "SMULL", "UMULL"} -> product
    [] op \in {"UMULH", "SMULH"} -> product \div 2^XBits
    [] op = "MNEG" -> -product
    [] op \in {"MADD", "SMADDL", "UMADDL"} -> addend + product
    [] op \in {"MSUB", "SMSUBL", "UMSUBL"} -> addend - product

Multiply(i, ctx) ==
  LET addend == IF Len(i.ops) >= 4 THEN get_operand_val(i.ops[4], ctx) ELSE 0
  IN  set_reg_val(Rd(i), Wrap(Product(i.op, Factor(i, 2, ctx) * Factor(i, 3, ctx), addend)), ctx)

DivideOps == {"UDIV", "SDIV"}

Dividend(i, ctx) == Low(get_operand_val(i.ops[2], ctx), Width(Rd(i)))
Divisor(i, ctx) == Low(get_operand_val(i.ops[3], ctx), Width(Rd(i)))

(* Rust panics on the one quotient that does not fit: MIN / -1. *)
DivisionPanics(i, ctx) ==
  LET n == Width(Rd(i))
  IN  /\ i.op = "SDIV"
      /\ Dividend(i, ctx) = Half(n) /\ Divisor(i, ctx) = Ones(n)

\* Mutant: the quotient is rounded down.
Divide_Floor(i, ctx) ==
  LET n == Width(Rd(i))
      d == Divisor(i, ctx)
  IN  set_reg_val(Rd(i),
        CASE d = 0 -> 0
          [] d # 0 /\ i.op = "UDIV" -> Dividend(i, ctx) \div d
          [] d # 0 /\ i.op = "SDIV" ->
               IF Signed(d, n) > 0 THEN Low(Signed(Dividend(i, ctx), n) \div Signed(d, n), n)
               ELSE Low((-Signed(Dividend(i, ctx), n)) \div (-Signed(d, n)), n), ctx)

Divide(i, ctx) ==
  LET n == Width(Rd(i))
      d == Divisor(i, ctx)
  IN  set_reg_val(Rd(i),
        CASE d = 0 -> 0
          [] d # 0 /\ i.op = "UDIV" -> Dividend(i, ctx) \div d
          [] d # 0 /\ i.op = "SDIV" ->
               Low(Quotient(Signed(Dividend(i, ctx), n), Signed(d, n)), n), ctx)

LogicOps == {"AND", "ANDS", "TST", "ORR", "ORN", "EOR", "EON", "BIC", "BICS", "MVN"}

Combined(op, v1, v2) ==
  CASE op \in {"AND", "ANDS", "TST"} -> And(v1, v2)
    [] op \in {"BIC", "BICS"} -> And(v1, Not(v2))
    [] op = "ORR" -> Or(v1, v2)
    [] op = "ORN" -> Or(v1, Not(v2))
    [] op = "EOR" -> Xor(v1, v2)
    [] op = "EON" -> Xor(v1, Not(v2))
    [] op = "MVN" -> Not(v2)

Logic(i, ctx) ==
  LET n  == IF i.op = "BICS" THEN Width(Rd(i)) ELSE OperandWidth(Source(i, 1))
      res == Combined(i.op, get_operand_val(Source(i, 1), ctx), get_operand_val(Source(i, 2), ctx))
      after == IF i.op = "TST" THEN ctx ELSE set_reg_val(Rd(i), res, ctx)
  IN  IF i.op \in {"ANDS", "TST", "BICS"}
      THEN [after EXCEPT !.nzcv = LogicFlags(Half(n), Low(res, n))]
      ELSE after

ExtendOps == {"SXTB", "SXTH", "SXTW", "UXTB", "UXTH", "UXTW"}

Extend(i, ctx) ==
  LET v == get_operand_val(i.ops[2], ctx)
  IN  set_reg_val(Rd(i),
        CASE i.op = "SXTB" -> SignExtend(v, ByteBits)
          [] i.op = "SXTH" -> SignExtend(v, HBits)
          [] i.op = "SXTW" -> SignExtend(v, WBits)
          [] i.op = "UXTB" -> Low(v, ByteBits)
          [] i.op = "UXTH" -> Low(v, HBits)
          [] i.op = "UXTW" -> Low(v, WBits), ctx)

BitfieldOps == {"UBFX", "SBFX", "UBFM", "SBFM", "BFM", "BFI", "BFXIL"}

\* Mutant: a field one bit short.
FieldBits_OneShort(width, n) == IF width >= n THEN XBits ELSE width - 1

(* The bits a mask of the given width keeps: all of them from n on. *)
FieldBits(width, n) == IF width >= n THEN XBits ELSE width

Bitfield(i, ctx) ==
  LET v1 == get_operand_val(i.ops[2], ctx)
      p  == get_operand_val(i.ops[3], ctx)
      q  == get_operand_val(i.ops[4], ctx)
      n  == Width(Rd(i))
      lsb == (p % XBits) % n
      width == q % XBits
      immr == p % n
      imms == q % n
      orig == get_reg_val(Rd(i), ctx)
      field == Shr(v1, IF i.op \in {"UBFX", "SBFX"} THEN lsb ELSE immr)
      bits == FieldBits(IF i.op \in {"UBFX", "SBFX"} THEN width ELSE imms - immr + 1, n)
      inserted == Shl(Low(v1, FieldBits(imms + 1, n)), n - immr, XBits)
      rotated == Ror(Low(v1, n), immr, n)
  IN  set_reg_val(Rd(i),
        CASE i.op = "UBFX" \/ (i.op = "UBFM" /\ imms >= immr) -> Low(field, bits)
          [] i.op = "SBFX" \/ (i.op = "SBFM" /\ imms >= immr) ->
               IF bits = 0 THEN 0 ELSE SignExtend(field, bits)
          [] i.op \in {"UBFM", "SBFM"} /\ imms < immr -> inserted
          [] i.op \in {"BFM", "BFI", "BFXIL"} ->
               orig - Low(orig, imms + 1) + Low(rotated, imms + 1), ctx)

InsertZeroOps == {"SBFIZ", "UBFIZ"}

(* The operands are a position and a width when their sum is less than the *)
(* width of the register, and immr and imms otherwise.                     *)
InsertedAt(p, q, n) == IF p + q < n THEN p ELSE (n - (p % n)) % n
InsertedWidth(p, q, n) == IF p + q < n THEN q ELSE (q % n) + 1

(* The sign of a field as wide as a word is extended by !0 << 64, which    *)
(* gives !0 in a build without overflow checks; others panic.              *)
ShiftOverflows(i, ctx) ==
  /\ i.op = "SBFIZ"
  /\ InsertedWidth(get_operand_val(i.ops[3], ctx), get_operand_val(i.ops[4], ctx), Width(Rd(i))) = XBits
  /\ Signed(get_operand_val(i.ops[2], ctx), XBits) < 0

InsertZero(i, ctx) ==
  LET v == get_operand_val(i.ops[2], ctx)
      p == get_operand_val(i.ops[3], ctx)
      q == get_operand_val(i.ops[4], ctx)
      n == Width(Rd(i))
      width == InsertedWidth(p, q, n)
      field == CASE ShiftOverflows(i, ctx) -> Ones(XBits)
                 [] width = 0 -> 0
                 [] i.op = "SBFIZ" /\ width # 0 /\ ~ShiftOverflows(i, ctx) -> SignExtend(v, width)
                 [] i.op = "UBFIZ" /\ width # 0 -> Low(v, width)
  IN  set_reg_val(Rd(i), Shl(field, InsertedAt(p, q, n), XBits), ctx)

ReverseOps == {"REV", "REV16", "REV32", "REV64", "RBIT", "CLZ"}

(* The bytes b with every group of size of them turned around. *)
TurnedAround(b, size) == [j \in DOMAIN b |-> b[(j \div size) * size + size - 1 - (j % size)]]

(* Bytes or bits turned around, and the count of leading zeros. *)
ReverseWord(i, ctx) ==
  LET n == Width(Rd(i))
      v == Low(get_operand_val(i.ops[2], ctx), n)
      Turned(size) == FromBytes(TurnedAround(ToBytes(v, 8), size))
  IN  set_reg_val(Rd(i),
        CASE i.op = "REV" -> Turned(n \div ByteBits)
          [] i.op = "REV16" -> Turned(2)
          [] i.op = "REV32" -> Turned(4)
          [] i.op = "REV64" -> Turned(8)
          [] i.op = "RBIT" -> OfDigits([k \in 0 .. n - 1 |-> Bit(v, n - 1 - k)], 1, n)
          [] i.op = "CLZ" -> Cardinality({k \in 0 .. n - 1 : v < 2^k}), ctx)

ShiftOps == {"LSL", "LSR", "ASR", "ROR", "EXTR"}

ShiftRotate(i, ctx) ==
  LET n  == Width(Rd(i))
      v1 == Low(get_operand_val(i.ops[2], ctx), n)
      p  == get_operand_val(i.ops[3], ctx)
      q  == get_operand_val(i.ops[4], ctx)
      a  == p % n
  IN  set_reg_val(Rd(i),
        CASE i.op = "LSL" /\ Len(i.ops) >= 4 -> Low(Ror(v1, a, n), (q % n) + 1)
          [] i.op = "LSL" /\ Len(i.ops) = 3 -> Shl(v1, a, n)
          [] i.op = "LSR" -> Shr(v1, a)
          [] i.op = "ASR" -> Asr(v1, a, n)
          [] i.op = "ROR" -> Ror(v1, a, n)
          [] i.op = "EXTR" -> Shr(Low(p, n), q) + Shl(v1, n - q, n), ctx)

SelectOps == {"CSEL", "CSINC", "CSINV", "CSNEG", "CINC", "CINV", "CNEG", "CSET", "CSETM"}

(* The CS forms modify their second input when the condition fails; the    *)
(* other forms modify their only one when it holds.                        *)
Select(i, ctx) ==
  LET holds == Cond(i.ops[Len(i.ops)].cond, ctx.nzcv)
      selects == i.op \in {"CSEL", "CSINC", "CSINV", "CSNEG"}
      v == get_operand_val(i.ops[IF selects THEN 3 ELSE 2], ctx)
      modified == CASE i.op \in {"CSINC", "CINC"} -> Wrap(v + 1)
                    [] i.op \in {"CSINV", "CINV"} -> Not(v)
                    [] i.op \in {"CSNEG", "CNEG"} -> Wrap(-v)
                    [] i.op = "CSEL" -> v
                    [] i.op = "CSET" -> 1
                    [] i.op = "CSETM" -> Not(0)
      plain == IF i.op \in {"CSET", "CSETM"} THEN 0 ELSE get_operand_val(i.ops[2], ctx)
  IN  set_reg_val(Rd(i), IF holds # selects THEN modified ELSE plain, ctx)

(* The least word has no negation: a build with overflow checks panics.    *)
NegationOverflows(i, ctx) ==
  /\ i.op \in {"CSNEG", "CNEG"}
  /\ Cond(i.ops[Len(i.ops)].cond, ctx.nzcv) = (i.op = "CNEG")
  /\ get_operand_val(i.ops[IF i.op = "CSNEG" THEN 3 ELSE 2], ctx) = Half(XBits)

CompareIfOps == {"CCMP", "CCMN"}

CompareIf(i, ctx) ==
  LET n  == OperandWidth(i.ops[1])
      v1 == Low(get_operand_val(i.ops[1], ctx), n)
      v2 == Low(get_operand_val(i.ops[2], ctx), n)
  IN  [ctx EXCEPT !.nzcv =
        IF ~Cond(i.ops[4].cond, ctx.nzcv) THEN ImmediateFlags(get_operand_val(i.ops[3], ctx))
        ELSE IF i.op = "CCMN" THEN AddFlags(Half(n), v1, v2) ELSE SubFlags(Half(n), v1, v2)]

SystemOps == {"MRS", "MSR"}

(* Reads of DCZID_EL0 and of any register with CNT in its name give fixed  *)
(* values, reads of others 0; writes other than to TPIDR_EL0 are ignored.  *)
System(i, ctx) ==
  IF i.op = "MSR"
  THEN IF i.ops[1].name = "TPIDR_EL0"
       THEN [ctx EXCEPT !.tpidr_el0 = get_operand_val(i.ops[2], ctx)]
       ELSE ctx
  ELSE set_reg_val(Rd(i),
         CASE i.ops[2].name = "TPIDR_EL0" -> ctx.tpidr_el0
           [] i.ops[2].name = "DCZID_EL0" -> 16
           [] i.ops[2].cnt -> Wrap(1000000000)
           [] OTHER -> 0, ctx)

NoOps == {"NOP", "BTI", "PACIASP", "AUTIASP", "PACIBSP", "AUTIBSP", "DMB", "DSB", "ISB"}

DataOps == AddSubOps \cup NegOps \cup MoveOps \cup MultiplyOps \cup DivideOps \cup LogicOps
           \cup ExtendOps \cup BitfieldOps \cup ShiftOps \cup SelectOps \cup CompareIfOps
           \cup InsertZeroOps \cup ReverseOps \cup SystemOps \cup NoOps

(* The match of step, for the arms above. *)
Execute(i, ctx) ==
  CASE i.op \in AddSubOps -> AddSub(i, ctx)
    [] i.op \in NegOps -> Neg(i, ctx)
    [] i.op \in MoveOps -> Move(i, ctx)
    [] i.op \in MultiplyOps -> Multiply(i, ctx)
    [] i.op \in DivideOps -> Divide(i, ctx)
    [] i.op \in LogicOps -> Logic(i, ctx)
    [] i.op \in ExtendOps -> Extend(i, ctx)
    [] i.op \in BitfieldOps -> Bitfield(i, ctx)
    [] i.op \in InsertZeroOps -> InsertZero(i, ctx)
    [] i.op \in ReverseOps -> ReverseWord(i, ctx)
    [] i.op \in ShiftOps -> ShiftRotate(i, ctx)
    [] i.op \in SelectOps -> Select(i, ctx)
    [] i.op \in CompareIfOps -> CompareIf(i, ctx)
    [] i.op \in SystemOps -> System(i, ctx)
    [] i.op \in NoOps -> ctx

=============================================================================
