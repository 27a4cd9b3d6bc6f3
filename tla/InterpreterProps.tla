--------------------------- MODULE InterpreterProps ---------------------------
(***************************************************************************)
(* What the interpreter's steps guarantee.  The reference definitions      *)
(* follow the AArch64 manual bit by bit or over the integers, not the      *)
(* word arithmetic of the code.                                            *)
(***************************************************************************)
EXTENDS Interpreter

TypeOK ==
  /\ ctx \in CpuContext
  /\ \A b \in DOMAIN mem : mem[b] \in 0 .. 2^ByteBits - 1
  /\ ret \in {"ok", "stopped", "err", "panic"}

Completed(ops) == Executes(ops) /\ ret' = "ok"

(* After a comparison every condition answers the relation it is named     *)
(* for, at the width of the operands, and after a flag-setting addition C, *)
(* V, Z and LT describe the unsigned and the signed sum (the ADDS, SUBS,   *)
(* NEGS and CCMP arms).                                                    *)
InputOf(k, n) == Low(get_operand_val(Source(Inst, k), ctx), n)

ComparisonsDecide ==
  [][/\ Completed({"CMP", "SUBS", "CMN", "ADDS"}) =>
          LET n == OperandWidth(Source(Inst, 1))
              a == InputOf(1, n)
              b == InputOf(2, n)
          IN  IF Inst.op \in {"CMP", "SUBS"} THEN Compares(Half(n), a, b, ctx'.nzcv)
              ELSE Sums(Half(n), a, b, ctx'.nzcv)
     /\ Completed({"NEGS"}) =>
          LET n == Width(Rd(Inst)) IN Compares(Half(n), 0, Low(Target(2), n), ctx'.nzcv)
     /\ Completed(CompareIfOps) /\ Cond(Inst.ops[4].cond, ctx.nzcv) =>
          LET n == OperandWidth(Inst.ops[1])
              p == Low(Target(1), n)
              q == Low(Target(2), n)
          IN  IF Inst.op = "CCMP" THEN Compares(Half(n), p, q, ctx'.nzcv)
              ELSE Sums(Half(n), p, q, ctx'.nzcv)]_vars

ExtendedBytes(op) == CASE op = "SXTB" -> 1 [] op = "SXTH" -> 2 [] op = "SXTW" -> 4

(* The bit the manual puts at position k of the n-bit destination, given   *)
(* the bits of the sources.                                                *)
ExpectedBit(i, k, n) ==
  LET src(j) == Bit(get_operand_val(i.ops[2], ctx), j)
      snd(j) == Bit(get_operand_val(i.ops[3], ctx), j)
      p == get_operand_val(i.ops[3], ctx)
      q == get_operand_val(i.ops[4], ctx)
      Extracted(lsb, width, top) == IF k < width THEN src(k + lsb) ELSE top
      Inserted(lsb, width, top) ==
        IF k < lsb THEN 0 ELSE IF k < lsb + width THEN src(k - lsb) ELSE top
      Swapped(bytes) ==
        LET byte == k \div ByteBits
            group == byte - (byte % bytes)
        IN  src(ByteBits * (2 * group + bytes - 1 - byte) + (k % ByteBits))
  IN  CASE i.op = "UBFX" -> Extracted(p, q, 0)
        [] i.op = "SBFX" -> Extracted(p, q, src(p + q - 1))
        [] i.op = "UBFM" /\ q >= p -> Extracted(p, q - p + 1, 0)
        [] i.op = "SBFM" /\ q >= p -> Extracted(p, q - p + 1, src(q))
        [] i.op = "UBFM" /\ q < p -> IF k \in n - p .. n - p + q THEN src(k - (n - p)) ELSE 0
        [] i.op = "UBFIZ" -> Inserted(p, q, 0)
        [] i.op = "SBFIZ" -> Inserted(p, q, src(q - 1))
        [] i.op = "REV" -> Swapped(n \div ByteBits)
        [] i.op = "REV16" -> Swapped(2)
        [] i.op = "REV32" -> Swapped(4)
        [] i.op = "RBIT" -> src(n - 1 - k)
        [] i.op = "LSL" -> LET a == p % n IN IF k >= a THEN src(k - a) ELSE 0
        [] i.op = "LSR" -> LET a == p % n IN IF k + a < n THEN src(k + a) ELSE 0
        [] i.op = "ASR" -> LET a == p % n IN IF k + a < n THEN src(k + a) ELSE src(n - 1)
        [] i.op = "ROR" -> src((k + p) % n)
        [] i.op = "EXTR" -> IF k + q < n THEN snd(k + q) ELSE src(k + q - n)
        [] i.op = "MOVK" -> LET s == i.ops[2].shift.amt
                            IN  IF k \in s .. s + HBits - 1 THEN Bit(i.ops[2].val, k - s)
                                ELSE Bit(get_reg_val(Rd(i), ctx), k)
        [] i.op \in {"MOVZ", "MOVN"} ->
             LET set == IF k < HBits THEN Bit(i.ops[2].val, k) ELSE 0
             IN  IF i.op = "MOVZ" THEN set ELSE 1 - set
        [] i.op \in {"AND", "ANDS"} -> src(k) * snd(k)
        [] i.op = "ORR" -> IF src(k) = 1 THEN 1 ELSE snd(k)
        [] i.op = "EOR" -> (src(k) + snd(k)) % 2
        [] i.op = "BIC" -> src(k) * (1 - snd(k))
        [] i.op = "MVN" -> 1 - src(k)
        [] i.op \in {"SXTB", "SXTH", "SXTW"} ->
             src(IF k < ByteBits * ExtendedBytes(i.op) THEN k ELSE ByteBits * ExtendedBytes(i.op) - 1)

BitwiseOps == {"UBFX", "SBFX", "UBFM", "SBFM", "UBFIZ", "SBFIZ", "REV", "REV16", "REV32", "RBIT",
               "LSL", "LSR", "ASR", "ROR", "EXTR", "MOVK", "MOVZ", "MOVN", "AND", "ANDS", "ORR",
               "EOR", "BIC", "MVN", "SXTB", "SXTH", "SXTW"}

(* Forms the code reads otherwise than the manual: it takes position and   *)
(* width for immr and imms where a field inserted into zeros ends at the   *)
(* top bit (line 1648), and shifts a shifted immediate again (lines 614    *)
(* and 631).  BFM, BFI and BFXIL (line 2543), of which it reads every form *)
(* with a position above 0 otherwise, are no BitwiseOps.                   *)
ReadOtherwise(i) ==
  \/ i.op \in InsertZeroOps /\ i.ops[3].val + i.ops[4].val = Width(Rd(i))
  \/ i.op \in {"MOVZ", "MOVN"} /\ i.ops[2].shift.amt # 0

(* Bitfield moves, shifts, rotations, extensions and logic put every bit   *)
(* where the manual does, and a 32-bit destination clears the upper half   *)
(* (the UBFX to EXTR arms and set_reg_val), but for the forms named above. *)
BitsPlaced ==
  [][Completed(BitwiseOps) /\ ~OnVectors(Inst) /\ ~ReadOtherwise(Inst) /\ Rd(Inst).n \in Regs =>
       LET n == Width(Rd(Inst))
           res == ctx'.x[Rd(Inst).n]
       IN  /\ \A k \in 0 .. n - 1 : Bit(res, k) = ExpectedBit(Inst, k, n)
           /\ res < 2^n]_vars

(* The bytes a store names: its address and its width, the data register's *)
(* for STR and STP; STXR stores eight bytes whatever register it names.    *)
MemoryWriters == {"STR", "STRB", "STRH", "STP", "STXR", "STXRB", "ST1"}

Footprint(i) ==
  LET mop == i.ops[IF i.op \in {"STP", "STXR", "STXRB"} THEN 3 ELSE 2]
      bytes(reg) == IF IsVec(reg) THEN reg.vec ELSE IF reg.w THEN 4 ELSE 8
      addr == eval_mem_addr(mop, ctx).addr
      len == CASE i.op \in {"STRB", "STXRB"} -> 1
               [] i.op = "STRH" -> 2
               [] i.op = "STR" -> bytes(i.ops[1].reg)
               [] i.op = "STP" -> 2 * bytes(i.ops[1].reg)
               [] i.op = "STXR" -> 8
               [] i.op = "ST1" -> (IF i.ops[1].low THEN 8 ELSE 16) * Len(i.ops[1].regs)
  IN  addr .. addr + len - 1

(* The registers an instruction's addressing mode writes back. *)
WrittenBack(i) ==
  {op.reg.n : op \in {i.ops[k] : k \in {j \in DOMAIN i.ops :
                        i.ops[j].kind = "mem" /\ i.ops[j].mode # "offset"}}}
  \cup {op.reg.n : op \in {i.ops[k] : k \in {j \in DOMAIN i.ops :
                        i.ops[j].kind = "mempostreg"}}}

(* A step that fails leaves the guest restartable but for the base         *)
(* register: the pc stays on the instruction, no destination, flag or      *)
(* system register is written, and memory changes only in bytes of the     *)
(* store that precede one that is not mapped (eval_mem_addr runs before    *)
(* the access; STP may have stored its first half).  LD1 of several        *)
(* registers may have loaded all but its last.                             *)
FaultRight ==
  ret' = "err" =>
    /\ [ctx' EXCEPT !.x = ctx.x, !.sp = ctx.sp, !.v = ctx.v] = ctx
    /\ ctx'.v # ctx.v =>
         /\ Executes({"LD1"})
         /\ \A n \in VRegs : ctx'.v[n] # ctx.v[n] =>
              \E k \in 1 .. Len(Inst.ops[1].regs) - 1 : Inst.ops[1].regs[k] = n
    /\ \A n \in Regs : ctx'.x[n] # ctx.x[n] => Fetched /\ n \in WrittenBack(Inst)
    /\ ctx'.sp # ctx.sp => Fetched /\ SP.n \in WrittenBack(Inst)
    /\ \A b \in DOMAIN mem : mem'[b] # mem[b] =>
         /\ Executes(MemoryWriters)
         /\ b \in Footprint(Inst)
         /\ \E gap \in Footprint(Inst) \ DOMAIN mem : b < gap

FaultsPrecise == [][FaultRight]_vars

(* The aligned block a DC ZVA clears, of the address in its register.      *)
ZvaBlock ==
  LET first == ZvaBytes * (get_x(Rd(Inst).n, ctx) \div ZvaBytes)
  IN  first .. first + ZvaBytes - 1

(* Memory changes only inside the footprint of the store executed, or the  *)
(* block of a DC ZVA or of another system instruction #3, C7 of C4 or C5,  *)
(* which the mask of line 376 takes for one; a store that completes has    *)
(* put the low bytes of its register there, and a DC ZVA whose block is    *)
(* mapped has cleared it.                                                  *)
StoreRight ==
  /\ mem' # mem => Executes(MemoryWriters) \/ (Executes({"SYS"}) /\ Inst.crm \in {4, 5})
  /\ Executes(MemoryWriters) =>
       \A b \in DOMAIN mem \ Footprint(Inst) : mem'[b] = mem[b]
  /\ Completed({"STR", "STRB", "STRH"}) =>
       \A b \in Footprint(Inst) :
         LET j == b - Min(Footprint(Inst))
         IN  mem'[b] = IF IsVecOp(Inst, 1) THEN ctx.v[Rd(Inst).n][j]
                       ELSE Low(Shr(Target(1), ByteBits * j), ByteBits)
  /\ Executes({"SYS"}) =>
       /\ \A b \in DOMAIN mem \ ZvaBlock : mem'[b] = mem[b]
       /\ Inst.crm = 4 /\ Inst.op2 = 1 /\ ZvaBlock \subseteq DOMAIN mem =>
            \A b \in ZvaBlock : mem'[b] = 0

StoresConfined == [][StoreRight]_vars

(* The system instruction that clears memory is DC ZVA: SYS #3, C7, C4     *)
(* with op2 1, or with op2 0 as the comment of the arm spells its word     *)
(* (src/src/interp/mod.rs:375).                                            *)
OnlyZvaClears ==
  [][Executes({"SYS"}) /\ mem' # mem => Inst.crm = 4 /\ Inst.op2 \in {0, 1}]_vars

(* A load leaves in its register the integer its bytes stand for, signed   *)
(* for the S forms, whatever the widths of the access and the register.    *)
LoadRight ==
  Completed(LoadOps) /\ ~IsVec(Rd(Inst)) /\ Rd(Inst).n \in Regs =>
    LET len == CASE Inst.op \in {"LDRB", "LDRSB"} -> 1
                 [] Inst.op \in {"LDRH", "LDRSH"} -> 2
                 [] Inst.op = "LDRSW" -> 4
                 [] Inst.op = "LDR" -> IF Rd(Inst).w THEN 4 ELSE 8
        addr == eval_mem_addr(Inst.ops[2], ctx).addr
        val == FromBytes([j \in 0 .. len - 1 |-> mem[addr + j]])
        res == ctx'.x[Rd(Inst).n]
    IN  IF Inst.op \in {"LDRSB", "LDRSH", "LDRSW"}
        THEN Signed(res, Width(Rd(Inst))) = Signed(val, ByteBits * len)
        ELSE res = val

LoadsExtend == [][LoadRight]_vars

(* The integer the low n bits of v stand for. *)
IntegerOf(v, n, signed) == IF signed THEN Signed(v, n) ELSE Low(v, n)

(* Division is division of integers rounded towards zero, by zero gives 0, *)
(* and data processing panics over three things only: the one quotient     *)
(* that does not fit (the SDIV arm has no checked division), and, in       *)
(* builds with overflow checks, a negative number whose low 63 bits SBFIZ  *)
(* moves up by one (line 1660) and the least word where it is negated      *)
(* (lines 1147 and 1167).                                                  *)
DivisionRight ==
  /\ Completed(DivideOps) /\ ~IsVec(Rd(Inst)) /\ Rd(Inst).n \in Regs =>
       LET n == Width(Rd(Inst))
           signed == Inst.op = "SDIV"
           a == IntegerOf(Dividend(Inst, ctx), n, signed)
           b == IntegerOf(Divisor(Inst, ctx), n, signed)
           q == IntegerOf(get_reg_val(Rd(Inst), ctx'), n, signed)
           r == a - b * q
       IN  IF b = 0 THEN q = 0
           ELSE AbsOf(r) < AbsOf(b) /\ (r = 0 \/ (r < 0) = (a < 0))
  /\ ret' = "panic" /\ Executes(DataOps) =>
       \/ /\ Inst.op = "SDIV"
          /\ LET n == Width(Rd(Inst))
             IN  ~(-Signed(Dividend(Inst, ctx), n) < Half(n))
       \/ /\ Inst.op = "SBFIZ" /\ Target(3) = 1 /\ Target(4) = XBits - 1
          /\ Signed(Target(2), XBits) < 0
       \/ /\ Inst.op \in {"CSNEG", "CNEG"}
          /\ Target(IF Inst.op = "CSNEG" THEN 3 ELSE 2) = Half(XBits)

DivisionExact == [][DivisionRight]_vars

(* The wide products are the products of the integers: the high half with  *)
(* the low one, and the long forms when their sum fits (the UMULH to       *)
(* UMSUBL arms).                                                           *)
ProductRight ==
  LET signed == Inst.op \in {"SMULH", "SMULL", "SMADDL", "SMSUBL"}
      n == IF Inst.op \in {"UMULH", "SMULH"} THEN XBits ELSE WBits
      product == IntegerOf(Target(2), n, signed) * IntegerOf(Target(3), n, signed)
      addend == IntegerOf(Target(4), XBits, signed)
      res == IntegerOf(get_reg_val(Rd(Inst), ctx'), XBits, signed)
      total == CASE Inst.op \in {"SMULL", "UMULL"} -> product
                 [] Inst.op \in {"SMADDL", "UMADDL"} -> addend + product
                 [] Inst.op \in {"SMSUBL", "UMSUBL"} -> addend - product
  IN  Completed(WideOps) /\ ~IsVec(Rd(Inst)) /\ Rd(Inst).n \in Regs =>
        IF Inst.op \in {"UMULH", "SMULH"}
        THEN res * 2^XBits <= product /\ product < (res + 1) * 2^XBits
        ELSE total \in (IF signed THEN -Half(XBits) .. Half(XBits) - 1 ELSE XWord) => res = total

ProductsExact == [][ProductRight]_vars

(* The instruction after a step is the one the manual names: the target of *)
(* a branch that is taken, the next one otherwise, with the return address *)
(* in X30 after a call.  Two forms differ: BLR X30 jumps to its own return *)
(* address, as the link is written first, and RET goes to X30 whatever     *)
(* register it names.                                                      *)
Calls == {"BL", "BLR"}

Taken(i) ==
  LET tested == Low(Target(1), Width(Rd(i)))
  IN  CASE i.op \in {"B", "BR", "RET"} \cup Calls -> TRUE
        [] i.op \in {"CBZ", "CBNZ"} -> (\A k \in 0 .. XBits - 1 : Bit(tested, k) = 0) = (i.op = "CBZ")
        [] i.op \in {"TBZ", "TBNZ"} -> (Bit(tested, Target(2)) = 0) = (i.op = "TBZ")
        [] i.op = "B_COND" -> Cond(i.cond, ctx.nzcv)
        [] OTHER -> FALSE

BranchesLand ==
  [][Running /\ ret' = "ok" =>
       LET named == Target(IF Inst.op \in {"CBZ", "CBNZ"} THEN 2
                           ELSE IF Inst.op \in {"TBZ", "TBNZ"} THEN 3 ELSE 1)
       IN  /\ ctx'.pc = IF ~Taken(Inst) THEN NextPc
                        ELSE IF Inst.op = "RET" THEN ctx.x[30]
                        ELSE IF Inst.op = "BLR" /\ Rd(Inst).n = 30 THEN NextPc ELSE named
           /\ Inst.op \in Calls => ctx'.x[30] = NextPc]_vars

-----------------------------------------------------------------------------
(* Vectors. *)

(* The arrangements for which the arms give the manual's result: not those *)
(* of eight bytes of lanes, which write the upper half as well, nor a move *)
(* between vectors, which repeats its low byte, and only the lane sizes    *)
(* and shifts the arms are written for.                                    *)
AsManual(i) ==
  LET n == ByteBits * i.ops[1].es
      small(b) == Signed(b, n) > -n /\ Signed(b, n) < n
  IN  /\ ~i.ops[1].low \/ i.op = "SHRN"
      /\ i.op \in FillOps => ~IsVecOp(i, 2)
      /\ i.op \in {"USHL", "SSHL"} =>
           \A k \in 0 .. 16 \div i.ops[1].es - 1 :
             LET b == LaneAt(Vec(i, 3, ctx), k, i.ops[1].es)
             IN  small(b) /\ (i.op = "SSHL" => Signed(b, n) >= 0)
      /\ i.op \in WordShiftOps \cup ZipOps => i.ops[1].es = 4
      /\ i.op = "ADDP" => i.ops[1].es = 8
      /\ i.op \in {"SHRN", "SHRN2", "XTN"} => i.ops[2].es = (IF i.op = "XTN" THEN 4 ELSE 2 * i.ops[1].es)
      /\ i.op \in {"SXTL", "UXTL"} => i.ops[1].es = 4
      /\ i.op \notin {"XTN2", "SXTL2", "UXTL2", "ADDV"} \cup MoveLaneOps

(* What the manual says of lane k of the result, given lane a of the first *)
(* source, b of the second and r of the result, as unsigned n-bit integers.*)
LaneRight(op, a, b, r, n) ==
  LET shift == IF op = "SHL" THEN b ELSE Signed(b, n)
      Moved(top) == \A p \in 0 .. n - 1 :
                      Bit(r, p) = (IF p - shift \in 0 .. n - 1 THEN Bit(a, p - shift) ELSE top)
      Tells(holds) == r = (IF holds THEN 2^n - 1 ELSE 0)
  IN  CASE op = "ADD" -> (r - a - b) % 2^n = 0
        [] op \in {"SHL", "USHL", "SSHL"} -> Moved(0)
        [] op = "CMEQ" -> Tells(a = b)
        [] op = "CMHI" -> Tells(~(a <= b))
        [] op = "CMHS" -> Tells(~(a < b))
        [] op = "CMGT" -> Tells((a + Half(n)) % 2^n > (b + Half(n)) % 2^n)
        [] op = "CMGE" -> Tells((a + Half(n)) % 2^n >= (b + Half(n)) % 2^n)
        [] op = "CMTST" -> Tells(\E p \in 0 .. n - 1 : Bit(a, p) = 1 /\ Bit(b, p) = 1)

(* Bit p of a vector of 16 bytes. *)
VecBit(vec, p) == Bit(vec[p \div ByteBits], p % ByteBits)

(* What the manual says of bit p of the result of the arms that work bit   *)
(* by bit or move bytes.                                                   *)
ExpectedVecBit(i, p) ==
  LET d(q) == VecBit(Vec(i, 1, ctx), q)
      a(q) == VecBit(Vec(i, 2, ctx), q)
      b(q) == VecBit(Vec(i, 3, ctx), q)
      bits == 16 * ByteBits
      Mirrored(n) == a(p - (p % n) + n - ByteBits - ((p % n) - (p % ByteBits)) + (p % ByteBits))
      from == p + ByteBits * get_operand_val(i.ops[Len(i.ops)], ctx)
  IN  CASE i.op = "ORR" -> Max({a(p), b(p)})
        [] i.op = "EOR" -> (a(p) + b(p)) % 2
        [] i.op = "AND" -> Min({a(p), b(p)})
        [] i.op = "BIT" -> IF b(p) = 1 THEN a(p) ELSE d(p)
        [] i.op = "BIF" -> IF b(p) = 1 THEN d(p) ELSE a(p)
        [] i.op = "BSL" -> IF d(p) = 1 THEN a(p) ELSE b(p)
        [] i.op = "REV16" -> Mirrored(2 * ByteBits)
        [] i.op = "REV32" -> Mirrored(4 * ByteBits)
        [] i.op = "REV64" -> Mirrored(8 * ByteBits)
        [] i.op = "RBIT" -> a(p - (p % ByteBits) + ByteBits - 1 - (p % ByteBits))
        [] i.op = "EXT" -> IF from < bits THEN a(from) ELSE b(from - bits)

(* For the arrangements above every lane of the result is the manual's:    *)
(* lanes do not leak into each other, signed comparisons and extremes are  *)
(* signed, pairs come from the two sources in order, and narrowing keeps   *)
(* the half it does not write (the ADD to SXTL arms on vectors).           *)
LanesExact ==
  [][Completed(VectorOps) /\ OnVectors(Inst) /\ AsManual(Inst) =>
       LET i == Inst
           es == i.ops[1].es
           n == ByteBits * es
           count == 16 \div es
           res == ctx'.v[Rd(i).n]
           r(k) == LaneAt(res, k, es)
           a(k) == LaneAt(Vec(i, 2, ctx), k, es)
           b(k) == LaneAt(Vec(i, 3, ctx), k, es)
           joint(k) == IF k < count THEN a(k) ELSE b(k - count)
           imm == get_operand_val(i.ops[Len(i.ops)], ctx)
           key(x) == IF SignedLanes(i.op) THEN Signed(x, ByteBits * i.ops[2].es) ELSE x
           all == {key(LaneAt(Vec(i, 2, ctx), k, i.ops[2].es)) : k \in 0 .. 16 \div i.ops[2].es - 1}
       IN  CASE i.op \in LaneOps ->
                  \A k \in 0 .. count - 1 :
                    LaneRight(i.op, a(k), IF IsVecOp(i, 3) THEN b(k) ELSE imm, r(k), n)
             [] i.op \in BitOps \cup (ByteOps \ {"CNT"}) ->
                  \A p \in 0 .. 16 * ByteBits - 1 : VecBit(res, p) = ExpectedVecBit(i, p)
             [] i.op = "CNT" -> \A k \in VBytes :
                  res[k] = Cardinality({p \in 0 .. ByteBits - 1 : VecBit(Vec(i, 2, ctx), ByteBits * k + p) = 1})
             [] i.op \in FillOps -> \A k \in 0 .. count - 1 :
                  r(k) = (IF i.op = "MVNI" THEN 2^n - 1 - imm ELSE imm % 2^n)
             [] i.op \in WordShiftOps -> \A k \in 0 .. 3, p \in 0 .. WBits - 1 :
                  Bit(r(k), p) = (IF p + imm < WBits THEN Bit(a(k), p + imm)
                                  ELSE IF i.op = "SSHR" THEN Bit(a(k), WBits - 1) ELSE 0)
             [] i.op = "ADDP" -> \A k \in 0 .. count - 1 :
                  (r(k) - joint(2 * k) - joint(2 * k + 1)) % 2^n = 0
             [] i.op \in PairOps \ {"ADDP"} /\ es < 8 -> \A k \in 0 .. count - 1 :
                  LET pair == {joint(2 * k), joint(2 * k + 1)}
                  IN  /\ r(k) \in pair
                      /\ \A x \in pair : IF i.op \in MaxOps THEN key(x) <= key(r(k)) ELSE key(x) >= key(r(k))
             [] i.op \in {"UADDLV", "SADDLV"} ->
                  LET sum == LaneAt(res, 0, 8)
                  IN  (IF i.op = "SADDLV" THEN Signed(sum, XBits) ELSE sum) =
                        MapThenSumSet(LAMBDA k : key(LaneAt(Vec(i, 2, ctx), k, i.ops[2].es)),
                                      0 .. 16 \div i.ops[2].es - 1)
             [] i.op \in {"UMAXV", "UMINV", "SMAXV", "SMINV"} ->
                  key(LaneAt(res, 0, i.ops[2].es)) = (IF i.op \in MaxOps THEN Max(all) ELSE Min(all))
             [] i.op \in ZipOps -> \A k \in 0 .. 1 :
                  LET from == IF i.op = "ZIP2" THEN k + 2 ELSE k
                  IN  r(2 * k) = a(from) /\ r(2 * k + 1) = b(from)
             [] i.op \in NarrowOps -> \A k \in 0 .. 8 \div es - 1 :
                  /\ r(IF i.op = "SHRN2" THEN k + 8 \div es ELSE k) =
                       (LaneAt(Vec(i, 2, ctx), k, 2 * es) \div 2^imm) % 2^n
                  /\ IF i.op = "SHRN2" THEN r(k) = LaneAt(Vec(i, 1, ctx), k, es)
                     ELSE r(k + 8 \div es) = 0
             [] i.op = "XTN" -> \A k \in 0 .. 3 :
                  LaneAt(res, k, 2) = LaneAt(Vec(i, 2, ctx), k, 4) % 2^HBits
             [] i.op \in {"SXTL", "UXTL"} -> \A k \in 0 .. 3 :
                  LET x == LaneAt(Vec(i, 2, ctx), k, 2)
                  IN  IF i.op = "UXTL" THEN r(k) = x ELSE Signed(r(k), WBits) = Signed(x, HBits)
             [] OTHER -> TRUE]_vars

ListLoads == ListOps \ {"ST1"}
Structured == {"LD2", "LD3", "LD4"}

(* A load of vectors, in an arrangement its arm is written for: LD1R fills *)
(* whole registers and LD2 to LD4 go by words whatever the list says.      *)
LoadsVectors(i) ==
  IF i.op \in ListLoads
  THEN i.op \in Structured \cup {"LD1R"} => ~i.ops[1].low /\ (i.op \in Structured => i.ops[1].es = 4)
  ELSE IsVec(Rd(i))

(* A load of vectors leaves in each register the bytes the manual puts     *)
(* there, of consecutive, repeated or interleaved memory, the last of them *)
(* when it names a register twice, and clears the rest of a register it    *)
(* does not fill; LD2 to LD4 of memory that is not all mapped load nothing *)
(* at all and do not fail (the LDR, LDP, LD1, LD1R and LD2 to LD4 arms).   *)
VectorLoadRight ==
  Completed({"LDR", "LDP"} \cup ListLoads) /\ LoadsVectors(Inst) =>
    LET i == Inst
        mop == i.ops[IF i.op = "LDP" THEN 3 ELSE 2]
        addr == eval_mem_addr(mop, ctx).addr
        regs == IF i.op \in ListLoads THEN i.ops[1].regs
                ELSE IF i.op = "LDP" THEN <<Rd(i).n, i.ops[2].reg.n>> ELSE <<Rd(i).n>>
        size == IF i.op \in ListLoads THEN (IF i.ops[1].low THEN 8 ELSE 16) ELSE Rd(i).vec
        structured == i.op \in Structured
        place(k, j) == CASE i.op = "LD1R" -> addr + (j % i.ops[1].es)
                         [] structured -> addr + 4 * (Len(regs) * (j \div 4) + k - 1) + (j % 4)
                         [] OTHER -> Wrap(addr + size * (k - 1)) + j
        last(k) == \A m \in DOMAIN regs : regs[m] = regs[k] => m <= k
    IN  IF structured /\ ~Mapped(addr, 16 * Len(regs)) THEN ctx'.v = ctx.v
        ELSE \A k \in DOMAIN regs, j \in VBytes :
               last(k) => ctx'.v[regs[k]][j] = (IF j < size THEN mem[place(k, j)] ELSE 0)

VectorsLoaded == [][VectorLoadRight]_vars

=============================================================================
