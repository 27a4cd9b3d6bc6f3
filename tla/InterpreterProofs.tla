--------------------------- MODULE InterpreterProofs ---------------------------
(***************************************************************************)
(* Proofs about the steps of the interpreter: every arm leaves a context   *)
(* and a memory of the right type.                                         *)
(***************************************************************************)
EXTENDS InterpreterProps, ArithmeticProofs

Vector == [VBytes -> Byte]

-----------------------------------------------------------------------------
(* Registers. *)

LEMMA ContextFields ==
  ASSUME NEW c
  PROVE  c \in CpuContext <=>
           /\ c = [x |-> c.x, sp |-> c.sp, pc |-> c.pc, nzcv |-> c.nzcv, v |-> c.v,
                   tpidr_el0 |-> c.tpidr_el0, exited |-> c.exited, exit_code |-> c.exit_code]
           /\ c.x \in [Regs -> XWord] /\ c.sp \in XWord /\ c.pc \in XWord
           /\ c.nzcv \in Flags /\ c.v \in [VRegs -> Vector]
           /\ c.tpidr_el0 \in XWord /\ c.exited \in BOOLEAN /\ c.exit_code \in 0 .. 2^WBits - 1
BY DEF CpuContext, Vector, Byte

LEMMA FieldWrites ==
  ASSUME NEW c \in CpuContext, NEW w \in XWord
  PROVE  /\ [c EXCEPT !.sp = w] \in CpuContext
         /\ [c EXCEPT !.pc = w] \in CpuContext
         /\ [c EXCEPT !.tpidr_el0 = w] \in CpuContext
         /\ \A f \in Flags : [c EXCEPT !.nzcv = f] \in CpuContext
         /\ \A n : [c EXCEPT !.x[n] = w] \in CpuContext
         /\ \A n : \A vec \in Vector : [c EXCEPT !.v[n] = vec] \in CpuContext
BY DEF CpuContext, Vector, Byte

LEMMA RegisterWidth ==
  ASSUME NEW reg
  PROVE  Width(reg) \in {WBits, XBits} /\ Width(reg) \in 1 .. XBits /\ Width(reg) \in Nat \ {0}
BY Widths DEF Width

LEMMA GetX ==
  ASSUME NEW c \in CpuContext, NEW n
  PROVE  get_x(n, c) \in XWord
<1>1. 0 \in XWord
  BY Widths, PowerPositive DEF XWord
<1>2. c.x \in [Regs -> XWord]
  BY DEF CpuContext
<1> QED  BY <1>1, <1>2 DEF get_x

LEMMA SetX ==
  ASSUME NEW c \in CpuContext, NEW n, NEW w \in XWord
  PROVE  set_x(n, w, c) \in CpuContext
BY FieldWrites DEF set_x

(* The bytes of a vector that take part in integer arithmetic.             *)
LEMMA VectorName ==
  ASSUME NEW reg \in Registers, IsVec(reg)
  PROVE  /\ reg.n \in VRegs /\ Width(reg) = XBits /\ reg # SP
         /\ Min({reg.vec, 8}) \in 1 .. 8
<1>1. reg.vec \in {1, 2, 4, 8, 16} /\ reg.n \in VRegs /\ ~reg.w
  BY DEF Registers, IsVec
<1>2. Min({reg.vec, 8}) \in {reg.vec, 8} /\ Min({reg.vec, 8}) <= 8
  <2>1. {reg.vec, 8} \in SUBSET (-16 .. 16) /\ {reg.vec, 8} # {} /\ 16 \in Nat
    BY <1>1
  <2> QED  BY <2>1, Extremes
<1>3. Width(reg) = XBits /\ reg # SP
  BY <1>1 DEF Width, is_w_reg, SP, X
<1> QED  BY <1>1, <1>2, <1>3

LEMMA GetReg ==
  ASSUME NEW c \in CpuContext, NEW reg \in Registers
  PROVE  /\ get_reg_val(reg, c) \in 0 .. 2^Width(reg) - 1
         /\ get_reg_val(reg, c) \in XWord
<1>1. CASE reg = SP
  <2>1. Width(reg) = XBits /\ c.sp \in XWord
    BY <1>1 DEF Width, is_w_reg, SP, X, CpuContext
  <2> QED  BY <1>1, <2>1 DEF get_reg_val, XWord
<1>2. CASE reg # SP /\ IsVec(reg)
  <2> DEFINE k == Min({reg.vec, 8})
             b == [j \in 0 .. k - 1 |-> c.v[reg.n][j]]
  <2>1. k \in 1 .. 8 /\ reg.n \in VRegs /\ Width(reg) = XBits
    BY <1>2, VectorName
  <2>2. c.v[reg.n] \in Vector
    BY <2>1, ContextFields
  <2> HIDE DEF k
  <2>3. b \in [0 .. k - 1 -> Byte]
    BY <2>1, <2>2 DEF Vector, VBytes
  <2> HIDE DEF b
  <2>4. FromBytes(b) \in XWord
    <3>1. k \in 0 .. 8
      BY <2>1
    <3> QED  BY <2>3, <3>1, FromBytesWord
  <2> QED  BY <1>2, <2>1, <2>4 DEF get_reg_val, XWord, b, k
<1>3. CASE reg # SP /\ ~IsVec(reg)
  <2>1. get_reg_val(reg, c) = Low(get_x(reg.n, c), Width(reg))
    BY <1>3 DEF get_reg_val
  <2>2. get_x(reg.n, c) \in Int
    BY GetX, WordNat
  <2>3. Width(reg) \in Nat /\ Width(reg) \in 0 .. XBits
    BY RegisterWidth, Widths
  <2> QED  BY <2>1, <2>2, <2>3, LowRange, LowWord
<1> QED  BY <1>1, <1>2, <1>3

LEMMA ZeroedType ==
  ASSUME NEW D, NEW b \in [D -> Byte]
  PROVE  Zeroed(b) \in Vector
<1>1. 0 \in Byte
  BY Widths, PowerPositive DEF Byte
<1> QED  BY <1>1 DEF Zeroed, Vector

LEMMA SetReg ==
  ASSUME NEW c \in CpuContext, NEW reg \in Registers, NEW w \in XWord
  PROVE  set_reg_val(reg, w, c) \in CpuContext
<1>1. CASE reg = SP
  BY <1>1, FieldWrites DEF set_reg_val
<1>2. CASE reg # SP /\ IsVec(reg)
  <2> DEFINE k == Min({reg.vec, 8})
             b == ToBytes(w, k)
  <2>1. k \in Nat
    BY <1>2, VectorName
  <2> HIDE DEF k
  <2>2. b \in [0 .. k - 1 -> Byte]
    BY <2>1, WordNat, ToBytesType
  <2> HIDE DEF b
  <2>3. Zeroed(b) \in Vector
    BY <2>2, ZeroedType
  <2>4. [c EXCEPT !.v[reg.n] = Zeroed(b)] \in CpuContext
    BY <2>3, FieldWrites
  <2>5. set_reg_val(reg, w, c) = [c EXCEPT !.v[reg.n] = Zeroed(b)]
    BY <1>2 DEF set_reg_val, b, k
  <2> QED  BY <2>4, <2>5
<1>3. CASE reg # SP /\ ~IsVec(reg)
  <2>1. Low(w, Width(reg)) \in XWord
    BY RegisterWidth, WordNat, LowWord
  <2> QED  BY <1>3, <2>1, SetX DEF set_reg_val
<1> QED  BY <1>1, <1>2, <1>3

-----------------------------------------------------------------------------
(* Operands. *)

LEMMA ShiftedWord ==
  ASSUME NEW n \in {WBits, XBits}, NEW raw \in 0 .. 2^n - 1, NEW shift,
         shift.kind \in ShiftKinds, shift.amt \in Nat
  PROVE  Shifted(raw, shift, n) \in XWord
<1> DEFINE a == shift.amt % n
           Widened(v) == Shl(v, shift.amt % XBits, XBits)
<1>1. n \in Nat \ {0} /\ n \in 0 .. XBits /\ XBits \in Nat \ {0}
  BY Widths
<1>2. a \in 0 .. n /\ a \in Nat /\ shift.amt % XBits \in 0 .. XBits
  BY <1>1
<1>3. 2^n <= 2^XBits /\ 2^n \in Nat /\ 2^XBits \in Nat
  BY <1>1, PowerMonotone, PowerNat
<1>4. raw \in Nat /\ raw \in Int
  BY <1>3
<1>5. ASSUME NEW v \in Int PROVE Widened(v) \in XWord
  BY <1>1, <1>2, ShlWord DEF XWord
<1> HIDE DEF a
<1>6. CASE shift.kind \in {"LSL", "LSR", "ASR", "ROR"}
  <2>1. /\ Shl(raw, a, n) \in 0 .. 2^n - 1
        /\ Asr(raw, a, n) \in 0 .. 2^n - 1
        /\ Ror(raw, a, n) \in 0 .. 2^n - 1
        /\ Shr(raw, a) \in 0 .. raw
    <3>1. Shl(raw, a, n) \in 0 .. 2^n - 1
      BY <1>1, <1>2, <1>4, ShlWord
    <3>2. Asr(raw, a, n) \in 0 .. 2^n - 1
      BY <1>1, <1>2, <1>4, AsrRange
    <3>3. Ror(raw, a, n) \in 0 .. 2^n - 1
      BY <1>1, <1>2, RorRange
    <3>4. Shr(raw, a) \in 0 .. raw
      BY <1>2, <1>4, ShrNat
    <3> QED  BY <3>1, <3>2, <3>3, <3>4
  <2>2. /\ Shl(raw, a, n) \in XWord /\ Asr(raw, a, n) \in XWord
        /\ Ror(raw, a, n) \in XWord /\ Shr(raw, a) \in XWord
    BY <1>3, <1>4, <2>1 DEF XWord
  <2> QED  BY <1>6, <2>2 DEF Shifted, a
<1>7. CASE shift.kind \in {"UXTB", "UXTH", "UXTW", "UXTX", "SXTB", "SXTH", "SXTW", "SXTX"}
  <2>1. ASSUME NEW m \in Nat PROVE Low(raw, m) \in Int /\ SignExtend(raw, m) \in Int
    <3>1. Low(raw, m) \in Int
      BY <1>4, LowRange, PowerNat
    <3>2. SignExtend(raw, m) \in XWord
      BY <1>4, SignExtendWord
    <3> QED  BY <3>1, <3>2, WordNat
  <2>2. /\ Low(raw, ByteBits) \in Int /\ Low(raw, HBits) \in Int /\ Low(raw, WBits) \in Int
        /\ SignExtend(raw, ByteBits) \in Int /\ SignExtend(raw, HBits) \in Int
        /\ SignExtend(raw, WBits) \in Int
    BY <2>1, Widths
  <2>3. /\ Widened(Low(raw, ByteBits)) \in XWord /\ Widened(Low(raw, HBits)) \in XWord
        /\ Widened(Low(raw, WBits)) \in XWord /\ Widened(SignExtend(raw, ByteBits)) \in XWord
        /\ Widened(SignExtend(raw, HBits)) \in XWord
        /\ Widened(SignExtend(raw, WBits)) \in XWord /\ Widened(raw) \in XWord
    <3> HIDE DEF Widened
    <3> QED  BY <1>4, <1>5, <2>2
  <2> QED  BY <1>7, <2>3 DEF Shifted
<1> QED  BY <1>6, <1>7 DEF ShiftKinds

LEMMA ImmShiftWord ==
  ASSUME NEW v \in XWord, NEW shift, shift.amt \in Nat
  PROVE  eval_imm_shift(v, shift) \in XWord
<1> DEFINE a == shift.amt % XBits
<1>1. XBits \in Nat \ {0} /\ a \in 0 .. XBits /\ a \in Nat
  BY Widths
<1>2. v \in Nat /\ v \in 0 .. 2^XBits - 1 /\ v \in Int
  BY WordNat DEF XWord
<1> HIDE DEF a
<1>3. /\ Shl(v, a, XBits) \in XWord /\ Asr(v, a, XBits) \in XWord /\ Ror(v, a, XBits) \in XWord
  <2>1. Shl(v, a, XBits) \in XWord
    BY <1>1, <1>2, ShlWord DEF XWord
  <2>2. Asr(v, a, XBits) \in XWord
    BY <1>1, <1>2, AsrRange DEF XWord
  <2>3. Ror(v, a, XBits) \in XWord
    BY <1>1, <1>2, RorRange DEF XWord
  <2> QED  BY <2>1, <2>2, <2>3
<1>4. Shr(v, a) \in XWord
  <2>1. Shr(v, a) \in 0 .. v
    BY <1>1, <1>2, ShrNat
  <2> QED  BY <1>2, <2>1, Widths, PowerNat DEF XWord
<1> QED  BY <1>3, <1>4 DEF eval_imm_shift, a

(* An operand as step sees it: the decoder's, its label an address.        *)
IsResolved(op) == IsOperand(op) /\ (op.kind = "label" => op.val \in XWord)

LEMMA ZeroWord ==
  0 \in XWord
BY Widths, PowerPositive DEF XWord

LEMMA GeneralIsRegister ==
  GeneralRegisters \subseteq Registers
BY DEF GeneralRegisters

LEMMA OperandWord ==
  ASSUME NEW c \in CpuContext, NEW op, IsResolved(op)
  PROVE  get_operand_val(op, c) \in XWord
<1>1. CASE op.kind = "reg"
  <2>1. op.reg \in Registers
    BY <1>1 DEF IsResolved, IsOperand
  <2> QED  BY <1>1, <2>1, GetReg DEF get_operand_val
<1>2. CASE op.kind = "shiftreg"
  <2>1. /\ op.reg \in Registers /\ op.shift.kind \in ShiftKinds /\ op.shift.amt \in Nat
    BY <1>2, GeneralIsRegister DEF IsResolved, IsOperand
  <2>2. eval_shift_reg(op.reg, op.shift, c) \in XWord
    BY <2>1, GetReg, RegisterWidth, ShiftedWord DEF eval_shift_reg
  <2> QED  BY <1>2, <2>2 DEF get_operand_val
<1>3. CASE op.kind = "imm"
  <2>1. op.val \in XWord /\ op.shift.amt \in Nat
    BY <1>3 DEF IsResolved, IsOperand
  <2> QED  BY <1>3, <2>1, ImmShiftWord DEF get_operand_val
<1>4. CASE op.kind = "label"
  BY <1>4 DEF IsResolved, get_operand_val
<1>5. CASE op.kind \notin {"reg", "shiftreg", "imm", "label"}
  BY <1>5, ZeroWord DEF get_operand_val
<1> QED  BY <1>1, <1>2, <1>3, <1>4, <1>5

LEMMA OperandRegister ==
  ASSUME NEW op, IsOperand(op), IsReg(op)
  PROVE  op.reg \in Registers
BY GeneralIsRegister DEF IsOperand, IsReg

(* The address an access goes to, and the context it leaves.               *)
LEMMA AddressTyped ==
  ASSUME NEW c \in CpuContext, NEW op, IsResolved(op), op.kind \in MemoryKinds
  PROVE  /\ eval_mem_addr(op, c).addr \in XWord
         /\ eval_mem_addr(op, c).ctx \in CpuContext
<1> DEFINE base == get_reg_val(op.reg, c)
           index == get_reg_val(op.index, c)
           moved == Wrap(base + op.off)
<1>1. CASE op.kind = "label"
  <2>1. op.val \in XWord
    BY <1>1 DEF IsResolved
  <2> QED  BY <1>1, <2>1 DEF eval_mem_addr, Accessed
<1>2. CASE op.kind = "mem"
  <2>1. op.reg \in Registers /\ op.off \in Int /\ op.mode \in {"offset", "pre", "post"}
    BY <1>2, GeneralIsRegister DEF IsResolved, IsOperand, MemoryKinds
  <2>2. base \in XWord /\ moved \in XWord
    <3>1. base \in XWord /\ base \in Int
      BY <2>1, GetReg, WordNat
    <3> HIDE DEF base
    <3> QED  BY <2>1, <3>1, WrapWord
  <2>3. set_reg_val(op.reg, moved, c) \in CpuContext
    <3> HIDE DEF moved
    <3> QED  BY <2>1, <2>2, SetReg
  <2> HIDE DEF base, moved
  <2> QED  BY <1>2, <2>1, <2>2, <2>3 DEF eval_mem_addr, Accessed, base, moved
<1>3. CASE op.kind = "memext"
  <2>1. /\ op.reg \in Registers /\ op.index \in Registers
        /\ op.shift = NoShift \/ (op.shift.kind \in ShiftKinds /\ op.shift.amt \in Nat)
    BY <1>3, GeneralIsRegister DEF IsResolved, IsOperand, MemoryKinds
  <2> DEFINE off == IF op.shift = NoShift THEN index
                    ELSE Shifted(index, op.shift, Width(op.index))
  <2>2. base \in Int /\ off \in Int
    <3>1. base \in XWord /\ index \in XWord
      BY <2>1, GetReg
    <3>2. op.shift # NoShift => Shifted(index, op.shift, Width(op.index)) \in XWord
      BY <2>1, GetReg, RegisterWidth, ShiftedWord
    <3> QED  BY <3>1, <3>2, WordNat
  <2>3. Wrap(base + off) \in XWord
    <3> HIDE DEF base, off
    <3> QED  BY <2>2, WrapWord
  <2> QED  BY <1>3, <2>3 DEF eval_mem_addr, Accessed
<1>4. CASE op.kind = "mempostreg"
  <2>1. op.reg \in Registers /\ op.index \in Registers
    BY <1>4, GeneralIsRegister DEF IsResolved, IsOperand, MemoryKinds
  <2>2. base \in XWord /\ base \in Int /\ index \in Int
    BY <2>1, GetReg, WordNat
  <2>3. Wrap(base + index) \in XWord
    <3> HIDE DEF base, index
    <3> QED  BY <2>2, WrapWord
  <2>4. set_reg_val(op.reg, Wrap(base + index), c) \in CpuContext
    <3> HIDE DEF base, index
    <3> QED  BY <2>1, <2>3, SetReg
  <2> QED  BY <1>4, <2>2, <2>4 DEF eval_mem_addr, Accessed
<1> QED  BY <1>1, <1>2, <1>3, <1>4 DEF MemoryKinds

-----------------------------------------------------------------------------
(* Fetching and decoding. *)

IsResolvedInst(i) == IsInstruction(i) /\ \A k \in DOMAIN i.ops : IsResolved(i.ops[k])

HoldsBytes(m) == \A b \in DOMAIN m : m[b] \in Byte

MemoryTyped == HoldsBytes(mem)

LEMMA LoadRange ==
  ASSUME MemoryTyped, NEW addr \in Int, NEW len \in Nat, Mapped(addr, len)
  PROVE  /\ BytesAt(addr, len) \in [0 .. len - 1 -> Byte]
         /\ Load(addr, len) \in 0 .. 2^(ByteBits * len) - 1
<1>1. BytesAt(addr, len) \in [0 .. len - 1 -> Byte]
  BY DEF MemoryTyped, HoldsBytes, Mapped, BytesAt
<1> QED  BY <1>1, FromBytesRange DEF Load

LEMMA FetchedInstruction ==
  ASSUME MemoryTyped, NEW addr \in Int, Mapped(addr, InsBytes)
  PROVE  IsResolvedInst(At(addr))
<1> DEFINE word == Load(addr, InsBytes)
           i == Decode[word]
           resolved(op) == IF op.kind = "label" THEN OpLabel(Wrap(addr + op.val)) ELSE op
           g == [k \in DOMAIN i.ops |-> resolved(i.ops[k])]
<1>1. IsInstruction(i)
  <2>1. word \in 0 .. 2^WBits - 1
    <3>1. InsBytes \in Nat /\ ByteBits * InsBytes = WBits
      BY Widths DEF InsBytes
    <3> QED  BY <3>1, LoadRange
  <2> HIDE DEF word
  <2> QED  BY <2>1, DecodeAssumption
<1> HIDE DEF word
<1>2. At(addr) = [i EXCEPT !.ops = g]
  BY DEF At, word
<1>3. "ops" \in DOMAIN i /\ "op" \in DOMAIN i
  BY <1>1 DEF IsInstruction
<1> DEFINE a == At(addr)
<1>4. a.op = i.op /\ a.ops = g /\ DOMAIN a = DOMAIN i
  BY <1>2, <1>3
<1>5. ASSUME NEW k \in DOMAIN i.ops
      PROVE  /\ IsResolved(g[k])
             /\ i.ops[k].kind # "label" => g[k] = i.ops[k]
             /\ g[k].kind = i.ops[k].kind
  <2>1. IsOperand(i.ops[k])
    BY <1>1 DEF IsInstruction
  <2>2. CASE i.ops[k].kind = "label"
    <3> DEFINE w == Wrap(addr + i.ops[k].val)
    <3>1. i.ops[k].val \in Int
      BY <2>1, <2>2 DEF IsOperand
    <3>2. w \in XWord /\ w \in Int
      BY <3>1, WrapWord, WordNat
    <3>3. g[k] = OpLabel(w)
      BY <2>2
    <3> HIDE DEF w, g
    <3>4. g[k].kind = "label" /\ g[k].val = w
      BY <3>3 DEF OpLabel
    <3> QED  BY <2>2, <3>2, <3>4 DEF IsResolved, IsOperand, MemoryKinds
  <2>3. CASE i.ops[k].kind # "label"
    BY <2>1, <2>3 DEF IsResolved
  <2> QED  BY <2>2, <2>3
<1>6. DOMAIN g = DOMAIN i.ops /\ DOMAIN i.ops = 1 .. Len(i.ops) /\ Len(i.ops) \in Nat
  BY <1>1 DEF IsInstruction
<1>7. g \in Seq({g[k] : k \in DOMAIN g}) /\ Len(g) = Len(i.ops)
  <2> HIDE DEF i, resolved
  <2> QED  BY <1>6
<1> HIDE DEF g, i
<1>8. \A k \in DOMAIN g : IsOperand(g[k]) /\ IsResolved(g[k])
  BY <1>5, <1>6 DEF IsResolved
<1>9. \A k \in DOMAIN g : IsReg(i.ops[k]) \/ IsReg(g[k]) => g[k] = i.ops[k]
  BY <1>5, <1>6 DEF IsReg
<1>10. IsInstruction(a)
  <2>0. ASSUME NEW k \in 1 .. Len(i.ops)
        PROVE  /\ g[k].kind = i.ops[k].kind /\ IsReg(g[k]) = IsReg(i.ops[k])
               /\ g[k].kind # "label" => g[k] = i.ops[k]
    BY <1>5, <1>6 DEF IsReg
  <2>1. i.op \in UnaryOps \cup BinaryOps \cup TernaryOps \cup QuaternaryOps => 1 \in 1 .. Len(i.ops)
    BY <1>1, <1>6 DEF IsInstruction
  <2>2. i.op \in BinaryOps \cup TernaryOps \cup QuaternaryOps => 2 \in 1 .. Len(i.ops)
    BY <1>1, <1>6 DEF IsInstruction
  <2>3. i.op \in TernaryOps \cup QuaternaryOps => 3 \in 1 .. Len(i.ops)
    BY <1>1, <1>6 DEF IsInstruction
  <2>4. i.op \in QuaternaryOps => 4 \in 1 .. Len(i.ops)
    BY <1>1, <1>6 DEF IsInstruction
  <2>5. /\ {"op", "ops"} \subseteq DOMAIN a
        /\ a.ops \in Seq({a.ops[k] : k \in DOMAIN a.ops})
        /\ a.op \in UnaryOps => Len(a.ops) >= 1
        /\ a.op \in BinaryOps => Len(a.ops) >= 2
        /\ a.op \in TernaryOps => Len(a.ops) >= 3
        /\ a.op \in QuaternaryOps => Len(a.ops) >= 4
        /\ \A k \in DOMAIN a.ops : IsOperand(a.ops[k])
    BY <1>1, <1>3, <1>4, <1>7, <1>8 DEF IsInstruction
  <2>6. /\ a.op \in DataOps \ (Comparing \cup CompareIfOps \cup NoOps \cup {"MSR"}) => IsReg(a.ops[1])
        /\ a.op \in LoadOps \cup StoreOps \cup {"LDP", "STP", "STXR", "STXRB"} \cup MoveLaneOps => IsReg(a.ops[1])
    <3>1. /\ i.op \in DataOps \ (Comparing \cup CompareIfOps \cup NoOps \cup {"MSR"}) => i.op \in BinaryOps
          /\ i.op \in LoadOps \cup StoreOps \cup {"LDP", "STP", "STXR", "STXRB"} \cup MoveLaneOps =>
               i.op \in BinaryOps \cup TernaryOps
      BY DEF BinaryOps, TernaryOps, VectorOps
    <3>2. i.op \in BinaryOps \cup TernaryOps => IsReg(a.ops[1]) = IsReg(i.ops[1])
      BY <1>4, <2>0, <2>1
    <3> QED  BY <1>1, <1>4, <3>1, <3>2 DEF IsInstruction
  <2>7. a.op = "LDP" => IsReg(a.ops[2]) /\ a.ops[2].reg.vec = Rd(a).vec
    <3>1. i.op = "LDP" => i.op \in TernaryOps
      BY DEF TernaryOps
    <3>2. i.op = "LDP" => a.ops[2] = i.ops[2] /\ a.ops[1] = i.ops[1]
      <4>1. i.op = "LDP" => i.ops[2].kind # "label" /\ i.ops[1].kind # "label"
        BY <1>1 DEF IsInstruction, IsReg
      <4> QED  BY <1>4, <2>0, <2>1, <2>2, <3>1, <4>1
    <3> QED  BY <1>1, <1>4, <3>2 DEF IsInstruction, Rd
  <2>8. /\ a.op \in VectorOps \ (SharedOps \cup MoveLaneOps) => a.ops[1].kind = "reg"
        /\ a.op \in ListOps => a.ops[1].kind = "multireg"
    <3>1. i.op \in VectorOps \cup ListOps => i.op \in BinaryOps
      BY DEF BinaryOps
    <3>2. i.op \in VectorOps \cup ListOps => a.ops[1].kind = i.ops[1].kind
      BY <1>4, <2>0, <2>1, <3>1
    <3> QED  BY <1>1, <1>4, <3>2 DEF IsInstruction
  <2>9. /\ a.op \in ReduceOps \cup NarrowOps \cup {"UMOV", "SMOV"} => a.ops[2].kind = "reg"
        /\ a.op \in LoadOps \cup StoreOps \cup ListOps => a.ops[2].kind \in MemoryKinds
    <3>1. i.op \in ReduceOps \cup NarrowOps \cup {"UMOV", "SMOV"} \cup LoadOps \cup StoreOps \cup ListOps =>
            i.op \in BinaryOps
      BY DEF BinaryOps, VectorOps, MoveLaneOps
    <3>2. i.op \in BinaryOps => a.ops[2].kind = i.ops[2].kind
      BY <1>4, <2>0, <2>2
    <3> QED  BY <1>1, <1>4, <3>1, <3>2 DEF IsInstruction
  <2>10. a.op \in {"MOVK", "MOVN", "MOVZ"} => a.ops[2].kind = "imm" /\ a.ops[2].shift.amt + HBits <= XBits
    <3>1. i.op \in {"MOVK", "MOVN", "MOVZ"} => i.op \in BinaryOps
      BY DEF BinaryOps, DataOps, MoveOps, NoOps
    <3> QED  BY <1>1, <1>4, <2>0, <2>2, <3>1 DEF IsInstruction
  <2>11. a.op = "EXTR" => /\ a.ops[4].kind = "imm" /\ a.ops[4].shift = NoShift
                         /\ a.ops[4].val < Width(Rd(a))
    <3>1. i.op = "EXTR" => i.op \in QuaternaryOps
                          /\ i.op \in DataOps \ (Comparing \cup CompareIfOps \cup NoOps \cup {"MSR"})
      BY DEF QuaternaryOps, DataOps, ShiftOps, Comparing, CompareIfOps, NoOps
    <3>2. i.op = "EXTR" => a.ops[4] = i.ops[4] /\ a.ops[1] = i.ops[1]
      <4>1. i.op = "EXTR" => i.ops[4].kind # "label" /\ i.ops[1].kind # "label"
        BY <1>1, <3>1 DEF IsInstruction, IsReg
      <4> QED  BY <1>4, <2>0, <2>1, <2>4, <3>1, <4>1
    <3> QED  BY <1>1, <1>4, <3>2 DEF IsInstruction, Rd
  <2>12. a.op \in {"LDP", "STP", "STXR", "STXRB"} => a.ops[3].kind \in MemoryKinds
    <3>1. i.op \in {"LDP", "STP", "STXR", "STXRB"} => i.op \in TernaryOps
      BY DEF TernaryOps
    <3> QED  BY <1>1, <1>4, <2>0, <2>3, <3>1 DEF IsInstruction
  <2>13. /\ a.op \in {"B", "BL", "B_COND"} => a.ops[1].kind = "label"
         /\ a.op \in {"BR", "BLR"} => a.ops[1].kind = "reg" /\ a.ops[1].reg = X(a.ops[1].reg.n)
         /\ a.op \in {"CBZ", "CBNZ", "TBZ", "TBNZ"} => a.ops[1].kind = "reg"
         /\ a.op \in {"CBZ", "CBNZ"} => a.ops[2].kind = "label"
    <3>1. /\ i.op \in {"B", "BL", "B_COND", "BR", "BLR"} => i.op \in UnaryOps
          /\ i.op \in {"CBZ", "CBNZ"} => i.op \in BinaryOps
          /\ i.op \in {"TBZ", "TBNZ"} => i.op \in TernaryOps
      BY DEF UnaryOps, BinaryOps, TernaryOps
    <3>2. i.op \in UnaryOps \cup BinaryOps \cup TernaryOps =>
            /\ a.ops[1].kind = i.ops[1].kind
            /\ i.ops[1].kind # "label" => a.ops[1] = i.ops[1]
      BY <1>4, <2>0, <2>1
    <3>3. i.op \in {"CBZ", "CBNZ"} => a.ops[2].kind = i.ops[2].kind
      BY <1>4, <2>0, <2>2, <3>1
    <3> QED  BY <1>1, <1>4, <3>1, <3>2, <3>3 DEF IsInstruction
  <2>14. /\ a.op \in WideOps => ~Rd(a).w
         /\ a.op \in LoadOps \cup StoreOps \cup {"LDP", "STP"} => Rd(a) \notin {SP, WSP}
    <3> DEFINE ops == WideOps \cup LoadOps \cup StoreOps \cup {"LDP", "STP"}
    <3>1. /\ i.op \in WideOps => i.op \in DataOps \ (Comparing \cup CompareIfOps \cup NoOps \cup {"MSR"})
          /\ i.op \in WideOps => i.op \in BinaryOps
      BY DEF WideOps, BinaryOps, DataOps, MultiplyOps, Comparing, CompareIfOps, NoOps
    <3>2. /\ i.op \in LoadOps \cup StoreOps => i.op \in BinaryOps
          /\ i.op \in {"LDP", "STP"} => i.op \in TernaryOps
      BY DEF BinaryOps, TernaryOps
    <3>3. i.op \in ops => IsReg(i.ops[1]) /\ i.op \in BinaryOps \cup TernaryOps
      BY <1>1, <3>1, <3>2 DEF IsInstruction
    <3>4. i.op \in ops => a.ops[1] = i.ops[1]
      BY <1>4, <2>0, <2>1, <3>3 DEF IsReg
    <3> QED  BY <1>1, <1>4, <3>4 DEF IsInstruction, Rd
  <2>15. a.op \in InsertZeroOps => /\ a.ops[3].kind = "imm" /\ a.ops[3].shift = NoShift
                                  /\ a.ops[4].kind = "imm" /\ a.ops[4].shift = NoShift
                                  /\ a.ops[4].val > 0 /\ a.ops[3].val + a.ops[4].val <= Width(Rd(a))
    <3>1. i.op \in InsertZeroOps => i.op \in QuaternaryOps
                                  /\ i.op \in DataOps \ (Comparing \cup CompareIfOps \cup NoOps \cup {"MSR"})
      BY DEF InsertZeroOps, QuaternaryOps, DataOps, Comparing, CompareIfOps, NoOps
    <3>2. i.op \in InsertZeroOps => IsReg(i.ops[1]) /\ i.ops[3].kind = "imm" /\ i.ops[4].kind = "imm"
      BY <1>1, <3>1 DEF IsInstruction
    <3>3. i.op \in InsertZeroOps => a.ops[1] = i.ops[1] /\ a.ops[3] = i.ops[3] /\ a.ops[4] = i.ops[4]
      <4>1. i.op \in InsertZeroOps => 1 \in 1 .. Len(i.ops) /\ 3 \in 1 .. Len(i.ops) /\ 4 \in 1 .. Len(i.ops)
        BY <1>1, <1>6, <3>1 DEF IsInstruction
      <4> QED  BY <1>4, <2>0, <3>2, <4>1 DEF IsReg
    <3> QED  BY <1>1, <1>4, <3>3 DEF IsInstruction, Rd
  <2>16. a.op = "SYS" => /\ {"crm", "op2"} \subseteq DOMAIN a
                         /\ a.crm \in 0 .. 15 /\ a.op2 \in 0 .. 7
    <3>1. i.op = "SYS" => {"crm", "op2"} \subseteq DOMAIN i /\ i.crm \in 0 .. 15 /\ i.op2 \in 0 .. 7
      BY <1>1 DEF IsInstruction
    <3>2. {"crm", "op2"} \subseteq DOMAIN i => a.crm = i.crm /\ a.op2 = i.op2
      BY <1>2, <1>3
    <3> QED  BY <1>4, <3>1, <3>2
  <2> HIDE DEF a
  <2> QED  BY <2>5, <2>6, <2>7, <2>8, <2>9, <2>10, <2>11, <2>12, <2>13, <2>14, <2>15, <2>16
           DEF IsInstruction
<1> QED  BY <1>4, <1>8, <1>10 DEF IsResolvedInst

-----------------------------------------------------------------------------
(* The data-processing arms. *)

LEMMA Inputs ==
  ASSUME NEW c \in CpuContext, NEW i, IsResolvedInst(i)
  PROVE  /\ \A k \in 1 .. Len(i.ops) : /\ get_operand_val(i.ops[k], c) \in XWord
                                       /\ get_operand_val(i.ops[k], c) \in Nat
         /\ Len(i.ops) \in Nat
         /\ i.op \in UnaryOps => 1 \in 1 .. Len(i.ops)
         /\ i.op \in BinaryOps => 1 \in 1 .. Len(i.ops) /\ 2 \in 1 .. Len(i.ops)
         /\ i.op \in TernaryOps => 3 \in 1 .. Len(i.ops)
         /\ i.op \in QuaternaryOps => 4 \in 1 .. Len(i.ops)
<1>1. DOMAIN i.ops = 1 .. Len(i.ops) /\ Len(i.ops) \in Nat
  BY DEF IsResolvedInst, IsInstruction
<1>2. \A k \in 1 .. Len(i.ops) : IsResolved(i.ops[k])
  BY <1>1 DEF IsResolvedInst
<1>3. /\ i.op \in UnaryOps => Len(i.ops) >= 1
      /\ i.op \in BinaryOps => Len(i.ops) >= 2
      /\ i.op \in TernaryOps => Len(i.ops) >= 3
      /\ i.op \in QuaternaryOps => Len(i.ops) >= 4
  BY DEF IsResolvedInst, IsInstruction
<1> QED  BY <1>1, <1>2, <1>3, OperandWord, WordNat

LEMMA Destination ==
  ASSUME NEW i, IsResolvedInst(i),
         i.op \in DataOps \ (Comparing \cup CompareIfOps \cup NoOps \cup {"MSR"})
  PROVE  Rd(i) \in Registers /\ i.op \in BinaryOps
<1>1. i.op \in BinaryOps /\ IsReg(i.ops[1]) /\ 1 \in DOMAIN i.ops
  BY DEF IsResolvedInst, IsInstruction, BinaryOps
<1>2. IsOperand(i.ops[1])
  BY <1>1 DEF IsResolvedInst, IsInstruction
<1> QED  BY <1>1, <1>2, OperandRegister DEF Rd

LEMMA HalfNat ==
  ASSUME NEW n \in Nat \ {0}
  PROVE  Half(n) \in Nat \ {0} /\ 2 * Half(n) = 2^n
<1>1. n - 1 \in Nat /\ (n - 1) + 1 = n
  OBVIOUS
<1> QED  BY <1>1, PowerDoubles, PowerPositive DEF Half

LEMMA SourceWord ==
  ASSUME NEW c \in CpuContext, NEW i, IsResolvedInst(i), i.op \in BinaryOps, NEW k \in {1, 2}
  PROVE  get_operand_val(Source(i, k), c) \in XWord
BY Inputs DEF Source

LEMMA AddSubTyped ==
  ASSUME NEW c \in CpuContext, NEW i, IsResolvedInst(i), i.op \in AddSubOps
  PROVE  AddSub(i, c) \in CpuContext
<1> DEFINE adds == i.op \in {"ADD", "ADDS", "CMN"}
           v1 == get_operand_val(Source(i, 1), c)
           v2 == get_operand_val(Source(i, 2), c)
           n  == OperandWidth(Source(i, 1))
           w  == Wrap(IF adds THEN v1 + v2 ELSE v1 - v2)
           after == IF i.op \in Comparing THEN c ELSE set_reg_val(Rd(i), w, c)
           flags == IF adds THEN AddFlags(Half(n), Low(v1, n), Low(v2, n))
                    ELSE SubFlags(Half(n), Low(v1, n), Low(v2, n))
<1>1. i.op \in BinaryOps
  BY DEF BinaryOps, DataOps, AddSubOps, NoOps
<1>2. v1 \in Int /\ v2 \in Int
  BY <1>1, SourceWord, WordNat
<1>3. w \in XWord
  <2> HIDE DEF v1, v2
  <2> QED  BY <1>2, WrapWord
<1>4. after \in CpuContext
  <2>1. i.op \notin Comparing => Rd(i) \in Registers
    BY Destination DEF DataOps, AddSubOps, CompareIfOps, NoOps
  <2> HIDE DEF w
  <2> QED  BY <1>3, <2>1, SetReg
<1>5. flags \in Flags
  BY FlagsTyped
<1>6. AddSub(i, c) = IF i.op \in {"ADD", "SUB"} THEN after ELSE [after EXCEPT !.nzcv = flags]
  BY DEF AddSub
<1> HIDE DEF after, flags
<1>7. [after EXCEPT !.nzcv = flags] \in CpuContext
  BY <1>4, <1>5, ZeroWord, FieldWrites
<1> QED  BY <1>4, <1>6, <1>7

LEMMA NegTyped ==
  ASSUME NEW c \in CpuContext, NEW i, IsResolvedInst(i), i.op \in NegOps
  PROVE  Neg(i, c) \in CpuContext
<1> DEFINE v2 == get_operand_val(i.ops[2], c)
           n  == Width(Rd(i))
           after == set_reg_val(Rd(i), Wrap(-v2), c)
           flags == SubFlags(Half(n), 0, Low(v2, n))
<1>1. Rd(i) \in Registers /\ i.op \in BinaryOps
  BY Destination DEF DataOps, NegOps, Comparing, CompareIfOps, NoOps
<1>2. v2 \in Nat
  BY <1>1, Inputs
<1>3. after \in CpuContext
  <2>1. -v2 \in Int
    BY <1>2
  <2> HIDE DEF v2
  <2> QED  BY <1>1, <2>1, WrapWord, SetReg
<1>4. flags \in Flags
  BY FlagsTyped
<1>5. Neg(i, c) = IF i.op = "NEG" THEN after ELSE [after EXCEPT !.nzcv = flags]
  BY DEF Neg
<1> HIDE DEF after, flags
<1> QED  BY <1>3, <1>4, <1>5, ZeroWord, FieldWrites

LEMMA MoveTyped ==
  ASSUME NEW c \in CpuContext, NEW i, IsResolvedInst(i), i.op \in MoveOps
  PROVE  Move(i, c) \in CpuContext
<1> DEFINE val == get_operand_val(i.ops[2], c)
           s   == i.ops[2].shift.amt
           cur == get_reg_val(Rd(i), c)
           wide == Shl(Low(val, HBits), s, XBits)
           kept == cur - Shl(Low(Shr(cur, s), HBits), s, XBits) + Shl(Low(i.ops[2].val, HBits), s, XBits)
           res == CASE i.op \in {"MOV", "ADR"} -> val
                    [] i.op = "MOVK" -> kept
                    [] i.op = "MOVN" -> Not(wide)
                    [] i.op = "MOVZ" -> wide
                    [] i.op = "ADRP" -> val - Low(val, PageBits)
<1>1. Rd(i) \in Registers /\ i.op \in BinaryOps
  BY Destination DEF DataOps, MoveOps, Comparing, CompareIfOps, NoOps
<1>2. val \in XWord /\ val \in Nat /\ cur \in XWord
  BY <1>1, Inputs, GetReg
<1>3. res \in XWord
  <2>1. CASE i.op \in {"MOV", "ADR"}
    BY <1>2, <2>1
  <2>2. CASE i.op \in {"MOVK", "MOVN", "MOVZ"}
    <3>1. /\ i.ops[2].kind = "imm" /\ s + HBits <= XBits /\ IsOperand(i.ops[2])
      BY <1>1, <2>2, Inputs DEF IsResolvedInst, IsInstruction
    <3>2. s \in Nat /\ i.ops[2].val \in XWord
      BY <3>1 DEF IsOperand
    <3>3. HBits \in Nat /\ s \in 0 .. XBits /\ XBits \in Nat
      BY <3>1, <3>2, Widths
    <3> DEFINE u == i.ops[2].val
    <3>4. u \in Int /\ s + HBits <= XBits
      BY <3>1, <3>2, WordNat
    <3>5. wide \in XWord
      <4>1. Low(val, HBits) \in Int
        BY <1>2, <3>3, LowRange, PowerNat
      <4> HIDE DEF val, s
      <4> QED  BY <3>3, <4>1, ShlWord DEF XWord
    <3>6. kept \in XWord
      <4> HIDE DEF cur, s, u
      <4>1. cur - Shl(Low(Shr(cur, s), HBits), s, XBits) + Shl(Low(u, HBits), s, XBits) \in XWord
        BY <1>2, <3>2, <3>3, <3>4, FieldInserted
      <4> QED  BY <4>1 DEF u
    <3>7. Not(wide) \in XWord
      <4> HIDE DEF wide
      <4> QED  BY <3>5, LogicWords
    <3> HIDE DEF wide, kept, val
    <3> QED  BY <2>2, <3>5, <3>6, <3>7
  <2>3. CASE i.op = "ADRP"
    <3>1. PageBits \in Nat
      BY PageBitsAssumption, ByteBitsAssumption
    <3>2. Low(val, PageBits) \in Nat /\ Low(val, PageBits) <= val
      <4> HIDE DEF val
      <4>1. val \in Int
        BY <1>2
      <4>2. Low(val, PageBits) \in 0 .. 2^PageBits - 1 /\ 2^PageBits \in Nat
        BY <3>1, <4>1, LowRange, PowerNat
      <4>3. Low(val, PageBits) <= val
        BY <1>2, <3>1, LowAtMost
      <4> QED  BY <4>2, <4>3
    <3>3. val - Low(val, PageBits) \in XWord
      <4> HIDE DEF val
      <4> QED  BY <1>2, <3>2, Widths, PowerNat DEF XWord
    <3> HIDE DEF val
    <3> QED  BY <2>3, <3>3
  <2> QED  BY <2>1, <2>2, <2>3 DEF MoveOps
<1>4. Move(i, c) = set_reg_val(Rd(i), res, c)
  BY DEF Move
<1> HIDE DEF res
<1> QED  BY <1>1, <1>3, <1>4, SetReg

LEMMA FactorInt ==
  ASSUME NEW c \in CpuContext, NEW i, IsResolvedInst(i), i.op \in MultiplyOps,
         NEW k \in 1 .. Len(i.ops)
  PROVE  Factor(i, k, c) \in Int
<1> DEFINE v == get_operand_val(i.ops[k], c)
<1>1. v \in Int /\ v \in Nat
  BY Inputs
<1>2. Width(Rd(i)) \in Nat /\ WBits \in Nat /\ XBits \in Nat
  BY RegisterWidth, Widths
<1>3. Low(v, Width(Rd(i))) \in Nat /\ Low(v, WBits) \in Nat
  <2> HIDE DEF v
  <2> QED  BY <1>1, <1>2, LowNat
<1>4. Signed(v, XBits) \in Int /\ Signed(v, WBits) \in Int
  <2> HIDE DEF v
  <2> QED  BY <1>1, <1>2, SignedInt
<1>5. Factor(i, k, c) \in {v, Signed(v, XBits), Low(v, Width(Rd(i))), Low(v, WBits), Signed(v, WBits)}
  <2> HIDE DEF v
  <2> QED  BY DEF Factor, MultiplyOps, v
<1> HIDE DEF v
<1> QED  BY <1>1, <1>3, <1>4, <1>5

LEMMA MultiplyTyped ==
  ASSUME NEW c \in CpuContext, NEW i, IsResolvedInst(i), i.op \in MultiplyOps
  PROVE  Multiply(i, c) \in CpuContext
<1> DEFINE addend == IF Len(i.ops) >= 4 THEN get_operand_val(i.ops[4], c) ELSE 0
           x == Factor(i, 2, c)
           y == Factor(i, 3, c)
           p == Product(i.op, x * y, addend)
<1>1. Rd(i) \in Registers /\ i.op \in BinaryOps /\ i.op \in TernaryOps
  BY Destination DEF DataOps, MultiplyOps, Comparing, CompareIfOps, NoOps, TernaryOps
<1>2. x \in Int /\ y \in Int
  BY <1>1, Inputs, FactorInt
<1>3. addend \in Int
  BY Inputs
<1>4. p \in Int
  <2> DEFINE z == x * y
  <2>1. z \in Int
    <3> HIDE DEF x, y
    <3> QED  BY <1>2
  <2>2. z \div 2^XBits \in Int
    <3> HIDE DEF z
    <3> QED  BY <2>1, Widths, DivInt
  <2> HIDE DEF z, addend
  <2>3. Product(i.op, z, addend) \in {z, z \div 2^XBits, -z, addend + z, addend - z}
    BY DEF Product, MultiplyOps
  <2>4. Product(i.op, z, addend) \in Int
    BY <1>3, <2>1, <2>2, <2>3
  <2> QED  BY <2>4 DEF z
<1>5. Multiply(i, c) = set_reg_val(Rd(i), Wrap(p), c)
  BY DEF Multiply
<1> HIDE DEF p
<1> QED  BY <1>1, <1>4, <1>5, WrapWord, SetReg

LEMMA DivideTyped ==
  ASSUME NEW c \in CpuContext, NEW i, IsResolvedInst(i), i.op \in DivideOps
  PROVE  Divide(i, c) \in CpuContext
<1> DEFINE n == Width(Rd(i))
           a == Dividend(i, c)
           d == Divisor(i, c)
           q == Low(Quotient(Signed(a, n), Signed(d, n)), n)
           res == CASE d = 0 -> 0
                    [] d # 0 /\ i.op = "UDIV" -> a \div d
                    [] d # 0 /\ i.op = "SDIV" -> q
<1>1. Rd(i) \in Registers /\ i.op \in BinaryOps /\ i.op \in TernaryOps
  BY Destination DEF DataOps, DivideOps, Comparing, CompareIfOps, NoOps, TernaryOps
<1>2. n \in Nat \ {0} /\ n \in 0 .. XBits
  BY RegisterWidth
<1>3. a \in XWord /\ d \in XWord /\ d \in 0 .. 2^n - 1 /\ a \in Nat /\ d \in Nat
  <2>1. get_operand_val(i.ops[2], c) \in Int /\ get_operand_val(i.ops[3], c) \in Int
    BY <1>1, Inputs
  <2>2. n \in Nat /\ n \in 0 .. XBits
    BY <1>2
  <2>3. a \in XWord /\ d \in XWord
    BY <2>1, <2>2, LowWord DEF Dividend, Divisor
  <2>4. d \in 0 .. 2^n - 1
    BY <2>1, <2>2, LowRange DEF Divisor
  <2> QED  BY <2>3, <2>4, WordNat
<1>4. d # 0 => a \div d \in XWord
  <2> HIDE DEF a, d
  <2>1. d # 0 => a \div d \in Nat /\ a \div d <= a
    BY <1>3
  <2> QED  BY <1>3, <2>1, WordNat, Widths, PowerNat DEF XWord
<1>5. d # 0 => q \in XWord
  <2> HIDE DEF n, a, d
  <2>1. Signed(a, n) \in Int /\ Signed(d, n) \in Int
    BY <1>2, <1>3, SignedInt
  <2>2. d # 0 => Signed(d, n) # 0
    <3>1. Low(d, n) = d
      BY <1>2, <1>3, LowOfSmall
    <3>2. 2^n \in Nat
      BY <1>2, PowerNat
    <3> QED  BY <1>3, <3>1, <3>2 DEF Signed
  <2>3. d # 0 => Quotient(Signed(a, n), Signed(d, n)) \in Int
    BY <2>1, <2>2, QuotientInt
  <2> QED  BY <1>2, <2>3, LowWord
<1>6. res \in XWord
  <2> HIDE DEF n, a, d, q
  <2> QED  BY <1>4, <1>5, ZeroWord DEF DivideOps
<1>7. Divide(i, c) = set_reg_val(Rd(i), res, c)
  BY DEF Divide
<1> HIDE DEF res
<1> QED  BY <1>1, <1>6, <1>7, SetReg

LEMMA LogicTyped ==
  ASSUME NEW c \in CpuContext, NEW i, IsResolvedInst(i), i.op \in LogicOps
  PROVE  Logic(i, c) \in CpuContext
<1> DEFINE n  == IF i.op = "BICS" THEN Width(Rd(i)) ELSE OperandWidth(Source(i, 1))
           v1 == get_operand_val(Source(i, 1), c)
           v2 == get_operand_val(Source(i, 2), c)
           res == Combined(i.op, v1, v2)
           after == IF i.op = "TST" THEN c ELSE set_reg_val(Rd(i), res, c)
           flags == LogicFlags(Half(n), Low(res, n))
<1>1. i.op \in BinaryOps
  BY DEF BinaryOps, DataOps, LogicOps, NoOps
<1>2. i.op # "TST" => Rd(i) \in Registers
  BY Destination DEF DataOps, LogicOps, Comparing, CompareIfOps, NoOps
<1>3. res \in XWord
  <2>1. v1 \in XWord /\ v2 \in XWord
    BY <1>1, SourceWord
  <2> HIDE DEF v1, v2
  <2>2. Not(v2) \in XWord
    BY <2>1, LogicWords
  <2> DEFINE m == Not(v2)
  <2>3. And(v1, v2) \in XWord /\ Or(v1, v2) \in XWord /\ Xor(v1, v2) \in XWord
    BY <2>1, LogicWords
  <2>4. And(v1, m) \in XWord /\ Or(v1, m) \in XWord /\ Xor(v1, m) \in XWord
    <3> HIDE DEF m
    <3>1. m \in XWord
      BY <2>2 DEF m
    <3> QED  BY <2>1, <3>1, LogicWords
  <2> QED  BY <2>2, <2>3, <2>4 DEF Combined, LogicOps
<1>4. after \in CpuContext
  <2> HIDE DEF res
  <2> QED  BY <1>2, <1>3, SetReg
<1>5. flags \in Flags
  BY FlagsTyped
<1>6. Logic(i, c) = IF i.op \in {"ANDS", "TST", "BICS"} THEN [after EXCEPT !.nzcv = flags] ELSE after
  BY DEF Logic
<1> HIDE DEF after, flags
<1> QED  BY <1>4, <1>5, <1>6, ZeroWord, FieldWrites

LEMMA ExtendTyped ==
  ASSUME NEW c \in CpuContext, NEW i, IsResolvedInst(i), i.op \in ExtendOps
  PROVE  Extend(i, c) \in CpuContext
<1> DEFINE v == get_operand_val(i.ops[2], c)
           res == CASE i.op = "SXTB" -> SignExtend(v, ByteBits)
                    [] i.op = "SXTH" -> SignExtend(v, HBits)
                    [] i.op = "SXTW" -> SignExtend(v, WBits)
                    [] i.op = "UXTB" -> Low(v, ByteBits)
                    [] i.op = "UXTH" -> Low(v, HBits)
                    [] i.op = "UXTW" -> Low(v, WBits)
<1>1. Rd(i) \in Registers /\ i.op \in BinaryOps
  BY Destination DEF DataOps, ExtendOps, Comparing, CompareIfOps, NoOps
<1>2. v \in Int
  BY <1>1, Inputs
<1> HIDE DEF v
<1>3. /\ SignExtend(v, ByteBits) \in XWord /\ SignExtend(v, HBits) \in XWord
      /\ SignExtend(v, WBits) \in XWord
  BY <1>2, Widths, SignExtendWord
<1>4. Low(v, ByteBits) \in XWord /\ Low(v, HBits) \in XWord /\ Low(v, WBits) \in XWord
  <2>1. ByteBits \in 0 .. XBits /\ HBits \in 0 .. XBits /\ WBits \in 0 .. XBits
    BY Widths
  <2> QED  BY <1>2, <2>1, LowWord
<1>5. res \in XWord
  BY <1>3, <1>4 DEF ExtendOps
<1>6. Extend(i, c) = set_reg_val(Rd(i), res, c)
  BY DEF Extend, v
<1> HIDE DEF res
<1> QED  BY <1>1, <1>5, <1>6, SetReg

LEMMA BitfieldTyped ==
  ASSUME NEW c \in CpuContext, NEW i, IsResolvedInst(i), i.op \in BitfieldOps
  PROVE  Bitfield(i, c) \in CpuContext
<1> DEFINE v1 == get_operand_val(i.ops[2], c)
           p  == get_operand_val(i.ops[3], c)
           q  == get_operand_val(i.ops[4], c)
           n  == Width(Rd(i))
           lsb == (p % XBits) % n
           width == q % XBits
           immr == p % n
           imms == q % n
           orig == get_reg_val(Rd(i), c)
           field == Shr(v1, IF i.op \in {"UBFX", "SBFX"} THEN lsb ELSE immr)
           bits == FieldBits(IF i.op \in {"UBFX", "SBFX"} THEN width ELSE imms - immr + 1, n)
           inserted == Shl(Low(v1, FieldBits(imms + 1, n)), n - immr, XBits)
           rotated == Ror(Low(v1, n), immr, n)
           replaced == orig - Low(orig, imms + 1) + Low(rotated, imms + 1)
           res == CASE i.op = "UBFX" \/ (i.op = "UBFM" /\ imms >= immr) -> Low(field, bits)
                    [] i.op = "SBFX" \/ (i.op = "SBFM" /\ imms >= immr) ->
                         IF bits = 0 THEN 0 ELSE SignExtend(field, bits)
                    [] i.op \in {"UBFM", "SBFM"} /\ imms < immr -> inserted
                    [] i.op \in {"BFM", "BFI", "BFXIL"} -> replaced
<1>1. Rd(i) \in Registers /\ i.op \in BinaryOps /\ i.op \in QuaternaryOps
  BY Destination DEF DataOps, BitfieldOps, Comparing, CompareIfOps, NoOps, QuaternaryOps
<1>2. v1 \in Nat /\ p \in Nat /\ q \in Nat
  <2>1. {2, 3, 4} \subseteq 1 .. Len(i.ops)
    BY <1>1, Inputs
  <2> QED  BY <2>1, Inputs
<1>3. n \in Nat \ {0} /\ n \in 1 .. XBits /\ XBits \in Nat \ {0}
  BY RegisterWidth, Widths
<1>4. orig \in 0 .. 2^n - 1
  BY <1>1, GetReg
<1> HIDE DEF v1, p, q, n, orig
<1>5. lsb \in 0 .. n - 1 /\ width \in 0 .. XBits - 1 /\ immr \in 0 .. n - 1 /\ imms \in 0 .. n - 1
  <2>1. p % XBits \in Nat
    BY <1>2, <1>3
  <2> QED  BY <1>2, <1>3, <2>1
<1> HIDE DEF lsb, width, immr, imms
<1>6. field \in Int
  <2>1. lsb \in Nat /\ immr \in Nat
    BY <1>3, <1>5
  <2>2. Shr(v1, lsb) \in 0 .. v1 /\ Shr(v1, immr) \in 0 .. v1
    BY <1>2, <2>1, ShrNat
  <2> QED  BY <1>2, <2>2
<1>7. i.op \in {"UBFX", "SBFX"} \/ imms >= immr => bits \in 0 .. XBits
  BY <1>3, <1>5 DEF FieldBits
<1> HIDE DEF field, bits
<1>8. i.op \in {"UBFX", "SBFX"} \/ imms >= immr =>
        Low(field, bits) \in XWord /\ SignExtend(field, bits) \in XWord
  <2>1. ASSUME NEW b \in 0 .. XBits
        PROVE  Low(field, b) \in XWord /\ SignExtend(field, b) \in XWord
    BY <1>3, <1>6, LowWord, SignExtendWord
  <2> QED  BY <1>7, <2>1
<1>9. inserted \in XWord
  <2>1. FieldBits(imms + 1, n) \in Nat
    BY <1>3, <1>5 DEF FieldBits
  <2>2. Low(v1, FieldBits(imms + 1, n)) \in Int
    <3> DEFINE k == FieldBits(imms + 1, n)
    <3>1. v1 \in Int /\ k \in Nat
      BY <1>2, <2>1
    <3> HIDE DEF k
    <3>2. Low(v1, k) \in Nat
      BY <3>1, LowNat
    <3> QED  BY <3>2 DEF k
  <2>3. n - immr \in 0 .. XBits /\ XBits \in Nat
    BY <1>3, <1>5
  <2> QED  BY <2>2, <2>3, ShlWord DEF XWord
<1>10. replaced \in XWord
  <2> DEFINE k == imms + 1
  <2>1. k \in 0 .. n /\ n \in Nat /\ immr \in 0 .. n
    BY <1>3, <1>5
  <2>2. Low(v1, n) \in 0 .. 2^n - 1
    BY <1>2, <1>3, LowRange
  <2>3. rotated \in 0 .. 2^n - 1 /\ 2^n \in Nat
    BY <2>1, <2>2, RorRange, PowerNat
  <2> HIDE DEF rotated, k
  <2>4. orig - Low(orig, k) + Low(rotated, k) \in 0 .. 2^n - 1
    <3>1. rotated \in Int
      BY <2>3
    <3> QED  BY <1>4, <2>1, <3>1, FieldReplaced
  <2>5. 2^n <= 2^XBits /\ 2^XBits \in Nat
    <3>1. n \in 0 .. XBits
      BY <1>3
    <3> QED  BY <1>3, <3>1, PowerMonotone, PowerNat
  <2> QED  BY <2>3, <2>4, <2>5 DEF XWord, k
<1> HIDE DEF inserted, replaced
<1>11. res \in XWord
  BY <1>3, <1>5, <1>8, <1>9, <1>10, ZeroWord DEF BitfieldOps
<1>12. Bitfield(i, c) = set_reg_val(Rd(i), res, c)
  BY DEF Bitfield, v1, p, q, n, lsb, width, immr, imms, orig, field, bits, inserted, rotated, replaced
<1> HIDE DEF res
<1> QED  BY <1>1, <1>11, <1>12, SetReg

LEMMA InsertZeroTyped ==
  ASSUME NEW c \in CpuContext, NEW i, IsResolvedInst(i), i.op \in InsertZeroOps
  PROVE  InsertZero(i, c) \in CpuContext
<1> DEFINE v == get_operand_val(i.ops[2], c)
           p == get_operand_val(i.ops[3], c)
           q == get_operand_val(i.ops[4], c)
           n == Width(Rd(i))
           lsb == InsertedAt(p, q, n)
           width == InsertedWidth(p, q, n)
           field == CASE ShiftOverflows(i, c) -> Ones(XBits)
                      [] width = 0 -> 0
                      [] i.op = "SBFIZ" /\ width # 0 /\ ~ShiftOverflows(i, c) -> SignExtend(v, width)
                      [] i.op = "UBFIZ" /\ width # 0 -> Low(v, width)
           res == Shl(field, lsb, XBits)
<1>1. Rd(i) \in Registers /\ i.op \in BinaryOps /\ i.op \in QuaternaryOps
  BY Destination DEF DataOps, InsertZeroOps, Comparing, CompareIfOps, NoOps, QuaternaryOps
<1>2. v \in Nat /\ p \in Nat /\ q \in Nat
  <2>1. {2, 3, 4} \subseteq 1 .. Len(i.ops)
    BY <1>1, Inputs
  <2> QED  BY <2>1, Inputs
<1>3. n \in Nat \ {0} /\ n \in 1 .. XBits /\ XBits \in Nat
  BY RegisterWidth, Widths
<1> HIDE DEF v, p, q, n
<1>4. lsb \in 0 .. XBits /\ width \in Nat
  <2>1. n - (p % n) \in Nat /\ q % n \in Nat
    BY <1>2, <1>3
  <2>2. (n - (p % n)) % n \in 0 .. n - 1
    BY <1>3, <2>1
  <2> QED  BY <1>2, <1>3, <2>1, <2>2 DEF InsertedAt, InsertedWidth
<1> HIDE DEF lsb, width
<1>5. field \in Int
  <2>1. SignExtend(v, width) \in Nat /\ Low(v, width) \in Nat
    <3>1. v \in Int /\ width \in Nat
      BY <1>2, <1>4
    <3>2. SignExtend(v, width) \in XWord
      BY <3>1, SignExtendWord
    <3>3. Low(v, width) \in Nat
      BY <3>1, LowNat
    <3> QED  BY <3>2, <3>3, WordNat
  <2>2. Ones(XBits) \in Int
    BY <1>3, PowerNat DEF Ones
  <2> QED  BY <2>1, <2>2 DEF InsertZeroOps
<1> HIDE DEF field
<1>6. res \in XWord
  BY <1>3, <1>4, <1>5, ShlWord DEF XWord
<1>7. InsertZero(i, c) = set_reg_val(Rd(i), res, c)
  BY DEF InsertZero, v, p, q, n, lsb, width, field
<1> HIDE DEF res
<1> QED  BY <1>1, <1>6, <1>7, SetReg

LEMMA TurnedType ==
  ASSUME NEW len \in {8, 16}, NEW size \in {2, 4, 8}, NEW b \in [0 .. len - 1 -> Byte]
  PROVE  TurnedAround(b, size) \in [0 .. len - 1 -> Byte]
<1>1. ASSUME NEW j \in 0 .. len - 1
      PROVE  (j \div size) * size + size - 1 - (j % size) \in 0 .. len - 1
  <2>1. CASE size = 2
    BY <2>1
  <2>2. CASE size = 4
    BY <2>2
  <2>3. CASE size = 8
    BY <2>3
  <2> QED  BY <2>1, <2>2, <2>3
<1>2. DOMAIN b = 0 .. len - 1
  OBVIOUS
<1> QED  BY <1>1, <1>2 DEF TurnedAround

LEMMA ReverseTyped ==
  ASSUME NEW c \in CpuContext, NEW i, IsResolvedInst(i), i.op \in ReverseOps
  PROVE  ReverseWord(i, c) \in CpuContext
<1> DEFINE n == Width(Rd(i))
           v == Low(get_operand_val(i.ops[2], c), n)
           Turned(size) == FromBytes(TurnedAround(ToBytes(v, 8), size))
           mirrored == OfDigits([k \in 0 .. n - 1 |-> Bit(v, n - 1 - k)], 1, n)
           leading == Cardinality({k \in 0 .. n - 1 : v < 2^k})
           res == CASE i.op = "REV" -> Turned(n \div ByteBits)
                    [] i.op = "REV16" -> Turned(2)
                    [] i.op = "REV32" -> Turned(4)
                    [] i.op = "REV64" -> Turned(8)
                    [] i.op = "RBIT" -> mirrored
                    [] i.op = "CLZ" -> leading
<1>1. Rd(i) \in Registers /\ i.op \in BinaryOps
  BY Destination DEF DataOps, ReverseOps, Comparing, CompareIfOps, NoOps
<1>2. n \in Nat \ {0} /\ n \in 0 .. XBits /\ n \div ByteBits \in {4, 8}
  <2>1. WBits \div ByteBits = 4 /\ XBits \div ByteBits = 8
    BY ByteBitsAssumption DEF WBits, XBits
  <2> QED  BY <2>1, RegisterWidth
<1>3. v \in Nat
  <2> DEFINE w == get_operand_val(i.ops[2], c)
  <2>1. w \in Int
    BY <1>1, Inputs
  <2> HIDE DEF w, n
  <2>2. Low(w, n) \in Nat
    BY <1>2, <2>1, LowNat
  <2> QED  BY <2>2 DEF w
<1> HIDE DEF v, n
<1>4. ASSUME NEW size \in {2, 4, 8} PROVE Turned(size) \in XWord
  <2> DEFINE b == ToBytes(v, 8)
             t == TurnedAround(b, size)
  <2>1. b \in [0 .. 8 - 1 -> Byte]
    BY <1>3, ToBytesType
  <2>2. t \in [0 .. 8 - 1 -> Byte]
    <3> HIDE DEF b
    <3> QED  BY <2>1, TurnedType
  <2> HIDE DEF t, b
  <2>3. FromBytes(t) \in XWord
    BY <2>2, FromBytesWord
  <2> QED  BY <2>3 DEF t, b
<1>5. mirrored \in XWord
  <2> DEFINE d == [k \in 0 .. n - 1 |-> Bit(v, n - 1 - k)]
  <2>1. ASSUME NEW k \in 0 .. n - 1 PROVE d[k] \in 0 .. 2^1 - 1
    <3>1. n - 1 - k \in Nat
      BY <1>2
    <3>2. Bit(v, n - 1 - k) \in {0, 1}
      BY <1>3, <3>1, BitRange
    <3>3. 2^1 = 2
      OBVIOUS
    <3> QED  BY <3>2, <3>3
  <2> HIDE DEF d
  <2>2. OfDigits(d, 1, n) \in 0 .. 2^(1 * n) - 1
    BY <1>2, <2>1, OfDigitsRange
  <2>3. 1 * n = n
    BY <1>2
  <2>4. 2^n <= 2^XBits /\ 2^n \in Nat /\ 2^XBits \in Nat
    BY <1>2, Widths, PowerMonotone, PowerNat
  <2> QED  BY <2>2, <2>3, <2>4 DEF XWord, d
<1>6. leading \in XWord
  <2> DEFINE S == {k \in 0 .. n - 1 : v < 2^k}
  <2>1. S \in SUBSET (0 .. n - 1)
    OBVIOUS
  <2> HIDE DEF S
  <2> QED  BY <1>2, <2>1, CountWord DEF S
<1> HIDE DEF Turned, mirrored, leading
<1>7. res \in XWord
  BY <1>2, <1>4, <1>5, <1>6 DEF ReverseOps
<1>8. ReverseWord(i, c) = set_reg_val(Rd(i), res, c)
  BY DEF ReverseWord, v, n, Turned, mirrored, leading
<1> HIDE DEF res
<1> QED  BY <1>1, <1>7, <1>8, SetReg

LEMMA ShiftRotateTyped ==
  ASSUME NEW c \in CpuContext, NEW i, IsResolvedInst(i), i.op \in ShiftOps
  PROVE  ShiftRotate(i, c) \in CpuContext
<1> DEFINE n  == Width(Rd(i))
           w1 == get_operand_val(i.ops[2], c)
           v1 == Low(w1, n)
           p  == get_operand_val(i.ops[3], c)
           q  == get_operand_val(i.ops[4], c)
           a  == p % n
           res == CASE i.op = "LSL" /\ Len(i.ops) >= 4 -> Low(Ror(v1, a, n), (q % n) + 1)
                    [] i.op = "LSL" /\ Len(i.ops) = 3 -> Shl(v1, a, n)
                    [] i.op = "LSR" -> Shr(v1, a)
                    [] i.op = "ASR" -> Asr(v1, a, n)
                    [] i.op = "ROR" -> Ror(v1, a, n)
                    [] i.op = "EXTR" -> Shr(Low(p, n), q) + Shl(v1, n - q, n)
<1>1. /\ Rd(i) \in Registers /\ i.op \in BinaryOps /\ i.op \in TernaryOps
      /\ i.op = "EXTR" => i.op \in QuaternaryOps
  BY Destination DEF DataOps, ShiftOps, Comparing, CompareIfOps, NoOps, TernaryOps, QuaternaryOps
<1>2. /\ w1 \in Nat /\ p \in Nat /\ (Len(i.ops) >= 4 => q \in Nat) /\ Len(i.ops) \in Nat /\ Len(i.ops) >= 3
  <2>1. 2 \in 1 .. Len(i.ops) /\ 3 \in 1 .. Len(i.ops) /\ Len(i.ops) \in Nat
    BY <1>1, Inputs
  <2>2. Len(i.ops) >= 4 => 4 \in 1 .. Len(i.ops)
    BY <2>1
  <2> QED  BY <2>1, <2>2, Inputs
<1>3. n \in Nat \ {0} /\ n \in 1 .. XBits /\ XBits \in Nat
  BY RegisterWidth, Widths
<1>4. i.op = "EXTR" => q \in 0 .. n - 1 /\ Len(i.ops) >= 4
  <2>1. i.op = "EXTR" => /\ 4 \in 1 .. Len(i.ops) /\ i.ops[4].kind = "imm"
                         /\ i.ops[4].shift = NoShift /\ i.ops[4].val < Width(Rd(i))
                         /\ IsOperand(i.ops[4])
    BY <1>1, Inputs DEF IsResolvedInst, IsInstruction
  <2>2. i.op = "EXTR" => q = i.ops[4].val
    BY <2>1 DEF get_operand_val, eval_imm_shift, NoShift, Shift
  <2>3. i.op = "EXTR" => q \in Nat
    BY <2>1, Inputs
  <2> QED  BY <1>2, <1>3, <2>1, <2>2, <2>3
<1> HIDE DEF n, w1, p, q
<1>5. v1 \in 0 .. 2^n - 1 /\ v1 \in Nat
  <2>1. w1 \in Int /\ n \in Nat
    BY <1>2, <1>3
  <2> QED  BY <2>1, LowRange, LowNat
<1>6. a \in 0 .. n /\ a \in Nat
  BY <1>2, <1>3
<1> HIDE DEF v1, a
<1>7. ASSUME NEW x \in 0 .. 2^n - 1 PROVE x \in XWord
  <2>1. n \in 0 .. XBits
    BY <1>3
  <2>2. 2^n <= 2^XBits /\ 2^n \in Nat /\ 2^XBits \in Nat
    BY <1>3, <2>1, PowerMonotone, PowerNat
  <2> QED  BY <2>2 DEF XWord
<1>8. Ror(v1, a, n) \in 0 .. 2^n - 1 /\ Ror(v1, a, n) \in Nat
  BY <1>3, <1>5, <1>6, RorRange, PowerNat
<1>9. Len(i.ops) >= 4 => Low(Ror(v1, a, n), (q % n) + 1) \in XWord
  <2>1. Len(i.ops) >= 4 => (q % n) + 1 \in 0 .. XBits
    BY <1>2, <1>3
  <2>2. Ror(v1, a, n) \in Int
    BY <1>8
  <2> QED  BY <2>1, <2>2, LowWord
<1>10. Shl(v1, a, n) \in 0 .. 2^n - 1
  BY <1>3, <1>5, <1>6, ShlWord
<1>11. Shr(v1, a) \in 0 .. 2^n - 1
  <2>1. Shr(v1, a) \in 0 .. v1
    BY <1>5, <1>6, ShrNat
  <2> QED  BY <1>3, <1>5, <2>1, PowerNat
<1>12. Asr(v1, a, n) \in 0 .. 2^n - 1
  BY <1>3, <1>5, <1>6, AsrRange
<1>13. i.op = "EXTR" => Shr(Low(p, n), q) + Shl(v1, n - q, n) \in 0 .. 2^n - 1
  <2> SUFFICES ASSUME i.op = "EXTR" PROVE Shr(Low(p, n), q) + Shl(v1, n - q, n) \in 0 .. 2^n - 1
    OBVIOUS
  <2>1. q \in 0 .. n /\ n - q \in 0 .. n /\ n \in Nat /\ p \in Int /\ v1 \in Int
    BY <1>2, <1>3, <1>4, <1>5
  <2>2. Low(p, n) \in 0 .. 2^n - 1
    BY <2>1, LowRange
  <2>3. Shr(Low(p, n), q) \in 0 .. 2^(n - q) - 1
    BY <2>1, <2>2, ShrRange
  <2>4. Shl(v1, n - q, n) \in 0 .. 2^n - 2^(n - q)
    BY <2>1, ShlRange
  <2>5. 2^n \in Nat /\ 2^(n - q) \in Nat
    BY <2>1, PowerNat
  <2> QED  BY <2>3, <2>4, <2>5
<1>14. res \in XWord
  <2>1. CASE i.op = "LSL" /\ Len(i.ops) >= 4
    <3> DEFINE len == Len(i.ops)
    <3>1. len \in Nat /\ len >= 4
      BY <1>2, <2>1
    <3> HIDE DEF len
    <3>2. len # 3
      BY <3>1
    <3>3. Len(i.ops) # 3
      BY <3>2 DEF len
    <3> QED  BY <1>9, <2>1, <3>3
  <2>2. CASE i.op = "LSL" /\ Len(i.ops) = 3
    BY <1>2, <1>7, <1>10, <2>2
  <2>3. CASE i.op = "LSR"
    BY <1>7, <1>11, <2>3
  <2>4. CASE i.op = "ASR"
    BY <1>7, <1>12, <2>4
  <2>5. CASE i.op = "ROR"
    BY <1>7, <1>8, <2>5
  <2>6. CASE i.op = "EXTR"
    BY <1>7, <1>13, <2>6
  <2>7. Len(i.ops) >= 4 \/ Len(i.ops) = 3
    <3> DEFINE len == Len(i.ops)
    <3>1. len \in Nat /\ len >= 3
      BY <1>2
    <3> HIDE DEF len, res
    <3>2. len >= 4 \/ len = 3
      BY <3>1
    <3> QED  BY <3>2 DEF len
  <2> HIDE DEF res
  <2> QED  BY <2>1, <2>2, <2>3, <2>4, <2>5, <2>6, <2>7 DEF ShiftOps
<1>15. ShiftRotate(i, c) = set_reg_val(Rd(i), res, c)
  BY DEF ShiftRotate, n, w1, v1, p, q, a
<1> HIDE DEF res
<1> QED  BY <1>1, <1>14, <1>15, SetReg

LEMMA SelectTyped ==
  ASSUME NEW c \in CpuContext, NEW i, IsResolvedInst(i), i.op \in SelectOps
  PROVE  Select(i, c) \in CpuContext
<1> DEFINE holds == Cond(i.ops[Len(i.ops)].cond, c.nzcv)
           selects == i.op \in {"CSEL", "CSINC", "CSINV", "CSNEG"}
           v == get_operand_val(i.ops[IF selects THEN 3 ELSE 2], c)
           modified == CASE i.op \in {"CSINC", "CINC"} -> Wrap(v + 1)
                         [] i.op \in {"CSINV", "CINV"} -> Not(v)
                         [] i.op \in {"CSNEG", "CNEG"} -> Wrap(-v)
                         [] i.op = "CSEL" -> v
                         [] i.op = "CSET" -> 1
                         [] i.op = "CSETM" -> Not(0)
           plain == IF i.op \in {"CSET", "CSETM"} THEN 0 ELSE get_operand_val(i.ops[2], c)
           res == IF holds # selects THEN modified ELSE plain
<1>1. /\ Rd(i) \in Registers /\ i.op \in BinaryOps /\ (selects => i.op \in QuaternaryOps)
  BY Destination DEF DataOps, SelectOps, Comparing, CompareIfOps, NoOps, QuaternaryOps
<1>2. plain \in XWord
  BY <1>1, Inputs, ZeroWord
<1>3. v \in XWord
  <2>1. selects => 4 \in 1 .. Len(i.ops) /\ Len(i.ops) \in Nat
    BY <1>1, Inputs
  <2>2. (IF selects THEN 3 ELSE 2) \in 1 .. Len(i.ops)
    BY <1>1, <2>1, Inputs
  <2> DEFINE k == IF selects THEN 3 ELSE 2
  <2>3. k \in 1 .. Len(i.ops)
    BY <2>2
  <2> HIDE DEF k
  <2>4. get_operand_val(i.ops[k], c) \in XWord
    BY <2>3, Inputs
  <2> QED  BY <2>4 DEF k
<1> HIDE DEF v, plain, holds, selects
<1>4. Wrap(v + 1) \in XWord /\ Wrap(-v) \in XWord /\ v \in Nat
  BY <1>3, WordNat, WrapWord
<1>5. Not(v) \in XWord /\ Not(0) \in XWord /\ 1 \in XWord
  <2>1. 1 \in XWord
    <3>1. 0 \in 0 .. XBits /\ XBits \in Nat /\ XBits >= 1
      BY Widths
    <3>2. XBits < 2^XBits /\ 2^XBits \in Nat
      BY <3>1, PowerAbove, PowerNat
    <3> QED  BY <3>1, <3>2 DEF XWord
  <2> QED  BY <1>3, <2>1, ZeroWord, LogicWords
<1>6. modified \in XWord
  BY <1>3, <1>4, <1>5 DEF SelectOps
<1> HIDE DEF modified
<1>7. res \in XWord
  BY <1>2, <1>6
<1>8. Select(i, c) = set_reg_val(Rd(i), res, c)
  BY DEF Select, v, plain, holds, selects, modified
<1> HIDE DEF res
<1> QED  BY <1>1, <1>7, <1>8, SetReg

LEMMA CompareIfTyped ==
  ASSUME NEW c \in CpuContext, NEW i
  PROVE  CompareIf(i, c) \in CpuContext
BY FlagsTyped, FieldWrites, ZeroWord DEF CompareIf

LEMMA SystemTyped ==
  ASSUME NEW c \in CpuContext, NEW i, IsResolvedInst(i), i.op \in SystemOps
  PROVE  System(i, c) \in CpuContext
<1>1. i.op \in BinaryOps
  BY DEF BinaryOps, DataOps, SystemOps, NoOps
<1>2. get_operand_val(i.ops[2], c) \in XWord
  BY <1>1, Inputs
<1>3. CASE i.op = "MSR"
  <2>1. [c EXCEPT !.tpidr_el0 = get_operand_val(i.ops[2], c)] \in CpuContext
    BY <1>2, FieldWrites
  <2> QED  BY <1>3, <2>1 DEF System
<1>4. CASE i.op = "MRS"
  <2> DEFINE res == CASE i.ops[2].name = "TPIDR_EL0" -> c.tpidr_el0
                      [] i.ops[2].name = "DCZID_EL0" -> 16
                      [] i.ops[2].cnt -> Wrap(1000000000)
                      [] OTHER -> 0
  <2>1. Rd(i) \in Registers
    BY <1>4, Destination DEF DataOps, SystemOps, Comparing, CompareIfOps, NoOps
  <2>2. 16 \in XWord
    <3>1. 2^3 = 2 * 2^2 /\ 2^4 = 2 * 2^3 /\ 2^5 = 2 * 2^4 /\ 2^2 = 2 * 2^1 /\ 2^1 = 2
      <4>1. 2 + 1 = 3 /\ 3 + 1 = 4 /\ 4 + 1 = 5 /\ 1 + 1 = 2
        OBVIOUS
      <4>2. \A n \in Nat : 2^(n + 1) = 2 * 2^n
        BY PowerDoubles
      <4> QED  BY <4>1, <4>2
    <3>2. 5 \in 0 .. XBits
      BY ByteBitsAssumption DEF XBits
    <3>3. 2^5 <= 2^XBits /\ 2^XBits \in Nat
      BY <3>2, Widths, PowerMonotone, PowerNat
    <3> QED  BY <3>1, <3>3 DEF XWord
  <2>3. Wrap(1000000000) \in XWord /\ c.tpidr_el0 \in XWord
    BY WrapWord, ContextFields
  <2>4. res \in XWord
    BY <2>2, <2>3, ZeroWord
  <2>5. System(i, c) = set_reg_val(Rd(i), res, c)
    BY <1>4 DEF System
  <2> HIDE DEF res
  <2> QED  BY <2>1, <2>4, <2>5, SetReg
<1> QED  BY <1>3, <1>4 DEF SystemOps

LEMMA ExecuteTyped ==
  ASSUME NEW c \in CpuContext, NEW i, IsResolvedInst(i), i.op \in DataOps
  PROVE  Execute(i, c) \in CpuContext
<1> USE DEF AddSubOps, NegOps, MoveOps, MultiplyOps, DivideOps, LogicOps, ExtendOps, BitfieldOps,
            InsertZeroOps, ReverseOps, ShiftOps, SelectOps, CompareIfOps, SystemOps, NoOps
<1>1. CASE i.op \in AddSubOps
  BY <1>1, AddSubTyped DEF Execute
<1>2. CASE i.op \in NegOps
  BY <1>2, NegTyped DEF Execute
<1>3. CASE i.op \in MoveOps
  BY <1>3, MoveTyped DEF Execute
<1>4. CASE i.op \in MultiplyOps
  BY <1>4, MultiplyTyped DEF Execute
<1>5. CASE i.op \in DivideOps
  BY <1>5, DivideTyped DEF Execute
<1>6. CASE i.op \in LogicOps
  BY <1>6, LogicTyped DEF Execute
<1>7. CASE i.op \in ExtendOps
  BY <1>7, ExtendTyped DEF Execute
<1>8. CASE i.op \in BitfieldOps
  BY <1>8, BitfieldTyped DEF Execute
<1>9. CASE i.op \in InsertZeroOps
  BY <1>9, InsertZeroTyped DEF Execute
<1>10. CASE i.op \in ReverseOps
  BY <1>10, ReverseTyped DEF Execute
<1>11. CASE i.op \in ShiftOps
  BY <1>11, ShiftRotateTyped DEF Execute
<1>12. CASE i.op \in SelectOps
  BY <1>12, SelectTyped DEF Execute
<1>13. CASE i.op \in CompareIfOps
  BY <1>13, CompareIfTyped DEF Execute
<1>14. CASE i.op \in SystemOps
  BY <1>14, SystemTyped DEF Execute
<1>15. CASE i.op \in NoOps
  BY <1>15 DEF Execute
<1> QED  BY <1>1, <1>2, <1>3, <1>4, <1>5, <1>6, <1>7, <1>8, <1>9, <1>10, <1>11, <1>12, <1>13, <1>14, <1>15
         DEF DataOps

-----------------------------------------------------------------------------
(* The arms on vectors. *)

LaneSizes == {1, 2, 4, 8}

LEMMA LaneWidth ==
  ASSUME NEW es \in LaneSizes
  PROVE  /\ ByteBits * es \in Nat \ {0} /\ ByteBits * es \in 1 .. XBits
         /\ 16 \div es \in 2 .. 16 /\ es * (16 \div es) = 16 /\ es \in 0 .. 8
<1>1. es \in {1, 2, 4, 8}
  BY DEF LaneSizes
<1>2. ByteBits \in Nat \ {0} /\ XBits = 8 * ByteBits
  BY Widths
<1>3. ByteBits * es \in {ByteBits, 2 * ByteBits, 4 * ByteBits, 8 * ByteBits}
  BY <1>1, <1>2
<1> QED  BY <1>1, <1>2, <1>3

LEMMA ZerosVector ==
  Zeros \in Vector
<1>1. <<>> \in [{} -> Byte]
  OBVIOUS
<1> QED  BY <1>1, ZeroedType DEF Zeros

LEMMA VecTyped ==
  ASSUME NEW c \in CpuContext, NEW i, IsResolvedInst(i), NEW k
  PROVE  Vec(i, k, c) \in Vector
<1>1. CASE IsVecOp(i, k)
  <2>1. IsOperand(i.ops[k]) /\ IsReg(i.ops[k]) /\ IsVec(i.ops[k].reg)
    BY <1>1 DEF IsVecOp, IsResolvedInst, IsInstruction
  <2>2. i.ops[k].reg.n \in VRegs
    BY <2>1, OperandRegister, VectorName
  <2>3. c.v[i.ops[k].reg.n] \in Vector
    BY <2>2, ContextFields
  <2> QED  BY <1>1, <2>3 DEF Vec
<1>2. CASE ~IsVecOp(i, k)
  BY <1>2, ZerosVector DEF Vec
<1> QED  BY <1>1, <1>2

LEMMA PutVecTyped ==
  ASSUME NEW c \in CpuContext, NEW i, NEW vec \in Vector
  PROVE  PutVec(i, vec, c) \in CpuContext
BY FieldWrites, ZeroWord DEF PutVec

(* The vector an arm names for its lanes.                                  *)
LEMMA VectorOperand ==
  ASSUME NEW i, IsResolvedInst(i), OnVectors(i), i.op \notin MoveLaneOps
  PROVE  i.ops[1].es \in LaneSizes /\ i.ops[1].low \in BOOLEAN
<1>1. i.op \in BinaryOps /\ 1 \in DOMAIN i.ops
  BY DEF OnVectors, BinaryOps, IsResolvedInst, IsInstruction
<1>2. IsOperand(i.ops[1])
  BY <1>1 DEF IsResolvedInst, IsInstruction
<1>3. i.ops[1].kind = "reg"
  <2>1. CASE i.op \in SharedOps
    <3>1. IsReg(i.ops[1]) /\ IsVec(i.ops[1].reg)
      BY <2>1 DEF OnVectors, IsVecOp
    <3> QED  BY <1>2, <3>1 DEF IsReg, IsOperand, GeneralRegisters
  <2>2. CASE i.op \notin SharedOps
    BY <2>2 DEF OnVectors, IsResolvedInst, IsInstruction
  <2> QED  BY <2>1, <2>2
<1> QED  BY <1>2, <1>3 DEF IsOperand, LaneSizes

LEMMA LaneTyped ==
  ASSUME NEW vec \in Vector, NEW es \in LaneSizes, NEW k \in 0 .. 16 \div es - 1
  PROVE  /\ LaneAt(vec, k, es) \in 0 .. 2^(ByteBits * es) - 1
         /\ LaneAt(vec, k, es) \in XWord /\ LaneAt(vec, k, es) \in Nat
<1> DEFINE b == [j \in 0 .. es - 1 |-> vec[es * k + j]]
<1>1. es \in Nat /\ es \in 0 .. 8
  BY DEF LaneSizes
<1>2. ASSUME NEW j \in 0 .. es - 1 PROVE es * k + j \in VBytes
  <2>1. CASE es = 1
    BY <2>1 DEF VBytes
  <2>2. CASE es = 2
    BY <2>2 DEF VBytes
  <2>3. CASE es = 4
    BY <2>3 DEF VBytes
  <2>4. CASE es = 8
    BY <2>4 DEF VBytes
  <2> QED  BY <2>1, <2>2, <2>3, <2>4 DEF LaneSizes
<1>3. b \in [0 .. es - 1 -> Byte]
  BY <1>2 DEF Vector
<1> HIDE DEF b
<1>4. FromBytes(b) \in 0 .. 2^(ByteBits * es) - 1
  BY <1>1, <1>3, FromBytesRange
<1>5. FromBytes(b) \in XWord
  BY <1>1, <1>3, FromBytesWord
<1> QED  BY <1>4, <1>5, WordNat DEF LaneAt, b

LEMMA PackedOverTyped ==
  ASSUME NEW base \in Vector, NEW first \in Nat, NEW es \in LaneSizes, NEW lanes,
         \A k \in DOMAIN lanes : lanes[k] \in Int
  PROVE  PackedOver(base, first, lanes, es) \in Vector
<1> SUFFICES ASSUME NEW b \in VBytes, b - first >= 0, (b - first) \div es \in DOMAIN lanes
             PROVE  Low(Shr(lanes[(b - first) \div es], ByteBits * ((b - first) % es)), ByteBits) \in Byte
  BY DEF PackedOver, Vector
<1> DEFINE j == b - first
           v == lanes[j \div es]
           s == ByteBits * (j % es)
<1>1. v \in Int
  OBVIOUS
<1>2. s \in Nat
  <2>1. j \in Nat /\ es \in Nat \ {0}
    BY DEF LaneSizes, VBytes
  <2> HIDE DEF j
  <2>2. j % es \in Nat
    BY <2>1
  <2> QED  BY <2>2, Widths
<1> HIDE DEF v, s
<1>3. Shr(v, s) \in Int
  BY <1>1, <1>2, DivInt DEF Shr
<1>4. Low(Shr(v, s), ByteBits) \in Byte
  <2>1. ByteBits \in Nat
    BY Widths
  <2> QED  BY <1>3, <2>1, LowRange DEF Byte
<1> QED  BY <1>4 DEF v, s

LEMMA PackedTyped ==
  ASSUME NEW es \in LaneSizes, NEW lanes, \A k \in DOMAIN lanes : lanes[k] \in Int
  PROVE  Packed(lanes, es) \in Vector
BY ZerosVector, PackedOverTyped DEF Packed

LEMMA LaneResultInt ==
  ASSUME NEW op \in LaneOps, NEW n \in Nat \ {0}, NEW a \in Nat, NEW b \in Int
  PROVE  LaneResult(op, a, b, n) \in Int
<1>1. n \in Nat /\ 2^n \in Nat
  BY PowerNat
<1>2. \A holds : AllOnes(holds, n) \in Int
  BY <1>1 DEF AllOnes, Ones
<1>3. ShiftLane(a, b, n) \in Int
  <2> DEFINE r == b % n
             l == (-b) % n
  <2>1. r \in 0 .. n /\ r \in Nat /\ l \in Nat
    OBVIOUS
  <2> HIDE DEF r, l
  <2>2. a \in Int
    OBVIOUS
  <2>3. Shl(a, r, n) \in Int
    BY <1>1, <2>1, <2>2, ShlWord
  <2>4. Shr(a, l) \in Int
    BY <2>1, ShrNat
  <2> QED  BY <2>3, <2>4 DEF ShiftLane, r, l
<1>4. Low(a + b, n) \in Int
  <2>1. a + b \in Int
    OBVIOUS
  <2> QED  BY <1>1, <2>1, LowNat
<1>5. CASE op \in LaneShiftOps
  BY <1>3, <1>5 DEF LaneResult, LaneShiftOps
<1>6. CASE op = "ADD"
  BY <1>4, <1>6 DEF LaneResult, LaneShiftOps
<1>7. CASE op \in {"CMEQ", "CMHI", "CMHS", "CMGT", "CMGE", "CMTST"}
  <2>1. LaneResult(op, a, b, n) \in {AllOnes(a = b, n), AllOnes(a > b, n), AllOnes(a >= b, n),
          AllOnes(Signed(a, n) > Signed(b, n), n), AllOnes(Signed(a, n) >= Signed(b, n), n),
          AllOnes(And(a, b) # 0, n)}
    BY <1>7 DEF LaneResult, LaneShiftOps
  <2> QED  BY <1>2, <2>1
<1> QED  BY <1>5, <1>6, <1>7 DEF LaneOps

LEMMA LaneWiseTyped ==
  ASSUME NEW c \in CpuContext, NEW i, IsResolvedInst(i), OnVectors(i), i.op \in LaneOps
  PROVE  LaneWise(i, c) \in CpuContext
<1> DEFINE es == get_vec_elem_size(i.ops[1])
           n == ByteBits * es
           b(k) == IF IsVecOp(i, 3) THEN LaneAt(Vec(i, 3, c), k, es)
                   ELSE IF Len(i.ops) >= 3 THEN get_operand_val(i.ops[3], c) ELSE 0
           amount(k) == Signed(b(k), IF IsVecOp(i, 3) THEN Min({n, WBits}) ELSE WBits)
           a(k) == LaneAt(Vec(i, 2, c), k, es)
           second(k) == IF i.op \in LaneShiftOps THEN amount(k) ELSE b(k)
           lanes == [k \in 0 .. 16 \div es - 1 |-> LaneResult(i.op, a(k), second(k), n)]
<1>1. es \in LaneSizes
  BY VectorOperand DEF LaneOps, LaneShiftOps, MoveLaneOps, get_vec_elem_size
<1>2. n \in Nat \ {0}
  BY <1>1, LaneWidth
<1>3. Min({n, WBits}) \in Nat
  <2>1. {n, WBits} \in SUBSET (-XBits .. XBits) /\ {n, WBits} # {} /\ XBits \in Nat
    BY <1>1, LaneWidth, Widths
  <2>2. Min({n, WBits}) \in {n, WBits}
    BY <2>1, Extremes
  <2> QED  BY <1>2, <2>2, Widths
<1>4. Vec(i, 2, c) \in Vector /\ Vec(i, 3, c) \in Vector
  BY VecTyped
<1>5. Len(i.ops) \in Nat /\ (Len(i.ops) >= 3 => get_operand_val(i.ops[3], c) \in Nat)
  <2>1. Len(i.ops) \in Nat
    BY Inputs
  <2>2. Len(i.ops) >= 3 => 3 \in 1 .. Len(i.ops)
    BY <2>1
  <2> QED  BY <2>1, <2>2, Inputs
<1> HIDE DEF es, n
<1>6. ASSUME NEW k \in 0 .. 16 \div es - 1
      PROVE  LaneResult(i.op, a(k), second(k), n) \in Int
  <2>1. a(k) \in Nat
    BY <1>1, <1>4, LaneTyped
  <2>2. b(k) \in Int
    <3>1. LaneAt(Vec(i, 3, c), k, es) \in Nat
      BY <1>1, <1>4, LaneTyped
    <3> QED  BY <1>5, <3>1
  <2> HIDE DEF a, b
  <2>3. amount(k) \in Int
    <3> DEFINE m == IF IsVecOp(i, 3) THEN Min({n, WBits}) ELSE WBits
    <3>1. m \in Nat
      BY <1>3, Widths
    <3> HIDE DEF m
    <3>2. Signed(b(k), m) \in Int
      BY <2>2, <3>1, SignedInt
    <3> QED  BY <3>2 DEF m
  <2> HIDE DEF amount
  <2>4. second(k) \in Int
    BY <2>2, <2>3
  <2> HIDE DEF second
  <2> QED  BY <1>2, <2>1, <2>4, LaneResultInt
<1>7. \A k \in DOMAIN lanes : lanes[k] \in Int
  BY <1>6
<1>8. LaneWise(i, c) = PutVec(i, Packed(lanes, es), c)
  BY DEF LaneWise, es, n
<1> HIDE DEF lanes
<1>9. Packed(lanes, es) \in Vector
  BY <1>1, <1>7, PackedTyped
<1> QED  BY <1>8, <1>9, PutVecTyped

LEMMA FillTyped ==
  ASSUME NEW c \in CpuContext, NEW i, IsResolvedInst(i), OnVectors(i), i.op \in FillOps
  PROVE  Fill(i, c) \in CpuContext
<1> DEFINE es == get_vec_elem_size(i.ops[1])
           val == get_operand_val(i.ops[2], c)
           v == IF i.op = "MVNI" THEN Not(val) ELSE val
           lane == Low(v, ByteBits * es)
           lanes == [k \in 0 .. 16 \div es - 1 |-> lane]
<1>1. es \in LaneSizes
  BY VectorOperand DEF FillOps, MoveLaneOps, get_vec_elem_size
<1>2. i.op \in BinaryOps
  BY DEF OnVectors, BinaryOps
<1>3. val \in XWord
  BY <1>2, Inputs
<1>4. v \in Int
  <2> HIDE DEF val
  <2>1. Not(val) \in XWord
    BY <1>3, LogicWords
  <2> QED  BY <1>3, <2>1, WordNat
<1>5. lane \in Int
  <2>1. ByteBits * es \in Nat
    BY <1>1, LaneWidth
  <2> HIDE DEF v, es
  <2> QED  BY <1>4, <2>1, LowNat
<1>6. Fill(i, c) = PutVec(i, Packed(lanes, es), c)
  BY DEF Fill
<1>7. \A k \in DOMAIN lanes : lanes[k] \in Int
  <2> HIDE DEF lane
  <2> QED  BY <1>5
<1> HIDE DEF lanes, es
<1> QED  BY <1>1, <1>6, <1>7, PackedTyped, PutVecTyped

LEMMA WordShiftTyped ==
  ASSUME NEW c \in CpuContext, NEW i, IsResolvedInst(i), i.op \in WordShiftOps
  PROVE  WordShift(i, c) \in CpuContext
<1> DEFINE a == get_operand_val(i.ops[3], c) % WBits
           lanes == Lanes(Vec(i, 2, c), 4)
           shifted == [k \in 0 .. 3 |-> IF i.op = "SSHR" THEN Asr(lanes[k], a, WBits) ELSE Shr(lanes[k], a)]
<1>1. i.op \in TernaryOps /\ 4 \in LaneSizes
  BY DEF TernaryOps, LaneSizes
<1>2. a \in Nat
  <2>1. get_operand_val(i.ops[3], c) \in Nat
    BY <1>1, Inputs
  <2> QED  BY <2>1, Widths
<1>3. \A k \in 0 .. 3 : lanes[k] \in Nat
  <2>1. 16 \div 4 - 1 = 3
    OBVIOUS
  <2>2. \A k \in 0 .. 16 \div 4 - 1 : LaneAt(Vec(i, 2, c), k, 4) \in Nat
    BY <1>1, VecTyped, LaneTyped
  <2> QED  BY <2>1, <2>2 DEF Lanes
<1> HIDE DEF a, lanes
<1>4. ASSUME NEW k \in 0 .. 3 PROVE Asr(lanes[k], a, WBits) \in Int /\ Shr(lanes[k], a) \in Int
  <2>1. lanes[k] \in Int /\ lanes[k] \in Nat /\ WBits \in Nat \ {0} /\ WBits \in Nat /\ 2^WBits \in Nat
    BY <1>3, Widths, PowerNat
  <2>2. Asr(lanes[k], a, WBits) \in 0 .. 2^WBits - 1
    BY <1>2, <2>1, AsrRange
  <2>3. Shr(lanes[k], a) \in 0 .. lanes[k]
    BY <1>2, <2>1, ShrNat
  <2> QED  BY <2>1, <2>2, <2>3
<1>5. \A k \in DOMAIN shifted : shifted[k] \in Int
  BY <1>4
<1>6. WordShift(i, c) = PutVec(i, Packed(shifted, 4), c)
  BY DEF WordShift, a, lanes
<1> HIDE DEF shifted
<1> QED  BY <1>1, <1>5, <1>6, PackedTyped, PutVecTyped

LEMMA BitWiseTyped ==
  ASSUME NEW c \in CpuContext, NEW i, IsResolvedInst(i), i.op \in BitOps
  PROVE  BitWise(i, c) \in CpuContext
<1>1. ASSUME NEW d \in XWord, NEW a \in XWord, NEW b \in XWord
      PROVE  BitResult(i.op, d, a, b) \in Int
  <2>1. /\ Not(d) \in XWord /\ Not(b) \in XWord
        /\ And(a, b) \in XWord /\ Or(a, b) \in XWord /\ Xor(a, b) \in XWord
    BY LogicWords
  <2>2. /\ Or(a, Not(b)) \in XWord /\ Xor(a, Not(b)) \in XWord
        /\ And(a, b) \in XWord /\ And(d, b) \in XWord /\ And(a, d) \in XWord
        /\ And(d, Not(b)) \in XWord /\ And(a, Not(b)) \in XWord /\ And(b, Not(d)) \in XWord
    <3> DEFINE nb == Not(b)
               nd == Not(d)
    <3>1. nb \in XWord /\ nd \in XWord
      BY <2>1
    <3> HIDE DEF nb, nd
    <3>2. /\ Or(a, nb) \in XWord /\ Xor(a, nb) \in XWord /\ And(a, b) \in XWord
          /\ And(d, b) \in XWord /\ And(a, d) \in XWord /\ And(d, nb) \in XWord
          /\ And(a, nb) \in XWord /\ And(b, nd) \in XWord
      BY <3>1, LogicWords
    <3> QED  BY <3>2 DEF nb, nd
  <2>3. \A x \in XWord : x \in Int
    BY WordNat
  <2> QED  BY <2>1, <2>2, <2>3 DEF BitResult, BitOps
<1> DEFINE vec == [j \in VBytes |-> Low(BitResult(i.op, Vec(i, 1, c)[j], Vec(i, 2, c)[j], Vec(i, 3, c)[j]),
                                        ByteBits)]
<1>2. vec \in Vector
  <2>1. ASSUME NEW j \in VBytes
        PROVE  Low(BitResult(i.op, Vec(i, 1, c)[j], Vec(i, 2, c)[j], Vec(i, 3, c)[j]), ByteBits) \in Byte
    <3>1. Vec(i, 1, c)[j] \in XWord /\ Vec(i, 2, c)[j] \in XWord /\ Vec(i, 3, c)[j] \in XWord
      BY VecTyped, ByteWord DEF Vector
    <3>2. BitResult(i.op, Vec(i, 1, c)[j], Vec(i, 2, c)[j], Vec(i, 3, c)[j]) \in Int
      BY <1>1, <3>1
    <3> QED  BY <3>2, Widths, LowRange DEF Byte
  <2> QED  BY <2>1 DEF Vector
<1>3. BitWise(i, c) = PutVec(i, vec, c)
  BY DEF BitWise
<1> HIDE DEF vec
<1> QED  BY <1>2, <1>3, PutVecTyped

LEMMA BytesTyped ==
  ASSUME NEW c \in CpuContext, NEW i, IsResolvedInst(i), i.op \in ByteOps
  PROVE  Bytes(i, c) \in CpuContext
<1> DEFINE a == Vec(i, 2, c)
           b == Vec(i, 3, c)
           from == get_operand_val(i.ops[Len(i.ops)], c) % 16
           bits(j) == {k \in 0 .. ByteBits - 1 : Bit(a[j], k) = 1}
           mirrored == [j \in VBytes |->
                          OfDigits([k \in 0 .. ByteBits - 1 |-> Bit(a[j], ByteBits - 1 - k)], 1, ByteBits)]
           counted == [j \in VBytes |-> Cardinality(bits(j))]
           moved == [j \in VBytes |-> IF from + j < 16 THEN a[from + j] ELSE b[from + j - 16]]
           vec == CASE i.op = "REV16" -> TurnedAround(a, 2)
                    [] i.op = "REV32" -> TurnedAround(a, 4)
                    [] i.op = "REV64" -> TurnedAround(a, 8)
                    [] i.op = "RBIT" -> mirrored
                    [] i.op = "CNT" -> counted
                    [] i.op = "EXT" -> moved
<1>1. a \in Vector /\ b \in Vector
  BY VecTyped
<1>2. from \in 0 .. 15
  <2>1. i.op \in BinaryOps
    BY DEF BinaryOps, VectorOps
  <2>2. Len(i.ops) \in 1 .. Len(i.ops)
    BY <2>1, Inputs
  <2> DEFINE v == get_operand_val(i.ops[Len(i.ops)], c)
  <2>3. v \in Nat
    BY <2>2, Inputs
  <2> HIDE DEF v
  <2>4. v % 16 \in 0 .. 15
    BY <2>3
  <2> QED  BY <2>4 DEF v
<1> HIDE DEF a, b, from
<1>3. TurnedAround(a, 2) \in Vector /\ TurnedAround(a, 4) \in Vector /\ TurnedAround(a, 8) \in Vector
  <2>1. a \in [0 .. 16 - 1 -> Byte]
    BY <1>1 DEF Vector, VBytes
  <2>2. \A size \in {2, 4, 8} : TurnedAround(a, size) \in [0 .. 16 - 1 -> Byte]
    BY <2>1, TurnedType
  <2> QED  BY <2>2 DEF Vector, VBytes
<1>4. mirrored \in Vector
  <2>1. ASSUME NEW j \in VBytes
        PROVE  OfDigits([k \in 0 .. ByteBits - 1 |-> Bit(a[j], ByteBits - 1 - k)], 1, ByteBits) \in Byte
    <3> DEFINE d == [k \in 0 .. ByteBits - 1 |-> Bit(a[j], ByteBits - 1 - k)]
    <3>1. ByteBits \in Nat /\ 1 * ByteBits = ByteBits
      BY Widths
    <3>2. ASSUME NEW k \in 0 .. ByteBits - 1 PROVE d[k] \in 0 .. 2^1 - 1
      <4>1. ByteBits - 1 - k \in Nat
        BY <3>1
      <4>2. a[j] \in Nat
        BY <1>1, ByteWord, WordNat DEF Vector
      <4>3. Bit(a[j], ByteBits - 1 - k) \in {0, 1}
        BY <4>1, <4>2, BitRange
      <4>4. 2^1 = 2
        OBVIOUS
      <4> QED  BY <4>3, <4>4
    <3> HIDE DEF d
    <3>3. OfDigits(d, 1, ByteBits) \in 0 .. 2^(1 * ByteBits) - 1
      BY <3>1, <3>2, OfDigitsRange
    <3> QED  BY <3>1, <3>3 DEF d, Byte
  <2> QED  BY <2>1 DEF Vector
<1>5. counted \in Vector
  <2>1. ASSUME NEW j \in VBytes PROVE Cardinality(bits(j)) \in Byte
    <3>1. bits(j) \in SUBSET (0 .. ByteBits - 1) /\ ByteBits \in 0 .. XBits
      BY Widths
    <3> HIDE DEF bits
    <3> QED  BY <3>1, CountWord DEF Byte
  <2> HIDE DEF bits
  <2> QED  BY <2>1 DEF Vector
<1>6. moved \in Vector
  BY <1>1, <1>2 DEF Vector, VBytes
<1> HIDE DEF mirrored, counted, moved
<1>7. vec \in Vector
  BY <1>3, <1>4, <1>5, <1>6 DEF ByteOps
<1>8. Bytes(i, c) = PutVec(i, vec, c)
  BY DEF Bytes, a, b, from, mirrored, counted, moved
<1> HIDE DEF vec
<1> QED  BY <1>7, <1>8, PutVecTyped

LEMMA ExtremeInt ==
  ASSUME NEW op, NEW n \in Nat \ {0}, NEW lanes \in SUBSET (0 .. 2^n - 1), lanes # {}
  PROVE  Extreme(op, lanes, n) \in Nat
<1> DEFINE key(a) == IF SignedLanes(op) THEN Signed(a, n) ELSE a
           keys == {key(a) : a \in lanes}
           p == 2^n
           x == IF op \in MaxOps THEN Max(keys) ELSE Min(keys)
<1>1. n \in Nat /\ p \in Nat
  BY PowerNat
<1>2. ASSUME NEW a \in lanes PROVE key(a) \in -p .. p
  <2>1. a \in 0 .. p - 1 /\ a \in Int
    BY <1>1
  <2>2. Signed(a, n) \in -(2^(n - 1)) .. 2^(n - 1) - 1
    BY <2>1, SignedRange
  <2>3. n - 1 \in Nat /\ n - 1 \in 0 .. n
    BY <1>1
  <2>4. 2^(n - 1) <= p /\ 2^(n - 1) \in Nat
    BY <1>1, <2>3, PowerMonotone, PowerNat
  <2> HIDE DEF p
  <2> QED  BY <1>1, <2>1, <2>2, <2>4
<1> HIDE DEF key, p
<1>3. keys \in SUBSET (-p .. p) /\ keys # {}
  BY <1>2
<1> HIDE DEF keys
<1>4. x \in Int
  <2>1. Max(keys) \in keys /\ Min(keys) \in keys
    BY <1>1, <1>3, Extremes
  <2>2. \A y \in -p .. p : y \in Int
    BY <1>1
  <2> QED  BY <1>3, <2>1, <2>2
<1> HIDE DEF x
<1>5. Low(x, n) \in Nat
  BY <1>1, <1>4, LowNat
<1> QED  BY <1>5 DEF Extreme, x, keys, key

LEMMA PairsInt ==
  ASSUME NEW op, NEW es \in LaneSizes, NEW vec \in Vector, NEW k \in 0 .. 8 \div es - 1
  PROVE  LET n == ByteBits * es
             x == LaneAt(vec, 2 * k, es)
             y == LaneAt(vec, 2 * k + 1, es)
         IN  (IF op = "ADDP" THEN Low(x + y, n) ELSE Extreme(op, {x, y}, n)) \in Int
<1> DEFINE n == ByteBits * es
           x == LaneAt(vec, 2 * k, es)
           y == LaneAt(vec, 2 * k + 1, es)
<1>1. 2 * k \in 0 .. 16 \div es - 1 /\ 2 * k + 1 \in 0 .. 16 \div es - 1
  <2>1. CASE es = 1
    BY <2>1
  <2>2. CASE es = 2
    BY <2>2
  <2>3. CASE es = 4
    BY <2>3
  <2>4. CASE es = 8
    BY <2>4
  <2> QED  BY <2>1, <2>2, <2>3, <2>4 DEF LaneSizes
<1>2. x \in 0 .. 2^n - 1 /\ y \in 0 .. 2^n - 1 /\ x \in Nat /\ y \in Nat
  BY <1>1, LaneTyped
<1>3. n \in Nat \ {0} /\ n \in Nat
  BY LaneWidth
<1> HIDE DEF n, x, y
<1>4. Low(x + y, n) \in Nat
  <2>1. x + y \in Int
    BY <1>2
  <2> QED  BY <1>3, <2>1, LowNat
<1>5. Extreme(op, {x, y}, n) \in Nat
  <2>1. {x, y} \in SUBSET (0 .. 2^n - 1) /\ {x, y} # {}
    BY <1>2
  <2> QED  BY <1>3, <2>1, ExtremeInt
<1>6. (IF op = "ADDP" THEN Low(x + y, n) ELSE Extreme(op, {x, y}, n)) \in Int
  BY <1>4, <1>5
<1> QED  BY <1>6 DEF n, x, y

LEMMA PairwiseTyped ==
  ASSUME NEW c \in CpuContext, NEW i, IsResolvedInst(i), OnVectors(i), i.op \in PairOps
  PROVE  Pairwise(i, c) \in CpuContext
<1> DEFINE es == get_vec_elem_size(i.ops[1])
           n == ByteBits * es
           all == ~is_64bit_vector(i.ops[1])
           a == Vec(i, 2, c)
           b == IF IsVecOp(i, 3) THEN Vec(i, 3, c) ELSE a
           One(x, y) == IF i.op = "ADDP" THEN Low(x + y, n) ELSE Extreme(i.op, {x, y}, n)
           Pairs(vec, count) == [k \in 0 .. count - 1 |-> One(LaneAt(vec, 2 * k, es), LaneAt(vec, 2 * k + 1, es))]
           most == IF es = 8 THEN 1 ELSE (IF all THEN 8 ELSE 4) \div es
           first == Packed(Pairs(a, most), es)
           bytes == IF i.op = "ADDP" /\ es < 8 THEN 4 ELSE 8
           from == IF i.op = "ADDP" /\ es < 4 THEN 4 ELSE 8
           vec == IF i.op # "ADDP" /\ es = 8 THEN Zeros
                  ELSE IF all THEN PackedOver(first, from, Pairs(b, bytes \div es), es)
                  ELSE first
<1>1. es \in LaneSizes
  BY VectorOperand DEF PairOps, MoveLaneOps, get_vec_elem_size
<1>2. a \in Vector /\ b \in Vector
  BY VecTyped
<1> HIDE DEF a, b, es, all
<1>3. ASSUME NEW v \in Vector, NEW count \in 0 .. 8 \div es, NEW k \in DOMAIN Pairs(v, count)
      PROVE  Pairs(v, count)[k] \in Int
  <2>1. k \in 0 .. count - 1 /\ k \in 0 .. 8 \div es - 1
    BY <1>1 DEF LaneSizes
  <2>2. One(LaneAt(v, 2 * k, es), LaneAt(v, 2 * k + 1, es)) \in Int
    BY <1>1, <2>1, PairsInt
  <2> HIDE DEF One
  <2> QED  BY <2>1, <2>2
<1> HIDE DEF Pairs
<1>4. most \in 0 .. 8 \div es /\ bytes \div es \in 0 .. 8 \div es /\ from \in Nat
  <2>1. CASE es = 1
    BY <2>1
  <2>2. CASE es = 2
    BY <2>2
  <2>3. CASE es = 4
    BY <2>3
  <2>4. CASE es = 8
    BY <2>4
  <2> QED  BY <1>1, <2>1, <2>2, <2>3, <2>4 DEF LaneSizes
<1> HIDE DEF most, bytes, from
<1>5. first \in Vector
  BY <1>1, <1>2, <1>3, <1>4, PackedTyped
<1> HIDE DEF first
<1>6. PackedOver(first, from, Pairs(b, bytes \div es), es) \in Vector
  <2> DEFINE lanes == Pairs(b, bytes \div es)
  <2>1. \A k \in DOMAIN lanes : lanes[k] \in Int
    BY <1>2, <1>3, <1>4
  <2> HIDE DEF lanes
  <2>2. PackedOver(first, from, lanes, es) \in Vector
    BY <1>1, <1>4, <1>5, <2>1, PackedOverTyped
  <2> QED  BY <2>2 DEF lanes
<1>7. vec \in Vector
  BY <1>5, <1>6, ZerosVector
<1>8. Pairwise(i, c) = PutVec(i, vec, c)
  BY DEF Pairwise, es, all, a, b, Pairs, most, bytes, from, first
<1> HIDE DEF vec
<1> QED  BY <1>7, <1>8, PutVecTyped

LEMMA ReduceTyped ==
  ASSUME NEW c \in CpuContext, NEW i, IsResolvedInst(i), i.op \in ReduceOps
  PROVE  Reduce(i, c) \in CpuContext
<1> DEFINE es == get_vec_elem_size(i.ops[2])
           n == ByteBits * es
           count == IF is_64bit_vector(i.ops[2]) /\ es < 8 THEN 8 \div es ELSE 16 \div es
           lane(k) == LaneAt(Vec(i, 2, c), k, es)
           d == [k \in 0 .. count - 1 |-> IF SignedLanes(i.op) THEN Signed(lane(k), n) ELSE lane(k)]
           sum == OfDigits(d, 0, count)
           extreme == Extreme(i.op, {lane(k) : k \in 0 .. count - 1}, n)
           vec == CASE i.op = "ADDV" \/ (i.op \in {"UADDLV", "SADDLV"} /\ es < 8) -> Zeroed(ToBytes(Wrap(sum), 8))
                    [] i.op \in {"UADDLV", "SADDLV"} /\ es = 8 -> Zeros
                    [] OTHER -> Zeroed(ToBytes(extreme, es))
<1>1. es \in LaneSizes
  <2>1. i.op \in BinaryOps
    BY DEF BinaryOps, VectorOps
  <2>2. IsOperand(i.ops[2]) /\ i.ops[2].kind = "reg"
    BY <2>1, Inputs DEF IsResolvedInst, IsInstruction
  <2> QED  BY <2>2 DEF IsOperand, LaneSizes, get_vec_elem_size
<1>2. count \in 1 .. 16 \div es /\ count \in Nat /\ es \in Nat
  <2>1. CASE es = 1
    BY <2>1
  <2>2. CASE es = 2
    BY <2>2
  <2>3. CASE es = 4
    BY <2>3
  <2>4. CASE es = 8
    BY <2>4
  <2> QED  BY <1>1, <2>1, <2>2, <2>3, <2>4 DEF LaneSizes
<1>3. n \in Nat \ {0} /\ n \in Nat
  BY <1>1, LaneWidth
<1> HIDE DEF es, n, count
<1>4. ASSUME NEW k \in 0 .. count - 1
      PROVE  lane(k) \in 0 .. 2^n - 1 /\ lane(k) \in Nat
  <2>1. k \in 0 .. 16 \div es - 1 /\ Vec(i, 2, c) \in Vector
    BY <1>1, <1>2, VecTyped DEF LaneSizes
  <2> QED  BY <1>1, <2>1, LaneTyped DEF n
<1> HIDE DEF lane
<1>5. sum \in Int
  <2>1. ASSUME NEW k \in 0 .. count - 1 PROVE d[k] \in Int
    <3>1. lane(k) \in Int
      BY <1>4
    <3>2. Signed(lane(k), n) \in Int
      BY <1>3, <3>1, SignedInt
    <3> QED  BY <3>1, <3>2
  <2> HIDE DEF d
  <2> QED  BY <1>2, <2>1, OfDigitsInt
<1>6. extreme \in Nat
  <2> DEFINE S == {lane(k) : k \in 0 .. count - 1}
  <2>1. S \in SUBSET (0 .. 2^n - 1)
    BY <1>4
  <2>2. S # {}
    <3>1. 0 \in 0 .. count - 1
      BY <1>2
    <3> QED  BY <3>1
  <2> HIDE DEF S
  <2>3. Extreme(i.op, S, n) \in Nat
    BY <1>3, <2>1, <2>2, ExtremeInt
  <2> QED  BY <2>3 DEF S
<1> HIDE DEF sum, extreme
<1>7. Zeroed(ToBytes(Wrap(sum), 8)) \in Vector /\ Zeroed(ToBytes(extreme, es)) \in Vector
  <2>1. Wrap(sum) \in Nat
    BY <1>5, WrapWord, WordNat
  <2>2. ToBytes(Wrap(sum), 8) \in [0 .. 8 - 1 -> Byte]
    <3> DEFINE w == Wrap(sum)
    <3>1. w \in Nat
      BY <2>1
    <3> HIDE DEF w
    <3>2. ToBytes(w, 8) \in [0 .. 8 - 1 -> Byte]
      BY <3>1, ToBytesType
    <3> QED  BY <3>2 DEF w
  <2>3. ToBytes(extreme, es) \in [0 .. es - 1 -> Byte]
    BY <1>2, <1>6, ToBytesType
  <2>4. \A D : \A b \in [D -> Byte] : Zeroed(b) \in Vector
    BY ZeroedType
  <2> QED  BY <2>2, <2>3, <2>4
<1>8. vec \in Vector
  BY <1>7, ZerosVector
<1>9. Reduce(i, c) = PutVec(i, vec, c)
  BY DEF Reduce, es, n, count, lane, sum, extreme
<1> HIDE DEF vec
<1> QED  BY <1>8, <1>9, PutVecTyped

LEMMA ZipWordsTyped ==
  ASSUME NEW c \in CpuContext, NEW i, IsResolvedInst(i)
  PROVE  ZipWords(i, c) \in CpuContext
<1> DEFINE a == Lanes(Vec(i, 2, c), 4)
           b == Lanes(Vec(i, 3, c), 4)
           base == IF i.op = "ZIP2" THEN 2 ELSE 0
           zipped == [k \in 0 .. 3 |-> IF k % 2 = 0 THEN a[base + k \div 2] ELSE b[base + k \div 2]]
<1>1. 4 \in LaneSizes /\ 16 \div 4 - 1 = 3
  BY DEF LaneSizes
<1>2. \A k \in 0 .. 3 : a[k] \in Int /\ b[k] \in Int
  <2>1. \A vec \in Vector : \A k \in 0 .. 16 \div 4 - 1 : LaneAt(vec, k, 4) \in Nat
    BY <1>1, LaneTyped
  <2> QED  BY <1>1, <2>1, VecTyped DEF Lanes
<1> HIDE DEF a, b
<1>3. \A k \in DOMAIN zipped : zipped[k] \in Int
  <2>1. \A k \in 0 .. 3 : base + k \div 2 \in 0 .. 3
    OBVIOUS
  <2> HIDE DEF base
  <2> QED  BY <1>2, <2>1
<1>4. ZipWords(i, c) = PutVec(i, Packed(zipped, 4), c)
  BY DEF ZipWords, a, b
<1> HIDE DEF zipped
<1> QED  BY <1>1, <1>3, <1>4, PackedTyped, PutVecTyped

LEMMA NarrowTyped ==
  ASSUME NEW c \in CpuContext, NEW i, IsResolvedInst(i), i.op \in NarrowOps
  PROVE  Narrow(i, c) \in CpuContext
<1> DEFINE es == Max({get_vec_elem_size(i.ops[2]), 2})
           half == es \div 2
           a == get_operand_val(i.ops[3], c) % (ByteBits * es)
           lanes == Lanes(Vec(i, 2, c), es)
           narrowed == [k \in DOMAIN lanes |-> Low(Shr(lanes[k], a), ByteBits * half)]
           vec == IF i.op = "SHRN2" THEN PackedOver(Vec(i, 1, c), 8, narrowed, half) ELSE Packed(narrowed, half)
<1>1. i.op \in BinaryOps /\ i.op \in TernaryOps
  BY DEF BinaryOps, TernaryOps, VectorOps
<1>2. es \in {2, 4, 8}
  <2> DEFINE s == get_vec_elem_size(i.ops[2])
  <2>1. IsOperand(i.ops[2]) /\ i.ops[2].kind = "reg"
    BY <1>1, Inputs DEF IsResolvedInst, IsInstruction
  <2>2. s \in {1, 2, 4, 8}
    BY <2>1 DEF IsOperand, get_vec_elem_size
  <2> HIDE DEF s
  <2>3. {s, 2} \in SUBSET (-8 .. 8) /\ {s, 2} # {} /\ 8 \in Nat
    BY <2>2
  <2>4. Max({s, 2}) \in {s, 2} /\ Max({s, 2}) >= 2
    BY <2>3, Extremes
  <2>5. Max({s, 2}) \in {2, 4, 8}
    BY <2>2, <2>4
  <2> QED  BY <2>5 DEF s
<1> HIDE DEF es
<1>3. es \in LaneSizes /\ half \in LaneSizes
  BY <1>2 DEF LaneSizes
<1>4. a \in Nat /\ ByteBits * half \in Nat
  <2>1. get_operand_val(i.ops[3], c) \in Nat
    BY <1>1, Inputs
  <2>2. ByteBits * es \in Nat \ {0} /\ ByteBits * half \in Nat
    <3> HIDE DEF half
    <3> QED  BY <1>3, LaneWidth
  <2> QED  BY <2>1, <2>2
<1>5. \A k \in DOMAIN lanes : lanes[k] \in Nat
  <2>1. \A k \in 0 .. 16 \div es - 1 : LaneAt(Vec(i, 2, c), k, es) \in Nat
    BY <1>3, VecTyped, LaneTyped
  <2> QED  BY <2>1 DEF Lanes
<1> HIDE DEF half, a, lanes
<1>6. ASSUME NEW k \in DOMAIN lanes PROVE Low(Shr(lanes[k], a), ByteBits * half) \in Int
  <2> DEFINE m == ByteBits * half
  <2>1. m \in Nat
    BY <1>4
  <2> HIDE DEF m
  <2>2. Shr(lanes[k], a) \in Int
    BY <1>4, <1>5, ShrNat
  <2>3. Low(Shr(lanes[k], a), m) \in Nat
    BY <2>1, <2>2, LowNat
  <2> QED  BY <2>3 DEF m
<1>7. \A k \in DOMAIN narrowed : narrowed[k] \in Int
  BY <1>6
<1> HIDE DEF narrowed
<1>8. vec \in Vector
  <2>1. Vec(i, 1, c) \in Vector /\ 8 \in Nat
    BY VecTyped
  <2>2. PackedOver(Vec(i, 1, c), 8, narrowed, half) \in Vector
    BY <1>3, <1>7, <2>1, PackedOverTyped
  <2>3. Packed(narrowed, half) \in Vector
    BY <1>3, <1>7, PackedTyped
  <2> QED  BY <2>2, <2>3
<1>9. Narrow(i, c) = PutVec(i, vec, c)
  BY DEF Narrow, es, half, a, lanes, narrowed
<1> HIDE DEF vec
<1> QED  BY <1>8, <1>9, PutVecTyped

LEMMA ChangeWidthTyped ==
  ASSUME NEW c \in CpuContext, NEW i, IsResolvedInst(i)
  PROVE  ChangeWidth(i, c) \in CpuContext
<1> DEFINE a == Vec(i, 2, c)
           short == [k \in 0 .. 3 |-> Low(LaneAt(a, k, 4), HBits)]
           long == [k \in 0 .. 3 |-> IF i.op \in {"SXTL", "SXTL2"} THEN SignExtend(LaneAt(a, k, 2), HBits)
                                     ELSE LaneAt(a, k, 2)]
           vec == IF i.op \in {"XTN", "XTN2"} THEN Packed(short, 2) ELSE Packed(long, 4)
<1>1. 2 \in LaneSizes /\ 4 \in LaneSizes /\ 16 \div 4 = 4 /\ 16 \div 2 = 8 /\ HBits \in Nat
  BY Widths DEF LaneSizes
<1>2. a \in Vector
  BY VecTyped
<1> HIDE DEF a
<1>3. ASSUME NEW k \in 0 .. 3
      PROVE  /\ Low(LaneAt(a, k, 4), HBits) \in Int
             /\ SignExtend(LaneAt(a, k, 2), HBits) \in Int /\ LaneAt(a, k, 2) \in Int
  <2> DEFINE x == LaneAt(a, k, 4)
             y == LaneAt(a, k, 2)
  <2>1. k \in 0 .. 16 \div 4 - 1 /\ k \in 0 .. 16 \div 2 - 1
    BY <1>1
  <2>2. x \in Int
    BY <1>1, <1>2, <2>1, LaneTyped
  <2>3. y \in Int
    BY <1>1, <1>2, <2>1, LaneTyped
  <2> HIDE DEF x, y
  <2>4. Low(x, HBits) \in Int
    BY <1>1, <2>2, LowNat
  <2>5. SignExtend(y, HBits) \in Int
    BY <1>1, <2>3, SignExtendWord, WordNat
  <2> QED  BY <2>3, <2>4, <2>5 DEF x, y
<1>4. /\ \A k \in DOMAIN short : short[k] \in Int
      /\ \A k \in DOMAIN long : long[k] \in Int
  BY <1>3
<1> HIDE DEF short, long
<1>5. vec \in Vector
  BY <1>1, <1>4, PackedTyped
<1>6. ChangeWidth(i, c) = PutVec(i, vec, c)
  BY DEF ChangeWidth, a, short, long
<1> HIDE DEF vec
<1> QED  BY <1>5, <1>6, PutVecTyped

LEMMA MoveLaneTyped ==
  ASSUME NEW c \in CpuContext, NEW i, IsResolvedInst(i), i.op \in MoveLaneOps
  PROVE  MoveLane(i, c) \in CpuContext
<1> DEFINE es == IF is_w_reg(Rd(i)) THEN 4 ELSE 8
           lane == i.ops[2].lane % (16 \div es)
           w == IF i.op # "FMOV" /\ IsVecOp(i, 2) THEN LaneAt(Vec(i, 2, c), lane, es)
                ELSE get_operand_val(i.ops[2], c)
<1>1. i.op \in BinaryOps
  BY DEF BinaryOps, VectorOps
<1>2. Rd(i) \in Registers
  <2>1. IsReg(i.ops[1]) /\ IsOperand(i.ops[1])
    BY <1>1, Inputs DEF IsResolvedInst, IsInstruction
  <2> QED  BY <2>1, OperandRegister DEF Rd
<1>3. i.op # "FMOV" => LaneAt(Vec(i, 2, c), lane, es) \in XWord
  <2> SUFFICES ASSUME i.op # "FMOV" PROVE LaneAt(Vec(i, 2, c), lane, es) \in XWord
    OBVIOUS
  <2>1. IsOperand(i.ops[2]) /\ i.ops[2].kind = "reg"
    BY <1>1, Inputs DEF IsResolvedInst, IsInstruction, MoveLaneOps
  <2>2. i.ops[2].lane \in Nat
    BY <2>1 DEF IsOperand
  <2>3. es \in {4, 8}
    OBVIOUS
  <2> HIDE DEF es
  <2>4. lane \in 0 .. 16 \div es - 1 /\ es \in LaneSizes
    BY <2>2, <2>3 DEF LaneSizes
  <2> HIDE DEF lane
  <2> QED  BY <2>4, VecTyped, LaneTyped
<1>4. get_operand_val(i.ops[2], c) \in XWord
  BY <1>1, Inputs
<1> HIDE DEF lane, es
<1>5. w \in XWord
  BY <1>3, <1>4
<1>6. MoveLane(i, c) = set_reg_val(Rd(i), w, c)
  BY DEF MoveLane, lane, es
<1> HIDE DEF w
<1> QED  BY <1>2, <1>5, <1>6, SetReg

LEMMA ExecuteVectorTyped ==
  ASSUME NEW c \in CpuContext, NEW i, IsResolvedInst(i), OnVectors(i)
  PROVE  ExecuteVector(i, c) \in CpuContext
<1> USE DEF LaneOps, LaneShiftOps, FillOps, WordShiftOps, BitOps, ByteOps, PairOps, ReduceOps, ZipOps,
            NarrowOps, WidthOps, MoveLaneOps
<1>1. CASE i.op \in LaneOps
  BY <1>1, LaneWiseTyped DEF ExecuteVector
<1>2. CASE i.op \in FillOps
  BY <1>2, FillTyped DEF ExecuteVector
<1>3. CASE i.op \in WordShiftOps
  BY <1>3, WordShiftTyped DEF ExecuteVector
<1>4. CASE i.op \in BitOps
  BY <1>4, BitWiseTyped DEF ExecuteVector
<1>5. CASE i.op \in ByteOps
  BY <1>5, BytesTyped DEF ExecuteVector
<1>6. CASE i.op \in PairOps
  BY <1>6, PairwiseTyped DEF ExecuteVector
<1>7. CASE i.op \in ReduceOps
  BY <1>7, ReduceTyped DEF ExecuteVector
<1>8. CASE i.op \in ZipOps
  BY <1>8, ZipWordsTyped DEF ExecuteVector
<1>9. CASE i.op \in NarrowOps
  BY <1>9, NarrowTyped DEF ExecuteVector
<1>10. CASE i.op \in WidthOps
  BY <1>10, ChangeWidthTyped DEF ExecuteVector
<1>11. CASE i.op \in MoveLaneOps
  BY <1>11, MoveLaneTyped DEF ExecuteVector
<1> QED  BY <1>1, <1>2, <1>3, <1>4, <1>5, <1>6, <1>7, <1>8, <1>9, <1>10, <1>11 DEF OnVectors, VectorOps

-----------------------------------------------------------------------------
(* Memory. *)

LEMMA StoredTyped ==
  ASSUME NEW m, HoldsBytes(m), NEW addr, NEW bytes, HoldsBytes(bytes)
  PROVE  HoldsBytes(Stored(m, addr, bytes))
BY DEF HoldsBytes, Stored

LEMMA WordBytesRange ==
  ASSUME NEW reg \in Registers
  PROVE  WordBytes(reg) \in {1, 2, 4, 8, 16} /\ (~IsVec(reg) => WordBytes(reg) \in {4, 8})
BY DEF WordBytes, Registers, IsVec

LEMMA LoadedTyped ==
  ASSUME NEW c \in CpuContext, NEW reg \in Registers, NEW len \in Nat,
         ~IsVec(reg) => len <= 8, NEW bytes \in [0 .. len - 1 -> Byte]
  PROVE  Loaded(reg, bytes, c) \in CpuContext
<1>1. CASE IsVec(reg)
  BY <1>1, ZeroedType, FieldWrites, ZeroWord DEF Loaded
<1>2. CASE ~IsVec(reg)
  <2>1. len \in 0 .. 8
    BY <1>2
  <2>2. FromBytes(bytes) \in XWord
    BY <2>1, FromBytesWord
  <2> QED  BY <1>2, <2>2, SetReg DEF Loaded
<1> QED  BY <1>1, <1>2

LEMMA BytesOfTyped ==
  ASSUME NEW c \in CpuContext, NEW i, IsResolvedInst(i), NEW k \in 1 .. Len(i.ops),
         NEW len \in 0 .. 16
  PROVE  BytesOf(i, k, len, c) \in [0 .. len - 1 -> Byte]
<1>1. CASE IsVecOp(i, k)
  <2>1. Vec(i, k, c) \in Vector /\ Vec(i, k, c) = c.v[i.ops[k].reg.n]
    BY <1>1, VecTyped DEF Vec
  <2> DEFINE vec == Vec(i, k, c)
  <2>2. BytesOf(i, k, len, c) = [j \in 0 .. len - 1 |-> vec[j]]
    BY <1>1, <2>1 DEF BytesOf
  <2>3. vec \in Vector /\ 0 .. len - 1 \subseteq VBytes
    BY <2>1 DEF VBytes
  <2> HIDE DEF vec
  <2>4. [j \in 0 .. len - 1 |-> vec[j]] \in [0 .. len - 1 -> Byte]
    BY <2>3 DEF Vector
  <2> QED  BY <2>2, <2>4
<1>2. CASE ~IsVecOp(i, k)
  <2> DEFINE w == get_operand_val(i.ops[k], c)
  <2>1. w \in Nat /\ len \in Nat
    BY Inputs
  <2> HIDE DEF w
  <2>2. ToBytes(w, len) \in [0 .. len - 1 -> Byte]
    BY <2>1, ToBytesType
  <2> QED  BY <1>2, <2>2 DEF BytesOf, w
<1> QED  BY <1>1, <1>2

-----------------------------------------------------------------------------
(* A step that ends in a context and a memory of the right type keeps the  *)
(* invariant.                                                              *)

LEMMA RetireTyped ==
  ASSUME NEW c \in CpuContext, NEW m, HoldsBytes(m), NEW pc \in XWord, Retire(c, m, pc)
  PROVE  TypeOK'
<1>1. [c EXCEPT !.pc = pc] \in CpuContext
  BY FieldWrites
<1> QED  BY <1>1 DEF Retire, TypeOK, HoldsBytes, Byte

LEMMA FailTyped ==
  ASSUME NEW c \in CpuContext, NEW m, HoldsBytes(m), Fail(c, m)
  PROVE  TypeOK'
BY DEF Fail, TypeOK, HoldsBytes, Byte

(* What an arm may count on: the instruction is the decoder's.             *)
LEMMA Executing ==
  ASSUME TypeOK, NEW ops, Executes(ops)
  PROVE  /\ IsResolvedInst(Inst) /\ Inst.op \in ops
         /\ ctx \in CpuContext /\ HoldsBytes(mem)
         /\ NextPc \in XWord /\ ctx.pc \in XWord
<1>1. ctx \in CpuContext /\ MemoryTyped /\ HoldsBytes(mem)
  BY DEF TypeOK, MemoryTyped, HoldsBytes, Byte
<1>2. ctx.pc \in XWord /\ ctx.pc \in Int
  BY <1>1, ContextFields, WordNat
<1>3. IsResolvedInst(Inst)
  BY <1>1, <1>2, FetchedInstruction DEF Executes, Fetched, Inst
<1>4. NextPc \in XWord
  <2>1. ctx.pc + InsBytes \in Int
    BY <1>2 DEF InsBytes
  <2> QED  BY <2>1, WrapWord DEF NextPc
<1> QED  BY <1>1, <1>2, <1>3, <1>4 DEF Executes

LEMMA SimpleSteps ==
  ASSUME TypeOK, FetchFault \/ SkipUndecoded \/ Undefined \/ DcZva \/ OverflowPanic
  PROVE  TypeOK'
<1>0. ctx \in CpuContext /\ HoldsBytes(mem)
  BY DEF TypeOK, HoldsBytes, Byte
<1>1. CASE FetchFault
  BY <1>0, <1>1, FailTyped DEF FetchFault
<1>2. CASE SkipUndecoded
  BY <1>0, <1>2, Executing, RetireTyped DEF SkipUndecoded
<1>3. CASE Undefined
  BY <1>0, <1>3, FailTyped DEF Undefined
<1>4. CASE DcZva
  <2> DEFINE rt == get_x(Rd(Inst).n, ctx)
             zeros == [j \in 0 .. ZvaBytes - 1 |-> 0]
             m == Stored(mem, rt - (rt % ZvaBytes), zeros)
  <2>1. HoldsBytes(zeros)
    BY ZeroWord, Widths, PowerPositive DEF HoldsBytes, Byte
  <2>2. HoldsBytes(m)
    <3> HIDE DEF zeros
    <3> QED  BY <1>0, <2>1, StoredTyped
  <2>3. Retire(ctx, m, NextPc) /\ NextPc \in XWord
    BY <1>4, Executing DEF DcZva
  <2> HIDE DEF m
  <2> QED  BY <1>0, <2>2, <2>3, RetireTyped
<1>5. CASE OverflowPanic
  BY <1>5 DEF OverflowPanic, TypeOK
<1> QED  BY <1>1, <1>2, <1>3, <1>4, <1>5

LEMMA ProcessingSteps ==
  ASSUME TypeOK, DataProcessing \/ VectorProcessing
  PROVE  TypeOK'
<1>1. CASE DataProcessing
  <2>1. Executes(DataOps)
    BY <1>1 DEF DataProcessing
  <2>2. Execute(Inst, ctx) \in CpuContext /\ HoldsBytes(mem) /\ NextPc \in XWord
    BY <2>1, Executing, ExecuteTyped
  <2>3. CASE Retire(Execute(Inst, ctx), mem, NextPc)
    BY <2>2, <2>3, RetireTyped
  <2>4. CASE ret' = "panic" /\ UNCHANGED <<ctx, mem>>
    BY <2>4 DEF TypeOK
  <2> QED  BY <1>1, <2>3, <2>4 DEF DataProcessing
<1>2. CASE VectorProcessing
  <2>1. Executes(VectorOps) /\ OnVectors(Inst)
    BY <1>2 DEF VectorProcessing
  <2>2. ExecuteVector(Inst, ctx) \in CpuContext /\ HoldsBytes(mem) /\ NextPc \in XWord
    BY <2>1, Executing, ExecuteVectorTyped
  <2> QED  BY <1>2, <2>2, RetireTyped DEF VectorProcessing
<1> QED  BY <1>1, <1>2

LEMMA BranchSteps ==
  ASSUME TypeOK, Branch \/ BranchIf \/ CompareBranch \/ TestBranch \/ BranchLink \/ Return
  PROVE  TypeOK'
<1>0. ctx \in CpuContext /\ HoldsBytes(mem)
  BY DEF TypeOK, HoldsBytes, Byte
<1>1. ASSUME NEW ops, Executes(ops), ops \subseteq UnaryOps \cup BinaryOps \cup TernaryOps,
             NEW c \in CpuContext
      PROVE  /\ NextPc \in XWord
             /\ Inst.op \in UnaryOps => get_operand_val(Inst.ops[1], c) \in XWord
             /\ Inst.op \in BinaryOps => get_operand_val(Inst.ops[2], c) \in XWord
             /\ Inst.op \in TernaryOps => get_operand_val(Inst.ops[3], c) \in XWord
  <2>1. IsResolvedInst(Inst) /\ NextPc \in XWord
    BY <1>1, Executing
  <2> QED  BY <2>1, Inputs
<1>2. CASE Branch
  <2>1. Executes({"B", "BR"})
    BY <1>2 DEF Branch
  <2>2. Inst.op \in UnaryOps /\ {"B", "BR"} \subseteq UnaryOps
    BY <2>1 DEF Executes, UnaryOps
  <2>3. Target(1) \in XWord
    BY <1>0, <1>1, <2>1, <2>2 DEF Target
  <2> QED  BY <1>0, <1>2, <2>3, RetireTyped DEF Branch
<1>3. CASE BranchIf
  <2>1. Executes({"B_COND"})
    BY <1>3 DEF BranchIf
  <2>2. Inst.op \in UnaryOps /\ {"B_COND"} \subseteq UnaryOps
    BY <2>1 DEF Executes, UnaryOps
  <2>3. Target(1) \in XWord /\ NextPc \in XWord
    BY <1>0, <1>1, <2>1, <2>2 DEF Target
  <2> QED  BY <1>0, <1>3, <2>3, RetireTyped DEF BranchIf
<1>4. CASE CompareBranch
  <2>1. Executes({"CBZ", "CBNZ"})
    BY <1>4 DEF CompareBranch
  <2>2. Inst.op \in BinaryOps /\ {"CBZ", "CBNZ"} \subseteq BinaryOps
    BY <2>1 DEF Executes, BinaryOps
  <2>3. Target(2) \in XWord /\ NextPc \in XWord
    BY <1>0, <1>1, <2>1, <2>2 DEF Target
  <2> QED  BY <1>0, <1>4, <2>3, RetireTyped DEF CompareBranch
<1>5. CASE TestBranch
  <2>1. Executes({"TBZ", "TBNZ"})
    BY <1>5 DEF TestBranch
  <2>2. Inst.op \in TernaryOps /\ {"TBZ", "TBNZ"} \subseteq TernaryOps
    BY <2>1 DEF Executes, TernaryOps
  <2>3. Target(3) \in XWord /\ NextPc \in XWord
    BY <1>0, <1>1, <2>1, <2>2 DEF Target
  <2> QED  BY <1>0, <1>5, <2>3, RetireTyped DEF TestBranch
<1>6. CASE BranchLink
  <2> DEFINE linked == set_x(30, NextPc, ctx)
  <2>1. Executes({"BL", "BLR"})
    BY <1>6 DEF BranchLink
  <2>2. Inst.op \in UnaryOps /\ {"BL", "BLR"} \subseteq UnaryOps
    BY <2>1 DEF Executes, UnaryOps
  <2>3. linked \in CpuContext
    BY <1>0, <2>1, Executing, SetX
  <2>4. Retire(linked, mem, get_operand_val(Inst.ops[1], linked))
    BY <1>6 DEF BranchLink
  <2> HIDE DEF linked
  <2>5. get_operand_val(Inst.ops[1], linked) \in XWord
    BY <1>1, <2>1, <2>2, <2>3
  <2> QED  BY <1>0, <2>3, <2>4, <2>5, RetireTyped
<1>7. CASE Return
  <2>1. get_x(30, ctx) \in XWord
    BY <1>0, GetX
  <2> QED  BY <1>0, <1>7, <2>1, RetireTyped DEF Return
<1> QED  BY <1>2, <1>3, <1>4, <1>5, <1>6, <1>7

(* The operands of an access: the register it moves and its address.       *)
LEMMA AccessOperands ==
  ASSUME NEW c \in CpuContext, NEW i, IsResolvedInst(i)
  PROVE  /\ i.op \in LoadOps \cup StoreOps \cup {"LDP", "STP", "STXR", "STXRB"} =>
              Rd(i) \in Registers
         /\ i.op = "LDP" => i.ops[2].reg \in Registers
         /\ i.op \in LoadOps \cup StoreOps \cup ListOps =>
              /\ eval_mem_addr(i.ops[2], c).addr \in XWord
              /\ eval_mem_addr(i.ops[2], c).ctx \in CpuContext
         /\ i.op \in {"LDP", "STP", "STXR", "STXRB"} =>
              /\ eval_mem_addr(i.ops[3], c).addr \in XWord
              /\ eval_mem_addr(i.ops[3], c).ctx \in CpuContext
         /\ i.op \in LoadOps \cup StoreOps \cup ListOps =>
              1 \in 1 .. Len(i.ops) /\ 2 \in 1 .. Len(i.ops)
         /\ i.op \in {"LDP", "STP", "STXR", "STXRB"} =>
              1 \in 1 .. Len(i.ops) /\ 2 \in 1 .. Len(i.ops) /\ 3 \in 1 .. Len(i.ops)
<1>1. /\ i.op \in LoadOps \cup StoreOps \cup ListOps => i.op \in BinaryOps
      /\ i.op \in {"LDP", "STP", "STXR", "STXRB"} => i.op \in TernaryOps
  BY DEF BinaryOps, TernaryOps
<1>2. Len(i.ops) \in Nat /\ DOMAIN i.ops = 1 .. Len(i.ops)
  BY DEF IsResolvedInst, IsInstruction
<1>3. /\ i.op \in BinaryOps => 1 \in 1 .. Len(i.ops) /\ 2 \in 1 .. Len(i.ops)
      /\ i.op \in TernaryOps => 3 \in 1 .. Len(i.ops)
  BY Inputs
<1>4. 3 \in 1 .. Len(i.ops) => 1 \in 1 .. Len(i.ops) /\ 2 \in 1 .. Len(i.ops)
  BY <1>2
<1>5. \A k \in 1 .. Len(i.ops) :
        /\ IsOperand(i.ops[k]) /\ IsResolved(i.ops[k])
        /\ IsReg(i.ops[k]) => i.ops[k].reg \in Registers
        /\ i.ops[k].kind \in MemoryKinds => /\ eval_mem_addr(i.ops[k], c).addr \in XWord
                                            /\ eval_mem_addr(i.ops[k], c).ctx \in CpuContext
  BY <1>2, OperandRegister, AddressTyped DEF IsResolvedInst, IsInstruction
<1>6. i.op \in LoadOps \cup StoreOps \cup {"LDP", "STP", "STXR", "STXRB"} => Rd(i) \in Registers
  BY <1>1, <1>3, <1>4, <1>5 DEF IsResolvedInst, IsInstruction, Rd
<1>7. i.op = "LDP" => i.ops[2].reg \in Registers
  BY <1>1, <1>3, <1>4, <1>5 DEF IsResolvedInst, IsInstruction
<1>8. /\ i.op \in LoadOps \cup StoreOps \cup ListOps => i.ops[2].kind \in MemoryKinds
      /\ i.op \in {"LDP", "STP", "STXR", "STXRB"} => i.ops[3].kind \in MemoryKinds
  BY DEF IsResolvedInst, IsInstruction
<1> QED  BY <1>1, <1>3, <1>4, <1>5, <1>6, <1>7, <1>8

LEMMA LoadRegisterTyped ==
  ASSUME TypeOK, LoadRegister
  PROVE  TypeOK'
<1> DEFINE i == Inst
           ea == eval_mem_addr(i.ops[2], ctx)
           len == LoadBytes(i)
           whole == Loaded(Rd(i), BytesAt(ea.addr, len), ea.ctx)
           part == set_reg_val(Rd(i), Extended(i, Load(ea.addr, len)), ea.ctx)
<1>1. IsResolvedInst(i) /\ i.op \in LoadOps /\ ctx \in CpuContext /\ HoldsBytes(mem) /\ NextPc \in XWord
  BY Executing DEF LoadRegister
<1>2. Rd(i) \in Registers /\ ea.addr \in XWord /\ ea.ctx \in CpuContext
  BY <1>1, AccessOperands
<1>3. IF ~Mapped(ea.addr, len) THEN Fail(ea.ctx, mem)
      ELSE Retire(IF i.op = "LDR" THEN whole ELSE part, mem, NextPc)
  BY DEF LoadRegister
<1> HIDE DEF i, ea
<1>4. /\ len \in {1, 2, 4, 8, 16} /\ len \in Nat
      /\ i.op = "LDR" => (~IsVec(Rd(i)) => len <= 8)
      /\ i.op # "LDR" => len \in 0 .. 8
  BY <1>1, <1>2, WordBytesRange DEF LoadBytes, LoadOps
<1> HIDE DEF len
<1>5. CASE ~Mapped(ea.addr, len)
  BY <1>1, <1>2, <1>3, <1>5, FailTyped
<1>6. CASE Mapped(ea.addr, len)
  <2>1. BytesAt(ea.addr, len) \in [0 .. len - 1 -> Byte]
    BY <1>1, <1>2, <1>4, <1>6, WordNat, LoadRange DEF MemoryTyped
  <2>2. i.op = "LDR" => whole \in CpuContext
    BY <1>2, <1>4, <2>1, LoadedTyped
  <2>3. i.op # "LDR" => part \in CpuContext
    <3> SUFFICES ASSUME i.op # "LDR" PROVE part \in CpuContext
      OBVIOUS
    <3> DEFINE v == Load(ea.addr, len)
               m == ByteBits * LoadBytes(i)
    <3>1. v \in XWord
      BY <1>4, <2>1, FromBytesWord DEF Load
    <3>2. m \in Nat
      <4>1. LoadBytes(i) \in Nat
        BY <1>4 DEF len
      <4> QED  BY <4>1, Widths
    <3> HIDE DEF v, m
    <3>3. SignExtend(v, m) \in XWord
      BY <3>1, <3>2, WordNat, SignExtendWord
    <3>4. Extended(i, v) \in XWord
      BY <3>1, <3>3 DEF Extended, m
    <3> QED  BY <1>2, <3>4, SetReg DEF v
  <2> DEFINE c == IF i.op = "LDR" THEN whole ELSE part
  <2>4. c \in CpuContext
    BY <2>2, <2>3
  <2>5. Retire(c, mem, NextPc)
    BY <1>3, <1>6
  <2> HIDE DEF c
  <2> QED  BY <1>1, <2>4, <2>5, RetireTyped
<1> QED  BY <1>5, <1>6

LEMMA LoadPairTyped ==
  ASSUME TypeOK, LoadPair
  PROVE  TypeOK'
<1> DEFINE i == Inst
           ea == eval_mem_addr(i.ops[3], ctx)
           len == WordBytes(Rd(i))
           second == Wrap(ea.addr + len)
           once == Loaded(Rd(i), BytesAt(ea.addr, len), ea.ctx)
           twice == Loaded(i.ops[2].reg, BytesAt(second, len), once)
<1>1. IsResolvedInst(i) /\ i.op = "LDP" /\ ctx \in CpuContext /\ HoldsBytes(mem) /\ NextPc \in XWord
  BY Executing DEF LoadPair
<1>2. Rd(i) \in Registers /\ i.ops[2].reg \in Registers /\ ea.addr \in XWord /\ ea.ctx \in CpuContext
  BY <1>1, AccessOperands
<1>3. IsVec(i.ops[2].reg) = IsVec(Rd(i))
  BY <1>1 DEF IsResolvedInst, IsInstruction, IsVec
<1>4. IF Mapped(ea.addr, len) /\ Mapped(second, len) THEN Retire(twice, mem, NextPc) ELSE Fail(ea.ctx, mem)
  BY DEF LoadPair
<1> HIDE DEF i, ea
<1>5. len \in Nat /\ (~IsVec(Rd(i)) => len <= 8)
  BY <1>2, WordBytesRange
<1>6. second \in XWord
  <2>1. ea.addr + len \in Int
    BY <1>2, <1>5, WordNat
  <2> QED  BY <2>1, WrapWord
<1> HIDE DEF second
<1>7. CASE ~(Mapped(ea.addr, len) /\ Mapped(second, len))
  BY <1>1, <1>2, <1>4, <1>7, FailTyped
<1>8. CASE Mapped(ea.addr, len) /\ Mapped(second, len)
  <2>1. /\ BytesAt(ea.addr, len) \in [0 .. len - 1 -> Byte]
        /\ BytesAt(second, len) \in [0 .. len - 1 -> Byte]
    BY <1>1, <1>2, <1>5, <1>6, <1>8, WordNat, LoadRange DEF MemoryTyped
  <2>2. once \in CpuContext
    BY <1>2, <1>5, <2>1, LoadedTyped
  <2> HIDE DEF once
  <2>3. twice \in CpuContext
    BY <1>2, <1>5, <1>3, <2>1, <2>2, LoadedTyped
  <2>4. Retire(twice, mem, NextPc)
    BY <1>4, <1>8
  <2> HIDE DEF twice
  <2> QED  BY <1>1, <2>3, <2>4, RetireTyped
<1> QED  BY <1>7, <1>8

LEMMA StoreTyped ==
  ASSUME TypeOK, NEW ea, ea.ctx \in CpuContext, NEW bytes, HoldsBytes(bytes),
         NEW c \in CpuContext, NextPc \in XWord, Store(ea, bytes, c)
  PROVE  TypeOK'
<1> DEFINE after == Stored(mem, ea.addr, bytes)
<1>1. HoldsBytes(after)
  <2>1. HoldsBytes(mem)
    BY DEF TypeOK, HoldsBytes, Byte
  <2> QED  BY <2>1, StoredTyped
<1>2. Retire(c, after, NextPc) \/ Fail(ea.ctx, after)
  BY DEF Store
<1> HIDE DEF after
<1>3. CASE Retire(c, after, NextPc)
  BY <1>1, <1>3, RetireTyped
<1>4. CASE Fail(ea.ctx, after)
  BY <1>1, <1>4, FailTyped
<1> QED  BY <1>2, <1>3, <1>4

LEMMA StoreSteps ==
  ASSUME TypeOK, StoreRegister \/ StorePair \/ StoreExclusive
  PROVE  TypeOK'
<1>1. CASE StoreRegister
  <2> DEFINE i == Inst
             ea == eval_mem_addr(i.ops[2], ctx)
             len == StoreBytes(i)
             bytes == BytesOf(i, 1, len, ctx)
  <2>1. IsResolvedInst(i) /\ i.op \in StoreOps /\ ctx \in CpuContext /\ NextPc \in XWord
    BY <1>1, Executing DEF StoreRegister
  <2>2. Rd(i) \in Registers /\ ea.ctx \in CpuContext /\ 1 \in 1 .. Len(i.ops)
    BY <2>1, AccessOperands
  <2>3. Store(ea, bytes, ea.ctx)
    BY <1>1 DEF StoreRegister
  <2> HIDE DEF i, ea
  <2>4. len \in 0 .. 16
    BY <2>1, <2>2, WordBytesRange DEF StoreBytes, StoreOps
  <2> HIDE DEF len
  <2>5. HoldsBytes(bytes)
    <3>1. bytes \in [0 .. len - 1 -> Byte]
      BY <2>1, <2>2, <2>4, BytesOfTyped
    <3> HIDE DEF bytes
    <3> QED  BY <3>1 DEF HoldsBytes
  <2> HIDE DEF bytes
  <2> QED  BY <2>1, <2>2, <2>3, <2>5, StoreTyped
<1>2. CASE StorePair
  <2> DEFINE i == Inst
             ea == eval_mem_addr(i.ops[3], ctx)
             len == WordBytes(Rd(i))
             Half_(k) == BytesOf(i, k, len, ea.ctx)
             bytes == [j \in 0 .. 2 * len - 1 |-> Half_(j \div len + 1)[j % len]]
  <2>1. IsResolvedInst(i) /\ i.op = "STP" /\ ctx \in CpuContext /\ NextPc \in XWord
    BY <1>2, Executing DEF StorePair
  <2>2. /\ Rd(i) \in Registers /\ ea.ctx \in CpuContext
        /\ 1 \in 1 .. Len(i.ops) /\ 2 \in 1 .. Len(i.ops)
    BY <2>1, AccessOperands
  <2>3. Store(ea, bytes, ea.ctx)
    BY <1>2 DEF StorePair
  <2> HIDE DEF i, ea
  <2>4. len \in 0 .. 16 /\ len \in Nat \ {0}
    BY <2>2, WordBytesRange
  <2> HIDE DEF len
  <2>5. HoldsBytes(bytes)
    <3> SUFFICES ASSUME NEW j \in 0 .. 2 * len - 1 PROVE Half_(j \div len + 1)[j % len] \in Byte
      BY DEF HoldsBytes
    <3>1. j \div len + 1 \in {1, 2} /\ j % len \in 0 .. len - 1
      <4>1. j \in Nat
        OBVIOUS
      <4>2. j \div len \in {0, 1} /\ j % len \in 0 .. len - 1
        BY <2>4, <4>1
      <4> QED  BY <4>2
    <3>2. \A k \in {1, 2} : Half_(k) \in [0 .. len - 1 -> Byte]
      BY <2>1, <2>2, <2>4, BytesOfTyped
    <3> HIDE DEF Half_
    <3> QED  BY <3>1, <3>2
  <2> HIDE DEF bytes
  <2> QED  BY <2>1, <2>2, <2>3, <2>5, StoreTyped
<1>3. CASE StoreExclusive
  <2> DEFINE i == Inst
             ea == eval_mem_addr(i.ops[3], ctx)
             len == IF i.op = "STXR" THEN 8 ELSE 1
             w == get_operand_val(i.ops[2], ctx)
             bytes == ToBytes(w, len)
             c == set_reg_val(Rd(i), 0, ea.ctx)
  <2>1. IsResolvedInst(i) /\ i.op \in {"STXR", "STXRB"} /\ ctx \in CpuContext /\ NextPc \in XWord
    BY <1>3, Executing DEF StoreExclusive
  <2>2. Rd(i) \in Registers /\ ea.ctx \in CpuContext /\ 2 \in 1 .. Len(i.ops)
    BY <2>1, AccessOperands
  <2>3. Store(ea, bytes, c)
    BY <1>3 DEF StoreExclusive
  <2>4. w \in Nat /\ len \in Nat
    BY <2>1, <2>2, Inputs
  <2>5. c \in CpuContext
    BY <2>2, ZeroWord, SetReg
  <2> HIDE DEF i, ea, len, w, c
  <2>6. HoldsBytes(bytes)
    BY <2>4, ToBytesType DEF HoldsBytes
  <2> HIDE DEF bytes
  <2> QED  BY <2>1, <2>2, <2>3, <2>5, <2>6, StoreTyped
<1> QED  BY <1>1, <1>2, <1>3

-----------------------------------------------------------------------------
(* Lists of vectors. *)

LEMMA PostIndexedTyped ==
  ASSUME NEW c \in CpuContext, NEW i, IsResolvedInst(i), i.op \in ListOps
  PROVE  PostIndexed(i, c) \in CpuContext
<1>1. Len(i.ops) \in Nat /\ DOMAIN i.ops = 1 .. Len(i.ops) /\ 2 \in 1 .. Len(i.ops)
  BY AccessOperands DEF IsResolvedInst, IsInstruction
<1>2. CASE Len(i.ops) >= 3 /\ i.ops[2].kind = "mem" /\ i.ops[2].mode = "offset"
  <2> DEFINE base == i.ops[2].reg
             a == get_reg_val(base, c)
             b == get_operand_val(i.ops[3], c)
  <2>1. IsOperand(i.ops[2])
    BY <1>1 DEF IsResolvedInst, IsInstruction
  <2>2. base \in Registers
    BY <1>2, <2>1, GeneralIsRegister DEF IsOperand, MemoryKinds
  <2>3. 3 \in 1 .. Len(i.ops)
    BY <1>1, <1>2
  <2>4. a \in Int /\ b \in Int
    BY <2>2, <2>3, GetReg, WordNat, Inputs
  <2>5. PostIndexed(i, c) = set_reg_val(base, Wrap(a + b), c)
    BY <1>2 DEF PostIndexed
  <2> HIDE DEF base, a, b
  <2>6. Wrap(a + b) \in XWord
    BY <2>4, WrapWord
  <2> QED  BY <2>2, <2>5, <2>6, SetReg
<1>3. CASE ~(Len(i.ops) >= 3 /\ i.ops[2].kind = "mem" /\ i.ops[2].mode = "offset")
  BY <1>3 DEF PostIndexed
<1> QED  BY <1>2, <1>3

LEMMA WithListedTyped ==
  ASSUME NEW c \in CpuContext, NEW regs, NEW n \in Nat, NEW vecs,
         DOMAIN vecs = 1 .. n, \A k \in 1 .. n : vecs[k] \in Vector
  PROVE  WithListed(regs, c, vecs) \in CpuContext
<1> DEFINE named(r) == {k \in DOMAIN vecs : regs[k] = r}
           put(r) == IF named(r) = {} THEN c.v[r] ELSE vecs[Max(named(r))]
           v == [r \in VRegs |-> put(r)]
<1>1. ASSUME NEW r \in VRegs PROVE put(r) \in Vector
  <2>1. CASE named(r) = {}
    BY <2>1, ContextFields
  <2>2. CASE named(r) # {}
    <3> DEFINE S == named(r)
    <3>1. S \in SUBSET (-n .. n) /\ S # {}
      BY <2>2
    <3>2. S \subseteq 1 .. n
      OBVIOUS
    <3>3. put(r) = vecs[Max(S)]
      BY <2>2
    <3> HIDE DEF S, put
    <3>4. Max(S) \in S
      BY <3>1, Extremes
    <3> QED  BY <3>2, <3>3, <3>4
  <2> QED  BY <2>1, <2>2
<1> HIDE DEF put
<1>2. v \in [VRegs -> Vector]
  BY <1>1
<1>3. WithListed(regs, c, vecs) = [c EXCEPT !.v = v]
  BY DEF WithListed, put
<1> HIDE DEF v
<1> QED  BY <1>2, <1>3 DEF CpuContext, Vector, Byte

LEMMA ListOperands ==
  ASSUME NEW i, IsResolvedInst(i), i.op \in ListOps
  PROVE  /\ i.ops[1].regs \in Seq(VRegs)
         /\ get_vec_elem_size(i.ops[1]) \in LaneSizes
         /\ ListedBytes(i) \in {8, 16}
<1>1. 1 \in 1 .. Len(i.ops) /\ i.ops[1].kind = "multireg" /\ DOMAIN i.ops = 1 .. Len(i.ops)
  <2>1. i.op \in BinaryOps
    BY DEF BinaryOps
  <2>2. 1 \in 1 .. Len(i.ops)
    BY <2>1 DEF IsResolvedInst, IsInstruction
  <2>3. i.ops[1].kind = "multireg" /\ DOMAIN i.ops = 1 .. Len(i.ops)
    BY DEF IsResolvedInst, IsInstruction
  <2> QED  BY <2>2, <2>3
<1>2. IsOperand(i.ops[1])
  BY <1>1 DEF IsResolvedInst, IsInstruction
<1> QED  BY <1>1, <1>2 DEF IsOperand, LaneSizes, get_vec_elem_size, ListedBytes

LEMMA LoadVectorsTyped ==
  ASSUME TypeOK, LoadVectors
  PROVE  TypeOK'
<1> DEFINE i == Inst
           ea == eval_mem_addr(i.ops[2], ctx)
           regs == i.ops[1].regs
           len == IF i.op = "LD1R" THEN get_vec_elem_size(i.ops[1]) ELSE ListedBytes(i)
           addr(k) == IF i.op = "LD1R" THEN ea.addr ELSE Wrap(ea.addr + len * (k - 1))
           vec(k) == IF i.op = "LD1R" THEN [j \in VBytes |-> mem[ea.addr + (j % len)]]
                     ELSE Zeroed(BytesAt(addr(k), len))
           Read(m) == WithListed(regs, ea.ctx, [k \in 1 .. m |-> vec(k)])
           S == {m \in 0 .. Len(regs) : \A k \in 1 .. m : Mapped(addr(k), len)}
           n == Max(S)
<1>1. IsResolvedInst(i) /\ i.op \in {"LD1", "LD1R"} /\ ctx \in CpuContext /\ HoldsBytes(mem) /\ NextPc \in XWord
  BY Executing DEF LoadVectors
<1>2. ea.addr \in XWord /\ ea.ctx \in CpuContext /\ ea.addr \in Int
  BY <1>1, AccessOperands, WordNat DEF ListOps
<1>3. regs \in Seq(VRegs) /\ len \in {1, 2, 4, 8, 16}
  BY <1>1, ListOperands DEF ListOps, LaneSizes
<1>4. IF n < Len(regs) THEN Fail(Read(n), mem) ELSE Retire(PostIndexed(i, Read(n)), mem, NextPc)
  BY DEF LoadVectors
<1> HIDE DEF i, ea, regs, len
<1>5. ASSUME NEW k \in Nat PROVE addr(k) \in Int
  <2>1. ea.addr + len * (k - 1) \in Int
    BY <1>2, <1>3
  <2>2. Wrap(ea.addr + len * (k - 1)) \in XWord
    BY <2>1, WrapWord
  <2> QED  BY <1>2, <2>2, WordNat
<1>6. n \in S /\ n \in Nat
  <2>1. Len(regs) \in Nat
    BY <1>3
  <2>2. 0 \in S
    BY <2>1
  <2>3. S \in SUBSET (-Len(regs) .. Len(regs)) /\ S # {}
    BY <2>1, <2>2
  <2>4. S \subseteq Nat
    OBVIOUS
  <2> HIDE DEF S
  <2>5. Max(S) \in S
    BY <2>1, <2>3, Extremes
  <2> QED  BY <2>4, <2>5
<1> HIDE DEF n
<1>7. ASSUME NEW k \in 1 .. n PROVE vec(k) \in Vector
  <2>1. Mapped(addr(k), len) /\ addr(k) \in Int /\ len \in Nat /\ MemoryTyped
    <3>1. k \in Nat
      BY <1>6
    <3>2. addr(k) \in Int
      BY <1>5, <3>1
    <3> HIDE DEF addr
    <3>3. \A q \in 1 .. n : Mapped(addr(q), len)
      BY <1>6
    <3> QED  BY <1>1, <1>3, <3>2, <3>3 DEF MemoryTyped
  <2>2. BytesAt(addr(k), len) \in [0 .. len - 1 -> Byte]
    BY <2>1, LoadRange
  <2>3. Zeroed(BytesAt(addr(k), len)) \in Vector
    <3> DEFINE b == BytesAt(addr(k), len)
    <3>1. b \in [0 .. len - 1 -> Byte]
      BY <2>2
    <3> HIDE DEF b
    <3>2. Zeroed(b) \in Vector
      BY <3>1, ZeroedType
    <3> QED  BY <3>2 DEF b
  <2>4. i.op = "LD1R" => [j \in VBytes |-> mem[ea.addr + (j % len)]] \in Vector
    <3>1. \A j \in VBytes : j % len \in 0 .. len - 1
      BY <1>3 DEF VBytes
    <3>2. i.op = "LD1R" => \A j \in 0 .. len - 1 : mem[ea.addr + j] \in Byte
      BY <1>1, <2>1 DEF Mapped, HoldsBytes
    <3> QED  BY <3>1, <3>2 DEF Vector
  <2> QED  BY <2>3, <2>4
<1> HIDE DEF vec
<1>8. Read(n) \in CpuContext
  <2> DEFINE vecs == [k \in 1 .. n |-> vec(k)]
  <2>1. DOMAIN vecs = 1 .. n /\ \A k \in 1 .. n : vecs[k] \in Vector
    BY <1>7
  <2> HIDE DEF vecs
  <2>2. WithListed(regs, ea.ctx, vecs) \in CpuContext
    BY <1>2, <1>6, <2>1, WithListedTyped
  <2> QED  BY <2>2 DEF vecs
<1> DEFINE c == Read(n)
<1>9. c \in CpuContext /\ (Fail(c, mem) \/ Retire(PostIndexed(i, c), mem, NextPc))
  BY <1>4, <1>8
<1> HIDE DEF c
<1>10. PostIndexed(i, c) \in CpuContext
  BY <1>1, <1>9, PostIndexedTyped DEF ListOps
<1> QED  BY <1>1, <1>9, <1>10, FailTyped, RetireTyped

LEMMA StoreVectorsTyped ==
  ASSUME TypeOK, StoreVectors
  PROVE  TypeOK'
<1> DEFINE i == Inst
           ea == eval_mem_addr(i.ops[2], ctx)
           regs == i.ops[1].regs
           size == ListedBytes(i)
           bytes == [j \in 0 .. size * Len(regs) - 1 |-> ctx.v[regs[j \div size + 1]][j % size]]
<1>1. IsResolvedInst(i) /\ i.op = "ST1" /\ ctx \in CpuContext /\ NextPc \in XWord
  <2>1. Executes({"ST1"})
    BY DEF StoreVectors
  <2> QED  BY <2>1, Executing
<1>2. ea.ctx \in CpuContext
  BY <1>1, AccessOperands DEF ListOps
<1>3. regs \in Seq(VRegs) /\ size \in {8, 16}
  BY <1>1, ListOperands DEF ListOps
<1>4. Store(ea, bytes, PostIndexed(i, ea.ctx))
  BY DEF StoreVectors
<1>5. PostIndexed(i, ea.ctx) \in CpuContext
  <2> HIDE DEF ea
  <2> QED  BY <1>1, <1>2, PostIndexedTyped DEF ListOps
<1> HIDE DEF i, ea, regs, size
<1>6. HoldsBytes(bytes)
  <2> SUFFICES ASSUME NEW j \in 0 .. size * Len(regs) - 1
               PROVE  ctx.v[regs[j \div size + 1]][j % size] \in Byte
    BY DEF HoldsBytes
  <2> DEFINE count == Len(regs)
  <2>1. count \in Nat /\ j \in 0 .. size * count - 1
    BY <1>3
  <2> HIDE DEF count
  <2>2. j \div size + 1 \in 1 .. count /\ j % size \in VBytes
    <3>1. CASE size = 8
      BY <2>1, <3>1 DEF VBytes
    <3>2. CASE size = 16
      BY <2>1, <3>2 DEF VBytes
    <3> QED  BY <1>3, <3>1, <3>2
  <2>3. regs[j \div size + 1] \in VRegs
    BY <1>3, <2>2 DEF count
  <2>4. ctx.v[regs[j \div size + 1]] \in Vector
    BY <1>1, <2>3, ContextFields
  <2> QED  BY <2>2, <2>4 DEF Vector
<1> HIDE DEF bytes
<1> QED  BY <1>1, <1>2, <1>4, <1>5, <1>6, StoreTyped

LEMMA LoadStructuresTyped ==
  ASSUME TypeOK, LoadStructures
  PROVE  TypeOK'
<1> DEFINE i == Inst
           ea == eval_mem_addr(i.ops[2], ctx)
           regs == i.ops[1].regs
           n == Len(regs)
           vec(r) == [j \in VBytes |-> mem[ea.addr + ((j \div 4) * n + r - 1) * 4 + (j % 4)]]
           vecs == [r \in 1 .. n |-> vec(r)]
           loaded == IF Mapped(ea.addr, 16 * n) THEN WithListed(regs, ea.ctx, vecs) ELSE ea.ctx
<1>1. IsResolvedInst(i) /\ i.op \in ListOps /\ ctx \in CpuContext /\ HoldsBytes(mem) /\ NextPc \in XWord
  BY Executing DEF LoadStructures, ListOps
<1>2. ea.addr \in XWord /\ ea.ctx \in CpuContext /\ ea.addr \in Int
  BY <1>1, AccessOperands, WordNat
<1>3. n \in Nat
  BY <1>1, ListOperands
<1>4. Retire(PostIndexed(i, loaded), mem, NextPc)
  BY DEF LoadStructures
<1> HIDE DEF i, ea, regs, n
<1>5. loaded \in CpuContext
  <2>1. CASE Mapped(ea.addr, 16 * n)
    <3>1. ASSUME NEW r \in 1 .. n, NEW j \in VBytes
          PROVE  mem[ea.addr + ((j \div 4) * n + r - 1) * 4 + (j % 4)] \in Byte
      <4> DEFINE q == ((j \div 4) * n + r - 1) * 4 + (j % 4)
      <4>1. q \in 0 .. 16 * n - 1
        <5>1. j \div 4 \in {0, 1, 2, 3} /\ j % 4 \in 0 .. 3
          BY DEF VBytes
        <5>2. (j \div 4) * n \in {0, n, 2 * n, 3 * n}
          BY <1>3, <5>1
        <5> DEFINE x == (j \div 4) * n
        <5> HIDE DEF x
        <5>3. x \in Nat /\ x <= 3 * n
          BY <1>3, <5>2 DEF x
        <5>4. (x + r - 1) * 4 + (j % 4) \in 0 .. 16 * n - 1
          BY <1>3, <5>1, <5>3
        <5> QED  BY <5>4 DEF x
      <4>2. ea.addr + ((j \div 4) * n + r - 1) * 4 + (j % 4) = ea.addr + q
        <5>1. (j \div 4) * n \in Int /\ j % 4 \in Int
          BY <1>3 DEF VBytes
        <5> DEFINE x == (j \div 4) * n
                   y == j % 4
        <5> HIDE DEF x, y
        <5>2. ea.addr + (x + r - 1) * 4 + y = ea.addr + ((x + r - 1) * 4 + y)
          BY <1>2, <1>3, <5>1 DEF x, y
        <5> QED  BY <5>2 DEF x, y
      <4> HIDE DEF q
      <4>3. mem[ea.addr + q] \in Byte
        BY <1>1, <2>1, <4>1 DEF Mapped, HoldsBytes
      <4> QED  BY <4>2, <4>3
    <3>2. \A r \in 1 .. n : vec(r) \in Vector
      BY <3>1 DEF Vector
    <3> HIDE DEF vec
    <3>3. DOMAIN vecs = 1 .. n /\ \A r \in 1 .. n : vecs[r] \in Vector
      BY <3>2
    <3> HIDE DEF vecs
    <3> QED  BY <1>2, <1>3, <2>1, <3>3, WithListedTyped
  <2>2. CASE ~Mapped(ea.addr, 16 * n)
    BY <1>2, <2>2
  <2> QED  BY <2>1, <2>2
<1> HIDE DEF loaded
<1> QED  BY <1>1, <1>4, <1>5, PostIndexedTyped, RetireTyped

-----------------------------------------------------------------------------
(* System calls, and the invariant.                                        *)

LEMMA SupervisorCallTyped ==
  ASSUME TypeOK, SupervisorCall
  PROVE  TypeOK'
<1> DEFINE nr == get_x(8, ctx)
           x0 == get_x(0, ctx)
<1>1. ctx \in CpuContext /\ HoldsBytes(mem) /\ NextPc \in XWord
  BY Executing DEF SupervisorCall
<1>2. x0 \in XWord
  BY <1>1, GetX
<1> DEFINE stopped == [ctx EXCEPT !.exited = TRUE, !.exit_code = Low(x0, WBits)]
           threaded == set_x(0, 0, [ctx EXCEPT !.tpidr_el0 = x0])
<1>3. stopped \in CpuContext
  <2>1. Low(x0, WBits) \in 0 .. 2^WBits - 1
    <3> HIDE DEF x0
    <3>1. x0 \in Int /\ WBits \in Nat
      BY <1>2, Widths, WordNat
    <3> QED  BY <3>1, LowRange
  <2> QED  BY <1>1, <2>1 DEF CpuContext
<1>4. threaded \in CpuContext /\ set_x(0, 0, ctx) \in CpuContext
  <2> HIDE DEF x0
  <2>1. [ctx EXCEPT !.tpidr_el0 = x0] \in CpuContext
    BY <1>1, <1>2, FieldWrites
  <2> QED  BY <1>1, <2>1, ZeroWord, SetX
<1>5. \/ ctx' = stopped /\ ret' = "stopped" /\ UNCHANGED mem
      \/ Retire(threaded, mem, NextPc)
      \/ Retire(set_x(0, 0, ctx), mem, NextPc)
  BY DEF SupervisorCall
<1> HIDE DEF stopped, threaded
<1>6. CASE ctx' = stopped /\ ret' = "stopped" /\ UNCHANGED mem
  BY <1>1, <1>3, <1>6 DEF TypeOK, HoldsBytes, Byte
<1>7. CASE Retire(threaded, mem, NextPc)
  BY <1>1, <1>4, <1>7, RetireTyped
<1>8. CASE Retire(set_x(0, 0, ctx), mem, NextPc)
  <2> DEFINE c == set_x(0, 0, ctx)
  <2>1. c \in CpuContext /\ Retire(c, mem, NextPc)
    BY <1>4, <1>8
  <2> HIDE DEF c
  <2> QED  BY <1>1, <2>1, RetireTyped
<1> QED  BY <1>5, <1>6, <1>7, <1>8

(* Every arm of step leaves the registers, the flags and the memory in     *)
(* their ranges, whatever the decoder answers: no arm writes more bits     *)
(* than its register has, or a byte that is none.                          *)
THEOREM InterpreterTyped == Spec => []TypeOK
<1>1. Init => TypeOK
  BY ImagesAssumption DEF Init, TypeOK
<1>2. TypeOK /\ [step]_vars => TypeOK'
  <2> SUFFICES ASSUME TypeOK, [step]_vars PROVE TypeOK'
    OBVIOUS
  <2>1. CASE step
    BY <2>1, SimpleSteps, ProcessingSteps, BranchSteps, LoadRegisterTyped, LoadPairTyped, StoreSteps,
       LoadVectorsTyped, StoreVectorsTyped, LoadStructuresTyped, SupervisorCallTyped DEF step
  <2>2. CASE UNCHANGED vars
    BY <2>2 DEF TypeOK, vars
  <2> QED  BY <2>1, <2>2
<1> QED  BY <1>1, <1>2, PTL DEF Spec

=============================================================================
