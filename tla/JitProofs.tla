------------------------------- MODULE JitProofs -------------------------------
(***************************************************************************)
(* Proofs about the JIT: the blocks it keeps are of the right form, and    *)
(* while the host code that runs stands for the instruction the guest is   *)
(* at, the JIT implements the interpreter.                                 *)
(***************************************************************************)
EXTENDS JitEngine, InterpreterProofs

(* The interpreter the JIT stands in for has the constants and the         *)
(* operators of the interpreter: an instance is a copy, and each operator  *)
(* that reads no variable is the same one.                                 *)

LEMMA SameConstants ==
  /\ Interp!InsBytes = InsBytes /\ Interp!XBits = XBits /\ Interp!AddSubOps = AddSubOps
  /\ Interp!NegOps = NegOps /\ Interp!MoveOps = MoveOps /\ Interp!MultiplyOps = MultiplyOps
  /\ Interp!DivideOps = DivideOps /\ Interp!LogicOps = LogicOps /\ Interp!ExtendOps = ExtendOps
  /\ Interp!BitfieldOps = BitfieldOps /\ Interp!ShiftOps = ShiftOps
  /\ Interp!SelectOps = SelectOps /\ Interp!CompareIfOps = CompareIfOps
  /\ Interp!InsertZeroOps = InsertZeroOps /\ Interp!ReverseOps = ReverseOps
  /\ Interp!SystemOps = SystemOps /\ Interp!NoOps = NoOps /\ Interp!DataOps = DataOps
  /\ Interp!LaneShiftOps = LaneShiftOps /\ Interp!LaneOps = LaneOps /\ Interp!FillOps = FillOps
  /\ Interp!WordShiftOps = WordShiftOps /\ Interp!BitOps = BitOps /\ Interp!ByteOps = ByteOps
  /\ Interp!PairOps = PairOps /\ Interp!ReduceOps = ReduceOps /\ Interp!ZipOps = ZipOps
  /\ Interp!NarrowOps = NarrowOps /\ Interp!WidthOps = WidthOps
  /\ Interp!MoveLaneOps = MoveLaneOps /\ Interp!VectorOps = VectorOps
  /\ Interp!SharedOps = SharedOps /\ Interp!WSP = WSP /\ Interp!WBits = WBits /\ Interp!SP = SP
  /\ Interp!HBits = HBits /\ Interp!Comparing = Comparing /\ Interp!VBytes = VBytes
  /\ Interp!Zeros = Zeros /\ Interp!MaxOps = MaxOps /\ Interp!LoadOps = LoadOps
  /\ Interp!NoShift = NoShift /\ Interp!StoreOps = StoreOps /\ Interp!Handled = Handled
BY DEF Interp!InsBytes, Interp!XBits, Interp!AddSubOps, Interp!NegOps, Interp!MoveOps,
       Interp!MultiplyOps, Interp!DivideOps, Interp!LogicOps, Interp!ExtendOps, Interp!BitfieldOps,
       Interp!ShiftOps, Interp!SelectOps, Interp!CompareIfOps, Interp!InsertZeroOps,
       Interp!ReverseOps, Interp!SystemOps, Interp!NoOps, Interp!DataOps, Interp!LaneShiftOps,
       Interp!LaneOps, Interp!FillOps, Interp!WordShiftOps, Interp!BitOps, Interp!ByteOps,
       Interp!PairOps, Interp!ReduceOps, Interp!ZipOps, Interp!NarrowOps, Interp!WidthOps,
       Interp!MoveLaneOps, Interp!VectorOps, Interp!SharedOps, Interp!WSP, Interp!W, Interp!WBits,
       Interp!SP, Interp!X, Interp!HBits, Interp!Comparing, Interp!VBytes, Interp!Zeros,
       Interp!Zeroed, Interp!MaxOps, Interp!LoadOps, Interp!NoShift, Interp!Shift, Interp!StoreOps,
       Interp!Handled, InsBytes, XBits, AddSubOps, NegOps, MoveOps, MultiplyOps, DivideOps,
       LogicOps, ExtendOps, BitfieldOps, ShiftOps, SelectOps, CompareIfOps, InsertZeroOps,
       ReverseOps, SystemOps, NoOps, DataOps, LaneShiftOps, LaneOps, FillOps, WordShiftOps, BitOps,
       ByteOps, PairOps, ReduceOps, ZipOps, NarrowOps, WidthOps, MoveLaneOps, VectorOps, SharedOps,
       WSP, W, WBits, SP, X, HBits, Comparing, VBytes, Zeros, Zeroed, MaxOps, LoadOps, NoShift,
       Shift, StoreOps, Handled

LEMMA SameWords ==
  /\ \A S : Interp!Max(S) = Max(S)
  /\ \A S : Interp!Min(S) = Min(S)
  /\ \A S : Interp!Cardinality(S) = Cardinality(S)
  /\ \A d, w, n : Interp!OfDigits(d, w, n) = OfDigits(d, w, n)
  /\ \A b : Interp!FromBytes(b) = FromBytes(b)
  /\ \A v, n : Interp!Low(v, n) = Low(v, n)
  /\ \A v : Interp!Wrap(v) = Wrap(v)
  /\ \A v, a, n : Interp!Shl(v, a, n) = Shl(v, a, n)
  /\ \A v, a : Interp!Shr(v, a) = Shr(v, a)
  /\ \A v, n : Interp!Signed(v, n) = Signed(v, n)
  /\ \A v, a, n : Interp!Asr(v, a, n) = Asr(v, a, n)
  /\ \A v, a, n : Interp!Ror(v, a, n) = Ror(v, a, n)
  /\ \A v, n : Interp!SignExtend(v, n) = SignExtend(v, n)
  /\ \A n : Interp!Ones(n) = Ones(n)
  /\ \A v, k : Interp!ToBytes(v, k) = ToBytes(v, k)
  /\ \A a : Interp!Not(a) = Not(a)
  /\ \A a : Interp!AbsOf(a) = AbsOf(a)
  /\ \A a, b : Interp!Quotient(a, b) = Quotient(a, b)
  /\ \A v, k : Interp!Bit(v, k) = Bit(v, k)
  /\ \A a, b : Interp!And(a, b) = And(a, b)
  /\ \A a, b : Interp!Or(a, b) = Or(a, b)
  /\ \A a, b : Interp!Xor(a, b) = Xor(a, b)
BY DEF Interp!Max, Interp!Min, Interp!Cardinality, Interp!OfDigits, Interp!FromBytes, Interp!Low,
       Interp!Wrap, Interp!XBits, Interp!Shl, Interp!Shr, Interp!Signed, Interp!Asr, Interp!Ror,
       Interp!SignExtend, Interp!Ones, Interp!ToBytes, Interp!Not, Interp!AbsOf, Interp!Quotient,
       Interp!Bit, Interp!And, Interp!Or, Interp!Xor, Max, Min, Cardinality, OfDigits, FromBytes,
       Low, Wrap, XBits, Shl, Shr, Signed, Asr, Ror, SignExtend, Ones, ToBytes, Not, AbsOf,
       Quotient, Bit, And, Or, Xor

LEMMA SameFlags ==
  /\ \A half, a, b : Interp!Sum(half, a, b) = Sum(half, a, b)
  /\ \A half, a : Interp!TopBit(half, a) = TopBit(half, a)
  /\ \A half, a, b : Interp!AddFlags(half, a, b) = AddFlags(half, a, b)
  /\ \A half, a, b : Interp!Difference(half, a, b) = Difference(half, a, b)
  /\ \A half, a, b : Interp!SubFlags(half, a, b) = SubFlags(half, a, b)
  /\ \A half, res : Interp!LogicFlags(half, res) = LogicFlags(half, res)
  /\ \A cond, f : Interp!Cond(cond, f) = Cond(cond, f)
  /\ \A k : Interp!ImmediateFlags(k) = ImmediateFlags(k)
BY DEF Interp!Sum, Interp!TopBit, Interp!AddFlags, Interp!Difference, Interp!SubFlags,
       Interp!LogicFlags, Interp!Cond, Interp!ImmediateFlags, Sum, TopBit, AddFlags, Difference,
       SubFlags, LogicFlags, Cond, ImmediateFlags

LEMMA SameRegisters ==
  /\ \A val : Interp!OpLabel(val) = OpLabel(val)
  /\ \A n, c : Interp!get_x(n, c) = get_x(n, c)
  /\ \A op : Interp!IsReg(op) = IsReg(op)
  /\ \A reg : Interp!IsVec(reg) = IsVec(reg)
  /\ \A n : Interp!W(n) = W(n)
  /\ \A reg : Interp!is_w_reg(reg) = is_w_reg(reg)
  /\ \A reg : Interp!Width(reg) = Width(reg)
  /\ \A n : Interp!X(n) = X(n)
  /\ \A reg, c : Interp!get_reg_val(reg, c) = get_reg_val(reg, c)
  /\ \A raw, shift, n : Interp!Shifted(raw, shift, n) = Shifted(raw, shift, n)
  /\ \A val, shift : Interp!eval_imm_shift(val, shift) = eval_imm_shift(val, shift)
  /\ \A b : Interp!Zeroed(b) = Zeroed(b)
  /\ \A n, val, c : Interp!set_x(n, val, c) = set_x(n, val, c)
  /\ \A reg, val, c : Interp!set_reg_val(reg, val, c) = set_reg_val(reg, val, c)
  /\ \A kind, amt : Interp!Shift(kind, amt) = Shift(kind, amt)
BY DEF Interp!OpLabel, Interp!get_x, Interp!IsReg, Interp!IsVec, Interp!W, Interp!is_w_reg,
       Interp!WSP, Interp!Width, Interp!WBits, Interp!XBits, Interp!X, Interp!get_reg_val,
       Interp!SP, Interp!FromBytes, Interp!OfDigits, Interp!Low, Interp!Shifted, Interp!Shl,
       Interp!Shr, Interp!Asr, Interp!Signed, Interp!Ror, Interp!HBits, Interp!SignExtend,
       Interp!Wrap, Interp!eval_imm_shift, Interp!Zeroed, Interp!VBytes, Interp!set_x,
       Interp!set_reg_val, Interp!ToBytes, Interp!Shift, Interp!Min, Interp!Cardinality, OpLabel,
       get_x, IsReg, IsVec, W, is_w_reg, WSP, Width, WBits, XBits, X, get_reg_val, SP, FromBytes,
       OfDigits, Low, Shifted, Shl, Shr, Asr, Signed, Ror, HBits, SignExtend, Wrap, eval_imm_shift,
       Zeroed, VBytes, set_x, set_reg_val, ToBytes, Shift, Min, Cardinality

LEMMA SameOperands ==
  /\ \A reg, shift, c : Interp!eval_shift_reg(reg, shift, c) = eval_shift_reg(reg, shift, c)
  /\ \A op, c : Interp!get_operand_val(op, c) = get_operand_val(op, c)
BY SameRegisters
   DEF Interp!eval_shift_reg, Interp!get_operand_val, eval_shift_reg, get_operand_val

LEMMA SameAddresses ==
  /\ \A op, base, index, c : Interp!Accessed(op, base, index, c) = Accessed(op, base, index, c)
  /\ \A op, c : Interp!eval_mem_addr(op, c) = eval_mem_addr(op, c)
BY SameConstants, SameWords, SameRegisters
   DEF Interp!Accessed, Interp!eval_mem_addr, Accessed, eval_mem_addr

(* What the arms on general registers are put together from. *)
LEMMA SameParts ==
  /\ \A i : Interp!Rd(i) = Rd(i)
  /\ \A n : Interp!Half(n) = Half(n)
  /\ \A i, k : Interp!Source(i, k) = Source(i, k)
  /\ \A op : Interp!OperandWidth(op) = OperandWidth(op)
  /\ \A b, size : Interp!TurnedAround(b, size) = TurnedAround(b, size)
  /\ \A width, n : Interp!FieldBits(width, n) = FieldBits(width, n)
  /\ \A op, product, addend : Interp!Product(op, product, addend) = Product(op, product, addend)
  /\ \A op, v1, v2 : Interp!Combined(op, v1, v2) = Combined(op, v1, v2)
BY DEF Interp!Rd, Interp!Half, Interp!Source, Interp!Comparing, Interp!OperandWidth, Interp!IsReg,
       Interp!Width, Interp!is_w_reg, Interp!WSP, Interp!W, Interp!WBits, Interp!XBits,
       Interp!TurnedAround, Interp!FieldBits, Interp!Product, Interp!Combined, Interp!And,
       Interp!OfDigits, Interp!Bit, Interp!Shr, Interp!Not, Interp!Or, Interp!Xor, Rd, Half, Source,
       Comparing, OperandWidth, IsReg, Width, is_w_reg, WSP, W, WBits, XBits, TurnedAround,
       FieldBits, Product, Combined, And, OfDigits, Bit, Shr, Not, Or, Xor

(* What the arms on vectors are put together from. *)
LEMMA SameLanes ==
  /\ \A i, k : Interp!IsVecOp(i, k) = IsVecOp(i, k)
  /\ \A i : Interp!OnVectors(i) = OnVectors(i)
  /\ \A op : Interp!get_vec_elem_size(op) = get_vec_elem_size(op)
  /\ \A op : Interp!is_64bit_vector(op) = is_64bit_vector(op)
  /\ \A vec, k, es : Interp!LaneAt(vec, k, es) = LaneAt(vec, k, es)
  /\ \A vec, es : Interp!Lanes(vec, es) = Lanes(vec, es)
  /\ \A i, k, c : Interp!Vec(i, k, c) = Vec(i, k, c)
  /\ \A i, vec, c : Interp!PutVec(i, vec, c) = PutVec(i, vec, c)
  /\ \A base, first, lanes, es : Interp!PackedOver(base, first, lanes, es) = PackedOver(base, first, lanes, es)
  /\ \A lanes, es : Interp!Packed(lanes, es) = Packed(lanes, es)
  /\ \A holds, n : Interp!AllOnes(holds, n) = AllOnes(holds, n)
  /\ \A a, amount, n : Interp!ShiftLane(a, amount, n) = ShiftLane(a, amount, n)
  /\ \A op, a, b, n : Interp!LaneResult(op, a, b, n) = LaneResult(op, a, b, n)
  /\ \A op, d, a, b : Interp!BitResult(op, d, a, b) = BitResult(op, d, a, b)
  /\ \A op : Interp!SignedLanes(op) = SignedLanes(op)
  /\ \A op, lanes, n : Interp!Extreme(op, lanes, n) = Extreme(op, lanes, n)
<1>1. /\ \A i, k : Interp!IsVecOp(i, k) = IsVecOp(i, k)
      /\ \A i : Interp!OnVectors(i) = OnVectors(i)
      /\ \A op : Interp!get_vec_elem_size(op) = get_vec_elem_size(op)
  BY DEF Interp!IsVecOp, Interp!IsReg, Interp!IsVec, Interp!OnVectors, Interp!VectorOps,
         Interp!LaneOps, Interp!LaneShiftOps, Interp!FillOps, Interp!WordShiftOps,
         Interp!BitOps, Interp!ByteOps, Interp!PairOps, Interp!ReduceOps, Interp!ZipOps,
         Interp!NarrowOps, Interp!WidthOps, Interp!MoveLaneOps, Interp!SharedOps,
         Interp!get_vec_elem_size, IsVecOp, IsReg, IsVec, OnVectors, VectorOps, LaneOps,
         LaneShiftOps, FillOps, WordShiftOps, BitOps, ByteOps, PairOps, ReduceOps, ZipOps,
         NarrowOps, WidthOps, MoveLaneOps, SharedOps, get_vec_elem_size
<1>2. /\ \A op : Interp!is_64bit_vector(op) = is_64bit_vector(op)
      /\ \A vec, k, es : Interp!LaneAt(vec, k, es) = LaneAt(vec, k, es)
      /\ \A vec, es : Interp!Lanes(vec, es) = Lanes(vec, es)
  BY DEF Interp!is_64bit_vector, Interp!LaneAt, Interp!FromBytes, Interp!OfDigits,
         Interp!Lanes, Interp!Cardinality, is_64bit_vector, LaneAt, FromBytes, OfDigits, Lanes,
         Cardinality
<1>3. /\ \A i, k, c : Interp!Vec(i, k, c) = Vec(i, k, c)
      /\ \A i, vec, c : Interp!PutVec(i, vec, c) = PutVec(i, vec, c)
      /\ \A base, first, lanes, es : Interp!PackedOver(base, first, lanes, es) = PackedOver(base, first, lanes, es)
  BY DEF Interp!IsVecOp, Interp!IsReg, Interp!IsVec, Interp!Vec, Interp!Zeros, Interp!Zeroed,
         Interp!VBytes, Interp!PutVec, Interp!Rd, Interp!PackedOver, Interp!Low, Interp!Shr,
         IsVecOp, IsReg, IsVec, Vec, Zeros, Zeroed, VBytes, PutVec, Rd, PackedOver, Low, Shr
<1>4. /\ \A lanes, es : Interp!Packed(lanes, es) = Packed(lanes, es)
      /\ \A holds, n : Interp!AllOnes(holds, n) = AllOnes(holds, n)
      /\ \A a, amount, n : Interp!ShiftLane(a, amount, n) = ShiftLane(a, amount, n)
  BY DEF Interp!Zeros, Interp!Zeroed, Interp!VBytes, Interp!PackedOver, Interp!Low, Interp!Shr,
         Interp!Packed, Interp!AllOnes, Interp!Ones, Interp!ShiftLane, Interp!Shl, Zeros,
         Zeroed, VBytes, PackedOver, Low, Shr, Packed, AllOnes, Ones, ShiftLane, Shl
<1>5. /\ \A op, a, b, n : Interp!LaneResult(op, a, b, n) = LaneResult(op, a, b, n)
      /\ \A op, d, a, b : Interp!BitResult(op, d, a, b) = BitResult(op, d, a, b)
      /\ \A op : Interp!SignedLanes(op) = SignedLanes(op)
  BY DEF Interp!LaneShiftOps, Interp!OfDigits, Interp!Low, Interp!Shr, Interp!AllOnes,
         Interp!Ones, Interp!ShiftLane, Interp!Shl, Interp!LaneResult, Interp!Signed,
         Interp!And, Interp!XBits, Interp!Bit, Interp!BitResult, Interp!Not, Interp!Or,
         Interp!Xor, Interp!SignedLanes, LaneShiftOps, OfDigits, Low, Shr, AllOnes, Ones,
         ShiftLane, Shl, LaneResult, Signed, And, XBits, Bit, BitResult, Not, Or, Xor,
         SignedLanes
<1>6. /\ \A op, lanes, n : Interp!Extreme(op, lanes, n) = Extreme(op, lanes, n)
  BY DEF Interp!Low, Interp!Signed, Interp!SignedLanes, Interp!Extreme, Interp!MaxOps,
         Interp!Max, Interp!Min, Low, Signed, SignedLanes, Extreme, MaxOps, Max, Min
<1> QED  BY <1>1, <1>2, <1>3, <1>4, <1>5, <1>6

(* What the arms on memory are put together from: the instance has the same memory. *)
LEMMA SameAccesses ==
  /\ \A addr, len : Interp!Mapped(addr, len) = Mapped(addr, len)
  /\ \A addr, len : Interp!BytesAt(addr, len) = BytesAt(addr, len)
  /\ \A addr, len : Interp!Load(addr, len) = Load(addr, len)
  /\ \A addr : Interp!At(addr) = At(addr)
  /\ \A m, addr, bytes : Interp!Stored(m, addr, bytes) = Stored(m, addr, bytes)
  /\ \A reg : Interp!WordBytes(reg) = WordBytes(reg)
  /\ \A i : Interp!LoadBytes(i) = LoadBytes(i)
  /\ \A i, val : Interp!Extended(i, val) = Extended(i, val)
  /\ \A i : Interp!StoreBytes(i) = StoreBytes(i)
  /\ \A regs, c, vecs : Interp!WithListed(regs, c, vecs) = WithListed(regs, c, vecs)
  /\ \A i : Interp!ListedBytes(i) = ListedBytes(i)
  /\ \A reg, bytes, c : Interp!Loaded(reg, bytes, c) = Loaded(reg, bytes, c)
<1>1. /\ \A addr, len : Interp!Mapped(addr, len) = Mapped(addr, len)
      /\ \A addr, len : Interp!BytesAt(addr, len) = BytesAt(addr, len)
  BY DEF Interp!Mapped, Interp!BytesAt, Mapped, BytesAt
<1>2. /\ \A addr, len : Interp!Load(addr, len) = Load(addr, len)
      /\ \A addr : Interp!At(addr) = At(addr)
  BY DEF Interp!Mapped, Interp!BytesAt, Interp!Load, Interp!FromBytes, Interp!OfDigits,
         Interp!At, Interp!InsBytes, Interp!OpLabel, Interp!Wrap, Interp!Low, Interp!XBits,
         Interp!Cardinality, Mapped, BytesAt, Load, FromBytes, OfDigits, At, InsBytes, OpLabel,
         Wrap, Low, XBits, Cardinality
<1>3. /\ \A m, addr, bytes : Interp!Stored(m, addr, bytes) = Stored(m, addr, bytes)
      /\ \A reg : Interp!WordBytes(reg) = WordBytes(reg)
  BY DEF Interp!Stored, Interp!WordBytes, Interp!IsVec, Interp!is_w_reg, Interp!WSP, Interp!W,
         Stored, WordBytes, IsVec, is_w_reg, WSP, W
<1>4. /\ \A i : Interp!LoadBytes(i) = LoadBytes(i)
      /\ \A i, val : Interp!Extended(i, val) = Extended(i, val)
  BY DEF Interp!Wrap, Interp!Low, Interp!XBits, Interp!WordBytes, Interp!IsVec,
         Interp!is_w_reg, Interp!WSP, Interp!W, Interp!LoadBytes, Interp!Rd, Interp!Extended,
         Interp!SignExtend, Interp!Signed, Wrap, Low, XBits, WordBytes, IsVec, is_w_reg, WSP,
         W, LoadBytes, Rd, Extended, SignExtend, Signed
<1>5. /\ \A i : Interp!StoreBytes(i) = StoreBytes(i)
      /\ \A regs, c, vecs : Interp!WithListed(regs, c, vecs) = WithListed(regs, c, vecs)
  BY DEF Interp!WordBytes, Interp!IsVec, Interp!is_w_reg, Interp!WSP, Interp!W, Interp!Rd,
         Interp!StoreBytes, Interp!WithListed, Interp!Max, WordBytes, IsVec, is_w_reg, WSP, W,
         Rd, StoreBytes, WithListed, Max
<1>6. /\ \A i : Interp!ListedBytes(i) = ListedBytes(i)
      /\ \A reg, bytes, c : Interp!Loaded(reg, bytes, c) = Loaded(reg, bytes, c)
  BY DEF Interp!FromBytes, Interp!OfDigits, Interp!Low, Interp!XBits, Interp!IsVec,
         Interp!is_w_reg, Interp!WSP, Interp!W, Interp!ListedBytes, Interp!is_64bit_vector,
         Interp!Loaded, Interp!Zeroed, Interp!VBytes, Interp!set_reg_val, Interp!SP, Interp!X,
         Interp!ToBytes, Interp!Shr, Interp!set_x, Interp!Width, Interp!WBits, Interp!Min,
         Interp!Cardinality, FromBytes, OfDigits, Low, XBits, IsVec, is_w_reg, WSP, W,
         ListedBytes, is_64bit_vector, Loaded, Zeroed, VBytes, set_reg_val, SP, X, ToBytes,
         Shr, set_x, Width, WBits, Min, Cardinality
<1> QED  BY <1>1, <1>2, <1>3, <1>4, <1>5, <1>6

LEMMA SameAddSub == \A i, c : Interp!AddSub(i, c) = AddSub(i, c)
BY SameOperands, SameParts, SameConstants, SameRegisters, SameWords, SameFlags
   DEF Interp!AddSub, AddSub

LEMMA SameNeg == \A i, c : Interp!Neg(i, c) = Neg(i, c)
BY SameOperands, SameRegisters, SameParts, SameWords, SameFlags
   DEF Interp!Neg, Neg

LEMMA SameMove == \A i, c : Interp!Move(i, c) = Move(i, c)
BY SameOperands, SameRegisters, SameParts, SameWords, SameConstants, ZenonT(60)
   DEF Interp!Move, Move

LEMMA SameFactor == \A i, k, c : Interp!Factor(i, k, c) = Factor(i, k, c)
BY SameOperands, SameWords, SameConstants, SameRegisters, SameParts, ZenonT(60)
   DEF Interp!Factor, Factor

LEMMA SameMultiply == \A i, c : Interp!Multiply(i, c) = Multiply(i, c)
BY SameOperands, SameRegisters, SameParts, SameWords, SameFactor
   DEF Interp!Multiply, Multiply

LEMMA SameDividend == \A i, c : Interp!Dividend(i, c) = Dividend(i, c)
BY SameWords, SameOperands, SameRegisters, SameParts
   DEF Interp!Dividend, Dividend

LEMMA SameDivisor == \A i, c : Interp!Divisor(i, c) = Divisor(i, c)
BY SameWords, SameOperands, SameRegisters, SameParts
   DEF Interp!Divisor, Divisor

LEMMA SameDivisionPanics == \A i, c : Interp!DivisionPanics(i, c) = DivisionPanics(i, c)
BY SameRegisters, SameParts, SameDividend, SameDivisor, SameWords
   DEF Interp!DivisionPanics, DivisionPanics

LEMMA SameDivide == \A i, c : Interp!Divide(i, c) = Divide(i, c)
BY SameRegisters, SameParts, SameDivisor, SameDividend, SameWords
   DEF Interp!Divide, Divide

LEMMA SameLogic == \A i, c : Interp!Logic(i, c) = Logic(i, c)
BY SameRegisters, SameParts, SameOperands, SameFlags, SameWords
   DEF Interp!Logic, Logic

LEMMA SameExtend == \A i, c : Interp!Extend(i, c) = Extend(i, c)
BY SameOperands, SameRegisters, SameParts, SameWords, SameConstants
   DEF Interp!Extend, Extend

LEMMA SameBitfield == \A i, c : Interp!Bitfield(i, c) = Bitfield(i, c)
<1> SUFFICES ASSUME NEW i, NEW c
             PROVE  Interp!Bitfield(i, c) = Bitfield(i, c)
  OBVIOUS
<1> DEFINE v1 == get_operand_val(i.ops[2], c)
           p == get_operand_val(i.ops[3], c)
           q == get_operand_val(i.ops[4], c)
           n == Width(Rd(i))
           lsb == (p % XBits) % n
           width == q % XBits
           immr == p % n
           imms == q % n
           orig == get_reg_val(Rd(i), c)
           field == Shr(v1, IF i.op \in {"UBFX", "SBFX"} THEN lsb ELSE immr)
           bits == FieldBits(IF i.op \in {"UBFX", "SBFX"} THEN width ELSE imms - immr + 1, n)
           inserted == Shl(Low(v1, FieldBits(imms + 1, n)), n - immr, XBits)
           rotated == Ror(Low(v1, n), immr, n)
<1>1. (CASE i.op = "UBFX" \/ (i.op = "UBFM" /\ imms >= immr) -> Interp!Low(field, bits)
         [] i.op = "SBFX" \/ (i.op = "SBFM" /\ imms >= immr) ->
              IF bits = 0 THEN 0 ELSE Interp!SignExtend(field, bits)
         [] i.op \in {"UBFM", "SBFM"} /\ imms < immr -> inserted
         [] i.op \in {"BFM", "BFI", "BFXIL"} ->
              orig - Interp!Low(orig, imms + 1) + Interp!Low(rotated, imms + 1))
      = (CASE i.op = "UBFX" \/ (i.op = "UBFM" /\ imms >= immr) -> Low(field, bits)
           [] i.op = "SBFX" \/ (i.op = "SBFM" /\ imms >= immr) ->
                IF bits = 0 THEN 0 ELSE SignExtend(field, bits)
           [] i.op \in {"UBFM", "SBFM"} /\ imms < immr -> inserted
           [] i.op \in {"BFM", "BFI", "BFXIL"} -> orig - Low(orig, imms + 1) + Low(rotated, imms + 1))
  <2> HIDE DEF imms, immr, field, bits, inserted, orig, rotated
  <2> QED  BY SameWords
<1> QED  BY <1>1, SameConstants, SameWords, SameOperands, SameRegisters, SameParts
         DEF Interp!Bitfield, Bitfield

LEMMA SameInserted ==
  /\ \A p, q, n : Interp!InsertedAt(p, q, n) = InsertedAt(p, q, n)
  /\ \A p, q, n : Interp!InsertedWidth(p, q, n) = InsertedWidth(p, q, n)
BY DEF Interp!InsertedAt, InsertedAt, Interp!InsertedWidth, InsertedWidth

LEMMA SameShiftOverflows == \A i, c : Interp!ShiftOverflows(i, c) = ShiftOverflows(i, c)
BY SameOperands, SameRegisters, SameParts, SameWords, SameConstants, SameInserted
   DEF Interp!ShiftOverflows, ShiftOverflows

LEMMA SameNegationOverflows == \A i, c : Interp!NegationOverflows(i, c) = NegationOverflows(i, c)
BY SameOperands, SameFlags, SameConstants
   DEF Interp!NegationOverflows, NegationOverflows, Interp!Half, Half

LEMMA SameAmountOverflows == \A i, c : Interp!AmountOverflows(i, c) = AmountOverflows(i, c)
BY SameLanes, SameWords, SameConstants
   DEF Interp!AmountOverflows, AmountOverflows, Interp!LaneShiftOps, LaneShiftOps, Interp!Half, Half

LEMMA SameInsertZero == \A i, c : Interp!InsertZero(i, c) = InsertZero(i, c)
<1> SUFFICES ASSUME NEW i, NEW c
             PROVE  Interp!InsertZero(i, c) = InsertZero(i, c)
  OBVIOUS
<1> DEFINE v == get_operand_val(i.ops[2], c)
           n == Width(Rd(i))
           at == InsertedAt(get_operand_val(i.ops[3], c), get_operand_val(i.ops[4], c), n)
           width == InsertedWidth(get_operand_val(i.ops[3], c), get_operand_val(i.ops[4], c), n)
           over == ShiftOverflows(i, c)
<1>1. (CASE over -> Interp!Ones(XBits)
         [] width = 0 -> 0
         [] i.op = "SBFIZ" /\ width # 0 /\ ~over -> Interp!SignExtend(v, width)
         [] i.op = "UBFIZ" /\ width # 0 -> Interp!Low(v, width))
      = (CASE over -> Ones(XBits)
           [] width = 0 -> 0
           [] i.op = "SBFIZ" /\ width # 0 /\ ~over -> SignExtend(v, width)
           [] i.op = "UBFIZ" /\ width # 0 -> Low(v, width))
  <2> HIDE DEF over, width, v
  <2> QED  BY SameWords
<1> QED  BY <1>1, SameConstants, SameWords, SameOperands, SameRegisters, SameParts, SameInserted,
            SameShiftOverflows
         DEF Interp!InsertZero, InsertZero

LEMMA SameReverseWord == \A i, c : Interp!ReverseWord(i, c) = ReverseWord(i, c)
<1> SUFFICES ASSUME NEW i, NEW c
             PROVE  Interp!ReverseWord(i, c) = ReverseWord(i, c)
  OBVIOUS
<1> DEFINE n == Width(Rd(i))
           v == Low(get_operand_val(i.ops[2], c), n)
           T(size) == FromBytes(TurnedAround(ToBytes(v, 8), size))
           T2(size) == Interp!FromBytes(Interp!TurnedAround(Interp!ToBytes(v, 8), size))
<1>1. [k \in 0 .. n - 1 |-> Interp!Bit(v, n - 1 - k)] = [k \in 0 .. n - 1 |-> Bit(v, n - 1 - k)]
  <2> HIDE DEF n, v
  <2> QED  BY SameWords
<1>2. {k \in 0 .. n - 1 : v < 2^k} = {k \in 0 .. n - 1 : v < 2^k}
  OBVIOUS
<1>3. \A size : T(size) = T2(size)
  <2> HIDE DEF n, v
  <2> QED  BY SameWords, SameParts
<1>4. (CASE i.op = "REV" -> Interp!FromBytes(Interp!TurnedAround(Interp!ToBytes(v, 8), n \div ByteBits))
         [] i.op = "REV16" -> Interp!FromBytes(Interp!TurnedAround(Interp!ToBytes(v, 8), 2))
         [] i.op = "REV32" -> Interp!FromBytes(Interp!TurnedAround(Interp!ToBytes(v, 8), 4))
         [] i.op = "REV64" -> Interp!FromBytes(Interp!TurnedAround(Interp!ToBytes(v, 8), 8))
         [] i.op = "RBIT" -> Interp!OfDigits([k \in 0 .. n - 1 |-> Interp!Bit(v, n - 1 - k)], 1, n)
         [] i.op = "CLZ" -> Interp!Cardinality({k \in 0 .. n - 1 : v < 2^k}))
     = (CASE i.op = "REV" -> T(n \div ByteBits)
         [] i.op = "REV16" -> T(2)
         [] i.op = "REV32" -> T(4)
         [] i.op = "REV64" -> T(8)
         [] i.op = "RBIT" -> OfDigits([k \in 0 .. n - 1 |-> Bit(v, n - 1 - k)], 1, n)
         [] i.op = "CLZ" -> Cardinality({k \in 0 .. n - 1 : v < 2^k}))
  <2> HIDE DEF n, v
  <2> QED  BY <1>1, SameWords, SameParts
<1> QED  BY <1>4, SameWords, SameOperands, SameRegisters, SameParts
            DEF Interp!ReverseWord, ReverseWord

LEMMA SameShiftRotate == \A i, c : Interp!ShiftRotate(i, c) = ShiftRotate(i, c)
<1> SUFFICES ASSUME NEW i, NEW c
             PROVE  Interp!ShiftRotate(i, c) = ShiftRotate(i, c)
  OBVIOUS
<1> DEFINE n  == Width(Rd(i))
           v1 == Low(get_operand_val(i.ops[2], c), n)
           p  == get_operand_val(i.ops[3], c)
           q  == get_operand_val(i.ops[4], c)
           a  == p % n
<1>1. (CASE i.op = "LSL" /\ Len(i.ops) >= 4 -> Interp!Low(Interp!Ror(v1, a, n), (q % n) + 1)
         [] i.op = "LSL" /\ Len(i.ops) = 3 -> Interp!Shl(v1, a, n)
         [] i.op = "LSR" -> Interp!Shr(v1, a)
         [] i.op = "ASR" -> Interp!Asr(v1, a, n)
         [] i.op = "ROR" -> Interp!Ror(v1, a, n)
         [] i.op = "EXTR" -> Interp!Shr(Interp!Low(p, n), q) + Interp!Shl(v1, n - q, n))
      = (CASE i.op = "LSL" /\ Len(i.ops) >= 4 -> Low(Ror(v1, a, n), (q % n) + 1)
          [] i.op = "LSL" /\ Len(i.ops) = 3 -> Shl(v1, a, n)
          [] i.op = "LSR" -> Shr(v1, a)
          [] i.op = "ASR" -> Asr(v1, a, n)
          [] i.op = "ROR" -> Ror(v1, a, n)
          [] i.op = "EXTR" -> Shr(Low(p, n), q) + Shl(v1, n - q, n))
  <2> HIDE DEF n, v1, p, q, a
  <2> QED  BY SameWords
<1> QED  BY <1>1, SameWords, SameOperands, SameRegisters, SameParts
            DEF Interp!ShiftRotate, ShiftRotate

LEMMA SameSelect == \A i, c : Interp!Select(i, c) = Select(i, c)
<1> SUFFICES ASSUME NEW i, NEW c
             PROVE  Interp!Select(i, c) = Select(i, c)
  OBVIOUS
<1> DEFINE v == get_operand_val(i.ops[IF i.op \in {"CSEL", "CSINC", "CSINV", "CSNEG"} THEN 3 ELSE 2], c)
<1>1. (CASE i.op \in {"CSINC", "CINC"} -> Interp!Wrap(v + 1)
         [] i.op \in {"CSINV", "CINV"} -> Interp!Not(v)
         [] i.op \in {"CSNEG", "CNEG"} -> Interp!Wrap(-v)
         [] i.op = "CSEL" -> v
         [] i.op = "CSET" -> 1
         [] i.op = "CSETM" -> Interp!Not(0))
      = (CASE i.op \in {"CSINC", "CINC"} -> Wrap(v + 1)
           [] i.op \in {"CSINV", "CINV"} -> Not(v)
           [] i.op \in {"CSNEG", "CNEG"} -> Wrap(-v)
           [] i.op = "CSEL" -> v
           [] i.op = "CSET" -> 1
           [] i.op = "CSETM" -> Not(0))
  <2> HIDE DEF v
  <2> QED  BY SameWords
<1> QED  BY <1>1, SameWords, SameFlags, SameOperands, SameRegisters, SameParts
            DEF Interp!Select, Select

LEMMA SameCompareIf == \A i, c : Interp!CompareIf(i, c) = CompareIf(i, c)
BY SameParts, SameWords, SameOperands, SameFlags
   DEF Interp!CompareIf, CompareIf

LEMMA SameSystem == \A i, c : Interp!System(i, c) = System(i, c)
BY SameOperands, SameRegisters, SameParts, SameWords
   DEF Interp!System, System

LEMMA SameExecute == \A i, c : Interp!Execute(i, c) = Execute(i, c)
BY SameConstants, SameAddSub, SameNeg, SameMove, SameMultiply, SameDivide, SameLogic, SameExtend,
   SameBitfield, SameInsertZero, SameReverseWord, SameShiftRotate, SameSelect, SameCompareIf,
   SameSystem, ZenonT(60)
   DEF Interp!Execute, Execute

LEMMA SameLaneWise == \A i, c : Interp!LaneWise(i, c) = LaneWise(i, c)
<1> SUFFICES ASSUME NEW i, NEW c
             PROVE  Interp!LaneWise(i, c) = LaneWise(i, c)
  OBVIOUS
<1> DEFINE es == get_vec_elem_size(i.ops[1])
           n == ByteBits * es
           b(k) == IF IsVecOp(i, 3) THEN LaneAt(Vec(i, 3, c), k, es)
                   ELSE IF Len(i.ops) >= 3 THEN get_operand_val(i.ops[3], c) ELSE 0
           b2(k) == IF Interp!IsVecOp(i, 3) THEN Interp!LaneAt(Interp!Vec(i, 3, c), k, es)
                   ELSE IF Len(i.ops) >= 3 THEN Interp!get_operand_val(i.ops[3], c) ELSE 0
           amount(k) == Signed(b(k), IF IsVecOp(i, 3) THEN Min({n, WBits}) ELSE WBits)
           amount2(k) ==
             Interp!Signed(b2(k), IF Interp!IsVecOp(i, 3) THEN Interp!Min({n, Interp!WBits}) ELSE Interp!WBits)
<1>1. [k \in 0 .. 16 \div es - 1 |->
          Interp!LaneResult(i.op, Interp!LaneAt(Interp!Vec(i, 2, c), k, es),
                            IF i.op \in Interp!LaneShiftOps THEN amount2(k) ELSE b2(k), n)]
      = [k \in 0 .. 16 \div es - 1 |->
          LaneResult(i.op, LaneAt(Vec(i, 2, c), k, es), IF i.op \in LaneShiftOps THEN amount(k) ELSE b(k), n)]
  <2> HIDE DEF es, n
  <2> QED  BY SameConstants, SameWords, SameOperands, SameLanes
<1> QED  BY <1>1, SameLanes
            DEF Interp!LaneWise, LaneWise, Interp!get_vec_elem_size, get_vec_elem_size

LEMMA SameFill == \A i, c : Interp!Fill(i, c) = Fill(i, c)
BY SameLanes, SameOperands, SameWords
   DEF Interp!Fill, Fill

LEMMA SameWordShift == \A i, c : Interp!WordShift(i, c) = WordShift(i, c)
BY SameOperands, SameConstants, SameLanes, SameWords
   DEF Interp!WordShift, WordShift

LEMMA SameBitWise == \A i, c : Interp!BitWise(i, c) = BitWise(i, c)
BY SameLanes, SameConstants, SameWords
   DEF Interp!BitWise, BitWise

LEMMA SameBytes == \A i, c : Interp!Bytes(i, c) = Bytes(i, c)
<1> SUFFICES ASSUME NEW i, NEW c
             PROVE  Interp!Bytes(i, c) = Bytes(i, c)
  OBVIOUS
<1> DEFINE a == Vec(i, 2, c)
           from == get_operand_val(i.ops[Len(i.ops)], c) % 16
<1>2. [j \in VBytes |->
         Interp!OfDigits([k \in 0 .. ByteBits - 1 |-> Interp!Bit(a[j], ByteBits - 1 - k)], 1, ByteBits)]
      = [j \in VBytes |-> OfDigits([k \in 0 .. ByteBits - 1 |-> Bit(a[j], ByteBits - 1 - k)], 1, ByteBits)]
  BY DEF Interp!OfDigits, OfDigits, Interp!Bit, Bit, Interp!Shr, Shr
<1>3. [j \in VBytes |-> Interp!Cardinality({k \in 0 .. ByteBits - 1 : Interp!Bit(a[j], k) = 1})]
      = [j \in VBytes |-> Cardinality({k \in 0 .. ByteBits - 1 : Bit(a[j], k) = 1})]
  BY DEF Interp!Cardinality, Cardinality, Interp!Bit, Bit, Interp!Shr, Shr
<1>4. [j \in VBytes |-> IF from + j < 16 THEN a[from + j] ELSE Interp!Vec(i, 3, c)[from + j - 16]]
      = [j \in VBytes |-> IF from + j < 16 THEN a[from + j] ELSE Vec(i, 3, c)[from + j - 16]]
  <2> HIDE DEF a, from
  <2> QED  BY SameLanes, SameParts
<1>5. (CASE i.op = "REV16" -> Interp!TurnedAround(a, 2)
          [] i.op = "REV32" -> Interp!TurnedAround(a, 4)
          [] i.op = "REV64" -> Interp!TurnedAround(a, 8)
          [] i.op = "RBIT" -> [j \in VBytes |->
                            Interp!OfDigits([k \in 0 .. ByteBits - 1 |-> Interp!Bit(a[j], ByteBits - 1 - k)], 1, ByteBits)]
          [] i.op = "CNT" -> [j \in VBytes |-> Interp!Cardinality({k \in 0 .. ByteBits - 1 : Interp!Bit(a[j], k) = 1})]
          [] i.op = "EXT" -> [j \in VBytes |-> IF from + j < 16 THEN a[from + j] ELSE Interp!Vec(i, 3, c)[from + j - 16]])
      = (CASE i.op = "REV16" -> TurnedAround(a, 2)
          [] i.op = "REV32" -> TurnedAround(a, 4)
          [] i.op = "REV64" -> TurnedAround(a, 8)
          [] i.op = "RBIT" -> [j \in VBytes |->
                            OfDigits([k \in 0 .. ByteBits - 1 |-> Bit(a[j], ByteBits - 1 - k)], 1, ByteBits)]
          [] i.op = "CNT" -> [j \in VBytes |-> Cardinality({k \in 0 .. ByteBits - 1 : Bit(a[j], k) = 1})]
          [] i.op = "EXT" -> [j \in VBytes |-> IF from + j < 16 THEN a[from + j] ELSE Vec(i, 3, c)[from + j - 16]])
  <2> HIDE DEF a, from
  <2> QED  BY <1>2, <1>3, <1>4, SameLanes, SameParts
<1> QED  BY <1>5, SameConstants, SameOperands, SameLanes, SameParts DEF Interp!Bytes, Bytes

LEMMA SamePairwise == \A i, c : Interp!Pairwise(i, c) = Pairwise(i, c)
<1> SUFFICES ASSUME NEW i, NEW c
             PROVE  Interp!Pairwise(i, c) = Pairwise(i, c)
  OBVIOUS
<1> QED  BY ZenonT(30), SameLanes, SameParts, SameConstants, SameWords DEF Interp!Pairwise, Pairwise

LEMMA SameReduce == \A i, c : Interp!Reduce(i, c) = Reduce(i, c)
<1> SUFFICES ASSUME NEW i, NEW c
             PROVE  Interp!Reduce(i, c) = Reduce(i, c)
  OBVIOUS
<1> QED
  BY DEF Interp!Reduce, Interp!get_vec_elem_size, Interp!is_64bit_vector, Interp!LaneAt,
         Interp!FromBytes, Interp!OfDigits, Interp!Vec, Interp!IsVecOp, Interp!IsReg, Interp!IsVec,
         Interp!Zeros, Interp!Zeroed, Interp!VBytes, Interp!SignedLanes, Interp!Signed, Interp!Low,
         Interp!PutVec, Interp!Rd, Interp!ToBytes, Interp!Shr, Interp!Wrap, Interp!XBits,
         Interp!Extreme, Interp!MaxOps, Interp!Max, Interp!Min, Interp!Cardinality, Reduce,
         get_vec_elem_size, is_64bit_vector, LaneAt, FromBytes, OfDigits, Vec, IsVecOp, IsReg, IsVec,
         Zeros, Zeroed, VBytes, SignedLanes, Signed, Low, PutVec, Rd, ToBytes, Shr, Wrap, XBits,
         Extreme, MaxOps, Max, Min, Cardinality

LEMMA SameZipWords == \A i, c : Interp!ZipWords(i, c) = ZipWords(i, c)
BY SameLanes
   DEF Interp!ZipWords, ZipWords

LEMMA SameNarrow == \A i, c : Interp!Narrow(i, c) = Narrow(i, c)
<1> SUFFICES ASSUME NEW i, NEW c
             PROVE  Interp!Narrow(i, c) = Narrow(i, c)
  OBVIOUS
<1> DEFINE es == Max({get_vec_elem_size(i.ops[2]), 2})
      half == es \div 2
      a == get_operand_val(i.ops[3], c) % (ByteBits * es)
      lanes == Lanes(Vec(i, 2, c), es)
      I == [k \in DOMAIN lanes |-> Interp!Low(Interp!Shr(lanes[k], a), ByteBits * half)]
      N == [k \in DOMAIN lanes |-> Low(Shr(lanes[k], a), ByteBits * half)]
<1>1. I = N
  BY SameWords
<1> QED BY <1>1, SameWords, SameOperands, SameLanes DEF Interp!Narrow, Narrow

LEMMA SameChangeWidth == \A i, c : Interp!ChangeWidth(i, c) = ChangeWidth(i, c)
BY SameLanes, SameWords, SameConstants
   DEF Interp!ChangeWidth, ChangeWidth

LEMMA SameMoveLane == \A i, c : Interp!MoveLane(i, c) = MoveLane(i, c)
BY SameRegisters, SameParts, SameLanes, SameOperands
   DEF Interp!MoveLane, MoveLane

LEMMA SameExecuteVector == \A i, c : Interp!ExecuteVector(i, c) = ExecuteVector(i, c)
BY SameConstants, SameLaneWise, SameFill, SameWordShift, SameBitWise, SameBytes, SamePairwise,
   SameReduce, SameZipWords, SameNarrow, SameChangeWidth, SameMoveLane
   DEF Interp!ExecuteVector, ExecuteVector

LEMMA SameBytesOf == \A i, k, len, c : Interp!BytesOf(i, k, len, c) = BytesOf(i, k, len, c)
BY SameLanes, SameWords, SameOperands
   DEF Interp!BytesOf, BytesOf

LEMMA SamePostIndexed == \A i, c : Interp!PostIndexed(i, c) = PostIndexed(i, c)
BY SameRegisters, SameWords, SameOperands
   DEF Interp!PostIndexed, PostIndexed

-----------------------------------------------------------------------------
(* Between blocks the instance is in the state the JIT is in, and each arm *)
(* of the interpreter is the arm of the instance.                          *)

AtRest == [ctx EXCEPT !.pc = Here] = ctx /\ [ctx EXCEPT !.pc = Here]' = ctx'

LEMMA SameState ==
  ASSUME AtRest
  PROVE  /\ Interp!Running <=> Running
         /\ Interp!Fetched <=> Fetched
         /\ Interp!Inst = Inst
         /\ Interp!NextPc = NextPc
         /\ \A ops : Interp!Executes(ops) <=> Executes(ops)
         /\ \A k : Interp!Target(k) = Target(k)
         /\ \A c, m, pc : Interp!Retire(c, m, pc) <=> Retire(c, m, pc)
         /\ \A c, m : Interp!Fail(c, m) <=> Fail(c, m)
BY SameAccesses, SameOperands, SameWords, SameConstants
   DEF AtRest, Interp!Running, Running, Interp!Fetched, Fetched, Interp!Inst, Inst,
       Interp!NextPc, NextPc, Interp!Executes, Executes, Interp!Target, Target,
       Interp!Retire, Retire, Interp!Fail, Fail

LEMMA SameStore ==
  ASSUME AtRest, NEW ea, NEW bytes, NEW c
  PROVE  Interp!Store(ea, bytes, c) <=> Store(ea, bytes, c)
BY SameState, SameAccesses, SameWords DEF Interp!Store, Store

LEMMA MirrorFetchFault ==
  ASSUME AtRest, FetchFault PROVE Interp!FetchFault
BY SameState DEF AtRest, FetchFault, Interp!FetchFault

LEMMA MirrorSkipUndecoded ==
  ASSUME AtRest, SkipUndecoded PROVE Interp!SkipUndecoded
BY SameState DEF AtRest, SkipUndecoded, Interp!SkipUndecoded

LEMMA MirrorUndefined ==
  ASSUME AtRest, Undefined PROVE Interp!Undefined
BY SameState DEF AtRest, Undefined, Interp!Undefined, Interp!TakenForZva, TakenForZva

LEMMA MirrorDcZva ==
  ASSUME AtRest, DcZva PROVE Interp!DcZva
BY SameState, SameConstants, SameRegisters, SameParts, SameAccesses
   DEF AtRest, DcZva, Interp!DcZva, Interp!TakenForZva, TakenForZva

LEMMA MirrorOverflowPanic ==
  ASSUME AtRest, OverflowPanic PROVE Interp!OverflowPanic
<1>1. \A a, b : Interp!SumOverflows(a, b) = SumOverflows(a, b)
  BY SameWords, SameConstants DEF Interp!SumOverflows, SumOverflows, Interp!Half, Half
<1>2. Interp!AddressOverflows(Inst, ctx) = AddressOverflows(Inst, ctx)
  BY <1>1, SameConstants, SameWords, SameOperands, SameRegisters
     DEF Interp!AddressOverflows, AddressOverflows, Interp!ListOps, ListOps
<1> QED  BY <1>2, SameState, SameShiftOverflows, SameNegationOverflows, SameAmountOverflows
         DEF AtRest, OverflowPanic, Interp!OverflowPanic

LEMMA MirrorDataProcessing ==
  ASSUME AtRest, DataProcessing PROVE Interp!DataProcessing
BY SameState, SameConstants, SameLanes, SameDivisionPanics, SameExecute
   DEF AtRest, DataProcessing, Interp!DataProcessing

LEMMA MirrorVectorProcessing ==
  ASSUME AtRest, VectorProcessing PROVE Interp!VectorProcessing
BY SameState, SameConstants, SameLanes, SameExecuteVector
   DEF AtRest, VectorProcessing, Interp!VectorProcessing

LEMMA MirrorBranch ==
  ASSUME AtRest, Branch PROVE Interp!Branch
BY SameState DEF AtRest, Branch, Interp!Branch

LEMMA MirrorBranchIf ==
  ASSUME AtRest, BranchIf PROVE Interp!BranchIf
BY SameState, SameFlags DEF AtRest, BranchIf, Interp!BranchIf

LEMMA MirrorCompareBranch ==
  ASSUME AtRest, CompareBranch PROVE Interp!CompareBranch
BY SameState DEF AtRest, CompareBranch, Interp!CompareBranch

LEMMA MirrorTestBranch ==
  ASSUME AtRest, TestBranch PROVE Interp!TestBranch
BY SameState, SameWords DEF AtRest, TestBranch, Interp!TestBranch

LEMMA MirrorBranchLink ==
  ASSUME AtRest, BranchLink PROVE Interp!BranchLink
BY SameState, SameRegisters, SameOperands DEF AtRest, BranchLink, Interp!BranchLink

LEMMA MirrorReturn ==
  ASSUME AtRest, Return PROVE Interp!Return
BY SameState, SameRegisters DEF AtRest, Return, Interp!Return

LEMMA MirrorLoadRegister ==
  ASSUME AtRest, LoadRegister PROVE Interp!LoadRegister
BY SameState, SameConstants, SameAddresses, SameAccesses, SameParts, SameRegisters
   DEF AtRest, LoadRegister, Interp!LoadRegister

LEMMA MirrorLoadPair ==
  ASSUME AtRest, LoadPair PROVE Interp!LoadPair
BY SameState, SameConstants, SameWords, SameAddresses, SameAccesses, SameParts
   DEF AtRest, LoadPair, Interp!LoadPair

LEMMA MirrorStoreRegister ==
  ASSUME AtRest, StoreRegister PROVE Interp!StoreRegister
BY SameState, SameConstants, SameAddresses, SameAccesses, SameParts, SameBytesOf, SameStore
   DEF AtRest, StoreRegister, Interp!StoreRegister

LEMMA MirrorStorePair ==
  ASSUME AtRest, StorePair PROVE Interp!StorePair
BY SameState, SameConstants, SameAddresses, SameAccesses, SameParts, SameBytesOf, SameStore
   DEF AtRest, StorePair, Interp!StorePair

LEMMA MirrorStoreExclusive ==
  ASSUME AtRest, StoreExclusive PROVE Interp!StoreExclusive
BY SameState, SameWords, SameAddresses, SameOperands, SameParts, SameRegisters, SameStore
   DEF AtRest, StoreExclusive, Interp!StoreExclusive

LEMMA MirrorStoreVectors ==
  ASSUME AtRest, StoreVectors PROVE Interp!StoreVectors
BY SameState, SameAddresses, SameAccesses, SamePostIndexed, SameStore
   DEF AtRest, StoreVectors, Interp!StoreVectors

LEMMA MirrorLoadStructures ==
  ASSUME AtRest, LoadStructures PROVE Interp!LoadStructures
BY SameState, SameConstants, SameAddresses, SameAccesses, SamePostIndexed
   DEF AtRest, LoadStructures, Interp!LoadStructures

LEMMA MirrorSupervisorCall ==
  ASSUME AtRest, SupervisorCall PROVE Interp!SupervisorCall
BY SameState, SameConstants, SameWords, SameRegisters, ZenonT(60)
   DEF AtRest, SupervisorCall, Interp!SupervisorCall

LEMMA MirrorLoadVectors ==
  ASSUME AtRest, LoadVectors
  PROVE  Interp!LoadVectors
<1> DEFINE addr(i, ea, len, k) == IF i.op = "LD1R" THEN ea.addr ELSE Wrap(ea.addr + len * (k - 1))
           vec(i, ea, len, k) == IF i.op = "LD1R" THEN [j \in VBytes |-> mem[ea.addr + (j % len)]]
                                 ELSE Zeroed(BytesAt(addr(i, ea, len, k), len))
           Read(i, ea, regs, len, n) == WithListed(regs, ea.ctx, [k \in 1 .. n |-> vec(i, ea, len, k)])
           top(i, ea, regs, len) ==
             Max({m \in 0 .. Len(regs) : \A k \in 1 .. m : Mapped(addr(i, ea, len, k), len)})
           addr_(i, ea, len, k) ==
             IF i.op = "LD1R" THEN ea.addr ELSE Interp!Wrap(ea.addr + len * (k - 1))
           vec_(i, ea, len, k) ==
             IF i.op = "LD1R" THEN [j \in Interp!VBytes |-> mem[ea.addr + (j % len)]]
             ELSE Interp!Zeroed(Interp!BytesAt(addr_(i, ea, len, k), len))
           Read_(i, ea, regs, len, n) ==
             Interp!WithListed(regs, ea.ctx, [k \in 1 .. n |-> vec_(i, ea, len, k)])
           top_(i, ea, regs, len) ==
             Interp!Max({m \in 0 .. Len(regs) : \A k \in 1 .. m : Interp!Mapped(addr_(i, ea, len, k), len)})
<1>1. ASSUME NEW i, NEW ea, NEW regs, NEW len
      PROVE  /\ top_(i, ea, regs, len) = top(i, ea, regs, len)
             /\ \A n : Read_(i, ea, regs, len, n) = Read(i, ea, regs, len, n)
  BY DEF Interp!Max, Max, Interp!Mapped, Mapped, Interp!Wrap, Wrap, Interp!Low, Low, Interp!XBits,
         XBits,
         Interp!WithListed, WithListed, Interp!BytesAt, BytesAt, Interp!Zeroed, Zeroed,
         Interp!VBytes, VBytes
<1> DEFINE Outcome(i, ea, regs, len) ==
             LET n == top(i, ea, regs, len)
             IN  IF n < Len(regs) THEN Fail(Read(i, ea, regs, len, n), mem)
                 ELSE Retire(PostIndexed(i, Read(i, ea, regs, len, n)), mem, NextPc)
           Outcome_(i, ea, regs, len) ==
             LET n == top_(i, ea, regs, len)
             IN  IF n < Len(regs) THEN Interp!Fail(Read_(i, ea, regs, len, n), mem)
                 ELSE Interp!Retire(Interp!PostIndexed(i, Read_(i, ea, regs, len, n)), mem, Interp!NextPc)
           ea0 == eval_mem_addr(Inst.ops[2], ctx)
           len0 == IF Inst.op = "LD1R" THEN get_vec_elem_size(Inst.ops[1]) ELSE ListedBytes(Inst)
<1>2. ASSUME NEW i, NEW ea, NEW regs, NEW len, Outcome(i, ea, regs, len)
      PROVE  Outcome_(i, ea, regs, len)
  <2> HIDE DEF top, top_, Read, Read_
  <2> QED  BY <1>1, <1>2, SameState, SamePostIndexed
<1>3. Outcome(Inst, ea0, Inst.ops[1].regs, len0)
  BY DEF LoadVectors
<1>4. Interp!Executes({"LD1", "LD1R"}) /\ Interp!Inst = Inst
  BY SameState DEF LoadVectors
<1>5. /\ Interp!eval_mem_addr(Inst.ops[2], [ctx EXCEPT !.pc = Here]) = ea0
      /\ (IF Inst.op = "LD1R" THEN Interp!get_vec_elem_size(Inst.ops[1]) ELSE Interp!ListedBytes(Inst)) = len0
  BY SameAddresses, SameLanes, SameAccesses DEF AtRest
<1>6. Outcome_(Inst, ea0, Inst.ops[1].regs, len0)
  <2> HIDE DEF Outcome, Outcome_, ea0, len0
  <2> QED  BY <1>2, <1>3
<1> HIDE DEF ea0, len0
<1> QED  BY <1>4, <1>5, <1>6 DEF Interp!LoadVectors

LEMMA MirrorStep ==
  ASSUME AtRest, step
  PROVE  Interp!step
<1>1. CASE FetchFault \/ SkipUndecoded \/ Undefined \/ DcZva \/ DataProcessing \/ VectorProcessing
  BY <1>1, MirrorFetchFault, MirrorSkipUndecoded, MirrorUndefined, MirrorDcZva,
     MirrorDataProcessing,
     MirrorVectorProcessing DEF Interp!step
<1>2. CASE Branch \/ BranchIf \/ CompareBranch \/ TestBranch \/ BranchLink \/ Return
  BY <1>2, MirrorBranch, MirrorBranchIf, MirrorCompareBranch, MirrorTestBranch, MirrorBranchLink,
     MirrorReturn DEF Interp!step
<1>3. CASE LoadRegister \/ LoadPair \/ StoreRegister \/ StorePair \/ StoreExclusive
  BY <1>3, MirrorLoadRegister, MirrorLoadPair, MirrorStoreRegister, MirrorStorePair,
     MirrorStoreExclusive DEF Interp!step
<1>4. CASE LoadVectors \/ StoreVectors \/ LoadStructures \/ SupervisorCall
  BY <1>4, MirrorLoadVectors, MirrorStoreVectors, MirrorLoadStructures, MirrorSupervisorCall
     DEF Interp!step
<1>5. CASE OverflowPanic
  BY <1>5, MirrorOverflowPanic DEF Interp!step
<1> QED  BY <1>1, <1>2, <1>3, <1>4, <1>5 DEF step

-----------------------------------------------------------------------------
(* Casts of sums, of casts and of products with a power of two.            *)
LEMMA LowUnique ==
  ASSUME NEW n \in Nat, NEW r \in 0 .. 2^n - 1, NEW q \in Int
  PROVE  Low(r + 2^n * q, n) = r
<1> DEFINE p == 2^n
<1>1. p \in Nat \ {0} /\ r \in 0 .. p - 1
  BY PowerPositive
<1> HIDE DEF p
<1>2. (r + p * q) % p = r
  BY <1>1
<1> QED  BY <1>2 DEF Low, p

LEMMA LowParts ==
  ASSUME NEW n \in Nat, NEW v \in Int
  PROVE  \E q \in Int : v = Low(v, n) + 2^n * q
<1> DEFINE p == 2^n
<1>1. p \in Nat \ {0}
  BY PowerPositive
<1> HIDE DEF p
<1>2. v = (v % p) + p * (v \div p) /\ v \div p \in Int
  BY <1>1
<1> QED  BY <1>2 DEF Low, p

LEMMA LowOfSum ==
  ASSUME NEW n \in Nat, NEW u \in Int, NEW v \in Int
  PROVE  Low(Low(u, n) + v, n) = Low(u + v, n)
<1> DEFINE p == 2^n
           r == Low(u + v, n)
           s == Low(u, n)
<1>1. p \in Int /\ r \in 0 .. p - 1 /\ s \in Int
  BY PowerNat, LowRange
<1>2. PICK a \in Int : u = s + p * a
  BY LowParts
<1>3. PICK b \in Int : u + v = r + p * b
  <2>1. u + v \in Int
    OBVIOUS
  <2> HIDE DEF p
  <2> QED  BY <2>1, LowParts DEF p
<1> HIDE DEF p, r, s
<1>4. s + v = r + p * (b - a)
  BY <1>1, <1>2, <1>3
<1>5. Low(r + p * (b - a), n) = r
  BY <1>1, LowUnique DEF p
<1> QED  BY <1>4, <1>5 DEF r, s

LEMMA LowOfLow ==
  ASSUME NEW n \in Nat, NEW m \in 0 .. n, NEW v \in Int
  PROVE  Low(Low(v, n), m) = Low(v, m)
<1> DEFINE p == 2^m
           d == 2^(n - m)
           r == Low(v, m)
           s == Low(v, n)
<1>1. p \in Int /\ d \in Int /\ r \in 0 .. p - 1 /\ s \in Int
  BY PowerNat, LowRange
<1>2. 2^n = p * d
  <2>1. m + (n - m) = n
    OBVIOUS
  <2> QED  BY <2>1, PowerOfSum
<1>3. PICK a \in Int : v = s + 2^n * a
  BY LowParts
<1>4. PICK b \in Int : v = r + p * b
  <2>1. m \in Nat
    OBVIOUS
  <2> QED  BY <2>1, LowParts
<1> HIDE DEF p, d, r, s
<1>5. s = r + p * (b - d * a)
  BY <1>1, <1>2, <1>3, <1>4
<1>6. Low(r + p * (b - d * a), m) = r
  <2>1. b - d * a \in Int
    BY <1>1
  <2> QED  BY <1>1, <2>1, LowUnique DEF p
<1> QED  BY <1>5, <1>6 DEF r, s

LEMMA LowScaled ==
  ASSUME NEW n \in Nat, NEW a \in 0 .. n, NEW v \in Int
  PROVE  Low(v * 2^a, n) = Low(v, n - a) * 2^a
<1> DEFINE p == 2^(n - a)
           q == 2^a
           r == Low(v, n - a)
<1>1. p \in Nat /\ q \in Nat \ {0} /\ r \in 0 .. p - 1
  BY PowerPositive, LowRange
<1>2. 2^n = p * q
  <2>1. (n - a) + a = n
    OBVIOUS
  <2> QED  BY <2>1, PowerOfSum
<1>3. PICK b \in Int : v = r + p * b
  <2>1. n - a \in Nat
    OBVIOUS
  <2> QED  BY <2>1, LowParts
<1> HIDE DEF p, q, r
<1>4. v * q = r * q + (p * q) * b
  BY <1>1, <1>3
<1>5. r * q \in 0 .. p * q - 1
  BY <1>1, Scaled
<1>6. Low(r * q + (p * q) * b, n) = r * q
  BY <1>2, <1>5, LowUnique
<1> QED  BY <1>4, <1>6 DEF q, r

-----------------------------------------------------------------------------
(* Host code leaves a context of the right type, whatever the operands.    *)
LEMMA NativeReadTyped ==
  ASSUME NEW c \in CpuContext, NEW reg
  PROVE  load_reg(reg, c) \in XWord
<1> DEFINE val == IF IsVec(reg) THEN 0 ELSE IF reg.n = SP.n THEN c.sp ELSE get_x(reg.n, c)
<1>1. val \in XWord
  BY ZeroWord, GetX, ContextFields
<1>2. Low(val, WBits) \in XWord
  <2>1. val \in Int /\ WBits \in 0 .. XBits
    BY <1>1, WordNat, Widths
  <2> HIDE DEF val
  <2> QED  BY <2>1, LowWord
<1> QED  BY <1>1, <1>2 DEF load_reg

LEMMA NativeWriteTyped ==
  ASSUME NEW c \in CpuContext, NEW reg, NEW val \in XWord
  PROVE  store_reg(reg, val, c) \in CpuContext
<1> DEFINE cut == IF reg.w THEN Low(val, WBits) ELSE val
<1>1. cut \in XWord
  BY WordNat, Widths, LowWord
<1> HIDE DEF cut
<1>2. set_x(reg.n, cut, c) \in CpuContext /\ [c EXCEPT !.sp = cut] \in CpuContext
  BY <1>1, SetX, FieldWrites
<1> QED  BY <1>2 DEF store_reg, cut

LEMMA NativeValTyped ==
  ASSUME NEW c \in CpuContext, NEW op, IsResolved(op)
  PROVE  NativeVal(op, c) \in XWord
<1>1. CASE IsReg(op)
  BY <1>1, NativeReadTyped DEF NativeVal, IsReg
<1>2. CASE op.kind \in {"imm", "label"}
  BY <1>2 DEF NativeVal, IsReg, IsResolved, IsOperand
<1>3. CASE ~IsReg(op) /\ op.kind \notin {"imm", "label"}
  BY <1>3, ZeroWord DEF NativeVal
<1> QED  BY <1>1, <1>2, <1>3

(* The operands an emitted instruction has.                                *)
LEMMA NativeOperands ==
  ASSUME NEW i, IsResolvedInst(i), i.op \in NativeOps
  PROVE  /\ i.op \in {"MOV", "ORR", "ADRP", "MRS", "MSR", "CBZ", "CBNZ"} =>
              IsResolved(i.ops[1]) /\ IsResolved(i.ops[2])
         /\ i.op \in {"ADD", "SUB", "AND", "EOR", "LSL", "LSR", "ASR"} =>
              IsResolved(i.ops[1]) /\ IsResolved(i.ops[2]) /\ IsResolved(i.ops[3])
         /\ i.op \in {"B", "BL"} => IsResolved(i.ops[1]) /\ i.ops[1].kind = "label"
         /\ i.op \in {"CBZ", "CBNZ"} => i.ops[2].kind = "label"
<1>1. DOMAIN i.ops = 1 .. Len(i.ops) /\ Len(i.ops) \in Nat
  BY DEF IsResolvedInst, IsInstruction
<1>2. \A k \in 1 .. Len(i.ops) : IsResolved(i.ops[k])
  BY <1>1 DEF IsResolvedInst
<1>3. /\ i.op \in {"MOV", "ORR", "ADRP", "MRS", "MSR", "CBZ", "CBNZ"} => Len(i.ops) >= 2
      /\ i.op \in {"ADD", "SUB", "AND", "EOR", "LSL", "LSR", "ASR"} => Len(i.ops) >= 3
      /\ i.op \in {"B", "BL"} => Len(i.ops) >= 1
  BY DEF IsResolvedInst, IsInstruction, UnaryOps, BinaryOps, TernaryOps, DataOps, NoOps, MoveOps,
         LogicOps, SystemOps, ShiftOps
<1>4. /\ i.op \in {"B", "BL"} => i.ops[1].kind = "label"
      /\ i.op \in {"CBZ", "CBNZ"} => i.ops[2].kind = "label"
  BY DEF IsResolvedInst, IsInstruction
<1> QED  BY <1>1, <1>2, <1>3, <1>4

LEMMA EmittedTyped ==
  ASSUME NEW i, IsResolvedInst(i), i.op \in NativeOps, NEW c \in CpuContext, NEW next \in XWord
  PROVE  Emitted(i, next, c) \in CpuContext
<1> DEFINE v(k) == NativeVal(i.ops[k], c)
           a == v(3) % XBits
<1>1. CASE ~Emits(i) \/ i.op \in {"NOP", "B", "RET", "CBZ", "CBNZ"}
  BY <1>1 DEF Emitted
<1>2. CASE Emits(i) /\ i.op = "BL"
  BY <1>2, SetX DEF Emitted
<1>3. CASE Emits(i) /\ i.op \in {"MOV", "ORR", "ADRP"}
  <2>1. v(2) \in XWord
    BY <1>3, NativeOperands, NativeValTyped
  <2> QED  BY <1>3, <2>1, NativeWriteTyped DEF Emitted
<1>4. CASE Emits(i) /\ i.op \in {"ADD", "SUB", "AND", "EOR", "LSL", "LSR", "ASR"}
  <2>1. v(2) \in XWord /\ v(3) \in XWord
    BY <1>4, NativeOperands, NativeValTyped
  <2> HIDE DEF v
  <2>2. v(2) \in Nat /\ v(2) \in Int /\ v(3) \in Int /\ XBits \in Nat \ {0}
    BY <2>1, WordNat, Widths
  <2>3. a \in 0 .. XBits /\ a \in Nat
    BY <2>2
  <2>4. Wrap(v(2) + v(3)) \in XWord /\ Wrap(v(2) - v(3)) \in XWord
    <3>1. v(2) + v(3) \in Int /\ v(2) - v(3) \in Int
      BY <2>2
    <3> QED  BY <3>1, WrapWord
  <2>5. And(v(2), v(3)) \in XWord /\ Xor(v(2), v(3)) \in XWord
    BY <2>1, LogicWords
  <2> HIDE DEF a
  <2>6. Shl(v(2), a, XBits) \in XWord
    BY <2>2, <2>3, ShlWord DEF XWord
  <2>7. Asr(v(2), a, XBits) \in XWord
    BY <2>2, <2>3, AsrRange DEF XWord
  <2>8. Shr(v(2), a) \in XWord
    <3>1. Shr(v(2), a) \in 0 .. v(2)
      BY <2>2, <2>3, ShrNat
    <3> QED  BY <2>1, <2>2, <3>1, Widths, PowerNat DEF XWord
  <2>9. /\ store_reg(Rd(i), Wrap(v(2) + v(3)), c) \in CpuContext
        /\ store_reg(Rd(i), Wrap(v(2) - v(3)), c) \in CpuContext
        /\ store_reg(Rd(i), And(v(2), v(3)), c) \in CpuContext
        /\ store_reg(Rd(i), Xor(v(2), v(3)), c) \in CpuContext
        /\ store_reg(Rd(i), Shl(v(2), a, XBits), c) \in CpuContext
        /\ store_reg(Rd(i), Asr(v(2), a, XBits), c) \in CpuContext
        /\ store_reg(Rd(i), Shr(v(2), a), c) \in CpuContext
    BY <2>4, <2>5, <2>6, <2>7, <2>8, NativeWriteTyped
  <2> QED  BY <1>4, <2>9 DEF Emitted, v, a
<1>5. CASE Emits(i) /\ i.op = "MRS"
  <2>1. c.tpidr_el0 \in XWord
    BY ContextFields
  <2> QED  BY <1>5, <2>1, NativeWriteTyped DEF Emitted
<1>6. CASE Emits(i) /\ i.op = "MSR"
  <2>1. v(2) \in XWord
    BY <1>6, NativeOperands, NativeValTyped
  <2> QED  BY <1>6, <2>1, FieldWrites DEF Emitted
<1> QED  BY <1>1, <1>2, <1>3, <1>4, <1>5, <1>6 DEF NativeOps

(* Host code touches neither the pc nor the exit flag.                     *)
LEMMA EmittedFields ==
  ASSUME NEW i, i.op \in NativeOps, NEW c \in CpuContext, NEW next
  PROVE  Emitted(i, next, c).pc = c.pc /\ Emitted(i, next, c).exited = c.exited
<1>1. c = [x |-> c.x, sp |-> c.sp, pc |-> c.pc, nzcv |-> c.nzcv, v |-> c.v,
           tpidr_el0 |-> c.tpidr_el0, exited |-> c.exited, exit_code |-> c.exit_code]
  BY ContextFields
<1>2. ASSUME NEW n, NEW val PROVE set_x(n, val, c).pc = c.pc /\ set_x(n, val, c).exited = c.exited
  BY <1>1 DEF set_x
<1>3. ASSUME NEW reg, NEW val
      PROVE  store_reg(reg, val, c).pc = c.pc /\ store_reg(reg, val, c).exited = c.exited
  BY <1>1, <1>2 DEF store_reg
<1>4. ASSUME NEW val
      PROVE  [c EXCEPT !.tpidr_el0 = val].pc = c.pc /\ [c EXCEPT !.tpidr_el0 = val].exited = c.exited
  BY <1>1
<1> QED  BY <1>2, <1>3, <1>4 DEF Emitted, NativeOps

LEMMA ReturnedTyped ==
  ASSUME NEW i, IsResolvedInst(i), i.op \in NativeOps, NEW c \in CpuContext, NEW next \in XWord
  PROVE  ReturnedPc(i, next, c) \in XWord
<1>1. CASE i.op \in {"B", "BL"}
  BY <1>1, NativeOperands DEF ReturnedPc, IsResolved
<1>2. CASE i.op = "RET"
  BY <1>2, GetX DEF ReturnedPc
<1>3. CASE i.op \in {"CBZ", "CBNZ"}
  BY <1>3, NativeOperands DEF ReturnedPc, IsResolved
<1>4. CASE i.op \notin {"B", "BL", "RET", "CBZ", "CBNZ"}
  BY <1>4 DEF ReturnedPc
<1> QED  BY <1>1, <1>2, <1>3, <1>4

-----------------------------------------------------------------------------
(* A register both sides know, read or written in contexts that differ in  *)
(* their pc.                                                               *)
LEMMA NativeRead ==
  ASSUME NEW c \in CpuContext, NEW p \in XWord, NEW reg \in Registers, reg # WSP, ~IsVec(reg)
  PROVE  load_reg(reg, c) = get_reg_val(reg, [c EXCEPT !.pc = p])
<1> DEFINE d == [c EXCEPT !.pc = p]
<1>1. d.x = c.x /\ d.sp = c.sp
  BY ContextFields
<1>2. CASE reg = SP
  <2>1. reg.n = SP.n /\ ~reg.w
    BY <1>2 DEF SP, X
  <2> QED  BY <1>1, <1>2, <2>1 DEF load_reg, get_reg_val
<1>3. CASE reg # SP
  <2>1. reg.n # SP.n
    BY <1>3 DEF Registers, IsVec, SP, WSP, X, W
  <2>2. get_x(reg.n, d) = get_x(reg.n, c) /\ get_x(reg.n, c) \in XWord
    BY <1>1, GetX DEF get_x
  <2>3. Width(reg) = IF reg.w THEN WBits ELSE XBits
    BY DEF Width, is_w_reg
  <2>4. Low(get_x(reg.n, c), XBits) = get_x(reg.n, c)
    BY <2>2, Widths, LowOfSmall DEF XWord
  <2>5. get_reg_val(reg, d) = IF reg.w THEN Low(get_x(reg.n, c), WBits) ELSE get_x(reg.n, c)
    <3> HIDE DEF d
    <3> QED  BY <1>3, <2>2, <2>3, <2>4 DEF get_reg_val
  <2>6. load_reg(reg, c) = IF reg.w THEN Low(get_x(reg.n, c), WBits) ELSE get_x(reg.n, c)
    BY <2>1 DEF load_reg
  <2> QED  BY <2>5, <2>6
<1> QED  BY <1>2, <1>3

LEMMA NativeWrite ==
  ASSUME NEW c \in CpuContext, NEW p \in XWord, NEW reg \in Registers, reg # WSP, ~IsVec(reg),
         NEW val \in XWord
  PROVE  set_reg_val(reg, val, [c EXCEPT !.pc = p]) = [store_reg(reg, val, c) EXCEPT !.pc = p]
<1>1. c = [x |-> c.x, sp |-> c.sp, pc |-> c.pc, nzcv |-> c.nzcv, v |-> c.v,
           tpidr_el0 |-> c.tpidr_el0, exited |-> c.exited, exit_code |-> c.exit_code]
  BY ContextFields
<1>2. CASE reg = SP
  <2>1. reg.n = SP.n /\ ~reg.w
    BY <1>2 DEF SP, X
  <2> QED  BY <1>1, <1>2, <2>1 DEF store_reg, set_reg_val
<1>3. CASE reg # SP
  <2>1. reg.n # SP.n
    BY <1>3 DEF Registers, IsVec, SP, WSP, X, W
  <2> DEFINE cut == IF reg.w THEN Low(val, WBits) ELSE val
  <2>2. Low(val, Width(reg)) = cut
    <3>1. Low(val, XBits) = val
      BY Widths, LowOfSmall DEF XWord
    <3> QED  BY <3>1 DEF Width, is_w_reg
  <2> HIDE DEF cut
  <2>3. set_x(reg.n, cut, [c EXCEPT !.pc = p]) = [set_x(reg.n, cut, c) EXCEPT !.pc = p]
    BY <1>1 DEF set_x
  <2>4. set_reg_val(reg, val, [c EXCEPT !.pc = p]) = set_x(reg.n, cut, [c EXCEPT !.pc = p])
    BY <1>3, <2>2 DEF set_reg_val
  <2>5. store_reg(reg, val, c) = set_x(reg.n, cut, c)
    BY <2>1 DEF store_reg, cut
  <2> QED  BY <2>3, <2>4, <2>5
<1> QED  BY <1>2, <1>3

(* An operand both sides read alike.                                       *)
IsPlain(op) ==
  /\ IsResolved(op) /\ op.kind # "shiftreg"
  /\ op.kind = "imm" => op.shift = NoShift
  /\ IsReg(op) => op.reg # WSP /\ ~IsVec(op.reg)

LEMMA PlainRegister ==
  ASSUME NEW op, IsPlain(op), IsReg(op)
  PROVE  op.kind = "reg" /\ op.reg \in Registers /\ op.reg # WSP /\ ~IsVec(op.reg)
BY OperandRegister DEF IsPlain, IsReg, IsResolved

LEMMA NativeValue ==
  ASSUME NEW c \in CpuContext, NEW p \in XWord, NEW op, IsPlain(op)
  PROVE  NativeVal(op, c) = get_operand_val(op, [c EXCEPT !.pc = p])
<1>1. CASE IsReg(op)
  BY <1>1, PlainRegister, NativeRead DEF NativeVal, get_operand_val, IsReg
<1>2. CASE op.kind = "imm"
  <2>1. eval_imm_shift(op.val, op.shift) = op.val
    BY <1>2 DEF IsPlain, eval_imm_shift, NoShift, Shift
  <2> QED  BY <1>2, <2>1 DEF NativeVal, get_operand_val, IsReg
<1>3. CASE ~IsReg(op) /\ op.kind # "imm"
  BY <1>3 DEF NativeVal, get_operand_val, IsReg
<1> QED  BY <1>1, <1>2, <1>3

LEMMA AgreedOperands ==
  ASSUME NEW i, IsResolvedInst(i), i.op \in NativeOps, Agreed(i)
  PROVE  /\ Emits(i)
         /\ i.op \in {"MOV", "ADRP", "CBZ", "CBNZ"} => IsPlain(i.ops[1]) /\ IsPlain(i.ops[2]) /\ IsReg(i.ops[1])
         /\ i.op = "MRS" => IsPlain(i.ops[1]) /\ IsReg(i.ops[1])
         /\ i.op = "MSR" => IsPlain(i.ops[2]) /\ IsReg(i.ops[2])
         /\ i.op \in {"ADD", "SUB", "AND", "EOR", "LSL", "LSR", "ASR"} =>
              /\ IsPlain(i.ops[1]) /\ IsPlain(i.ops[2]) /\ IsPlain(i.ops[3])
              /\ IsReg(i.ops[1]) /\ IsReg(i.ops[2]) /\ Len(i.ops) >= 3
<1>1. DOMAIN i.ops = 1 .. Len(i.ops) /\ Len(i.ops) \in Nat
  BY DEF IsResolvedInst, IsInstruction
<1>2. \A k \in 1 .. Len(i.ops) : IsPlain(i.ops[k])
  BY <1>1 DEF IsResolvedInst, Agreed, IsPlain
<1>3. /\ i.op \in {"MOV", "ORR", "ADRP", "MRS", "MSR", "CBZ", "CBNZ"} => Len(i.ops) >= 2
      /\ i.op \in {"ADD", "SUB", "AND", "EOR", "LSL", "LSR", "ASR"} => Len(i.ops) >= 3
  BY DEF IsResolvedInst, IsInstruction, UnaryOps, BinaryOps, TernaryOps, DataOps, NoOps, MoveOps,
         LogicOps, SystemOps, ShiftOps
<1>4. Emits(i)
  BY DEF Agreed
<1>5. /\ i.op \in {"MOV", "ADRP", "CBZ", "CBNZ", "MRS"} => IsReg(i.ops[1])
      /\ i.op = "MSR" => IsReg(i.ops[2])
      /\ i.op \in {"ADD", "SUB", "AND", "EOR", "LSL", "LSR", "ASR"} => IsReg(i.ops[1]) /\ IsReg(i.ops[2])
  BY <1>4 DEF Emits
<1> QED  BY <1>1, <1>2, <1>3, <1>4, <1>5

LEMMA AmountsMeet ==
  ASSUME NEW v \in XWord, v % XBits < WBits
  PROVE  v % WBits = v % XBits /\ v % XBits \in 0 .. WBits - 1
<1> DEFINE r == v % XBits
           q == v \div XBits
           e == 2 * q
<1>1. v \in Int /\ WBits \in Nat \ {0} /\ XBits \in Nat \ {0} /\ XBits = 2 * WBits
  BY WordNat, Widths
<1>2. r \in Nat /\ v = r + XBits * q /\ q \in Int
  <2>1. v \in Int /\ XBits \in Nat \ {0}
    BY <1>1
  <2> QED  BY <2>1
<1>3. r \in 0 .. WBits - 1
  BY <1>1, <1>2
<1> HIDE DEF r, q
<1>4. e \in Int /\ v = r + WBits * e
  BY <1>1, <1>2
<1> HIDE DEF e
<1>5. (r + WBits * e) % WBits = r
  <2>1. WBits \in Nat \ {0}
    BY <1>1
  <2> QED  BY <1>3, <1>4, <2>1
<1> QED  BY <1>3, <1>4, <1>5 DEF r

(* The shift of a word cut to its low half, by less than that has bits.    *)
LEMMA WordShifts ==
  ASSUME NEW v \in XWord, NEW a \in 0 .. WBits - 1
  PROVE  /\ Low(Shl(v, a, XBits), WBits) = Low(Shl(Low(v, WBits), a, WBits), WBits)
         /\ v < 2^WBits => Low(v, WBits) = v
         /\ v < 2^(WBits - 1) => Low(Asr(v, a, XBits), WBits) = Low(Asr(Low(v, WBits), a, WBits), WBits)
<1>1. /\ v \in Nat /\ v \in Int /\ WBits \in Nat /\ XBits \in Nat
      /\ a \in 0 .. XBits /\ a \in 0 .. WBits /\ a \in Nat
  BY WordNat, Widths
<1>2. Low(Shl(v, a, XBits), WBits) = Low(Shl(Low(v, WBits), a, WBits), WBits)
  <2> DEFINE q == 2^a
             s == Low(v, WBits)
             y == Low(v, XBits - a)
             z == Low(v, WBits - a)
  <2>1. XBits - a \in Nat /\ WBits - a \in Nat /\ WBits - a \in 0 .. XBits - a /\ WBits - a \in 0 .. WBits
        /\ WBits - a \in 0 .. WBits - a
    BY Widths
  <2>2. s \in Int /\ y \in Int /\ z \in Int
    <3>1. s \in Nat
      BY <1>1, LowNat
    <3>2. y \in Nat
      BY <1>1, <2>1, LowNat
    <3>3. z \in Nat
      BY <1>1, <2>1, LowNat
    <3> QED  BY <3>1, <3>2, <3>3
  <2>3. Low(y, WBits - a) = z /\ Low(s, WBits - a) = z /\ Low(z, WBits - a) = z
    BY <1>1, <2>1, LowOfLow
  <2> HIDE DEF s, y, z
  <2>4. Low(y * 2^a, WBits) = z * 2^a
    BY <1>1, <2>2, <2>3, LowScaled
  <2>5. Low(z * 2^a, WBits) = z * 2^a
    BY <1>1, <2>2, <2>3, LowScaled
  <2>6. Shl(v, a, XBits) = y * 2^a /\ Shl(s, a, WBits) = z * 2^a
    BY <2>3 DEF Shl, y
  <2> QED  BY <2>4, <2>5, <2>6 DEF s
<1>3. ASSUME v < 2^WBits PROVE Low(v, WBits) = v
  <2>1. v \in 0 .. 2^WBits - 1
    BY <1>1, <1>3, PowerNat
  <2> QED  BY <1>1, <2>1, LowOfSmall
<1>4. ASSUME v < 2^(WBits - 1)
      PROVE  Low(Asr(v, a, XBits), WBits) = Low(Asr(Low(v, WBits), a, WBits), WBits)
  <2>1. 2^(WBits - 1) <= 2^(XBits - 1) /\ 2^(WBits - 1) <= 2^WBits
        /\ 2^(WBits - 1) \in Nat /\ 2^(XBits - 1) \in Nat /\ 2^WBits \in Nat
    <3>1. WBits - 1 \in Nat /\ XBits - 1 \in Nat /\ WBits - 1 \in 0 .. XBits - 1 /\ WBits - 1 \in 0 .. WBits
      BY Widths
    <3> QED  BY <1>1, <3>1, PowerMonotone, PowerNat
  <2>2. Low(v, WBits) = v /\ Low(v, XBits) = v
    <3>1. v < 2^WBits
      BY <1>1, <1>4, <2>1
    <3> QED  BY <1>1, <1>3, <3>1, LowOfSmall DEF XWord
  <2>3. Signed(v, XBits) = v /\ Signed(v, WBits) = v
    BY <1>1, <1>4, <2>1, <2>2 DEF Signed
  <2> DEFINE s == v \div 2^a
  <2>4. s \in Int
    BY <1>1, DivInt
  <2>5. Low(Low(s, XBits), WBits) = Low(s, WBits) /\ Low(Low(s, WBits), WBits) = Low(s, WBits)
    <3>1. WBits \in 0 .. XBits /\ WBits \in 0 .. WBits
      BY Widths
    <3> HIDE DEF s
    <3> QED  BY <1>1, <2>4, <3>1, LowOfLow
  <2> QED  BY <2>2, <2>3, <2>5 DEF Asr
<1> QED  BY <1>2, <1>3, <1>4

(* What reaches a 32-bit register of a value is its low half.              *)
LEMMA NarrowWrite ==
  ASSUME NEW c, NEW reg \in Registers, reg.w, reg # WSP, NEW u, NEW v, Low(u, WBits) = Low(v, WBits)
  PROVE  set_reg_val(reg, u, c) = set_reg_val(reg, v, c)
BY DEF set_reg_val, Registers, IsVec, Width, is_w_reg, SP, X

LEMMA ShiftsAgree ==
  ASSUME ctx \in CpuContext, NEW i, IsResolvedInst(i), i.op \in {"LSL", "LSR", "ASR"}, Agreed(i),
         NEW next, NEW p \in XWord
  PROVE  ShiftRotate(i, [ctx EXCEPT !.pc = p]) = [Emitted(i, next, ctx) EXCEPT !.pc = p]
<1> DEFINE d == [ctx EXCEPT !.pc = p]
           v == NativeVal(i.ops[2], ctx)
           u == NativeVal(i.ops[3], ctx)
           a == u % XBits
           n == Width(Rd(i))
           b == u % n
           w == Low(v, n)
           host == CASE i.op = "LSL" -> Shl(v, a, XBits)
                     [] i.op = "LSR" -> Shr(v, a)
                     [] i.op = "ASR" -> Asr(v, a, XBits)
           guest == CASE i.op = "LSL" -> Shl(w, b, n)
                      [] i.op = "LSR" -> Shr(w, b)
                      [] i.op = "ASR" -> Asr(w, b, n)
<1>1. i.op \in NativeOps
  BY DEF NativeOps
<1>2. /\ IsPlain(i.ops[1]) /\ IsPlain(i.ops[2]) /\ IsPlain(i.ops[3]) /\ IsReg(i.ops[1])
      /\ Emits(i)
      /\ i.op = "LSL" => Len(i.ops) = 3
  BY <1>1, AgreedOperands DEF Agreed
<1>3. v = get_operand_val(i.ops[2], d) /\ u = get_operand_val(i.ops[3], d)
  BY <1>2, NativeValue
<1>4. v \in XWord /\ u \in XWord
  BY <1>2, NativeValTyped DEF IsPlain
<1>5. Rd(i) \in Registers /\ Rd(i) # WSP /\ ~IsVec(Rd(i))
  BY <1>2, PlainRegister DEF Rd
<1>6. Rd(i).w => /\ u % XBits < WBits
                 /\ i.op = "LSR" => v < 2^WBits
                 /\ i.op = "ASR" => v < 2^(WBits - 1)
  BY DEF Agreed
<1> HIDE DEF d, v, u
<1>7. host \in XWord
  <2>1. v \in Nat /\ v \in Int /\ u \in Nat /\ XBits \in Nat \ {0}
    BY <1>4, WordNat, Widths
  <2>2. a \in 0 .. XBits /\ a \in Nat
    BY <2>1
  <2> HIDE DEF a
  <2>3. Shl(v, a, XBits) \in XWord
    BY <2>1, <2>2, ShlWord DEF XWord
  <2>4. Asr(v, a, XBits) \in XWord
    BY <2>1, <2>2, AsrRange DEF XWord
  <2>5. Shr(v, a) \in XWord
    <3>1. Shr(v, a) \in 0 .. v
      BY <2>1, <2>2, ShrNat
    <3> QED  BY <1>4, <2>1, <3>1, Widths, PowerNat DEF XWord
  <2> QED  BY <2>3, <2>4, <2>5
<1>8. Emitted(i, next, ctx) = store_reg(Rd(i), host, ctx)
  BY <1>2 DEF Emitted, v, u
<1>9. ShiftRotate(i, d) = set_reg_val(Rd(i), guest, d)
  BY <1>2, <1>3 DEF ShiftRotate
<1>10. set_reg_val(Rd(i), guest, d) = set_reg_val(Rd(i), host, d)
  <2>1. CASE Rd(i).w
    <3>1. n = WBits
      BY <1>5, <2>1 DEF Width, is_w_reg
    <3>2. b = a /\ a \in 0 .. WBits - 1
      BY <1>4, <1>6, <2>1, <3>1, AmountsMeet
    <3> HIDE DEF a, b, n
    <3>3. /\ Low(Shl(v, a, XBits), WBits) = Low(Shl(Low(v, WBits), a, WBits), WBits)
          /\ i.op = "LSR" => Low(v, WBits) = v
          /\ i.op = "ASR" => Low(Asr(v, a, XBits), WBits) = Low(Asr(Low(v, WBits), a, WBits), WBits)
      BY <1>4, <1>6, <2>1, <3>2, WordShifts
    <3>4. Low(guest, WBits) = Low(host, WBits)
      BY <3>1, <3>2, <3>3
    <3> HIDE DEF guest, host
    <3> QED  BY <1>5, <2>1, <3>4, NarrowWrite
  <2>2. CASE ~Rd(i).w
    <3>1. n = XBits
      BY <2>2 DEF Width, is_w_reg
    <3>2. w = v
      BY <1>4, <3>1, Widths, LowOfSmall DEF XWord
    <3>3. guest = host
      BY <3>1, <3>2
    <3> QED  BY <3>3
  <2> QED  BY <2>1, <2>2
<1>11. set_reg_val(Rd(i), host, d) = [store_reg(Rd(i), host, ctx) EXCEPT !.pc = p]
  <2> HIDE DEF host
  <2> QED  BY <1>5, <1>7, NativeWrite DEF d
<1> QED  BY <1>8, <1>9, <1>10, <1>11 DEF d

NativeData == {"NOP", "MOV", "ADD", "SUB", "ADRP", "AND", "EOR", "LSL", "LSR", "ASR", "MRS", "MSR"}

(* The host code of an instruction that stays in the block leaves what the *)
(* arm of the interpreter leaves, from a context with another pc.          *)
LEMMA EmittedExecutes ==
  ASSUME ctx \in CpuContext, NEW i, IsResolvedInst(i), i.op \in NativeData, Agreed(i),
         NEW next, NEW p \in XWord
  PROVE  Execute(i, [ctx EXCEPT !.pc = p]) = [Emitted(i, next, ctx) EXCEPT !.pc = p]
<1> DEFINE d == [ctx EXCEPT !.pc = p]
           v(k) == NativeVal(i.ops[k], ctx)
<1>0. \A c :
            /\ i.op = "NOP" => Execute(i, c) = c
            /\ i.op \in {"ADD", "SUB"} => Execute(i, c) = AddSub(i, c)
            /\ i.op \in {"MOV", "ADRP"} => Execute(i, c) = Move(i, c)
            /\ i.op \in {"AND", "EOR"} => Execute(i, c) = Logic(i, c)
            /\ i.op \in {"LSL", "LSR", "ASR"} => Execute(i, c) = ShiftRotate(i, c)
            /\ i.op \in {"MRS", "MSR"} => Execute(i, c) = System(i, c)
  <2> USE DEF Execute, AddSubOps, NegOps, MoveOps, MultiplyOps, DivideOps, LogicOps, ExtendOps,
              BitfieldOps, InsertZeroOps, ReverseOps, ShiftOps, SelectOps, CompareIfOps, SystemOps, NoOps
  <2> HIDE DEF d, v
  <2>1. ASSUME NEW c, i.op = "NOP" PROVE Execute(i, c) = c
    BY <2>1
  <2>2. ASSUME NEW c, i.op \in {"ADD", "SUB"} PROVE Execute(i, c) = AddSub(i, c)
    BY <2>2
  <2>3. ASSUME NEW c, i.op \in {"MOV", "ADRP"} PROVE Execute(i, c) = Move(i, c)
    BY <2>3
  <2>4. ASSUME NEW c, i.op \in {"AND", "EOR"} PROVE Execute(i, c) = Logic(i, c)
    BY <2>4
  <2>5. ASSUME NEW c, i.op \in {"LSL", "LSR", "ASR"} PROVE Execute(i, c) = ShiftRotate(i, c)
    BY <2>5
  <2>6. ASSUME NEW c, i.op \in {"MRS", "MSR"} PROVE Execute(i, c) = System(i, c)
    BY <2>6
  <2> HIDE DEF Execute
  <2> QED  BY <2>1, <2>2, <2>3, <2>4, <2>5, <2>6
<1>1. i.op \in NativeOps /\ Emits(i)
  BY DEF NativeData, NativeOps, Agreed
<1>2. ASSUME NEW k, IsPlain(i.ops[k])
      PROVE  v(k) = get_operand_val(i.ops[k], d) /\ v(k) \in XWord
  BY <1>2, NativeValue, NativeValTyped DEF IsPlain
<1>3. ASSUME NEW val \in XWord, IsPlain(i.ops[1]), IsReg(i.ops[1])
      PROVE  set_reg_val(Rd(i), val, d) = [store_reg(Rd(i), val, ctx) EXCEPT !.pc = p]
  BY <1>3, PlainRegister, NativeWrite DEF Rd
<1>4. CASE i.op = "NOP"
  <2>1. Execute(i, d) = d
    <3> HIDE DEF d
    <3> QED  BY <1>0, <1>4
  <2>2. Emitted(i, next, ctx) = ctx
    BY <1>4 DEF Emitted
  <2> QED  BY <2>1, <2>2
<1>5. CASE i.op \in {"ADD", "SUB"}
  <2> DEFINE sum == Wrap(IF i.op = "ADD" THEN v(2) + v(3) ELSE v(2) - v(3))
  <2>1. Len(i.ops) >= 3 /\ IsPlain(i.ops[1]) /\ IsReg(i.ops[1]) /\ IsPlain(i.ops[2]) /\ IsPlain(i.ops[3])
    BY <1>1, <1>5, AgreedOperands
  <2>2. v(2) = get_operand_val(i.ops[2], d) /\ v(3) = get_operand_val(i.ops[3], d)
        /\ v(2) \in Int /\ v(3) \in Int
    <3>1. v(2) \in XWord /\ v(3) \in XWord
      BY <1>2, <2>1
    <3> QED  BY <1>2, <2>1, <3>1, WordNat
  <2>3. Source(i, 1) = i.ops[2] /\ Source(i, 2) = i.ops[3]
    BY <1>5, <2>1 DEF Source, Comparing
  <2> HIDE DEF d, v
  <2>4. Execute(i, d) = AddSub(i, d)
    BY <1>0, <1>5
  <2>5. AddSub(i, d) = set_reg_val(Rd(i), sum, d)
    BY <1>5, <2>2, <2>3 DEF AddSub, Comparing
  <2>6. Emitted(i, next, ctx) = store_reg(Rd(i), sum, ctx)
    BY <1>1, <1>5 DEF Emitted, v
  <2>7. sum \in XWord
    <3>1. v(2) + v(3) \in Int /\ v(2) - v(3) \in Int
      BY <2>2
    <3> QED  BY <3>1, WrapWord
  <2> HIDE DEF sum
  <2> QED  BY <1>3, <2>1, <2>4, <2>5, <2>6, <2>7 DEF d
<1>6. CASE i.op \in {"MOV", "ADRP"}
  <2>1. IsPlain(i.ops[1]) /\ IsReg(i.ops[1]) /\ IsPlain(i.ops[2])
    BY <1>1, <1>6, AgreedOperands
  <2>2. v(2) = get_operand_val(i.ops[2], d) /\ v(2) \in XWord
    BY <1>2, <2>1
  <2>3. i.op = "ADRP" => Low(v(2), PageBits) = 0
    BY DEF Agreed
  <2> HIDE DEF d, v
  <2>4. Execute(i, d) = Move(i, d)
    BY <1>0, <1>6
  <2>5. v(2) - Low(v(2), PageBits) = v(2) \/ i.op # "ADRP"
    BY <2>2, <2>3, WordNat
  <2>6. Move(i, d) = set_reg_val(Rd(i), v(2), d)
    BY <1>6, <2>2, <2>5 DEF Move
  <2>7. Emitted(i, next, ctx) = store_reg(Rd(i), v(2), ctx)
    BY <1>1, <1>6 DEF Emitted, v
  <2> QED  BY <1>3, <2>1, <2>2, <2>4, <2>6, <2>7 DEF d
<1>7. CASE i.op \in {"AND", "EOR"}
  <2> DEFINE res == IF i.op = "AND" THEN And(v(2), v(3)) ELSE Xor(v(2), v(3))
  <2>1. Len(i.ops) >= 3 /\ IsPlain(i.ops[1]) /\ IsReg(i.ops[1]) /\ IsPlain(i.ops[2]) /\ IsPlain(i.ops[3])
    BY <1>1, <1>7, AgreedOperands
  <2>2. v(2) = get_operand_val(i.ops[2], d) /\ v(3) = get_operand_val(i.ops[3], d)
        /\ v(2) \in XWord /\ v(3) \in XWord
    BY <1>2, <2>1
  <2>3. Source(i, 1) = i.ops[2] /\ Source(i, 2) = i.ops[3]
    BY <1>7, <2>1 DEF Source, Comparing
  <2> HIDE DEF d, v
  <2>4. Execute(i, d) = Logic(i, d)
    BY <1>0, <1>7
  <2>5. Combined(i.op, v(2), v(3)) = res
    BY <1>7 DEF Combined
  <2>6. Logic(i, d) = set_reg_val(Rd(i), res, d)
    <3> HIDE DEF res
    <3> QED  BY <1>7, <2>2, <2>3, <2>5 DEF Logic
  <2>7. Emitted(i, next, ctx) = store_reg(Rd(i), res, ctx)
    BY <1>1, <1>7 DEF Emitted, v
  <2>8. res \in XWord
    BY <2>2, LogicWords
  <2> HIDE DEF res
  <2> QED  BY <1>3, <2>1, <2>4, <2>6, <2>7, <2>8 DEF d
<1>8. CASE i.op \in {"LSL", "LSR", "ASR"}
  <2>1. Execute(i, d) = ShiftRotate(i, d)
    <3> HIDE DEF d
    <3> QED  BY <1>0, <1>8
  <2> QED  BY <1>8, <2>1, ShiftsAgree
<1>9. CASE i.op \in {"MRS", "MSR"}
  <2>1. Execute(i, d) = System(i, d)
    <3> HIDE DEF d
    <3> QED  BY <1>0, <1>9
  <2>2. CASE i.op = "MRS"
    <3>1. IsPlain(i.ops[1]) /\ IsReg(i.ops[1]) /\ i.ops[2] = OpSys("TPIDR_EL0")
      BY <1>1, <2>2, AgreedOperands DEF Agreed
    <3>2. d.tpidr_el0 = ctx.tpidr_el0 /\ ctx.tpidr_el0 \in XWord
      BY ContextFields
    <3>3. i.ops[2].name = "TPIDR_EL0" /\ i.ops[2].cnt = FALSE
      BY <3>1 DEF OpSys
    <3>4. System(i, d) = set_reg_val(Rd(i), ctx.tpidr_el0, d)
      <4> HIDE DEF d
      <4> QED  BY <2>2, <3>2, <3>3 DEF System
    <3>5. Emitted(i, next, ctx) = store_reg(Rd(i), ctx.tpidr_el0, ctx)
      BY <1>1, <2>2 DEF Emitted
    <3> QED  BY <1>3, <2>1, <3>1, <3>2, <3>4, <3>5
  <2>3. CASE i.op = "MSR"
    <3>1. IsPlain(i.ops[2]) /\ i.ops[1] = OpSys("TPIDR_EL0")
      BY <1>1, <2>3, AgreedOperands DEF Agreed
    <3>2. i.ops[1].name = "TPIDR_EL0" /\ v(2) = get_operand_val(i.ops[2], d)
      BY <1>2, <3>1 DEF OpSys
    <3>3. System(i, d) = [d EXCEPT !.tpidr_el0 = v(2)]
      <4> HIDE DEF d, v
      <4> QED  BY <2>3, <3>2 DEF System
    <3>4. Emitted(i, next, ctx) = [ctx EXCEPT !.tpidr_el0 = v(2)]
      BY <1>1, <2>3 DEF Emitted
    <3> QED  BY <2>1, <3>3, <3>4, ContextFields
  <2> QED  BY <1>9, <2>2, <2>3
<1> QED  BY <1>4, <1>5, <1>6, <1>7, <1>8, <1>9 DEF NativeData

-----------------------------------------------------------------------------
(* The invariant.  JitTypeOK alone is not inductive: a block must also have *)
(* operands that resolve, for its host code to leave a typed context, and  *)
(* an address that is a word, for the pc to be one.                        *)

(* A block holds the instructions it was compiled from. *)
IsBlock(block) ==
  /\ DOMAIN block = 1 .. Len(block) /\ Len(block) \in 1 .. MaxInsts
  /\ \A k \in DOMAIN block :
       /\ IsResolvedInst(block[k]) /\ block[k].op \in NativeOps
       /\ block[k].op \in Enders => k = Len(block)

JitInv ==
  /\ TypeOK /\ JitTypeOK
  /\ \A pc \in DOMAIN cache : pc \in XWord /\ IsBlock(cache[pc])
  /\ native # Idle => Running

LEMMA CompiledBlock ==
  ASSUME MemoryTyped, NEW start \in XWord, Emitting(Compile(start))
  PROVE  IsBlock(Compile(start))
<1> DEFINE addr(k) == Wrap(start + InsBytes * (k - 1))
           Compilable(k) == Mapped(addr(k), InsBytes) /\ At(addr(k)).op \in NativeOps
           Straight(n) == \A k \in 1 .. n : Compilable(k) /\ (k < n => At(addr(k)).op \notin Enders)
           S == {n \in 0 .. MaxInsts : Straight(n)}
           m == Max(S)
           block == Compile(start)
<1>1. m \in S
  <2>1. MaxInsts \in Nat /\ S \in SUBSET (-MaxInsts .. MaxInsts)
    BY MaxInstsAssumption
  <2>2. 0 \in S
    BY MaxInstsAssumption
  <2> HIDE DEF S
  <2> QED  BY <2>1, <2>2, Extremes
<1>2. block = [k \in 1 .. m |-> At(addr(k))]
  BY DEF Compile
<1>3. m \in 0 .. MaxInsts /\ Straight(m)
  BY <1>1
<1> HIDE DEF m
<1>4. DOMAIN block = 1 .. m /\ Len(block) = m
  <2>1. m \in Nat
    BY <1>3, MaxInstsAssumption
  <2> HIDE DEF addr, block
  <2> QED  BY <1>2, <2>1
<1>5. ASSUME NEW k \in 1 .. m
      PROVE  /\ IsResolvedInst(block[k]) /\ block[k].op \in NativeOps
             /\ block[k].op \in Enders => k = m
  <2>1. addr(k) \in Int
    <3>1. start + InsBytes * (k - 1) \in Int
      BY <1>3, WordNat DEF InsBytes
    <3> QED  BY <3>1, WrapWord, WordNat
  <2>2. Mapped(addr(k), InsBytes) /\ At(addr(k)).op \in NativeOps /\ (k < m => At(addr(k)).op \notin Enders)
    BY <1>3, <1>5
  <2>3. block[k] = At(addr(k))
    BY <1>2, <1>5
  <2> HIDE DEF addr, block
  <2>4. IsResolvedInst(block[k])
    BY <2>1, <2>2, <2>3, FetchedInstruction
  <2>5. k < m \/ k = m
    BY <1>3, <1>5
  <2> QED  BY <2>2, <2>3, <2>4, <2>5
<1>6. m >= 1
  <2>1. PICK k \in DOMAIN block : TRUE
    BY DEF Emitting
  <2> QED  BY <1>3, <1>4, <2>1
<1> HIDE DEF block
<1> QED  BY <1>3, <1>4, <1>5, <1>6 DEF IsBlock, block

LEMMA StepTyped ==
  ASSUME TypeOK, step
  PROVE  TypeOK'
BY SimpleSteps, ProcessingSteps, BranchSteps, LoadRegisterTyped, LoadPairTyped, StoreSteps,
   LoadVectorsTyped, StoreVectorsTyped, LoadStructuresTyped, SupervisorCallTyped DEF step

LEMMA RunningBlock ==
  ASSUME JitInv, InBlock
  PROVE  /\ ctx.pc \in DOMAIN cache /\ native.block = cache[ctx.pc] /\ IsBlock(native.block)
         /\ native.k \in DOMAIN native.block /\ native = RunOf(native.block, native.k)
         /\ Running /\ ctx \in CpuContext /\ HoldsBytes(mem) /\ MemoryTyped /\ Emitting(native.block)
<1>1. native \notin {Idle, MustStep}
  BY DEF InBlock, Idle, MustStep
<1>2. PICK k \in DOMAIN cache[ctx.pc] : ctx.pc \in DOMAIN cache /\ native = RunOf(cache[ctx.pc], k)
  BY <1>1 DEF JitInv, JitTypeOK
<1>3. native.block = cache[ctx.pc] /\ native.k = k
  BY <1>2 DEF RunOf
<1>4. Running
  BY <1>1 DEF JitInv
<1>5. ctx \in CpuContext /\ HoldsBytes(mem) /\ MemoryTyped
  BY DEF JitInv, TypeOK, HoldsBytes, MemoryTyped, Byte
<1> QED  BY <1>2, <1>3, <1>4, <1>5 DEF JitInv, JitTypeOK

LEMMA EnterKeeps ==
  ASSUME JitInv, Enter
  PROVE  JitInv'
<1> DEFINE block == Block(ctx.pc)
<1>1. ctx.pc \in XWord /\ MemoryTyped
  BY ContextFields DEF JitInv, TypeOK, MemoryTyped, HoldsBytes, Byte
<1>2. Emitting(block) /\ Running /\ native' = RunOf(block, 1) /\ UNCHANGED vars
  BY DEF Enter
<1>3. IsBlock(block)
  <2>1. CASE ctx.pc \in DOMAIN cache
    BY <2>1 DEF Block, JitInv
  <2>2. CASE ctx.pc \notin DOMAIN cache
    BY <1>1, <1>2, <2>2, CompiledBlock DEF Block
  <2> QED  BY <2>1, <2>2
<1>4. /\ DOMAIN cache' = DOMAIN cache \cup {ctx.pc}
      /\ cache'[ctx.pc] = block
      /\ \A pc \in DOMAIN cache : pc # ctx.pc => cache'[pc] = cache[pc]
  <2>1. cache' = [pc \in DOMAIN cache \cup {ctx.pc} |-> Block(pc)]
    BY DEF Enter
  <2>2. \A pc \in DOMAIN cache : Block(pc) = cache[pc]
    BY DEF Block
  <2> QED  BY <2>1, <2>2
<1> HIDE DEF block
<1>5. ctx' = ctx /\ mem' = mem /\ ret' = ret
  BY <1>2 DEF vars
<1>6. TypeOK'
  BY <1>5 DEF JitInv, TypeOK
<1>7. ASSUME NEW pc \in DOMAIN cache'
      PROVE  /\ pc \in XWord /\ IsBlock(cache'[pc]) /\ Emitting(cache'[pc])
             /\ Len(cache'[pc]) <= MaxInsts
             /\ \A k \in DOMAIN cache'[pc] : /\ cache'[pc][k].op \in NativeOps
                                            /\ cache'[pc][k].op \in Enders => k = Len(cache'[pc])
  <2>1. CASE pc = ctx.pc
    BY <1>1, <1>2, <1>3, <1>4, <2>1, MaxInstsAssumption DEF IsBlock
  <2>2. CASE pc # ctx.pc
    BY <1>4, <2>2 DEF JitInv, JitTypeOK
  <2> QED  BY <2>1, <2>2
<1>8. ctx'.pc \in DOMAIN cache' /\ native' \in {RunOf(cache'[ctx'.pc], k) : k \in DOMAIN cache'[ctx'.pc]}
  <2>1. 1 \in DOMAIN block
    BY <1>3, MaxInstsAssumption DEF IsBlock
  <2> QED  BY <1>2, <1>4, <1>5, <2>1
<1>9. JitTypeOK'
  BY <1>7, <1>8 DEF JitTypeOK
<1>10. Running'
  BY <1>2, <1>5 DEF Running
<1> QED  BY <1>6, <1>7, <1>9, <1>10 DEF JitInv

(* The context the host code of one instruction leaves, and the address    *)
(* after it.                                                               *)
Successor == Wrap(Here + InsBytes)
After == Emitted(Current, Successor, ctx)
Returned == ReturnedPc(Current, Successor, After)

LEMMA NativeResult ==
  ASSUME JitInv, InBlock
  PROVE  /\ IsResolvedInst(Current) /\ Current.op \in NativeOps
         /\ Here \in XWord /\ Successor \in XWord
         /\ After \in CpuContext /\ Returned \in XWord
         /\ After.pc = ctx.pc /\ After.exited = ctx.exited
<1>1. IsResolvedInst(Current) /\ Current.op \in NativeOps /\ native.k \in Int
  BY RunningBlock, MaxInstsAssumption DEF IsBlock, Current
<1>2. ctx \in CpuContext /\ ctx.pc \in XWord
  BY RunningBlock, ContextFields
<1>3. Here \in XWord
  <2>1. ctx.pc + InsBytes * (native.k - 1) \in Int
    BY <1>1, <1>2, WordNat DEF InsBytes
  <2> QED  BY <2>1, WrapWord DEF Here
<1>4. Successor \in XWord
  <2>1. Here + InsBytes \in Int
    BY <1>3, WordNat DEF InsBytes
  <2> QED  BY <2>1, WrapWord DEF Successor
<1>5. After \in CpuContext
  BY <1>1, <1>2, <1>4, EmittedTyped DEF After
<1>6. After.pc = ctx.pc /\ After.exited = ctx.exited
  BY <1>1, <1>2, EmittedFields DEF After
<1>7. Returned \in XWord
  BY <1>1, <1>4, <1>5, ReturnedTyped DEF Returned
<1> QED  BY <1>1, <1>3, <1>4, <1>5, <1>6, <1>7

LEMMA RunNativeKeeps ==
  ASSUME JitInv, RunNative
  PROVE  JitInv'
<1>1. InBlock /\ mem' = mem /\ ret' = ret /\ cache' = cache
  BY DEF RunNative
<1>2. \/ /\ native.k < Len(native.block)
         /\ ctx' = After /\ native' = RunOf(native.block, native.k + 1)
      \/ ctx' = [After EXCEPT !.pc = Returned] /\ native' \in {MustStep, Idle}
  BY DEF RunNative, After, Returned, Successor
<1>3. ctx' \in CpuContext /\ ctx'.exited = ctx.exited
  <2>1. [After EXCEPT !.pc = Returned] \in CpuContext
    BY <1>1, NativeResult, FieldWrites
  <2>2. [After EXCEPT !.pc = Returned].exited = After.exited
    BY <1>1, NativeResult, ContextFields
  <2> QED  BY <1>1, <1>2, <2>1, <2>2, NativeResult
<1>4. TypeOK'
  BY <1>1, <1>3 DEF JitInv, TypeOK
<1>5. Running'
  BY <1>1, <1>3, RunningBlock DEF Running
<1>6. \/ native' \in {Idle, MustStep}
      \/ /\ ctx'.pc \in DOMAIN cache'
         /\ native' \in {RunOf(cache'[ctx'.pc], k) : k \in DOMAIN cache'[ctx'.pc]}
  <2>1. CASE /\ native.k < Len(native.block)
             /\ ctx' = After /\ native' = RunOf(native.block, native.k + 1)
    <3>1. native.k + 1 \in DOMAIN native.block
      BY <1>1, <2>1, RunningBlock, MaxInstsAssumption DEF IsBlock
    <3>2. ctx'.pc = ctx.pc
      BY <1>1, <2>1, NativeResult
    <3>3. ctx.pc \in DOMAIN cache /\ native.block = cache[ctx.pc]
      BY <1>1, RunningBlock
    <3> QED  BY <1>1, <2>1, <3>1, <3>2, <3>3
  <2>2. CASE ctx' = [After EXCEPT !.pc = Returned] /\ native' \in {MustStep, Idle}
    BY <2>2
  <2> QED  BY <1>2, <2>1, <2>2
<1>7. JitTypeOK'
  BY <1>1, <1>6 DEF JitInv, JitTypeOK
<1> QED  BY <1>1, <1>4, <1>5, <1>7 DEF JitInv

LEMMA FallbackKeeps ==
  ASSUME JitInv, Fallback
  PROVE  JitInv'
<1>1. native' = Idle /\ cache' = cache /\ step
  BY DEF Fallback
<1>2. TypeOK'
  BY <1>1, StepTyped DEF JitInv
<1> QED  BY <1>1, <1>2 DEF JitInv, JitTypeOK

(* Every reachable state has a typed machine, blocks that a compilation    *)
(* could have made, and host code at work only for a running guest         *)
(* (compile_and_get and execute, src/src/jit/mod.rs).                      *)
THEOREM JitInvariant == JitSpec => []JitInv
<1>1. JitInit => JitInv
  <2> SUFFICES ASSUME JitInit PROVE JitInv
    OBVIOUS
  <2>1. TypeOK
    BY ImagesAssumption DEF JitInit, Init, TypeOK
  <2>2. DOMAIN cache = {} /\ native = Idle
    BY DEF JitInit
  <2> QED  BY <2>1, <2>2 DEF JitInv, JitTypeOK
<1>2. JitInv /\ [execute]_jitVars => JitInv'
  <2> SUFFICES ASSUME JitInv, [execute]_jitVars PROVE JitInv'
    OBVIOUS
  <2>1. CASE execute
    BY <2>1, EnterKeeps, RunNativeKeeps, FallbackKeeps DEF execute
  <2>2. CASE UNCHANGED jitVars
    BY <2>2 DEF JitInv, JitTypeOK, TypeOK, Running, jitVars, vars
  <2> QED  BY <2>1, <2>2
<1> QED  BY <1>1, <1>2, PTL DEF JitSpec

(* A block of the cache holds compilable instructions with a branch only   *)
(* at its end, and the block that runs is the one kept for the pc.         *)
THEOREM JitTyped == JitSpec => []JitTypeOK
<1>1. JitInv => JitTypeOK
  BY DEF JitInv
<1> QED  BY <1>1, JitInvariant, PTL

-----------------------------------------------------------------------------
(* The refinement. *)

(* The state the interpreter stands in while a block runs. *)
GuestContext == [ctx EXCEPT !.pc = Here]

LEMMA InstanceInBlock ==
  ASSUME JitInv, InBlock, Fresh
  PROVE  /\ GuestContext \in CpuContext /\ GuestContext.pc = Here
         /\ Interp!Inst = Current /\ Interp!NextPc = Successor
         /\ \A ops : Current.op \in ops => Interp!Executes(ops)
         /\ \A k : Interp!Target(k) = get_operand_val(Current.ops[k], GuestContext)
<1>1. ctx \in CpuContext /\ Here \in XWord
  BY RunningBlock, NativeResult
<1>2. GuestContext \in CpuContext
  BY <1>1, FieldWrites DEF GuestContext
<1>3. GuestContext.pc = Here /\ GuestContext.exited = ctx.exited
  BY <1>1, ContextFields DEF GuestContext
<1>4. Interp!Running
  BY <1>3, RunningBlock DEF Interp!Running, Running, GuestContext
<1>5. Interp!Inst = Current /\ Interp!Fetched
  BY <1>3, SameAccesses, SameConstants DEF Interp!Inst, Interp!Fetched, Fresh, GuestContext
<1>6. Interp!NextPc = Successor
  BY <1>3, SameWords, SameConstants DEF Interp!NextPc, Successor, GuestContext
<1>7. \A ops : Current.op \in ops => Interp!Executes(ops)
  BY <1>4, <1>5 DEF Interp!Executes
<1>8. \A k : Interp!Target(k) = get_operand_val(Current.ops[k], GuestContext)
  BY <1>5, SameOperands DEF Interp!Target, GuestContext
<1> QED  BY <1>2, <1>3, <1>5, <1>6, <1>7, <1>8

(* Between blocks the guest is at the pc, and inside one a step of the     *)
(* host code moves it as one of the interpreter would.                     *)
LEMMA Advance ==
  ASSUME JitInv, RunNative
  PROVE  /\ mem' = mem /\ ret' = "ok"
         /\ [ctx EXCEPT !.pc = Here]' = [After EXCEPT !.pc = Returned]
<1>1. InBlock /\ mem' = mem /\ ret' = ret /\ ret = "ok"
  BY RunningBlock DEF RunNative, Running
<1>2. CASE /\ native.k < Len(native.block)
           /\ ctx' = After /\ native' = RunOf(native.block, native.k + 1)
  <2>1. native'.kind = "run" /\ native'.k = native.k + 1
    BY <1>2 DEF RunOf
  <2>2. ctx'.pc = ctx.pc /\ ctx.pc \in Int /\ native.k \in Int
    <3>1. native.k \in Int
      BY <1>1, RunningBlock DEF IsBlock
    <3>2. ctx.pc \in Int /\ After.pc = ctx.pc
      BY <1>1, <1>2, NativeResult, RunningBlock, ContextFields, WordNat DEF IsBlock
    <3> QED  BY <1>2, <3>1, <3>2
  <2>3. Here' = Wrap(ctx.pc + InsBytes * native.k)
    BY <2>1, <2>2 DEF Here, InBlock
  <2>4. Successor = Wrap(ctx.pc + InsBytes * native.k)
    <3> DEFINE u == ctx.pc + InsBytes * (native.k - 1)
    <3>1. u \in Int /\ InsBytes \in Int /\ u + InsBytes = ctx.pc + InsBytes * native.k
      BY <2>2 DEF InsBytes
    <3>2. Successor = Wrap(Wrap(u) + InsBytes)
      BY <1>1 DEF Successor, Here
    <3> HIDE DEF u
    <3>3. Wrap(Wrap(u) + InsBytes) = Wrap(u + InsBytes)
      <4>1. XBits \in Nat
        BY Widths
      <4> QED  BY <3>1, <4>1, LowOfSum DEF Wrap
    <3> QED  BY <3>1, <3>2, <3>3
  <2>5. Current.op \in NativeOps \ Enders
    BY <1>1, <1>2, RunningBlock, NativeResult DEF IsBlock, Current
  <2>6. Returned = Successor
    BY <2>5 DEF Returned, ReturnedPc, Enders
  <2> QED  BY <1>1, <1>2, <2>3, <2>4, <2>6
<1>3. CASE ctx' = [After EXCEPT !.pc = Returned] /\ native' \in {MustStep, Idle}
  <2>1. Here' = ctx'.pc
    BY <1>3 DEF Here, InBlock, MustStep, Idle
  <2>2. ctx'.pc = Returned
    BY <1>1, <1>3, NativeResult, ContextFields
  <2> QED  BY <1>1, <1>3, <2>1, <2>2
<1> QED  BY <1>1, <1>2, <1>3 DEF RunNative, After, Returned, Successor

LEMMA NativeStep ==
  ASSUME JitInv, RunNative, Fresh, Agreed(Current)
  PROVE  Interp!step
<1> DEFINE i == Current
           d == GuestContext
<1>1. InBlock
  BY DEF RunNative
<1>2. IsResolvedInst(i) /\ i.op \in NativeOps /\ Here \in XWord /\ ctx \in CpuContext
  BY <1>1, NativeResult, RunningBlock
<1>3. ASSUME NEW c, NEW pc, pc = Returned, c = [After EXCEPT !.pc = Here]
      PROVE  Interp!Retire(c, mem, pc)
  <2>1. [After EXCEPT !.pc = Returned] = [c EXCEPT !.pc = pc]
    BY <1>3
  <2> QED  BY <2>1, Advance DEF Interp!Retire
<1>4. CASE i.op \in NativeData
  <2>1. Returned = Interp!NextPc
    BY <1>1, <1>4, InstanceInBlock DEF NativeData, Returned, ReturnedPc
  <2>2. Execute(i, d) = [After EXCEPT !.pc = Here]
    BY <1>2, <1>4, EmittedExecutes DEF GuestContext, After
  <2>3. ~OnVectors(i) /\ ~DivisionPanics(i, d) /\ i.op \in DataOps
    <3>1. i.op \in VectorOps => i.op \in {"ADD", "MOV", "EOR", "AND"} /\ i.op \in SharedOps
      BY <1>4
         DEF NativeData, SharedOps, VectorOps, LaneOps, LaneShiftOps, FillOps, WordShiftOps,
             BitOps,
         ByteOps, PairOps, ReduceOps, ZipOps, NarrowOps, WidthOps, MoveLaneOps
    <3>2. i.op \in {"ADD", "MOV", "EOR", "AND"} => ~IsVecOp(i, 1)
      BY <1>2, AgreedOperands, PlainRegister DEF IsVecOp
    <3>3. i.op # "SDIV" /\ i.op \in DataOps
      BY <1>4 DEF NativeData, DataOps, AddSubOps, MoveOps, LogicOps, ShiftOps, SystemOps, NoOps
    <3> QED  BY <3>1, <3>2, <3>3 DEF OnVectors, DivisionPanics
  <2>4. Interp!Retire(Execute(i, d), mem, Interp!NextPc)
    BY <1>3, <2>1, <2>2
  <2>5. Interp!DataProcessing
    BY <1>1, <2>3, <2>4, InstanceInBlock, SameConstants, SameLanes, SameDivisionPanics, SameExecute
       DEF Interp!DataProcessing, GuestContext
  <2> QED  BY <2>5 DEF Interp!step
<1>5. CASE i.op \in {"B", "BL", "RET", "CBZ", "CBNZ"}
  <2>1. i.op \in {"B", "RET", "CBZ", "CBNZ"} => After = ctx
    BY <1>5 DEF After, Emitted
  <2>2. [ctx EXCEPT !.pc = Here] = d
    BY DEF GuestContext
  <2>3. CASE i.op = "B"
    <3>1. Returned = Interp!Target(1)
      BY <1>1, <1>2, <2>3, InstanceInBlock, NativeOperands DEF Returned, ReturnedPc, get_operand_val
    <3>2. Interp!Retire(d, mem, Interp!Target(1))
      BY <1>3, <2>1, <2>2, <2>3, <3>1
    <3>3. Interp!Branch
      BY <1>1, <2>3, <3>2, InstanceInBlock DEF Interp!Branch, GuestContext
    <3> QED  BY <3>3 DEF Interp!step
  <2>4. CASE i.op = "BL"
    <3> DEFINE linked == set_x(30, Successor, d)
    <3>1. Returned = get_operand_val(i.ops[1], linked)
      <4> HIDE DEF linked
      <4> QED  BY <1>2, <2>4, NativeOperands DEF Returned, ReturnedPc, get_operand_val
    <3>2. linked = [After EXCEPT !.pc = Here]
      <4>1. After = set_x(30, Successor, ctx)
        BY <2>4 DEF After, Emitted, Emits
      <4> QED  BY <1>2, <4>1, ContextFields DEF set_x, GuestContext
    <3>3. Interp!Retire(linked, mem, get_operand_val(i.ops[1], linked))
      <4> HIDE DEF linked
      <4> QED  BY <1>3, <3>1, <3>2
    <3>4. Interp!BranchLink
      BY <1>1, <2>4, <3>3, InstanceInBlock, SameRegisters, SameOperands
         DEF Interp!BranchLink, GuestContext
    <3> QED  BY <3>4 DEF Interp!step
  <2>5. CASE i.op = "RET"
    <3>1. Returned = get_x(30, d)
      BY <1>2, <2>1, <2>5, ContextFields DEF Returned, ReturnedPc, get_x, GuestContext
    <3>2. Interp!Retire(d, mem, get_x(30, d))
      BY <1>3, <2>1, <2>2, <2>5, <3>1
    <3>3. Interp!Return
      BY <1>1, <2>5, <3>2, InstanceInBlock, SameRegisters DEF Interp!Return, GuestContext
    <3> QED  BY <3>3 DEF Interp!step
  <2>6. CASE i.op \in {"CBZ", "CBNZ"}
    <3>1. IsPlain(i.ops[1]) /\ i.ops[2].kind = "label"
      BY <1>2, <2>6, AgreedOperands, NativeOperands
    <3>2. Interp!Target(1) = NativeVal(i.ops[1], ctx)
      BY <1>1, <1>2, <3>1, InstanceInBlock, NativeValue DEF GuestContext
    <3>3. Interp!Target(2) = i.ops[2].val
      BY <1>1, <3>1, InstanceInBlock DEF get_operand_val
    <3> DEFINE target == IF (Interp!Target(1) = 0) = (i.op = "CBZ") THEN Interp!Target(2) ELSE Interp!NextPc
    <3>4. Returned = target
      BY <1>1, <2>1, <2>6, <3>2, <3>3, InstanceInBlock DEF Returned, ReturnedPc
    <3>5. Interp!Retire(d, mem, target)
      <4> HIDE DEF target
      <4> QED  BY <1>3, <2>1, <2>2, <2>6, <3>4
    <3>6. Interp!CompareBranch
      BY <1>1, <2>6, <3>5, InstanceInBlock DEF Interp!CompareBranch, GuestContext
    <3> QED  BY <3>6 DEF Interp!step
  <2> QED  BY <1>5, <2>3, <2>4, <2>5, <2>6
<1>6. i.op # "ORR"
  BY <1>1 DEF HostCodeCurrent, Agreed
<1> QED  BY <1>2, <1>4, <1>5, <1>6 DEF NativeOps, NativeData

LEMMA Resting ==
  ASSUME ctx \in CpuContext, ~InBlock
  PROVE  [ctx EXCEPT !.pc = Here] = ctx
BY ContextFields DEF Here

LEMMA FallbackMirrors ==
  ASSUME JitInv, Fallback
  PROVE  Interp!step
<1>1. ~InBlock /\ native' = Idle /\ step
  BY DEF Fallback, InBlock, Idle, MustStep
<1>2. ctx \in CpuContext /\ ctx' \in CpuContext
  BY <1>1, StepTyped DEF JitInv, TypeOK
<1>3. [ctx EXCEPT !.pc = Here] = ctx
  BY <1>1, <1>2, Resting
<1>4. [ctx EXCEPT !.pc = Here]' = ctx'
  <2>1. Here' = ctx'.pc
    BY <1>1 DEF Here, InBlock, Idle
  <2> QED  BY <1>2, <2>1, ContextFields
<1> QED  BY <1>1, <1>3, <1>4, MirrorStep DEF AtRest

LEMMA EnterStutters ==
  ASSUME JitInv, Enter
  PROVE  UNCHANGED Interp!vars
<1>1. ctx' = ctx /\ mem' = mem /\ ret' = ret /\ native' = RunOf(Block(ctx.pc), 1) /\ ~InBlock
  BY DEF Enter, vars, InBlock, Idle
<1>2. Here' = Here
  <2>1. Here = ctx.pc /\ ctx.pc \in XWord
    BY <1>1, ContextFields DEF Here, JitInv, TypeOK
  <2>2. Here' = Wrap(ctx.pc + InsBytes * (1 - 1))
    BY <1>1 DEF Here, InBlock, RunOf
  <2>3. Wrap(ctx.pc) = ctx.pc /\ ctx.pc + InsBytes * (1 - 1) = ctx.pc
    BY <2>1, Widths, WordNat, LowOfSmall DEF Wrap, XWord, InsBytes
  <2> QED  BY <2>1, <2>2, <2>3
<1> QED  BY <1>1, <1>2 DEF Interp!vars

LEMMA StepAgrees ==
  ASSUME JitInv, HostCodeCurrent, [execute]_jitVars
  PROVE  Interp!step \/ UNCHANGED Interp!vars
<1>1. CASE Enter
  BY <1>1, EnterStutters
<1>2. CASE RunNative
  BY <1>2, NativeStep DEF HostCodeCurrent, RunNative
<1>3. CASE Fallback
  BY <1>3, FallbackMirrors
<1>4. CASE UNCHANGED jitVars
  BY <1>4 DEF jitVars, vars, Interp!vars, Here, InBlock
<1> QED  BY <1>1, <1>2, <1>3, <1>4 DEF execute

(* One step of the host code, of the entry of a block or of the fallback   *)
(* is one of the interpreter, or none, while the host code is current.     *)
THEOREM NativeCodeAgrees == JitSpec => NativeAgrees
<1>1. ASSUME JitInv, [execute]_jitVars
      PROVE  [HostCodeCurrent => Interp!step \/ UNCHANGED Interp!vars]_jitVars
  BY <1>1, StepAgrees
<1> QED  BY <1>1, JitInvariant, PTL DEF JitSpec, NativeAgrees

(* run_with_jit does nothing Interpreter::step alone could not have done,  *)
(* as long as no instruction runs that was overwritten after it was        *)
(* compiled or that the host code renders otherwise.                       *)
THEOREM JitRefines == JitSpec /\ []HostCodeCurrent => ImplementsInterpreter
<1>1. JitInit => Interp!Init
  <2> SUFFICES ASSUME JitInit PROVE Interp!Init
    OBVIOUS
  <2>1. ctx \in Contexts(mem) /\ mem \in Images /\ ret = "ok" /\ ~InBlock
    BY DEF JitInit, Init, InBlock, Idle
  <2>2. ctx \in CpuContext
    BY <2>1, ImagesAssumption
  <2> QED  BY <2>1, <2>2, Resting DEF Interp!Init
<1>2. JitInv /\ HostCodeCurrent /\ [execute]_jitVars => [Interp!step]_(Interp!vars)
  BY StepAgrees
<1> QED  BY <1>1, <1>2, JitInvariant, PTL DEF JitSpec, ImplementsInterpreter, Interp!Spec

================================================================================
