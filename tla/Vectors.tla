------------------------------- MODULE Vectors -------------------------------
(***************************************************************************)
(* The arms of Interpreter::step on vector registers (src/src/interp/      *)
(* mod.rs) that stay in the registers and work on integers; the loads and  *)
(* stores are in Interpreter, floating point is left out.  A vector is a   *)
(* function from the bytes 0 .. 15; its lanes of es bytes are little-      *)
(* endian integers.                                                        *)
(***************************************************************************)
EXTENDS Alu

(* The bytes of a lane, and whether eight bytes of lanes are meant: both   *)
(* are read off the Debug text of the operand.                             *)
get_vec_elem_size(op) == op.es
is_64bit_vector(op) == op.low

LaneAt(vec, k, es) == FromBytes([j \in 0 .. es - 1 |-> vec[es * k + j]])

Lanes(vec, es) == [k \in 0 .. 16 \div es - 1 |-> LaneAt(vec, k, es)]

(* The lanes put side by side from byte first on, over the bytes of base. *)
PackedOver(base, first, lanes, es) ==
  [b \in VBytes |->
     LET j == b - first
     IN  IF j >= 0 /\ j \div es \in DOMAIN lanes
         THEN Low(Shr(lanes[j \div es], ByteBits * (j % es)), ByteBits) ELSE base[b]]

Zeros == Zeroed(<<>>)

Packed(lanes, es) == PackedOver(Zeros, 0, lanes, es)

IsVecOp(i, k) == k \in DOMAIN i.ops /\ IsReg(i.ops[k]) /\ IsVec(i.ops[k].reg)

(* Operand k as a vector; zeros when it is something else. *)
Vec(i, k, ctx) == IF IsVecOp(i, k) THEN ctx.v[i.ops[k].reg.n] ELSE Zeros

PutVec(i, vec, ctx) == [ctx EXCEPT !.v[Rd(i).n] = vec]

AllOnes(holds, n) == IF holds THEN Ones(n) ELSE 0

-----------------------------------------------------------------------------
(* Lane by lane, lanes of the size the destination names. *)

LaneShiftOps == {"USHL", "SHL", "SSHL"}

LaneOps == {"ADD", "CMEQ", "CMHI", "CMHS", "CMGT", "CMGE", "CMTST"} \cup LaneShiftOps

(* Left shifts and, for negative amounts, logical right shifts, by the     *)
(* amount modulo the width (wrapping_shl, wrapping_shr); an amount is an   *)
(* i32.                                                                    *)
ShiftLane(a, amount, n) ==
  IF amount >= 0 THEN Shl(a, amount % n, n) ELSE Shr(a, (-amount) % n)

LaneResult(op, a, b, n) ==
  CASE op = "ADD" -> Low(a + b, n)
    [] op \in LaneShiftOps -> ShiftLane(a, b, n)
    [] op = "CMEQ" -> AllOnes(a = b, n)
    [] op = "CMHI" -> AllOnes(a > b, n)
    [] op = "CMHS" -> AllOnes(a >= b, n)
    [] op = "CMGT" -> AllOnes(Signed(a, n) > Signed(b, n), n)
    [] op = "CMGE" -> AllOnes(Signed(a, n) >= Signed(b, n), n)
    [] op = "CMTST" -> AllOnes(And(a, b) # 0, n)

(* The second input is a vector, an immediate for every lane, or 0. *)
LaneWise(i, ctx) ==
  LET es == get_vec_elem_size(i.ops[1])
      n == ByteBits * es
      b(k) == IF IsVecOp(i, 3) THEN LaneAt(Vec(i, 3, ctx), k, es)
              ELSE IF Len(i.ops) >= 3 THEN get_operand_val(i.ops[3], ctx) ELSE 0
      amount(k) == Signed(b(k), IF IsVecOp(i, 3) THEN Min({n, WBits}) ELSE WBits)
  IN  PutVec(i, Packed([k \in 0 .. 16 \div es - 1 |->
                          LaneResult(i.op, LaneAt(Vec(i, 2, ctx), k, es),
                                     IF i.op \in LaneShiftOps THEN amount(k) ELSE b(k), n)], es), ctx)

(* An amount of a vector that is the least i32, which has no negation.     *)
AmountOverflows(i, ctx) ==
  /\ i.op \in LaneShiftOps /\ IsVecOp(i, 3)
  /\ LET es == get_vec_elem_size(i.ops[1])
     IN  /\ es >= 4
         /\ \E k \in 0 .. 16 \div es - 1 :
              Low(LaneAt(Vec(i, 3, ctx), k, es), WBits) = Half(WBits)

FillOps == {"MOV", "MOVI", "DUP", "MVNI"}

(* One value in every lane: of a vector source, its low bytes. *)
Fill(i, ctx) ==
  LET es == get_vec_elem_size(i.ops[1])
      val == get_operand_val(i.ops[2], ctx)
      lane == Low(IF i.op = "MVNI" THEN Not(val) ELSE val, ByteBits * es)
  IN  PutVec(i, Packed([k \in 0 .. 16 \div es - 1 |-> lane], es), ctx)

WordShiftOps == {"USHR", "SSHR"}

(* Always four lanes of a word, by the amount modulo 32. *)
WordShift(i, ctx) ==
  LET a == get_operand_val(i.ops[3], ctx) % WBits
      lanes == Lanes(Vec(i, 2, ctx), 4)
  IN  PutVec(i, Packed([k \in 0 .. 3 |-> IF i.op = "SSHR" THEN Asr(lanes[k], a, WBits)
                                         ELSE Shr(lanes[k], a)], 4), ctx)

-----------------------------------------------------------------------------
(* Byte by byte, whatever the lanes. *)

BitOps == {"ORR", "ORN", "EOR", "EON", "AND", "BIT", "BIF", "BSL"}

\* Mutant: BSL takes the wrong input for the bits set.
BitResult_Swapped(op, d, a, b) ==
  LET Chosen(m, x, y) == And(x, m) + And(y, Not(m))
  IN  CASE op = "ORR" -> Or(a, b)
        [] op = "ORN" -> Or(a, Not(b))
        [] op = "EOR" -> Xor(a, b)
        [] op = "EON" -> Xor(a, Not(b))
        [] op = "AND" -> And(a, b)
        [] op = "BIT" -> Chosen(b, a, d)
        [] op = "BIF" -> Chosen(b, d, a)
        [] op = "BSL" -> Chosen(d, b, a)

BitResult(op, d, a, b) ==
  LET Chosen(m, x, y) == And(x, m) + And(y, Not(m))
  IN  CASE op = "ORR" -> Or(a, b)
        [] op = "ORN" -> Or(a, Not(b))
        [] op = "EOR" -> Xor(a, b)
        [] op = "EON" -> Xor(a, Not(b))
        [] op = "AND" -> And(a, b)
        [] op = "BIT" -> Chosen(b, a, d)
        [] op = "BIF" -> Chosen(b, d, a)
        [] op = "BSL" -> Chosen(d, a, b)

(* An immediate second input counts as zeros. *)
BitWise(i, ctx) ==
  PutVec(i, [j \in VBytes |-> Low(BitResult(i.op, Vec(i, 1, ctx)[j], Vec(i, 2, ctx)[j],
                                            Vec(i, 3, ctx)[j]), ByteBits)], ctx)

ByteOps == {"REV16", "REV32", "REV64", "RBIT", "CNT", "EXT"}

(* EXT takes the last operand for its amount. *)
Bytes(i, ctx) ==
  LET a == Vec(i, 2, ctx)
      from == get_operand_val(i.ops[Len(i.ops)], ctx) % 16
      bits(j) == {k \in 0 .. ByteBits - 1 : Bit(a[j], k) = 1}
  IN  PutVec(i,
        CASE i.op = "REV16" -> TurnedAround(a, 2)
          [] i.op = "REV32" -> TurnedAround(a, 4)
          [] i.op = "REV64" -> TurnedAround(a, 8)
          [] i.op = "RBIT" -> [j \in VBytes |->
                            OfDigits([k \in 0 .. ByteBits - 1 |-> Bit(a[j], ByteBits - 1 - k)], 1, ByteBits)]
          [] i.op = "CNT" -> [j \in VBytes |-> Cardinality(bits(j))]
          [] i.op = "EXT" -> [j \in VBytes |-> IF from + j < 16 THEN a[from + j]
                                               ELSE Vec(i, 3, ctx)[from + j - 16]], ctx)

-----------------------------------------------------------------------------
(* Pairs and whole vectors. *)

SignedLanes(op) == op \in {"SMAXP", "SMINP", "SMAXV", "SMINV", "SADDLV"}

MaxOps == {"UMAXP", "SMAXP", "UMAXV", "SMAXV"}

(* The largest or smallest lane of a set of them, as an unsigned lane. *)
Extreme(op, lanes, n) ==
  LET key(a) == IF SignedLanes(op) THEN Signed(a, n) ELSE a
      keys == {key(a) : a \in lanes}
  IN  Low(IF op \in MaxOps THEN Max(keys) ELSE Min(keys), n)

PairOps == {"ADDP", "UMAXP", "UMINP", "SMAXP", "SMINP"}

(* The sums or extremes of pairs of the first source, and over them those  *)
(* of the second, for lanes that fill the register.  ADDP of one- and two- *)
(* byte lanes takes half of the second source's pairs and puts them at     *)
(* byte 4, ADDP of words one pair; the extremes of eight-byte lanes are    *)
(* zeros.                                                                  *)
Pairwise(i, ctx) ==
  LET es == get_vec_elem_size(i.ops[1])
      n == ByteBits * es
      all == ~is_64bit_vector(i.ops[1])
      a == Vec(i, 2, ctx)
      b == IF IsVecOp(i, 3) THEN Vec(i, 3, ctx) ELSE a
      One(x, y) == IF i.op = "ADDP" THEN Low(x + y, n) ELSE Extreme(i.op, {x, y}, n)
      Pairs(vec, count) == [k \in 0 .. count - 1 |-> One(LaneAt(vec, 2 * k, es), LaneAt(vec, 2 * k + 1, es))]
      first == Packed(Pairs(a, IF es = 8 THEN 1 ELSE (IF all THEN 8 ELSE 4) \div es), es)
      bytes == IF i.op = "ADDP" /\ es < 8 THEN 4 ELSE 8
      from == IF i.op = "ADDP" /\ es < 4 THEN 4 ELSE 8
  IN  PutVec(i, IF i.op # "ADDP" /\ es = 8 THEN Zeros
                ELSE IF all THEN PackedOver(first, from, Pairs(b, bytes \div es), es)
                ELSE first, ctx)

ReduceOps == {"ADDV", "UADDLV", "SADDLV", "UMAXV", "UMINV", "SMAXV", "SMINV"}

(* The sum of the lanes, in eight bytes whatever the destination, or their *)
(* extreme.  Eight-byte lanes have no long sums.  (A sum is a number whose *)
(* digits all weigh 2^0.)                                                  *)
Reduce(i, ctx) ==
  LET es == get_vec_elem_size(i.ops[2])
      n == ByteBits * es
      count == IF is_64bit_vector(i.ops[2]) /\ es < 8 THEN 8 \div es ELSE 16 \div es
      lane(k) == LaneAt(Vec(i, 2, ctx), k, es)
      sum == OfDigits([k \in 0 .. count - 1 |->
                         IF SignedLanes(i.op) THEN Signed(lane(k), n) ELSE lane(k)], 0, count)
  IN  PutVec(i,
        CASE i.op = "ADDV" \/ (i.op \in {"UADDLV", "SADDLV"} /\ es < 8) -> Zeroed(ToBytes(Wrap(sum), 8))
          [] i.op \in {"UADDLV", "SADDLV"} /\ es = 8 -> Zeros
          [] OTHER -> Zeroed(ToBytes(Extreme(i.op, {lane(k) : k \in 0 .. count - 1}, n), es)), ctx)

-----------------------------------------------------------------------------
(* Lanes that change their width or their place. *)

ZipOps == {"ZIP1", "ZIP2"}

(* Always words. *)
ZipWords(i, ctx) ==
  LET a == Lanes(Vec(i, 2, ctx), 4)
      b == Lanes(Vec(i, 3, ctx), 4)
      base == IF i.op = "ZIP2" THEN 2 ELSE 0
  IN  PutVec(i, Packed([k \in 0 .. 3 |-> IF k % 2 = 0 THEN a[base + k \div 2]
                                         ELSE b[base + k \div 2]], 4), ctx)

NarrowOps == {"SHRN", "SHRN2"}

(* Halfwords become bytes unless the source names words or doublewords;    *)
(* the amount counts modulo the width of the source lane (the release      *)
(* build's shift).  SHRN2 keeps the low half of the destination.           *)
Narrow(i, ctx) ==
  LET es == Max({get_vec_elem_size(i.ops[2]), 2})
      half == es \div 2
      a == get_operand_val(i.ops[3], ctx) % (ByteBits * es)
      lanes == Lanes(Vec(i, 2, ctx), es)
      narrowed == [k \in DOMAIN lanes |-> Low(Shr(lanes[k], a), ByteBits * half)]
  IN  PutVec(i, IF i.op = "SHRN2" THEN PackedOver(Vec(i, 1, ctx), 8, narrowed, half)
                ELSE Packed(narrowed, half), ctx)

WidthOps == {"XTN", "XTN2", "SXTL", "UXTL", "SXTL2", "UXTL2"}

(* Always between words and halfwords, and always the low half of the      *)
(* narrow side: the 2 forms do what the others do.                         *)
ChangeWidth(i, ctx) ==
  LET a == Vec(i, 2, ctx)
  IN  PutVec(i,
        IF i.op \in {"XTN", "XTN2"} THEN Packed([k \in 0 .. 3 |-> Low(LaneAt(a, k, 4), HBits)], 2)
        ELSE Packed([k \in 0 .. 3 |->
               IF i.op \in {"SXTL", "SXTL2"} THEN SignExtend(LaneAt(a, k, 2), HBits)
               ELSE LaneAt(a, k, 2)], 4), ctx)

MoveLaneOps == {"UMOV", "SMOV", "FMOV"}

(* UMOV and SMOV take a word or a doubleword, by the destination, and      *)
(* never extend a sign.                                                    *)
MoveLane(i, ctx) ==
  LET es == IF is_w_reg(Rd(i)) THEN 4 ELSE 8
      lane == i.ops[2].lane % (16 \div es)
  IN  set_reg_val(Rd(i), IF i.op # "FMOV" /\ IsVecOp(i, 2) THEN LaneAt(Vec(i, 2, ctx), lane, es)
                         ELSE get_operand_val(i.ops[2], ctx), ctx)

-----------------------------------------------------------------------------

(* Mnemonics the general registers have too, by their destination. *)
SharedOps == {"ADD", "MOV", "ORR", "ORN", "EOR", "EON", "AND", "REV16", "REV32", "REV64", "RBIT"}

VectorOps == LaneOps \cup FillOps \cup WordShiftOps \cup BitOps \cup ByteOps \cup PairOps
             \cup ReduceOps \cup ZipOps \cup NarrowOps \cup WidthOps \cup MoveLaneOps

OnVectors(i) == i.op \in VectorOps /\ (i.op \in SharedOps => IsVecOp(i, 1))

(* The match of step, for the arms above. *)
ExecuteVector(i, ctx) ==
  CASE i.op \in LaneOps -> LaneWise(i, ctx)
    [] i.op \in FillOps -> Fill(i, ctx)
    [] i.op \in WordShiftOps -> WordShift(i, ctx)
    [] i.op \in BitOps -> BitWise(i, ctx)
    [] i.op \in ByteOps -> Bytes(i, ctx)
    [] i.op \in PairOps -> Pairwise(i, ctx)
    [] i.op \in ReduceOps -> Reduce(i, ctx)
    [] i.op \in ZipOps -> ZipWords(i, ctx)
    [] i.op \in NarrowOps -> Narrow(i, ctx)
    [] i.op \in WidthOps -> ChangeWidth(i, ctx)
    [] i.op \in MoveLaneOps -> MoveLane(i, ctx)

=============================================================================
