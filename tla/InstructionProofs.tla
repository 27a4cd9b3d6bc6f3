-------------------------- MODULE InstructionProofs --------------------------
(***************************************************************************)
(* What InterpreterProps says of single instructions, for words of every   *)
(* width and every decoder: the flags of comparisons, branches, products,  *)
(* quotients, stores, faults and loads.  Each theorem rests on             *)
(* InterpreterTyped, a lemma on the arms concerned, and the arithmetic of  *)
(* ArithmeticProofs; those on memory also on MemoryStays.                  *)
(***************************************************************************)
EXTENDS InterpreterProofs

-----------------------------------------------------------------------------
(* Which arm a step takes.                                                 *)

LEMMA DataArm ==
  ASSUME step, Executes(DataOps), ~OnVectors(Inst), ret' = "ok"
  PROVE  Retire(Execute(Inst, ctx), mem, NextPc) /\ ~DivisionPanics(Inst, ctx)
<1>1. Fetched /\ Inst.op \in DataOps
  BY DEF Executes
<1>2. ASSUME NEW ops, Executes(ops), ops \cap DataOps = {} PROVE FALSE
  BY <1>1, <1>2 DEF Executes
<1> USE DEF DataOps, AddSubOps, NegOps, MoveOps, MultiplyOps, DivideOps, LogicOps, ExtendOps,
       BitfieldOps, ShiftOps, SelectOps, CompareIfOps, InsertZeroOps, ReverseOps, SystemOps, NoOps
<1>3. ~FetchFault /\ ~SkipUndecoded /\ ~Undefined /\ ~DcZva
  BY <1>1, <1>2 DEF FetchFault, SkipUndecoded, Undefined, DcZva
<1>4. ~Branch /\ ~BranchIf /\ ~CompareBranch /\ ~TestBranch /\ ~BranchLink /\ ~Return
  BY <1>2 DEF Branch, BranchIf, CompareBranch, TestBranch, BranchLink, Return
<1>5. ~LoadRegister /\ ~LoadPair /\ ~StoreRegister /\ ~StorePair /\ ~StoreExclusive
  BY <1>2 DEF LoadRegister, LoadPair, StoreRegister, StorePair, StoreExclusive, LoadOps, StoreOps
<1>6. ~LoadVectors /\ ~StoreVectors /\ ~LoadStructures /\ ~SupervisorCall
  <2>1. /\ LoadVectors => Executes({"LD1", "LD1R"})
        /\ StoreVectors => Executes({"ST1"})
        /\ LoadStructures => Executes({"LD2", "LD3", "LD4"})
        /\ SupervisorCall => Executes({"SVC"})
    BY DEF LoadVectors, StoreVectors, LoadStructures, SupervisorCall
  <2> QED  BY <1>2, <2>1
<1>7. ~VectorProcessing
  BY DEF VectorProcessing
<1>8. DataProcessing
  <2>1. ~OverflowPanic
    BY DEF OverflowPanic
  <2> QED  BY <1>3, <1>4, <1>5, <1>6, <1>7, <2>1 DEF step
<1> QED  BY <1>8 DEF DataProcessing

(* The value of an operand, at the width of the comparison.                *)
LEMMA InputRange ==
  ASSUME NEW n \in {WBits, XBits}, NEW v \in Nat
  PROVE  /\ Half(n) \in Nat \ {0}
         /\ Low(v, n) \in 0 .. 2 * Half(n) - 1 /\ 0 \in 0 .. 2 * Half(n) - 1
<1>1. n \in Nat \ {0}
  BY Widths
<1>2. Half(n) \in Nat \ {0} /\ 2 * Half(n) = 2^n
  BY <1>1, HalfNat
<1>3. Low(v, n) \in 0 .. 2^n - 1
  BY <1>1, LowRange
<1> QED  BY <1>2, <1>3

LEMMA Arms ==
  ASSUME NEW i, NEW c
  PROVE  /\ i.op \in AddSubOps => Execute(i, c) = AddSub(i, c)
         /\ i.op \in NegOps => Execute(i, c) = Neg(i, c)
         /\ i.op \in CompareIfOps => Execute(i, c) = CompareIf(i, c)
         /\ i.op \in MultiplyOps => Execute(i, c) = Multiply(i, c)
         /\ i.op \in DivideOps => Execute(i, c) = Divide(i, c)
<1> USE DEF AddSubOps, NegOps, MoveOps, MultiplyOps, DivideOps, LogicOps, ExtendOps, BitfieldOps,
       ShiftOps, SelectOps, CompareIfOps, InsertZeroOps, ReverseOps, SystemOps, NoOps
<1>1. i.op \in AddSubOps => Execute(i, c) = AddSub(i, c)
  BY DEF Execute
<1>2. i.op \in NegOps => Execute(i, c) = Neg(i, c)
  BY DEF Execute
<1>3. i.op \in CompareIfOps => Execute(i, c) = CompareIf(i, c)
  BY DEF Execute
<1>4. i.op \in MultiplyOps => Execute(i, c) = Multiply(i, c)
  BY DEF Execute
<1>5. i.op \in DivideOps => Execute(i, c) = Divide(i, c)
  BY DEF Execute
<1> QED  BY <1>1, <1>2, <1>3, <1>4, <1>5

LEMMA AddSubFlags ==
  ASSUME NEW c \in CpuContext, NEW i, IsResolvedInst(i), i.op \in AddSubOps \ {"ADD", "SUB"}
  PROVE  LET n == OperandWidth(Source(i, 1))
             a == Low(get_operand_val(Source(i, 1), c), n)
             b == Low(get_operand_val(Source(i, 2), c), n)
             f == AddSub(i, c).nzcv
         IN  IF i.op \in {"CMP", "SUBS"} THEN Compares(Half(n), a, b, f) ELSE Sums(Half(n), a, b, f)
<1> DEFINE adds == i.op \in {"ADD", "ADDS", "CMN"}
           v1 == get_operand_val(Source(i, 1), c)
           v2 == get_operand_val(Source(i, 2), c)
           n  == OperandWidth(Source(i, 1))
           a  == Low(v1, n)
           b  == Low(v2, n)
           w  == Wrap(IF adds THEN v1 + v2 ELSE v1 - v2)
           after == IF i.op \in Comparing THEN c ELSE set_reg_val(Rd(i), w, c)
           flags == IF adds THEN AddFlags(Half(n), a, b) ELSE SubFlags(Half(n), a, b)
<1>1. i.op \in BinaryOps /\ (i.op \notin Comparing => Rd(i) \in Registers)
  BY Destination DEF BinaryOps, DataOps, AddSubOps, CompareIfOps, NoOps
<1>2. v1 \in Nat /\ v2 \in Nat
  BY <1>1, SourceWord, WordNat
<1>3. AddSub(i, c) = [after EXCEPT !.nzcv = flags]
  BY DEF AddSub
<1>4. "nzcv" \in DOMAIN after
  <2>1. w \in XWord
    <3> HIDE DEF v1, v2
    <3> QED  BY <1>2, WrapWord
  <2> HIDE DEF w
  <2>2. after \in CpuContext
    BY <1>1, <2>1, SetReg
  <2> QED  BY <2>2 DEF CpuContext
<1> HIDE DEF after
<1>5. AddSub(i, c).nzcv = flags
  BY <1>3, <1>4
<1>6. n \in {WBits, XBits}
  BY DEF OperandWidth, Width
<1> HIDE DEF v1, v2, n
<1>7. /\ Half(n) \in Nat \ {0}
      /\ a \in 0 .. 2 * Half(n) - 1 /\ b \in 0 .. 2 * Half(n) - 1
  BY <1>2, <1>6, InputRange
<1> HIDE DEF a, b
<1>8. Compares(Half(n), a, b, SubFlags(Half(n), a, b)) /\ Sums(Half(n), a, b, AddFlags(Half(n), a, b))
  BY <1>7, SubtractionCompares, AdditionSums
<1>9. adds <=> i.op \notin {"CMP", "SUBS"}
  BY DEF AddSubOps
<1> HIDE DEF adds
<1>10. IF i.op \in {"CMP", "SUBS"} THEN Compares(Half(n), a, b, AddSub(i, c).nzcv)
       ELSE Sums(Half(n), a, b, AddSub(i, c).nzcv)
  BY <1>5, <1>8, <1>9
<1> QED  BY <1>10 DEF n, a, b, v1, v2

LEMMA NegFlags ==
  ASSUME NEW c \in CpuContext, NEW i, IsResolvedInst(i), i.op = "NEGS"
  PROVE  LET n == Width(Rd(i))
         IN  Compares(Half(n), 0, Low(get_operand_val(i.ops[2], c), n), Neg(i, c).nzcv)
<1> DEFINE v2 == get_operand_val(i.ops[2], c)
           n  == Width(Rd(i))
           b  == Low(v2, n)
           after == set_reg_val(Rd(i), Wrap(-v2), c)
<1>1. Rd(i) \in Registers /\ i.op \in BinaryOps
  BY Destination DEF DataOps, NegOps, Comparing, CompareIfOps, NoOps
<1>2. v2 \in Nat
  BY <1>1, Inputs
<1>3. Neg(i, c) = [after EXCEPT !.nzcv = SubFlags(Half(n), 0, b)]
  BY DEF Neg
<1>4. "nzcv" \in DOMAIN after
  <2>1. -v2 \in Int
    BY <1>2
  <2> HIDE DEF v2
  <2>2. after \in CpuContext
    BY <1>1, <2>1, WrapWord, SetReg
  <2> QED  BY <2>2 DEF CpuContext
<1> HIDE DEF after
<1>5. Neg(i, c).nzcv = SubFlags(Half(n), 0, b)
  BY <1>3, <1>4
<1>6. n \in {WBits, XBits}
  BY DEF Width
<1> HIDE DEF v2, n
<1>7. /\ Half(n) \in Nat \ {0}
      /\ 0 \in 0 .. 2 * Half(n) - 1 /\ b \in 0 .. 2 * Half(n) - 1
  BY <1>2, <1>6, InputRange
<1> HIDE DEF b
<1>8. Compares(Half(n), 0, b, Neg(i, c).nzcv)
  BY <1>5, <1>7, SubtractionCompares
<1> QED  BY <1>8 DEF n, b, v2

LEMMA CompareIfFlags ==
  ASSUME NEW c \in CpuContext, NEW i, IsResolvedInst(i), i.op \in CompareIfOps,
         Cond(i.ops[4].cond, c.nzcv)
  PROVE  LET n == OperandWidth(i.ops[1])
             p == Low(get_operand_val(i.ops[1], c), n)
             q == Low(get_operand_val(i.ops[2], c), n)
             f == CompareIf(i, c).nzcv
         IN  IF i.op = "CCMP" THEN Compares(Half(n), p, q, f) ELSE Sums(Half(n), p, q, f)
<1> DEFINE v1 == get_operand_val(i.ops[1], c)
           v2 == get_operand_val(i.ops[2], c)
           n  == OperandWidth(i.ops[1])
           p  == Low(v1, n)
           q  == Low(v2, n)
           flags == IF i.op = "CCMN" THEN AddFlags(Half(n), p, q) ELSE SubFlags(Half(n), p, q)
<1>1. i.op \in BinaryOps
  BY DEF BinaryOps, DataOps, CompareIfOps, NoOps
<1>2. v1 \in Nat /\ v2 \in Nat
  BY <1>1, Inputs
<1>3. CompareIf(i, c) = [c EXCEPT !.nzcv = flags]
  BY DEF CompareIf
<1>4. CompareIf(i, c).nzcv = flags
  BY <1>3 DEF CpuContext
<1>5. n \in {WBits, XBits}
  BY DEF OperandWidth, Width
<1> HIDE DEF v1, v2, n
<1>6. /\ Half(n) \in Nat \ {0}
      /\ p \in 0 .. 2 * Half(n) - 1 /\ q \in 0 .. 2 * Half(n) - 1
  BY <1>2, <1>5, InputRange
<1> HIDE DEF p, q
<1>7. Compares(Half(n), p, q, SubFlags(Half(n), p, q)) /\ Sums(Half(n), p, q, AddFlags(Half(n), p, q))
  BY <1>6, SubtractionCompares, AdditionSums
<1>8. IF i.op = "CCMP" THEN Compares(Half(n), p, q, CompareIf(i, c).nzcv)
      ELSE Sums(Half(n), p, q, CompareIf(i, c).nzcv)
  BY <1>4, <1>7 DEF CompareIfOps
<1> QED  BY <1>8 DEF n, p, q, v1, v2

LEMMA DataFlags ==
  ASSUME TypeOK, [step]_vars, NEW ops, ops \subseteq DataOps \ VectorOps, Completed(ops)
  PROVE  /\ ctx \in CpuContext /\ IsResolvedInst(Inst) /\ Inst.op \in ops
         /\ UNCHANGED vars \/ ctx'.nzcv = Execute(Inst, ctx).nzcv
<1>1. Executes(ops) /\ ret' = "ok"
  BY DEF Completed
<1>2. ctx \in CpuContext /\ IsResolvedInst(Inst) /\ Inst.op \in ops
  BY <1>1, Executing
<1>3. Executes(DataOps) /\ ~OnVectors(Inst)
  BY <1>1, <1>2 DEF Executes, OnVectors
<1>4. CASE step
  <2>1. Retire(Execute(Inst, ctx), mem, NextPc)
    BY <1>1, <1>3, <1>4, DataArm
  <2>2. Execute(Inst, ctx) \in CpuContext
    BY <1>2, <1>3, ExecuteTyped DEF Executes
  <2> QED  BY <1>2, <2>1, <2>2 DEF Retire, CpuContext
<1> QED  BY <1>2, <1>4

(* Whatever the operands and the width, a comparison leaves flags that     *)
(* decide all ten relations, an addition flags that describe both sums.    *)
THEOREM ComparisonsAlwaysDecide == Spec => ComparisonsDecide
<1>1. ASSUME TypeOK, [step]_vars
      PROVE  [/\ Completed({"CMP", "SUBS", "CMN", "ADDS"}) =>
                   LET n == OperandWidth(Source(Inst, 1))
                       a == InputOf(1, n)
                       b == InputOf(2, n)
                   IN  IF Inst.op \in {"CMP", "SUBS"} THEN Compares(Half(n), a, b, ctx'.nzcv)
                       ELSE Sums(Half(n), a, b, ctx'.nzcv)
              /\ Completed({"NEGS"}) =>
                   LET n == Width(Rd(Inst)) IN Compares(Half(n), 0, Low(Target(2), n), ctx'.nzcv)
              /\ Completed(CompareIfOps) /\ Cond(Inst.ops[4].cond, ctx.nzcv) =>
                   LET n == OperandWidth(Inst.ops[1])
                       p == Low(Target(1), n)
                       q == Low(Target(2), n)
                   IN  IF Inst.op = "CCMP" THEN Compares(Half(n), p, q, ctx'.nzcv)
                       ELSE Sums(Half(n), p, q, ctx'.nzcv)]_vars
  <2> SUFFICES ASSUME ~UNCHANGED vars
               PROVE  /\ Completed({"CMP", "SUBS", "CMN", "ADDS"}) =>
                           LET n == OperandWidth(Source(Inst, 1))
                               a == InputOf(1, n)
                               b == InputOf(2, n)
                           IN  IF Inst.op \in {"CMP", "SUBS"} THEN Compares(Half(n), a, b, ctx'.nzcv)
                               ELSE Sums(Half(n), a, b, ctx'.nzcv)
                      /\ Completed({"NEGS"}) =>
                           LET n == Width(Rd(Inst)) IN Compares(Half(n), 0, Low(Target(2), n), ctx'.nzcv)
                      /\ Completed(CompareIfOps) /\ Cond(Inst.ops[4].cond, ctx.nzcv) =>
                           LET n == OperandWidth(Inst.ops[1])
                               p == Low(Target(1), n)
                               q == Low(Target(2), n)
                           IN  IF Inst.op = "CCMP" THEN Compares(Half(n), p, q, ctx'.nzcv)
                               ELSE Sums(Half(n), p, q, ctx'.nzcv)
    OBVIOUS
  <2> DEFINE S == {"CMP", "SUBS", "CMN", "ADDS"}
  <2>1. /\ S \subseteq DataOps \ VectorOps /\ {"NEGS"} \subseteq DataOps \ VectorOps
        /\ CompareIfOps \subseteq DataOps \ VectorOps
    BY DEF DataOps, AddSubOps, NegOps, CompareIfOps, VectorOps, LaneOps, LaneShiftOps, FillOps, WordShiftOps, BitOps,
       ByteOps, PairOps, ReduceOps, ZipOps, NarrowOps, WidthOps, MoveLaneOps
  <2>2. ASSUME Completed(S)
        PROVE  LET n == OperandWidth(Source(Inst, 1))
                   a == InputOf(1, n)
                   b == InputOf(2, n)
               IN  IF Inst.op \in {"CMP", "SUBS"} THEN Compares(Half(n), a, b, ctx'.nzcv)
                   ELSE Sums(Half(n), a, b, ctx'.nzcv)
    <3>1. ctx \in CpuContext /\ IsResolvedInst(Inst) /\ Inst.op \in S /\ ctx'.nzcv = Execute(Inst, ctx).nzcv
      BY <1>1, <2>1, <2>2, DataFlags
    <3>2. Inst.op \in AddSubOps \ {"ADD", "SUB"}
      BY <3>1 DEF AddSubOps
    <3>3. Execute(Inst, ctx) = AddSub(Inst, ctx)
      BY <3>2, Arms
    <3> HIDE DEF S
    <3> QED  BY <3>1, <3>2, <3>3, AddSubFlags DEF InputOf
  <2>3. ASSUME Completed({"NEGS"})
        PROVE  LET n == Width(Rd(Inst)) IN Compares(Half(n), 0, Low(Target(2), n), ctx'.nzcv)
    <3>1. /\ ctx \in CpuContext /\ IsResolvedInst(Inst) /\ Inst.op = "NEGS"
          /\ ctx'.nzcv = Execute(Inst, ctx).nzcv
      BY <1>1, <2>1, <2>3, DataFlags
    <3>2. Execute(Inst, ctx) = Neg(Inst, ctx)
      BY <3>1, Arms DEF NegOps
    <3> QED  BY <3>1, <3>2, NegFlags DEF Target
  <2>4. ASSUME Completed(CompareIfOps), Cond(Inst.ops[4].cond, ctx.nzcv)
        PROVE  LET n == OperandWidth(Inst.ops[1])
                   p == Low(Target(1), n)
                   q == Low(Target(2), n)
               IN  IF Inst.op = "CCMP" THEN Compares(Half(n), p, q, ctx'.nzcv)
                   ELSE Sums(Half(n), p, q, ctx'.nzcv)
    <3>1. /\ ctx \in CpuContext /\ IsResolvedInst(Inst) /\ Inst.op \in CompareIfOps
          /\ ctx'.nzcv = Execute(Inst, ctx).nzcv
      BY <1>1, <2>1, <2>4, DataFlags
    <3>2. Execute(Inst, ctx) = CompareIf(Inst, ctx)
      BY <3>1, Arms
    <3> QED  BY <2>4, <3>1, <3>2, CompareIfFlags DEF Target
  <2> QED  BY <2>2, <2>3, <2>4
<1> QED  BY <1>1, InterpreterTyped, PTL DEF Spec, ComparisonsDecide

-----------------------------------------------------------------------------
(* Branches. *)

LEMMA ZeroBits ==
  ASSUME NEW n \in Nat, NEW v \in 0 .. 2^n - 1
  PROVE  (\A k \in 0 .. n - 1 : Bit(v, k) = 0) <=> v = 0
<1> DEFINE S == {k \in 0 .. n : Shr(v, k) = 0}
<1>0. 2^n \in Nat /\ v \in Nat /\ \A k \in Nat : 2^k \in Nat \ {0}
  BY PowerPositive
<1>1. ASSUME v = 0, NEW k \in 0 .. n - 1 PROVE Bit(v, k) = 0
  <2>1. 2^k \in Nat \ {0}
    BY <1>0
  <2>2. Shr(v, k) = 0
    BY <1>1, <2>1 DEF Shr
  <2> QED  BY <2>2 DEF Bit
<1>2. ASSUME \A k \in 0 .. n - 1 : Bit(v, k) = 0 PROVE v = 0
  <2>1. Shr(v, n) = 0
    <3> DEFINE p == 2^n
    <3>1. p \in Nat \ {0} /\ v < p
      BY <1>0
    <3> HIDE DEF p
    <3>2. v \div p = 0
      BY <1>0, <3>1
    <3> QED  BY <3>2 DEF Shr, p
  <2>2. ASSUME NEW k \in 0 .. n - 1, k + 1 \in S PROVE k \in S
    <3>1. Shr(v, k) = Bit(v, k) + 2 * Shr(v, k + 1)
      BY <1>0, BitSplits
    <3> QED  BY <1>2, <2>2, <3>1
  <2>3. 0 \in S
    <3>1. n \in S /\ S \in SUBSET (0 .. n)
      BY <2>1
    <3> HIDE DEF S
    <3> QED  BY <2>2, <3>1, Downward
  <2>4. 2^0 = 1
    BY PowerPositive
  <2> QED  BY <1>0, <2>3, <2>4 DEF Shr
<1> QED  BY <1>1, <1>2

(* The next instruction of a step that completes.                          *)
LEMMA RetiredPc ==
  ASSUME ctx' \in CpuContext, NEW c, NEW m, NEW pc, Retire(c, m, pc)
  PROVE  ctx'.pc = pc
<1>1. ctx' = [c EXCEPT !.pc = pc]
  BY DEF Retire
<1>2. "pc" \in DOMAIN ctx'
  BY DEF CpuContext
<1> QED  BY <1>1, <1>2

BranchOps == {"B", "BR", "RET", "B_COND", "CBZ", "CBNZ", "TBZ", "TBNZ"} \cup Calls

Lands ==
  LET named == Target(IF Inst.op \in {"CBZ", "CBNZ"} THEN 2
                      ELSE IF Inst.op \in {"TBZ", "TBNZ"} THEN 3 ELSE 1)
  IN  /\ ctx'.pc = IF ~Taken(Inst) THEN NextPc
                   ELSE IF Inst.op = "RET" THEN ctx.x[30]
                   ELSE IF Inst.op = "BLR" /\ Rd(Inst).n = 30 THEN NextPc ELSE named
      /\ Inst.op \in Calls => ctx'.x[30] = NextPc

LEMMA Onward ==
  ASSUME ctx' \in CpuContext, Inst.op \notin BranchOps, NEW c, NEW m, Retire(c, m, NextPc)
  PROVE  Lands
<1>1. ~Taken(Inst)
  BY DEF Taken, BranchOps, Calls
<1>2. ctx'.pc = NextPc
  BY RetiredPc
<1> QED  BY <1>1, <1>2 DEF Lands, BranchOps

LEMMA StraightLands ==
  ASSUME TypeOK, ctx' \in CpuContext, ret' = "ok",
         \/ SkipUndecoded \/ DcZva \/ DataProcessing \/ VectorProcessing
         \/ LoadRegister \/ LoadPair \/ StoreRegister \/ StorePair \/ StoreExclusive
         \/ LoadVectors \/ StoreVectors \/ LoadStructures \/ SupervisorCall
  PROVE  Lands
<1> SUFFICES Inst.op \notin BranchOps /\ \E c, m : Retire(c, m, NextPc)
  BY Onward
<1>1. ASSUME NEW ops, Executes(ops), ops \cap BranchOps = {} PROVE Inst.op \notin BranchOps
  BY <1>1 DEF Executes
<1>2. ASSUME NEW c, NEW m, NEW d, NEW n, Retire(c, m, NextPc) \/ Fail(d, n)
      PROVE  \E x, y : Retire(x, y, NextPc)
  BY <1>2 DEF Fail
<1>3. ASSUME NEW ea, NEW bytes, NEW c, Store(ea, bytes, c) PROVE \E x, y : Retire(x, y, NextPc)
  <2>1. \E m : Retire(c, m, NextPc) \/ Fail(ea.ctx, m)
    BY <1>3 DEF Store
  <2> QED  BY <1>2, <2>1
<1> USE DEF BranchOps, Calls
<1>4. CASE SkipUndecoded
  BY <1>1, <1>4 DEF SkipUndecoded
<1>5. CASE DcZva
  BY <1>1, <1>5 DEF DcZva
<1>6. CASE DataProcessing
  <2>1. Executes(DataOps) /\ Retire(Execute(Inst, ctx), mem, NextPc)
    BY <1>6 DEF DataProcessing
  <2>2. DataOps \cap BranchOps = {}
    BY DEF DataOps, AddSubOps, NegOps, MoveOps, MultiplyOps, DivideOps, LogicOps, ExtendOps, BitfieldOps,
       ShiftOps, SelectOps, CompareIfOps, InsertZeroOps, ReverseOps, SystemOps, NoOps
  <2> HIDE DEF BranchOps
  <2> QED  BY <1>1, <2>1, <2>2
<1>7. CASE VectorProcessing
  <2>1. Executes(VectorOps) /\ Retire(ExecuteVector(Inst, ctx), mem, NextPc)
    BY <1>7 DEF VectorProcessing
  <2>2. VectorOps \cap BranchOps = {}
    BY DEF VectorOps, LaneOps, LaneShiftOps, FillOps, WordShiftOps, BitOps, ByteOps, PairOps, ReduceOps,
       ZipOps, NarrowOps, WidthOps, MoveLaneOps
  <2> HIDE DEF BranchOps
  <2> QED  BY <1>1, <2>1, <2>2
<1>8. CASE LoadRegister
  <2>1. Executes(LoadOps) /\ LoadOps \cap BranchOps = {}
    BY <1>8 DEF LoadRegister, LoadOps
  <2>2. \E c : Retire(c, mem, NextPc)
    BY <1>8 DEF LoadRegister, Fail
  <2> HIDE DEF BranchOps
  <2> QED  BY <1>1, <2>1, <2>2
<1>9. CASE LoadPair
  <2>1. Executes({"LDP"}) /\ {"LDP"} \cap BranchOps = {}
    BY <1>9 DEF LoadPair
  <2>2. \E c : Retire(c, mem, NextPc)
    BY <1>9 DEF LoadPair, Fail
  <2> HIDE DEF BranchOps
  <2> QED  BY <1>1, <2>1, <2>2
<1>10. CASE StoreRegister \/ StorePair \/ StoreExclusive \/ StoreVectors
  <2>1. Executes(StoreOps) \/ Executes({"STP"}) \/ Executes({"STXR", "STXRB"}) \/ Executes({"ST1"})
    BY <1>10 DEF StoreRegister, StorePair, StoreExclusive, StoreVectors
  <2>2. Inst.op \notin BranchOps
    BY <2>1 DEF Executes, StoreOps
  <2>3. \E ea, bytes, c : Store(ea, bytes, c)
    BY <1>10 DEF StoreRegister, StorePair, StoreExclusive, StoreVectors
  <2> HIDE DEF BranchOps
  <2> QED  BY <1>3, <2>2, <2>3
<1>11. CASE LoadVectors
  <2>1. Executes({"LD1", "LD1R"}) /\ {"LD1", "LD1R"} \cap BranchOps = {}
    BY <1>11 DEF LoadVectors
  <2>2. \E c : Retire(c, mem, NextPc)
    BY <1>11 DEF LoadVectors, Fail
  <2> HIDE DEF BranchOps
  <2> QED  BY <1>1, <2>1, <2>2
<1>12. CASE LoadStructures
  <2>1. Executes({"LD2", "LD3", "LD4"}) /\ {"LD2", "LD3", "LD4"} \cap BranchOps = {}
    BY <1>12 DEF LoadStructures
  <2>2. \E c : Retire(c, mem, NextPc)
    BY <1>12 DEF LoadStructures
  <2> HIDE DEF BranchOps
  <2> QED  BY <1>1, <2>1, <2>2
<1>13. CASE SupervisorCall
  <2>1. Executes({"SVC"}) /\ {"SVC"} \cap BranchOps = {}
    BY <1>13 DEF SupervisorCall
  <2>2. \E c : Retire(c, mem, NextPc)
    BY <1>13 DEF SupervisorCall
  <2> HIDE DEF BranchOps
  <2> QED  BY <1>1, <2>1, <2>2
<1> QED  BY <1>4, <1>5, <1>6, <1>7, <1>8, <1>9, <1>10, <1>11, <1>12, <1>13

(* A tested register fits its width, so the code may test all of it.       *)
LEMMA TestedRegister ==
  ASSUME TypeOK, Executes({"CBZ", "CBNZ", "TBZ", "TBNZ"})
  PROVE  Low(Target(1), Width(Rd(Inst))) = Target(1) /\ Target(1) \in XWord
<1>1. IsResolvedInst(Inst) /\ Inst.op \in {"CBZ", "CBNZ", "TBZ", "TBNZ"} /\ ctx \in CpuContext
  BY Executing
<1>2. Inst.ops[1].kind = "reg" /\ 1 \in DOMAIN Inst.ops
  BY <1>1 DEF IsResolvedInst, IsInstruction, BinaryOps, TernaryOps
<1>3. Rd(Inst) \in Registers
  BY <1>1, <1>2, OperandRegister DEF IsResolvedInst, IsInstruction, IsReg, Rd
<1>4. Target(1) = get_reg_val(Rd(Inst), ctx)
  BY <1>2 DEF Target, get_operand_val, Rd
<1>5. Target(1) \in 0 .. 2^Width(Rd(Inst)) - 1 /\ Target(1) \in XWord /\ Width(Rd(Inst)) \in Nat
  BY <1>1, <1>3, <1>4, GetReg, RegisterWidth
<1> QED  BY <1>5, LowOfSmall

LEMMA BranchLands ==
  ASSUME TypeOK, ctx' \in CpuContext,
         Branch \/ BranchIf \/ CompareBranch \/ TestBranch \/ Return \/ BranchLink
  PROVE  Lands
<1>0. ctx \in CpuContext
  BY DEF TypeOK
<1>1. CASE Branch
  <2>1. Inst.op \in {"B", "BR"} /\ Retire(ctx, mem, Target(1))
    BY <1>1 DEF Branch, Executes
  <2>2. ctx'.pc = Target(1)
    BY <2>1, RetiredPc
  <2> QED  BY <2>1, <2>2 DEF Lands, Taken, Calls
<1>2. CASE BranchIf
  <2> DEFINE pc == IF Cond(Inst.cond, ctx.nzcv) THEN Target(1) ELSE NextPc
  <2>1. Inst.op = "B_COND" /\ Retire(ctx, mem, pc)
    BY <1>2 DEF BranchIf, Executes
  <2>2. ctx'.pc = pc
    <3> HIDE DEF pc
    <3> QED  BY <2>1, RetiredPc
  <2> QED  BY <2>1, <2>2 DEF Lands, Taken, Calls
<1>3. CASE CompareBranch
  <2> DEFINE pc == IF (Target(1) = 0) = (Inst.op = "CBZ") THEN Target(2) ELSE NextPc
             tested == Low(Target(1), Width(Rd(Inst)))
  <2>1. Executes({"CBZ", "CBNZ"}) /\ Inst.op \in {"CBZ", "CBNZ"} /\ Retire(ctx, mem, pc)
    BY <1>3 DEF CompareBranch, Executes
  <2>2. ctx'.pc = pc
    <3> HIDE DEF pc
    <3> QED  BY <2>1, RetiredPc
  <2>3. tested = Target(1) /\ Target(1) \in XWord
    BY <2>1, TestedRegister DEF Executes
  <2>4. (\A k \in 0 .. XBits - 1 : Bit(tested, k) = 0) <=> Target(1) = 0
    <3>1. XBits \in Nat /\ tested \in 0 .. 2^XBits - 1
      BY <2>3, Widths DEF XWord
    <3> HIDE DEF tested
    <3> QED  BY <2>3, <3>1, ZeroBits
  <2>5. Taken(Inst) <=> (Target(1) = 0) = (Inst.op = "CBZ")
    <3>1. Taken(Inst) = ((\A k \in 0 .. XBits - 1 : Bit(tested, k) = 0) = (Inst.op = "CBZ"))
      BY <2>1 DEF Taken, Calls
    <3> QED  BY <2>4, <3>1
  <2> QED  BY <2>1, <2>2, <2>5 DEF Lands, Calls
<1>4. CASE TestBranch
  <2> DEFINE pc == IF (Bit(Target(1), Target(2)) = 0) = (Inst.op = "TBZ") THEN Target(3) ELSE NextPc
             tested == Low(Target(1), Width(Rd(Inst)))
  <2>1. Executes({"TBZ", "TBNZ"}) /\ Inst.op \in {"TBZ", "TBNZ"} /\ Retire(ctx, mem, pc)
    BY <1>4 DEF TestBranch, Executes
  <2>2. ctx'.pc = pc
    <3> HIDE DEF pc
    <3> QED  BY <2>1, RetiredPc
  <2>3. tested = Target(1)
    BY <2>1, TestedRegister DEF Executes
  <2>4. Taken(Inst) <=> (Bit(Target(1), Target(2)) = 0) = (Inst.op = "TBZ")
    BY <2>1, <2>3 DEF Taken, Calls
  <2> QED  BY <2>1, <2>2, <2>4 DEF Lands, Calls
<1>5. CASE Return
  <2>1. Inst.op = "RET" /\ Retire(ctx, mem, get_x(30, ctx))
    BY <1>5 DEF Return, Executes
  <2>2. ctx'.pc = ctx.x[30]
    BY <2>1, RetiredPc, RegsAssumption DEF get_x
  <2> QED  BY <2>1, <2>2 DEF Lands, Taken, Calls
<1>6. CASE BranchLink
  <2> DEFINE linked == set_x(30, NextPc, ctx)
             pc == get_operand_val(Inst.ops[1], linked)
  <2>1. Executes({"BL", "BLR"}) /\ Inst.op \in {"BL", "BLR"} /\ Retire(linked, mem, pc)
    BY <1>6 DEF BranchLink, Executes
  <2>2. ctx'.pc = pc
    <3> HIDE DEF pc
    <3> QED  BY <2>1, RetiredPc
  <2>3. linked = [ctx EXCEPT !.x[30] = NextPc]
    BY RegsAssumption DEF set_x
  <2>4. IsResolvedInst(Inst) /\ NextPc \in XWord
    BY <2>1, Executing
  <2>5. ctx'.x[30] = NextPc
    <3>1. linked.x[30] = NextPc
      BY <1>0, <2>3, RegsAssumption DEF CpuContext
    <3>2. ctx' = [linked EXCEPT !.pc = pc]
      BY <2>1 DEF Retire
    <3>3. "x" \in DOMAIN linked
      BY <1>0, <2>3 DEF CpuContext
    <3> HIDE DEF linked, pc
    <3> QED  BY <3>1, <3>2, <3>3
  <2>6. Taken(Inst)
    BY <2>1 DEF Taken, Calls
  <2>7. pc = IF Inst.op = "BLR" /\ Rd(Inst).n = 30 THEN NextPc ELSE Target(1)
    <3>1. CASE Inst.op = "BL"
      BY <2>4, <3>1 DEF IsResolvedInst, IsInstruction, get_operand_val, Target
    <3>2. CASE Inst.op = "BLR"
      <4> DEFINE n == Rd(Inst).n
      <4>1. Inst.ops[1].kind = "reg" /\ Rd(Inst) = X(n) /\ Rd(Inst) \in Registers
        <5>1. Inst.ops[1].kind = "reg" /\ Rd(Inst) = X(n) /\ 1 \in DOMAIN Inst.ops
          BY <2>4, <3>2 DEF IsResolvedInst, IsInstruction, UnaryOps, Rd
        <5> QED  BY <2>4, <5>1, OperandRegister DEF IsResolvedInst, IsInstruction, IsReg, Rd
      <4>2. /\ pc = get_reg_val(Rd(Inst), linked)
            /\ Target(1) = get_reg_val(Rd(Inst), ctx)
        BY <4>1 DEF get_operand_val, Target, Rd
      <4>3. /\ ~IsVec(Rd(Inst)) /\ Width(Rd(Inst)) = XBits
            /\ linked.sp = ctx.sp /\ \A k : k # 30 => get_x(k, linked) = get_x(k, ctx)
            /\ get_x(30, linked) = NextPc
        <5>1. ~IsVec(Rd(Inst)) /\ Width(Rd(Inst)) = XBits
          BY <4>1 DEF IsVec, Width, is_w_reg, X
        <5>2. linked.sp = ctx.sp
          BY <1>0, <2>3 DEF CpuContext
        <5>3. linked.x = [ctx.x EXCEPT ![30] = NextPc] /\ ctx.x \in [Regs -> XWord]
          BY <1>0, <2>3 DEF CpuContext
        <5> QED  BY <5>1, <5>2, <5>3, RegsAssumption DEF get_x
      <4>4. n = 30 => Rd(Inst) # SP /\ Low(NextPc, XBits) = NextPc
        <5>1. n = 30 => Rd(Inst) # SP
          BY <4>1 DEF SP, X
        <5>2. XBits \in Nat /\ NextPc \in 0 .. 2^XBits - 1
          BY <2>4, Widths DEF XWord
        <5> QED  BY <5>1, <5>2, LowOfSmall
      <4> HIDE DEF linked, pc
      <4>5. CASE n = 30
        BY <3>2, <4>2, <4>3, <4>4, <4>5 DEF get_reg_val
      <4>6. CASE n # 30
        BY <3>2, <4>2, <4>3, <4>6 DEF get_reg_val
      <4> QED  BY <4>5, <4>6
    <3> QED  BY <2>1, <3>1, <3>2
  <2> QED  BY <2>1, <2>2, <2>5, <2>6, <2>7 DEF Lands
<1> QED  BY <1>1, <1>2, <1>3, <1>4, <1>5, <1>6

(* The next instruction is the one the manual names, after every           *)
(* instruction and wherever in memory it lies.                             *)
THEOREM BranchesAlwaysLand == Spec => BranchesLand
<1>1. ASSUME TypeOK, TypeOK', [step]_vars
      PROVE  [Running /\ ret' = "ok" => Lands]_vars
  <2> SUFFICES ASSUME step, ret' = "ok" PROVE Lands
    BY <1>1
  <2>1. ctx' \in CpuContext /\ ~FetchFault /\ ~Undefined /\ ~OverflowPanic
    BY <1>1 DEF TypeOK, FetchFault, Undefined, Fail, OverflowPanic
  <2> QED  BY <1>1, <2>1, StraightLands, BranchLands DEF step
<1>2. BranchesLand <=> [][Running /\ ret' = "ok" => Lands]_vars
  BY DEF BranchesLand, Lands
<1> QED  BY <1>1, <1>2, InterpreterTyped, PTL DEF Spec
-----------------------------------------------------------------------------
(* Residues and the integers they stand for.                               *)

LEMMA ResidueOf ==
  ASSUME NEW p \in Nat \ {0}, NEW k \in Int, NEW r \in 0 .. p - 1
  PROVE  (p * k + r) % p = r /\ (p * k + r) \div p = k
<1> DEFINE v == p * k + r
           d == v \div p
           m == v % p
<1>1. v \in Int /\ p * k \in Int
  OBVIOUS
<1>2. d \in Int /\ m \in 0 .. p - 1 /\ v = p * d + m
  <2> HIDE DEF v
  <2> QED  BY <1>1
<1> HIDE DEF d, m
<1>3. p * (d - k) = r - m
  <2>1. p * (d - k) = p * d - p * k
    BY <1>2
  <2> QED  BY <1>1, <1>2, <2>1
<1>4. d = k
  <2>1. CASE d - k >= 1
    <3>1. p * (d - k) >= p
      BY <1>2, <2>1
    <3> QED  BY <1>2, <1>3, <3>1
  <2>2. CASE d - k <= -1
    <3>1. p * (d - k) <= -p
      BY <1>2, <2>2
    <3> QED  BY <1>2, <1>3, <3>1
  <2> QED  BY <1>2, <2>1, <2>2
<1>5. m = r
  BY <1>1, <1>2, <1>4
<1> QED  BY <1>4, <1>5 DEF d, m

(* Cutting twice is cutting to the smaller width.                          *)
LEMMA LowTwice ==
  ASSUME NEW v \in Int, NEW m \in Nat, NEW n \in 0 .. m
  PROVE  Low(Low(v, m), n) = Low(v, n)
<1> DEFINE p == 2^n
           q == 2^(m - n)
           P == 2^m
           l == v % P
           k == v \div P
           r == l % p
           j == l \div p
<1>1. p \in Nat \ {0} /\ q \in Nat \ {0} /\ P \in Nat \ {0}
  BY PowerPositive
<1>2. P = p * q
  <2>1. n + (m - n) = m
    OBVIOUS
  <2> QED  BY <2>1, PowerOfSum
<1> HIDE DEF p, q, P
<1>3. k \in Int /\ l \in Int /\ v = P * k + l
  BY <1>1
<1> HIDE DEF k, l
<1>4. j \in Int /\ r \in 0 .. p - 1 /\ l = p * j + r
  BY <1>1, <1>3
<1> HIDE DEF j, r
<1>5. q * k \in Int /\ q * k + j \in Int
  BY <1>1, <1>3, <1>4
<1>6. v = p * (q * k + j) + r
  <2>1. (p * q) * k = p * (q * k)
    BY <1>1, <1>3
  <2>2. p * (q * k + j) = p * (q * k) + p * j
    BY <1>1, <1>4, <1>5
  <2> QED  BY <1>1, <1>2, <1>3, <1>4, <1>5, <2>1, <2>2
<1>7. v % p = r
  <2> DEFINE h == q * k + j
  <2>1. h \in Int /\ v = p * h + r
    BY <1>5, <1>6
  <2> HIDE DEF h
  <2> QED  BY <1>1, <1>4, <2>1, ResidueOf
<1> QED  BY <1>7 DEF Low, r, l, p, P

(* The integer a word stands for depends on its low bits alone, and is     *)
(* recovered when it fits.                                                 *)
LEMMA SignedOfLow ==
  ASSUME NEW v \in Int, NEW m \in Nat, NEW n \in 1 .. m
  PROVE  Signed(Low(v, m), n) = Signed(v, n)
<1>1. n \in 0 .. m
  OBVIOUS
<1> QED  BY <1>1, LowTwice DEF Signed

LEMMA SignedOfSmall ==
  ASSUME NEW n \in Nat \ {0}, NEW v \in -Half(n) .. Half(n) - 1
  PROVE  Signed(v, n) = v
<1> DEFINE p == 2^n
           h == Half(n)
<1>1. h \in Nat \ {0} /\ p = 2 * h /\ 2^(n - 1) = h
  <2>1. n - 1 \in Nat /\ (n - 1) + 1 = n
    OBVIOUS
  <2> QED  BY <2>1, PowerDoubles, PowerPositive DEF Half
<1>2. v \in Int /\ v \in -h .. h - 1
  BY <1>1
<1> HIDE DEF p, h
<1>3. CASE v >= 0
  <2>1. Low(v, n) = v
    <3>1. v \in 0 .. p - 1
      BY <1>1, <1>2, <1>3
    <3> QED  BY <3>1, LowOfSmall DEF p
  <2> QED  BY <1>1, <1>2, <2>1 DEF Signed
<1>4. CASE v < 0
  <2>1. p * (-1) + (v + p) = v /\ v + p \in 0 .. p - 1 /\ p \in Nat \ {0}
    BY <1>1, <1>2, <1>4
  <2>2. v % p = v + p
    <3> DEFINE r == v + p
    <3>1. r \in 0 .. p - 1 /\ p * (-1) + r = v
      BY <2>1
    <3> HIDE DEF r
    <3>2. (p * (-1) + r) % p = r
      BY <2>1, <3>1, ResidueOf
    <3> QED  BY <3>1, <3>2 DEF r
  <2>3. Low(v, n) = v + p /\ Low(v, n) - p = v
    BY <1>1, <1>2, <2>2 DEF Low, p
  <2> QED  BY <1>1, <1>2, <1>4, <2>3 DEF Signed, p
<1> QED  BY <1>2, <1>3, <1>4
LEMMA Congruent ==
  ASSUME NEW u \in Int, NEW k \in Int, NEW n \in Nat \ {0}
  PROVE  Low(u + 2^n * k, n) = Low(u, n) /\ Signed(u + 2^n * k, n) = Signed(u, n)
<1> DEFINE p == 2^n
           d == u \div p
           m == u % p
           v == u + p * k
<1>1. p \in Nat \ {0}
  BY PowerPositive
<1> HIDE DEF p
<1>2. d \in Int /\ m \in 0 .. p - 1 /\ u = p * d + m
  BY <1>1
<1> HIDE DEF d
<1>3. v = p * (d + k) + m /\ d + k \in Int
  <2> HIDE DEF m
  <2>1. p * (d + k) = p * d + p * k
    BY <1>1, <1>2
  <2> QED  BY <1>1, <1>2, <2>1
<1>4. v % p = m
  <2> DEFINE h == d + k
  <2>1. h \in Int /\ v = p * h + m
    BY <1>3
  <2> HIDE DEF h, v, m
  <2>2. (p * h + m) % p = m
    BY <1>1, <1>2, <2>1, ResidueOf
  <2> QED  BY <2>1, <2>2
<1>5. Low(v, n) = Low(u, n)
  BY <1>4 DEF Low, p, m
<1> QED  BY <1>5 DEF Signed, v, p

LEMMA SignedOffset ==
  ASSUME NEW n \in Nat \ {0}, NEW v \in 0 .. 2^n - 1
  PROVE  \E k \in {0, 1} : v = Signed(v, n) + 2^n * k
<1> DEFINE p == 2^n
<1>1. p \in Nat \ {0} /\ Low(v, n) = v
  BY PowerPositive, LowOfSmall
<1> HIDE DEF p
<1>2. Signed(v, n) \in {v, v - p}
  BY <1>1 DEF Signed, p
<1>3. v = v + p * 0 /\ v = (v - p) + p * 1
  BY <1>1, PowerPositive DEF p
<1>4. CASE Signed(v, n) = v
  BY <1>3, <1>4 DEF p
<1>5. CASE Signed(v, n) = v - p
  BY <1>3, <1>5 DEF p
<1> QED  BY <1>2, <1>4, <1>5

(* The sum of a word and an integer, taken modulo the width of the word,   *)
(* is that of the integer the word stands for.                             *)
LEMMA SignedSum ==
  ASSUME NEW n \in Nat \ {0}, NEW v \in 0 .. 2^n - 1, NEW z \in Int,
         Signed(v, n) + z \in -Half(n) .. Half(n) - 1
  PROVE  Signed(Low(v + z, n), n) = Signed(v, n) + z
<1> DEFINE s == Signed(v, n)
           p == 2^n
<1>0. p \in Nat /\ Half(n) \in Nat /\ n \in 1 .. n /\ v \in Int
  BY PowerPositive, HalfNat
<1>1. PICK k \in {0, 1} : v = s + p * k
  BY SignedOffset
<1>2. s \in Int /\ s + z \in Int
  BY <1>0, SignedInt
<1>3. v + z = (s + z) + p * k
  <2> HIDE DEF s, p
  <2> QED  BY <1>0, <1>1, <1>2
<1>4. Signed(Low(v + z, n), n) = Signed(v + z, n)
  BY <1>0, SignedOfLow
<1>5. Signed(v + z, n) = Signed(s + z, n)
  <2> DEFINE u == s + z
  <2>1. u \in Int /\ k \in Int /\ v + z = u + p * k
    BY <1>2, <1>3
  <2> HIDE DEF u
  <2>2. Signed(u + 2^n * k, n) = Signed(u, n)
    BY <2>1, Congruent
  <2> QED  BY <2>1, <2>2 DEF u, p
<1>6. Signed(s + z, n) = s + z
  <2> DEFINE u == s + z
  <2>1. u \in -Half(n) .. Half(n) - 1
    OBVIOUS
  <2> HIDE DEF u
  <2>2. Signed(u, n) = u
    BY <2>1, SignedOfSmall
  <2> QED  BY <2>2 DEF u
<1> QED  BY <1>4, <1>5, <1>6

(* The high half of a product. *)
LEMMA HighHalf ==
  ASSUME NEW z \in Int, NEW p \in Nat \ {0}
  PROVE  /\ z \div p \in Int
         /\ (z \div p) * p <= z /\ z < (z \div p + 1) * p
<1> DEFINE q == z \div p
           r == z % p
<1>1. q \in Int /\ r \in 0 .. p - 1 /\ z = p * q + r
  OBVIOUS
<1> HIDE DEF q, r
<1>2. q * p = p * q /\ (q + 1) * p = p * q + p /\ p * q \in Int
  BY <1>1
<1>3. q \in Int /\ q * p <= z /\ z < (q + 1) * p
  BY <1>1, <1>2
<1> QED  BY <1>3 DEF q

LEMMA HighRange ==
  ASSUME NEW p \in Nat \ {0}, NEW x \in 0 .. p - 1, NEW y \in 0 .. p - 1
  PROVE  (x * y) \div p \in 0 .. p - 1
<1> DEFINE z == x * y
           q == z \div p
<1>1. x * y \in Nat /\ x * y <= p * p - p
  <2>1. x * y <= x * p
    OBVIOUS
  <2>2. x * p \in 0 .. p * p - p
    BY Scaled
  <2> QED  BY <2>1, <2>2
<1> HIDE DEF z
<1>2. z \in Int
  BY <1>1 DEF z
<1>3. q \in Int /\ q * p <= z /\ z < (q + 1) * p
  BY <1>2, HighHalf
<1> HIDE DEF q
<1>4. q >= 0
  <2>1. CASE q + 1 <= 0
    <3>1. (q + 1) * p <= 0
      BY <1>3, <2>1
    <3> QED  BY <1>1, <1>3, <3>1 DEF z
  <2> QED  BY <1>3, <2>1
<1>5. q < p
  <2>1. CASE q >= p
    <3>1. q * p >= p * p
      BY <1>3, <2>1
    <3> QED  BY <1>1, <1>3, <3>1 DEF z
  <2> QED  BY <1>3, <2>1
<1> QED  BY <1>3, <1>4, <1>5 DEF q, z

LEMMA SignedHighRange ==
  ASSUME NEW h \in Nat \ {0}, NEW x \in -h .. h - 1, NEW y \in -h .. h - 1
  PROVE  (x * y) \div (2 * h) \in -h .. h - 1
<1> DEFINE z == x * y
           p == 2 * h
           q == z \div p
<1>1. z \in Int /\ -(h * h) <= z /\ z <= h * h
  <2>0. x \in Int /\ y \in Int /\ h * h \in Int
    OBVIOUS
  <2>1. (h - x) * (h + y) >= 0 /\ (h + x) * (h - y) >= 0
        /\ (h - x) * (h - y) >= 0 /\ (h + x) * (h + y) >= 0
    BY <2>0
  <2>2. /\ (h - x) * (h + y) = h * h + h * y - x * h - x * y
        /\ (h + x) * (h - y) = h * h - h * y + x * h - x * y
        /\ (h - x) * (h - y) = h * h - h * y - x * h + x * y
        /\ (h + x) * (h + y) = h * h + h * y + x * h + x * y
    BY <2>0
  <2>3. x * y \in Int /\ h * y \in Int /\ x * h \in Int
    BY <2>0
  <2> QED  BY <2>0, <2>1, <2>2, <2>3
<1> HIDE DEF z
<1>2. q \in Int /\ q * p <= z /\ z < (q + 1) * p
  <2>1. p \in Nat \ {0}
    OBVIOUS
  <2> HIDE DEF p
  <2> QED  BY <1>1, <2>1, HighHalf
<1> HIDE DEF q
<1>3. q * p = 2 * (q * h) /\ (q + 1) * p = 2 * (q * h) + 2 * h /\ q * h \in Int
  BY <1>2
<1>4. h * h >= 1 /\ h * h >= h
  OBVIOUS
<1>5. q < h
  <2>1. CASE q >= h
    <3>1. q * h >= h * h
      BY <1>2, <2>1
    <3> QED  BY <1>1, <1>2, <1>3, <1>4, <3>1
  <2> QED  BY <1>2, <2>1
<1>6. q >= -h
  <2>1. CASE q + 1 <= -h
    <3>1. (q + 1) * h <= (-h) * h
      BY <1>2, <2>1
    <3>2. (q + 1) * h = q * h + h /\ (-h) * h = -(h * h)
      BY <1>2
    <3> QED  BY <1>1, <1>2, <1>3, <1>4, <3>1, <3>2
  <2> QED  BY <1>2, <2>1
<1> QED  BY <1>2, <1>5, <1>6 DEF q, z

-----------------------------------------------------------------------------
(* The register an arm writes.                                             *)

LEMMA RegisterSet ==
  ASSUME NEW c \in CpuContext, NEW reg \in Registers, ~IsVec(reg), reg.n \in Regs,
         NEW w \in Int, NEW pc
  PROVE  LET d == [set_reg_val(reg, w, c) EXCEPT !.pc = pc]
         IN  /\ d.x[reg.n] = Low(w, Width(reg))
             /\ get_reg_val(reg, d) = Low(w, Width(reg))
<1> DEFINE n == Width(reg)
           s == set_reg_val(reg, w, c)
           d == [s EXCEPT !.pc = pc]
<1>1. reg # SP
  BY RegsAssumption DEF SP, X
<1>2. s = [c EXCEPT !.x[reg.n] = Low(w, n)]
  BY <1>1 DEF set_reg_val, set_x
<1>3. c.x \in [Regs -> XWord] /\ {"x", "pc"} \subseteq DOMAIN c
  BY DEF CpuContext
<1> HIDE DEF n
<1>4. d.x[reg.n] = Low(w, n)
  BY <1>2, <1>3
<1> HIDE DEF d
<1>5. get_reg_val(reg, d) = Low(Low(w, n), n)
  BY <1>1, <1>4 DEF get_reg_val, get_x, n
<1>6. Low(Low(w, n), n) = Low(w, n)
  <2>1. n \in Nat /\ n \in 0 .. n
    BY RegisterWidth DEF n
  <2> QED  BY <2>1, LowTwice
<1> QED  BY <1>4, <1>5, <1>6 DEF d, s, n

(* A data-processing instruction that completes has run its arm.           *)
LEMMA DataResult ==
  ASSUME TypeOK, step, NEW ops, ops \subseteq DataOps \ VectorOps, Completed(ops)
  PROVE  /\ ctx \in CpuContext /\ IsResolvedInst(Inst) /\ Inst.op \in ops
         /\ ctx' = [Execute(Inst, ctx) EXCEPT !.pc = NextPc] /\ ~DivisionPanics(Inst, ctx)
<1>1. Executes(ops) /\ ret' = "ok"
  BY DEF Completed
<1>2. ctx \in CpuContext /\ IsResolvedInst(Inst) /\ Inst.op \in ops
  BY <1>1, Executing
<1>3. Executes(DataOps) /\ ~OnVectors(Inst)
  BY <1>1, <1>2 DEF Executes, OnVectors
<1>4. Retire(Execute(Inst, ctx), mem, NextPc) /\ ~DivisionPanics(Inst, ctx)
  BY <1>1, <1>3, DataArm
<1> QED  BY <1>2, <1>4 DEF Retire

-----------------------------------------------------------------------------
(* Products. *)

SignedForms == {"SMULH", "SMULL", "SMADDL", "SMSUBL"}

LEMMA WideFactor ==
  ASSUME NEW c \in CpuContext, NEW i, IsResolvedInst(i), i.op \in WideOps, NEW k \in 1 .. Len(i.ops)
  PROVE  LET n == IF i.op \in {"UMULH", "SMULH"} THEN XBits ELSE WBits
         IN  Factor(i, k, c) = IntegerOf(get_operand_val(i.ops[k], c), n, i.op \in SignedForms)
<1> DEFINE v == get_operand_val(i.ops[k], c)
           n == IF i.op \in {"UMULH", "SMULH"} THEN XBits ELSE WBits
<1>1. v \in XWord /\ v \in Int
  BY Inputs
<1>2. Low(v, XBits) = v
  <2>1. v \in 0 .. 2^XBits - 1 /\ XBits \in Nat
    BY <1>1, Widths DEF XWord
  <2> HIDE DEF v
  <2> QED  BY <2>1, LowOfSmall
<1> HIDE DEF v
<1>4. Factor(i, k, c) = CASE i.op \in {"MUL", "UMULH"} -> v
                          [] i.op = "SMULH" -> Signed(v, XBits)
                          [] i.op \in {"MADD", "MSUB", "MNEG"} -> Low(v, Width(Rd(i)))
                          [] i.op \in {"UMULL", "UMADDL", "UMSUBL"} -> Low(v, WBits)
                          [] i.op \in {"SMULL", "SMADDL", "SMSUBL"} -> Signed(v, WBits)
  BY DEF Factor, v
<1>5. Factor(i, k, c) = IntegerOf(v, n, i.op \in SignedForms)
  BY <1>2, <1>4 DEF IntegerOf, SignedForms, WideOps
<1> QED  BY <1>5 DEF v, n

LEMMA IntegerRange ==
  ASSUME NEW v \in Int, NEW n \in Nat \ {0}
  PROVE  /\ IntegerOf(v, n, TRUE) \in -Half(n) .. Half(n) - 1 /\ IntegerOf(v, n, FALSE) \in 0 .. 2^n - 1
         /\ \A signed \in BOOLEAN : IntegerOf(v, n, signed) \in Int
<1>1. Low(v, n) \in 0 .. 2^n - 1
  BY LowRange
<1>2. Low(v, n) \in Int /\ 2^n \in Int /\ Half(n) \in Int
  BY <1>1, PowerNat, HalfNat
<1>3. Signed(v, n) \in -Half(n) .. Half(n) - 1
  BY <1>2, SignedRange DEF Half
<1> QED  BY <1>1, <1>2, <1>3 DEF IntegerOf

(* What a word of X bits stands for. *)
LEMMA IntegerBack ==
  ASSUME NEW n \in Nat \ {0}, NEW signed \in BOOLEAN,
         NEW v \in IF signed THEN -Half(n) .. Half(n) - 1 ELSE 0 .. 2^n - 1
  PROVE  IntegerOf(v, n, signed) = v
<1>1. Half(n) \in Int /\ 2^n \in Int
  BY HalfNat, PowerNat
<1>2. v \in Int /\ n \in Nat
  BY <1>1
<1>3. CASE signed
  BY <1>2, <1>3, SignedOfSmall DEF IntegerOf
<1>4. CASE ~signed
  BY <1>2, <1>4, LowOfSmall DEF IntegerOf
<1> QED  BY <1>3, <1>4

LEMMA IntegerOfLow ==
  ASSUME NEW v \in Int, NEW n \in Nat \ {0}, NEW signed \in BOOLEAN
  PROVE  IntegerOf(Low(v, n), n, signed) = IntegerOf(v, n, signed)
<1>1. n \in Nat /\ n \in 1 .. n /\ n \in 0 .. n
  OBVIOUS
<1> QED  BY <1>1, SignedOfLow, LowTwice DEF IntegerOf

(* The result of a long form, when it fits.                                *)
LEMMA IntegerSum ==
  ASSUME NEW n \in Nat \ {0}, NEW signed \in BOOLEAN, NEW v \in 0 .. 2^n - 1, NEW z \in Int,
         IntegerOf(v, n, signed) + z \in IF signed THEN -Half(n) .. Half(n) - 1 ELSE 0 .. 2^n - 1
  PROVE  IntegerOf(v + z, n, signed) = IntegerOf(v, n, signed) + z
<1>0. v \in Int /\ n \in 1 .. n /\ n \in Nat /\ v + z \in Int
  BY PowerNat
<1>1. Low(v, n) = v
  BY <1>0, LowOfSmall
<1>2. CASE signed
  <2>1. Signed(v, n) + z \in -Half(n) .. Half(n) - 1
    BY <1>1, <1>2 DEF IntegerOf
  <2>2. Signed(Low(v + z, n), n) = Signed(v + z, n)
    <3> DEFINE u == v + z
    <3> HIDE DEF u
    <3> QED  BY <1>0, SignedOfLow DEF u
  <2> QED  BY <1>1, <1>2, <2>1, <2>2, SignedSum DEF IntegerOf
<1>3. CASE ~signed
  <2> DEFINE u == v + z
  <2>1. u \in 0 .. 2^n - 1
    BY <1>1, <1>3 DEF IntegerOf
  <2> HIDE DEF u
  <2>2. Low(u, n) = u
    BY <1>0, <2>1, LowOfSmall
  <2> QED  BY <1>1, <1>3, <2>2 DEF IntegerOf, u
<1> QED  BY <1>2, <1>3

LEMMA WideProduct ==
  ASSUME NEW c \in CpuContext, NEW i, IsResolvedInst(i), i.op \in WideOps,
         ~IsVec(Rd(i)), Rd(i).n \in Regs, NEW pc
  PROVE  LET signed == i.op \in SignedForms
             n == IF i.op \in {"UMULH", "SMULH"} THEN XBits ELSE WBits
             z == IntegerOf(get_operand_val(i.ops[2], c), n, signed)
                  * IntegerOf(get_operand_val(i.ops[3], c), n, signed)
             addend == IF Len(i.ops) >= 4 THEN get_operand_val(i.ops[4], c) ELSE 0
             P == Product(i.op, z, addend)
         IN  /\ P \in Int
             /\ get_reg_val(Rd(i), [Execute(i, c) EXCEPT !.pc = pc]) = Low(P, XBits)
<1> DEFINE signed == i.op \in SignedForms
           n == IF i.op \in {"UMULH", "SMULH"} THEN XBits ELSE WBits
           x == IntegerOf(get_operand_val(i.ops[2], c), n, signed)
           y == IntegerOf(get_operand_val(i.ops[3], c), n, signed)
           addend == IF Len(i.ops) >= 4 THEN get_operand_val(i.ops[4], c) ELSE 0
           P == Product(i.op, x * y, addend)
<1>1. /\ i.op \in MultiplyOps /\ i.op \in TernaryOps /\ i.op \in BinaryOps
      /\ Rd(i) \in Registers /\ ~Rd(i).w
  <2>1. i.op \in MultiplyOps /\ i.op \in TernaryOps
    BY DEF WideOps, MultiplyOps, TernaryOps
  <2>2. i.op \in DataOps \ (Comparing \cup CompareIfOps \cup NoOps \cup {"MSR"})
    BY DEF WideOps, DataOps, MultiplyOps, Comparing, CompareIfOps, NoOps
  <2> QED  BY <2>1, <2>2, Destination DEF IsResolvedInst, IsInstruction
<1>2. /\ get_operand_val(i.ops[2], c) \in Int /\ get_operand_val(i.ops[3], c) \in Int
      /\ 2 \in 1 .. Len(i.ops) /\ 3 \in 1 .. Len(i.ops) /\ addend \in Int
  BY <1>1, Inputs
<1>3. Factor(i, 2, c) = x /\ Factor(i, 3, c) = y
  BY <1>2, WideFactor
<1>4. x \in Int /\ y \in Int
  BY <1>1, <1>2, <1>3, FactorInt
<1>5. Execute(i, c) = Multiply(i, c)
  BY <1>1, Arms
<1>6. Multiply(i, c) = set_reg_val(Rd(i), Wrap(P), c)
  BY <1>3 DEF Multiply
<1>7. P \in Int
  <2> DEFINE z == x * y
  <2>1. z \in Int
    <3> HIDE DEF x, y
    <3> QED  BY <1>4
  <2> HIDE DEF z, addend
  <2>2. z \div 2^XBits \in Int
    BY <2>1, Widths, DivInt
  <2>3. Product(i.op, z, addend) \in {z, z \div 2^XBits, -z, addend + z, addend - z}
    BY <1>1 DEF Product, MultiplyOps
  <2>4. Product(i.op, z, addend) \in Int
    BY <1>2, <2>1, <2>2, <2>3
  <2> QED  BY <2>4 DEF z
<1>8. Width(Rd(i)) = XBits /\ XBits \in Nat /\ XBits \in 0 .. XBits
  BY <1>1, Widths DEF Width, is_w_reg
<1> HIDE DEF P
<1>9. Low(Wrap(P), XBits) = Low(P, XBits) /\ Wrap(P) \in Int
  <2>1. Wrap(P) \in Int
    BY <1>7, <1>8, LowNat DEF Wrap
  <2> QED  BY <1>7, <1>8, <2>1, LowTwice DEF Wrap
<1>10. get_reg_val(Rd(i), [Execute(i, c) EXCEPT !.pc = pc]) = Low(P, XBits)
  BY <1>1, <1>5, <1>6, <1>8, <1>9, RegisterSet
<1> QED  BY <1>7, <1>10 DEF P

LEMMA HighExact ==
  ASSUME NEW c \in CpuContext, NEW i, IsResolvedInst(i), i.op \in {"UMULH", "SMULH"},
         ~IsVec(Rd(i)), Rd(i).n \in Regs, NEW pc
  PROVE  LET signed == i.op \in SignedForms
             product == IntegerOf(get_operand_val(i.ops[2], c), XBits, signed)
                        * IntegerOf(get_operand_val(i.ops[3], c), XBits, signed)
             v == get_reg_val(Rd(i), [Execute(i, c) EXCEPT !.pc = pc])
             res == IntegerOf(v, XBits, signed)
         IN  res * 2^XBits <= product /\ product < (res + 1) * 2^XBits
<1> DEFINE signed == i.op \in SignedForms
           v2 == get_operand_val(i.ops[2], c)
           v3 == get_operand_val(i.ops[3], c)
           x == IntegerOf(v2, XBits, signed)
           y == IntegerOf(v3, XBits, signed)
           z == x * y
           q == z \div 2^XBits
           v == get_reg_val(Rd(i), [Execute(i, c) EXCEPT !.pc = pc])
           res == IntegerOf(v, XBits, signed)
<1>1. i.op \in WideOps /\ i.op \in BinaryOps /\ i.op \in TernaryOps
  <2>1. i.op \in WideOps /\ i.op \in TernaryOps
    BY DEF WideOps, MultiplyOps, TernaryOps
  <2>2. i.op \in BinaryOps
    BY DEF BinaryOps, DataOps, MultiplyOps, NoOps
  <2> QED  BY <2>1, <2>2
<1>2. v2 \in Int /\ v3 \in Int
  BY <1>1, Inputs
<1>3. /\ XBits \in Nat \ {0} /\ XBits \in Nat /\ 2^XBits \in Nat \ {0} /\ signed \in BOOLEAN
      /\ Half(XBits) \in Nat \ {0} /\ 2 * Half(XBits) = 2^XBits
  BY Widths, PowerPositive, HalfNat
<1>4. v = Low(q, XBits)
  <2>1. v = Low(Product(i.op, z, IF Len(i.ops) >= 4 THEN get_operand_val(i.ops[4], c) ELSE 0), XBits)
    BY <1>1, WideProduct
  <2> HIDE DEF z, v
  <2> QED  BY <2>1 DEF Product
<1>5. x \in (IF signed THEN -Half(XBits) .. Half(XBits) - 1 ELSE 0 .. 2^XBits - 1)
      /\ y \in (IF signed THEN -Half(XBits) .. Half(XBits) - 1 ELSE 0 .. 2^XBits - 1)
  <2> HIDE DEF v2, v3
  <2>1. CASE signed
    BY <1>2, <1>3, <2>1, IntegerRange
  <2>2. CASE ~signed
    BY <1>2, <1>3, <2>2, IntegerRange
  <2> QED  BY <2>1, <2>2
<1> HIDE DEF x, y, v
<1>6. q \in IF signed THEN -Half(XBits) .. Half(XBits) - 1 ELSE 0 .. 2^XBits - 1
  <2>1. CASE signed
    BY <1>3, <1>5, <2>1, SignedHighRange
  <2>2. CASE ~signed
    BY <1>3, <1>5, <2>2, HighRange
  <2> QED  BY <2>1, <2>2
<1>7. z \in Int
  <2>1. x \in Int /\ y \in Int
    BY <1>3, <1>5
  <2> QED  BY <2>1
<1> HIDE DEF z
<1>8. q * 2^XBits <= z /\ z < (q + 1) * 2^XBits
  BY <1>3, <1>7, HighHalf
<1> HIDE DEF q, signed
<1>9. IntegerOf(q, XBits, signed) = q
  BY <1>3, <1>6, IntegerBack
<1>10. res = q
  <2>1. q \in Int
    BY <1>3, <1>6
  <2> QED  BY <1>3, <1>4, <1>9, <2>1, IntegerOfLow
<1> HIDE DEF res
<1>11. res * 2^XBits <= z /\ z < (res + 1) * 2^XBits
  BY <1>8, <1>10
<1> QED  BY <1>11 DEF res, z, x, y, v, v2, v3, signed

LEMMA LongExact ==
  ASSUME NEW c \in CpuContext, NEW i, IsResolvedInst(i),
         i.op \in {"SMULL", "UMULL", "SMADDL", "UMADDL", "SMSUBL", "UMSUBL"},
         ~IsVec(Rd(i)), Rd(i).n \in Regs, NEW pc,
         NEW total,
         LET signed == i.op \in SignedForms
             product == IntegerOf(get_operand_val(i.ops[2], c), WBits, signed)
                        * IntegerOf(get_operand_val(i.ops[3], c), WBits, signed)
             w == IntegerOf(get_operand_val(i.ops[4], c), XBits, signed)
         IN  /\ total = CASE i.op \in {"SMULL", "UMULL"} -> product
                          [] i.op \in {"SMADDL", "UMADDL"} -> w + product
                          [] i.op \in {"SMSUBL", "UMSUBL"} -> w - product
             /\ total \in IF signed THEN -Half(XBits) .. Half(XBits) - 1 ELSE XWord
  PROVE  LET v == get_reg_val(Rd(i), [Execute(i, c) EXCEPT !.pc = pc])
         IN  IntegerOf(v, XBits, i.op \in SignedForms) = total
<1> DEFINE signed == i.op \in SignedForms
           v2 == get_operand_val(i.ops[2], c)
           v3 == get_operand_val(i.ops[3], c)
           v4 == get_operand_val(i.ops[4], c)
           addend == IF Len(i.ops) >= 4 THEN v4 ELSE 0
           x == IntegerOf(v2, WBits, signed)
           y == IntegerOf(v3, WBits, signed)
           z == x * y
           P == Product(i.op, z, addend)
           w == IntegerOf(v4, XBits, signed)
           v == get_reg_val(Rd(i), [Execute(i, c) EXCEPT !.pc = pc])
<1>1. /\ i.op \in WideOps /\ i.op \in BinaryOps /\ i.op \in TernaryOps
      /\ i.op \notin {"SMULL", "UMULL"} => i.op \in QuaternaryOps
  <2>1. i.op \in WideOps /\ i.op \in TernaryOps
    BY DEF WideOps, MultiplyOps, TernaryOps
  <2>2. i.op \in BinaryOps
    BY DEF BinaryOps, DataOps, MultiplyOps, NoOps
  <2>3. i.op \notin {"SMULL", "UMULL"} => i.op \in QuaternaryOps
    BY DEF QuaternaryOps
  <2> QED  BY <2>1, <2>2, <2>3
<1>2. /\ v2 \in Int /\ v3 \in Int
      /\ i.op \notin {"SMULL", "UMULL"} => v4 \in XWord /\ addend = v4
  BY <1>1, Inputs
<1>3. XBits \in Nat \ {0} /\ WBits \in Nat \ {0} /\ signed \in BOOLEAN
  BY Widths
<1>4. v = Low(P, XBits) /\ P \in Int
  BY <1>1, WideProduct
<1>5. z \in Int
  <2> HIDE DEF v2, v3
  <2>1. x \in Int /\ y \in Int
    BY <1>2, <1>3, IntegerRange
  <2> HIDE DEF x, y
  <2> QED  BY <2>1
<1> HIDE DEF z, addend, v
<1>6. /\ i.op \in {"SMULL", "UMULL"} => P = z /\ total = z
      /\ i.op \in {"SMADDL", "UMADDL"} => P = v4 + z /\ total = w + z
      /\ i.op \in {"SMSUBL", "UMSUBL"} => P = v4 - z /\ total = w - z
  <2>1. total = CASE i.op \in {"SMULL", "UMULL"} -> z
                  [] i.op \in {"SMADDL", "UMADDL"} -> w + z
                  [] i.op \in {"SMSUBL", "UMSUBL"} -> w - z
    BY DEF z
  <2> HIDE DEF w, v4
  <2> QED  BY <1>2, <2>1 DEF Product
<1>7. total \in IF signed THEN -Half(XBits) .. Half(XBits) - 1 ELSE 0 .. 2^XBits - 1
  BY DEF XWord
<1> HIDE DEF v4, P, signed
<1>8. IntegerOf(P, XBits, signed) = total
  <2>1. CASE i.op \in {"SMULL", "UMULL"}
    <3>1. IntegerOf(total, XBits, signed) = total
      BY <1>3, <1>7, IntegerBack
    <3> QED  BY <1>6, <2>1, <3>1
  <2>2. ASSUME NEW u \in Int, P = v4 + u, total = w + u, v4 \in XWord
        PROVE  IntegerOf(P, XBits, signed) = total
    <3>1. v4 \in 0 .. 2^XBits - 1
      BY <2>2 DEF XWord
    <3>2. IntegerOf(v4 + u, XBits, signed) = IntegerOf(v4, XBits, signed) + u
      BY <1>3, <1>7, <2>2, <3>1, IntegerSum
    <3> QED  BY <2>2, <3>2
  <2>3. CASE i.op \in {"SMADDL", "UMADDL"}
    BY <1>2, <1>5, <1>6, <2>2, <2>3
  <2>4. CASE i.op \in {"SMSUBL", "UMSUBL"}
    <3>1. -z \in Int /\ v4 \in XWord /\ v4 \in Int /\ w \in Int
      <4>1. v4 \in XWord /\ v4 \in Int
        BY <1>2, <2>4, WordNat
      <4>2. w \in Int
        BY <1>3, <4>1, IntegerRange
      <4> QED  BY <1>5, <4>1, <4>2
    <3>2. P = v4 + (-z) /\ total = w + (-z)
      <4> HIDE DEF w
      <4> QED  BY <1>5, <1>6, <2>4, <3>1
    <3> QED  BY <2>2, <3>1, <3>2
  <2> QED  BY <2>1, <2>3, <2>4
<1>9. IntegerOf(v, XBits, signed) = total
  BY <1>3, <1>4, <1>8, IntegerOfLow
<1> QED  BY <1>9 DEF v, signed

(* The high half, and a long sum that fits, are those of the product of    *)
(* the integers the factors stand for, whatever registers are named (the   *)
(* UMULH to UMSUBL arms).                                                  *)
THEOREM ProductsAlwaysExact == Spec => ProductsExact
<1>1. ASSUME TypeOK, [step]_vars PROVE [ProductRight]_vars
  <2> DEFINE signed == Inst.op \in {"SMULH", "SMULL", "SMADDL", "SMSUBL"}
             n == IF Inst.op \in {"UMULH", "SMULH"} THEN XBits ELSE WBits
             product == IntegerOf(Target(2), n, signed) * IntegerOf(Target(3), n, signed)
             addend == IntegerOf(Target(4), XBits, signed)
             res == IntegerOf(get_reg_val(Rd(Inst), ctx'), XBits, signed)
             total == CASE Inst.op \in {"SMULL", "UMULL"} -> product
                        [] Inst.op \in {"SMADDL", "UMADDL"} -> addend + product
                        [] Inst.op \in {"SMSUBL", "UMSUBL"} -> addend - product
  <2> SUFFICES ASSUME step, Completed(WideOps), ~IsVec(Rd(Inst)), Rd(Inst).n \in Regs
               PROVE  IF Inst.op \in {"UMULH", "SMULH"}
                      THEN res * 2^XBits <= product /\ product < (res + 1) * 2^XBits
                      ELSE total \in (IF signed THEN -Half(XBits) .. Half(XBits) - 1 ELSE XWord)
                           => res = total
    BY <1>1 DEF ProductRight
  <2>1. signed = (Inst.op \in SignedForms)
    BY DEF SignedForms
  <2>2. /\ ctx \in CpuContext /\ IsResolvedInst(Inst) /\ Inst.op \in WideOps
        /\ ctx' = [Execute(Inst, ctx) EXCEPT !.pc = NextPc]
    <3>1. WideOps \subseteq DataOps \ VectorOps
      BY DEF WideOps, DataOps, MultiplyOps, VectorOps, LaneOps, LaneShiftOps, FillOps, WordShiftOps, BitOps,
         ByteOps, PairOps, ReduceOps, ZipOps, NarrowOps, WidthOps, MoveLaneOps
    <3> QED  BY <1>1, <3>1, DataResult
  <2>3. ASSUME Inst.op \in {"UMULH", "SMULH"}
        PROVE  res * 2^XBits <= product /\ product < (res + 1) * 2^XBits
    <3>1. /\ ctx \in CpuContext /\ IsResolvedInst(Inst) /\ Inst.op \in {"UMULH", "SMULH"}
          /\ ctx' = [Execute(Inst, ctx) EXCEPT !.pc = NextPc]
      BY <2>2, <2>3
    <3>2. n = XBits
      BY <3>1
    <3> HIDE DEF signed, n
    <3> QED  BY <2>1, <3>1, <3>2, HighExact DEF Target
  <2>4. ASSUME Inst.op \notin {"UMULH", "SMULH"},
               total \in (IF signed THEN -Half(XBits) .. Half(XBits) - 1 ELSE XWord)
        PROVE  res = total
    <3>1. /\ ctx \in CpuContext /\ IsResolvedInst(Inst)
          /\ Inst.op \in {"SMULL", "UMULL", "SMADDL", "UMADDL", "SMSUBL", "UMSUBL"}
          /\ ctx' = [Execute(Inst, ctx) EXCEPT !.pc = NextPc]
      BY <2>2, <2>4 DEF WideOps
    <3>2. n = WBits
      BY <3>1
    <3> HIDE DEF signed, n
    <3> DEFINE t == total
    <3>3. /\ t = CASE Inst.op \in {"SMULL", "UMULL"} -> product
                   [] Inst.op \in {"SMADDL", "UMADDL"} -> addend + product
                   [] Inst.op \in {"SMSUBL", "UMSUBL"} -> addend - product
          /\ t \in IF signed THEN -Half(XBits) .. Half(XBits) - 1 ELSE XWord
      BY <2>4
    <3> HIDE DEF t
    <3>4. LET s == Inst.op \in SignedForms
              p == IntegerOf(Target(2), WBits, s) * IntegerOf(Target(3), WBits, s)
              a == IntegerOf(Target(4), XBits, s)
          IN  /\ t = CASE Inst.op \in {"SMULL", "UMULL"} -> p
                       [] Inst.op \in {"SMADDL", "UMADDL"} -> a + p
                       [] Inst.op \in {"SMSUBL", "UMSUBL"} -> a - p
              /\ t \in IF s THEN -Half(XBits) .. Half(XBits) - 1 ELSE XWord
      BY <2>1, <3>2, <3>3
    <3>5. LET v == get_reg_val(Rd(Inst), [Execute(Inst, ctx) EXCEPT !.pc = NextPc])
          IN  IntegerOf(v, XBits, Inst.op \in SignedForms) = t
      BY <3>1, <3>4, LongExact, ZenonT(60) DEF Target
    <3> QED  BY <2>1, <3>1, <3>5 DEF t
  <2> QED  BY <2>3, <2>4
<1> QED  BY <1>1, InterpreterTyped, PTL DEF Spec, ProductsExact

-----------------------------------------------------------------------------
(* Quotients. *)

LEMMA QuotientExact ==
  ASSUME NEW a \in Int, NEW b \in Int \ {0}
  PROVE  LET r == a - b * Quotient(a, b)
         IN  AbsOf(r) < AbsOf(b) /\ (r = 0 \/ (r < 0) = (a < 0))
<1> DEFINE A == AbsOf(a)
           B == AbsOf(b)
           k == A \div B
           m == A % B
           q == Quotient(a, b)
           p == b * q
           r == a - p
<1>1. A \in Nat /\ B \in Nat \ {0} /\ A \in {a, -a} /\ B \in {b, -b}
      /\ (a < 0 => A = -a) /\ (~(a < 0) => A = a) /\ (b < 0 => B = -b) /\ (~(b < 0) => B = b)
  BY DEF AbsOf
<1>2. q = IF (a < 0) = (b < 0) THEN k ELSE -k
  BY DEF Quotient
<1> HIDE DEF A, B, q
<1>3. k \in Int /\ m \in 0 .. B - 1 /\ A = B * k + m
  BY <1>1
<1> HIDE DEF k, m
<1>4. (-B) * k = -(B * k) /\ B * (-k) = -(B * k) /\ (-B) * (-k) = B * k /\ B * k \in Int
  BY <1>1, <1>3
<1>5. p = IF a < 0 THEN -(B * k) ELSE B * k
  <2>1. CASE a < 0 /\ b < 0
    <3>1. b = -B /\ q = k
      BY <1>1, <1>2, <2>1
    <3> QED  BY <1>4, <2>1, <3>1
  <2>2. CASE a < 0 /\ ~(b < 0)
    <3>1. b = B /\ q = -k
      BY <1>1, <1>2, <2>2
    <3> QED  BY <1>4, <2>2, <3>1
  <2>3. CASE ~(a < 0) /\ b < 0
    <3>1. b = -B /\ q = -k
      BY <1>1, <1>2, <2>3
    <3> QED  BY <1>4, <2>3, <3>1
  <2>4. CASE ~(a < 0) /\ ~(b < 0)
    <3>1. b = B /\ q = k
      BY <1>1, <1>2, <2>4
    <3> QED  BY <1>4, <2>4, <3>1
  <2> QED  BY <2>1, <2>2, <2>3, <2>4
<1> HIDE DEF p
<1>6. r = IF a < 0 THEN -m ELSE m
  BY <1>1, <1>3, <1>4, <1>5
<1> HIDE DEF r
<1>7. AbsOf(r) < B /\ (r = 0 \/ (r < 0) = (a < 0))
  BY <1>1, <1>3, <1>6 DEF AbsOf
<1> QED  BY <1>7 DEF r, p, q, B

LEMMA QuotientRange ==
  ASSUME NEW h \in Nat \ {0}, NEW a \in -h .. h - 1, NEW b \in (-h .. h - 1) \ {0}, ~(a = -h /\ b = -1)
  PROVE  Quotient(a, b) \in -h .. h - 1
<1> DEFINE A == AbsOf(a)
           B == AbsOf(b)
           k == A \div B
<1>1. /\ A \in Nat /\ B \in Nat \ {0} /\ A <= h /\ (A = h => a = -h) /\ a \in Int /\ b \in Int
      /\ B = 1 => b = 1 \/ b = -1
  BY DEF AbsOf
<1>2. Quotient(a, b) = IF (a < 0) = (b < 0) THEN k ELSE -k
  BY DEF Quotient
<1> HIDE DEF A, B
<1>3. k \in Nat /\ B * k <= A
  BY <1>1
<1>4. B = 1 => k = A
  BY <1>1
<1> HIDE DEF k
<1>5. CASE B = 1
  BY <1>1, <1>2, <1>4, <1>5
<1>6. CASE B # 1
  <2>1. 2 * k <= B * k
    BY <1>1, <1>3, <1>6
  <2>2. B * k \in Int
    BY <1>1, <1>3
  <2>3. k < h
    BY <1>1, <1>3, <2>1, <2>2
  <2> QED  BY <1>2, <1>3, <2>3
<1> QED  BY <1>5, <1>6

(* The operands of a division as integers. *)
LEMMA DivisionOperands ==
  ASSUME NEW c \in CpuContext, NEW i, IsResolvedInst(i), i.op \in DivideOps
  PROVE  LET n == Width(Rd(i))
         IN  /\ Dividend(i, c) \in 0 .. 2^n - 1 /\ Divisor(i, c) \in 0 .. 2^n - 1
             /\ Rd(i) \in Registers
<1>1. Rd(i) \in Registers /\ i.op \in BinaryOps /\ i.op \in TernaryOps
  BY Destination DEF DataOps, DivideOps, Comparing, CompareIfOps, NoOps, TernaryOps
<1>2. get_operand_val(i.ops[2], c) \in Int /\ get_operand_val(i.ops[3], c) \in Int
  BY <1>1, Inputs
<1>3. Width(Rd(i)) \in Nat
  BY RegisterWidth
<1> QED  BY <1>1, <1>2, <1>3, LowRange DEF Dividend, Divisor

LEMMA SignedCases ==
  ASSUME NEW n \in Nat \ {0}, NEW v \in 0 .. 2^n - 1
  PROVE  /\ Signed(v, n) \in -Half(n) .. Half(n) - 1 /\ Half(n) \in Nat \ {0}
         /\ Signed(v, n) = 0 <=> v = 0
         /\ Signed(v, n) = -Half(n) <=> v = Half(n)
         /\ Signed(v, n) = -1 => v = Ones(n)
<1> DEFINE p == 2^n
           h == Half(n)
<1>1. n \in Nat /\ v \in Int /\ p \in Nat \ {0} /\ h \in Nat \ {0} /\ p = 2 * h
  BY PowerPositive, HalfNat
<1>2. Low(v, n) = v
  BY <1>1, LowOfSmall
<1>3. Signed(v, n) = IF v >= h THEN v - p ELSE v
  BY <1>2 DEF Signed, Half
<1>4. Ones(n) = p - 1 /\ v \in 0 .. p - 1
  BY DEF Ones
<1> HIDE DEF p, h
<1>5. /\ Signed(v, n) \in -h .. h - 1
      /\ Signed(v, n) = 0 <=> v = 0
      /\ Signed(v, n) = -h <=> v = h
      /\ Signed(v, n) = -1 => v = p - 1
  BY <1>1, <1>3, <1>4
<1> QED  BY <1>1, <1>4, <1>5 DEF h

LEMMA DivideExact ==
  ASSUME NEW c \in CpuContext, NEW i, IsResolvedInst(i), i.op \in DivideOps,
         ~IsVec(Rd(i)), Rd(i).n \in Regs, ~DivisionPanics(i, c), NEW pc
  PROVE  LET n == Width(Rd(i))
             signed == i.op = "SDIV"
             a == IntegerOf(Dividend(i, c), n, signed)
             b == IntegerOf(Divisor(i, c), n, signed)
             q == IntegerOf(get_reg_val(Rd(i), [Execute(i, c) EXCEPT !.pc = pc]), n, signed)
             r == a - b * q
         IN  IF b = 0 THEN q = 0 ELSE AbsOf(r) < AbsOf(b) /\ (r = 0 \/ (r < 0) = (a < 0))
<1> DEFINE n == Width(Rd(i))
           signed == i.op = "SDIV"
           u == Dividend(i, c)
           d == Divisor(i, c)
           a == IntegerOf(u, n, signed)
           b == IntegerOf(d, n, signed)
           quo == Quotient(a, b)
           res == CASE d = 0 -> 0
                    [] d # 0 /\ i.op = "UDIV" -> u \div d
                    [] d # 0 /\ i.op = "SDIV" -> Low(Quotient(Signed(u, n), Signed(d, n)), n)
           v == get_reg_val(Rd(i), [Execute(i, c) EXCEPT !.pc = pc])
           q == IntegerOf(v, n, signed)
<1>1. /\ u \in 0 .. 2^n - 1 /\ d \in 0 .. 2^n - 1 /\ Rd(i) \in Registers
      /\ n \in Nat \ {0} /\ n \in Nat /\ 2^n \in Nat \ {0}
  BY DivisionOperands, RegisterWidth, PowerPositive
<1>2. Execute(i, c) = set_reg_val(Rd(i), res, c)
  BY Arms DEF Divide
<1>3. i.op \in {"UDIV", "SDIV"} /\ signed \in BOOLEAN /\ (~signed => i.op = "UDIV")
  BY DEF DivideOps
<1>4. signed => ~(u = Half(n) /\ d = Ones(n))
  BY DEF DivisionPanics
<1>5. v = Low(res, n) \/ res \notin Int
  <2> HIDE DEF res
  <2> QED  BY <1>1, <1>2, RegisterSet
<1> HIDE DEF n, u, d, v
<1>6. u \in Nat /\ d \in Nat
  BY <1>1
<1>7. CASE d = 0
  <2>1. b = 0
    <3>1. CASE signed
      BY <1>1, <1>7, <3>1, SignedCases DEF IntegerOf
    <3>2. CASE ~signed
      BY <1>1, <1>7, <3>2, LowOfSmall DEF IntegerOf
    <3> QED  BY <3>1, <3>2
  <2>2. v = Low(0, n)
    BY <1>5, <1>7
  <2>3. Low(0, n) = 0
    <3>1. 0 \in 0 .. 2^n - 1
      BY <1>1
    <3> QED  BY <1>1, <3>1, LowOfSmall
  <2>4. IntegerOf(0, n, signed) = 0
    <3>1. 0 \in 0 .. 2^n - 1
      BY <1>1
    <3>2. Signed(0, n) = 0
      BY <1>1, <3>1, SignedCases
    <3> QED  BY <2>3, <3>2 DEF IntegerOf
  <2>5. q = 0
    BY <2>2, <2>3, <2>4
  <2> QED  BY <2>1, <2>5 DEF n, u, d, v
<1>8. CASE d # 0
  <2>1. a \in Int /\ b \in Int \ {0}
    <3>1. CASE signed
      <4>1. Signed(u, n) \in Int /\ Signed(d, n) \in Int /\ Signed(d, n) # 0
        BY <1>1, <1>6, <1>8, SignedCases, SignedInt
      <4> QED  BY <3>1, <4>1 DEF IntegerOf
    <3>2. CASE ~signed
      BY <1>1, <1>6, <1>8, <3>2, LowOfSmall DEF IntegerOf
    <3> QED  BY <3>1, <3>2
  <2>2. v = Low(quo, n) /\ quo \in (IF signed THEN -Half(n) .. Half(n) - 1 ELSE 0 .. 2^n - 1)
    <3>1. CASE signed
      <4>1. a = Signed(u, n) /\ b = Signed(d, n)
        BY <3>1 DEF IntegerOf
      <4>2. quo \in -Half(n) .. Half(n) - 1
        <5>1. /\ a \in -Half(n) .. Half(n) - 1 /\ b \in -Half(n) .. Half(n) - 1 /\ b # 0
              /\ Half(n) \in Nat \ {0} /\ ~(a = -Half(n) /\ b = -1)
          <6>1. /\ Signed(u, n) \in -Half(n) .. Half(n) - 1 /\ Half(n) \in Nat \ {0}
                /\ Signed(u, n) = -Half(n) <=> u = Half(n)
            BY <1>1, SignedCases
          <6>2. Signed(d, n) \in -Half(n) .. Half(n) - 1 /\ (Signed(d, n) = -1 => d = Ones(n))
            BY <1>1, SignedCases
          <6> QED  BY <1>4, <2>1, <3>1, <4>1, <6>1, <6>2
        <5> HIDE DEF a, b
        <5> QED  BY <5>1, QuotientRange
      <4>3. quo \in Int /\ res = Low(quo, n)
        <5>1. res = Low(quo, n)
          BY <1>8, <3>1, <4>1
        <5>2. quo \in Int
          BY <2>1, QuotientInt
        <5> QED  BY <5>1, <5>2
      <4> HIDE DEF quo, res
      <4>4. Low(quo, n) \in Int /\ Low(Low(quo, n), n) = Low(quo, n)
        <5>1. n \in 0 .. n
          BY <1>1
        <5> QED  BY <1>1, <4>3, <5>1, LowNat, LowTwice
      <4> QED  BY <1>5, <3>1, <4>2, <4>3, <4>4
    <3>2. CASE ~signed
      <4>1. a = u /\ b = d
        BY <1>1, <3>2, LowOfSmall DEF IntegerOf
      <4>2. quo = u \div d
        BY <1>6, <1>8, <4>1 DEF Quotient, AbsOf
      <4>3. u \div d \in 0 .. u
        BY <1>6, <1>8
      <4>4. res = u \div d
        BY <1>3, <1>8, <3>2
      <4>5. quo \in 0 .. 2^n - 1
        <5> HIDE DEF quo
        <5> QED  BY <1>1, <4>2, <4>3
      <4> HIDE DEF quo, res
      <4>6. v = Low(quo, n)
        BY <1>5, <4>2, <4>3, <4>4
      <4> QED  BY <3>2, <4>5, <4>6
    <3> QED  BY <3>1, <3>2
  <2>3. q = quo
    <3>1. quo \in Int
      BY <2>1, QuotientInt
    <3>2. IntegerOf(quo, n, signed) = quo
      <4> HIDE DEF quo, signed
      <4> QED  BY <1>1, <1>3, <2>2, IntegerBack
    <3> HIDE DEF quo, signed
    <3> QED  BY <1>1, <1>3, <2>2, <3>1, <3>2, IntegerOfLow
  <2>4. LET r == a - b * q IN AbsOf(r) < AbsOf(b) /\ (r = 0 \/ (r < 0) = (a < 0))
    <3> HIDE DEF a, b, q
    <3> QED  BY <2>1, <2>3, QuotientExact
  <2> QED  BY <2>1, <2>4 DEF n, u, d, v
<1> QED  BY <1>7, <1>8

(* Nothing but a division and an overflow panics. *)
LEMMA Panics ==
  ASSUME step, ret' = "panic"
  PROVE  /\ (Executes(DataOps) /\ DivisionPanics(Inst, ctx)) \/ OverflowPanic
         /\ mem' = mem
<1>1. DataProcessing \/ OverflowPanic
  BY DEF step, Retire, Fail, FetchFault, SkipUndecoded, Undefined, DcZva, VectorProcessing, Branch, BranchIf,
     CompareBranch, TestBranch, BranchLink, Return, LoadRegister, LoadPair, StoreRegister, StorePair,
     StoreExclusive, LoadVectors, StoreVectors, LoadStructures, SupervisorCall, Store
<1> QED  BY <1>1 DEF DataProcessing, OverflowPanic, Retire

LEMMA ShiftPanics ==
  ASSUME NEW c \in CpuContext, NEW i, IsResolvedInst(i), ShiftOverflows(i, c)
  PROVE  /\ i.op = "SBFIZ" /\ Signed(get_operand_val(i.ops[2], c), XBits) < 0
         /\ get_operand_val(i.ops[3], c) = 1 /\ get_operand_val(i.ops[4], c) = XBits - 1
<1> DEFINE p == i.ops[3].val
           q == i.ops[4].val
           n == Width(Rd(i))
<1>1. i.op = "SBFIZ" /\ Signed(get_operand_val(i.ops[2], c), XBits) < 0
  BY DEF ShiftOverflows
<1>2. /\ i.ops[3].kind = "imm" /\ i.ops[3].shift = NoShift
      /\ i.ops[4].kind = "imm" /\ i.ops[4].shift = NoShift
      /\ q > 0 /\ p + q <= n
  BY <1>1 DEF IsResolvedInst, IsInstruction, InsertZeroOps
<1>3. get_operand_val(i.ops[3], c) = p /\ get_operand_val(i.ops[4], c) = q
  BY <1>2 DEF get_operand_val, eval_imm_shift, NoShift, Shift
<1>4. p \in Nat /\ q \in Nat
  <2>1. {3, 4} \subseteq 1 .. Len(i.ops)
    BY <1>1, Inputs DEF QuaternaryOps, InsertZeroOps
  <2> QED  BY <1>3, <2>1, Inputs
<1>5. n \in Nat \ {0} /\ n \in 1 .. XBits /\ XBits \in Nat
  BY RegisterWidth, Widths
<1>6. InsertedWidth(p, q, n) = XBits
  BY <1>3 DEF ShiftOverflows
<1> HIDE DEF p, q, n
<1>7. p + q = n /\ (q % n) + 1 = XBits /\ q % n \in 0 .. n - 1
  BY <1>2, <1>4, <1>5, <1>6 DEF InsertedWidth
<1>8. n = XBits /\ q % n = n - 1
  BY <1>5, <1>7
<1>9. q = n - 1
  <2>1. q = n => q % n = 0
    BY <1>5
  <2>2. q < n => q % n = q
    BY <1>4, <1>5
  <2>3. XBits > 1
    BY ByteBitsAssumption DEF XBits
  <2> QED  BY <1>2, <1>4, <1>5, <1>7, <1>8, <2>1, <2>2, <2>3
<1> QED  BY <1>1, <1>3, <1>4, <1>7, <1>8, <1>9

(* Division rounds towards zero at every width, division by zero gives 0,  *)
(* and data processing panics on no other quotient than the one that does  *)
(* not fit, over no other shift than SBFIZ by 1 of 63 bits that stand for  *)
(* a negative number, and on no other negation than that of the least word *)
(* (the UDIV, SDIV, SBFIZ, CSNEG and CNEG arms).                           *)
THEOREM DivisionsAlwaysExact == Spec => DivisionExact
<1>1. ASSUME TypeOK, [step]_vars PROVE [DivisionRight]_vars
  <2> SUFFICES ASSUME step PROVE DivisionRight
    BY <1>1
  <2>1. ASSUME Completed(DivideOps), ~IsVec(Rd(Inst)), Rd(Inst).n \in Regs
        PROVE  LET n == Width(Rd(Inst))
                   signed == Inst.op = "SDIV"
                   a == IntegerOf(Dividend(Inst, ctx), n, signed)
                   b == IntegerOf(Divisor(Inst, ctx), n, signed)
                   q == IntegerOf(get_reg_val(Rd(Inst), ctx'), n, signed)
                   r == a - b * q
               IN  IF b = 0 THEN q = 0 ELSE AbsOf(r) < AbsOf(b) /\ (r = 0 \/ (r < 0) = (a < 0))
    <3>1. DivideOps \subseteq DataOps \ VectorOps
      BY DEF DataOps, DivideOps, VectorOps, LaneOps, LaneShiftOps, FillOps, WordShiftOps, BitOps,
         ByteOps, PairOps, ReduceOps, ZipOps, NarrowOps, WidthOps, MoveLaneOps
    <3>2. /\ ctx \in CpuContext /\ IsResolvedInst(Inst) /\ Inst.op \in DivideOps
          /\ ctx' = [Execute(Inst, ctx) EXCEPT !.pc = NextPc] /\ ~DivisionPanics(Inst, ctx)
      BY <1>1, <2>1, <3>1, DataResult
    <3> QED  BY <2>1, <3>2, DivideExact
  <2>2. ASSUME ret' = "panic", Executes(DataOps), ~OverflowPanic
        PROVE  LET n == Width(Rd(Inst))
               IN  Inst.op = "SDIV" /\ ~(-Signed(Dividend(Inst, ctx), n) < Half(n))
    <3> DEFINE n == Width(Rd(Inst))
               u == Dividend(Inst, ctx)
    <3>1. Executes(DataOps) /\ Inst.op = "SDIV" /\ u = Half(n)
      BY <2>2, Panics DEF DivisionPanics
    <3>2. ctx \in CpuContext /\ IsResolvedInst(Inst) /\ Inst.op \in DivideOps
      BY <1>1, <3>1, Executing DEF DivideOps
    <3>3. u \in 0 .. 2^n - 1 /\ n \in Nat \ {0}
      BY <3>2, DivisionOperands, RegisterWidth
    <3> HIDE DEF n, u
    <3>4. Signed(u, n) = -Half(n) /\ Half(n) \in Nat
      BY <3>1, <3>3, SignedCases
    <3>5. ~(-Signed(u, n) < Half(n))
      BY <3>4
    <3> QED  BY <3>1, <3>5 DEF n, u
  <2>3. ASSUME Executes(DataOps), OverflowPanic
        PROVE  \/ /\ Inst.op = "SBFIZ" /\ Target(3) = 1 /\ Target(4) = XBits - 1
                  /\ Signed(Target(2), XBits) < 0
               \/ /\ Inst.op \in {"CSNEG", "CNEG"}
                  /\ Target(IF Inst.op = "CSNEG" THEN 3 ELSE 2) = Half(XBits)
    <3>1. Inst.op \in DataOps /\ IsResolvedInst(Inst) /\ ctx \in CpuContext
      BY <1>1, <2>3, Executing DEF Executes
    <3>2. Inst.op \notin LaneShiftOps \cup LoadOps \cup StoreOps \cup ListOps \cup {"LDP", "STP", "STXR", "STXRB"}
      BY <3>1 DEF LaneShiftOps, DataOps, AddSubOps, NegOps, MoveOps, MultiplyOps, DivideOps, LogicOps, ExtendOps,
         BitfieldOps, ShiftOps, SelectOps, CompareIfOps, InsertZeroOps, ReverseOps, SystemOps, NoOps,
         LoadOps, StoreOps, ListOps
    <3>3. ShiftOverflows(Inst, ctx) \/ NegationOverflows(Inst, ctx)
      BY <2>3, <3>2 DEF OverflowPanic, AddressOverflows, AmountOverflows
    <3> QED  BY <3>1, <3>3, ShiftPanics DEF Target, NegationOverflows
  <2> QED  BY <2>1, <2>2, <2>3 DEF DivisionRight
<1> QED  BY <1>1, InterpreterTyped, PTL DEF Spec, DivisionExact

-----------------------------------------------------------------------------
(* Memory accesses: which arm they take, and where memory is.              *)

MemoryOps == LoadOps \cup StoreOps \cup ListOps \cup {"LDP", "STP", "STXR", "STXRB", "SYS"}

LEMMA MemoryArm ==
  ASSUME step, Executes(MemoryOps), ret' # "panic"
  PROVE  /\ Inst.op \in LoadOps => LoadRegister
         /\ Inst.op = "LDP" => LoadPair
         /\ Inst.op \in StoreOps => StoreRegister
         /\ Inst.op = "STP" => StorePair
         /\ Inst.op \in {"STXR", "STXRB"} => StoreExclusive
         /\ Inst.op \in {"LD1", "LD1R"} => LoadVectors
         /\ Inst.op = "ST1" => StoreVectors
         /\ Inst.op \in {"LD2", "LD3", "LD4"} => LoadStructures
         /\ Inst.op = "SYS" => DcZva \/ Undefined
<1>1. Fetched /\ Inst.op \in MemoryOps
  BY DEF Executes
<1>2. ASSUME NEW ops, Executes(ops), ops \cap MemoryOps = {} PROVE FALSE
  BY <1>1, <1>2 DEF Executes
<1>3. ~FetchFault
  BY <1>1 DEF FetchFault
<1>4. ~DataProcessing
  <2>1. DataOps \cap MemoryOps = {}
    BY DEF DataOps, AddSubOps, NegOps, MoveOps, MultiplyOps, DivideOps, LogicOps, ExtendOps, BitfieldOps,
       ShiftOps, SelectOps, CompareIfOps, InsertZeroOps, ReverseOps, SystemOps, NoOps,
       MemoryOps, LoadOps, StoreOps, ListOps
  <2> QED  BY <1>2, <2>1 DEF DataProcessing
<1>5. ~VectorProcessing
  <2>1. VectorOps \cap MemoryOps = {}
    BY DEF VectorOps, LaneOps, LaneShiftOps, FillOps, WordShiftOps, BitOps, ByteOps, PairOps, ReduceOps,
       ZipOps, NarrowOps, WidthOps, MoveLaneOps, MemoryOps, LoadOps, StoreOps, ListOps
  <2> QED  BY <1>2, <2>1 DEF VectorProcessing
<1> USE DEF MemoryOps, LoadOps, StoreOps, ListOps
<1>6. ~SkipUndecoded /\ ~OverflowPanic
  BY <1>2 DEF SkipUndecoded, OverflowPanic
<1>7. ~Branch /\ ~BranchIf /\ ~CompareBranch /\ ~TestBranch /\ ~BranchLink /\ ~Return
  BY <1>2 DEF Branch, BranchIf, CompareBranch, TestBranch, BranchLink, Return
<1>8. ~SupervisorCall
  <2>1. SupervisorCall => Executes({"SVC"})
    BY DEF SupervisorCall
  <2> QED  BY <1>2, <2>1
<1>9. \/ Undefined \/ DcZva \/ LoadRegister \/ LoadPair \/ StoreRegister \/ StorePair \/ StoreExclusive
      \/ LoadVectors \/ StoreVectors \/ LoadStructures
  BY <1>3, <1>4, <1>5, <1>6, <1>7, <1>8 DEF step
<1>10. /\ Undefined \/ DcZva => Inst.op \in {"SYS"}
       /\ LoadRegister => Inst.op \in LoadOps
       /\ LoadPair => Inst.op \in {"LDP"}
       /\ StoreRegister => Inst.op \in StoreOps
       /\ StorePair => Inst.op \in {"STP"}
       /\ StoreExclusive => Inst.op \in {"STXR", "STXRB"}
       /\ LoadVectors => Inst.op \in {"LD1", "LD1R"}
       /\ StoreVectors => Inst.op \in {"ST1"}
       /\ LoadStructures => Inst.op \in {"LD2", "LD3", "LD4"}
  <2> HIDE DEF LoadOps, StoreOps, ListOps
  <2>0. Undefined => Inst.op \in {"UNDECODED", "UNIMPLEMENTED", "SYS"}
    BY DEF Undefined, Executes
  <2>1. DcZva => Executes({"SYS"})
    BY DEF DcZva
  <2>2. LoadRegister => Executes(LoadOps)
    BY DEF LoadRegister
  <2>3. LoadPair => Executes({"LDP"})
    BY DEF LoadPair
  <2>4. StoreRegister => Executes(StoreOps)
    BY DEF StoreRegister
  <2>5. StorePair => Executes({"STP"})
    BY DEF StorePair
  <2>6. StoreExclusive => Executes({"STXR", "STXRB"})
    BY DEF StoreExclusive
  <2>7. LoadVectors => Executes({"LD1", "LD1R"})
    BY DEF LoadVectors
  <2>8. StoreVectors => Executes({"ST1"})
    BY DEF StoreVectors
  <2>9. LoadStructures => Executes({"LD2", "LD3", "LD4"})
    BY DEF LoadStructures
  <2>10. Inst.op \notin {"UNDECODED", "UNIMPLEMENTED"}
    BY <1>1 DEF LoadOps, StoreOps, ListOps
  <2> QED  BY <2>0, <2>1, <2>2, <2>3, <2>4, <2>5, <2>6, <2>7, <2>8, <2>9, <2>10 DEF Executes
<1> QED  BY <1>9, <1>10

(* What a step that is no store and clears no block does to memory.        *)
LEMMA OnlyStoresWrite ==
  ASSUME step
  PROVE  \/ mem' = mem
         \/ /\ StoreRegister \/ StorePair \/ StoreExclusive \/ StoreVectors \/ DcZva
            /\ \E addr, bytes : mem' = Stored(mem, addr, bytes)
<1>1. CASE FetchFault \/ SkipUndecoded \/ Undefined \/ DataProcessing \/ VectorProcessing \/ OverflowPanic
  BY <1>1 DEF FetchFault, SkipUndecoded, Undefined, DataProcessing, VectorProcessing, OverflowPanic, Retire, Fail
<1>2. CASE Branch \/ BranchIf \/ CompareBranch \/ TestBranch \/ BranchLink \/ Return
  BY <1>2 DEF Branch, BranchIf, CompareBranch, TestBranch, BranchLink, Return, Retire
<1>3. CASE LoadRegister
  BY <1>3 DEF LoadRegister, Retire, Fail
<1>4. CASE LoadPair
  BY <1>4 DEF LoadPair, Retire, Fail
<1>5. CASE LoadVectors
  BY <1>5 DEF LoadVectors, Retire, Fail
<1>6. CASE LoadStructures
  BY <1>6 DEF LoadStructures, Retire
<1>7. CASE SupervisorCall
  BY <1>7 DEF SupervisorCall, Retire
<1>8. CASE DcZva
  BY <1>8 DEF DcZva, Retire
<1>9. CASE StoreRegister \/ StorePair \/ StoreExclusive \/ StoreVectors
  <2>1. \E ea, bytes, c : Store(ea, bytes, c)
    BY <1>9 DEF StoreRegister, StorePair, StoreExclusive, StoreVectors
  <2>2. ASSUME NEW ea, NEW bytes, NEW c, Store(ea, bytes, c) PROVE mem' = Stored(mem, ea.addr, bytes)
    BY <2>2 DEF Store, Retire, Fail
  <2> QED  BY <1>9, <2>1, <2>2
<1> QED  BY <1>1, <1>2, <1>3, <1>4, <1>5, <1>6, <1>7, <1>8, <1>9 DEF step

(* Nothing maps or unmaps memory while a program runs.                     *)
MemoryPlaced == DOMAIN mem \subseteq XWord

LEMMA MemoryStays == Spec => []MemoryPlaced
<1>1. Init => MemoryPlaced
  <2> DEFINE n == 2^XBits
  <2>1. n \in Nat
    BY Widths, PowerPositive
  <2>2. Init => DOMAIN mem \subseteq 0 .. n - 2
    BY ImagesAssumption DEF Init
  <2>3. XWord = 0 .. n - 1
    BY DEF XWord
  <2> HIDE DEF n
  <2> QED  BY <2>1, <2>2, <2>3 DEF MemoryPlaced
<1>2. ASSUME MemoryPlaced, [step]_vars PROVE MemoryPlaced'
  <2>1. CASE step
    <3>1. DOMAIN mem' = DOMAIN mem
      BY <2>1, OnlyStoresWrite DEF Stored
    <3> QED  BY <1>2, <3>1 DEF MemoryPlaced
  <2>2. CASE UNCHANGED vars
    BY <1>2, <2>2 DEF MemoryPlaced, vars
  <2> QED  BY <1>2, <2>1, <2>2
<1> QED  BY <1>1, <1>2, PTL DEF Spec

-----------------------------------------------------------------------------
(* Stores.                                                                 *)

LEMMA IntervalCount ==
  ASSUME NEW len \in Nat
  PROVE  Cardinality(0 .. len - 1) = len
<1>1. IsFiniteSet(0 .. len - 1) /\ Cardinality(0 .. len - 1) = IF 0 > len - 1 THEN 0 ELSE (len - 1) - 0 + 1
  BY FS_Interval
<1> QED  BY <1>1

(* What Store leaves behind, failed or not.                                *)
LEMMA StoreEffect ==
  ASSUME MemoryPlaced, NEW ea, ea.addr \in XWord, NEW len \in Nat, NEW bytes,
         DOMAIN bytes = 0 .. len - 1, NEW c, Store(ea, bytes, c)
  PROVE  LET range == ea.addr .. ea.addr + len - 1
         IN  /\ \A b \in DOMAIN mem : mem'[b] # mem[b] => b \in range
             /\ ret' = "ok" => \A b \in range : mem'[b] = bytes[b - ea.addr]
             /\ ret' = "err" => /\ ctx' = ea.ctx
                                /\ \A b \in DOMAIN mem : mem'[b] # mem[b] =>
                                     \E gap \in range \ DOMAIN mem : b < gap
             /\ ret' = "ok" => range \subseteq DOMAIN mem
<1> DEFINE addr == ea.addr
           range == addr .. addr + len - 1
           after == Stored(mem, addr, bytes)
<1>1. addr \in Int /\ \A b \in DOMAIN mem : b \in Int
  BY WordNat DEF MemoryPlaced
<1>2. IF Mapped(addr, len) THEN Retire(c, after, NextPc) ELSE Fail(ea.ctx, after)
  BY IntervalCount DEF Store
<1>3. mem' = after /\ (ret' = "ok" => Mapped(addr, len)) /\ (ret' = "err" => ~Mapped(addr, len) /\ ctx' = ea.ctx)
  BY <1>2 DEF Retire, Fail
<1> HIDE DEF addr
<1>4. ASSUME NEW b \in DOMAIN mem
      PROVE  mem'[b] = IF b - addr \in 0 .. len - 1 /\ \A j \in 0 .. b - addr : addr + j \in DOMAIN mem
                       THEN bytes[b - addr] ELSE mem[b]
  BY <1>3 DEF Stored
<1>5. ASSUME NEW b \in DOMAIN mem, mem'[b] # mem[b]
      PROVE  b \in range /\ \A j \in 0 .. b - addr : addr + j \in DOMAIN mem
  BY <1>1, <1>4, <1>5
<1>6. ASSUME ret' = "ok"
      PROVE  range \subseteq DOMAIN mem /\ \A b \in range : mem'[b] = bytes[b - addr]
  <2>1. Mapped(addr, len)
    BY <1>3, <1>6
  <2>2. ASSUME NEW b \in range
        PROVE  /\ b - addr \in 0 .. len - 1 /\ addr + (b - addr) = b
               /\ 0 .. b - addr \subseteq 0 .. len - 1
    BY <1>1
  <2>3. range \subseteq DOMAIN mem
    BY <2>1, <2>2 DEF Mapped
  <2>4. ASSUME NEW b \in range PROVE mem'[b] = bytes[b - addr]
    <3>1. \A j \in 0 .. b - addr : addr + j \in DOMAIN mem
      BY <2>1, <2>2 DEF Mapped
    <3> QED  BY <1>4, <2>2, <2>3, <3>1
  <2> QED  BY <2>3, <2>4
<1>7. ASSUME ret' = "err", NEW b \in DOMAIN mem, mem'[b] # mem[b]
      PROVE  \E gap \in range \ DOMAIN mem : b < gap
  <2>1. PICK j \in 0 .. len - 1 : addr + j \notin DOMAIN mem
    BY <1>3, <1>7 DEF Mapped
  <2>2. b \in range /\ \A k \in 0 .. b - addr : addr + k \in DOMAIN mem
    BY <1>5, <1>7
  <2>3. j \notin 0 .. b - addr
    BY <2>1, <2>2
  <2>4. addr + j \in range /\ b < addr + j
    BY <1>1, <2>2, <2>3
  <2> QED  BY <2>1, <2>4
<1> QED  BY <1>3, <1>5, <1>6, <1>7 DEF addr

(* Every store is a Store at its footprint.                                *)
IsStore(ea, bytes, len, c) ==
  /\ Store(ea, bytes, c)
  /\ DOMAIN bytes = 0 .. len - 1
  /\ Footprint(Inst) = ea.addr .. ea.addr + len - 1
  /\ ea.addr \in XWord

LEMMA NamedBytes ==
  ASSUME NEW reg \in Registers, reg \notin {SP, WSP}
  PROVE  (IF IsVec(reg) THEN reg.vec ELSE IF reg.w THEN 4 ELSE 8) = WordBytes(reg)
BY DEF WordBytes, is_w_reg

LEMMA RegisterStored ==
  ASSUME TypeOK, StoreRegister
  PROVE  LET ea == eval_mem_addr(Inst.ops[2], ctx)
             len == StoreBytes(Inst)
         IN  /\ len \in Nat \ {0} /\ len \in 0 .. 16
             /\ IsStore(ea, BytesOf(Inst, 1, len, ctx), len, ea.ctx)
<1> DEFINE i == Inst
           ea == eval_mem_addr(i.ops[2], ctx)
           len == StoreBytes(i)
           bytes == BytesOf(i, 1, len, ctx)
<1>1. IsResolvedInst(i) /\ i.op \in StoreOps /\ ctx \in CpuContext
  BY Executing DEF StoreRegister
<1>2. Rd(i) \in Registers /\ ea.addr \in XWord /\ 1 \in 1 .. Len(i.ops)
  BY <1>1, AccessOperands
<1>3. Rd(i) \notin {SP, WSP}
  BY <1>1 DEF IsResolvedInst, IsInstruction
<1>4. Store(ea, bytes, ea.ctx)
  BY DEF StoreRegister
<1>5. len \in 0 .. 16 /\ len \in Nat \ {0}
  BY <1>1, <1>2, WordBytesRange DEF StoreBytes, StoreOps
<1>6. DOMAIN bytes = 0 .. len - 1
  <2> HIDE DEF len, i
  <2>1. bytes \in [0 .. len - 1 -> Byte]
    BY <1>1, <1>2, <1>5, BytesOfTyped
  <2> HIDE DEF bytes
  <2> QED  BY <2>1
<1>7. Footprint(i) = ea.addr .. ea.addr + len - 1
  <2>1. i.op \notin {"STP", "STXR", "STXRB"}
    BY <1>1 DEF StoreOps
  <2> DEFINE reg == Rd(i)
             named == IF IsVec(reg) THEN reg.vec ELSE IF reg.w THEN 4 ELSE 8
  <2>2. named = WordBytes(reg)
    BY <1>2, <1>3, NamedBytes
  <2> HIDE DEF ea, len, i
  <2>3. Footprint(i) = LET n == CASE i.op = "STRB" -> 1 [] i.op = "STRH" -> 2 [] i.op = "STR" -> named
                       IN  ea.addr .. ea.addr + n - 1
    BY <1>1, <2>1 DEF Footprint, ea, StoreOps, Rd
  <2> HIDE DEF named
  <2> QED  BY <1>1, <2>2, <2>3 DEF len, StoreBytes, StoreOps
<1> QED  BY <1>2, <1>4, <1>5, <1>6, <1>7 DEF IsStore

LEMMA PairStored ==
  ASSUME TypeOK, StorePair
  PROVE  LET ea == eval_mem_addr(Inst.ops[3], ctx)
         IN  \E bytes : \E len \in Nat : IsStore(ea, bytes, len, ea.ctx)
<1> DEFINE i == Inst
           ea == eval_mem_addr(i.ops[3], ctx)
           len == WordBytes(Rd(i))
           Half_(k) == BytesOf(i, k, len, ea.ctx)
           bytes == [j \in 0 .. 2 * len - 1 |-> Half_(j \div len + 1)[j % len]]
<1>1. IsResolvedInst(i) /\ i.op = "STP" /\ ctx \in CpuContext
  BY Executing DEF StorePair
<1>2. Rd(i) \in Registers /\ ea.addr \in XWord
  BY <1>1, AccessOperands
<1>3. Rd(i) \notin {SP, WSP}
  BY <1>1 DEF IsResolvedInst, IsInstruction
<1>4. Store(ea, bytes, ea.ctx)
  BY DEF StorePair
<1>5. 2 * len \in Nat
  BY <1>2, WordBytesRange
<1>6. Footprint(i) = ea.addr .. ea.addr + 2 * len - 1
  <2> DEFINE reg == Rd(i)
             named == IF IsVec(reg) THEN reg.vec ELSE IF reg.w THEN 4 ELSE 8
  <2>1. named = len
    BY <1>2, <1>3, NamedBytes
  <2>2. Footprint(i) = ea.addr .. ea.addr + 2 * named - 1
    BY <1>1 DEF Footprint, Rd
  <2> QED  BY <2>1, <2>2
<1>7. DOMAIN bytes = 0 .. 2 * len - 1
  OBVIOUS
<1>8. IsStore(ea, bytes, 2 * len, ea.ctx)
  BY <1>2, <1>4, <1>6, <1>7 DEF IsStore
<1> QED  BY <1>5, <1>8

LEMMA ExclusiveStored ==
  ASSUME TypeOK, StoreExclusive
  PROVE  LET ea == eval_mem_addr(Inst.ops[3], ctx)
         IN  \E bytes, c : \E len \in Nat : IsStore(ea, bytes, len, c)
<1> DEFINE i == Inst
           ea == eval_mem_addr(i.ops[3], ctx)
           len == IF i.op = "STXR" THEN 8 ELSE 1
           bytes == ToBytes(get_operand_val(i.ops[2], ctx), len)
           c == set_reg_val(Rd(i), 0, ea.ctx)
<1>1. IsResolvedInst(i) /\ i.op \in {"STXR", "STXRB"} /\ ctx \in CpuContext
  BY Executing DEF StoreExclusive
<1>2. ea.addr \in XWord
  BY <1>1, AccessOperands
<1>3. Store(ea, bytes, c)
  BY DEF StoreExclusive
<1>4. Footprint(i) = ea.addr .. ea.addr + len - 1
  BY <1>1 DEF Footprint
<1>5. DOMAIN bytes = 0 .. len - 1 /\ len \in Nat
  BY DEF ToBytes
<1>6. IsStore(ea, bytes, len, c)
  BY <1>2, <1>3, <1>4, <1>5 DEF IsStore
<1> QED  BY <1>5, <1>6

LEMMA VectorsStored ==
  ASSUME TypeOK, StoreVectors
  PROVE  LET ea == eval_mem_addr(Inst.ops[2], ctx)
         IN  \E bytes, c : \E len \in Nat : IsStore(ea, bytes, len, c)
<1> DEFINE i == Inst
           ea == eval_mem_addr(i.ops[2], ctx)
           regs == i.ops[1].regs
           size == ListedBytes(i)
           len == size * Len(regs)
           bytes == [j \in 0 .. len - 1 |-> ctx.v[regs[j \div size + 1]][j % size]]
           c == PostIndexed(i, ea.ctx)
<1>1. IsResolvedInst(i) /\ i.op = "ST1" /\ ctx \in CpuContext
  <2>1. Executes({"ST1"})
    BY DEF StoreVectors
  <2> QED  BY <2>1, Executing
<1>2. ea.addr \in XWord
  BY <1>1, AccessOperands DEF ListOps
<1>3. regs \in Seq(VRegs) /\ size \in {8, 16}
  BY <1>1, ListOperands DEF ListOps
<1>4. Store(ea, bytes, c)
  BY DEF StoreVectors
<1>5. Footprint(i) = ea.addr .. ea.addr + len - 1
  BY <1>1 DEF Footprint, ListedBytes, is_64bit_vector
<1>6. DOMAIN bytes = 0 .. len - 1 /\ len \in Nat
  <2> HIDE DEF regs, size
  <2>1. Len(regs) \in Nat
    BY <1>3
  <2> QED  BY <1>3, <2>1
<1>7. IsStore(ea, bytes, len, c)
  <2> HIDE DEF bytes, len, c, ea
  <2> QED  BY <1>2, <1>4, <1>5, <1>6 DEF IsStore
<1> QED  BY <1>6, <1>7

(* The operand that holds the address of an access.                        *)
AddressOf(i) == IF i.op \in {"LDP", "STP", "STXR", "STXRB"} THEN 3 ELSE 2

LEMMA Writers ==
  ASSUME TypeOK, step, Executes(MemoryWriters), ret' # "panic"
  PROVE  LET ea == eval_mem_addr(Inst.ops[AddressOf(Inst)], ctx)
         IN  \E bytes, c : \E len \in Nat : IsStore(ea, bytes, len, c)
<1>1. Executes(MemoryOps) /\ Inst.op \in MemoryWriters
  BY DEF Executes, MemoryWriters, MemoryOps, StoreOps, ListOps
<1>2. CASE Inst.op \in StoreOps
  <2>1. AddressOf(Inst) = 2 /\ StoreRegister
    BY <1>1, <1>2, MemoryArm DEF AddressOf, StoreOps
  <2> QED  BY <2>1, RegisterStored
<1>3. CASE Inst.op = "STP"
  <2>1. AddressOf(Inst) = 3 /\ StorePair
    BY <1>1, <1>3, MemoryArm DEF AddressOf
  <2> QED  BY <2>1, PairStored
<1>4. CASE Inst.op \in {"STXR", "STXRB"}
  <2>1. AddressOf(Inst) = 3 /\ StoreExclusive
    BY <1>1, <1>4, MemoryArm DEF AddressOf
  <2> QED  BY <2>1, ExclusiveStored
<1>5. CASE Inst.op = "ST1"
  <2>1. AddressOf(Inst) = 2 /\ StoreVectors
    BY <1>1, <1>5, MemoryArm DEF AddressOf
  <2> QED  BY <2>1, VectorsStored
<1> QED  BY <1>1, <1>2, <1>3, <1>4, <1>5 DEF MemoryWriters, StoreOps

LEMMA BlockCleared ==
  ASSUME TypeOK, MemoryPlaced, DcZva
  PROVE  /\ \A b \in DOMAIN mem \ ZvaBlock : mem'[b] = mem[b]
         /\ ZvaBlock \subseteq DOMAIN mem => \A b \in ZvaBlock : mem'[b] = 0
<1> DEFINE rt == get_x(Rd(Inst).n, ctx)
           first == rt - (rt % ZvaBytes)
           zeros == [j \in 0 .. ZvaBytes - 1 |-> 0]
<1>1. mem' = Stored(mem, first, zeros)
  BY DEF DcZva, Retire
<1>2. rt \in Nat /\ ZvaBytes \in Nat \ {0} /\ \A b \in DOMAIN mem : b \in Int
  <2>1. ctx \in CpuContext
    BY DEF TypeOK
  <2> QED  BY <2>1, GetX, WordNat, ZvaAssumption DEF MemoryPlaced
<1>3. ZvaBlock = first .. first + ZvaBytes - 1 /\ first \in Int
  <2>1. ZvaBlock = LET f == ZvaBytes * (rt \div ZvaBytes) IN f .. f + ZvaBytes - 1
    BY DEF ZvaBlock
  <2> HIDE DEF rt
  <2>2. first = ZvaBytes * (rt \div ZvaBytes) /\ first \in Int
    <3> DEFINE q == rt \div ZvaBytes
               r == rt % ZvaBytes
    <3>1. rt = ZvaBytes * q + r /\ q \in Int /\ r \in Int /\ ZvaBytes * q \in Int
      BY <1>2
    <3> DEFINE p == ZvaBytes * q
    <3> HIDE DEF q, r, p
    <3>2. rt - r = p
      BY <1>2, <3>1 DEF p
    <3> QED  BY <3>1, <3>2 DEF q, r, p
  <2> HIDE DEF first
  <2> QED  BY <2>1, <2>2
<1> HIDE DEF rt, first
<1>4. ASSUME NEW b \in DOMAIN mem
      PROVE  mem'[b] = IF b - first \in 0 .. ZvaBytes - 1 /\ \A j \in 0 .. b - first : first + j \in DOMAIN mem
                       THEN 0 ELSE mem[b]
  BY <1>1 DEF Stored
<1>5. ASSUME NEW b \in DOMAIN mem \ ZvaBlock PROVE mem'[b] = mem[b]
  <2>1. b - first \notin 0 .. ZvaBytes - 1
    BY <1>2, <1>3
  <2> QED  BY <1>4, <2>1
<1>6. ASSUME ZvaBlock \subseteq DOMAIN mem, NEW b \in ZvaBlock PROVE mem'[b] = 0
  <2>1. b - first \in 0 .. ZvaBytes - 1 /\ \A j \in 0 .. b - first : first + j \in ZvaBlock
    BY <1>2, <1>3
  <2> QED  BY <1>4, <1>6, <2>1
<1> QED  BY <1>5, <1>6

LEMMA LeastOfRange ==
  ASSUME NEW a \in Nat, NEW len \in Nat \ {0}
  PROVE  Min(a .. a + len - 1) = a
<1> DEFINE S == a .. a + len - 1
           b == a + len
<1>1. S \in SUBSET (-b .. b) /\ S # {} /\ b \in Nat /\ a \in S /\ \A y \in S : a <= y
  OBVIOUS
<1> HIDE DEF S, b
<1>2. Min(S) \in S /\ Min(S) <= a
  BY <1>1, Extremes
<1>3. a <= Min(S) /\ Min(S) \in Int
  BY <1>1, <1>2 DEF S
<1> QED  BY <1>2, <1>3 DEF S

(* A completed STR, STRB or STRH has put its register's low bytes there.   *)
LEMMA RegisterBytesStored ==
  ASSUME TypeOK, MemoryPlaced, StoreRegister, ret' = "ok", NEW b \in Footprint(Inst)
  PROVE  LET j == b - Min(Footprint(Inst))
         IN  mem'[b] = IF IsVecOp(Inst, 1) THEN ctx.v[Rd(Inst).n][j]
                       ELSE Low(Shr(Target(1), ByteBits * j), ByteBits)
<1> DEFINE ea == eval_mem_addr(Inst.ops[2], ctx)
           len == StoreBytes(Inst)
           bytes == BytesOf(Inst, 1, len, ctx)
<1>1. len \in Nat \ {0} /\ IsStore(ea, bytes, len, ea.ctx)
  BY RegisterStored
<1> HIDE DEF len
<1>2. /\ ea.addr \in Nat /\ ea.addr \in XWord /\ Footprint(Inst) = ea.addr .. ea.addr + len - 1
      /\ Store(ea, bytes, ea.ctx) /\ DOMAIN bytes = 0 .. len - 1
  BY <1>1, WordNat DEF IsStore
<1> DEFINE j == b - ea.addr
<1>3. Min(Footprint(Inst)) = ea.addr /\ j \in 0 .. len - 1
  <2> HIDE DEF ea
  <2> QED  BY <1>1, <1>2, LeastOfRange
<1>4. mem'[b] = bytes[j]
  <2> HIDE DEF bytes, ea
  <2>1. len \in Nat /\ b \in ea.addr .. ea.addr + len - 1
    BY <1>1, <1>2
  <2> QED  BY <1>2, <2>1, StoreEffect
<1> HIDE DEF j, ea
<1>5. bytes[j] = IF IsVecOp(Inst, 1) THEN ctx.v[Rd(Inst).n][j]
                 ELSE Low(Shr(Target(1), ByteBits * j), ByteBits)
  BY <1>3 DEF BytesOf, ToBytes, Rd, Target
<1> QED  BY <1>3, <1>4, <1>5 DEF j

(* No instruction writes memory outside the bytes it names, and what it    *)
(* names it has written when it completes, whatever is mapped and wherever *)
(* the access falls (the STR to ST1 arms); a system instruction clears no  *)
(* byte outside the block of its address, and none unless the mask of the  *)
(* DC ZVA arm lets it through, which is wider than DC ZVA.                 *)
THEOREM StoresAlwaysConfined == Spec => StoresConfined
<1>1. ASSUME TypeOK, MemoryPlaced, [step]_vars PROVE [StoreRight]_vars
  <2> SUFFICES ASSUME step PROVE StoreRight
    BY <1>1
  <2> USE <1>1
  <2>1. mem' # mem => Executes(MemoryWriters) \/ (Executes({"SYS"}) /\ DcZva)
    <3>1. ASSUME mem' # mem PROVE StoreRegister \/ StorePair \/ StoreExclusive \/ StoreVectors \/ DcZva
      BY <3>1, OnlyStoresWrite
    <3>2. /\ StoreRegister => Executes(StoreOps)
          /\ StorePair => Executes({"STP"})
          /\ StoreExclusive => Executes({"STXR", "STXRB"})
          /\ StoreVectors => Executes({"ST1"})
          /\ DcZva => Executes({"SYS"})
      BY DEF StoreRegister, StorePair, StoreExclusive, StoreVectors, DcZva
    <3> QED  BY <3>1, <3>2 DEF Executes, MemoryWriters, StoreOps
  <2>2. ASSUME Executes(MemoryWriters), NEW b \in DOMAIN mem \ Footprint(Inst)
        PROVE  mem'[b] = mem[b]
    <3> SUFFICES ASSUME ret' # "panic" PROVE mem'[b] = mem[b]
      BY Panics
    <3>1. \E ea, bytes, c : \E len \in Nat : IsStore(ea, bytes, len, c)
      BY <2>2, Writers
    <3>2. PICK ea, bytes, c : \E len \in Nat : IsStore(ea, bytes, len, c)
      BY <3>1
    <3>3. PICK len \in Nat : IsStore(ea, bytes, len, c)
      BY <3>2
    <3>4. /\ Store(ea, bytes, c) /\ DOMAIN bytes = 0 .. len - 1 /\ ea.addr \in XWord
          /\ Footprint(Inst) = ea.addr .. ea.addr + len - 1
      BY <3>3 DEF IsStore
    <3>5. \A d \in DOMAIN mem : mem'[d] # mem[d] => d \in ea.addr .. ea.addr + len - 1
      BY <3>4, StoreEffect
    <3> QED  BY <2>2, <3>4, <3>5
  <2>3. ASSUME Completed({"STR", "STRB", "STRH"}) PROVE StoreRegister /\ ret' = "ok"
    <3>1. Executes(MemoryOps) /\ Inst.op \in StoreOps /\ ret' = "ok"
      BY <2>3 DEF Completed, Executes, MemoryOps, StoreOps
    <3> QED  BY <3>1, MemoryArm
  <2>4. ASSUME Executes({"SYS"})
        PROVE  /\ TakenForZva(Inst) <=> Inst.crm \in {4, 5}
               /\ DcZva \/ (mem' = mem /\ Inst.crm \notin {4, 5})
    <3>1. Executes(MemoryOps) /\ Inst.op = "SYS"
      BY <2>4 DEF Executes, MemoryOps
    <3>2. Inst.crm \in 0 .. 15
      BY <3>1, Executing DEF IsResolvedInst, IsInstruction
    <3>3. TakenForZva(Inst) <=> Inst.crm \in {4, 5}
      BY <3>1, <3>2 DEF TakenForZva
    <3>4. ret' # "panic"
      <4>1. "SYS" \notin DataOps
        BY DEF DataOps, AddSubOps, NegOps, MoveOps, MultiplyOps, DivideOps, LogicOps, ExtendOps, BitfieldOps,
           ShiftOps, SelectOps, CompareIfOps, InsertZeroOps, ReverseOps, SystemOps, NoOps
      <4>2. ~OverflowPanic
        BY <3>1 DEF OverflowPanic, ShiftOverflows, NegationOverflows, AmountOverflows, LaneShiftOps,
           AddressOverflows, LoadOps, StoreOps, ListOps
      <4> QED  BY <3>1, <4>1, <4>2, Panics DEF Executes
    <3>5. DcZva \/ Undefined
      BY <3>1, <3>4, MemoryArm
    <3> QED  BY <3>3, <3>5 DEF Undefined, Fail
  <2>5. DcZva => Executes({"SYS"}) /\ TakenForZva(Inst)
    BY DEF DcZva
  <2> QED  BY <2>1, <2>2, <2>3, <2>4, <2>5, RegisterBytesStored, BlockCleared DEF StoreRight
<1> QED  BY <1>1, InterpreterTyped, MemoryStays, PTL DEF Spec, StoresConfined

-----------------------------------------------------------------------------
(* Faults.                                                                 *)

WritesBack(op) == (op.kind = "mem" /\ op.mode # "offset") \/ op.kind = "mempostreg"

(* From c to d only the base register of op has changed.                   *)
OnlyBase(op, c, d) ==
  /\ [d EXCEPT !.x = c.x, !.sp = c.sp, !.v = c.v] = c
  /\ d.v = c.v
  /\ \A n \in Regs : d.x[n] # c.x[n] => WritesBack(op) /\ n = op.reg.n
  /\ d.sp # c.sp => WritesBack(op) /\ SP.n = op.reg.n

LEMMA SameContext ==
  ASSUME NEW c \in CpuContext
  PROVE  [c EXCEPT !.x = c.x, !.sp = c.sp, !.v = c.v] = c
BY DEF CpuContext

LEMMA BaseSet ==
  ASSUME NEW c \in CpuContext, NEW op, op.reg \in GeneralRegisters, WritesBack(op), NEW w \in XWord
  PROVE  OnlyBase(op, c, set_reg_val(op.reg, w, c))
<1> DEFINE reg == op.reg
           d == set_reg_val(reg, w, c)
<1>1. ~IsVec(reg)
  BY DEF GeneralRegisters
<1>2. CASE reg = SP
  <2>1. d = [c EXCEPT !.sp = w] /\ reg.n = SP.n
    BY <1>2 DEF set_reg_val
  <2> HIDE DEF d
  <2>2. [d EXCEPT !.x = c.x, !.sp = c.sp, !.v = c.v] = c
    BY <2>1 DEF CpuContext
  <2>3. d.v = c.v /\ d.x = c.x
    BY <2>1 DEF CpuContext
  <2> QED  BY <2>1, <2>2, <2>3 DEF OnlyBase, d
<1>3. CASE reg # SP /\ reg.n \in Regs
  <2> DEFINE u == Low(w, Width(reg))
  <2>1. d = [c EXCEPT !.x[reg.n] = u]
    BY <1>1, <1>3 DEF set_reg_val, set_x
  <2> HIDE DEF d, u
  <2>2. [d EXCEPT !.x = c.x, !.sp = c.sp, !.v = c.v] = c
    BY <2>1 DEF CpuContext
  <2>3. d.v = c.v /\ d.sp = c.sp /\ \A n \in Regs : n # reg.n => d.x[n] = c.x[n]
    BY <2>1 DEF CpuContext
  <2> QED  BY <2>2, <2>3 DEF OnlyBase, d
<1>4. CASE reg # SP /\ reg.n \notin Regs
  <2>1. d = c
    BY <1>1, <1>4 DEF set_reg_val, set_x
  <2> QED  BY <2>1, SameContext DEF OnlyBase
<1> QED  BY <1>2, <1>3, <1>4

LEMMA AddressMovesBase ==
  ASSUME NEW c \in CpuContext, NEW op, IsResolved(op), op.kind \in MemoryKinds
  PROVE  OnlyBase(op, c, eval_mem_addr(op, c).ctx)
<1> DEFINE base == get_reg_val(op.reg, c)
           index == get_reg_val(op.index, c)
           d == eval_mem_addr(op, c).ctx
<1>0. OnlyBase(op, c, c)
  BY SameContext DEF OnlyBase
<1>1. CASE op.kind = "label"
  <2>1. d = c
    BY <1>1 DEF eval_mem_addr, Accessed
  <2> QED  BY <1>0, <2>1
<1>2. CASE op.kind = "mem"
  <2> DEFINE moved == Wrap(base + op.off)
  <2>1. /\ op.reg \in GeneralRegisters /\ op.reg \in Registers
        /\ op.off \in Int /\ op.mode \in {"offset", "pre", "post"}
    BY <1>2, GeneralIsRegister DEF IsResolved, IsOperand, MemoryKinds
  <2>2. moved \in XWord
    <3>1. base \in Int
      BY <2>1, GetReg, WordNat
    <3> HIDE DEF base
    <3> QED  BY <2>1, <3>1, WrapWord
  <2>3. IF op.mode = "offset" THEN d = c ELSE d = set_reg_val(op.reg, moved, c)
    BY <1>2, <2>1 DEF eval_mem_addr, Accessed
  <2> HIDE DEF d, moved
  <2>4. op.mode # "offset" => OnlyBase(op, c, set_reg_val(op.reg, moved, c))
    BY <1>2, <2>1, <2>2, BaseSet DEF WritesBack
  <2> QED  BY <1>0, <2>3, <2>4 DEF d
<1>3. CASE op.kind = "memext"
  <2>1. d = c
    BY <1>3 DEF eval_mem_addr, Accessed
  <2> QED  BY <1>0, <2>1
<1>4. CASE op.kind = "mempostreg"
  <2> DEFINE moved == Wrap(base + index)
  <2>1. op.reg \in GeneralRegisters /\ op.reg \in Registers /\ op.index \in Registers
    BY <1>4, GeneralIsRegister DEF IsResolved, IsOperand, MemoryKinds
  <2>2. moved \in XWord
    <3>1. base \in Int /\ index \in Int
      BY <2>1, GetReg, WordNat
    <3> HIDE DEF base, index
    <3> QED  BY <3>1, WrapWord
  <2>3. d = set_reg_val(op.reg, moved, c)
    BY <1>4 DEF eval_mem_addr, Accessed
  <2> HIDE DEF d, moved
  <2>4. OnlyBase(op, c, set_reg_val(op.reg, moved, c))
    BY <1>4, <2>1, <2>2, BaseSet DEF WritesBack
  <2> QED  BY <2>3, <2>4 DEF d
<1> QED  BY <1>1, <1>2, <1>3, <1>4 DEF MemoryKinds

LEMMA AddressOperand ==
  ASSUME NEW i, IsResolvedInst(i), i.op \in MemoryOps \ {"SYS"}
  PROVE  LET op == i.ops[AddressOf(i)]
         IN  /\ IsResolved(op) /\ op.kind \in MemoryKinds
             /\ WritesBack(op) => op.reg.n \in WrittenBack(i)
<1> DEFINE k == AddressOf(i)
           op == i.ops[k]
<1>1. k \in DOMAIN i.ops
  <2>1. DOMAIN i.ops = 1 .. Len(i.ops)
    BY DEF IsResolvedInst, IsInstruction
  <2>3. \/ i.op \in BinaryOps /\ k = 2
        \/ i.op \in TernaryOps /\ k = 3
    BY DEF AddressOf, BinaryOps, TernaryOps, MemoryOps
  <2>4. Len(i.ops) \in Nat /\ (i.op \in BinaryOps => Len(i.ops) >= 2) /\ (i.op \in TernaryOps => Len(i.ops) >= 3)
    <3>1. Len(i.ops) \in Nat
      BY DEF IsResolvedInst, IsInstruction
    <3> QED  BY <3>1 DEF IsResolvedInst, IsInstruction
  <2> QED  BY <2>1, <2>3, <2>4
<1>2. op.kind \in MemoryKinds
  BY DEF IsResolvedInst, IsInstruction, AddressOf, MemoryOps
<1>3. IsResolved(op)
  BY <1>1 DEF IsResolvedInst
<1>4. ASSUME WritesBack(op) PROVE op.reg.n \in WrittenBack(i)
  BY <1>1, <1>4 DEF WritesBack, WrittenBack
<1> QED  BY <1>2, <1>3, <1>4

(* The vectors a list load has read when it fails.                         *)
ReadUpTo(regs, c, d) ==
  \E m \in Nat : \E vecs : /\ m < Len(regs) /\ DOMAIN vecs = 1 .. m
                           /\ d = WithListed(regs, c, vecs)
                           /\ Inst.op = "LD1R" => m = 0

LEMMA ListFault ==
  ASSUME TypeOK, LoadVectors, ret' = "err"
  PROVE  /\ mem' = mem /\ Inst.op \in {"LD1", "LD1R"}
         /\ ReadUpTo(Inst.ops[1].regs, eval_mem_addr(Inst.ops[2], ctx).ctx, ctx')
<1> DEFINE i == Inst
           ea == eval_mem_addr(i.ops[2], ctx)
           regs == i.ops[1].regs
           len == IF i.op = "LD1R" THEN get_vec_elem_size(i.ops[1]) ELSE ListedBytes(i)
           addr(k) == IF i.op = "LD1R" THEN ea.addr ELSE Wrap(ea.addr + len * (k - 1))
           vec(k) == IF i.op = "LD1R" THEN [j \in VBytes |-> mem[ea.addr + (j % len)]]
                     ELSE Zeroed(BytesAt(addr(k), len))
           Read(m) == WithListed(regs, ea.ctx, [k \in 1 .. m |-> vec(k)])
           S == {m \in 0 .. Len(regs) : \A k \in 1 .. m : Mapped(addr(k), len)}
           n == Max(S)
<1>1. IsResolvedInst(i) /\ i.op \in {"LD1", "LD1R"}
  BY Executing DEF LoadVectors
<1>2. Len(regs) \in Nat
  BY <1>1, ListOperands DEF ListOps
<1>3. IF n < Len(regs) THEN Fail(Read(n), mem) ELSE Retire(PostIndexed(i, Read(n)), mem, NextPc)
  BY DEF LoadVectors
<1>4. n < Len(regs) /\ ctx' = Read(n) /\ mem' = mem
  BY <1>3 DEF Retire, Fail
<1>5. n \in S /\ (\A m \in S : m <= n) /\ n \in Nat
  <2>1. 0 \in S /\ S \subseteq Nat /\ S \in SUBSET (-Len(regs) .. Len(regs))
    BY <1>2
  <2> HIDE DEF S
  <2>2. Max(S) \in S /\ \A m \in S : Max(S) >= m
    BY <1>2, <2>1, Extremes
  <2> QED  BY <2>1, <2>2
<1>6. i.op = "LD1R" => n = 0
  <2> SUFFICES ASSUME i.op = "LD1R", n # 0 PROVE FALSE
    OBVIOUS
  <2> HIDE DEF n, i, ea, regs, len
  <2>1. 1 \in 1 .. n /\ Mapped(addr(1), len)
    BY <1>5
  <2>2. \A k : addr(k) = ea.addr
    OBVIOUS
  <2> HIDE DEF addr
  <2>3. \A k \in 1 .. Len(regs) : Mapped(addr(k), len)
    BY <2>1, <2>2
  <2>4. Len(regs) \in S
    BY <1>2, <2>3
  <2> QED  BY <1>2, <1>4, <1>5, <2>4
<1> DEFINE vecs == [k \in 1 .. n |-> vec(k)]
<1>7. DOMAIN vecs = 1 .. n /\ ctx' = WithListed(regs, ea.ctx, vecs)
  BY <1>4
<1> HIDE DEF vecs, n, regs, ea
<1>8. ReadUpTo(regs, ea.ctx, ctx')
  BY <1>4, <1>5, <1>6, <1>7 DEF ReadUpTo
<1> QED  BY <1>1, <1>4, <1>8 DEF regs, ea

(* From c to f no more than a list load that fails may change; d is the    *)
(* context after its addressing mode.                                      *)
ListedOnly(regs, c, d, f) ==
  /\ [f EXCEPT !.x = c.x, !.sp = c.sp, !.v = c.v] = c
  /\ f.x = d.x /\ f.sp = d.sp
  /\ f.v # c.v => Inst.op # "LD1R"
  /\ \A n \in VRegs : f.v[n] # c.v[n] => \E k \in 1 .. Len(regs) - 1 : regs[k] = n

LEMMA ListedFrame ==
  ASSUME NEW c \in CpuContext, NEW d \in CpuContext, NEW regs, NEW op, NEW f,
         OnlyBase(op, c, d), ReadUpTo(regs, d, f), Len(regs) \in Nat
  PROVE  ListedOnly(regs, c, d, f)
<1>1. PICK m \in Nat : \E vecs : /\ m < Len(regs) /\ DOMAIN vecs = 1 .. m
                                 /\ f = WithListed(regs, d, vecs)
                                 /\ Inst.op = "LD1R" => m = 0
  BY DEF ReadUpTo
<1>2. PICK vecs : /\ m < Len(regs) /\ DOMAIN vecs = 1 .. m
                  /\ f = WithListed(regs, d, vecs)
                  /\ Inst.op = "LD1R" => m = 0
  BY <1>1
<1> DEFINE named(r) == {k \in DOMAIN vecs : regs[k] = r}
           v == [r \in VRegs |-> IF named(r) = {} THEN d.v[r] ELSE vecs[Max(named(r))]]
<1>3. f = [d EXCEPT !.v = v]
  BY <1>2 DEF WithListed
<1>4. d.v = c.v /\ d.v \in [VRegs -> Vector]
  BY ContextFields DEF OnlyBase
<1>5. ASSUME NEW n \in VRegs, v[n] # c.v[n] PROVE \E k \in 1 .. m : regs[k] = n
  BY <1>2, <1>4, <1>5
<1>6. ASSUME v # c.v PROVE \E n \in VRegs : v[n] # c.v[n]
  BY <1>4, <1>6
<1> HIDE DEF v
<1>7. f.x = d.x /\ f.sp = d.sp /\ f.v = v
  BY <1>3 DEF CpuContext
<1>8. [f EXCEPT !.x = c.x, !.sp = c.sp, !.v = c.v] = [d EXCEPT !.x = c.x, !.sp = c.sp, !.v = c.v]
  BY <1>3 DEF CpuContext
<1>9. 1 .. m \subseteq 1 .. Len(regs) - 1
  BY <1>2
<1>10. f.v # c.v => Inst.op # "LD1R"
  BY <1>2, <1>5, <1>6, <1>7
<1> QED  BY <1>5, <1>7, <1>8, <1>9, <1>10 DEF OnlyBase, ListedOnly

(* The ways a step can fail.                                               *)
LEMMA Faults ==
  ASSUME TypeOK, MemoryPlaced, step, ret' = "err"
  PROVE  LET moved == eval_mem_addr(Inst.ops[AddressOf(Inst)], ctx).ctx
         IN  \/ ctx' = ctx /\ mem' = mem
             \/ Executes(MemoryOps \ {"SYS"}) /\ ctx' = moved /\ mem' = mem
             \/ /\ Executes(MemoryWriters) /\ ctx' = moved
                /\ \A b \in DOMAIN mem : mem'[b] # mem[b] =>
                     b \in Footprint(Inst) /\ \E gap \in Footprint(Inst) \ DOMAIN mem : b < gap
             \/ Executes({"LD1", "LD1R"}) /\ mem' = mem /\ ReadUpTo(Inst.ops[1].regs, moved, ctx')
<1> USE DEF AddressOf
<1>1. CASE FetchFault \/ Undefined
  BY <1>1 DEF FetchFault, Undefined, Fail
<1>2. CASE SkipUndecoded \/ DcZva \/ VectorProcessing \/ DataProcessing
  BY <1>2 DEF SkipUndecoded, DcZva, VectorProcessing, DataProcessing, Retire
<1>3. CASE Branch \/ BranchIf \/ CompareBranch \/ TestBranch \/ BranchLink \/ Return
  BY <1>3 DEF Branch, BranchIf, CompareBranch, TestBranch, BranchLink, Return, Retire
<1>4. CASE LoadRegister
  <2>1. Executes(LoadOps) /\ Inst.op \in LoadOps
    BY <1>4 DEF LoadRegister, Executes
  <2>2. Executes(MemoryOps \ {"SYS"}) /\ AddressOf(Inst) = 2
    BY <2>1 DEF Executes, MemoryOps, LoadOps
  <2>3. Fail(eval_mem_addr(Inst.ops[2], ctx).ctx, mem) \/ \E c, m, pc : Retire(c, m, pc)
    BY <1>4 DEF LoadRegister
  <2> QED  BY <2>2, <2>3 DEF Fail, Retire
<1>5. CASE LoadPair
  <2>1. Executes({"LDP"}) /\ Inst.op = "LDP"
    BY <1>5 DEF LoadPair, Executes
  <2>2. Executes(MemoryOps \ {"SYS"}) /\ AddressOf(Inst) = 3
    BY <2>1 DEF Executes, MemoryOps
  <2>3. Fail(eval_mem_addr(Inst.ops[3], ctx).ctx, mem) \/ \E c, m, pc : Retire(c, m, pc)
    BY <1>5 DEF LoadPair
  <2> QED  BY <2>2, <2>3 DEF Fail, Retire
<1>6. CASE StoreRegister \/ StorePair \/ StoreExclusive \/ StoreVectors
  <2> DEFINE ea == eval_mem_addr(Inst.ops[AddressOf(Inst)], ctx)
  <2>1. Executes(MemoryWriters)
    <3>1. Executes(StoreOps) \/ Executes({"STP"}) \/ Executes({"STXR", "STXRB"}) \/ Executes({"ST1"})
      BY <1>6 DEF StoreRegister, StorePair, StoreExclusive, StoreVectors
    <3> QED  BY <3>1 DEF Executes, MemoryWriters, StoreOps
  <2>2. \E bytes, c : \E len \in Nat : IsStore(ea, bytes, len, c)
    BY <2>1, Writers
  <2> HIDE DEF ea
  <2>3. PICK bytes, c : \E len \in Nat : IsStore(ea, bytes, len, c)
    BY <2>2
  <2>4. PICK len \in Nat : IsStore(ea, bytes, len, c)
    BY <2>3
  <2>5. /\ Store(ea, bytes, c) /\ DOMAIN bytes = 0 .. len - 1 /\ ea.addr \in XWord
        /\ Footprint(Inst) = ea.addr .. ea.addr + len - 1
    BY <2>4 DEF IsStore
  <2>6. /\ \A b \in DOMAIN mem : mem'[b] # mem[b] => b \in ea.addr .. ea.addr + len - 1
        /\ ctx' = ea.ctx
        /\ \A b \in DOMAIN mem : mem'[b] # mem[b] =>
             \E gap \in (ea.addr .. ea.addr + len - 1) \ DOMAIN mem : b < gap
    BY <2>5, StoreEffect
  <2> QED  BY <2>1, <2>5, <2>6 DEF ea
<1>7. CASE LoadVectors
  <2>1. Executes({"LD1", "LD1R"}) /\ Inst.op \in {"LD1", "LD1R"}
    BY <1>7 DEF LoadVectors, Executes
  <2> QED  BY <1>7, <2>1, ListFault
<1>8. CASE LoadStructures
  BY <1>8 DEF LoadStructures, Retire
<1>9. CASE SupervisorCall
  BY <1>9 DEF SupervisorCall, Retire
<1>10. CASE OverflowPanic
  BY <1>10 DEF OverflowPanic
<1> QED  BY <1>1, <1>2, <1>3, <1>4, <1>5, <1>6, <1>7, <1>8, <1>9, <1>10 DEF step

(* A fault leaves flags, system registers and pc as they were, writes no   *)
(* register but the base of the access and, for LD1, vectors already read, *)
(* and no byte of memory past the first that is not mapped, for any        *)
(* decoder and any memory (eval_mem_addr and the arms from LDR to ST1).    *)
THEOREM FaultsAlwaysPrecise == Spec => FaultsPrecise
<1>1. ASSUME TypeOK, MemoryPlaced, [step]_vars PROVE [FaultRight]_vars
  <2> SUFFICES ASSUME step, ret' = "err" PROVE FaultRight
    BY <1>1 DEF FaultRight
  <2> USE <1>1
  <2> DEFINE moved == eval_mem_addr(Inst.ops[AddressOf(Inst)], ctx).ctx
             base == Inst.ops[AddressOf(Inst)]
  <2>0. ctx \in CpuContext
    BY DEF TypeOK
  <2>1. \/ ctx' = ctx /\ mem' = mem
        \/ Executes(MemoryOps \ {"SYS"}) /\ ctx' = moved /\ mem' = mem
        \/ /\ Executes(MemoryWriters) /\ ctx' = moved
           /\ \A b \in DOMAIN mem : mem'[b] # mem[b] =>
                b \in Footprint(Inst) /\ \E gap \in Footprint(Inst) \ DOMAIN mem : b < gap
        \/ Executes({"LD1", "LD1R"}) /\ mem' = mem /\ ReadUpTo(Inst.ops[1].regs, moved, ctx')
    BY Faults
  <2>2. ASSUME Executes(MemoryOps \ {"SYS"})
        PROVE  /\ Fetched /\ moved \in CpuContext /\ OnlyBase(base, ctx, moved)
               /\ WritesBack(base) => base.reg.n \in WrittenBack(Inst)
    <3>1. IsResolvedInst(Inst) /\ Inst.op \in MemoryOps \ {"SYS"} /\ Fetched
      BY <2>2, Executing DEF Executes
    <3>2. IsResolved(base) /\ base.kind \in MemoryKinds /\ (WritesBack(base) => base.reg.n \in WrittenBack(Inst))
      BY <3>1, AddressOperand
    <3> HIDE DEF base
    <3>3. eval_mem_addr(base, ctx).ctx \in CpuContext /\ OnlyBase(base, ctx, eval_mem_addr(base, ctx).ctx)
      BY <2>0, <3>2, AddressTyped, AddressMovesBase
    <3> QED  BY <3>1, <3>2, <3>3 DEF base
  <2>3. /\ Executes(MemoryWriters) => Executes(MemoryOps \ {"SYS"})
        /\ Executes({"LD1", "LD1R"}) => Executes(MemoryOps \ {"SYS"})
    BY DEF Executes, MemoryWriters, MemoryOps, StoreOps, ListOps
  <2> HIDE DEF moved, base
  <2>4. CASE ctx' = ctx /\ mem' = mem
    BY <2>0, <2>4, SameContext DEF FaultRight
  <2>5. CASE Executes(MemoryOps \ {"SYS"}) /\ ctx' = moved /\ mem' = mem
    BY <2>2, <2>5 DEF FaultRight, OnlyBase
  <2>6. CASE /\ Executes(MemoryWriters) /\ ctx' = moved
             /\ \A b \in DOMAIN mem : mem'[b] # mem[b] =>
                  b \in Footprint(Inst) /\ \E gap \in Footprint(Inst) \ DOMAIN mem : b < gap
    BY <2>2, <2>3, <2>6 DEF FaultRight, OnlyBase
  <2>7. CASE Executes({"LD1", "LD1R"}) /\ mem' = mem /\ ReadUpTo(Inst.ops[1].regs, moved, ctx')
    <3> DEFINE regs == Inst.ops[1].regs
               f == ctx'
    <3>1. moved \in CpuContext /\ OnlyBase(base, ctx, moved) /\ Fetched
          /\ (WritesBack(base) => base.reg.n \in WrittenBack(Inst))
      BY <2>2, <2>3, <2>7
    <3>2. Len(regs) \in Nat /\ Inst.op \in {"LD1", "LD1R"}
      <4>1. IsResolvedInst(Inst) /\ Inst.op \in {"LD1", "LD1R"}
        BY <2>7, Executing
      <4> QED  BY <4>1, ListOperands DEF ListOps
    <3>3. ReadUpTo(regs, moved, f)
      BY <2>7
    <3> HIDE DEF regs, f
    <3>4. ListedOnly(regs, ctx, moved, f)
      BY <2>0, <3>1, <3>2, <3>3, ListedFrame
    <3>5. f.v # ctx.v => Executes({"LD1"})
      BY <2>7, <3>2, <3>4 DEF Executes, ListedOnly
    <3> QED  BY <2>7, <3>1, <3>4, <3>5 DEF FaultRight, OnlyBase, ListedOnly, regs, f
  <2> QED  BY <2>1, <2>4, <2>5, <2>6, <2>7
<1> QED  BY <1>1, InterpreterTyped, MemoryStays, PTL DEF Spec, FaultsPrecise

-----------------------------------------------------------------------------
(* Loads.                                                                  *)

LEMMA HalfMonotone ==
  ASSUME NEW n \in Nat \ {0}, NEW m \in 1 .. n
  PROVE  Half(m) \in Nat /\ Half(n) \in Nat /\ Half(m) <= Half(n)
<1>1. m - 1 \in 0 .. n - 1 /\ n - 1 \in Nat
  OBVIOUS
<1> QED  BY <1>1, PowerMonotone, PowerNat DEF Half

(* A sign extension in a register at least as wide.                        *)
LEMMA ExtendedInRegister ==
  ASSUME NEW v \in Int, NEW width \in {WBits, XBits}, NEW m \in 1 .. width
  PROVE  Signed(Low(SignExtend(v, m), width), width) = Signed(v, m)
<1> DEFINE s == Signed(v, m)
<1>1. width \in Nat \ {0} /\ XBits \in Nat /\ width \in 0 .. XBits /\ width \in 1 .. width /\ m \in Nat \ {0}
  BY Widths
<1>2. s \in -Half(m) .. Half(m) - 1 /\ s \in Int
  <2>1. s \in -(2^(m - 1)) .. 2^(m - 1) - 1
    BY <1>1, SignedRange
  <2> HIDE DEF s
  <2>2. Half(m) = 2^(m - 1) /\ Half(m) \in Nat
    BY <1>1, HalfMonotone DEF Half
  <2> QED  BY <2>1, <2>2
<1>3. Low(SignExtend(v, m), width) = Low(s, width)
  <2> HIDE DEF s
  <2>1. Low(Low(s, XBits), width) = Low(s, width)
    BY <1>1, <1>2, LowTwice
  <2> QED  BY <2>1 DEF SignExtend, Wrap, s
<1> HIDE DEF s
<1>4. Signed(Low(s, width), width) = Signed(s, width)
  BY <1>1, <1>2, SignedOfLow
<1>5. s \in -Half(width) .. Half(width) - 1
  BY <1>1, <1>2, HalfMonotone
<1>6. Signed(s, width) = s
  BY <1>1, <1>5, SignedOfSmall
<1> QED  BY <1>3, <1>4, <1>6 DEF s

LEMMA RegisterLoaded ==
  ASSUME TypeOK, LoadRegister, ret' = "ok"
  PROVE  LET ea == eval_mem_addr(Inst.ops[2], ctx)
             len == LoadBytes(Inst)
         IN  /\ IsResolvedInst(Inst) /\ Inst.op \in LoadOps /\ Rd(Inst) \in Registers
             /\ ea.ctx \in CpuContext /\ ea.addr \in XWord
             /\ Mapped(ea.addr, len) /\ len \in {1, 2, 4, 8, 16}
             /\ ctx' = [IF Inst.op = "LDR" THEN Loaded(Rd(Inst), BytesAt(ea.addr, len), ea.ctx)
                        ELSE set_reg_val(Rd(Inst), Extended(Inst, Load(ea.addr, len)), ea.ctx)
                          EXCEPT !.pc = NextPc]
<1> DEFINE i == Inst
           ea == eval_mem_addr(i.ops[2], ctx)
           len == LoadBytes(i)
           c == IF i.op = "LDR" THEN Loaded(Rd(i), BytesAt(ea.addr, len), ea.ctx)
                ELSE set_reg_val(Rd(i), Extended(i, Load(ea.addr, len)), ea.ctx)
<1>1. IsResolvedInst(i) /\ i.op \in LoadOps /\ ctx \in CpuContext
  BY Executing DEF LoadRegister
<1>2. Rd(i) \in Registers /\ ea.addr \in XWord /\ ea.ctx \in CpuContext
  BY <1>1, AccessOperands
<1>3. IF ~Mapped(ea.addr, len) THEN Fail(ea.ctx, mem) ELSE Retire(c, mem, NextPc)
  BY DEF LoadRegister
<1>4. Mapped(ea.addr, len) /\ ctx' = [c EXCEPT !.pc = NextPc]
  <2> HIDE DEF c, ea, len
  <2> QED  BY <1>3 DEF Fail, Retire
<1>5. len \in {1, 2, 4, 8, 16}
  <2> HIDE DEF i
  <2> QED  BY <1>1, <1>2, WordBytesRange DEF LoadBytes, LoadOps
<1> QED  BY <1>1, <1>2, <1>4, <1>5

(* A load that completes leaves in its register the unsigned or the signed *)
(* integer of the bytes it names, at every width, whatever the register's  *)
(* (the LDR to LDRSW arms, eval_mem_addr and set_reg_val).                 *)
THEOREM LoadsAlwaysExtend == Spec => LoadsExtend
<1>1. ASSUME TypeOK, [step]_vars PROVE [LoadRight]_vars
  <2> DEFINE len == CASE Inst.op \in {"LDRB", "LDRSB"} -> 1
                      [] Inst.op \in {"LDRH", "LDRSH"} -> 2
                      [] Inst.op = "LDRSW" -> 4
                      [] Inst.op = "LDR" -> IF Rd(Inst).w THEN 4 ELSE 8
             addr == eval_mem_addr(Inst.ops[2], ctx).addr
             val == FromBytes([j \in 0 .. len - 1 |-> mem[addr + j]])
             res == ctx'.x[Rd(Inst).n]
             signs == Inst.op \in {"LDRSB", "LDRSH", "LDRSW"}
             n == Width(Rd(Inst))
  <2> SUFFICES ASSUME step, Completed(LoadOps), ~IsVec(Rd(Inst)), Rd(Inst).n \in Regs
               PROVE  IF signs THEN Signed(res, n) = Signed(val, ByteBits * len) ELSE res = val
    BY <1>1 DEF LoadRight
  <2> USE <1>1
  <2>1. Executes(MemoryOps) /\ Inst.op \in LoadOps /\ ret' = "ok"
    BY DEF Completed, Executes, MemoryOps
  <2>2. LoadRegister
    BY <2>1, MemoryArm
  <2> DEFINE ea == eval_mem_addr(Inst.ops[2], ctx)
             size == LoadBytes(Inst)
             v == IF Inst.op = "LDR" THEN val ELSE Extended(Inst, val)
  <2>3. /\ IsResolvedInst(Inst) /\ Rd(Inst) \in Registers
        /\ ea.ctx \in CpuContext /\ ea.addr \in XWord /\ Mapped(ea.addr, size)
        /\ ctx' = [IF Inst.op = "LDR" THEN Loaded(Rd(Inst), BytesAt(ea.addr, size), ea.ctx)
                   ELSE set_reg_val(Rd(Inst), Extended(Inst, Load(ea.addr, size)), ea.ctx)
                     EXCEPT !.pc = NextPc]
    BY <2>1, <2>2, RegisterLoaded
  <2>4. /\ is_w_reg(Rd(Inst)) = Rd(Inst).w
        /\ n = IF Rd(Inst).w THEN WBits ELSE XBits
        /\ WordBytes(Rd(Inst)) = IF Rd(Inst).w THEN 4 ELSE 8
    <3>1. Rd(Inst) # WSP
      BY RegsAssumption DEF WSP, W
    <3>2. Rd(Inst).w \in BOOLEAN
      BY <2>3 DEF Registers
    <3> QED  BY <3>1, <3>2 DEF is_w_reg, Width, WordBytes
  <2>5. size = len
    BY <2>1, <2>4 DEF LoadBytes, LoadOps
  <2>6. ctx' = [set_reg_val(Rd(Inst), v, ea.ctx) EXCEPT !.pc = NextPc]
    <3>1. Load(ea.addr, size) = val /\ FromBytes(BytesAt(ea.addr, size)) = val
      BY <2>5 DEF Load, BytesAt
    <3> HIDE DEF ea, val, size
    <3> QED  BY <2>3, <3>1 DEF Loaded
  <2>7. len \in Nat \ {0} /\ ByteBits * len \in 1 .. n /\ n \in {WBits, XBits} /\ n \in Nat \ {0}
        /\ (Inst.op = "LDR" => ByteBits * len = n)
    <3>1. len \in {1, 2, 4, 8} /\ (len = 8 => Inst.op = "LDR") /\ (Inst.op = "LDR" => len = IF Rd(Inst).w THEN 4 ELSE 8)
      BY <2>1, <2>3 DEF LoadOps, Registers
    <3> HIDE DEF len
    <3>2. ByteBits \in Nat \ {0} /\ WBits = 4 * ByteBits /\ XBits = 8 * ByteBits
      BY Widths
    <3>3. /\ ByteBits * 1 = ByteBits /\ ByteBits * 2 = 2 * ByteBits
          /\ ByteBits * 4 = 4 * ByteBits /\ ByteBits * 8 = 8 * ByteBits
      BY <3>2
    <3> QED  BY <2>4, <3>1, <3>2, <3>3
  <2>8. val \in 0 .. 2^(ByteBits * len) - 1 /\ val \in Int
    <3>1. ea.addr \in Int /\ MemoryTyped
      BY <2>3, WordNat DEF TypeOK, MemoryTyped, HoldsBytes, Byte
    <3>2. val = Load(ea.addr, len) /\ Mapped(ea.addr, len)
      BY <2>3, <2>5 DEF Load, BytesAt
    <3> HIDE DEF val, ea, len
    <3>3. val \in 0 .. 2^(ByteBits * len) - 1
      BY <2>7, <3>1, <3>2, LoadRange
    <3>4. 2^(ByteBits * len) \in Nat
      BY <2>7, PowerNat
    <3> QED  BY <3>3, <3>4
  <2>9. v = IF signs THEN SignExtend(val, ByteBits * len) ELSE val
    <3>1. Inst.op # "LDR" \/ ~signs
      OBVIOUS
    <3> HIDE DEF val, len
    <3> QED  BY <2>5, <3>1 DEF Extended
  <2>10. v \in Int
    <3> HIDE DEF val, len, signs
    <3>1. ByteBits * len \in Nat
      BY <2>7
    <3>2. SignExtend(val, ByteBits * len) \in XWord
      BY <2>8, <3>1, SignExtendWord
    <3> QED  BY <2>8, <2>9, <3>2, WordNat
  <2>11. res = Low(v, n)
    <3> DEFINE reg == Rd(Inst)
               c == ea.ctx
               d == [set_reg_val(reg, v, c) EXCEPT !.pc = NextPc]
    <3>1. c \in CpuContext /\ reg \in Registers /\ ~IsVec(reg) /\ reg.n \in Regs /\ v \in Int
      BY <2>3, <2>10
    <3>2. ctx' = d
      BY <2>6
    <3> HIDE DEF v, c, reg
    <3>3. d.x[reg.n] = Low(v, Width(reg))
      BY <3>1, RegisterSet
    <3> HIDE DEF d
    <3> QED  BY <3>2, <3>3 DEF reg
  <2> HIDE DEF res, v, n, val, len, signs
  <2>12. CASE signs
    <3>1. Signed(Low(SignExtend(val, ByteBits * len), n), n) = Signed(val, ByteBits * len)
      BY <2>7, <2>8, ExtendedInRegister
    <3> QED  BY <2>9, <2>11, <2>12, <3>1
  <2>13. CASE ~signs
    <3>1. val \in 0 .. 2^n - 1
      <4>1. 2^(ByteBits * len) <= 2^n /\ 2^n \in Nat /\ 2^(ByteBits * len) \in Nat
        <5>1. ByteBits * len \in 0 .. n /\ n \in Nat /\ ByteBits * len \in Nat
          BY <2>7
        <5> QED  BY <5>1, PowerMonotone, PowerNat
      <4> QED  BY <2>8, <4>1
    <3>2. Low(val, n) = val
      BY <2>7, <3>1, LowOfSmall
    <3> QED  BY <2>9, <2>11, <2>13, <3>2
  <2> QED  BY <2>12, <2>13
<1> QED  BY <1>1, InterpreterTyped, PTL DEF Spec, LoadsExtend

-----------------------------------------------------------------------------
(* Loads of vectors.                                                       *)

IsLast(regs, k) == \A m \in DOMAIN regs : regs[m] = regs[k] => m <= k

WithVectors(c, u) == [c EXCEPT !.v = u]

(* u has vecs[k] in the k-th of the registers, the last for its register.  *)
Holds(u, regs, vecs) == \A k \in 1 .. Len(regs) : IsLast(regs, k) => u[regs[k]] = vecs[k]

(* The last vector for a register is the one that stays.                   *)
LEMMA LastListed ==
  ASSUME NEW regs \in Seq(VRegs), NEW c \in CpuContext, NEW vecs, DOMAIN vecs = 1 .. Len(regs)
  PROVE  \E u : WithListed(regs, c, vecs) = WithVectors(c, u) /\ Holds(u, regs, vecs)
<1> DEFINE n == Len(regs)
           named(r) == {m \in DOMAIN vecs : regs[m] = r}
           v == [r \in VRegs |-> IF named(r) = {} THEN c.v[r] ELSE vecs[Max(named(r))]]
<1>1. ASSUME NEW k \in 1 .. n, IsLast(regs, k) PROVE v[regs[k]] = vecs[k]
  <2> DEFINE S == named(regs[k])
  <2>1. n \in Nat /\ DOMAIN regs = 1 .. n /\ regs[k] \in VRegs
    OBVIOUS
  <2>2. k \in S /\ S \subseteq 1 .. n /\ (\A m \in S : m <= k) /\ S \in SUBSET (-n .. n)
    BY <1>1, <2>1 DEF IsLast
  <2>3. v[regs[k]] = IF S = {} THEN c.v[regs[k]] ELSE vecs[Max(S)]
    BY <2>1
  <2> HIDE DEF v, S, n
  <2>4. Max(S) \in S /\ Max(S) >= k
    BY <2>1, <2>2, Extremes
  <2>5. Max(S) = k
    <3> DEFINE x == Max(S)
    <3>1. x \in S /\ x >= k
      BY <2>4
    <3> HIDE DEF x
    <3>2. x <= k /\ x \in Int /\ k \in Int
      BY <2>1, <2>2, <3>1
    <3> QED  BY <3>1, <3>2 DEF x
  <2> QED  BY <2>2, <2>3, <2>5
<1>2. WithListed(regs, c, vecs) = [c EXCEPT !.v = v]
  BY DEF WithListed
<1> HIDE DEF v
<1>3. WithListed(regs, c, vecs) = WithVectors(c, v) /\ Holds(v, regs, vecs)
  BY <1>1, <1>2 DEF WithVectors, Holds
<1> QED  BY <1>3

Moved(i, c, pc) == [PostIndexed(i, c) EXCEPT !.pc = pc]

(* The increment of the base and of the pc leave the vectors.              *)
LEMMA PostIndexKeepsVectors ==
  ASSUME NEW d \in CpuContext, NEW u, NEW i, IsResolvedInst(i), i.op \in ListOps, NEW pc
  PROVE  Moved(i, WithVectors(d, u), pc).v = u
<1> DEFINE base == i.ops[2].reg
           c == WithVectors(d, u)
<1>1. c.v = u /\ DOMAIN c = DOMAIN d /\ {"v", "x", "sp", "pc"} \subseteq DOMAIN d
  BY DEF CpuContext, WithVectors
<1> HIDE DEF c
<1>2. CASE i.ops[2].kind = "mem"
  <2>1. base \in GeneralRegisters
    <3>1. DOMAIN i.ops = 1 .. Len(i.ops) /\ 2 \in 1 .. Len(i.ops)
      BY AccessOperands DEF IsResolvedInst, IsInstruction
    <3>2. IsOperand(i.ops[2])
      BY <3>1 DEF IsResolvedInst, IsInstruction
    <3> QED  BY <1>2, <3>2 DEF IsOperand, MemoryKinds
  <2>2. ~IsVec(base)
    BY <2>1 DEF GeneralRegisters
  <2>3. ASSUME NEW w PROVE [set_reg_val(base, w, c) EXCEPT !.pc = pc].v = u
    <3> HIDE DEF base
    <3> QED  BY <1>1, <2>2 DEF set_reg_val, set_x
  <2>4. PostIndexed(i, c) = c \/ \E w : PostIndexed(i, c) = set_reg_val(base, w, c)
    BY DEF PostIndexed
  <2> QED  BY <1>1, <2>3, <2>4 DEF c, Moved
<1>3. CASE i.ops[2].kind # "mem"
  <2>1. PostIndexed(i, c) = c
    BY <1>3 DEF PostIndexed
  <2> QED  BY <1>1, <2>1 DEF c, Moved
<1> QED  BY <1>2, <1>3

LEMMA PlaceInWord ==
  ASSUME NEW a \in XWord
  PROVE  Wrap(a) = a
BY Widths, WordNat, LowOfSmall DEF Wrap, XWord

(* What LD1 and LD1R put in the k-th of their registers.                   *)
LEMMA ConsecutiveLoaded ==
  ASSUME TypeOK, LoadVectors, ret' = "ok",
         NEW k \in 1 .. Len(Inst.ops[1].regs), IsLast(Inst.ops[1].regs, k)
  PROVE  LET addr == eval_mem_addr(Inst.ops[2], ctx).addr
         IN  ctx'.v[Inst.ops[1].regs[k]] =
               IF Inst.op = "LD1R" THEN [j \in VBytes |-> mem[addr + (j % Inst.ops[1].es)]]
               ELSE Zeroed(BytesAt(Wrap(addr + ListedBytes(Inst) * (k - 1)), ListedBytes(Inst)))
<1> DEFINE i == Inst
           ea == eval_mem_addr(i.ops[2], ctx)
           regs == i.ops[1].regs
           len == IF i.op = "LD1R" THEN get_vec_elem_size(i.ops[1]) ELSE ListedBytes(i)
           addr(m) == IF i.op = "LD1R" THEN ea.addr ELSE Wrap(ea.addr + len * (m - 1))
           vec(m) == IF i.op = "LD1R" THEN [j \in VBytes |-> mem[ea.addr + (j % len)]]
                     ELSE Zeroed(BytesAt(addr(m), len))
           Read(m) == WithListed(regs, ea.ctx, [l \in 1 .. m |-> vec(l)])
           S == {m \in 0 .. Len(regs) : \A l \in 1 .. m : Mapped(addr(l), len)}
           n == Max(S)
<1>1. IsResolvedInst(i) /\ i.op \in ListOps /\ i.op \in {"LD1", "LD1R"} /\ ctx \in CpuContext
  BY Executing DEF LoadVectors, ListOps
<1>2. regs \in Seq(VRegs) /\ Len(regs) \in Nat /\ ea.ctx \in CpuContext
  BY <1>1, ListOperands, AccessOperands
<1>3. IF n < Len(regs) THEN Fail(Read(n), mem) ELSE Retire(PostIndexed(i, Read(n)), mem, NextPc)
  BY DEF LoadVectors
<1>4. ~(n < Len(regs)) /\ ctx' = [PostIndexed(i, Read(n)) EXCEPT !.pc = NextPc]
  BY <1>3 DEF Retire, Fail
<1>5. n = Len(regs)
  <2>1. 0 \in S /\ S \subseteq 0 .. Len(regs) /\ S \in SUBSET (-Len(regs) .. Len(regs))
    BY <1>2
  <2> HIDE DEF S
  <2>2. Max(S) \in S
    BY <1>2, <2>1, Extremes
  <2>3. n \in 0 .. Len(regs)
    BY <2>1, <2>2
  <2>4. Len(regs) \in Nat
    BY <1>2
  <2> HIDE DEF n, regs, Read, i
  <2> QED  BY <1>4, <2>3, <2>4
<1> DEFINE vecs == [l \in 1 .. Len(regs) |-> vec(l)]
           c == WithListed(regs, ea.ctx, vecs)
<1>6. ctx' = [PostIndexed(i, c) EXCEPT !.pc = NextPc]
  BY <1>4, <1>5
<1>7. vecs[k] = vec(k) /\ DOMAIN vecs = 1 .. Len(regs)
  OBVIOUS
<1> HIDE DEF vecs
<1>8. PICK u : c = WithVectors(ea.ctx, u) /\ Holds(u, regs, vecs)
  <2> DEFINE d == ea.ctx
  <2>1. d \in CpuContext /\ c = WithListed(regs, d, vecs)
    BY <1>2
  <2> HIDE DEF regs, d, c
  <2> QED  BY <1>2, <1>7, <2>1, LastListed DEF d
<1>9. u[regs[k]] = vecs[k]
  BY <1>8 DEF Holds
<1>10. ctx'.v = u
  <2> DEFINE d == ea.ctx
  <2>1. ctx' = Moved(i, WithVectors(d, u), NextPc) /\ d \in CpuContext
    BY <1>2, <1>6, <1>8 DEF Moved
  <2> HIDE DEF i, d
  <2> QED  BY <1>1, <2>1, PostIndexKeepsVectors
<1> QED  BY <1>7, <1>9, <1>10 DEF get_vec_elem_size

(* What LD2 to LD4 put in the k-th of their n registers.                   *)
Interleaved(addr, n, k) == [j \in VBytes |-> mem[addr + ((j \div 4) * n + k - 1) * 4 + (j % 4)]]

LEMMA StructuresLoaded ==
  ASSUME TypeOK, LoadStructures
  PROVE  LET addr == eval_mem_addr(Inst.ops[2], ctx).addr
             regs == Inst.ops[1].regs
             n == Len(regs)
         IN  /\ Mapped(addr, 16 * n) => Holds(ctx'.v, regs, [k \in 1 .. n |-> Interleaved(addr, n, k)])
             /\ ~Mapped(addr, 16 * n) => ctx'.v = ctx.v
<1> DEFINE i == Inst
           ea == eval_mem_addr(i.ops[2], ctx)
           regs == i.ops[1].regs
           n == Len(regs)
           vecs == [k \in 1 .. n |-> Interleaved(ea.addr, n, k)]
           loaded == IF Mapped(ea.addr, 16 * n) THEN WithListed(regs, ea.ctx, vecs) ELSE ea.ctx
           d == ea.ctx
<1>1. /\ IsResolvedInst(i) /\ i.op \in ListOps /\ i.op \in MemoryOps \ {"SYS"} /\ ctx \in CpuContext
      /\ AddressOf(i) = 2
  BY Executing DEF LoadStructures, ListOps, MemoryOps, AddressOf
<1>2. regs \in Seq(VRegs) /\ d \in CpuContext /\ d.v = ctx.v
  <2>1. IsResolved(i.ops[2]) /\ i.ops[2].kind \in MemoryKinds
    BY <1>1, AddressOperand
  <2> HIDE DEF i
  <2>2. OnlyBase(i.ops[2], ctx, d)
    BY <1>1, <2>1, AddressMovesBase
  <2> QED  BY <1>1, <2>2, ListOperands, AccessOperands DEF OnlyBase, i
<1>3. ctx' = Moved(i, loaded, NextPc)
  BY DEF LoadStructures, Retire, Moved, Interleaved
<1>4. DOMAIN vecs = 1 .. Len(regs)
  OBVIOUS
<1> HIDE DEF i, d, vecs
<1>5. CASE Mapped(ea.addr, 16 * n)
  <2>1. PICK u : WithListed(regs, d, vecs) = WithVectors(d, u) /\ Holds(u, regs, vecs)
    <3> HIDE DEF regs
    <3> QED  BY <1>2, <1>4, LastListed
  <2>2. ctx'.v = u
    <3>1. ctx' = Moved(i, WithVectors(d, u), NextPc)
      BY <1>3, <1>5, <2>1 DEF d
    <3> QED  BY <1>1, <1>2, <3>1, PostIndexKeepsVectors
  <2> QED  BY <1>5, <2>1, <2>2 DEF i, vecs
<1>6. CASE ~Mapped(ea.addr, 16 * n)
  <2>1. ctx' = Moved(i, d, NextPc)
    BY <1>3, <1>6 DEF d
  <2>2. d = WithVectors(d, d.v)
    BY <1>2 DEF WithVectors, CpuContext
  <2>3. ctx'.v = d.v
    <3> DEFINE u == d.v
    <3>1. ctx' = Moved(i, WithVectors(d, u), NextPc)
      BY <2>1, <2>2
    <3> HIDE DEF u
    <3>2. ctx'.v = u
      BY <1>1, <1>2, <3>1, PostIndexKeepsVectors
    <3> QED  BY <3>2 DEF u
  <2> QED  BY <1>2, <1>6, <2>3 DEF i
<1> QED  BY <1>5, <1>6

(* What LDR and LDP put in the vectors they name.                          *)
LEMMA VectorLoaded ==
  ASSUME TypeOK, LoadRegister, ret' = "ok", Inst.op = "LDR", IsVec(Rd(Inst))
  PROVE  ctx'.v[Rd(Inst).n] = Zeroed(BytesAt(eval_mem_addr(Inst.ops[2], ctx).addr, Rd(Inst).vec))
<1> DEFINE ea == eval_mem_addr(Inst.ops[2], ctx)
           reg == Rd(Inst)
           bytes == BytesAt(ea.addr, LoadBytes(Inst))
           c == ea.ctx
<1>1. /\ reg \in Registers /\ c \in CpuContext
      /\ ctx' = [Loaded(reg, bytes, c) EXCEPT !.pc = NextPc]
  BY RegisterLoaded
<1>2. LoadBytes(Inst) = reg.vec
  BY DEF LoadBytes, WordBytes
<1>3. IsVec(reg)
  OBVIOUS
<1> HIDE DEF reg, bytes, c
<1>4. reg.n \in VRegs
  BY <1>1, <1>3, VectorName
<1>5. ctx'.v[reg.n] = Zeroed(bytes)
  BY <1>1, <1>3, <1>4 DEF Loaded, CpuContext
<1> QED  BY <1>2, <1>5 DEF reg, bytes

LEMMA VectorPairLoaded ==
  ASSUME TypeOK, LoadPair, ret' = "ok", IsVec(Rd(Inst))
  PROVE  LET addr == eval_mem_addr(Inst.ops[3], ctx).addr
             len == Rd(Inst).vec
             a == Rd(Inst).n
             b == Inst.ops[2].reg.n
         IN  /\ a \in VRegs /\ b \in VRegs /\ addr \in XWord /\ len \in Nat
             /\ ctx'.v[b] = Zeroed(BytesAt(Wrap(addr + len), len))
             /\ a # b => ctx'.v[a] = Zeroed(BytesAt(addr, len))
<1> DEFINE i == Inst
           ea == eval_mem_addr(i.ops[3], ctx)
           len == Rd(i).vec
           first == Rd(i)
           second == i.ops[2].reg
           one == BytesAt(ea.addr, len)
           two == BytesAt(Wrap(ea.addr + len), len)
           c == ea.ctx
<1>1. IsResolvedInst(i) /\ i.op = "LDP" /\ ctx \in CpuContext
  BY Executing DEF LoadPair
<1>2. first \in Registers /\ second \in Registers /\ ea.addr \in XWord /\ c \in CpuContext
  BY <1>1, AccessOperands
<1>3. IsVec(first) /\ IsVec(second)
  BY <1>1 DEF IsResolvedInst, IsInstruction, IsVec
<1>4. WordBytes(first) = len
  BY DEF WordBytes
<1>5. ctx' = [Loaded(second, two, Loaded(first, one, c)) EXCEPT !.pc = NextPc]
  BY <1>4 DEF LoadPair, Retire, Fail
<1>6. first.n \in VRegs /\ second.n \in VRegs /\ len \in Nat
  <2>1. first.n \in VRegs /\ second.n \in VRegs
    <3> HIDE DEF first, second
    <3> QED  BY <1>2, <1>3, VectorName
  <2>2. first.vec \in Nat
    <3> HIDE DEF first
    <3> QED  BY <1>2, <1>3 DEF Registers, IsVec
  <2> QED  BY <2>1, <2>2
<1> HIDE DEF first, second, one, two, c
<1>7. /\ ctx'.v[second.n] = Zeroed(two)
      /\ first.n # second.n => ctx'.v[first.n] = Zeroed(one)
  BY <1>2, <1>3, <1>5, <1>6 DEF Loaded, CpuContext
<1> QED  BY <1>2, <1>6, <1>7 DEF first, second, one, two

(* A completed load of vectors leaves in each register the bytes the       *)
(* manual puts there, for any decoder and any memory, also where the       *)
(* address wraps or a register is named twice (the LDR, LDP, LD1, LD1R and *)
(* LD2 to LD4 arms).                                                       *)
THEOREM VectorsAlwaysLoaded == Spec => VectorsLoaded
<1>1. ASSUME TypeOK, [step]_vars PROVE [VectorLoadRight]_vars
  <2> DEFINE i == Inst
             mop == i.ops[IF i.op = "LDP" THEN 3 ELSE 2]
             addr == eval_mem_addr(mop, ctx).addr
             regs == IF i.op \in ListLoads THEN i.ops[1].regs
                     ELSE IF i.op = "LDP" THEN <<Rd(i).n, i.ops[2].reg.n>> ELSE <<Rd(i).n>>
             size == IF i.op \in ListLoads THEN (IF i.ops[1].low THEN 8 ELSE 16) ELSE Rd(i).vec
             structured == i.op \in Structured
             place(k, j) == CASE i.op = "LD1R" -> addr + (j % i.ops[1].es)
                              [] structured -> addr + 4 * (Len(regs) * (j \div 4) + k - 1) + (j % 4)
                              [] OTHER -> Wrap(addr + size * (k - 1)) + j
             last(k) == \A m \in DOMAIN regs : regs[m] = regs[k] => m <= k
  <2> SUFFICES ASSUME step, Completed({"LDR", "LDP"} \cup ListLoads), LoadsVectors(Inst)
               PROVE  IF structured /\ ~Mapped(addr, 16 * Len(regs)) THEN ctx'.v = ctx.v
                      ELSE \A k \in DOMAIN regs, j \in VBytes :
                             last(k) => ctx'.v[regs[k]][j] = (IF j < size THEN mem[place(k, j)] ELSE 0)
    BY <1>1 DEF VectorLoadRight
  <2> USE <1>1
  <2>1. /\ Executes(MemoryOps) /\ ret' = "ok"
        /\ i.op \in {"LDR", "LDP", "LD1", "LD1R"} \cup Structured
        /\ IsResolvedInst(i) /\ ctx \in CpuContext
    <3>1. Executes(MemoryOps) /\ ret' = "ok" /\ i.op \in {"LDR", "LDP", "LD1", "LD1R"} \cup Structured
      BY DEF Completed, Executes, MemoryOps, LoadOps, ListLoads, ListOps, Structured
    <3> QED  BY <3>1, Executing
  <2>2. addr \in XWord /\ addr \in Int /\ Wrap(addr) = addr
    <3>1. addr \in XWord
      BY <2>1, AccessOperands DEF LoadOps, ListOps, Structured
    <3> QED  BY <3>1, WordNat, PlaceInWord
  <2>3. CASE i.op = "LDR"
    <3>1. IsVec(Rd(i)) /\ regs = <<Rd(i).n>> /\ size = Rd(i).vec /\ ~structured /\ i.op # "LD1R"
      BY <2>3 DEF LoadsVectors, ListLoads, ListOps, Structured
    <3>2. ctx'.v[Rd(i).n] = Zeroed(BytesAt(addr, size))
      BY <2>1, <2>3, <3>1, MemoryArm, VectorLoaded DEF LoadOps
    <3>3. size \in Nat
      <4>1. Rd(i) \in Registers
        BY <2>1, <2>3, AccessOperands DEF LoadOps
      <4> QED  BY <3>1, <4>1 DEF Registers
    <3>4. ASSUME NEW k \in DOMAIN regs, NEW j \in VBytes
          PROVE  ctx'.v[regs[k]][j] = IF j < size THEN mem[place(k, j)] ELSE 0
      <4>1. k = 1 /\ place(k, j) = addr + j
        <5>1. k = 1
          BY <3>1
        <5> HIDE DEF addr, size
        <5>2. addr + size * (k - 1) = addr
          BY <2>2, <3>3, <5>1
        <5> QED  BY <2>2, <3>1, <5>1, <5>2
      <4> HIDE DEF place, addr, size
      <4>2. ctx'.v[regs[k]] = Zeroed(BytesAt(addr, size))
        BY <3>1, <3>2, <4>1
      <4> HIDE DEF regs
      <4> QED  BY <3>3, <4>1, <4>2 DEF Zeroed, BytesAt, VBytes
    <3> HIDE DEF place, regs, size, structured
    <3> QED  BY <3>1, <3>4
  <2>4. CASE i.op = "LDP"
    <3> DEFINE a == Rd(i).n
               b == i.ops[2].reg.n
    <3>1. IsVec(Rd(i)) /\ regs = <<a, b>> /\ size = Rd(i).vec /\ ~structured /\ i.op # "LD1R"
      BY <2>4 DEF LoadsVectors, ListLoads, ListOps, Structured
    <3>2. /\ size \in Nat
          /\ ctx'.v[b] = Zeroed(BytesAt(Wrap(addr + size), size))
          /\ a # b => ctx'.v[a] = Zeroed(BytesAt(addr, size))
      <4>1. LoadPair
        BY <2>1, <2>4, MemoryArm
      <4> QED  BY <2>1, <2>4, <3>1, <4>1, VectorPairLoaded
    <3> HIDE DEF a, b, addr, size
    <3>3. ASSUME NEW k \in DOMAIN regs, NEW j \in VBytes, last(k)
          PROVE  ctx'.v[regs[k]][j] = IF j < size THEN mem[place(k, j)] ELSE 0
      <4>1. CASE k = 1
        <5>1. a # b
          BY <3>1, <3>3, <4>1
        <5>2. addr + size * (k - 1) = addr
          BY <2>2, <3>2, <4>1
        <5>3. place(k, j) = addr + j
          BY <2>2, <3>1, <5>2
        <5>4. ctx'.v[regs[k]] = Zeroed(BytesAt(addr, size))
          BY <3>1, <3>2, <4>1, <5>1
        <5> HIDE DEF place, regs
        <5> QED  BY <3>2, <5>3, <5>4 DEF Zeroed, BytesAt, VBytes
      <4>2. CASE k = 2
        <5>2. addr + size * (k - 1) = addr + size
          BY <2>2, <3>2, <4>2
        <5>3. place(k, j) = Wrap(addr + size) + j
          BY <3>1, <5>2
        <5>4. ctx'.v[regs[k]] = Zeroed(BytesAt(Wrap(addr + size), size))
          BY <3>1, <3>2, <4>2
        <5> HIDE DEF place, regs
        <5> QED  BY <3>2, <5>3, <5>4 DEF Zeroed, BytesAt, VBytes
      <4>3. k \in {1, 2}
        BY <3>1
      <4> QED  BY <4>1, <4>2, <4>3
    <3> HIDE DEF place, regs, structured, last
    <3> QED  BY <3>1, <3>3
  <2>5. CASE i.op \in {"LD1", "LD1R"}
    <3>1. /\ LoadVectors /\ regs = i.ops[1].regs /\ regs \in Seq(VRegs) /\ ~structured
          /\ size \in {8, 16} /\ ListedBytes(i) = size /\ (i.op = "LD1R" => size = 16)
      <4>1. LoadVectors /\ i.op \in ListLoads /\ i.op \in ListOps
        BY <2>1, <2>5, MemoryArm DEF ListLoads, ListOps
      <4>2. i.op = "LD1R" => ~i.ops[1].low
        BY <4>1 DEF LoadsVectors
      <4> QED  BY <2>1, <2>5, <4>1, <4>2, ListOperands DEF ListedBytes, is_64bit_vector, Structured
    <3>2. ASSUME NEW k \in DOMAIN regs, NEW j \in VBytes, last(k)
          PROVE  ctx'.v[regs[k]][j] = IF j < size THEN mem[place(k, j)] ELSE 0
      <4>1. k \in 1 .. Len(i.ops[1].regs) /\ IsLast(i.ops[1].regs, k)
        BY <3>1, <3>2 DEF IsLast
      <4>2. ctx'.v[regs[k]] = IF i.op = "LD1R" THEN [l \in VBytes |-> mem[addr + (l % i.ops[1].es)]]
                              ELSE Zeroed(BytesAt(Wrap(addr + size * (k - 1)), size))
        <5> DEFINE a == eval_mem_addr(i.ops[2], ctx).addr
        <5>1. addr = a
          BY <2>5
        <5>2. regs[k] = i.ops[1].regs[k] /\ ListedBytes(i) = size
          BY <3>1
        <5> HIDE DEF regs, size, addr, structured, place, last
        <5>3. ctx'.v[i.ops[1].regs[k]] =
                IF i.op = "LD1R" THEN [l \in VBytes |-> mem[a + (l % i.ops[1].es)]]
                ELSE Zeroed(BytesAt(Wrap(a + ListedBytes(i) * (k - 1)), ListedBytes(i)))
          BY <2>1, <3>1, <4>1, ConsecutiveLoaded
        <5> HIDE DEF a, i
        <5> QED  BY <5>1, <5>2, <5>3
      <4> HIDE DEF regs, size, addr, structured
      <4>3. CASE i.op = "LD1R"
        <5>1. place(k, j) = addr + (j % i.ops[1].es)
          BY <3>1, <4>3
        <5>2. ctx'.v[regs[k]] = [l \in VBytes |-> mem[addr + (l % i.ops[1].es)]]
          <6> HIDE DEF place, i
          <6> QED  BY <4>2, <4>3, ZenonT(30)
        <5>3. j < size
          BY <3>1, <4>3 DEF VBytes
        <5> HIDE DEF place, i
        <5> QED  BY <5>1, <5>2, <5>3
      <4>4. CASE i.op # "LD1R"
        <5> DEFINE p == Wrap(addr + size * (k - 1))
        <5>1. place(k, j) = p + j
          BY <3>1, <4>4
        <5> HIDE DEF p, place, i, last
        <5>2. ctx'.v[regs[k]] = Zeroed(BytesAt(p, size))
          BY <4>2, <4>4 DEF p
        <5>3. size \in {8, 16}
          BY <3>1
        <5> QED  BY <5>1, <5>2, <5>3 DEF Zeroed, BytesAt, VBytes
      <4> QED  BY <4>3, <4>4
    <3> HIDE DEF place, regs, structured, last, size
    <3> QED  BY <3>1, <3>2
  <2>6. CASE i.op \in Structured
    <3> DEFINE n == Len(regs)
    <3>1. /\ LoadStructures /\ regs = i.ops[1].regs /\ regs \in Seq(VRegs) /\ structured
          /\ size = 16 /\ i.op # "LD1R" /\ n \in Nat
      <4>1. LoadStructures /\ i.op \in ListLoads /\ i.op \in ListOps /\ i.op # "LD1R"
        BY <2>1, <2>6, MemoryArm DEF ListLoads, ListOps, Structured
      <4>2. ~i.ops[1].low
        BY <2>6, <4>1 DEF LoadsVectors
      <4> QED  BY <2>1, <2>6, <4>1, <4>2, ListOperands
    <3>2. /\ Mapped(addr, 16 * n) => Holds(ctx'.v, regs, [k \in 1 .. n |-> Interleaved(addr, n, k)])
          /\ ~Mapped(addr, 16 * n) => ctx'.v = ctx.v
      BY <2>6, <3>1, StructuresLoaded DEF Structured
    <3> HIDE DEF regs, size, addr, structured
    <3>3. ASSUME Mapped(addr, 16 * n), NEW k \in DOMAIN regs, NEW j \in VBytes, last(k)
          PROVE  ctx'.v[regs[k]][j] = IF j < size THEN mem[place(k, j)] ELSE 0
      <4>1. k \in 1 .. n /\ IsLast(regs, k)
        BY <3>1, <3>3 DEF IsLast
      <4>2. ctx'.v[regs[k]] = Interleaved(addr, n, k)
        BY <3>2, <3>3, <4>1 DEF Holds
      <4>3. place(k, j) = addr + ((j \div 4) * n + k - 1) * 4 + (j % 4)
        <5> DEFINE q == j \div 4
                   s == j % 4
        <5>1. q \in {0, 1, 2, 3} /\ s \in Int
          BY DEF VBytes
        <5>2. place(k, j) = addr + 4 * (n * q + k - 1) + s
          BY <3>1
        <5> HIDE DEF n, q, s, place
        <5>3. n * q = q * n /\ q * n \in Int /\ k \in Int
          BY <3>1, <4>1, <5>1
        <5> DEFINE x == q * n
        <5>4. place(k, j) = addr + 4 * (x + k - 1) + s
          BY <5>2, <5>3
        <5> HIDE DEF x
        <5>5. x \in Int
          BY <5>3 DEF x
        <5>6. place(k, j) = addr + (x + k - 1) * 4 + s
          BY <2>2, <5>1, <5>3, <5>4, <5>5
        <5> QED  BY <5>6 DEF x, q, s
      <4>4. ctx'.v[regs[k]][j] = mem[addr + ((j \div 4) * n + k - 1) * 4 + (j % 4)]
        <5> HIDE DEF n, place
        <5> QED  BY <4>2, Zenon DEF Interleaved
      <4>5. j < size
        BY <3>1 DEF VBytes
      <4> HIDE DEF place, n
      <4> QED  BY <4>3, <4>4, <4>5
    <3> HIDE DEF place, last
    <3> QED  BY <3>1, <3>2, <3>3
  <2> QED  BY <2>1, <2>3, <2>4, <2>5, <2>6
<1> QED  BY <1>1, InterpreterTyped, PTL DEF Spec, VectorsLoaded

=============================================================================
