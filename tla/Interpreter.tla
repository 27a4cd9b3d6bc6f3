----------------------------- MODULE Interpreter -----------------------------
(***************************************************************************)
(* Interpreter::step and run (src/src/interp/mod.rs): one guest            *)
(* instruction per step, until the guest exits or a step fails.            *)
(*                                                                         *)
(* Memory is the flat array of FlatMemory: the function mem from the       *)
(* mapped addresses to bytes.  Decode stands for bad64, the decoder        *)
(* library: it maps an instruction word to a mnemonic and operands, labels *)
(* as offsets from the pc.                                                 *)
(***************************************************************************)
EXTENDS Vectors

CONSTANTS
  Decode,       \* [words -> instructions]
  ZvaBytes,     \* bytes a DC ZVA clears; 64 in the source
  Images,       \* initial memories
  Contexts(_)   \* the contexts a run of a memory may start in

ASSUME ZvaAssumption == ZvaBytes \in Nat \ {0}

-----------------------------------------------------------------------------
(* What bad64 promises of the operands it decodes and step relies on: it   *)
(* indexes and unwraps them without a check of its own.                    *)

Registers ==
  {r \in [w : BOOLEAN, n : 0 .. 32, vec : {0, 1, 2, 4, 8, 16}] :
     r.vec # 0 => ~r.w /\ r.n \in VRegs}

GeneralRegisters == {r \in Registers : ~IsVec(r)}

ShiftKinds == {"LSL", "LSR", "ASR", "ROR", "UXTB", "UXTH", "UXTW", "UXTX",
               "SXTB", "SXTH", "SXTW", "SXTX"}

MemoryKinds == {"label", "mem", "memext", "mempostreg"}

IsOperand(op) ==
  /\ op.kind \in {"reg", "shiftreg", "imm", "multireg", "cond", "sysreg"} \cup MemoryKinds
  /\ op.kind = "reg" => /\ op.reg \in Registers /\ op.es \in {1, 2, 4, 8}
                        /\ op.low \in BOOLEAN /\ op.lane \in Nat
  /\ op.kind = "shiftreg" => /\ op.reg \in GeneralRegisters
                             /\ op.shift.kind \in ShiftKinds /\ op.shift.amt \in Nat
  /\ op.kind = "imm" => op.val \in XWord /\ op.shift.amt \in Nat
  /\ op.kind = "multireg" => /\ op.regs \in Seq(VRegs) /\ op.es \in {1, 2, 4, 8}
                             /\ op.low \in BOOLEAN
  /\ op.kind = "label" => op.val \in Int
  /\ op.kind \in MemoryKinds \ {"label"} => op.reg \in GeneralRegisters
  /\ op.kind = "mem" => op.mode \in {"offset", "pre", "post"} /\ op.off \in Int
  /\ op.kind \in {"memext", "mempostreg"} => op.index \in GeneralRegisters
  /\ op.kind = "sysreg" => op.cnt \in BOOLEAN /\ (op.name \in {"TPIDR_EL0", "DCZID_EL0"} => ~op.cnt)
  /\ op.kind = "memext" =>
       op.shift = NoShift \/ (op.shift.kind \in ShiftKinds /\ op.shift.amt \in Nat)

LoadOps == {"LDR", "LDRB", "LDRH", "LDRSB", "LDRSH", "LDRSW"}
StoreOps == {"STR", "STRB", "STRH"}
ListOps == {"LD1", "LD1R", "LD2", "LD3", "LD4", "ST1"}

(* The instructions with at least one, two, three and four operands.       *)
UnaryOps == {"B", "BR", "B_COND", "BL", "BLR", "SYS"}
BinaryOps == (DataOps \ NoOps) \cup VectorOps \cup LoadOps \cup StoreOps \cup ListOps \cup {"CBZ", "CBNZ"}
TernaryOps == MultiplyOps \cup DivideOps \cup ShiftOps \cup WordShiftOps \cup NarrowOps
              \cup {"ADD", "SUB", "AND", "EOR", "CINC", "CINV", "CNEG"}
              \cup {"TBZ", "TBNZ", "LDP", "STP", "STXR", "STXRB"}
QuaternaryOps == BitfieldOps \cup InsertZeroOps \cup CompareIfOps
                 \cup {"EXTR", "CSEL", "CSINC", "CSINV", "CSNEG", "MADD", "MSUB"}
                 \cup {"SMADDL", "UMADDL", "SMSUBL", "UMSUBL"}

(* Their destination has no 32-bit name. *)
WideOps == {"UMULH", "SMULH", "SMULL", "UMULL", "SMADDL", "UMADDL", "SMSUBL", "UMSUBL"}

IsInstruction(i) ==
  /\ {"op", "ops"} \subseteq DOMAIN i
  /\ i.ops \in Seq({i.ops[k] : k \in DOMAIN i.ops})
  /\ i.op \in UnaryOps => Len(i.ops) >= 1
  /\ i.op \in BinaryOps => Len(i.ops) >= 2
  /\ i.op \in TernaryOps => Len(i.ops) >= 3
  /\ i.op \in QuaternaryOps => Len(i.ops) >= 4
  /\ \A k \in DOMAIN i.ops : IsOperand(i.ops[k])
  /\ i.op \in DataOps \ (Comparing \cup CompareIfOps \cup NoOps \cup {"MSR"}) => IsReg(i.ops[1])
  /\ i.op \in LoadOps \cup StoreOps \cup {"LDP", "STP", "STXR", "STXRB"} \cup MoveLaneOps => IsReg(i.ops[1])
  /\ i.op \in LoadOps \cup StoreOps \cup {"LDP", "STP"} => Rd(i) \notin {SP, WSP}
  /\ i.op = "LDP" => IsReg(i.ops[2]) /\ i.ops[2].reg.vec = Rd(i).vec
  /\ i.op \in VectorOps \ (SharedOps \cup MoveLaneOps) => i.ops[1].kind = "reg"
  /\ i.op \in ReduceOps \cup NarrowOps \cup {"UMOV", "SMOV"} => i.ops[2].kind = "reg"
  /\ i.op \in WideOps => ~Rd(i).w
  /\ i.op \in {"MOVK", "MOVN", "MOVZ"} => i.ops[2].kind = "imm" /\ i.ops[2].shift.amt + HBits <= XBits
  /\ i.op = "EXTR" => /\ i.ops[4].kind = "imm" /\ i.ops[4].shift = NoShift
                      /\ i.ops[4].val < Width(Rd(i))
  /\ i.op \in InsertZeroOps => /\ i.ops[3].kind = "imm" /\ i.ops[3].shift = NoShift
                               /\ i.ops[4].kind = "imm" /\ i.ops[4].shift = NoShift
                               /\ i.ops[4].val > 0 /\ i.ops[3].val + i.ops[4].val <= Width(Rd(i))
  /\ i.op = "SYS" => /\ {"crm", "op2"} \subseteq DOMAIN i
                     /\ i.crm \in 0 .. 15 /\ i.op2 \in 0 .. 7
  /\ i.op \in LoadOps \cup StoreOps \cup ListOps => i.ops[2].kind \in MemoryKinds
  /\ i.op \in {"LDP", "STP", "STXR", "STXRB"} => i.ops[3].kind \in MemoryKinds
  /\ i.op \in ListOps => i.ops[1].kind = "multireg"
  /\ i.op \in {"B", "BL", "B_COND"} => i.ops[1].kind = "label"
  /\ i.op \in {"BR", "BLR"} => i.ops[1].kind = "reg" /\ i.ops[1].reg = X(i.ops[1].reg.n)
  /\ i.op \in {"CBZ", "CBNZ", "TBZ", "TBNZ"} => i.ops[1].kind = "reg"
  /\ i.op \in {"CBZ", "CBNZ"} => i.ops[2].kind = "label"

ASSUME DecodeAssumption ==
  /\ DOMAIN Decode = 0 .. 2^WBits - 1
  /\ \A word \in DOMAIN Decode : IsInstruction(Decode[word])

ASSUME ImagesAssumption ==
  \A image \in Images :
    /\ DOMAIN image \subseteq 0 .. 2^XBits - 2
    /\ \A b \in DOMAIN image : image[b] \in 0 .. 2^ByteBits - 1
    /\ Contexts(image) \subseteq CpuContext

VARIABLES
  ctx,          \* CpuContext
  mem,          \* the mapped bytes
  ret           \* "ok" while step returns Ok(true); then "stopped" for Ok(false),
                \* "err", or "panic" when the emulator panicked

vars == <<ctx, mem, ret>>

-----------------------------------------------------------------------------
(* Memory accesses. *)

Mapped(addr, len) == \A j \in 0 .. len - 1 : addr + j \in DOMAIN mem

BytesAt(addr, len) == [j \in 0 .. len - 1 |-> mem[addr + j]]

Load(addr, len) == FromBytes(BytesAt(addr, len))

(* The bytes ahead of the first unmapped one are stored in any case. *)
Stored(m, addr, bytes) ==
  [b \in DOMAIN m |->
     IF b - addr \in DOMAIN bytes /\ \A j \in 0 .. b - addr : addr + j \in DOMAIN m
     THEN bytes[b - addr] ELSE m[b]]

-----------------------------------------------------------------------------
(* Fetching and decoding. *)

InsBytes == 4

Running == ret = "ok" /\ ~ctx.exited

Fetched == Mapped(ctx.pc, InsBytes)

(* The instruction at addr, its label operands resolved. *)
At(addr) ==
  LET i == Decode[Load(addr, InsBytes)]
  IN  [i EXCEPT !.ops = [k \in DOMAIN @ |-> IF @[k].kind = "label"
                                             THEN OpLabel(Wrap(addr + @[k].val)) ELSE @[k]]]

Inst == At(ctx.pc)

Executes(ops) == Running /\ Fetched /\ Inst.op \in ops

NextPc == Wrap(ctx.pc + InsBytes)

Retire(c, m, pc) ==
  /\ ctx' = [c EXCEPT !.pc = pc]
  /\ mem' = m
  /\ ret' = "ok"

Fail(c, m) == ctx' = c /\ mem' = m /\ ret' = "err"

-----------------------------------------------------------------------------
(* The arms of step. *)

FetchFault == Running /\ ~Fetched /\ Fail(ctx, mem)

(* The words SYS #3, C7, Ccrm, #op2, Xt, under whatever name bad64 gives   *)
(* them, are one class here.  The mask of step looks at three of the four  *)
(* bits of crm and at none of op2, before the word is decoded: it takes DC *)
(* ZVA (crm 4, op2 1), but IC IVAU (crm 5, op2 1) and DC GVA (4, 3) too.   *)
TakenForZva(i) == i.op = "SYS" /\ i.crm \div 2 = 2

(* Words bad64 does not decode are skipped in the system space, and fail   *)
(* elsewhere, as mnemonics without an arm do.                              *)
SkipUndecoded == Executes({"UNDECODED_SYSTEM"}) /\ Retire(ctx, mem, NextPc)

Undefined ==
  /\ Executes({"UNDECODED", "UNIMPLEMENTED", "SYS"})
  /\ ~TakenForZva(Inst)
  /\ Fail(ctx, mem)

(* A failure of the store is ignored. *)
DcZva ==
  /\ Executes({"SYS"})
  /\ TakenForZva(Inst)
  /\ LET rt == get_x(Rd(Inst).n, ctx)
     IN  Retire(ctx, Stored(mem, rt - (rt % ZvaBytes), [j \in 0 .. ZvaBytes - 1 |-> 0]), NextPc)

DataProcessing ==
  /\ Executes(DataOps)
  /\ ~OnVectors(Inst)
  /\ IF DivisionPanics(Inst, ctx)
     THEN ret' = "panic" /\ UNCHANGED <<ctx, mem>>
     ELSE Retire(Execute(Inst, ctx), mem, NextPc)

VectorProcessing ==
  /\ Executes(VectorOps)
  /\ OnVectors(Inst)
  /\ Retire(ExecuteVector(Inst, ctx), mem, NextPc)

Target(k) == get_operand_val(Inst.ops[k], ctx)

Branch == Executes({"B", "BR"}) /\ Retire(ctx, mem, Target(1))

BranchIf ==
  /\ Executes({"B_COND"})
  /\ Retire(ctx, mem, IF Cond(Inst.cond, ctx.nzcv) THEN Target(1) ELSE NextPc)

\* Mutant: CBZ and CBNZ are swapped.
CompareBranch_Swapped ==
  /\ Executes({"CBZ", "CBNZ"})
  /\ Retire(ctx, mem, IF (Target(1) = 0) = (Inst.op = "CBNZ") THEN Target(2) ELSE NextPc)

CompareBranch ==
  /\ Executes({"CBZ", "CBNZ"})
  /\ Retire(ctx, mem, IF (Target(1) = 0) = (Inst.op = "CBZ") THEN Target(2) ELSE NextPc)

TestBranch ==
  /\ Executes({"TBZ", "TBNZ"})
  /\ Retire(ctx, mem, IF (Bit(Target(1), Target(2)) = 0) = (Inst.op = "TBZ")
                      THEN Target(3) ELSE NextPc)

\* Mutant: the link is the address of the call itself.
BranchLink_OwnPc ==
  /\ Executes({"BL", "BLR"})
  /\ LET linked == set_x(30, ctx.pc, ctx)
     IN  Retire(linked, mem, get_operand_val(Inst.ops[1], linked))

(* The link register is written before the target is read. *)
BranchLink ==
  /\ Executes({"BL", "BLR"})
  /\ LET linked == set_x(30, NextPc, ctx)
     IN  Retire(linked, mem, get_operand_val(Inst.ops[1], linked))

(* The operand of RET is ignored. *)
Return == Executes({"RET"}) /\ Retire(ctx, mem, get_x(30, ctx))

WordBytes(reg) == IF IsVec(reg) THEN reg.vec ELSE IF is_w_reg(reg) THEN 4 ELSE 8

(* A load clears the rest of a vector register. *)
Loaded(reg, bytes, c) ==
  IF IsVec(reg) THEN [c EXCEPT !.v[reg.n] = Zeroed(bytes)] ELSE set_reg_val(reg, FromBytes(bytes), c)

(* The bytes a store takes from operand k of i in context c. *)
BytesOf(i, k, len, c) ==
  IF IsVecOp(i, k) THEN [j \in 0 .. len - 1 |-> c.v[i.ops[k].reg.n][j]]
  ELSE ToBytes(get_operand_val(i.ops[k], c), len)

(* How a load's bytes become the register's value. *)
LoadBytes(i) ==
  CASE i.op = "LDR" -> WordBytes(Rd(i))
    [] i.op \in {"LDRB", "LDRSB"} -> 1
    [] i.op \in {"LDRH", "LDRSH"} -> 2
    [] i.op = "LDRSW" -> 4

\* Mutant: LDRSB extends with zeros.
Extended_Unsigned(i, val) ==
  IF i.op \in {"LDRSH", "LDRSW"} THEN SignExtend(val, ByteBits * LoadBytes(i)) ELSE val

Extended(i, val) ==
  IF i.op \in {"LDRSB", "LDRSH", "LDRSW"} THEN SignExtend(val, ByteBits * LoadBytes(i)) ELSE val

LoadRegister ==
  /\ Executes(LoadOps)
  /\ LET Access(i, ea, len) ==
           IF ~Mapped(ea.addr, len) THEN Fail(ea.ctx, mem)
           ELSE Retire(IF i.op = "LDR" THEN Loaded(Rd(i), BytesAt(ea.addr, len), ea.ctx)
                       ELSE set_reg_val(Rd(i), Extended(i, Load(ea.addr, len)), ea.ctx), mem, NextPc)
     IN  Access(Inst, eval_mem_addr(Inst.ops[2], ctx), LoadBytes(Inst))

\* Mutant: the first register is written before the second half is read.
LoadPair_Eager ==
  /\ Executes({"LDP"})
  /\ LET Access(i, ea, len) ==
           LET second == Wrap(ea.addr + len)
               once == Loaded(Rd(i), BytesAt(ea.addr, len), ea.ctx)
           IN  IF ~Mapped(ea.addr, len) THEN Fail(ea.ctx, mem)
               ELSE IF ~Mapped(second, len) THEN Fail(once, mem)
               ELSE Retire(Loaded(i.ops[2].reg, BytesAt(second, len), once), mem, NextPc)
     IN  Access(Inst, eval_mem_addr(Inst.ops[3], ctx), WordBytes(Rd(Inst)))

(* Both halves are read before either register is written. *)
LoadPair ==
  /\ Executes({"LDP"})
  /\ LET Access(i, ea, len) ==
           LET second == Wrap(ea.addr + len)
               once == Loaded(Rd(i), BytesAt(ea.addr, len), ea.ctx)
           IN  IF Mapped(ea.addr, len) /\ Mapped(second, len)
               THEN Retire(Loaded(i.ops[2].reg, BytesAt(second, len), once), mem, NextPc)
               ELSE Fail(ea.ctx, mem)
     IN  Access(Inst, eval_mem_addr(Inst.ops[3], ctx), WordBytes(Rd(Inst)))

\* Mutant: STRH stores a word.
StoreBytes_WideHalf(i) ==
  CASE i.op = "STR" -> WordBytes(Rd(i))
    [] i.op = "STRB" -> 1
    [] i.op = "STRH" -> 4

StoreBytes(i) ==
  CASE i.op = "STR" -> WordBytes(Rd(i))
    [] i.op = "STRB" -> 1
    [] i.op = "STRH" -> 2

(* A store of bytes at ea, with context c when it completes. *)
Store(ea, bytes, c) ==
  LET after == Stored(mem, ea.addr, bytes)
  IN  IF Mapped(ea.addr, Cardinality(DOMAIN bytes)) THEN Retire(c, after, NextPc)
      ELSE Fail(ea.ctx, after)

(* The value is read before the base is written back. *)
StoreRegister ==
  /\ Executes(StoreOps)
  /\ LET Access(i, ea) == Store(ea, BytesOf(i, 1, StoreBytes(i), ctx), ea.ctx)
     IN  Access(Inst, eval_mem_addr(Inst.ops[2], ctx))

(* The values are read after the base is written back; the second half is  *)
(* tried only once the first is stored.                                    *)
StorePair ==
  /\ Executes({"STP"})
  /\ LET Access(i, ea, len) ==
           LET Half_(k) == BytesOf(i, k, len, ea.ctx)
           IN  Store(ea, [j \in 0 .. 2 * len - 1 |-> Half_(j \div len + 1)[j % len]], ea.ctx)
     IN  Access(Inst, eval_mem_addr(Inst.ops[3], ctx), WordBytes(Rd(Inst)))

(* No monitor: an exclusive store always succeeds.  The word form stores   *)
(* eight bytes whatever the name of the data register.                     *)
StoreExclusive ==
  /\ Executes({"STXR", "STXRB"})
  /\ LET Access(i, ea) ==
           Store(ea, ToBytes(get_operand_val(i.ops[2], ctx), IF i.op = "STXR" THEN 8 ELSE 1),
                 set_reg_val(Rd(i), 0, ea.ctx))
     IN  Access(Inst, eval_mem_addr(Inst.ops[3], ctx))

-----------------------------------------------------------------------------
(* Loads and stores of several vectors: operand 1 is the list of them,     *)
(* operand 2 the address, and operand 3, if there is one, is added to the  *)
(* base register in the end.                                               *)

PostIndexed(i, c) ==
  IF Len(i.ops) >= 3 /\ i.ops[2].kind = "mem" /\ i.ops[2].mode = "offset"
  THEN LET base == i.ops[2].reg
       IN  set_reg_val(base, Wrap(get_reg_val(base, c) + get_operand_val(i.ops[3], c)), c)
  ELSE c

ListedBytes(i) == IF is_64bit_vector(i.ops[1]) THEN 8 ELSE 16

(* The context with vecs[k] in the k-th of the registers. *)
WithListed(regs, c, vecs) ==
  [c EXCEPT !.v = [r \in VRegs |->
     LET named == {k \in DOMAIN vecs : regs[k] = r}
     IN  IF named = {} THEN c.v[r] ELSE vecs[Max(named)]]]

\* Mutant: the memory of a register starts eight bytes after the last one's.
LoadVectors_Stride ==
  /\ Executes({"LD1", "LD1R"})
  /\ LET Access(i, ea, regs, len) ==
           LET addr(k) == IF i.op = "LD1R" THEN ea.addr ELSE Wrap(ea.addr + 8 * (k - 1))
               vec(k) == IF i.op = "LD1R" THEN [j \in VBytes |-> mem[ea.addr + (j % len)]]
                         ELSE Zeroed(BytesAt(addr(k), len))
               Read(n) == WithListed(regs, ea.ctx, [k \in 1 .. n |-> vec(k)])
               n == Max({m \in 0 .. Len(regs) : \A k \in 1 .. m : Mapped(addr(k), len)})
           IN  IF n < Len(regs) THEN Fail(Read(n), mem)
               ELSE Retire(PostIndexed(i, Read(n)), mem, NextPc)
     IN  Access(Inst, eval_mem_addr(Inst.ops[2], ctx), Inst.ops[1].regs,
                IF Inst.op = "LD1R" THEN get_vec_elem_size(Inst.ops[1]) ELSE ListedBytes(Inst))

(* A register is written before the next one is read. *)
LoadVectors ==
  /\ Executes({"LD1", "LD1R"})
  /\ LET Access(i, ea, regs, len) ==
           LET addr(k) == IF i.op = "LD1R" THEN ea.addr ELSE Wrap(ea.addr + len * (k - 1))
               vec(k) == IF i.op = "LD1R" THEN [j \in VBytes |-> mem[ea.addr + (j % len)]]
                         ELSE Zeroed(BytesAt(addr(k), len))
               Read(n) == WithListed(regs, ea.ctx, [k \in 1 .. n |-> vec(k)])
               n == Max({m \in 0 .. Len(regs) : \A k \in 1 .. m : Mapped(addr(k), len)})
           IN  IF n < Len(regs) THEN Fail(Read(n), mem)
               ELSE Retire(PostIndexed(i, Read(n)), mem, NextPc)
     IN  Access(Inst, eval_mem_addr(Inst.ops[2], ctx), Inst.ops[1].regs,
                IF Inst.op = "LD1R" THEN get_vec_elem_size(Inst.ops[1]) ELSE ListedBytes(Inst))

StoreVectors ==
  /\ Executes({"ST1"})
  /\ LET Access(i, ea, regs, size) ==
           LET bytes == [j \in 0 .. size * Len(regs) - 1 |-> ctx.v[regs[j \div size + 1]][j % size]]
           IN  Store(ea, bytes, PostIndexed(i, ea.ctx))
     IN  Access(Inst, eval_mem_addr(Inst.ops[2], ctx), Inst.ops[1].regs, ListedBytes(Inst))

(* Word k of register r is word k * n + r of the memory, n registers; when *)
(* not all of it is mapped nothing is loaded, and no failure reported.     *)
LoadStructures ==
  /\ Executes({"LD2", "LD3", "LD4"})
  /\ LET Access(i, ea, regs, n) ==
           LET vec(r) == [j \in VBytes |-> mem[ea.addr + ((j \div 4) * n + r - 1) * 4 + (j % 4)]]
               loaded == IF Mapped(ea.addr, 16 * n)
                         THEN WithListed(regs, ea.ctx, [r \in 1 .. n |-> vec(r)]) ELSE ea.ctx
           IN  Retire(PostIndexed(i, loaded), mem, NextPc)
     IN  Access(Inst, eval_mem_addr(Inst.ops[2], ctx), Inst.ops[1].regs, Len(Inst.ops[1].regs))

-----------------------------------------------------------------------------
(* The system calls that have an arm of their own, but for those that only *)
(* return 0, as a call without an arm does.                                *)
Handled == {17, 43, 44, 56, 57, 62, 63, 64, 78, 93, 94, 96, 98, 160, 169, 172}
           \cup 174 .. 178 \cup {198, 199, 200, 203, 208, 209, 214, 222}

(* SVC, for the calls the programs of the runs make: exit and exit_group   *)
(* (93, 94) end the run with the pc on the SVC, and 169 sets the thread    *)
(* pointer.                                                                *)
SupervisorCall ==
  /\ Executes({"SVC"})
  /\ LET nr == get_x(8, ctx)
         x0 == get_x(0, ctx)
     IN  \/ /\ nr \in {93, 94}
            /\ ctx' = [ctx EXCEPT !.exited = TRUE, !.exit_code = Low(x0, WBits)]
            /\ ret' = "stopped"
            /\ UNCHANGED mem
         \/ nr = 169 /\ Retire(set_x(0, 0, [ctx EXCEPT !.tpidr_el0 = x0]), mem, NextPc)
         \/ nr \notin Handled /\ Retire(set_x(0, 0, ctx), mem, NextPc)

-----------------------------------------------------------------------------
(* A sum of signed words that leaves their range, the negation of the      *)
(* least integer and a shift by 64 panic in a build with overflow checks;  *)
(* in others the arms above take place.                                    *)
(* What the instruction did before it panics is lost with the emulator.    *)

SumOverflows(a, b) == Signed(a, XBits) + b \notin -Half(XBits) .. Half(XBits) - 1

(* The address of an access, and the base register an operand is added to. *)
AddressOverflows(i, c) ==
  /\ i.op \in LoadOps \cup StoreOps \cup ListOps \cup {"LDP", "STP", "STXR", "STXRB"}
  /\ \E k \in DOMAIN i.ops :
       /\ i.ops[k].kind = "mem"
       /\ \/ SumOverflows(get_reg_val(i.ops[k].reg, c), i.ops[k].off)
          \/ /\ i.op \in ListOps /\ k = 2 /\ Len(i.ops) >= 3 /\ i.ops[2].mode = "offset"
             /\ SumOverflows(get_reg_val(i.ops[2].reg, c), Signed(get_operand_val(i.ops[3], c), XBits))

OverflowPanic ==
  /\ Running /\ Fetched
  /\ \/ AddressOverflows(Inst, ctx)
     \/ ShiftOverflows(Inst, ctx) \/ NegationOverflows(Inst, ctx) \/ AmountOverflows(Inst, ctx)
  /\ ret' = "panic"
  /\ UNCHANGED <<ctx, mem>>

-----------------------------------------------------------------------------

Init == mem \in Images /\ ctx \in Contexts(mem) /\ ret = "ok"

step ==
  \/ FetchFault \/ SkipUndecoded \/ Undefined \/ DcZva
  \/ DataProcessing \/ VectorProcessing
  \/ Branch \/ BranchIf \/ CompareBranch \/ TestBranch \/ BranchLink \/ Return
  \/ LoadRegister \/ LoadPair \/ StoreRegister \/ StorePair \/ StoreExclusive
  \/ LoadVectors \/ StoreVectors \/ LoadStructures
  \/ SupervisorCall
  \/ OverflowPanic

Spec == Init /\ [][step]_vars

=============================================================================
