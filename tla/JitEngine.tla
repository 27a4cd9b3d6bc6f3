------------------------------ MODULE JitEngine ------------------------------
(***************************************************************************)
(* JitEngine (src/src/jit/mod.rs) and run_with_jit (src/src/interp/mod.rs):*)
(* straight runs of guest code are compiled, kept by the address of their  *)
(* first instruction, and run as host code; everything else is left to     *)
(* Interpreter::step.  A block is the sequence of the instructions it was  *)
(* compiled from, and one action runs the host code of one of them: ctx.pc *)
(* stays on the block's start until the block returns.                     *)
(*                                                                         *)
(* Left out: the failures of Cranelift, and the counters of get_block,     *)
(* which nothing here calls.                                               *)
(***************************************************************************)
EXTENDS Interpreter

CONSTANT MaxInsts      \* instructions a block may hold; 100 in the source

ASSUME MaxInstsAssumption == MaxInsts \in Nat \ {0}

VARIABLES
  cache,      \* [start addresses -> blocks]
  native      \* whether a block runs, and at which of its instructions

jitVars == <<vars, cache, native>>

Idle == [kind |-> "idle"]
MustStep == [kind |-> "step"]      \* a block returned its own start address
RunOf(block, k) == [kind |-> "run", block |-> block, k |-> k]

InBlock == native.kind = "run"

Current == native.block[native.k]

Here == IF InBlock THEN Wrap(ctx.pc + InsBytes * (native.k - 1)) ELSE ctx.pc

-----------------------------------------------------------------------------
(* Registers and operands: SP and its low half are one register here, a    *)
(* vector register reads as 0 and is never written, and the shift of an    *)
(* operand is dropped.                                                     *)

\* Mutant: a 32-bit name reads the whole register.
load_reg_Uncut(reg, c) ==
  IF IsVec(reg) THEN 0 ELSE IF reg.n = SP.n THEN c.sp ELSE get_x(reg.n, c)

load_reg(reg, c) ==
  LET val == IF IsVec(reg) THEN 0 ELSE IF reg.n = SP.n THEN c.sp ELSE get_x(reg.n, c)
  IN  IF reg.w THEN Low(val, WBits) ELSE val

store_reg(reg, val, c) ==
  LET cut == IF reg.w THEN Low(val, WBits) ELSE val
  IN  IF IsVec(reg) THEN c
      ELSE IF reg.n = SP.n THEN [c EXCEPT !.sp = cut] ELSE set_x(reg.n, cut, c)

NativeVal(op, c) ==
  CASE IsReg(op) -> load_reg(op.reg, c)
    [] op.kind \in {"imm", "label"} -> op.val
    [] OTHER -> 0

-----------------------------------------------------------------------------
(* Compilation. *)

\* Mutant: a call does not end its block.
Enders_NoCall == {"B", "RET", "CBZ", "CBNZ"}

Enders == {"B", "BL", "RET", "CBZ", "CBNZ"}

NativeOps == {"NOP", "MOV", "ORR", "ADD", "SUB", "ADRP", "AND", "EOR", "LSL", "LSR", "ASR",
              "MRS", "MSR", "B", "BL", "RET", "CBZ", "CBNZ"}

(* An instruction in NativeOps whose operands have another shape is        *)
(* dropped from the block, without a trace.                                *)
Emits(i) ==
  LET AreRegs(S) == \A k \in S : k \in DOMAIN i.ops /\ IsReg(i.ops[k])
  IN  CASE i.op \in {"NOP", "B", "BL", "RET"} -> TRUE
        [] i.op \in {"MOV", "ORR", "ADRP", "MRS", "CBZ", "CBNZ"} -> AreRegs({1})
        [] i.op \in {"ADD", "SUB", "AND", "EOR", "LSL", "LSR", "ASR"} -> AreRegs({1, 2})
        [] i.op = "MSR" -> AreRegs({2})

\* Mutant: the second instruction of a block is fetched where the third is.
Compile_Skipping(start) ==
  LET addr(k) == Wrap(start + InsBytes * (IF k = 1 THEN 0 ELSE k))
      Compilable(k) == Mapped(addr(k), InsBytes) /\ At(addr(k)).op \in NativeOps
      Straight(n) == \A k \in 1 .. n : Compilable(k) /\ (k < n => At(addr(k)).op \notin Enders)
  IN  [k \in 1 .. Max({n \in 0 .. MaxInsts : Straight(n)}) |-> At(addr(k))]

(* The longest run of compilable instructions that ends at the first       *)
(* branch, if it has one.                                                  *)
Compile(start) ==
  LET addr(k) == Wrap(start + InsBytes * (k - 1))
      Compilable(k) == Mapped(addr(k), InsBytes) /\ At(addr(k)).op \in NativeOps
      Straight(n) == \A k \in 1 .. n : Compilable(k) /\ (k < n => At(addr(k)).op \notin Enders)
  IN  [k \in 1 .. Max({n \in 0 .. MaxInsts : Straight(n)}) |-> At(addr(k))]

Emitting(block) == \E k \in DOMAIN block : Emits(block[k])

Block(pc) == IF pc \in DOMAIN cache THEN cache[pc] ELSE Compile(pc)

\* Mutant: the block is not kept.
Enter_Unkept ==
  /\ native = Idle /\ Running
  /\ Emitting(Block(ctx.pc))
  /\ native' = RunOf(Block(ctx.pc), 1)
  /\ UNCHANGED <<vars, cache>>

(* compile_and_get and the call of the block it returns. *)
Enter ==
  /\ native = Idle /\ Running
  /\ Emitting(Block(ctx.pc))
  /\ cache' = [pc \in DOMAIN cache \cup {ctx.pc} |-> Block(pc)]
  /\ native' = RunOf(Block(ctx.pc), 1)
  /\ UNCHANGED vars

-----------------------------------------------------------------------------
(* The host code of an instruction. *)

Emitted(i, next, c) ==
  LET v(k) == NativeVal(i.ops[k], c)
      a == v(3) % XBits
  IN  IF ~Emits(i) THEN c ELSE
      CASE i.op \in {"NOP", "B", "RET", "CBZ", "CBNZ"} -> c
        [] i.op = "BL" -> set_x(30, next, c)
        [] i.op \in {"MOV", "ORR", "ADRP"} -> store_reg(Rd(i), v(2), c)
        [] i.op = "ADD" -> store_reg(Rd(i), Wrap(v(2) + v(3)), c)
        [] i.op = "SUB" -> store_reg(Rd(i), Wrap(v(2) - v(3)), c)
        [] i.op = "AND" -> store_reg(Rd(i), And(v(2), v(3)), c)
        [] i.op = "EOR" -> store_reg(Rd(i), Xor(v(2), v(3)), c)
        [] i.op = "LSL" -> store_reg(Rd(i), Shl(v(2), a, XBits), c)
        [] i.op = "LSR" -> store_reg(Rd(i), Shr(v(2), a), c)
        [] i.op = "ASR" -> store_reg(Rd(i), Asr(v(2), a, XBits), c)
        [] i.op = "MRS" -> store_reg(Rd(i), c.tpidr_el0, c)
        [] i.op = "MSR" -> [c EXCEPT !.tpidr_el0 = v(2)]

\* Mutant: the conditions of CBZ and CBNZ are swapped.
ReturnedPc_Swapped(i, next, c) ==
  LET zero == NativeVal(i.ops[1], c) = 0
  IN  CASE i.op \in {"B", "BL"} -> i.ops[1].val
        [] i.op = "RET" -> get_x(30, c)
        [] i.op = "CBZ" -> IF zero THEN next ELSE i.ops[2].val
        [] i.op = "CBNZ" -> IF zero THEN i.ops[2].val ELSE next
        [] OTHER -> next

(* The address the block returns when the instruction is its last. *)
ReturnedPc(i, next, c) ==
  LET zero == NativeVal(i.ops[1], c) = 0
  IN  CASE i.op \in {"B", "BL"} -> i.ops[1].val
        [] i.op = "RET" -> get_x(30, c)
        [] i.op = "CBZ" -> IF zero THEN i.ops[2].val ELSE next
        [] i.op = "CBNZ" -> IF zero THEN next ELSE i.ops[2].val
        [] OTHER -> next

(* execute: the returned address becomes the pc; should it be the start of *)
(* the block, the interpreter takes a step from there first.               *)
RunNative ==
  /\ InBlock
  /\ LET next  == Wrap(Here + InsBytes)
         after == Emitted(Current, next, ctx)
         pc    == ReturnedPc(Current, next, after)
     IN  IF native.k < Len(native.block)
         THEN ctx' = after /\ native' = RunOf(native.block, native.k + 1)
         ELSE /\ ctx' = [after EXCEPT !.pc = pc]
              /\ native' = IF pc = ctx.pc THEN MustStep ELSE Idle
  /\ UNCHANGED <<mem, ret, cache>>

(* execute, where nothing could be compiled or the block came back to its  *)
(* start.                                                                  *)
Fallback ==
  /\ native = MustStep \/ (native = Idle /\ Running /\ ~Emitting(Block(ctx.pc)))
  /\ step
  /\ native' = Idle
  /\ UNCHANGED cache

JitInit == Init /\ cache = <<>> /\ native = Idle

execute == Enter \/ RunNative \/ Fallback

JitSpec == JitInit /\ [][execute]_jitVars

(* run_with_jit goes on until the guest exits or a step fails. *)
JitFairSpec == JitSpec /\ WF_jitVars(execute)

-----------------------------------------------------------------------------

(* Blocks hold compilable instructions, a branch only at the end, and the  *)
(* block that runs is the one kept for the address the pc stays on.        *)
JitTypeOK ==
  /\ \A pc \in DOMAIN cache :
       /\ Emitting(cache[pc]) /\ Len(cache[pc]) <= MaxInsts
       /\ \A k \in DOMAIN cache[pc] : /\ cache[pc][k].op \in NativeOps
                                     /\ cache[pc][k].op \in Enders => k = Len(cache[pc])
  /\ \/ native \in {Idle, MustStep}
     \/ ctx.pc \in DOMAIN cache /\ native \in {RunOf(cache[ctx.pc], k) : k \in DOMAIN cache[ctx.pc]}

(* The interpreter the JIT stands in for: its pc is the one the guest is   *)
(* at, inside a block too.                                                 *)
Interp == INSTANCE Interpreter WITH ctx <- [ctx EXCEPT !.pc = Here]

(* Whatever the interpreter and the host code did, the interpreter alone   *)
(* could have done (holds as long as HostCodeCurrent does).                *)
ImplementsInterpreter == Interp!Spec

(* The instruction the host code stands for is still the one in memory.    *)
Fresh == Mapped(Here, InsBytes) /\ At(Here) = Current

(* Where the host code and the interpreter disagree: operands of a shape   *)
(* the host code has no form for, shifted operands, ORR, ADRP of an        *)
(* address inside a page, LSL with the four operands of a bit field, the   *)
(* shifts of 32-bit registers that reach across bit 32, the low half of    *)
(* SP, vector registers, system registers other than TPIDR_EL0.            *)
Agreed(i) ==
  /\ Emits(i)
  /\ \A k \in DOMAIN i.ops :
       /\ i.ops[k].kind # "shiftreg"
       /\ i.ops[k].kind = "imm" => i.ops[k].shift = NoShift
       /\ IsReg(i.ops[k]) => i.ops[k].reg # WSP /\ ~IsVec(i.ops[k].reg)
  /\ i.op # "ORR"
  /\ i.op = "ADRP" => Low(NativeVal(i.ops[2], ctx), PageBits) = 0
  /\ i.op = "MRS" => i.ops[2] = OpSys("TPIDR_EL0")
  /\ i.op = "MSR" => i.ops[1] = OpSys("TPIDR_EL0")
  /\ i.op = "LSL" => Len(i.ops) = 3
  /\ (i.op \in {"LSL", "LSR", "ASR"} /\ Rd(i).w) =>
       /\ NativeVal(i.ops[3], ctx) % XBits < WBits
       /\ i.op = "LSR" => NativeVal(i.ops[2], ctx) < 2^WBits
       /\ i.op = "ASR" => NativeVal(i.ops[2], ctx) < 2^(WBits - 1)

(* The host code that runs was compiled from the instruction the guest is  *)
(* at, and the interpreter would do the same with it: nothing removes a    *)
(* block from the cache when the guest overwrites its code                 *)
(* (src/src/jit/mod.rs:229).                                               *)
HostCodeCurrent == InBlock => Fresh /\ Agreed(Current)

(* The host code of an instruction does what the interpreter does, unless  *)
(* the two are known to disagree on it or its bytes have changed since it  *)
(* was compiled; the boundaries of blocks are never seen.                  *)
NativeAgrees ==
  [][HostCodeCurrent => Interp!step \/ UNCHANGED Interp!vars]_jitVars

(* The field the CPU state describes as TPIDR_EL0 changes only when the    *)
(* guest writes TPIDR_EL0 or calls for a new thread pointer                *)
(* (src/src/cpu/mod.rs:17).                                                *)
ThreadPointerKept ==
  [][ctx'.tpidr_el0 # ctx.tpidr_el0 =>
       At(Here).op = "SVC" \/ (At(Here).op = "MSR" /\ At(Here).ops[1].name = "TPIDR_EL0")]_jitVars

=============================================================================
