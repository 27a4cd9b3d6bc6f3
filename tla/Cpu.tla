-------------------------------- MODULE Cpu --------------------------------
(***************************************************************************)
(* CpuContext (src/src/cpu/mod.rs) and the interpreter's helpers that read *)
(* and write it (src/src/interp/mod.rs): registers, shifted operands,      *)
(* addressing modes.                                                       *)
(***************************************************************************)
EXTENDS Word, Nzcv

CONSTANTS
  Regs,      \* the general registers a program uses; all of 0 .. 30 in the source
  VRegs      \* the vector registers it uses; all of 0 .. 31 in the source

ASSUME RegsAssumption == Regs \subseteq 0 .. 30 /\ 30 \in Regs /\ VRegs \subseteq 0 .. 31

(* A register operand: w is set for the 32-bit names, n is 31 for XZR and  *)
(* WZR and 32 for SP and WSP, and vec is the size in bytes of a vector     *)
(* register's name (16 for Q and V, 8 for D, 4 for S), 0 for the others.   *)
X(n) == [w |-> FALSE, n |-> n, vec |-> 0]
W(n) == [w |-> TRUE, n |-> n, vec |-> 0]
VecReg(n, bytes) == [w |-> FALSE, n |-> n, vec |-> bytes]
XZR == X(31)
SP == X(32)
WSP == W(32)

VBytes == 0 .. 15

CpuContext ==
  [x : [Regs -> XWord], sp : XWord, pc : XWord, nzcv : Flags,
   v : [VRegs -> [VBytes -> 0 .. 2^ByteBits - 1]],
   tpidr_el0 : XWord, exited : BOOLEAN, exit_code : 0 .. 2^WBits - 1]

get_x(n, ctx) == IF n \in Regs THEN ctx.x[n] ELSE 0

set_x(n, val, ctx) == IF n \in Regs THEN [ctx EXCEPT !.x[n] = val] ELSE ctx

(* WSP is missing from the list of 32-bit names, and from that of the      *)
(* indexed ones: it reads as 0 and a write to it is lost.                  *)
is_w_reg(reg) == reg.w /\ reg # WSP

Width(reg) == IF is_w_reg(reg) THEN WBits ELSE XBits

IsVec(reg) == reg.vec # 0       \* v_reg_idx finds an index

(* A vector register takes part in integer arithmetic with at most its low *)
(* eight bytes, and a write of them clears the rest.                       *)
get_reg_val(reg, ctx) ==
  IF reg = SP THEN ctx.sp
  ELSE IF IsVec(reg) THEN FromBytes([j \in 0 .. Min({reg.vec, 8}) - 1 |-> ctx.v[reg.n][j]])
  ELSE Low(get_x(reg.n, ctx), Width(reg))

(* The vector whose low bytes are those of the function b, the rest 0. *)
Zeroed(b) == [j \in VBytes |-> IF j \in DOMAIN b THEN b[j] ELSE 0]

set_reg_val(reg, val, ctx) ==
  IF reg = SP THEN [ctx EXCEPT !.sp = val]
  ELSE IF IsVec(reg) THEN [ctx EXCEPT !.v[reg.n] = Zeroed(ToBytes(val, Min({reg.vec, 8})))]
  ELSE set_x(reg.n, Low(val, Width(reg)), ctx)

(* A shift or extension of an operand; NoShift when it has none. *)
Shift(kind, amt) == [kind |-> kind, amt |-> amt]
NoShift == Shift("none", 0)

(* The value raw of an n-bit register, shifted or extended. *)
Shifted(raw, shift, n) ==
  LET a == shift.amt % n                         \* LSL to ROR: masked to the width
      Extended(v) == Shl(v, shift.amt % XBits, XBits)
  IN  CASE shift.kind = "LSL" -> Shl(raw, a, n)
        [] shift.kind = "LSR" -> Shr(raw, a)
        [] shift.kind = "ASR" -> Asr(raw, a, n)
        [] shift.kind = "ROR" -> Ror(raw, a, n)
        [] shift.kind = "UXTB" -> Extended(Low(raw, ByteBits))
        [] shift.kind = "UXTH" -> Extended(Low(raw, HBits))
        [] shift.kind = "UXTW" -> Extended(Low(raw, WBits))
        [] shift.kind = "SXTB" -> Extended(SignExtend(raw, ByteBits))
        [] shift.kind = "SXTH" -> Extended(SignExtend(raw, HBits))
        [] shift.kind = "SXTW" -> Extended(SignExtend(raw, WBits))
        [] shift.kind \in {"UXTX", "SXTX"} -> Extended(raw)

eval_shift_reg(reg, shift, ctx) == Shifted(get_reg_val(reg, ctx), shift, Width(reg))

eval_imm_shift(val, shift) ==
  LET a == shift.amt % XBits
  IN  CASE shift.kind = "LSL" -> Shl(val, a, XBits)
        [] shift.kind = "LSR" -> Shr(val, a)
        [] shift.kind = "ASR" -> Asr(val, a, XBits)
        [] shift.kind = "ROR" -> Ror(val, a, XBits)
        [] OTHER -> val

-----------------------------------------------------------------------------
(* Operands.  Their constructors name bad64's operand kinds; es, low, lane *)
(* and cnt are what the code looks for in the Debug text of an operand:    *)
(* the bytes of a lane, 1 when the text names none; whether the lanes fill *)
(* eight bytes instead of sixteen; the index of a lane; and whether a      *)
(* system register has CNT in its name.                                    *)

OpReg(reg) == [kind |-> "reg", reg |-> reg, es |-> 1, low |-> FALSE, lane |-> 0]
OpVec(n, es) == [OpReg(VecReg(n, 16)) EXCEPT !.es = es]
OpVec64(n, es) == [OpVec(n, es) EXCEPT !.low = TRUE]
OpLane(n, es, lane) == [OpVec(n, es) EXCEPT !.lane = lane]
OpMulti(ns, es) == [kind |-> "multireg", regs |-> ns, es |-> es, low |-> FALSE]
OpShifted(reg, shift) == [kind |-> "shiftreg", reg |-> reg, shift |-> shift]
OpImm(val) == [kind |-> "imm", val |-> val, shift |-> NoShift]
OpImmShifted(val, shift) == [kind |-> "imm", val |-> val, shift |-> shift]
OpLabel(val) == [kind |-> "label", val |-> val]
OpCond(cond) == [kind |-> "cond", cond |-> cond]
OpSys(name) == [kind |-> "sysreg", name |-> name, cnt |-> FALSE]
OpCounter(name) == [OpSys(name) EXCEPT !.cnt = TRUE]
OpMem(mode, reg, off) == [kind |-> "mem", mode |-> mode, reg |-> reg, off |-> off]
OpMemExt(reg, index, shift) ==
  [kind |-> "memext", reg |-> reg, index |-> index, shift |-> shift]
OpMemPostReg(reg, index) == [kind |-> "mempostreg", reg |-> reg, index |-> index]

IsReg(op) == op.kind \in {"reg", "shiftreg"}       \* get_op_reg finds a register

get_operand_val(op, ctx) ==
  CASE op.kind = "reg" -> get_reg_val(op.reg, ctx)
    [] op.kind = "shiftreg" -> eval_shift_reg(op.reg, op.shift, ctx)
    [] op.kind = "imm" -> eval_imm_shift(op.val, op.shift)
    [] op.kind = "label" -> op.val
    [] OTHER -> 0

\* Mutant: the sums of addresses do not wrap.
Accessed_Unwrapped(op, base, index, ctx) ==
  LET moved == base + op.off
      At(addr, c) == [addr |-> addr, ctx |-> c]
  IN  CASE op.kind = "label" -> At(op.val, ctx)
        [] op.kind = "mem" /\ op.mode = "offset" -> At(moved, ctx)
        [] op.kind = "mem" /\ op.mode = "pre" -> At(moved, set_reg_val(op.reg, moved, ctx))
        [] op.kind = "mem" /\ op.mode = "post" -> At(base, set_reg_val(op.reg, moved, ctx))
        [] op.kind = "memext" ->
             At(base + (IF op.shift = NoShift THEN index
                        ELSE Shifted(index, op.shift, Width(op.index))), ctx)
        [] op.kind = "mempostreg" -> At(base, set_reg_val(op.reg, base + index, ctx))

(* The address of an access and the context after the base register is     *)
(* written back, which happens before the access is tried.                 *)
Accessed(op, base, index, ctx) ==
  LET moved == Wrap(base + op.off)
      At(addr, c) == [addr |-> addr, ctx |-> c]
  IN  CASE op.kind = "label" -> At(op.val, ctx)
        [] op.kind = "mem" /\ op.mode = "offset" -> At(moved, ctx)
        [] op.kind = "mem" /\ op.mode = "pre" -> At(moved, set_reg_val(op.reg, moved, ctx))
        [] op.kind = "mem" /\ op.mode = "post" -> At(base, set_reg_val(op.reg, moved, ctx))
        [] op.kind = "memext" ->
             At(Wrap(base + (IF op.shift = NoShift THEN index
                             ELSE Shifted(index, op.shift, Width(op.index)))), ctx)
        [] op.kind = "mempostreg" -> At(base, set_reg_val(op.reg, Wrap(base + index), ctx))

eval_mem_addr(op, ctx) ==
  Accessed(op, get_reg_val(op.reg, ctx), get_reg_val(op.index, ctx), ctx)

=============================================================================
