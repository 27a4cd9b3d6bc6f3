-------------------------------- MODULE MCJit --------------------------------
(***************************************************************************)
(* The JIT on whole programs, and on one instruction at a time.            *)
(***************************************************************************)
EXTENDS JitEngine, GuestPrograms

(* A loop whose block starts at its own target. *)
Countdown == <<
  I("ADD",  <<R(0), R(0), OpImm(1)>>),
  I("B",    <<To(1)>>),
  I("SUB",  <<R(0), R(0), OpImm(1)>>),
  I("CBNZ", <<R(0), To(-1)>>) >> \o Exit

(* Straight code longer than a block, with an instruction left to the      *)
(* interpreter in the middle and data that does not decode after it.       *)
Straight == <<
  I("ADD",  <<R(1), R(0), R(0)>>),
  I("EOR",  <<R(2), R(1), OpImm(5)>>),
  I("AND",  <<R(2), R(2), R(1)>>),
  I("LSL",  <<R32(1), R32(1), OpImm(3)>>),
  I("ADRP", <<R(30), To(8)>>),
  I("CMP",  <<R(1), R(2)>>),
  I("MOV",  <<R(0), R(1)>>),
  I("LSR",  <<R(0), R(0), R(2)>>),
  I("ADD",  <<R(0), R(0), R(30)>>) >> \o Exit \o << I("UNDECODED", <<>>) >>

(* A routine called, overwritten with the instruction after the program's  *)
(* last, and called again.                                                 *)
PatchWord == 4     \* of the instruction marked below
Patched == <<
  I("BL",   <<To(7)>>),
  I("MOV",  <<R(1), OpImm(PatchWord)>>),
  I("ADR",  <<R(2), To(5)>>),
  I("STR",  <<R32(1), OpMem("offset", X(2), 0)>>),
  I("BL",   <<To(3)>>) >> \o Exit \o <<
  I("ADD",  <<R(0), R(0), OpImm(1)>>),
  I("RET",  <<>>) >>

Ops == <<
  I("MOV",  <<R(0), R32(1)>>),
  I("ADD",  <<R32(0), R32(1), R32(2)>>),
  I("SUB",  <<OpReg(SP), OpReg(SP), OpImm(4)>>),
  I("ADD",  <<R(0), R(0), OpImm(2)>>),               \* PatchWord
  I("SUB",  <<R(0), R(1), R32(31)>>),
  I("ADD",  <<R(0), R(1), OpShifted(X(2), Shift("LSL", 2))>>),
  I("SUB",  <<R(0), R(1), OpImmShifted(1, Shift("LSL", 4))>>),
  I("MOV",  <<OpReg(WSP), R32(1)>>),
  I("AND",  <<R(0), R(1), R(2)>>),
  I("AND",  <<R32(0), R32(1), OpImm(12)>>),
  I("EOR",  <<R(0), R(1), OpReg(XZR)>>),
  I("ORR",  <<R(0), R(1), R(2)>>),
  I("LSL",  <<R(0), R(1), R(2)>>),
  I("LSL",  <<R32(0), R32(1), R32(2)>>),
  I("LSR",  <<R32(0), R32(1), R32(2)>>),
  I("ASR",  <<R(0), R(1), R(2)>>),
  I("ASR",  <<R32(0), R32(1), OpImm(3)>>),
  I("CBZ",  <<R32(1), To(0)>>),
  I("CBNZ", <<R(1), To(5)>>),
  I("BL",   <<To(0)>>),
  I("RET",  <<>>),
  I("MSR",  <<OpSys("TPIDR_EL0"), R(1)>>),
  I("MRS",  <<R32(0), OpSys("TPIDR_EL0")>>),
  I("MSR",  <<OpSys("FPCR"), R(1)>>),
  I("MRS",  <<R(0), OpSys("DCZID_EL0")>>),
  I("MSR",  <<OpSys("DAIFSET"), OpImm(2)>>),
  I("MOV",  <<OpVec(0, 4), R32(1)>>),
  I("ADD",  <<OpVec(0, 4), OpVec(1, 4), OpVec(0, 4)>>),
  I("UMOV", <<R32(0), OpLane(0, 4, 1)>>) >>

Programs == <<Ops, SumTo, Gcd, PopCount, Thread, Countdown, Straight, Patched>>

MCDecode == DecodeOf(Programs)

(* Every program but the first and the last. *)
ProgramImages == {ImageOf(Programs, p) : p \in 2 .. Len(Programs) - 1}

ProgramContexts(image) == {EntryContext(arg) : arg \in 0 .. 2}

(* One instruction of Ops at a time, and the program that overwrites its   *)
(* own code.                                                               *)
OpImages ==
  {[b \in Entry .. Entry + InsBytes - 1 |-> Low(Shr(w, ByteBits * (b - Entry)), ByteBits)] :
     w \in DOMAIN Ops}
  \cup {ImageOf(Programs, Len(Programs))}

Values == {0, 1, 5, 7, 8, 9, 15, 16, 127, 128, 255, 256, 2^15, 2^16 - 1, 23210, 41715}

OpContexts(image) ==
  {[EntryContext(3) EXCEPT !.x[1] = a, !.x[2] = b, !.x[30] = Entry, !.sp = a, !.tpidr_el0 = b] :
     a \in Values, b \in Values}

(* The guest exits. *)
Terminates == <>(ret = "stopped")

=============================================================================
