------------------------------ MODULE MCPrograms ------------------------------
(***************************************************************************)
(* Whole programs under the interpreter, each compared with the result of  *)
(* the algorithm it implements.                                            *)
(***************************************************************************)
EXTENDS GuestPrograms, Drivers

(* 2x + 1, by functions of the host: one doubles X0, one jumps to the      *)
(* address in X1, which returns for it, and the last ends the guest.       *)
Double == 4
CallBack == 8
ExitThunk == 12
FailThunk == 3
ThunkAddresses == {Double, CallBack, ExitThunk, FailThunk}

HostCalls == <<
  I("MOV",  <<R(1), OpImm(Double)>>),
  I("BLR",  <<R(1)>>),
  I("MOV",  <<R(2), OpImm(CallBack)>>),
  I("ADR",  <<R(1), To(4)>>),
  I("BLR",  <<R(2)>>),
  I("MOV",  <<R(2), OpImm(ExitThunk)>>),
  I("BR",   <<R(2)>>),
  I("ADD",  <<R(0), R(0), OpImm(1)>>),
  I("RET",  <<>>) >>

(* A call of a function that fails. *)
FailedCall == << I("NOP", <<>>), I("MOV",  <<R(2), OpImm(FailThunk)>>), I("BR", <<R(2)>>) >>

MCThunkCall(addr, c, m) ==
  LET Done(after) == [ctx |-> after, mem |-> m, ok |-> TRUE]
      x0 == get_x(0, c)
  IN  CASE addr = Double -> Done(set_x(0, Wrap(2 * x0), c))
        [] addr = CallBack -> Done([c EXCEPT !.pc = get_x(1, c)])
        [] addr = ExitThunk -> Done([c EXCEPT !.exited = TRUE, !.exit_code = Low(x0, WBits)])
        [] addr = FailThunk -> [ctx |-> c, mem |-> m, ok |-> FALSE]

Programs == <<SumTo, Gcd, PopCount, Thread, Walk, StringLength, VectorPopCount, VectorMax, Shuffle,
              HostCalls, FailedCall>>

MCDecode == DecodeOf(Programs)

MCImages == {ImageOf(Programs, p) : p \in DOMAIN Programs}

MaxArg == 3

Saved == 19     \* a register no program touches: it keeps the argument

MCContexts(image) == {[EntryContext(a) EXCEPT !.x[Saved] = a] : a \in 0 .. MaxArg}

-----------------------------------------------------------------------------

arg == ctx.x[Saved]

Program == CHOOSE p \in DOMAIN Programs : FirstWord(Programs, p) = Load(Entry, InsBytes)

Expected ==
  CASE Program = 1 -> (arg * (arg + 1)) \div 2
    [] Program = 2 -> Max({d \in 1 .. 6 : (arg + 1) % d = 0 /\ 6 % d = 0})
    [] Program = 3 -> Cardinality({k \in 0 .. 2 : Bit(arg, k) = 1})
    [] Program = 4 -> arg + 5
    [] Program = 5 -> Cardinality({b \in Entry .. Entry + arg : mem[b] >= 1})
    [] Program = 6 -> arg
    [] Program = 7 -> Cardinality({k \in 0 .. 2 : Bit(arg, k) = 1})
    [] Program = 8 -> Max({mem[b] : b \in Entry + arg .. Entry + arg + 15})
    [] Program = 9 -> mem[Entry + 16 + arg]
    [] Program = 10 -> 2 * arg + 1

(* The calls of the host's functions fail where none is registered, and in *)
(* the program that calls the one that fails.                              *)
Fails == Program = 11 \/ (Program = 10 /\ host # "thunks")

(* Every program exits with the result its algorithm is known to give,     *)
(* without a fault and with the stack pointer restored, whichever way it   *)
(* is driven (the calls, frames, conditions, branches and system calls of  *)
(* step; run, run_max_steps and step_with_thunk_lookup).                   *)
ProgramsCorrect ==
  /\ ret # "panic" /\ (ret = "err" => Fails)
  /\ ret = "stopped" => /\ ~Fails /\ ctx.exit_code = Expected
                        /\ ctx.sp = StackTop

(* Every program exits or fails: the loops around step go on until a step  *)
(* stops them, and a limit on the steps only interrupts the guest.         *)
Terminates == <>(ret # "ok")

=============================================================================
