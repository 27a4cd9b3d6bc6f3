------------------------------- MODULE Drivers -------------------------------
(***************************************************************************)
(* The ways a host drives Interpreter::step (src/src/interp/mod.rs): run,  *)
(* run_max_steps, called again whenever it reached its limit, and          *)
(* step_with_thunk_lookup, which calls a function of the host where the pc *)
(* is on an address the host has registered.  The loops around the last    *)
(* two are the host's.                                                     *)
(***************************************************************************)
EXTENDS Interpreter

CONSTANTS
  MaxSteps,           \* the limit the host gives run_max_steps
  Thunks,             \* the addresses thunk_lookup knows
  ThunkCall(_, _, _)  \* what the thunk of an address does in a context and a memory:
                      \* [ctx, mem, ok]

ASSUME MaxStepsAssumption == MaxSteps \in Nat \ {0}

VARIABLES
  host,               \* which of the three drives the guest
  steps               \* of the call of run_max_steps

driverVars == <<vars, host, steps>>

-----------------------------------------------------------------------------

Looked == host = "thunks" /\ Running /\ ctx.pc \in Thunks

(* What run, run_max_steps and step_with_thunk_lookup ask before a step. *)
Continues == (host = "max_steps" => steps < MaxSteps) /\ ~Looked

Loop ==
  /\ Continues
  /\ step
  /\ steps' = IF host = "max_steps" /\ ret' = "ok" THEN steps + 1 ELSE 0
  /\ UNCHANGED host

(* run_max_steps returns Ok(false). *)
LimitReached ==
  /\ host = "max_steps" /\ steps = MaxSteps
  /\ steps' = 0
  /\ UNCHANGED <<vars, host>>

\* Mutant: a thunk that called into the guest returns to its caller at once.
CallThunk_Return ==
  /\ Looked
  /\ LET done == ThunkCall(ctx.pc, ctx, mem)
     IN  /\ ctx' = IF ~done.ok \/ done.ctx.exited THEN done.ctx
                   ELSE [done.ctx EXCEPT !.pc = get_x(30, done.ctx)]
         /\ mem' = done.mem
         /\ ret' = IF ~done.ok THEN "err" ELSE IF done.ctx.exited THEN "stopped" ELSE "ok"
  /\ UNCHANGED <<host, steps>>

(* A thunk that leaves the pc on its own address returns to the link       *)
(* register, unless it failed or ended the guest.                          *)
CallThunk ==
  /\ Looked
  /\ LET done == ThunkCall(ctx.pc, ctx, mem)
     IN  /\ ctx' = IF ~done.ok \/ done.ctx.exited \/ done.ctx.pc # ctx.pc THEN done.ctx
                   ELSE [done.ctx EXCEPT !.pc = get_x(30, done.ctx)]
         /\ mem' = done.mem
         /\ ret' = IF ~done.ok THEN "err" ELSE IF done.ctx.exited THEN "stopped" ELSE "ok"
  /\ UNCHANGED <<host, steps>>

-----------------------------------------------------------------------------

DriverInit == Init /\ host \in {"run", "max_steps", "thunks"} /\ steps = 0

Drive == Loop \/ LimitReached \/ CallThunk

DriverSpec == DriverInit /\ [][Drive]_driverVars

(* Each loop goes on until a step returns something else than Ok(true).    *)
DriverFairSpec == DriverSpec /\ WF_driverVars(Drive)

=============================================================================
