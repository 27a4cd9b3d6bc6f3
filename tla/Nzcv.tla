-------------------------------- MODULE Nzcv --------------------------------
(***************************************************************************)
(* The condition flags: how Interpreter::step computes N, Z, C and V       *)
(* (src/src/interp/mod.rs) and how a condition reads them (eval_cond).     *)
(*                                                                         *)
(* The operators take half, half the number of values of the operands'    *)
(* width (2^31 or 2^63), so that a value is in 0 .. 2 * half - 1 and its   *)
(* top bit is set when it is half or more.                                 *)
(***************************************************************************)
EXTENDS Integers

Flags == [n : BOOLEAN, z : BOOLEAN, c : BOOLEAN, v : BOOLEAN]

TopBit(half, a) == a >= half

AsSigned(half, a) == IF TopBit(half, a) THEN a - 2 * half ELSE a

(* overflowing_add and overflowing_sub: the result of the width. *)
Sum(half, a, b) == IF a + b < 2 * half THEN a + b ELSE a + b - 2 * half

Difference(half, a, b) == IF a >= b THEN a - b ELSE a - b + 2 * half

AddFlags(half, a, b) ==
  LET res == Sum(half, a, b)
  IN  [n |-> TopBit(half, res),
       z |-> res = 0,
       c |-> a + b >= 2 * half,
       v |-> (TopBit(half, a) = TopBit(half, b)) /\ (TopBit(half, a) # TopBit(half, res))]

\* Mutant: C is the borrow.
SubFlags_Borrow(half, a, b) ==
  LET res == Difference(half, a, b)
  IN  [n |-> TopBit(half, res),
       z |-> res = 0,
       c |-> a < b,
       v |-> (TopBit(half, a) # TopBit(half, b)) /\ (TopBit(half, a) # TopBit(half, res))]

SubFlags(half, a, b) ==
  LET res == Difference(half, a, b)
  IN  [n |-> TopBit(half, res),
       z |-> res = 0,
       c |-> a >= b,                       \* no borrow
       v |-> (TopBit(half, a) # TopBit(half, b)) /\ (TopBit(half, a) # TopBit(half, res))]

(* ANDS, TST and BICS. *)
LogicFlags(half, res) ==
  [n |-> TopBit(half, res), z |-> res = 0, c |-> FALSE, v |-> FALSE]

(* The four-bit immediate of CCMP and CCMN. *)
ImmediateFlags(k) ==
  [n |-> (k \div 8) % 2 = 1, z |-> (k \div 4) % 2 = 1,
   c |-> (k \div 2) % 2 = 1, v |-> k % 2 = 1]

Conditions == {"EQ", "NE", "HS", "LO", "MI", "PL", "VS", "VC",
               "HI", "LS", "GE", "LT", "GT", "LE"}

Cond(cond, f) ==
  CASE cond = "EQ" -> f.z
    [] cond = "NE" -> ~f.z
    [] cond = "HS" -> f.c
    [] cond = "LO" -> ~f.c
    [] cond = "MI" -> f.n
    [] cond = "PL" -> ~f.n
    [] cond = "VS" -> f.v
    [] cond = "VC" -> ~f.v
    [] cond = "HI" -> f.c /\ ~f.z
    [] cond = "LS" -> ~f.c \/ f.z
    [] cond = "GE" -> f.n = f.v
    [] cond = "LT" -> f.n # f.v
    [] cond = "GT" -> ~f.z /\ (f.n = f.v)
    [] cond = "LE" -> f.z \/ (f.n # f.v)
    [] OTHER -> TRUE                       \* AL, NV

-----------------------------------------------------------------------------
(* What the flags are for. *)

(* The flags of a comparison of a with b: every condition holds exactly    *)
(* when the relation it is named for does, unsigned or signed.             *)
Compares(half, a, b, f) ==
  LET sa == AsSigned(half, a)
      sb == AsSigned(half, b)
  IN  /\ (Cond("EQ", f) <=> a = b)    /\ (Cond("NE", f) <=> a # b)
      /\ (Cond("HS", f) <=> a >= b)   /\ (Cond("LO", f) <=> a < b)
      /\ (Cond("HI", f) <=> a > b)    /\ (Cond("LS", f) <=> a <= b)
      /\ (Cond("GE", f) <=> sa >= sb) /\ (Cond("LT", f) <=> sa < sb)
      /\ (Cond("GT", f) <=> sa > sb)  /\ (Cond("LE", f) <=> sa <= sb)

(* The flags of a sum: carry when the unsigned sum does not fit the width, *)
(* overflow when the signed sum does not, and the sign of the true signed  *)
(* sum is N corrected by V.                                                *)
Sums(half, a, b, f) ==
  LET s == AsSigned(half, a) + AsSigned(half, b)
  IN  /\ f.z <=> a + b \in {0, 2 * half}
      /\ f.c <=> a + b > 2 * half - 1
      /\ f.v <=> ~(s \in -half .. half - 1)
      /\ Cond("LT", f) <=> s < 0

=============================================================================
