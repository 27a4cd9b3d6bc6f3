-------------------------------- MODULE Word --------------------------------
(***************************************************************************)
(* Fixed-width arithmetic as Rust's integer types give it to the           *)
(* interpreter.  The widths keep the source's proportions - a u64 is eight *)
(* bytes, a u32 four, a u16 two - and ByteBits is 8 in the source.         *)
(***************************************************************************)
EXTENDS Integers, FiniteSetsExt

CONSTANT ByteBits

ASSUME ByteBitsAssumption == ByteBits \in {1, 2, 4, 8}

HBits == 2 * ByteBits
WBits == 4 * ByteBits
XBits == 8 * ByteBits

XWord == 0 .. 2^XBits - 1

(* "as u32" and the like: the low n bits. *)
Low(v, n) == v % 2^n

Wrap(v) == Low(v, XBits)

(* "as i32" and the like, of the low n bits. *)
Signed(v, n) == IF Low(v, n) >= 2^(n - 1) THEN Low(v, n) - 2^n ELSE Low(v, n)

SignExtend(v, n) == Wrap(Signed(v, n))

(* Shifts and rotations of an n-bit value by a, 0 <= a <= n. *)
Shl(v, a, n) == Low(v, n - a) * 2^a
Shr(v, a) == v \div 2^a
Asr(v, a, n) == Low(Signed(v, n) \div 2^a, n)
Ror(v, a, n) == Shr(v, a) + Shl(v, n - a, n)

Bit(v, k) == Shr(v, k) % 2

(* The integer whose digits, of w bits each, are d[0] to d[n - 1], the     *)
(* lowest first.                                                           *)
OfDigits(d, w, n) ==
  LET from[k \in 0 .. n] == IF k = n THEN 0 ELSE d[k] + 2^w * from[k + 1]
  IN  from[0]

And(a, b) == OfDigits([k \in 0 .. XBits - 1 |-> Bit(a, k) * Bit(b, k)], 1, XBits)
Or(a, b) == a + b - And(a, b)
Xor(a, b) == a + b - 2 * And(a, b)
Not(a) == 2^XBits - 1 - a

(* The low n bits set. *)
Ones(n) == 2^n - 1

(* Division rounds towards zero in Rust and down in TLA+. *)
AbsOf(a) == IF a < 0 THEN -a ELSE a
Quotient(a, b) == LET q == AbsOf(a) \div AbsOf(b) IN IF (a < 0) = (b < 0) THEN q ELSE -q

(* to_le_bytes and from_le_bytes, k bytes. *)
ToBytes(v, k) == [j \in 0 .. k - 1 |-> Low(Shr(v, ByteBits * j), ByteBits)]
FromBytes(b) == OfDigits(b, ByteBits, Cardinality(DOMAIN b))

=============================================================================
