----------------------------- MODULE FlatMemory -----------------------------
(***************************************************************************)
(* What a guest may expect of its memory: one flat array, in which ranges  *)
(* become mapped (holding zeros) and stay mapped, a store changes the      *)
(* bytes it names, a load returns them, and an access that meets an        *)
(* unmapped byte fails after its mapped prefix.  No host appears in it.    *)
(* MemoryManager implements it under the discipline GuestMemoryFlat names. *)
(***************************************************************************)
EXTENDS Integers

CONSTANTS Addr, Byte, Accesses

Unmapped == -1

VARIABLES mem, result

vars == <<mem, result>>

Returns(op, out) == [op |-> op, out |-> out, bytes |-> <<>>]

Mapped(addr, k) == \A j \in 0 .. k : mem[addr + j] # Unmapped

Init == mem = [a \in Addr |-> Unmapped] /\ result = Returns("map", "ok")

Map(first, past) ==
  /\ result' \in {Returns("map", "ok"), Returns("brk", "ok")}
  /\ \A a \in first .. past - 1 : mem[a] = Unmapped
  /\ mem' = [a \in Addr |-> IF a \in first .. past - 1 THEN 0 ELSE mem[a]]

(* A call that maps nothing: it fails, or only moves the break. *)
Other ==
  /\ result' \in {Returns(op, out) : op \in {"map", "brk"}, out \in {"ok", "err"}}
  /\ UNCHANGED mem

Store(addr, len, data) ==
  /\ result' = Returns("write", IF Mapped(addr, len - 1) THEN "ok" ELSE "err")
  /\ mem' = [a \in Addr |-> IF a \in addr .. addr + len - 1 /\ Mapped(addr, a - addr)
                            THEN data[a - addr] ELSE mem[a]]

Load(addr, len) ==
  /\ result' = IF Mapped(addr, len - 1)
               THEN [op |-> "read", out |-> "ok", bytes |-> [k \in 0 .. len - 1 |-> mem[addr + k]]]
               ELSE Returns("read", "err")
  /\ UNCHANGED mem

Next ==
  \/ Other
  \/ \E a \in Accesses : Load(a[1], a[2])
  \/ \E a \in Accesses : \E data \in [0 .. a[2] - 1 -> Byte] : Store(a[1], a[2], data)
  \/ \E first, past \in Addr : first < past /\ Map(first, past)

Spec == Init /\ [][Next]_vars

=============================================================================
