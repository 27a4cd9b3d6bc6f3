-------------------------- MODULE GuestMemoryFlat --------------------------
(***************************************************************************)
(* MemoryManager as an implementation of FlatMemory.  It is one only       *)
(* towards a disciplined guest on an obliging host, and Disciplined says   *)
(* what that takes: no two segments claim an address, the kernel honours   *)
(* the hint of every mapping that reaches the direct range (map_anonymous  *)
(* does not pass MAP_FIXED and does not compare), and a direct access      *)
(* stays inside a segment (write and read do not look).                    *)
(***************************************************************************)
EXTENDS GuestMemory

CONSTANT MaxAddr    \* bound: guest addresses are 0 .. MaxAddr

GuestAddr == 0 .. MaxAddr

(* No byte reads as what stands for an unmapped address, GuestAddr holds   *)
(* every address the arguments and the host can name, and the guest asks   *)
(* for nothing that overflows: a panic is nothing flat memory does.        *)
ASSUME FlatAssumption ==
  /\ -1 \notin Byte
  /\ MaxAddr \in Nat /\ HostSize <= MaxAddr /\ MaxAddr < WordTop
  /\ \A target \in MapAddrs, size \in Sizes : target + size <= MaxAddr
  /\ \A new_brk \in BrkArgs : new_brk <= AddrTop /\ align_up_page(new_brk) <= MaxAddr
  /\ \A a \in Accesses : a[1] + a[2] <= MaxAddr /\ a[2] <= AllocMax

Holders(a) == {i \in DOMAIN segments : Covers(segments[i], a)}

Disciplined ==
  /\ \A a \in GuestAddr : Cardinality(Holders(a)) <= 1
  /\ \A i \in DOMAIN segments :
       segments[i].addr + segments[i].size > DirectBase =>
         segments[i].ptr = segments[i].addr

DirectInSegment(addr, len) ==
  Direct(addr) => \A a \in addr .. addr + len - 1 : Holders(a) # {}

DisciplinedNext ==
  \/ \E base \in BrkBases : set_brk_base(base)
  \/ \E target \in MapAddrs, size \in Sizes : map_anonymous(target, size) /\ Disciplined'
  \/ \E new_brk \in BrkArgs : set_brk(new_brk) /\ Disciplined'
  \/ \E a \in Accesses : /\ DirectInSegment(a[1], a[2])
                         /\ \/ \E data \in Data(a[2]) : write(a[1], a[2], data)
                            \/ read(a[1], a[2])

DisciplinedSpec == Init /\ [][DisciplinedNext]_vars

(* The flat array a guest sees through the segments. *)
FlatMem == [a \in GuestAddr |->
             IF Holders(a) = {} THEN -1
             ELSE LET i == CHOOSE j \in Holders(a) : TRUE
                  IN  ram[HostByte(i, a)]]

Flat == INSTANCE FlatMemory WITH Addr <- GuestAddr, mem <- FlatMem

(* The manager implements flat memory: a range once mapped reads as zeros  *)
(* until written and as written afterwards, whatever segments it spans,    *)
(* and calls that fail or move the break change no byte.                   *)
ImplementsFlatMemory == Flat!Spec

=============================================================================
