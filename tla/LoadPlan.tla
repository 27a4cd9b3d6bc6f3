------------------------------ MODULE LoadPlan ------------------------------
(***************************************************************************)
(* What the two loaders (src/src/loader) have in common.  A loader makes   *)
(* its calls to the guest memory in an order that the file and the         *)
(* arguments alone decide: what a call returns can only end the load.  A   *)
(* load is therefore a plan, the sequence of its memory calls, and Loader  *)
(* carries a plan out call by call.                                        *)
(*                                                                         *)
(* A pointer has PtrBytes bytes, eight in the source, and a u64 is less    *)
(* than WordTop.  A name is a pair of a number of leading underscores and  *)
(* a stem.                                                                 *)
(***************************************************************************)
EXTENDS GuestMemory, Word

CONSTANTS
  PtrBytes,
  ThunkBase, ThunkSize,            \* 0x7f00_0000 and 0x2_0000
  TlsBase, TlsSize,                \* 0x7f02_0000 and 0x1_0000
  StackTop, StackSize, StackGap    \* 0x7fff_f000_0000, 0x20_0000 and 0x1000

ASSUME PtrAssumption == PtrBytes \in Nat \ {0} /\ PtrBytes <= AllocMax
ASSUME WordAssumption == WordTop = 2^(ByteBits * PtrBytes)
ASSUME RegionAssumption ==
  /\ {ThunkBase, ThunkSize, TlsBase, TlsSize, StackTop, StackSize, StackGap} \subseteq Nat \ {0}
  /\ ThunkBase + ThunkSize <= TlsBase /\ TlsBase + TlsSize <= DirectBase
  /\ DirectBase + StackSize <= StackTop /\ StackSize > StackGap
  /\ StackTop <= AddrTop /\ HostSize <= AddrTop

-----------------------------------------------------------------------------
(* The calls.  must: an error of the call ends the load (the operator ?).  *)

Indexed(seq) == [k \in 0 .. Len(seq) - 1 |-> seq[k + 1]]

Map(addr, size, must) == [op |-> "map", addr |-> addr, size |-> size, must |-> must]
Write(addr, bytes, must) ==
  [op |-> "write", addr |-> addr, len |-> Len(bytes), data |-> Indexed(bytes), must |-> must]
WriteInt(addr, v, bytes, must) ==
  [op |-> "write", addr |-> addr, len |-> bytes, data |-> ToBytes(v, bytes), must |-> must]
WriteWord(addr, v, must) == WriteInt(addr, v, PtrBytes, must)
Rebase(addr, bias) == [op |-> "rebase", addr |-> addr, bias |-> bias]
SetBrkBase(addr) == [op |-> "brk", addr |-> addr]
Overflow == [op |-> "overflow"]    \* an addition that leaves 64 bits
Panic == [op |-> "panic"]          \* an index out of bounds, a vector too long
Fail == [op |-> "fail"]            \* an error of the object library

(* The additions of the loaders are unchecked: one that overflows panics   *)
(* in a build with overflow checks, and wraps in any other.                *)
AsWord(v) == v % WordTop

Checked(v) == IF v < WordTop THEN <<>> ELSE <<Overflow>>

-----------------------------------------------------------------------------
(* Segments of an image: addr, size, the data the file has for them, and   *)
(* whether that data can be read.                                          *)

Zeros(n) == [k \in 1 .. n |-> 0]

(* The zeros behind the data are a vector of their own.                    *)
ZerosPlan(seg, vaddr) ==
  LET filled == Len(seg.data)
  IN  IF seg.size <= filled THEN <<>>
      ELSE IF seg.size - filled > AllocMax THEN <<Panic>>
      ELSE Checked(vaddr + filled)
           \o <<Write(AsWord(vaddr + filled), Zeros(seg.size - filled), TRUE)>>

SegmentPlan(seg, bias) ==
  LET vaddr == AsWord(seg.addr + bias)
      aligned_vaddr == align_down_page(vaddr)
      pages == seg.size + (vaddr - aligned_vaddr) + PAGE_SIZE - 1
  IN  Checked(seg.addr + bias)
      \o IF seg.size = 0 THEN <<>>
         ELSE IF ~seg.readable THEN <<Fail>>
         ELSE Checked(pages)
              \o <<Map(aligned_vaddr, align_down_page(AsWord(pages)), TRUE),
                   Write(vaddr, seg.data, TRUE)>>
              \o ZerosPlan(seg, vaddr)
              \o Checked(vaddr + seg.size)

SegmentsPlan(segs, bias) == FlattenSeq([i \in DOMAIN segs |-> SegmentPlan(segs[i], bias)])

\* Mutant: the end of the last segment.
max_vaddr_Last(segs, bias) ==
  IF segs = <<>> THEN 0 ELSE AsWord(segs[Len(segs)].addr + bias + segs[Len(segs)].size)

max_vaddr(segs, bias) ==
  Max({0} \cup {AsWord(segs[i].addr + bias + segs[i].size) :
                  i \in {j \in DOMAIN segs : segs[j].size # 0}})

(* What the heap starts behind: align_up_page overflows past AddrTop, and  *)
(* then it is 0.                                                           *)
heap_base(segs, bias) == LET end == max_vaddr(segs, bias) IN IF end > AddrTop THEN 0 ELSE end

-----------------------------------------------------------------------------
(* The region of the thunks, and that of thread-local storage behind it.   *)

\* Mutant: a region that cannot be mapped ends the load.
ThunkRegion_Must == <<Map(ThunkBase, ThunkSize, TRUE), Map(TlsBase, TlsSize, TRUE)>>

ThunkRegion == <<Map(ThunkBase, ThunkSize, FALSE), Map(TlsBase, TlsSize, FALSE)>>

(* Slots are handed out to the names of imports in the order they are met, *)
(* one to a name (symbol_map.entry(..).or_insert_with).                    *)
FirstAt(names, n) == CHOOSE i \in DOMAIN names : names[i] = n /\ \A j \in 1 .. i - 1 : names[j] # n

\* Mutant: the length of the map is taken to count the new name already.
ThunkOf_Counted(names, n) ==
  LET len == Cardinality({names[j] : j \in 1 .. FirstAt(names, n) - 1})
  IN  ThunkBase + PtrBytes * (IF len = 0 THEN 0 ELSE len - 1)

ThunkOf(names, n) ==
  ThunkBase + PtrBytes * Cardinality({names[j] : j \in 1 .. FirstAt(names, n) - 1})

dynamic_thunks(names) == {<<ThunkOf(names, n), n>> : n \in ToSet(names)}

-----------------------------------------------------------------------------
(* The stack.  A string is pushed with its zero, below the last one.       *)

StackMap == Map(StackTop - StackSize, StackSize, TRUE)

Pushed(sp, strs) ==
  LET at[i \in 0 .. Len(strs)] == IF i = 0 THEN sp ELSE at[i - 1] - (Len(strs[i]) + 1)
  IN  at

PushString(ptr, s) == <<Write(ptr, s, TRUE), Write(ptr + Len(s), <<0>>, TRUE)>>

PushStrings(sp, strs) ==
  LET at == Pushed(sp, strs)
  IN  [sp |-> at[Len(strs)],
       ptrs |-> [i \in DOMAIN strs |-> at[i]],
       plan |-> FlattenSeq([i \in DOMAIN strs |-> PushString(at[i], strs[i])])]

AlignStack(sp) == sp - (sp % (2 * PtrBytes))

(* Words are pushed from the last to the first and so lie upwards in order.*)
BelowWords(sp, words) == sp - PtrBytes * Len(words)
PushWords(sp, words) ==
  [i \in 1 .. Len(words) |-> WriteWord(sp - PtrBytes * i, words[Len(words) + 1 - i], TRUE)]

=============================================================================
