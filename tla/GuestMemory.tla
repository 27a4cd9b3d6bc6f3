---------------------------- MODULE GuestMemory ----------------------------
(***************************************************************************)
(* The guest memory of the emulator: struct MemoryManager of               *)
(* src/src/memory/mod.rs.                                                  *)
(*                                                                         *)
(* A list of segments maps guest addresses to host memory obtained from    *)
(* mmap.  An access below DirectBase is translated through the list; an    *)
(* access at or above it dereferences the guest address in the emulator's  *)
(* own address space.  The heap (brk) grows by pushing further segments.   *)
(*                                                                         *)
(* The host kernel is modelled byte by byte: what a host byte is mapped as *)
(* (host) and what it holds (ram).                                         *)
(***************************************************************************)
EXTENDS Integers, Sequences, FiniteSets, SequencesExt

CONSTANTS
  PAGE_SIZE,    \* bytes of a page
  HostSize,     \* host user addresses are 0 .. HostSize - 1
  HostOwned,    \* host bytes the emulator itself occupies from the start
  DirectBase,   \* 0x5000_0000_0000: guest addresses from here on are host addresses
  AddrTop,      \* 2^64 - PAGE_SIZE: align_up_page overflows past it
  AllocMax,     \* bytes of the longest vector the emulator can have
  Byte,         \* what a byte can hold; 0 is among them
  MapAddrs,     \* target addresses the callers of map_anonymous_prot pass
  Sizes,        \* sizes they pass
  BrkArgs,      \* arguments of set_brk
  BrkBases,     \* arguments of set_brk_base (the end of the loaded image)
  Protect,      \* the <<addr, size>> pairs passed to mprotect and munmap
  Accesses,     \* the <<addr, len>> pairs that are read and written
  MaxSegments   \* bound: segments the manager holds

Prot == {"NONE", "R", "RW", "RWX"}

HostAddr == 0 .. HostSize - 1

ASSUME PageAssumption == PAGE_SIZE \in Nat \ {0}
ASSUME HostAssumption == HostSize \in Nat /\ HostOwned \subseteq HostAddr
WordTop == AddrTop + PAGE_SIZE

(* Bounds: no base of the heap and no range to protect or unmap lies past  *)
(* AddrTop.                                                                *)
ASSUME AddressAssumption ==
  /\ DirectBase \in Nat /\ AddrTop \in Nat
  /\ AllocMax \in Nat \ {0} /\ DirectBase + AllocMax < WordTop
  /\ MapAddrs \subseteq Nat /\ Sizes \subseteq Nat
  /\ BrkArgs \subseteq Nat /\ BrkBases \subseteq Nat \ {0}
  /\ \A base \in BrkBases : base <= AddrTop
  /\ Accesses \subseteq Nat \X Nat /\ Protect \subseteq Nat \X Nat
  /\ \A r \in Protect : r[1] + r[2] <= AddrTop
ASSUME ByteAssumption == 0 \in Byte
ASSUME BoundAssumption == MaxSegments \in Nat

VARIABLES
  segments,        \* the segment list, in the order it is searched
  brk_base, brk_current, brk_mapped_end,
  host,            \* host[b]: "free", "own" (not the guest's) or a protection
  ram,             \* ram[b]: content of host byte b
  result           \* what the last call, op, returned: out is "ok" or "err", "fault"
                   \* when the access killed the emulator with a signal, "panic" when
                   \* the call panicked or aborted; bytes is the data of a read

heapVars == <<brk_base, brk_current, brk_mapped_end>>
hostVars == <<host, ram>>
vars == <<segments, heapVars, hostVars, result>>

-----------------------------------------------------------------------------
(* Page arithmetic. *)

align_down_page(a) == a - (a % PAGE_SIZE)

\* Mutant: rounds down.
align_up_page_Down(a) == align_down_page(a)

align_up_page(a) == align_down_page(a + PAGE_SIZE - 1)

-----------------------------------------------------------------------------
(* Segments and address translation. *)

Segment == [addr : Nat, size : Nat \ {0}, prot : Prot, ptr : HostAddr]

Covers(seg, a) == a >= seg.addr /\ a < seg.addr + seg.size

(* Host bytes of the mapping behind a segment: whole pages from ptr on. *)
Pages(ptr, size) == ptr .. ptr + align_up_page(size) - 1
Extent(seg) == Pages(seg.ptr, seg.size)

(* Position of the first segment that contains a; 0 when none does. *)
FirstMatch(a) ==
  IF \E i \in DOMAIN segments : Covers(segments[i], a)
  THEN CHOOSE i \in DOMAIN segments :
         /\ Covers(segments[i], a)
         /\ \A j \in 1 .. i - 1 : ~Covers(segments[j], a)
  ELSE 0

HostByte(i, a) == segments[i].ptr + (a - segments[i].addr)

(* The copy loops of write and read: a chunk stays in the segment it was   *)
(* started in until that segment ends, and only then is the list searched  *)
(* again.  The value at k is the segment used for byte addr + k.           *)
ChunkSegments(addr, len) ==
  LET seg[k \in 0 .. len - 1] ==
        LET last == IF k = 0 THEN 0 ELSE seg[k - 1]
        IN  IF last # 0 /\ Covers(segments[last], addr + k) THEN last
            ELSE FirstMatch(addr + k)
  IN  seg

\* Mutant: the range may run one byte past the segment.
WholeSegment_OffByOne(addr, len) ==
  LET Whole(i) == addr >= segments[i].addr
                  /\ addr + len <= segments[i].addr + segments[i].size + 1
  IN  IF \E i \in DOMAIN segments : Whole(i)
      THEN CHOOSE i \in DOMAIN segments : Whole(i) /\ \A j \in 1 .. i - 1 : ~Whole(j)
      ELSE 0

(* read first looks for one segment that holds the whole range. *)
WholeSegment(addr, len) ==
  LET Whole(i) == addr >= segments[i].addr
                  /\ addr + len <= segments[i].addr + segments[i].size
  IN  IF \E i \in DOMAIN segments : Whole(i)
      THEN CHOOSE i \in DOMAIN segments : Whole(i) /\ \A j \in 1 .. i - 1 : ~Whole(j)
      ELSE 0

ReadSegments(addr, len) ==
  IF WholeSegment(addr, len) # 0
  THEN [k \in 0 .. len - 1 |-> WholeSegment(addr, len)]
  ELSE ChunkSegments(addr, len)

(* Bytes a loop gets through before it meets an unmapped address. *)
MappedPrefix(seg, len) ==
  Cardinality({k \in 0 .. len - 1 : \A j \in 0 .. k : seg[j] # 0})

Direct(addr) == addr >= DirectBase

(* The host bytes a write (a read) of the range touches, by offset. *)
WriteBytes(addr, len) ==
  IF Direct(addr)
  THEN [k \in 0 .. len - 1 |-> addr + k]
  ELSE LET seg == ChunkSegments(addr, len)
       IN  [k \in 0 .. MappedPrefix(seg, len) - 1 |-> HostByte(seg[k], addr + k)]

ReadBytes(addr, len) ==
  IF Direct(addr)
  THEN [k \in 0 .. len - 1 |-> addr + k]
  ELSE LET seg == ReadSegments(addr, len)
       IN  [k \in 0 .. MappedPrefix(seg, len) - 1 |-> HostByte(seg[k], addr + k)]

Readable(b) == b \in HostAddr /\ host[b] \in {"own", "R", "RW", "RWX"}
Writable(b) == b \in HostAddr /\ host[b] \in {"own", "RW", "RWX"}

(***************************************************************************)
(* The kernel's mmap without MAP_FIXED: the hint, rounded down to a page,  *)
(* when the pages from there on are free, and otherwise (or without a      *)
(* hint) any free run of pages.                                            *)
(***************************************************************************)
FreeRun(ptr, size) ==
  /\ ptr \in HostAddr /\ ptr = align_down_page(ptr)
  /\ Pages(ptr, size) \subseteq HostAddr
  /\ \A b \in Pages(ptr, size) : host[b] = "free"

\* Mutant: mmap is passed MAP_FIXED.
HostPlaces_MapFixed(hint, size) ==
  IF hint # 0 THEN {align_down_page(hint)} ELSE {ptr \in HostAddr : FreeRun(ptr, size)}

HostPlaces(hint, size) ==
  IF hint # 0 /\ FreeRun(align_down_page(hint), size)
  THEN {align_down_page(hint)}
  ELSE {ptr \in HostAddr : FreeRun(ptr, size)}

-----------------------------------------------------------------------------
(* The operations. *)

Returns(op, out) == [op |-> op, out |-> out, bytes |-> <<>>]

Init ==
  /\ segments = <<>>
  /\ brk_base = 0 /\ brk_current = 0 /\ brk_mapped_end = 0
  /\ host = [b \in HostAddr |-> IF b \in HostOwned THEN "own" ELSE "free"]
  /\ ram = [b \in HostAddr |-> 0]
  /\ result = Returns("map", "ok")

Alive == result.out \notin {"fault", "panic"}

(* The loaders call it once, after the image is mapped and before the      *)
(* guest runs.                                                             *)
set_brk_base(base) ==
  /\ Alive /\ brk_base = 0
  /\ brk_base' = align_up_page(base)
  /\ brk_current' = align_up_page(base)
  /\ brk_mapped_end' = align_up_page(base)
  /\ result' = Returns("brk", "ok")
  /\ UNCHANGED <<segments, hostVars>>

\* Mutant: the new segment is searched first.
PushSegment_Front(target, size, prot, ptr) ==
  /\ segments' = <<[addr |-> IF target # 0 THEN target ELSE ptr,
                    size |-> size, prot |-> prot, ptr |-> ptr]>> \o segments
  /\ host' = [b \in HostAddr |-> IF b \in Pages(ptr, size) THEN prot ELSE host[b]]
  /\ ram' = [b \in HostAddr |-> IF b \in Pages(ptr, size) THEN 0 ELSE ram[b]]

(* What a successful mmap and the push that follows it change. *)
PushSegment(target, size, prot, ptr) ==
  /\ segments' = Append(segments, [addr |-> IF target # 0 THEN target ELSE ptr,
                                   size |-> size, prot |-> prot, ptr |-> ptr])
  /\ host' = [b \in HostAddr |-> IF b \in Pages(ptr, size) THEN prot ELSE host[b]]
  /\ ram' = [b \in HostAddr |-> IF b \in Pages(ptr, size) THEN 0 ELSE ram[b]]

(* An error return: the manager and the host keep their state. *)
Refused(op) == result' = Returns(op, "err") /\ UNCHANGED <<segments, heapVars, hostVars>>

\* Mutant: an empty segment is pushed.
Acceptable_Any(size) == size \in Nat

Acceptable(size) == size # 0

map_anonymous_prot(target, size, prot) ==
  /\ Alive
  /\ \/ /\ Acceptable(size) /\ Len(segments) < MaxSegments
        /\ \E ptr \in HostPlaces(target, size) : PushSegment(target, size, prot, ptr)
        /\ result' = Returns("map", "ok")
        /\ UNCHANGED heapVars
     \/ Refused("map")                 \* size 0, or mmap fails

\* Mutant: the mapped end moves before mmap is tried.
ExpansionFails_EndMoved(new_brk) ==
  /\ new_brk > brk_mapped_end
  /\ brk_mapped_end' = align_up_page(new_brk)
  /\ result' = Returns("brk", "err")
  /\ UNCHANGED <<segments, brk_base, brk_current, hostVars>>

ExpansionFails(new_brk) == new_brk > brk_mapped_end /\ Refused("brk")

(* An argument past AddrTop overflows in align_up_page: a build with       *)
(* overflow checks panics, and in any other it wraps to 0, where the       *)
(* expansion exceeds the address space and mmap refuses it.                *)
AlignmentPanics(new_brk) ==
  /\ new_brk > brk_mapped_end /\ new_brk > AddrTop
  /\ result' = Returns("brk", "panic")
  /\ UNCHANGED <<segments, heapVars, hostVars>>

set_brk(new_brk) ==
  /\ Alive /\ brk_base # 0
  /\ \/ /\ new_brk < brk_base          \* covers 0, the query
        /\ result' = Returns("brk", "ok")
        /\ UNCHANGED <<segments, heapVars, hostVars>>
     \/ /\ new_brk \in brk_base .. brk_mapped_end
        /\ brk_current' = new_brk
        /\ result' = Returns("brk", "ok")
        /\ UNCHANGED <<segments, brk_base, brk_mapped_end, hostVars>>
     \/ /\ new_brk > brk_mapped_end /\ new_brk <= AddrTop
        /\ Len(segments) < MaxSegments
        /\ LET expand_size == align_up_page(new_brk) - brk_mapped_end
           IN  \E ptr \in HostPlaces(brk_mapped_end, expand_size) :
                 PushSegment(brk_mapped_end, expand_size, "RW", ptr)
        /\ brk_mapped_end' = align_up_page(new_brk)
        /\ brk_current' = new_brk
        /\ result' = Returns("brk", "ok")
        /\ UNCHANGED brk_base
     \/ ExpansionFails(new_brk)
     \/ AlignmentPanics(new_brk)

(* The last of the offsets that are stored to host byte b. *)
LastTo(to, b) == CHOOSE k \in DOMAIN to :
                   to[k] = b /\ \A j \in DOMAIN to : to[j] = b => j <= k

Outcome(ok, bytes, len) ==
  IF ~ok THEN "fault" ELSE IF DOMAIN bytes = 0 .. len - 1 THEN "ok" ELSE "err"

WriteOutcome(addr, len) ==
  LET to == WriteBytes(addr, len)
  IN  Outcome(\A k \in DOMAIN to : Writable(to[k]), to, len)

(* A vector for more than AllocMax bytes cannot be had: len is the guest's *)
(* in a write to a file, and its sum with addr may overflow as well.       *)
ReadOutcome(addr, len) ==
  LET from == ReadBytes(addr, len)
  IN  IF len > AllocMax THEN "panic"
      ELSE Outcome(\A k \in DOMAIN from : Readable(from[k]), from, len)

(* The text of an error lists the segments' ends, whose sums overflow for  *)
(* a mapping the guest asked for at the top of the addresses: an error is  *)
(* then a panic where overflow is checked.                                 *)
PastTop(seg) == seg.addr + seg.size >= WordTop

Ends(out) ==
  {out} \cup (IF out = "err" /\ \E i \in DOMAIN segments : PastTop(segments[i])
             THEN {"panic"} ELSE {})

BytesAt(addr, len) ==
  LET from == ReadBytes(addr, len) IN [k \in DOMAIN from |-> ram[from[k]]]

(* Memory m after the data is written to it: its first bytes are stored    *)
(* even when a later one is unmapped.                                      *)
Stored(m, addr, len, data) ==
  LET to == WriteBytes(addr, len)
  IN  IF WriteOutcome(addr, len) = "fault" THEN m
      ELSE [b \in HostAddr |-> IF \E k \in DOMAIN to : to[k] = b
                               THEN data[LastTo(to, b)] ELSE m[b]]

write(addr, len, data) ==
  /\ Alive
  /\ \E out \in Ends(WriteOutcome(addr, len)) : result' = Returns("write", out)
  /\ ram' = Stored(ram, addr, len, data)
  /\ UNCHANGED <<segments, heapVars, host>>

read(addr, len) ==
  /\ Alive
  /\ \E out \in Ends(ReadOutcome(addr, len)) :
       result' = [op |-> "read", out |-> out,
                  bytes |-> IF out = "ok" THEN BytesAt(addr, len) ELSE <<>>]
  /\ UNCHANGED <<segments, heapVars, hostVars>>

(* A string is read byte by byte up to a zero: its length, and what stops  *)
(* the loop.  No string is longer than the range an address can run        *)
(* through before it leaves the host.                                      *)
StringLength(addr) ==
  LET Char(n) == ReadOutcome(addr + n, 1) = "ok" /\ BytesAt(addr + n, 1)[0] # 0
  IN  CHOOSE n \in 0 .. HostSize + DirectBase :
        ~Char(n) /\ \A j \in 0 .. n - 1 : Char(j)

read_string(addr) ==
  LET len == StringLength(addr)
      out == ReadOutcome(addr + len, 1)
  IN  [out |-> out,
       bytes |-> IF out = "ok" THEN [k \in 0 .. len - 1 |-> BytesAt(addr + k, 1)[0]] ELSE <<>>]

map_anonymous(target, size) == map_anonymous_prot(target, size, "RWX")

(* mprotect and munmap of the manager: nothing in the crate calls them     *)
(* (the guest's system calls of these names do nothing).                   *)
\* Mutant: one page too many.
AlignedSize_PlusPage(addr, size) ==
  align_up_page(addr + size) - align_down_page(addr) + PAGE_SIZE

AlignedSize(addr, size) == align_up_page(addr + size) - align_down_page(addr)

mprotect(addr, size, prot) ==
  LET aligned_size == AlignedSize(addr, size)
      pos == SelectInSeq(segments, LAMBDA seg :
               seg.addr = align_down_page(addr) /\ seg.size >= aligned_size)
  IN  /\ Alive
      /\ \/ /\ pos # 0
            /\ LET range == segments[pos].ptr .. segments[pos].ptr + aligned_size - 1
               IN  /\ \A b \in range : host[b] # "free"
                   /\ host' = [b \in HostAddr |-> IF b \in range THEN prot ELSE host[b]]
            /\ segments' = [segments EXCEPT ![pos].prot = prot]
            /\ result' = Returns("mprotect", "ok")
            /\ UNCHANGED <<heapVars, ram>>
         \/ Refused("mprotect")         \* no such segment, or the kernel refuses

(* The segment leaves the list whole, before and whatever the kernel does. *)
munmap(addr, size) ==
  LET aligned_size == AlignedSize(addr, size)
      pos == SelectInSeq(segments, LAMBDA seg : seg.addr = align_down_page(addr))
  IN  /\ Alive
      /\ \/ pos = 0 /\ Refused("munmap")
         \/ /\ pos # 0
            /\ segments' = RemoveAt(segments, pos)
            /\ \/ /\ aligned_size # 0
                  /\ LET range == segments[pos].ptr .. segments[pos].ptr + aligned_size - 1
                     IN  host' = [b \in HostAddr |->
                                   IF b \in range THEN "free" ELSE host[b]]
                  /\ result' = Returns("munmap", "ok")
               \/ UNCHANGED host /\ result' = Returns("munmap", "err")
            /\ UNCHANGED <<heapVars, ram>>

(* A caller's data is itself a vector. *)
Data(len) == {data \in [0 .. len - 1 -> Byte] : len <= AllocMax}

Next ==
  \/ \E base \in BrkBases : set_brk_base(base)
  \/ \E target \in MapAddrs, size \in Sizes : map_anonymous(target, size)
  \/ \E new_brk \in BrkArgs : set_brk(new_brk)
  \/ \E a \in Accesses : \E data \in Data(a[2]) : write(a[1], a[2], data)
  \/ \E a \in Accesses : read(a[1], a[2])

ApiNext ==
  \/ Next
  \/ \E r \in Protect, prot \in Prot : mprotect(r[1], r[2], prot)
  \/ \E r \in Protect : munmap(r[1], r[2])

Spec == Init /\ [][Next]_vars

ApiSpec == Init /\ [][ApiNext]_vars

-----------------------------------------------------------------------------
(* Properties. *)

TypeOK ==
  /\ segments \in Seq(Segment)
  /\ brk_base \in Nat /\ brk_current \in Nat /\ brk_mapped_end \in Nat
  /\ host \in [HostAddr -> Prot \cup {"free", "own"}]
  /\ ram \in [HostAddr -> Byte]
  /\ result.out \in {"ok", "err", "fault", "panic"}

(* The heap is backed: the break lies between the base and the mapped end, *)
(* and a segment holds every address from the base to the mapped end, so   *)
(* an address below the break never fails to translate (set_brk).          *)
HeapBacked ==
  /\ brk_base <= brk_current /\ brk_current <= brk_mapped_end
  /\ \A a \in brk_base .. brk_mapped_end - 1 :
       \E i \in DOMAIN segments : Covers(segments[i], a)

(* Segments are isolated in the host: what backs a segment is mapped, is   *)
(* not the emulator's own memory and backs no other segment (as_slice and  *)
(* as_mut_slice rest on this for their safety).                            *)
SegmentsIsolated ==
  /\ \A i \in DOMAIN segments : \A b \in Extent(segments[i]) :
       b \in HostAddr /\ host[b] \in Prot
  /\ \A i, j \in DOMAIN segments :
       i # j => Extent(segments[i]) \cap Extent(segments[j]) = {}

(* An address translates for ever to the host byte it was first given:     *)
(* neither a later mapping over the same guest range nor a move of the     *)
(* break takes it away or changes what it holds (segments are only pushed).*)
Translation(a) == LET i == FirstMatch(a) IN IF i = 0 THEN -1 ELSE HostByte(i, a)

TranslationStable ==
  [][\A a \in {r[1] : r \in Accesses} :
       Translation(a) # -1 =>
         /\ Translation(a)' = Translation(a)
         /\ ram'[Translation(a)] # ram[Translation(a)] =>
              \E r \in Accesses : \E data \in Data(r[2]) : write(r[1], r[2], data)]_vars

(* The bytes of the range have one segment each at most. *)
CoveredOnce(addr, len) ==
  \A a \in addr .. addr + len - 1 :
    Cardinality({i \in DOMAIN segments : Covers(segments[i], a)}) <= 1

(* Reading a range back after a successful write to it gives the data      *)
(* written, also when it crosses segments, provided no two segments claim  *)
(* an address of it: write goes to the first of them, while read may take  *)
(* another that holds the whole range.                                     *)
ReadAfterWrite ==
  [][result'.out = "ok" =>
       \A r \in {a \in Accesses : CoveredOnce(a[1], a[2])} : \A data \in Data(r[2]) :
         write(r[1], r[2], data) => [k \in 0 .. r[2] - 1 |-> ram'[ReadBytes(r[1], r[2])[k]]] = data]_vars

(* The host bytes the segments have for a guest address.                   *)
Holding(a) == {HostByte(i, a) : i \in {j \in DOMAIN segments : Covers(segments[j], a)}}

(* A call that returns an error leaves the manager and the host's mappings *)
(* as they were; of the memory it changes only what a write stored ahead   *)
(* of the first unmapped byte, in a segment that holds the address (where  *)
(* several do, not always the first: a chunk stays in its segment).        *)
FailedCallsHarmless ==
  [][result'.out = "err" =>
       /\ UNCHANGED <<segments, heapVars, host>>
       /\ \A b \in HostAddr : ram'[b] # ram[b] =>
            \E r \in Accesses : \E k \in 0 .. r[2] - 1 :
              /\ b \in Holding(r[1] + k)
              /\ \A j \in 0 .. k : FirstMatch(r[1] + j) # 0
              /\ \E j \in k .. r[2] - 1 : FirstMatch(r[1] + j) = 0]_vars

(* With mprotect and munmap in play, isolation is lost by one kind of call *)
(* only: a munmap longer than the segment it removes, which frees what     *)
(* follows in the host while the neighbour's segment stays in the list.    *)
OverlongMunmap ==
  \E r \in Protect :
    /\ munmap(r[1], r[2])
    /\ \E i \in DOMAIN segments :
         /\ segments[i].addr = align_down_page(r[1])
         /\ align_up_page(r[1] + r[2]) - align_down_page(r[1])
              > align_up_page(segments[i].size)

IsolationKept == [][SegmentsIsolated => SegmentsIsolated' \/ OverlongMunmap]_vars

=============================================================================
