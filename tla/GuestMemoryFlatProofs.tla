------------------------ MODULE GuestMemoryFlatProofs ------------------------
(***************************************************************************)
(* MemoryManager implements FlatMemory under Disciplined, for every page   *)
(* size, host, layout and set of arguments: the initial states map to the  *)
(* flat memory's, and every step to one of its steps or to none.           *)
(***************************************************************************)
EXTENDS GuestMemoryFlat, GuestMemoryProofs

USE DEF HostAddr, Prot, heapVars, hostVars, vars, Alive, Returns

-----------------------------------------------------------------------------
(* What the guest's memory looks like through the segments.                *)

(* No segment runs past the last address, so an error is no panic. *)
InReach == \A i \in DOMAIN segments : ~PastTop(segments[i])

FlatInv == TypeOK /\ HeapBacked /\ SegmentsIsolated /\ Unprotected /\ Disciplined /\ InReach

(* An address has one segment at most; the guest sees -1 where it has      *)
(* none, and the content of its byte where it has one.                     *)
FlatView ==
  /\ \A a \in GuestAddr : \A i, j \in Holders(a) : i = j
  /\ \A a \in GuestAddr : Holding(a) = {} => FlatMem[a] = -1
  /\ \A a \in GuestAddr : \A h \in Holding(a) : FlatMem[a] = ram[h] /\ FlatMem[a] # -1

LEMMA Seen == TypeOK /\ SegmentsIsolated /\ Disciplined => FlatView
<1> SUFFICES ASSUME TypeOK, SegmentsIsolated, Disciplined PROVE FlatView
  OBVIOUS
<1>0. \A a \in GuestAddr : \A i, j \in Holders(a) : i = j
  <2>1. \A a \in GuestAddr : IsFiniteSet(Holders(a)) /\ Cardinality(Holders(a)) <= 1
    BY SegmentsFinite DEF TypeOK, Disciplined, Holders
  <2> QED  BY <2>1, AtMostOne
<1>1. ASSUME NEW a \in GuestAddr, Holding(a) = {}
      PROVE  FlatMem[a] = -1
  <2>1. Holders(a) = {}
    BY <1>1 DEF Holding, Holders
  <2> QED  BY <2>1 DEF FlatMem
<1>2. ASSUME NEW a \in GuestAddr, NEW h \in Holding(a)
      PROVE  FlatMem[a] = ram[h] /\ FlatMem[a] # -1
  <2>1. a \in Nat
    BY FlatAssumption DEF GuestAddr
  <2>2. PICK i \in Holders(a) : h = HostByte(i, a)
    BY DEF Holding, Holders
  <2>4. (CHOOSE j \in Holders(a) : TRUE) = i
    BY <1>0, <2>2
  <2>5. FlatMem[a] = ram[h]
    BY <2>2, <2>4 DEF FlatMem
  <2>6. h \in HostAddr
    BY <2>1, HoldingMapped
  <2> QED  BY <2>5, <2>6, FlatAssumption DEF TypeOK
<1> QED  BY <1>0, <1>1, <1>2 DEF FlatView

(* Under the discipline a direct access reaches what the segments hold, as *)
(* a translated one does.                                                  *)
LEMMA HeldReach ==
  ASSUME TypeOK, Disciplined, NEW addr \in Nat, NEW len \in Nat, DirectInSegment(addr, len),
         NEW to, Reaches(to, addr, len)
  PROVE  \E n \in 0 .. len :
           /\ DOMAIN to = 0 .. n - 1
           /\ \A k \in 0 .. n - 1 : to[k] \in Holding(addr + k)
           /\ n < len => Holding(addr + n) = {}
<1>1. CASE ~Direct(addr)
  BY <1>1 DEF Reaches
<1>2. CASE Direct(addr)
  <2>1. len \in 0 .. len /\ DOMAIN to = 0 .. len - 1 /\ \A k \in 0 .. len - 1 : to[k] = addr + k
    BY <1>2 DEF Reaches
  <2>2. ASSUME NEW k \in 0 .. len - 1
        PROVE  addr + k \in Holding(addr + k)
    <3>1. PICK i \in DOMAIN segments : Covers(segments[i], addr + k)
      <4>1. addr + k \in addr .. addr + len - 1
        OBVIOUS
      <4> QED  BY <1>2, <4>1 DEF DirectInSegment, Holders
    <3>2. segments[i] \in Segment
      BY DEF TypeOK
    <3>3. segments[i].addr \in Nat /\ segments[i].size \in Nat
      BY <3>2 DEF Segment
    <3>4. segments[i].addr + segments[i].size > DirectBase
      BY <1>2, <3>1, <3>3, AddressAssumption DEF Covers, Direct
    <3>5. segments[i].ptr = segments[i].addr
      BY <3>4 DEF Disciplined
    <3>6. HostByte(i, addr + k) = addr + k
      BY <3>3, <3>5 DEF HostByte
    <3> QED  BY <3>1, <3>6 DEF Holding
  <2>3. \A k \in 0 .. len - 1 : to[k] \in Holding(addr + k)
    BY <2>1, <2>2
  <2>4. ~ (len < len)
    OBVIOUS
  <2> QED  BY <2>1, <2>3, <2>4
<1> QED  BY <1>1, <1>2

(* What is mapped, for a run of bytes that are held up to byte n.          *)
LEMMA MappedUpTo ==
  ASSUME FlatView, NEW addr \in Nat, NEW len \in Nat, addr + len <= MaxAddr, NEW n \in 0 .. len,
         \A k \in 0 .. n - 1 : Holding(addr + k) # {},
         n < len => Holding(addr + n) = {}, NEW k \in Int, k < len
  PROVE  Flat!Mapped(addr, k) <=> k < n
<1>1. \A j \in 0 .. len - 1 : addr + j \in GuestAddr
  BY FlatAssumption DEF GuestAddr
<1>2. \A j \in 0 .. n - 1 : FlatMem[addr + j] # -1
  BY <1>1 DEF FlatView
<1>3. n < len => FlatMem[addr + n] = -1
  BY <1>1 DEF FlatView
<1>4. CASE k < n
  BY <1>2, <1>4 DEF Flat!Mapped, Flat!Unmapped
<1>5. CASE k >= n
  <2>1. n \in 0 .. k /\ n < len
    BY <1>5
  <2> QED  BY <1>3, <1>5, <2>1 DEF Flat!Mapped, Flat!Unmapped
<1> QED  BY <1>4, <1>5

-----------------------------------------------------------------------------
(* The steps. *)

(* What changes neither the list nor the memory shows the guest nothing.   *)
LEMMA SameView ==
  ASSUME UNCHANGED segments, UNCHANGED ram
  PROVE  FlatMem' = FlatMem
BY DEF FlatMem, Holders, HostByte, Covers

(* A write is a store to the flat memory. *)
LEMMA WriteStores ==
  ASSUME FlatInv, FlatInv', NEW addr \in Nat, NEW len \in Nat, addr + len <= MaxAddr,
         NEW data \in Data(len), DirectInSegment(addr, len), write(addr, len, data)
  PROVE  Flat!Store(addr, len, data)
<1> DEFINE to == WriteBytes(addr, len)
<1>1. FlatView
  BY Seen DEF FlatInv
<1>2. PICK n \in 0 .. len :
        /\ DOMAIN to = 0 .. n - 1
        /\ \A k \in 0 .. n - 1 : to[k] \in Holding(addr + k)
        /\ n < len => Holding(addr + n) = {}
  BY HeldReach, WriteReaches DEF FlatInv, TypeOK
<1> HIDE DEF to
<1>3. \A k \in Int : k < len => (Flat!Mapped(addr, k) <=> k < n)
  BY <1>1, <1>2, MappedUpTo
<1>4. WriteOutcome(addr, len) = IF n = len THEN "ok" ELSE "err"
  <2>1. \A k \in DOMAIN to : Writable(to[k])
    BY <1>2, HeldAccessible DEF FlatInv
  <2>2. DOMAIN to = 0 .. len - 1 <=> n = len
    BY <1>2
  <2> QED  BY <2>1, <2>2 DEF WriteOutcome, Outcome, to
<1>5. result' = Flat!Returns("write", IF Flat!Mapped(addr, len - 1) THEN "ok" ELSE "err")
  <2>1. Flat!Mapped(addr, len - 1) <=> n = len
    BY <1>3
  <2> QED  BY <1>4, <2>1 DEF write, Flat!Returns, Ends, FlatInv, InReach
<1>6. /\ ram' = Stored(ram, addr, len, data)
      /\ UNCHANGED segments
  BY DEF write
<1>7. /\ \A k \in DOMAIN to : ram'[to[k]] = data[k]
      /\ \A b \in HostAddr : (\A k \in DOMAIN to : to[k] # b) => ram'[b] = ram[b]
  BY <1>4, <1>6, StoredAt DEF FlatInv, to
<1>8. FlatView'
  BY Seen, PTL DEF FlatInv
<1>9. \A a : Holding(a)' = Holding(a)
  BY <1>6 DEF Holding, HostByte, Covers
<1>10. ASSUME NEW a \in GuestAddr
       PROVE  FlatMem'[a] = IF a \in addr .. addr + len - 1 /\ Flat!Mapped(addr, a - addr)
                            THEN data[a - addr] ELSE FlatMem[a]
  <2>1. a \in Nat
    BY FlatAssumption DEF GuestAddr
  <2>2. CASE a \in addr .. addr + len - 1 /\ Flat!Mapped(addr, a - addr)
    <3>1. a - addr \in 0 .. n - 1
      BY <1>3, <2>1, <2>2
    <3>2. to[a - addr] \in Holding(a) /\ a - addr \in DOMAIN to
      <4>1. addr + (a - addr) = a
        BY <2>1
      <4> QED  BY <1>2, <3>1, <4>1
    <3> QED  BY <1>7, <1>8, <1>9, <2>2, <3>2 DEF FlatView
  <2>3. CASE ~ (a \in addr .. addr + len - 1 /\ Flat!Mapped(addr, a - addr))
    <3>1. CASE Holding(a) = {}
      BY <1>1, <1>8, <1>9, <2>3, <3>1 DEF FlatView
    <3>2. ASSUME NEW h \in Holding(a)
          PROVE  FlatMem'[a] = FlatMem[a]
      <4>1. ASSUME NEW k \in DOMAIN to PROVE to[k] # h
        <5>1. addr + k # a
          BY <1>2, <1>3, <2>3
        <5>2. to[k] \in Holding(addr + k) /\ addr + k \in Nat
          BY <1>2
        <5> QED  BY <2>1, <5>1, <5>2, HoldingApart DEF FlatInv
      <4>2. h \in HostAddr
        BY <2>1, HoldingMapped DEF FlatInv
      <4>3. ram'[h] = ram[h]
        BY <1>7, <4>1, <4>2
      <4> QED  BY <1>1, <1>8, <1>9, <4>3 DEF FlatView
    <3> QED  BY <2>3, <3>1, <3>2
  <2> QED  BY <2>2, <2>3
<1>11. FlatMem' = [a \in GuestAddr |->
                     IF a \in addr .. addr + len - 1 /\ Flat!Mapped(addr, a - addr)
                     THEN data[a - addr] ELSE FlatMem[a]]
  <2>1. FlatMem' = [a \in GuestAddr |-> FlatMem'[a]]
    BY DEF FlatMem
  <2> QED  BY <1>10, <2>1
<1> QED  BY <1>5, <1>11 DEF Flat!Store

(* A read is a load. *)
LEMMA ReadLoads ==
  ASSUME FlatInv, NEW addr \in Nat, NEW len \in Nat, addr + len <= MaxAddr, len <= AllocMax,
         DirectInSegment(addr, len), read(addr, len)
  PROVE  Flat!Load(addr, len)
<1> DEFINE from == ReadBytes(addr, len)
<1>1. FlatView
  BY Seen DEF FlatInv
<1>2. PICK n \in 0 .. len :
        /\ DOMAIN from = 0 .. n - 1
        /\ \A k \in 0 .. n - 1 : from[k] \in Holding(addr + k)
        /\ n < len => Holding(addr + n) = {}
  BY HeldReach, ReadReaches DEF FlatInv, TypeOK
<1> HIDE DEF from
<1>3. Flat!Mapped(addr, len - 1) <=> n = len
  <2>1. \A k \in Int : k < len => (Flat!Mapped(addr, k) <=> k < n)
    BY <1>1, <1>2, MappedUpTo
  <2> QED  BY <2>1
<1>4. ReadOutcome(addr, len) = IF n = len THEN "ok" ELSE "err"
  <2>1. \A k \in DOMAIN from : Readable(from[k])
    BY <1>2, HeldAccessible DEF FlatInv
  <2>2. DOMAIN from = 0 .. len - 1 <=> n = len
    BY <1>2
  <2>3. ~(len > AllocMax)
    BY AddressAssumption
  <2> QED  BY <2>1, <2>2, <2>3 DEF ReadOutcome, Outcome, from
<1>5. n = len => BytesAt(addr, len) = [k \in 0 .. len - 1 |-> FlatMem[addr + k]]
  <2>1. ASSUME n = len, NEW k \in 0 .. len - 1
        PROVE  ram[from[k]] = FlatMem[addr + k]
    <3>1. addr + k \in GuestAddr
      BY FlatAssumption DEF GuestAddr
    <3> QED  BY <1>1, <1>2, <2>1, <3>1 DEF FlatView
  <2>2. BytesAt(addr, len) = [k \in DOMAIN from |-> ram[from[k]]]
    BY DEF BytesAt, from
  <2> QED  BY <1>2, <2>1, <2>2
<1>6. result' = IF Flat!Mapped(addr, len - 1)
                THEN [op |-> "read", out |-> "ok", bytes |-> [k \in 0 .. len - 1 |-> FlatMem[addr + k]]]
                ELSE Flat!Returns("read", "err")
  <2>1. Ends(ReadOutcome(addr, len)) = {ReadOutcome(addr, len)}
    BY DEF Ends, FlatInv, InReach
  <2> QED  BY <1>3, <1>4, <1>5, <2>1 DEF read, Flat!Returns
<1>7. UNCHANGED FlatMem
  BY SameView DEF read
<1> QED  BY <1>6, <1>7 DEF Flat!Load

(* A push maps a range of the flat memory that was not mapped. *)
LEMMA PushMaps ==
  ASSUME FlatInv, FlatInv', NEW target \in Nat, NEW size \in Nat \ {0}, NEW prot \in Prot,
         NEW ptr \in HostPlaces(target, size), PushSegment(target, size, prot, ptr),
         target + size <= MaxAddr,
         result' = Returns("map", "ok") \/ result' = Returns("brk", "ok")
  PROVE  \E first, past \in GuestAddr : first < past /\ Flat!Map(first, past)
<1> DEFINE n == Len(segments) + 1
           first == IF target # 0 THEN target ELSE ptr
           past == first + size
<1>1. /\ DOMAIN segments' = DOMAIN segments \cup {n}
      /\ \A i \in DOMAIN segments : segments'[i] = segments[i] /\ i # n
      /\ segments'[n].addr = first /\ segments'[n].size = size /\ segments'[n].ptr = ptr
  BY PushAppends DEF FlatInv
<1>2. ptr \in HostAddr /\ Pages(ptr, size) \subseteq HostAddr
      /\ \A b \in Pages(ptr, size) : host[b] = "free"
  BY DEF HostPlaces, FreeRun
<1>3. /\ ptr \in Nat /\ size <= align_up_page(size) /\ align_up_page(size) \in Nat
  BY <1>2, PageBounds, HostAssumption
<1>4. ptr + align_up_page(size) - 1 \in Pages(ptr, size)
  BY <1>3 DEF Pages
<1>5. first \in GuestAddr /\ past \in GuestAddr /\ first < past
  BY <1>2, <1>3, <1>4, FlatAssumption, HostAssumption DEF GuestAddr
<1>6. FlatView /\ FlatView'
  BY Seen, PTL DEF FlatInv
<1> HIDE DEF n, first, past
<1>7. ASSUME NEW a \in GuestAddr, a \in first .. past - 1
      PROVE  FlatMem[a] = -1 /\ FlatMem'[a] = 0
  <2>1. Covers(segments'[n], a) /\ n \in DOMAIN segments'
    BY <1>1, <1>5, <1>7, FlatAssumption DEF Covers, past, GuestAddr
  <2>2. ASSUME NEW i \in DOMAIN segments, Covers(segments[i], a)
        PROVE  FALSE
    <3>1. i \in Holders(a)' /\ n \in Holders(a)'
      BY <1>1, <2>1, <2>2 DEF Holders, Covers
    <3> QED  BY <1>1, <1>6, <3>1 DEF FlatView
  <2>3. FlatMem[a] = -1
    BY <1>6, <2>2 DEF FlatView, Holding
  <2>4. ptr + (a - first) \in Pages(ptr, size)
    BY <1>3, <1>5, <1>7, FlatAssumption DEF Pages, past, GuestAddr
  <2>5. ptr + (a - first) \in Holding(a)'
    BY <1>1, <2>1 DEF Holding, HostByte, Covers
  <2>6. ram'[ptr + (a - first)] = 0
    BY <1>2, <2>4 DEF PushSegment
  <2> QED  BY <1>6, <2>3, <2>5, <2>6 DEF FlatView
<1>8. ASSUME NEW a \in GuestAddr, a \notin first .. past - 1
      PROVE  FlatMem'[a] = FlatMem[a]
  <2>1. a \in Nat
    BY FlatAssumption DEF GuestAddr
  <2>2. ~Covers(segments'[n], a)
    BY <1>1, <1>5, <1>8, <2>1, FlatAssumption DEF Covers, past, GuestAddr
  <2>3. Holding(a)' = Holding(a)
    <3>1. \A i : i \in DOMAIN segments' /\ Covers(segments'[i], a)
                <=> i \in DOMAIN segments /\ Covers(segments[i], a)
      BY <1>1, <2>2
    <3>2. \A i \in DOMAIN segments : HostByte(i, a)' = HostByte(i, a)
      BY <1>1 DEF HostByte
    <3> QED  BY <3>1, <3>2 DEF Holding, Covers
  <2>4. CASE Holding(a) = {}
    BY <1>6, <2>3, <2>4 DEF FlatView
  <2>5. ASSUME NEW h \in Holding(a)
        PROVE  FlatMem'[a] = FlatMem[a]
    <3>1. h \in HostAddr /\ host[h] \in Prot
      BY <2>1, HoldingMapped DEF FlatInv
    <3>2. h \notin Pages(ptr, size)
      BY <1>2, <3>1
    <3>3. ram'[h] = ram[h]
      BY <3>1, <3>2 DEF PushSegment
    <3> QED  BY <1>6, <2>3, <3>3 DEF FlatView
  <2> QED  BY <2>4, <2>5
<1>9. FlatMem' = [a \in GuestAddr |-> IF a \in first .. past - 1 THEN 0 ELSE FlatMem[a]]
  <2>1. FlatMem' = [a \in GuestAddr |-> FlatMem'[a]]
    BY DEF FlatMem
  <2> QED  BY <1>7, <1>8, <2>1
<1>10. \A a \in first .. past - 1 : FlatMem[a] = -1
  BY <1>5, <1>7, FlatAssumption DEF GuestAddr
<1>11. Flat!Map(first, past)
  BY <1>9, <1>10 DEF Flat!Map, Flat!Unmapped, Flat!Returns
<1> QED  BY <1>5, <1>11

-----------------------------------------------------------------------------
(* The specification. *)

LEMMA DisciplineKept ==
  ASSUME Disciplined, UNCHANGED segments
  PROVE  Disciplined'
BY DEF Disciplined, Holders, Covers

(* The rest of the invariant, given the discipline of the next state.      *)
LEMMA FlatKept ==
  ASSUME FlatInv, [DisciplinedNext]_vars
  PROVE  TypeOK' /\ HeapBacked' /\ SegmentsIsolated' /\ Unprotected'
<1>1. TypeOK' /\ HeapBacked' /\ SegmentsIsolated'
  <2>1. [Next]_vars
    BY DEF DisciplinedNext, Next
  <2> QED  BY <2>1, StepKeeps DEF FlatInv, Kept
<1>2. ASSUME NEW base \in BrkBases, set_brk_base(base)
      PROVE  Unprotected'
  BY <1>2 DEF Unprotected, set_brk_base, FlatInv
<1>3. ASSUME NEW target \in MapAddrs, NEW size \in Sizes, map_anonymous(target, size)
      PROVE  Unprotected'
  BY <1>3, MapUnprotected DEF FlatInv
<1>4. ASSUME NEW new_brk \in BrkArgs, set_brk(new_brk)
      PROVE  Unprotected'
  BY <1>4, BrkUnprotected DEF FlatInv
<1>5. ASSUME NEW a \in Accesses, NEW data \in Data(a[2]), write(a[1], a[2], data)
      PROVE  Unprotected'
  BY <1>5 DEF Unprotected, write, FlatInv
<1>6. ASSUME NEW a \in Accesses, read(a[1], a[2])
      PROVE  Unprotected'
  BY <1>6 DEF Unprotected, read, FlatInv
<1>7. UNCHANGED vars => Unprotected'
  BY DEF Unprotected, FlatInv
<1> QED  BY <1>1, <1>2, <1>3, <1>4, <1>5, <1>6, <1>7 DEF DisciplinedNext

LEMMA ReachPushed ==
  ASSUME FlatInv, NEW target \in Nat, NEW size \in Nat \ {0}, NEW prot \in Prot,
         NEW ptr \in HostPlaces(target, size), PushSegment(target, size, prot, ptr),
         target + size <= MaxAddr
  PROVE  InReach'
<1> DEFINE n == Len(segments) + 1
           first == IF target # 0 THEN target ELSE ptr
<1>1. /\ DOMAIN segments' = DOMAIN segments \cup {n}
      /\ \A i \in DOMAIN segments : segments'[i] = segments[i]
      /\ segments'[n].addr = first /\ segments'[n].size = size
  BY PushAppends DEF FlatInv
<1>2. ptr \in HostAddr /\ Pages(ptr, size) \subseteq HostAddr
  BY DEF HostPlaces, FreeRun
<1>3. /\ ptr \in Nat /\ size <= align_up_page(size) /\ align_up_page(size) \in Nat
  BY <1>2, PageBounds, HostAssumption
<1>4. ptr + align_up_page(size) - 1 \in Pages(ptr, size)
  BY <1>3 DEF Pages
<1>5. ~(first + size >= WordTop)
  BY <1>2, <1>3, <1>4, FlatAssumption, HostAssumption, AddressAssumption, PageAssumption DEF WordTop
<1> HIDE DEF n, first
<1> QED  BY <1>1, <1>5 DEF FlatInv, InReach, PastTop

(* Nothing the arguments name runs past the last address.                  *)
LEMMA ReachKept ==
  ASSUME FlatInv, [DisciplinedNext]_vars
  PROVE  InReach'
<1>1. CASE UNCHANGED segments
  BY <1>1 DEF InReach, PastTop, FlatInv
<1>2. ASSUME NEW target \in MapAddrs, NEW size \in Sizes, map_anonymous(target, size)
      PROVE  InReach'
  <2>1. target \in Nat /\ size \in Nat /\ target + size <= MaxAddr /\ "RWX" \in Prot
    BY AddressAssumption, FlatAssumption
  <2>2. \/ UNCHANGED segments
        \/ size # 0 /\ \E ptr \in HostPlaces(target, size) : PushSegment(target, size, "RWX", ptr)
    BY <1>2 DEF map_anonymous, map_anonymous_prot, Acceptable, Refused
  <2> QED  BY <1>1, <2>1, <2>2, ReachPushed
<1>3. ASSUME NEW new_brk \in BrkArgs, set_brk(new_brk)
      PROVE  InReach'
  <2> DEFINE expand_size == align_up_page(new_brk) - brk_mapped_end
  <2>1. \/ UNCHANGED segments
        \/ /\ new_brk > brk_mapped_end
           /\ \E ptr \in HostPlaces(brk_mapped_end, expand_size) :
                PushSegment(brk_mapped_end, expand_size, "RW", ptr)
    BY <1>3, Zenon DEF set_brk, ExpansionFails, Refused, AlignmentPanics
  <2>2. ASSUME new_brk > brk_mapped_end
        PROVE  /\ brk_mapped_end \in Nat /\ expand_size \in Nat \ {0}
               /\ brk_mapped_end + expand_size <= MaxAddr /\ "RW" \in Prot
    <3>1. brk_mapped_end \in Nat /\ new_brk \in Nat
      BY AddressAssumption DEF FlatInv, TypeOK
    <3>2. align_up_page(new_brk) \in Nat /\ new_brk <= align_up_page(new_brk)
          /\ align_up_page(new_brk) <= MaxAddr
      BY <3>1, PageBounds, FlatAssumption
    <3> QED  BY <2>2, <3>1, <3>2, FlatAssumption
  <2> HIDE DEF expand_size
  <2> QED  BY <1>1, <2>1, <2>2, ReachPushed
<1>4. ASSUME NEW a \in Accesses, NEW data \in Data(a[2]), write(a[1], a[2], data)
      PROVE  UNCHANGED segments
  BY <1>4 DEF write
<1>5. ASSUME NEW a \in Accesses, read(a[1], a[2])
      PROVE  UNCHANGED segments
  BY <1>5 DEF read
<1>6. ASSUME NEW base \in BrkBases, set_brk_base(base)
      PROVE  UNCHANGED segments
  BY <1>6 DEF set_brk_base
<1> QED  BY <1>1, <1>2, <1>3, <1>4, <1>5, <1>6 DEF DisciplinedNext

LEMMA FlatInductive ==
  ASSUME FlatInv, [DisciplinedNext]_vars
  PROVE  FlatInv'
<1>1. Disciplined'
  <2>1. CASE UNCHANGED segments
    BY <2>1, DisciplineKept DEF FlatInv
  <2>2. ASSUME NEW a \in Accesses, NEW data \in Data(a[2]), write(a[1], a[2], data)
        PROVE  UNCHANGED segments
    BY <2>2 DEF write
  <2>3. ASSUME NEW a \in Accesses, read(a[1], a[2])
        PROVE  UNCHANGED segments
    BY <2>3 DEF read
  <2>4. ASSUME NEW base \in BrkBases, set_brk_base(base)
        PROVE  UNCHANGED segments
    BY <2>4 DEF set_brk_base
  <2> QED  BY <2>1, <2>2, <2>3, <2>4 DEF DisciplinedNext
<1> QED  BY <1>1, FlatKept, ReachKept DEF FlatInv

(* Every step is one of the flat memory, or changes nothing it shows.      *)
LEMMA FlatStep ==
  ASSUME FlatInv, FlatInv', [DisciplinedNext]_vars
  PROVE  [Flat!Next]_(Flat!vars)
<1>1. CASE UNCHANGED vars
  BY <1>1, SameView DEF Flat!vars
<1>2. ASSUME UNCHANGED <<segments, ram>>,
             \/ result' = Returns("map", "err")
             \/ result' = Returns("brk", "ok")
             \/ result' = Returns("brk", "err")
      PROVE  Flat!Next
  <2>1. UNCHANGED FlatMem
    BY <1>2, SameView
  <2>2. result' \in {Flat!Returns(op, out) : op \in {"map", "brk"}, out \in {"ok", "err"}}
    BY <1>2 DEF Flat!Returns
  <2> QED  BY <2>1, <2>2 DEF Flat!Next, Flat!Other
<1>3. ASSUME NEW base \in BrkBases, set_brk_base(base)
      PROVE  Flat!Next
  BY <1>2, <1>3 DEF set_brk_base
<1>4. ASSUME NEW target \in MapAddrs, NEW size \in Sizes, map_anonymous(target, size)
      PROVE  Flat!Next
  <2>1. CASE Refused("map")
    BY <1>2, <2>1 DEF Refused
  <2>2. ASSUME size # 0, NEW ptr \in HostPlaces(target, size),
               PushSegment(target, size, "RWX", ptr), result' = Returns("map", "ok")
        PROVE  Flat!Next
    <3>1. target \in Nat /\ size \in Nat \ {0} /\ target + size <= MaxAddr /\ "RWX" \in Prot
      BY <2>2, AddressAssumption, FlatAssumption
    <3> QED  BY <2>2, <3>1, PushMaps DEF Flat!Next
  <2> QED  BY <1>4, <2>1, <2>2 DEF map_anonymous, map_anonymous_prot, Acceptable
<1>5. ASSUME NEW new_brk \in BrkArgs, set_brk(new_brk)
      PROVE  Flat!Next
  <2> DEFINE expand_size == align_up_page(new_brk) - brk_mapped_end
  <2>1. CASE UNCHANGED <<segments, hostVars>> /\ result' \in {Returns("brk", "ok"), Returns("brk", "err")}
    BY <1>2, <2>1
  <2>2. ASSUME brk_base # 0, new_brk > brk_mapped_end, new_brk <= AddrTop,
               NEW ptr \in HostPlaces(brk_mapped_end, expand_size),
               PushSegment(brk_mapped_end, expand_size, "RW", ptr), result' = Returns("brk", "ok")
        PROVE  Flat!Next
    <3>1. brk_mapped_end \in Nat /\ new_brk \in Nat
      BY AddressAssumption DEF FlatInv, TypeOK
    <3>2. align_up_page(new_brk) \in Nat /\ new_brk <= align_up_page(new_brk)
          /\ align_up_page(new_brk) <= MaxAddr
      BY <2>2, <3>1, PageBounds, FlatAssumption
    <3>3. expand_size \in Nat \ {0} /\ brk_mapped_end + expand_size <= MaxAddr /\ "RW" \in Prot
      BY <2>2, <3>1, <3>2, FlatAssumption
    <3> HIDE DEF expand_size
    <3> QED  BY <2>2, <3>1, <3>3, PushMaps DEF Flat!Next
  <2>3. ~AlignmentPanics(new_brk)
    BY FlatAssumption, AddressAssumption DEF AlignmentPanics
  <2> QED  BY <1>5, <2>1, <2>2, <2>3 DEF set_brk, ExpansionFails, Refused
<1>6. ASSUME NEW a \in Accesses, DirectInSegment(a[1], a[2]), NEW data \in Data(a[2]),
             write(a[1], a[2], data)
      PROVE  Flat!Next
  <2>1. a[1] \in Nat /\ a[2] \in Nat /\ a[1] + a[2] <= MaxAddr
    BY AddressAssumption, FlatAssumption
  <2>2. Flat!Store(a[1], a[2], data)
    BY <1>6, <2>1, WriteStores
  <2> QED  BY <2>2 DEF Flat!Next, Data
<1>7. ASSUME NEW a \in Accesses, DirectInSegment(a[1], a[2]), read(a[1], a[2])
      PROVE  Flat!Next
  <2>1. a[1] \in Nat /\ a[2] \in Nat /\ a[1] + a[2] <= MaxAddr /\ a[2] <= AllocMax
    BY AddressAssumption, FlatAssumption
  <2>2. Flat!Load(a[1], a[2])
    BY <1>7, <2>1, ReadLoads
  <2> QED  BY <2>2 DEF Flat!Next
<1> QED  BY <1>1, <1>3, <1>4, <1>5, <1>6, <1>7 DEF DisciplinedNext

LEMMA FlatStart == Init => FlatInv /\ Flat!Init
<1> SUFFICES ASSUME Init PROVE FlatInv /\ Flat!Init
  OBVIOUS
<1>1. \A a : Holders(a) = {}
  BY DEF Init, Holders
<1>2. Cardinality({}) <= 1
  BY FS_EmptySet
<1>3. Disciplined
  <2>1. \A i \in DOMAIN segments : FALSE
    BY DEF Init
  <2>2. \A a \in GuestAddr : Cardinality(Holders(a)) <= 1
    BY <1>1, <1>2
  <2> QED  BY <2>1, <2>2 DEF Disciplined
<1>4. TypeOK /\ HeapBacked /\ SegmentsIsolated /\ Unprotected
  <2>1. TypeOK
    BY HostAssumption, ByteAssumption DEF Init, TypeOK
  <2> QED  BY <2>1 DEF Init, HeapBacked, SegmentsIsolated, Unprotected
<1>5. InReach
  BY DEF Init, InReach
<1>6. Flat!Init
  BY <1>1 DEF Init, Flat!Init, Flat!Unmapped, Flat!Returns, FlatMem
<1> QED  BY <1>3, <1>4, <1>5, <1>6 DEF FlatInv

(* Towards a disciplined guest on an obliging host the manager is a flat   *)
(* memory: mapped ranges hold zeros until written and what was written     *)
(* afterwards, whatever segments they span, failed calls change no byte.   *)
THEOREM ManagerIsFlatMemory == DisciplinedSpec => ImplementsFlatMemory
<1>1. Init => FlatInv /\ Flat!Init
  BY FlatStart
<1>2. FlatInv /\ [DisciplinedNext]_vars => FlatInv'
  BY FlatInductive
<1>3. FlatInv /\ FlatInv' /\ [DisciplinedNext]_vars => [Flat!Next]_(Flat!vars)
  BY FlatStep
<1> QED  BY <1>1, <1>2, <1>3, PTL DEF DisciplinedSpec, ImplementsFlatMemory, Flat!Spec

=============================================================================
