-------------------------- MODULE GuestMemoryProofs --------------------------
(***************************************************************************)
(* The invariants of GuestMemory, for every page size, host, layout and    *)
(* set of arguments, and what a write stores and a read finds there, for   *)
(* every list of segments and every range.                                 *)
(***************************************************************************)
EXTENDS GuestMemory, FiniteSetTheorems, WellFoundedInduction, TLAPS

USE DEF HostAddr, Prot, heapVars, hostVars, vars, Alive, Returns

-----------------------------------------------------------------------------
(* Arithmetic and choice. *)

(* Rounding down stays below the address, rounding up above it. *)
LEMMA PageBounds ==
  ASSUME NEW a \in Nat
  PROVE  /\ align_down_page(a) \in Nat /\ align_down_page(a) <= a
         /\ align_up_page(a) \in Nat /\ a <= align_up_page(a)
BY PageAssumption DEF align_down_page, align_up_page

(* A set of naturals that is not empty has a least element. *)
LEMMA Least ==
  ASSUME NEW S \in SUBSET Nat, S # {}
  PROVE  \E m \in S : \A k \in S : m <= k
<1>1. PICK x \in S : \A y \in S : ~ (<<y, x>> \in OpToRel(<, Nat))
  <2>1. IsWellFoundedOn(OpToRel(<, Nat), Nat)
    BY NatLessThanWellFounded
  <2> QED  BY <2>1, WFMin
<1>2. ASSUME NEW y \in S PROVE x <= y
  <2>1. x \in Nat /\ y \in Nat
    OBVIOUS
  <2>2. ~ (y < x)
    BY <1>1, <2>1, Zenon DEF OpToRel
  <2> QED  BY <2>1, <2>2
<1> QED  BY <1>2

(* A set of naturals below a bound has a largest element. *)
LEMMA Largest ==
  ASSUME NEW n \in Nat, NEW S \in SUBSET (0 .. n - 1), S # {}
  PROVE  \E m \in S : \A k \in S : k <= m
<1> DEFINE T == {n - k : k \in S}
<1>1. \A k \in S : n - k \in Nat
  OBVIOUS
<1>2. PICK x \in T : \A y \in T : x <= y
  <2>1. T \in SUBSET Nat /\ T # {}
    BY <1>1
  <2> HIDE DEF T
  <2> QED  BY <2>1, Least
<1>3. PICK m \in S : x = n - m
  OBVIOUS
<1>4. ASSUME NEW k \in S PROVE k <= m
  <2>1. x <= n - k
    BY <1>2
  <2> QED  BY <1>3, <2>1
<1> QED  BY <1>4

-----------------------------------------------------------------------------
(* What the helpers return. *)

(* A byte pushed over is in range, and the position it takes is a segment. *)
LEMMA PushTyped ==
  ASSUME TypeOK, NEW target \in Nat, NEW size \in Nat \ {0}, NEW prot \in Prot,
         NEW ptr \in HostPlaces(target, size), PushSegment(target, size, prot, ptr)
  PROVE  /\ segments' \in Seq(Segment)
         /\ host' \in [HostAddr -> Prot \cup {"free", "own"}]
         /\ ram' \in [HostAddr -> Byte]
<1> DEFINE seg == [addr |-> IF target # 0 THEN target ELSE ptr,
                   size |-> size, prot |-> prot, ptr |-> ptr]
<1>1. ptr \in HostAddr
  BY DEF HostPlaces, FreeRun
<1>2. seg \in Segment
  BY <1>1, HostAssumption DEF Segment
<1>3. segments' = Append(segments, seg)
  BY DEF PushSegment
<1> HIDE DEF seg
<1>4. segments' \in Seq(Segment)
  BY <1>2, <1>3 DEF TypeOK
<1>5. host' \in [HostAddr -> Prot \cup {"free", "own"}]
  BY DEF PushSegment, TypeOK
<1>6. ram' \in [HostAddr -> Byte]
  BY ByteAssumption DEF PushSegment, TypeOK
<1> QED  BY <1>4, <1>5, <1>6

(* A write reaches no more bytes than it has data for. *)
LEMMA WriteReach ==
  ASSUME NEW addr \in Nat, NEW len \in Nat
  PROVE  DOMAIN WriteBytes(addr, len) \subseteq 0 .. len - 1
<1>1. CASE Direct(addr)
  BY <1>1 DEF WriteBytes
<1>2. CASE ~Direct(addr)
  <2> DEFINE seg == ChunkSegments(addr, len)
             K == {k \in 0 .. len - 1 : \A j \in 0 .. k : seg[j] # 0}
  <2>1. IsFiniteSet(0 .. len - 1) /\ Cardinality(0 .. len - 1) = len
    BY FS_Interval
  <2>2. IsFiniteSet(K) /\ Cardinality(K) <= len
    BY <2>1, FS_Subset, K \in SUBSET (0 .. len - 1)
  <2>3. Cardinality(K) \in Nat
    BY <2>2, FS_CardinalityType
  <2>4. MappedPrefix(seg, len) = Cardinality(K)
    BY DEF MappedPrefix
  <2>5. DOMAIN WriteBytes(addr, len) = 0 .. Cardinality(K) - 1
    BY <1>2, <2>4 DEF WriteBytes
  <2> HIDE DEF K
  <2> QED  BY <2>2, <2>3, <2>5
<1> QED  BY <1>1, <1>2

(* The data stored to a host byte is a byte. *)
LEMMA StoredByte ==
  ASSUME NEW addr \in Nat, NEW len \in Nat, NEW data \in [0 .. len - 1 -> Byte],
         NEW b, \E k \in DOMAIN WriteBytes(addr, len) : WriteBytes(addr, len)[k] = b
  PROVE  data[LastTo(WriteBytes(addr, len), b)] \in Byte
<1> DEFINE to == WriteBytes(addr, len)
           S == {k \in DOMAIN to : to[k] = b}
<1>1. S \in SUBSET (0 .. len - 1) /\ S # {}
  BY WriteReach
<1>2. \E m \in S : \A k \in S : k <= m
  BY <1>1, Largest
<1>3. LastTo(to, b) \in DOMAIN to
  BY <1>2 DEF LastTo
<1> QED  BY <1>3, WriteReach

(* A push leaves the segments before it in place. *)
LEMMA PushAppends ==
  ASSUME TypeOK, NEW target, NEW size, NEW prot, NEW ptr,
         PushSegment(target, size, prot, ptr)
  PROVE  /\ DOMAIN segments' = DOMAIN segments \cup {Len(segments) + 1}
         /\ \A i \in DOMAIN segments : segments'[i] = segments[i] /\ i # Len(segments) + 1
         /\ segments'[Len(segments) + 1].addr = (IF target # 0 THEN target ELSE ptr)
         /\ segments'[Len(segments) + 1].size = size
         /\ segments'[Len(segments) + 1].ptr = ptr
<1> DEFINE seg == [addr |-> IF target # 0 THEN target ELSE ptr,
                   size |-> size, prot |-> prot, ptr |-> ptr]
<1>1. segments' = Append(segments, seg)
  BY DEF PushSegment
<1>2. segments \in Seq(Segment)
  BY DEF TypeOK
<1> HIDE DEF seg
<1>3. /\ DOMAIN segments = 1 .. Len(segments)
      /\ DOMAIN segments' = 1 .. Len(segments) + 1
      /\ Len(segments) \in Nat
  BY <1>1, <1>2
<1>4. /\ \A i \in DOMAIN segments : segments'[i] = segments[i]
      /\ segments'[Len(segments) + 1] = seg
  BY <1>1, <1>2
<1> QED  BY <1>3, <1>4 DEF seg

(* A push onto free host memory keeps the segments isolated. *)
LEMMA PushIsolated ==
  ASSUME TypeOK, SegmentsIsolated, NEW target, NEW size, NEW prot \in Prot,
         NEW ptr \in HostPlaces(target, size), PushSegment(target, size, prot, ptr)
  PROVE  SegmentsIsolated'
<1> DEFINE n == Len(segments) + 1
           P == Pages(ptr, size)
<1>1. /\ P \subseteq HostAddr
      /\ \A b \in P : host[b] = "free"
  BY DEF HostPlaces, FreeRun
<1>2. /\ DOMAIN segments' = DOMAIN segments \cup {n}
      /\ \A i \in DOMAIN segments : segments'[i] = segments[i] /\ i # n
      /\ segments'[n].ptr = ptr /\ segments'[n].size = size
  BY PushAppends
<1>3. Extent(segments'[n]) = P
  BY <1>2 DEF Extent
<1>4. \A b \in HostAddr : host'[b] = IF b \in P THEN prot ELSE host[b]
  BY DEF PushSegment
<1>5. \A i \in DOMAIN segments : \A b \in Extent(segments[i]) : b \in HostAddr /\ host[b] \in Prot
  BY DEF SegmentsIsolated
<1>6. \A i \in DOMAIN segments : Extent(segments[i]) \cap P = {}
  <2>1. "free" \notin Prot
    OBVIOUS
  <2> QED  BY <1>1, <1>5, <2>1
<1>7. \A i, j \in DOMAIN segments : i # j => Extent(segments[i]) \cap Extent(segments[j]) = {}
  BY DEF SegmentsIsolated
<1> HIDE DEF n, P
<1>8. \A i \in DOMAIN segments' : \A b \in Extent(segments'[i]) :
        b \in HostAddr /\ host'[b] \in Prot
  BY <1>1, <1>2, <1>3, <1>4, <1>5
<1>9. \A i, j \in DOMAIN segments' :
        i # j => Extent(segments'[i]) \cap Extent(segments'[j]) = {}
  BY <1>2, <1>3, <1>6, <1>7
<1>10. SegmentsIsolated' = /\ \A i \in DOMAIN segments' : \A b \in Extent(segments'[i]) :
                                b \in HostAddr /\ host'[b] \in Prot
                           /\ \A i, j \in DOMAIN segments' :
                                i # j => Extent(segments'[i]) \cap Extent(segments'[j]) = {}
  BY DEF SegmentsIsolated, Extent, Pages, align_up_page, align_down_page
<1> QED  BY <1>8, <1>9, <1>10

(* Storing bytes to a memory of bytes gives one. *)
LEMMA StoredTyped ==
  ASSUME NEW m \in [HostAddr -> Byte], NEW addr \in Nat, NEW len \in Nat,
         NEW data \in [0 .. len - 1 -> Byte]
  PROVE  Stored(m, addr, len, data) \in [HostAddr -> Byte]
<1> DEFINE to == WriteBytes(addr, len)
           new == [b \in HostAddr |-> IF \E k \in DOMAIN to : to[k] = b
                                      THEN data[LastTo(to, b)] ELSE m[b]]
<1>1. Stored(m, addr, len, data) = m \/ Stored(m, addr, len, data) = new
  BY DEF Stored
<1>2. \A b \in HostAddr : new[b] \in Byte
  BY StoredByte
<1>3. new \in [HostAddr -> Byte]
  BY <1>2
<1> HIDE DEF new
<1> QED  BY <1>1, <1>3

-----------------------------------------------------------------------------
(* What each operation keeps, whoever calls it: the types, a heap that is  *)
(* backed, segments that are isolated.                                     *)

Kept == TypeOK' /\ (HeapBacked => HeapBacked') /\ (SegmentsIsolated => SegmentsIsolated')

(* A call that leaves the list, the heap and the host's mappings alone.    *)
LEMMA MappingsUntouched ==
  ASSUME TypeOK, UNCHANGED <<segments, heapVars, host>>, ram' \in [HostAddr -> Byte],
         result'.out \in {"ok", "err", "fault", "panic"}
  PROVE  Kept
<1>1. TypeOK'
  BY DEF TypeOK
<1>2. HeapBacked => HeapBacked'
  BY DEF HeapBacked, Covers
<1>3. SegmentsIsolated => SegmentsIsolated'
  BY DEF SegmentsIsolated, Extent, Pages, align_up_page, align_down_page
<1> QED  BY <1>1, <1>2, <1>3 DEF Kept

LEMMA RefusalKeeps ==
  ASSUME TypeOK, NEW op, Refused(op)
  PROVE  Kept
BY MappingsUntouched DEF Refused, TypeOK

(* How a call ends is its outcome, or a panic in place of an error.        *)
LEMMA EndsTyped ==
  ASSUME NEW out, NEW end \in Ends(out)
  PROVE  end = out \/ (out = "err" /\ end = "panic" /\ \E i \in DOMAIN segments : PastTop(segments[i]))
BY DEF Ends

LEMMA OutcomesTyped ==
  ASSUME NEW addr, NEW len
  PROVE  /\ ReadOutcome(addr, len) \in {"ok", "err", "fault", "panic"}
         /\ WriteOutcome(addr, len) \in {"ok", "err", "fault"}
BY DEF ReadOutcome, WriteOutcome, Outcome

LEMMA ReadKeeps ==
  ASSUME TypeOK, NEW addr \in Nat, NEW len \in Nat, read(addr, len)
  PROVE  Kept
<1>1. PICK out \in Ends(ReadOutcome(addr, len)) : result'.out = out
  BY DEF read
<1>2. result'.out \in {"ok", "err", "fault", "panic"}
  BY <1>1, EndsTyped, OutcomesTyped
<1> QED  BY <1>2, MappingsUntouched DEF read, TypeOK

LEMMA WriteKeeps ==
  ASSUME TypeOK, NEW addr \in Nat, NEW len \in Nat, NEW data \in [0 .. len - 1 -> Byte],
         write(addr, len, data)
  PROVE  Kept
<1>1. ram' \in [HostAddr -> Byte]
  BY StoredTyped DEF write, TypeOK
<1>2. result'.out \in {"ok", "err", "fault", "panic"}
  <2>1. PICK out \in Ends(WriteOutcome(addr, len)) : result'.out = out
    BY DEF write
  <2> QED  BY <2>1, EndsTyped, OutcomesTyped
<1> QED  BY <1>1, <1>2, MappingsUntouched DEF write

(* The heap starts empty: nothing lies between equal bounds. *)
LEMMA BrkBaseKeeps ==
  ASSUME TypeOK, NEW base \in Nat, set_brk_base(base)
  PROVE  Kept
<1> DEFINE up == align_up_page(base)
<1>1. up \in Nat
  BY PageBounds
<1>2. /\ brk_base' = up /\ brk_current' = up /\ brk_mapped_end' = up
      /\ UNCHANGED <<segments, hostVars>> /\ result'.out = "ok"
  BY DEF set_brk_base
<1> HIDE DEF up
<1>3. TypeOK'
  BY <1>1, <1>2 DEF TypeOK
<1>4. HeapBacked'
  BY <1>1, <1>2 DEF HeapBacked
<1>5. SegmentsIsolated => SegmentsIsolated'
  BY <1>2 DEF SegmentsIsolated, Extent, Pages, align_up_page, align_down_page
<1> QED  BY <1>3, <1>4, <1>5 DEF Kept

(* A mapping appends a segment on free host memory. *)
LEMMA MapKeeps ==
  ASSUME TypeOK, NEW target \in Nat, NEW size \in Nat, NEW prot \in Prot,
         map_anonymous_prot(target, size, prot)
  PROVE  Kept
<1>1. CASE Refused("map")
  BY <1>1, RefusalKeeps
<1>2. ASSUME Acceptable(size), NEW ptr \in HostPlaces(target, size),
             PushSegment(target, size, prot, ptr),
             result' = Returns("map", "ok"), UNCHANGED heapVars
      PROVE  Kept
  <2>1. TypeOK'
    <3>1. size \in Nat \ {0}
      BY <1>2 DEF Acceptable
    <3> QED  BY <1>2, <3>1, PushTyped DEF TypeOK
  <2>2. HeapBacked => HeapBacked'
    <3>1. \A i \in DOMAIN segments : i \in DOMAIN segments' /\ segments'[i] = segments[i]
      BY <1>2, PushAppends
    <3> QED  BY <1>2, <3>1 DEF HeapBacked, Covers
  <2>3. SegmentsIsolated => SegmentsIsolated'
    BY <1>2, PushIsolated
  <2> QED  BY <2>1, <2>2, <2>3 DEF Kept
<1> QED  BY <1>1, <1>2 DEF map_anonymous_prot

(* A move of the break stays in what is mapped, or maps exactly the range  *)
(* the heap grows by.                                                      *)
LEMMA BrkKeeps ==
  ASSUME TypeOK, NEW new_brk \in Nat, set_brk(new_brk)
  PROVE  Kept
<1> DEFINE expand_size == align_up_page(new_brk) - brk_mapped_end
<1>0. /\ brk_base \in Nat /\ brk_current \in Nat /\ brk_mapped_end \in Nat
      /\ align_up_page(new_brk) \in Nat /\ new_brk <= align_up_page(new_brk)
  BY PageBounds DEF TypeOK
<1>1. CASE ExpansionFails(new_brk)
  BY <1>1, RefusalKeeps DEF ExpansionFails
<1>2. CASE UNCHANGED <<segments, heapVars, hostVars>> /\ result' = Returns("brk", "ok")
  BY <1>2, MappingsUntouched DEF TypeOK
<1>3. CASE /\ new_brk \in brk_base .. brk_mapped_end /\ brk_current' = new_brk
           /\ UNCHANGED <<segments, brk_base, brk_mapped_end, hostVars>>
           /\ result' = Returns("brk", "ok")
  <2>1. TypeOK'
    BY <1>3 DEF TypeOK
  <2>2. HeapBacked => HeapBacked'
    BY <1>0, <1>3 DEF HeapBacked, Covers
  <2>3. SegmentsIsolated => SegmentsIsolated'
    BY <1>3 DEF SegmentsIsolated, Extent, Pages, align_up_page, align_down_page
  <2> QED  BY <2>1, <2>2, <2>3 DEF Kept
<1>4. ASSUME brk_base # 0, new_brk > brk_mapped_end,
             NEW ptr \in HostPlaces(brk_mapped_end, expand_size),
             PushSegment(brk_mapped_end, expand_size, "RW", ptr),
             brk_mapped_end' = align_up_page(new_brk), brk_current' = new_brk,
             result' = Returns("brk", "ok"), UNCHANGED brk_base
      PROVE  Kept
  <2>1. TypeOK'
    <3>1. expand_size \in Nat \ {0}
      BY <1>0, <1>4
    <3> HIDE DEF expand_size
    <3> QED  BY <1>0, <1>4, <3>1, PushTyped DEF TypeOK
  <2>2. ASSUME HeapBacked PROVE HeapBacked'
    <3>1. brk_mapped_end # 0 /\ brk_base <= brk_mapped_end
      BY <1>0, <1>4, <2>2 DEF HeapBacked
    <3>2. ASSUME NEW a \in brk_base .. brk_mapped_end' - 1
          PROVE  \E i \in DOMAIN segments' : Covers(segments'[i], a)
      <4>1. CASE a < brk_mapped_end
        <5>1. PICK i \in DOMAIN segments : Covers(segments[i], a)
          BY <1>0, <1>4, <2>2, <4>1 DEF HeapBacked
        <5>2. i \in DOMAIN segments' /\ segments'[i] = segments[i]
          BY <1>4, PushAppends
        <5> QED  BY <5>1, <5>2
      <4>2. CASE a >= brk_mapped_end
        <5> DEFINE n == Len(segments) + 1
        <5>1. /\ n \in DOMAIN segments'
              /\ segments'[n].addr = brk_mapped_end
              /\ segments'[n].size = expand_size
          <6>1. /\ n \in DOMAIN segments'
                /\ segments'[n].addr = (IF brk_mapped_end # 0 THEN brk_mapped_end ELSE ptr)
                /\ segments'[n].size = expand_size
            BY <1>4, PushAppends
          <6> HIDE DEF n, expand_size
          <6> QED  BY <3>1, <6>1
        <5>2. a < brk_mapped_end + expand_size
          BY <1>0, <1>4
        <5> QED  BY <4>2, <5>1, <5>2 DEF Covers
      <4> QED  BY <1>0, <1>4, <4>1, <4>2
    <3>3. brk_base' <= brk_current' /\ brk_current' <= brk_mapped_end'
      BY <1>0, <1>4, <3>1
    <3> QED  BY <1>4, <3>2, <3>3 DEF HeapBacked
  <2>3. SegmentsIsolated => SegmentsIsolated'
    BY <1>4, PushIsolated
  <2> QED  BY <2>1, <2>2, <2>3 DEF Kept
<1>5. CASE AlignmentPanics(new_brk)
  BY <1>5, MappingsUntouched DEF AlignmentPanics, TypeOK
<1> QED  BY <1>1, <1>2, <1>3, <1>4, <1>5 DEF set_brk

-----------------------------------------------------------------------------
(* The guest's calls, in any order. *)

LEMMA StepKeeps ==
  ASSUME TypeOK, [Next]_vars
  PROVE  Kept
<1>1. ASSUME NEW base \in BrkBases, set_brk_base(base)
      PROVE  Kept
  BY <1>1, BrkBaseKeeps, AddressAssumption
<1>2. ASSUME NEW target \in MapAddrs, NEW size \in Sizes, map_anonymous(target, size)
      PROVE  Kept
  BY <1>2, MapKeeps, AddressAssumption DEF map_anonymous
<1>3. ASSUME NEW new_brk \in BrkArgs, set_brk(new_brk)
      PROVE  Kept
  BY <1>3, BrkKeeps, AddressAssumption
<1>4. ASSUME NEW a \in Accesses, NEW data \in Data(a[2]), write(a[1], a[2], data)
      PROVE  Kept
  BY <1>4, WriteKeeps, AddressAssumption DEF Data
<1>5. ASSUME NEW a \in Accesses, read(a[1], a[2])
      PROVE  Kept
  BY <1>5, ReadKeeps, AddressAssumption
<1>6. CASE UNCHANGED vars
  BY <1>6, MappingsUntouched DEF TypeOK
<1> QED  BY <1>1, <1>2, <1>3, <1>4, <1>5, <1>6 DEF Next

(* The manager's fields, the host's mappings and its memory keep their     *)
(* types under every sequence of calls.                                    *)
THEOREM TypeCorrect == Spec => []TypeOK
<1>1. Init => TypeOK
  BY HostAssumption, ByteAssumption DEF Init, TypeOK
<1>2. TypeOK /\ [Next]_vars => TypeOK'
  BY StepKeeps DEF Kept
<1> QED  BY <1>1, <1>2, PTL DEF Spec

(* Whatever calls the guest makes and whatever the kernel answers, every   *)
(* address between the heap's base and its mapped end has a segment and    *)
(* the break lies between them (set_brk).                                  *)
THEOREM HeapAlwaysBacked == Spec => []HeapBacked
<1>1. Init => HeapBacked
  BY DEF Init, HeapBacked
<1>2. TypeOK /\ HeapBacked /\ [Next]_vars => HeapBacked'
  BY StepKeeps DEF Kept
<1> QED  BY <1>1, <1>2, TypeCorrect, PTL DEF Spec

(* As long as nothing is unmapped, the slices the manager builds over its  *)
(* segments are mapped, disjoint and never the emulator's own memory       *)
(* (map_anonymous_prot never passes MAP_FIXED).                            *)
THEOREM SegmentsAlwaysIsolated == Spec => []SegmentsIsolated
<1>1. Init => SegmentsIsolated
  BY DEF Init, SegmentsIsolated
<1>2. TypeOK /\ SegmentsIsolated /\ [Next]_vars => SegmentsIsolated'
  BY StepKeeps DEF Kept
<1> QED  BY <1>1, <1>2, TypeCorrect, PTL DEF Spec

-----------------------------------------------------------------------------
(* Translation, which is decided by the first segment that matches. *)

(* Of the segments that contain an address there is a first. *)
LEMMA FirstExists ==
  ASSUME NEW s \in Seq(Segment), NEW a, NEW m \in DOMAIN s, Covers(s[m], a)
  PROVE  \E i \in DOMAIN s : Covers(s[i], a) /\ \A j \in 1 .. i - 1 : ~Covers(s[j], a)
<1> DEFINE T == {i \in DOMAIN s : Covers(s[i], a)}
<1>1. DOMAIN s = 1 .. Len(s) /\ Len(s) \in Nat
  OBVIOUS
<1>2. T \subseteq Nat /\ T # {}
  BY <1>1
<1>3. PICK x \in T : \A y \in T : x <= y
  <2> HIDE DEF T
  <2> QED  BY <1>2, Least
<1>4. ASSUME NEW j \in 1 .. x - 1 PROVE ~Covers(s[j], a)
  BY <1>1, <1>3
<1> QED  BY <1>4

(* There is only one first, and FirstMatch finds it. *)
LEMMA FirstUnique ==
  ASSUME NEW s \in Seq(Segment), NEW a, NEW i \in DOMAIN s, Covers(s[i], a),
         \A j \in 1 .. i - 1 : ~Covers(s[j], a)
  PROVE  i = IF \E k \in DOMAIN s : Covers(s[k], a)
             THEN CHOOSE k \in DOMAIN s : /\ Covers(s[k], a)
                                         /\ \A j \in 1 .. k - 1 : ~Covers(s[j], a)
             ELSE 0
<1> DEFINE First(k) == Covers(s[k], a) /\ \A j \in 1 .. k - 1 : ~Covers(s[j], a)
           c == CHOOSE k \in DOMAIN s : First(k)
<1>1. DOMAIN s = 1 .. Len(s) /\ Len(s) \in Nat
  OBVIOUS
<1>2. First(i)
  OBVIOUS
<1>3. c \in DOMAIN s /\ First(c)
  <2> HIDE DEF First
  <2> QED  BY <1>2
<1>4. i \notin 1 .. c - 1 /\ c \notin 1 .. i - 1
  BY <1>2, <1>3
<1>5. i = c
  <2> HIDE DEF c
  <2> QED  BY <1>1, <1>3, <1>4
<1> QED  BY <1>5

(* A translated address lies in the pages of its segment. *)
LEMMA Translated ==
  ASSUME TypeOK, NEW a \in Nat, Translation(a) # -1
  PROVE  \E i \in DOMAIN segments :
           /\ Covers(segments[i], a) /\ \A j \in 1 .. i - 1 : ~Covers(segments[j], a)
           /\ Translation(a) = segments[i].ptr + (a - segments[i].addr)
           /\ Translation(a) \in Extent(segments[i])
<1>1. segments \in Seq(Segment)
  BY DEF TypeOK
<1>2. PICK m \in DOMAIN segments : Covers(segments[m], a)
  BY DEF Translation, FirstMatch
<1>3. PICK i \in DOMAIN segments :
        Covers(segments[i], a) /\ \A j \in 1 .. i - 1 : ~Covers(segments[j], a)
  BY <1>1, <1>2, FirstExists
<1>4. FirstMatch(a) = i
  BY <1>1, <1>3, FirstUnique DEF FirstMatch
<1>5. segments[i] \in Segment /\ i # 0
  BY <1>1
<1>6. Translation(a) = segments[i].ptr + (a - segments[i].addr)
  BY <1>4, <1>5 DEF Translation, HostByte
<1>7. Translation(a) \in Extent(segments[i])
  <2>1. /\ segments[i].ptr \in Nat /\ segments[i].addr \in Nat /\ segments[i].size \in Nat
        /\ a >= segments[i].addr /\ a < segments[i].addr + segments[i].size
    BY <1>3, <1>5, HostAssumption DEF Covers, Segment
  <2>2. /\ align_up_page(segments[i].size) \in Nat
        /\ segments[i].size <= align_up_page(segments[i].size)
    BY <2>1, PageBounds
  <2> QED  BY <1>6, <2>1, <2>2 DEF Extent, Pages
<1> QED  BY <1>3, <1>6, <1>7

(* What a push leaves of a translation: all of it. *)
LEMMA PushTranslates ==
  ASSUME TypeOK, TypeOK', SegmentsIsolated, NEW a \in Nat, Translation(a) # -1,
         NEW target, NEW size, NEW prot, NEW ptr \in HostPlaces(target, size),
         PushSegment(target, size, prot, ptr)
  PROVE  Translation(a)' = Translation(a) /\ ram'[Translation(a)] = ram[Translation(a)]
<1>1. PICK i \in DOMAIN segments :
        /\ Covers(segments[i], a) /\ \A j \in 1 .. i - 1 : ~Covers(segments[j], a)
        /\ Translation(a) = segments[i].ptr + (a - segments[i].addr)
        /\ Translation(a) \in Extent(segments[i])
  BY Translated
<1>2. \A j \in DOMAIN segments : j \in DOMAIN segments' /\ segments'[j] = segments[j]
  BY PushAppends
<1>3. 1 .. i - 1 \subseteq DOMAIN segments /\ i # 0
  BY DEF TypeOK
<1>4. Covers(segments'[i], a) /\ \A j \in 1 .. i - 1 : ~Covers(segments'[j], a)
  BY <1>1, <1>2, <1>3
<1>5. FirstMatch(a)' = i
  <2>1. segments' \in Seq(Segment)
    BY DEF TypeOK
  <2> QED  BY <1>2, <1>4, <2>1, FirstUnique DEF FirstMatch, Covers
<1>6. Translation(a)' = Translation(a)
  BY <1>1, <1>2, <1>3, <1>5 DEF Translation, HostByte
<1>7. Translation(a) \in HostAddr /\ host[Translation(a)] # "free"
  BY <1>1 DEF SegmentsIsolated
<1>8. Translation(a) \notin Pages(ptr, size)
  BY <1>7 DEF HostPlaces, FreeRun
<1> QED  BY <1>6, <1>7, <1>8 DEF PushSegment

(* An address keeps its host byte and what it holds, but for writes:       *)
(* segments are pushed behind the others, and on free host memory          *)
(* (map_anonymous_prot, set_brk).                                          *)
THEOREM TranslationNeverMoves == Spec => TranslationStable
<1> DEFINE Writes == \E r \in Accesses : \E data \in Data(r[2]) : write(r[1], r[2], data)
           Stable(a) == Translation(a) # -1 =>
                          /\ Translation(a)' = Translation(a)
                          /\ ram'[Translation(a)] # ram[Translation(a)] => Writes
<1>1. ASSUME TypeOK, TypeOK', SegmentsIsolated, [Next]_vars, NEW a \in Nat
      PROVE  Stable(a)
  <2>1. CASE UNCHANGED segments /\ (UNCHANGED ram \/ Writes)
    BY <2>1 DEF Translation, FirstMatch, HostByte
  <2>2. CASE \E target, size, prot : \E ptr \in HostPlaces(target, size) :
               PushSegment(target, size, prot, ptr)
    BY <1>1, <2>2, PushTranslates
  <2>3. ASSUME NEW base \in BrkBases, set_brk_base(base)
        PROVE  UNCHANGED segments /\ UNCHANGED ram
    BY <2>3 DEF set_brk_base
  <2>4. ASSUME NEW target \in MapAddrs, NEW size \in Sizes, map_anonymous(target, size)
        PROVE  \/ UNCHANGED segments /\ UNCHANGED ram
               \/ \E ptr \in HostPlaces(target, size) : PushSegment(target, size, "RWX", ptr)
    BY <2>4 DEF map_anonymous, map_anonymous_prot, Refused
  <2>5. ASSUME NEW new_brk \in BrkArgs, set_brk(new_brk)
        PROVE  \/ UNCHANGED segments /\ UNCHANGED ram
               \/ \E size : \E ptr \in HostPlaces(brk_mapped_end, size) :
                    PushSegment(brk_mapped_end, size, "RW", ptr)
    BY <2>5, Zenon DEF set_brk, ExpansionFails, Refused, AlignmentPanics
  <2>6. ASSUME NEW r \in Accesses, NEW data \in Data(r[2]), write(r[1], r[2], data)
        PROVE  UNCHANGED segments /\ Writes
    BY <2>6 DEF write
  <2>7. ASSUME NEW r \in Accesses, read(r[1], r[2])
        PROVE  UNCHANGED segments /\ UNCHANGED ram
    BY <2>7 DEF read
  <2> HIDE DEF Stable, Writes
  <2> QED  BY <1>1, <2>1, <2>2, <2>3, <2>4, <2>5, <2>6, <2>7, Zenon DEF Next
<1>2. ASSUME TypeOK, TypeOK', SegmentsIsolated, [Next]_vars
      PROVE  [\A a \in {r[1] : r \in Accesses} : Stable(a)]_vars
  BY <1>1, <1>2, AddressAssumption
<1> QED
  BY <1>2, TypeCorrect, SegmentsAlwaysIsolated, PTL DEF Spec, TranslationStable

-----------------------------------------------------------------------------
(* The whole interface, mprotect and munmap among it. *)

(* The position the manager's searches give is one of a match.             *)
LEMMA SelectedMatches ==
  ASSUME NEW n \in Nat, NEW T \in SUBSET (1 .. n), T # {}
  PROVE  Min(T) \in T
<1>1. \E m \in T : \A k \in T : m <= k
  BY Least, T \in SUBSET Nat
<1> QED  BY <1>1 DEF Min

(* A change of protection changes no extent, and maps nothing.             *)
LEMMA ProtectKeeps ==
  ASSUME TypeOK, NEW addr \in Nat, NEW size \in Nat, NEW prot \in Prot, mprotect(addr, size, prot)
  PROVE  Kept
<1> DEFINE T == {i \in 1 .. Len(segments) : segments[i].addr = align_down_page(addr)
                                          /\ segments[i].size >= AlignedSize(addr, size)}
           pos == IF T # {} THEN Min(T) ELSE 0
           range == segments[pos].ptr .. segments[pos].ptr + AlignedSize(addr, size) - 1
<1>1. segments \in Seq(Segment)
  BY DEF TypeOK
<1>2. pos # 0 => pos \in DOMAIN segments
  <2>1. T \in SUBSET (1 .. Len(segments)) /\ Len(segments) \in Nat
    BY <1>1
  <2>2. T # {} => Min(T) \in T
    BY <2>1, SelectedMatches
  <2>3. DOMAIN segments = 1 .. Len(segments)
    BY <1>1
  <2> HIDE DEF T
  <2> QED  BY <2>1, <2>2, <2>3
<1>3. CASE Refused("mprotect")
  BY <1>3, RefusalKeeps
<1>4. CASE /\ pos # 0
           /\ host' = [b \in HostAddr |-> IF b \in range THEN prot ELSE host[b]]
           /\ segments' = [segments EXCEPT ![pos].prot = prot]
           /\ result' = Returns("mprotect", "ok")
           /\ UNCHANGED <<heapVars, ram>>
  <2> HIDE DEF pos, range
  <2>0. pos \in DOMAIN segments /\ segments' = [segments EXCEPT ![pos].prot = prot]
    BY <1>2, <1>4
  <2>1. segments' \in Seq(Segment) /\ DOMAIN segments' = DOMAIN segments
    <3> DEFINE seg == [segments[pos] EXCEPT !.prot = prot]
    <3>1. seg \in Segment
      <4>1. segments[pos] \in Segment
        BY <1>1, <2>0
      <4> QED  BY <4>1 DEF Segment
    <3>2. segments' = [segments EXCEPT ![pos] = seg]
      BY <2>0
    <3> HIDE DEF seg
    <3> QED  BY <1>1, <2>0, <3>1, <3>2
  <2>2. \A i \in DOMAIN segments : /\ segments'[i].addr = segments[i].addr
                                  /\ segments'[i].size = segments[i].size
                                  /\ segments'[i].ptr = segments[i].ptr
    <3>1. \A i \in DOMAIN segments : segments[i] \in Segment
      BY <1>1
    <3>2. \A i \in DOMAIN segments :
            segments'[i] = IF i = pos THEN [segments[i] EXCEPT !.prot = prot] ELSE segments[i]
      BY <2>0
    <3> QED  BY <3>1, <3>2 DEF Segment
  <2>3. TypeOK'
    BY <1>4, <2>1 DEF TypeOK
  <2>4. HeapBacked => HeapBacked'
    BY <1>4, <2>1, <2>2 DEF HeapBacked, Covers
  <2>5. ASSUME SegmentsIsolated PROVE SegmentsIsolated'
    <3>1. \A i \in DOMAIN segments : Extent(segments'[i]) = Extent(segments[i])
      BY <2>2 DEF Extent
    <3>2. \A b \in HostAddr : host[b] \in Prot => host'[b] \in Prot
      BY <1>4
    <3>3. /\ \A i \in DOMAIN segments' : \A b \in Extent(segments'[i]) :
               b \in HostAddr /\ host'[b] \in Prot
          /\ \A i, j \in DOMAIN segments' :
               i # j => Extent(segments'[i]) \cap Extent(segments'[j]) = {}
      BY <2>1, <2>5, <3>1, <3>2, Zenon DEF SegmentsIsolated
    <3> QED  BY <3>3 DEF SegmentsIsolated, Extent, Pages, align_up_page, align_down_page
  <2> QED  BY <2>3, <2>4, <2>5 DEF Kept
<1>5. mprotect(addr, size, prot) =>
        \/ Refused("mprotect")
        \/ /\ pos # 0
           /\ host' = [b \in HostAddr |-> IF b \in range THEN prot ELSE host[b]]
           /\ segments' = [segments EXCEPT ![pos].prot = prot]
           /\ result' = Returns("mprotect", "ok")
           /\ UNCHANGED <<heapVars, ram>>
  BY DEF mprotect, SelectInSeq
<1> QED  BY <1>3, <1>4, <1>5

(* What is left of a list when an element of it is taken out.              *)
LEMMA Removed ==
  ASSUME NEW s \in Seq(Segment), NEW pos \in DOMAIN s
  PROVE  /\ RemoveAt(s, pos) \in Seq(Segment)
         /\ \A i \in DOMAIN RemoveAt(s, pos) :
              LET k == IF i < pos THEN i ELSE i + 1
              IN  k \in DOMAIN s /\ k # pos /\ RemoveAt(s, pos)[i] = s[k]
         /\ DOMAIN RemoveAt(s, pos) \subseteq Nat
<1> DEFINE a == SubSeq(s, 1, pos - 1)
           b == SubSeq(s, pos + 1, Len(s))
<1>1. pos \in 1 .. Len(s) /\ Len(s) \in Nat
  OBVIOUS
<1>2. /\ a \in Seq(Segment) /\ Len(a) = pos - 1
      /\ \A i \in 1 .. pos - 1 : a[i] = s[i]
  BY <1>1
<1>3. /\ b \in Seq(Segment) /\ Len(b) = Len(s) - pos
      /\ \A i \in 1 .. Len(s) - pos : b[i] = s[pos + i]
  BY <1>1
<1>4. RemoveAt(s, pos) = a \o b
  BY DEF RemoveAt
<1> HIDE DEF a, b
<1>5. /\ a \o b \in Seq(Segment) /\ DOMAIN (a \o b) = 1 .. Len(s) - 1
      /\ \A i \in 1 .. Len(s) - 1 : (a \o b)[i] = IF i < pos THEN a[i] ELSE b[i - (pos - 1)]
  <2>1. /\ a \in Seq(Segment) /\ b \in Seq(Segment)
        /\ Len(a) = pos - 1 /\ Len(b) = Len(s) - pos
    BY <1>2, <1>3
  <2>2. a \o b \in Seq(Segment)
    BY <2>1
  <2>3. DOMAIN (a \o b) = 1 .. Len(s) - 1
    BY <1>1, <2>1
  <2>4. ASSUME NEW i \in 1 .. Len(s) - 1
        PROVE  (a \o b)[i] = IF i < pos THEN a[i] ELSE b[i - (pos - 1)]
    BY <1>1, <2>1
  <2> QED  BY <2>2, <2>3, <2>4
<1>6. \A i \in 1 .. Len(s) - 1 : i < pos => i \in DOMAIN s /\ i # pos /\ (a \o b)[i] = s[i]
  BY <1>1, <1>2, <1>5
<1>7. ASSUME NEW i \in 1 .. Len(s) - 1, ~ (i < pos)
      PROVE  i + 1 \in DOMAIN s /\ i + 1 # pos /\ (a \o b)[i] = s[i + 1]
  <2>1. i - (pos - 1) \in 1 .. Len(s) - pos /\ pos + (i - (pos - 1)) = i + 1
    BY <1>1, <1>7
  <2>2. b[i - (pos - 1)] = s[pos + (i - (pos - 1))]
    BY <1>3, <2>1
  <2>3. (a \o b)[i] = s[i + 1]
    BY <1>5, <1>7, <2>1, <2>2
  <2> QED  BY <1>1, <1>7, <2>3
<1> HIDE DEF RemoveAt
<1>8. /\ DOMAIN RemoveAt(s, pos) = 1 .. Len(s) - 1
      /\ RemoveAt(s, pos) \in Seq(Segment)
  BY <1>4, <1>5
<1>9. \A i \in 1 .. Len(s) - 1 :
        LET k == IF i < pos THEN i ELSE i + 1
        IN  k \in DOMAIN s /\ k # pos /\ RemoveAt(s, pos)[i] = s[k]
  BY <1>4, <1>6, <1>7
<1> DEFINE r == RemoveAt(s, pos)
<1>10. /\ DOMAIN r = 1 .. Len(s) - 1 /\ r \in Seq(Segment)
       /\ \A i \in DOMAIN r : LET k == IF i < pos THEN i ELSE i + 1
                               IN  k \in DOMAIN s /\ k # pos /\ r[i] = s[k]
  BY <1>8, <1>9
<1> QED  BY <1>10

(* A removed segment leaves its neighbours' bytes mapped, unless more is   *)
(* unmapped than its own pages.                                            *)
LEMMA UnmapKeeps ==
  ASSUME TypeOK, NEW addr \in Nat, NEW size \in Nat, munmap(addr, size)
  PROVE  /\ TypeOK'
         /\ SegmentsIsolated =>
              \/ SegmentsIsolated'
              \/ \E i \in DOMAIN segments : /\ segments[i].addr = align_down_page(addr)
                                           /\ AlignedSize(addr, size) > align_up_page(segments[i].size)
<1> DEFINE T == {i \in 1 .. Len(segments) : segments[i].addr = align_down_page(addr)}
           pos == IF T # {} THEN Min(T) ELSE 0
           size1 == AlignedSize(addr, size)
           range == segments[pos].ptr .. segments[pos].ptr + size1 - 1
<1>1. segments \in Seq(Segment)
  BY DEF TypeOK
<1>2. pos # 0 => pos \in DOMAIN segments /\ segments[pos].addr = align_down_page(addr)
  <2>1. T \in SUBSET (1 .. Len(segments)) /\ Len(segments) \in Nat
    BY <1>1
  <2>2. T # {} => Min(T) \in T
    BY <2>1, SelectedMatches
  <2> QED  BY <1>1, <2>1, <2>2
<1>3. \/ pos = 0 /\ Refused("munmap")
      \/ /\ pos # 0 /\ segments' = RemoveAt(segments, pos)
         /\ \/ /\ size1 # 0
               /\ host' = [b \in HostAddr |-> IF b \in range THEN "free" ELSE host[b]]
               /\ result' = Returns("munmap", "ok")
            \/ UNCHANGED host /\ result' = Returns("munmap", "err")
         /\ UNCHANGED <<heapVars, ram>>
  <2> USE DEF munmap
  <2> HIDE DEF Returns, heapVars
  <2> QED  BY DEF SelectInSeq
<1>4. CASE Refused("munmap")
  BY <1>4, RefusalKeeps DEF Kept
<1>5. CASE /\ pos # 0 /\ segments' = RemoveAt(segments, pos)
           /\ \/ host' = [b \in HostAddr |-> IF b \in range THEN "free" ELSE host[b]]
              \/ UNCHANGED host
           /\ result'.out \in {"ok", "err"} /\ UNCHANGED <<heapVars, ram>>
  <2> HIDE DEF pos
  <2> DEFINE Old(i) == IF i < pos THEN i ELSE i + 1
  <2>1. /\ segments' \in Seq(Segment) /\ DOMAIN segments' \subseteq Nat /\ pos \in Nat
        /\ \A i \in DOMAIN segments' : Old(i) \in DOMAIN segments /\ Old(i) # pos
                                       /\ segments'[i] = segments[Old(i)]
    BY <1>1, <1>2, <1>5, Removed
  <2>2. TypeOK'
    BY <1>5, <2>1 DEF TypeOK
  <2>3. ASSUME SegmentsIsolated, ~ (size1 > align_up_page(segments[pos].size))
        PROVE  SegmentsIsolated'
    <3>1. range \subseteq Extent(segments[pos])
      <4>1. segments[pos] \in Segment
        BY <1>1, <1>2, <1>5
      <4>2. segments[pos].ptr \in Nat /\ segments[pos].size \in Nat
        BY <4>1, HostAssumption DEF Segment
      <4>3. align_up_page(segments[pos].size) \in Nat
        BY <4>2, PageBounds
      <4>4. size1 \in Int
        BY PageAssumption DEF AlignedSize, align_up_page, align_down_page
      <4> HIDE DEF size1
      <4> QED  BY <2>3, <4>2, <4>3, <4>4 DEF Extent, Pages
    <3> HIDE DEF range
    <3>2. \A i \in DOMAIN segments : \A b \in Extent(segments[i]) :
            i # pos => b \in HostAddr /\ host'[b] \in Prot
      <4>1. ASSUME NEW i \in DOMAIN segments, NEW b \in Extent(segments[i]), i # pos
            PROVE  b \in HostAddr /\ host[b] \in Prot /\ b \notin range
        BY <1>2, <1>5, <2>3, <3>1, <4>1 DEF SegmentsIsolated
      <4> QED  BY <1>5, <4>1
    <3>3. \A i, j \in DOMAIN segments' : i # j => Old(i) # Old(j)
      BY <2>1
    <3> HIDE DEF Old
    <3>4. /\ \A i \in DOMAIN segments' : \A b \in Extent(segments'[i]) :
               b \in HostAddr /\ host'[b] \in Prot
          /\ \A i, j \in DOMAIN segments' :
               i # j => Extent(segments'[i]) \cap Extent(segments'[j]) = {}
      BY <2>1, <2>3, <3>2, <3>3, Zenon DEF SegmentsIsolated
    <3> QED  BY <3>4 DEF SegmentsIsolated, Extent, Pages, align_up_page, align_down_page
  <2> QED  BY <1>2, <1>5, <2>2, <2>3
<1>6. \A out : Returns("munmap", out).out = out
  OBVIOUS
<1> HIDE DEF pos, range, size1, Returns
<1> QED  BY <1>3, <1>4, <1>5, <1>6

LEMMA ApiStepKeeps ==
  ASSUME TypeOK, [ApiNext]_vars
  PROVE  TypeOK' /\ (SegmentsIsolated => SegmentsIsolated' \/ OverlongMunmap)
<1>1. CASE [Next]_vars
  BY <1>1, StepKeeps DEF Kept
<1>2. ASSUME NEW r \in Protect, NEW prot \in Prot, mprotect(r[1], r[2], prot)
      PROVE  Kept
  BY <1>2, ProtectKeeps, AddressAssumption
<1>3. ASSUME NEW r \in Protect, munmap(r[1], r[2])
      PROVE  TypeOK' /\ (SegmentsIsolated => SegmentsIsolated' \/ OverlongMunmap)
  BY <1>3, UnmapKeeps, AddressAssumption DEF OverlongMunmap, AlignedSize
<1> QED  BY <1>1, <1>2, <1>3 DEF ApiNext, Kept

(* Whoever uses the whole interface keeps the segments apart, unless it    *)
(* unmaps past the end of the segment it removes (munmap trusts the size   *)
(* it is given).                                                           *)
THEOREM OnlyOverlongUnmaps == ApiSpec => IsolationKept
<1>1. Init => TypeOK
  BY HostAssumption, ByteAssumption DEF Init, TypeOK
<1>2. TypeOK /\ [ApiNext]_vars => TypeOK'
  BY ApiStepKeeps
<1>3. TypeOK /\ [ApiNext]_vars => [SegmentsIsolated => SegmentsIsolated' \/ OverlongMunmap]_vars
  BY ApiStepKeeps
<1> QED  BY <1>1, <1>2, <1>3, PTL DEF ApiSpec, IsolationKept

-----------------------------------------------------------------------------
(* The copy loops. *)

(* The segment of the byte at k, given that of the byte before it. *)
NextSegment(addr, k, last) ==
  IF last # 0 /\ Covers(segments[last], addr + k) THEN last ELSE FirstMatch(addr + k)

IsChunking(addr, len, f) ==
  f = [k \in 0 .. len - 1 |-> NextSegment(addr, k, IF k = 0 THEN 0 ELSE f[k - 1])]

(* There is such an assignment of segments for every length: a shortest    *)
(* range without one would have one, that of the range a byte shorter with *)
(* the segment of its last byte.                                           *)
LEMMA ChunkingExists ==
  ASSUME NEW addr, NEW len \in Nat
  PROVE  \E f : IsChunking(addr, len, f)
<1> DEFINE Bad == {n \in Nat : ~ \E f : IsChunking(addr, n, f)}
<1>1. CASE Bad = {}
  BY <1>1
<1>2. CASE Bad # {}
  <2>1. PICK n \in Bad : \A k \in Bad : n <= k
    BY <1>2, Least
  <2>2. n \in Nat /\ ~ \E f : IsChunking(addr, n, f)
    OBVIOUS
  <2>3. CASE n = 0
    <3>1. IsChunking(addr, 0, [k \in 0 .. 0 - 1 |-> 0])
      BY DEF IsChunking
    <3> QED  BY <2>2, <2>3, <3>1
  <2>4. CASE n # 0
    <3>1. n - 1 \in Nat /\ n - 1 \notin Bad
      BY <2>1, <2>2, <2>4
    <3>2. PICK g : IsChunking(addr, n - 1, g)
      BY <3>1
    <3> DEFINE f == [k \in 0 .. n - 1 |->
                       NextSegment(addr, k, IF k = 0 THEN 0 ELSE g[k - 1])]
    <3>3. \A k \in 0 .. (n - 1) - 1 : f[k] = g[k]
      BY <2>2, <3>2 DEF IsChunking
    <3>4. \A k \in 0 .. n - 1 : k # 0 => k - 1 \in 0 .. (n - 1) - 1
      BY <2>2
    <3>5. f = [k \in 0 .. n - 1 |-> NextSegment(addr, k, IF k = 0 THEN 0 ELSE f[k - 1])]
      BY <3>3, <3>4
    <3> HIDE DEF f
    <3> QED  BY <2>2, <3>5 DEF IsChunking
  <2> QED  BY <2>3, <2>4
<1> QED  BY <1>1, <1>2

LEMMA ChunkStep ==
  ASSUME NEW addr, NEW len \in Nat
  PROVE  IsChunking(addr, len, ChunkSegments(addr, len))
<1>1. ChunkSegments(addr, len) = CHOOSE f : IsChunking(addr, len, f)
  BY DEF ChunkSegments, IsChunking, NextSegment
<1> QED  BY <1>1, ChunkingExists

(* The first match is a match, and there is one if any segment matches.    *)
LEMMA FirstMatches ==
  ASSUME segments \in Seq(Segment), NEW a
  PROVE  /\ FirstMatch(a) # 0 => FirstMatch(a) \in DOMAIN segments /\ Covers(segments[FirstMatch(a)], a)
         /\ FirstMatch(a) = 0 => \A i \in DOMAIN segments : ~Covers(segments[i], a)
<1>1. CASE \A i \in DOMAIN segments : ~Covers(segments[i], a)
  BY <1>1 DEF FirstMatch
<1>2. ASSUME NEW m \in DOMAIN segments, Covers(segments[m], a)
      PROVE  FirstMatch(a) \in DOMAIN segments /\ Covers(segments[FirstMatch(a)], a) /\ FirstMatch(a) # 0
  <2>1. PICK i \in DOMAIN segments :
          Covers(segments[i], a) /\ \A j \in 1 .. i - 1 : ~Covers(segments[j], a)
    BY <1>2, FirstExists
  <2>2. FirstMatch(a) = i
    BY <2>1, FirstUnique DEF FirstMatch
  <2> QED  BY <2>1, <2>2
<1> QED  BY <1>1, <1>2

(* A chunk is in a segment that holds its bytes, and a byte of the range   *)
(* has none only if no segment holds it.                                   *)
LEMMA ChunkHolds ==
  ASSUME segments \in Seq(Segment), NEW addr \in Nat, NEW len \in Nat, NEW k \in 0 .. len - 1
  PROVE  LET i == ChunkSegments(addr, len)[k]
         IN  IF i = 0 THEN \A j \in DOMAIN segments : ~Covers(segments[j], addr + k)
             ELSE i \in DOMAIN segments /\ Covers(segments[i], addr + k)
<1> DEFINE seg == ChunkSegments(addr, len)
           Good(n) == IF seg[n] = 0 THEN \A j \in DOMAIN segments : ~Covers(segments[j], addr + n)
                      ELSE seg[n] \in DOMAIN segments /\ Covers(segments[seg[n]], addr + n)
           Bad == {n \in 0 .. len - 1 : ~Good(n)}
<1>1. \A n \in 0 .. len - 1 :
        seg[n] = NextSegment(addr, n, IF n = 0 THEN 0 ELSE seg[n - 1])
  <2>1. seg = [n \in 0 .. len - 1 |-> NextSegment(addr, n, IF n = 0 THEN 0 ELSE seg[n - 1])]
    BY ChunkStep DEF IsChunking
  <2> HIDE DEF seg
  <2> QED  BY <2>1
<1> HIDE DEF seg
<1>2. SUFFICES ASSUME Bad # {} PROVE FALSE
  BY DEF seg
<1>3. PICK m \in Bad : \A n \in Bad : m <= n
  <2>1. Bad \in SUBSET Nat
    OBVIOUS
  <2> HIDE DEF Bad
  <2> QED  BY <1>2, <2>1, Least
<1>4. m = 0 \/ (m - 1 \in 0 .. len - 1 /\ Good(m - 1))
  <2>1. m # 0 => m - 1 \in 0 .. len - 1 /\ m - 1 \notin Bad
    BY <1>3
  <2> QED  BY <2>1
<1> DEFINE last == IF m = 0 THEN 0 ELSE seg[m - 1]
<1>5. last # 0 => last \in DOMAIN segments
  BY <1>4
<1>6. seg[m] = NextSegment(addr, m, last)
  BY <1>1
<1> HIDE DEF last
<1>7. Good(m)
  <2>1. CASE last # 0 /\ Covers(segments[last], addr + m)
    BY <1>5, <1>6, <2>1 DEF NextSegment
  <2>2. CASE ~(last # 0 /\ Covers(segments[last], addr + m))
    BY <1>6, <2>2, FirstMatches DEF NextSegment
  <2> QED  BY <2>1, <2>2
<1> QED  BY <1>7

(* A copy stops at the first byte without a segment.                       *)
LEMMA PrefixStops ==
  ASSUME NEW seg, NEW len \in Nat
  PROVE  /\ MappedPrefix(seg, len) \in 0 .. len
         /\ \A k \in 0 .. MappedPrefix(seg, len) - 1 : seg[k] # 0
         /\ MappedPrefix(seg, len) < len => seg[MappedPrefix(seg, len)] = 0
<1> DEFINE Stops == {k \in 0 .. len : k = len \/ seg[k] = 0}
           K == {k \in 0 .. len - 1 : \A j \in 0 .. k : seg[j] # 0}
<1>1. PICK n \in Stops : \A k \in Stops : n <= k
  <2>1. len \in Stops /\ Stops \in SUBSET Nat
    OBVIOUS
  <2> HIDE DEF Stops
  <2> QED  BY <2>1, Least
<1>2. n \in 0 .. len /\ (n < len => seg[n] = 0) /\ \A k \in 0 .. n - 1 : seg[k] # 0
  BY <1>1
<1>3. K = 0 .. n - 1
  BY <1>2
<1>4. Cardinality(0 .. n - 1) = n
  BY <1>2, FS_Interval
<1> QED  BY <1>2, <1>3, <1>4 DEF MappedPrefix

-----------------------------------------------------------------------------
(* The host bytes an access reaches. *)

(* The bytes to, by offset, are those of a range from its start on, in     *)
(* some segment each, up to the first address no segment holds; a direct   *)
(* access reaches the addresses themselves.                                *)
Reaches(to, addr, len) ==
  \E n \in 0 .. len :
    /\ DOMAIN to = 0 .. n - 1
    /\ IF Direct(addr) THEN n = len /\ \A k \in 0 .. n - 1 : to[k] = addr + k
       ELSE /\ \A k \in 0 .. n - 1 : to[k] \in Holding(addr + k)
            /\ n < len => Holding(addr + n) = {}

LEMMA ChunksReach ==
  ASSUME segments \in Seq(Segment), NEW addr \in Nat, NEW len \in Nat, ~Direct(addr),
         NEW seg, \A k \in 0 .. len - 1 :
                    IF seg[k] = 0 THEN \A j \in DOMAIN segments : ~Covers(segments[j], addr + k)
                    ELSE seg[k] \in DOMAIN segments /\ Covers(segments[seg[k]], addr + k)
  PROVE  Reaches([k \in 0 .. MappedPrefix(seg, len) - 1 |-> HostByte(seg[k], addr + k)], addr, len)
<1> DEFINE n == MappedPrefix(seg, len)
           to == [k \in 0 .. n - 1 |-> HostByte(seg[k], addr + k)]
<1>1. n \in 0 .. len /\ (\A k \in 0 .. n - 1 : seg[k] # 0) /\ (n < len => seg[n] = 0)
  BY PrefixStops
<1> HIDE DEF n
<1>2. \A k \in 0 .. n - 1 : to[k] \in Holding(addr + k)
  BY <1>1 DEF Holding
<1>3. n < len => Holding(addr + n) = {}
  BY <1>1 DEF Holding
<1>4. DOMAIN to = 0 .. n - 1
  OBVIOUS
<1> HIDE DEF to
<1>5. Reaches(to, addr, len)
  BY <1>1, <1>2, <1>3, <1>4 DEF Reaches
<1> QED  BY <1>5 DEF to, n

LEMMA WriteReaches ==
  ASSUME segments \in Seq(Segment), NEW addr \in Nat, NEW len \in Nat
  PROVE  Reaches(WriteBytes(addr, len), addr, len)
<1>1. CASE Direct(addr)
  <2> DEFINE to == [k \in 0 .. len - 1 |-> addr + k]
  <2>1. WriteBytes(addr, len) = to
    BY <1>1 DEF WriteBytes
  <2>2. len \in 0 .. len /\ DOMAIN to = 0 .. len - 1 /\ \A k \in 0 .. len - 1 : to[k] = addr + k
    OBVIOUS
  <2> HIDE DEF to
  <2> QED  BY <1>1, <2>1, <2>2 DEF Reaches
<1>2. CASE ~Direct(addr)
  BY <1>2, ChunkHolds, ChunksReach DEF WriteBytes
<1> QED  BY <1>1, <1>2

(* A read that takes one segment for the whole range has one that holds it. *)
LEMMA RangeCovered ==
  ASSUME NEW s \in Segment, NEW addr \in Nat, NEW len \in Nat, NEW k \in 0 .. len - 1,
         addr >= s.addr, addr + len <= s.addr + s.size
  PROVE  Covers(s, addr + k)
<1>1. s.addr \in Nat /\ s.size \in Nat
  BY DEF Segment
<1> QED  BY <1>1 DEF Covers

LEMMA WholeHolds ==
  ASSUME segments \in Seq(Segment), NEW addr \in Nat, NEW len \in Nat,
         WholeSegment(addr, len) # 0, NEW k \in 0 .. len - 1
  PROVE  WholeSegment(addr, len) \in DOMAIN segments /\ Covers(segments[WholeSegment(addr, len)], addr + k)
<1> DEFINE Whole(i) == addr >= segments[i].addr
                       /\ addr + len <= segments[i].addr + segments[i].size
           First(i) == Whole(i) /\ \A j \in 1 .. i - 1 : ~Whole(j)
           T == {i \in DOMAIN segments : Whole(i)}
<1>1. DOMAIN segments = 1 .. Len(segments) /\ Len(segments) \in Nat
  OBVIOUS
<1>2. T # {} /\ T \in SUBSET Nat
  BY <1>1 DEF WholeSegment
<1>3. PICK m \in T : \A i \in T : m <= i
  BY <1>2, Least
<1>4. First(m) /\ m \in DOMAIN segments
  <2>1. \A j \in 1 .. m - 1 : j \in DOMAIN segments /\ j \notin T
    BY <1>1, <1>3
  <2> QED  BY <2>1
<1>5. WholeSegment(addr, len) = CHOOSE i \in DOMAIN segments : First(i)
  BY <1>2 DEF WholeSegment
<1>6. WholeSegment(addr, len) \in DOMAIN segments /\ Whole(WholeSegment(addr, len))
  <2>1. (CHOOSE i \in DOMAIN segments : First(i)) \in DOMAIN segments
        /\ First(CHOOSE i \in DOMAIN segments : First(i))
    <3> HIDE DEF First
    <3> QED  BY <1>4
  <2> QED  BY <1>5, <2>1
<1>7. segments[WholeSegment(addr, len)] \in Segment
  BY <1>6
<1>8. \A w \in DOMAIN segments : Whole(w) /\ segments[w] \in Segment => Covers(segments[w], addr + k)
  BY RangeCovered
<1> HIDE DEF Whole
<1> QED  BY <1>6, <1>7, <1>8

LEMMA ReadReaches ==
  ASSUME segments \in Seq(Segment), NEW addr \in Nat, NEW len \in Nat
  PROVE  Reaches(ReadBytes(addr, len), addr, len)
<1>1. CASE Direct(addr)
  <2>1. ReadBytes(addr, len) = WriteBytes(addr, len)
    BY <1>1 DEF ReadBytes, WriteBytes
  <2> QED  BY <2>1, WriteReaches
<1>2. CASE ~Direct(addr)
  <2> DEFINE seg == ReadSegments(addr, len)
  <2>1. \A k \in 0 .. len - 1 :
          IF seg[k] = 0 THEN \A j \in DOMAIN segments : ~Covers(segments[j], addr + k)
          ELSE seg[k] \in DOMAIN segments /\ Covers(segments[seg[k]], addr + k)
    <3>1. CASE WholeSegment(addr, len) # 0
      <4>1. \A k \in 0 .. len - 1 : seg[k] = WholeSegment(addr, len)
        BY <3>1 DEF ReadSegments
      <4> HIDE DEF seg
      <4> QED  BY <3>1, <4>1, WholeHolds
    <3>2. CASE WholeSegment(addr, len) = 0
      BY <3>2, ChunkHolds DEF ReadSegments
    <3> QED  BY <3>1, <3>2
  <2>2. ReadBytes(addr, len)
          = [k \in 0 .. MappedPrefix(seg, len) - 1 |-> HostByte(seg[k], addr + k)]
    BY <1>2 DEF ReadBytes
  <2> HIDE DEF seg
  <2> QED  BY <1>2, <2>1, <2>2, ChunksReach
<1> QED  BY <1>1, <1>2

(* What a segment has for an address it holds lies in its pages.           *)
LEMMA HeldInExtent ==
  ASSUME TypeOK, NEW i \in DOMAIN segments, NEW a \in Nat, Covers(segments[i], a)
  PROVE  /\ HostByte(i, a) \in Extent(segments[i])
         /\ HostByte(i, a) = segments[i].ptr + (a - segments[i].addr)
<1>1. segments[i] \in Segment
  BY DEF TypeOK
<1>2. /\ segments[i].ptr \in Nat /\ segments[i].addr \in Nat /\ segments[i].size \in Nat
      /\ a >= segments[i].addr /\ a < segments[i].addr + segments[i].size
  <2>1. segments[i].ptr \in HostAddr /\ segments[i].addr \in Nat /\ segments[i].size \in Nat
    BY <1>1 DEF Segment
  <2> QED  BY <2>1, HostAssumption DEF Covers
<1>3. /\ align_up_page(segments[i].size) \in Nat
      /\ segments[i].size <= align_up_page(segments[i].size)
  BY <1>2, PageBounds
<1> QED  BY <1>2, <1>3 DEF HostByte, Extent, Pages

(* No two guest addresses share a host byte, in whatever segments.         *)
LEMMA HoldingApart ==
  ASSUME TypeOK, SegmentsIsolated, NEW a \in Nat, NEW b \in Nat,
         NEW h \in Holding(a), h \in Holding(b)
  PROVE  a = b
<1>1. PICK i \in DOMAIN segments : Covers(segments[i], a) /\ h = HostByte(i, a)
  BY DEF Holding
<1>2. PICK j \in DOMAIN segments : Covers(segments[j], b) /\ h = HostByte(j, b)
  BY DEF Holding
<1>3. h \in Extent(segments[i]) /\ h = segments[i].ptr + (a - segments[i].addr)
  BY <1>1, HeldInExtent
<1>4. h \in Extent(segments[j]) /\ h = segments[j].ptr + (b - segments[j].addr)
  BY <1>2, HeldInExtent
<1>5. i = j
  BY <1>3, <1>4 DEF SegmentsIsolated
<1>6. segments[i].ptr \in Int /\ segments[i].addr \in Int
  <2>1. segments[i] \in Segment
    BY DEF TypeOK
  <2>2. segments[i].ptr \in HostAddr /\ segments[i].addr \in Nat
    BY <2>1 DEF Segment
  <2> QED  BY <2>2, HostAssumption
<1> QED  BY <1>3, <1>4, <1>5, <1>6

(* What is held is guest memory of the host.                               *)
LEMMA HoldingMapped ==
  ASSUME TypeOK, SegmentsIsolated, NEW a \in Nat, NEW h \in Holding(a)
  PROVE  h \in HostAddr /\ host[h] \in Prot
<1>1. PICK i \in DOMAIN segments : Covers(segments[i], a) /\ h = HostByte(i, a)
  BY DEF Holding
<1>2. h \in Extent(segments[i])
  BY <1>1, HeldInExtent
<1> QED  BY <1>2 DEF SegmentsIsolated

(* The bytes of a range are apart.                                         *)
LEMMA ReachApart ==
  ASSUME TypeOK, SegmentsIsolated, NEW addr \in Nat, NEW len \in Nat,
         NEW to, Reaches(to, addr, len),
         NEW j \in DOMAIN to, NEW k \in DOMAIN to, to[j] = to[k]
  PROVE  j = k
<1>1. PICK n \in 0 .. len :
        /\ DOMAIN to = 0 .. n - 1
        /\ IF Direct(addr) THEN \A m \in 0 .. n - 1 : to[m] = addr + m
           ELSE \A m \in 0 .. n - 1 : to[m] \in Holding(addr + m)
  BY DEF Reaches
<1>2. j \in Nat /\ k \in Nat
  BY <1>1
<1>3. CASE Direct(addr)
  BY <1>1, <1>2, <1>3
<1>4. CASE ~Direct(addr)
  <2>1. to[j] \in Holding(addr + j) /\ to[j] \in Holding(addr + k)
    BY <1>1, <1>4
  <2>2. addr + j = addr + k
    BY <1>2, <2>1, HoldingApart
  <2> QED  BY <1>2, <2>2
<1> QED  BY <1>3, <1>4

-----------------------------------------------------------------------------
(* What a write stores: its data at the bytes it reaches, one each, and    *)
(* nothing anywhere else.                                                  *)
LEMMA StoredAt ==
  ASSUME TypeOK, SegmentsIsolated, NEW addr \in Nat, NEW len \in Nat, NEW data, NEW m,
         WriteOutcome(addr, len) # "fault"
  PROVE  LET to == WriteBytes(addr, len)
             new == Stored(m, addr, len, data)
         IN  /\ \A k \in DOMAIN to : to[k] \in HostAddr /\ new[to[k]] = data[k]
             /\ \A b \in HostAddr : (\A k \in DOMAIN to : to[k] # b) => new[b] = m[b]
<1> DEFINE to == WriteBytes(addr, len)
<1>1. Reaches(to, addr, len)
  BY WriteReaches DEF TypeOK
<1>2. \A k \in DOMAIN to : to[k] \in HostAddr
  BY DEF WriteOutcome, Outcome, Writable
<1>3. Stored(m, addr, len, data)
        = [b \in HostAddr |-> IF \E k \in DOMAIN to : to[k] = b THEN data[LastTo(to, b)] ELSE m[b]]
  BY DEF Stored
<1> HIDE DEF to
<1>4. ASSUME NEW k \in DOMAIN to
      PROVE  LastTo(to, to[k]) = k
  <2>1. \A j \in DOMAIN to : to[j] = to[k] => j = k
    BY <1>1, ReachApart
  <2>2. k \in Int
    BY <1>1 DEF Reaches
  <2> QED  BY <2>1, <2>2 DEF LastTo
<1>5. \A k \in DOMAIN to : Stored(m, addr, len, data)[to[k]] = data[k]
  BY <1>2, <1>3, <1>4
<1>6. \A b \in HostAddr : (\A k \in DOMAIN to : to[k] # b) => Stored(m, addr, len, data)[b] = m[b]
  BY <1>3
<1> QED  BY <1>2, <1>5, <1>6 DEF to

(* A set with one element at most.                                         *)
LEMMA AtMostOne ==
  ASSUME NEW S, IsFiniteSet(S), Cardinality(S) <= 1, NEW x \in S, NEW y \in S
  PROVE  x = y
<1>1. SUFFICES ASSUME x # y PROVE FALSE
  OBVIOUS
<1>2. Cardinality({}) = 0 /\ IsFiniteSet({})
  BY FS_EmptySet
<1>3. IsFiniteSet({x}) /\ Cardinality({x}) = 1
  BY FS_Singleton
<1>4. IsFiniteSet({x, y}) /\ Cardinality({x, y}) = 2
  <2>1. {x, y} = {x} \cup {y} /\ y \notin {x}
    BY <1>1
  <2>2. IsFiniteSet({x} \cup {y}) /\ Cardinality({x} \cup {y}) = 1 + 1
    BY <1>3, <2>1, FS_AddElement
  <2> QED  BY <2>1, <2>2
<1>5. Cardinality({x, y}) <= Cardinality(S)
  BY FS_Subset, {x, y} \in SUBSET S
<1> QED  BY <1>4, <1>5, FS_CardinalityType

LEMMA SegmentsFinite ==
  ASSUME segments \in Seq(Segment), NEW a
  PROVE  IsFiniteSet({i \in DOMAIN segments : Covers(segments[i], a)})
<1>1. IsFiniteSet(1 .. Len(segments))
  BY FS_Interval
<1>2. {i \in DOMAIN segments : Covers(segments[i], a)} \in SUBSET (1 .. Len(segments))
  OBVIOUS
<1> QED  BY <1>1, <1>2, FS_Subset

(* What is written can be read back: where no two segments claim an        *)
(* address of the range a read finds the bytes a write has stored, however *)
(* the range is spread over segments (write and read).                     *)
LEMMA ReadsBack ==
  ASSUME TypeOK, SegmentsIsolated, NEW addr \in Nat, NEW len \in Nat,
         NEW data \in [0 .. len - 1 -> Byte],
         WriteOutcome(addr, len) = "ok", CoveredOnce(addr, len)
  PROVE  [k \in 0 .. len - 1 |-> Stored(ram, addr, len, data)[ReadBytes(addr, len)[k]]] = data
<1> DEFINE to == WriteBytes(addr, len)
           from == ReadBytes(addr, len)
<1>1. Reaches(to, addr, len) /\ Reaches(from, addr, len)
  BY WriteReaches, ReadReaches DEF TypeOK
<1>2. DOMAIN to = 0 .. len - 1
  BY DEF WriteOutcome, Outcome
<1>3. \A k \in DOMAIN to : Stored(ram, addr, len, data)[to[k]] = data[k]
  BY StoredAt
<1> HIDE DEF to, from
<1>4. ASSUME NEW k \in 0 .. len - 1
      PROVE  from[k] = to[k]
  <2>1. CASE Direct(addr)
    BY <1>1, <2>1 DEF Reaches
  <2>2. CASE ~Direct(addr)
    <3>1. \A j \in 0 .. len - 1 : to[j] \in Holding(addr + j)
      BY <1>1, <1>2, <2>2 DEF Reaches
    <3>2. from[k] \in Holding(addr + k)
      <4>1. PICK n \in 0 .. len : /\ \A j \in 0 .. n - 1 : from[j] \in Holding(addr + j)
                                  /\ n < len => Holding(addr + n) = {}
        BY <1>1, <2>2 DEF Reaches
      <4>2. n = len
        <5>1. n < len => n \in 0 .. len - 1
          OBVIOUS
        <5>2. ASSUME n < len PROVE FALSE
          <6>1. to[n] \in Holding(addr + n)
            BY <3>1, <5>1, <5>2
          <6> QED  BY <4>1, <5>2, <6>1
        <5> QED  BY <5>2
      <4> QED  BY <4>1, <4>2
    <3> DEFINE S == {i \in DOMAIN segments : Covers(segments[i], addr + k)}
    <3>3. IsFiniteSet(S) /\ Cardinality(S) <= 1
      <4>1. IsFiniteSet(S)
        BY SegmentsFinite DEF TypeOK
      <4>2. addr + k \in addr .. addr + len - 1
        OBVIOUS
      <4> QED  BY <4>1, <4>2 DEF CoveredOnce
    <3>4. PICK i \in S, j \in S : to[k] = HostByte(i, addr + k) /\ from[k] = HostByte(j, addr + k)
      BY <3>1, <3>2 DEF Holding
    <3> HIDE DEF S
    <3> QED  BY <3>3, <3>4, AtMostOne
  <2> QED  BY <2>1, <2>2
<1>5. \A k \in 0 .. len - 1 : Stored(ram, addr, len, data)[from[k]] = data[k]
  BY <1>2, <1>3, <1>4
<1> QED  BY <1>5 DEF from

(* A successful write followed by a read of the same range gives the data, *)
(* whatever came before them.                                              *)
THEOREM ReadsFollowWrites == Spec => ReadAfterWrite
<1> DEFINE Body == result'.out = "ok" =>
             \A r \in {a \in Accesses : CoveredOnce(a[1], a[2])} : \A data \in Data(r[2]) :
               write(r[1], r[2], data) => [k \in 0 .. r[2] - 1 |-> ram'[ReadBytes(r[1], r[2])[k]]] = data
<1>1. ASSUME TypeOK, SegmentsIsolated, NEW r \in Accesses, NEW data \in Data(r[2]),
             write(r[1], r[2], data), result'.out = "ok", CoveredOnce(r[1], r[2])
      PROVE  [k \in 0 .. r[2] - 1 |-> ram'[ReadBytes(r[1], r[2])[k]]] = data
  <2>1. r[1] \in Nat /\ r[2] \in Nat
    BY AddressAssumption
  <2>2. ram' = Stored(ram, r[1], r[2], data)
    BY <1>1 DEF write
  <2>3. WriteOutcome(r[1], r[2]) = "ok"
    <3>1. PICK out \in Ends(WriteOutcome(r[1], r[2])) : result'.out = out
      BY <1>1 DEF write
    <3> QED  BY <1>1, <3>1, EndsTyped
  <2> QED  BY <1>1, <2>1, <2>2, <2>3, ReadsBack DEF Data
<1>2. ASSUME TypeOK, SegmentsIsolated, [Next]_vars
      PROVE  [Body]_vars
  BY <1>1, <1>2
<1> QED
  BY <1>2, TypeCorrect, SegmentsAlwaysIsolated, PTL DEF Spec, ReadAfterWrite

-----------------------------------------------------------------------------
(* A write that errs: what it changes lies before the first address that   *)
(* no segment holds, in the bytes of a segment that holds the address.     *)
LEMMA FailedWrite ==
  ASSUME TypeOK, SegmentsIsolated, NEW addr \in Nat, NEW len \in Nat, NEW data,
         WriteOutcome(addr, len) = "err", NEW b \in HostAddr,
         Stored(ram, addr, len, data)[b] # ram[b]
  PROVE  \E k \in 0 .. len - 1 :
           /\ b \in Holding(addr + k)
           /\ \A j \in 0 .. k : FirstMatch(addr + j) # 0
           /\ \E j \in k .. len - 1 : FirstMatch(addr + j) = 0
<1> DEFINE to == WriteBytes(addr, len)
<1>1. PICK k \in DOMAIN to : to[k] = b
  BY StoredAt
<1>2. DOMAIN to # 0 .. len - 1
  BY DEF WriteOutcome, Outcome
<1>3. Reaches(to, addr, len)
  BY WriteReaches DEF TypeOK
<1> HIDE DEF to
<1>4. PICK n \in 0 .. len :
        /\ DOMAIN to = 0 .. n - 1
        /\ ~Direct(addr)
        /\ \A j \in 0 .. n - 1 : to[j] \in Holding(addr + j)
        /\ n < len => Holding(addr + n) = {}
  BY <1>2, <1>3 DEF Reaches
<1>5. n < len /\ k \in 0 .. n - 1
  BY <1>1, <1>2, <1>4
<1>6. b \in Holding(addr + k)
  BY <1>1, <1>4, <1>5
<1>7. ASSUME NEW j \in 0 .. k PROVE FirstMatch(addr + j) # 0
  <2>1. Holding(addr + j) # {}
    <3>1. j \in 0 .. n - 1
      BY <1>5
    <3> QED  BY <1>4, <3>1
  <2> QED  BY <2>1, FirstMatches DEF Holding, TypeOK
<1>8. FirstMatch(addr + n) = 0
  <2>1. \A i \in DOMAIN segments : ~Covers(segments[i], addr + n)
    BY <1>4, <1>5 DEF Holding
  <2> QED  BY <2>1 DEF FirstMatch
<1>9. k \in 0 .. len - 1 /\ n \in k .. len - 1
  BY <1>5
<1> QED  BY <1>6, <1>7, <1>8, <1>9

(* Whatever call returns an error, the segments, the heap and the host's   *)
(* mappings are as they were; a write may have stored its first bytes.     *)
THEOREM ErrorsAreHarmless == Spec => FailedCallsHarmless
<1> DEFINE Harmless == \A b \in HostAddr : ram'[b] # ram[b] =>
             \E r \in Accesses : \E k \in 0 .. r[2] - 1 :
               /\ b \in Holding(r[1] + k)
               /\ \A j \in 0 .. k : FirstMatch(r[1] + j) # 0
               /\ \E j \in k .. r[2] - 1 : FirstMatch(r[1] + j) = 0
           Same == UNCHANGED <<segments, heapVars, host>>
<1>1. ASSUME NEW base \in BrkBases, set_brk_base(base)
      PROVE  result'.out # "err"
  BY <1>1 DEF set_brk_base
<1>2. ASSUME NEW target \in MapAddrs, NEW size \in Sizes, map_anonymous(target, size),
             result'.out = "err"
      PROVE  Same /\ Harmless
  BY <1>2 DEF map_anonymous, map_anonymous_prot, Refused
<1>3. ASSUME NEW new_brk \in BrkArgs, set_brk(new_brk), result'.out = "err"
      PROVE  Same /\ Harmless
  <2>1. Refused("brk")
    BY <1>3 DEF set_brk, ExpansionFails, AlignmentPanics
  <2> QED  BY <2>1 DEF Refused
<1>4. ASSUME TypeOK, SegmentsIsolated, NEW a \in Accesses, NEW data \in Data(a[2]),
             write(a[1], a[2], data), result'.out = "err"
      PROVE  Same /\ Harmless
  <2>1. a[1] \in Nat /\ a[2] \in Nat
    BY AddressAssumption
  <2>2. Same /\ ram' = Stored(ram, a[1], a[2], data)
    BY <1>4 DEF write
  <2>3. WriteOutcome(a[1], a[2]) = "err"
    <3>1. PICK out \in Ends(WriteOutcome(a[1], a[2])) : result'.out = out
      BY <1>4 DEF write
    <3> QED  BY <1>4, <3>1, EndsTyped
  <2>4. ASSUME NEW b \in HostAddr, ram'[b] # ram[b]
        PROVE  \E k \in 0 .. a[2] - 1 :
                 /\ b \in Holding(a[1] + k)
                 /\ \A j \in 0 .. k : FirstMatch(a[1] + j) # 0
                 /\ \E j \in k .. a[2] - 1 : FirstMatch(a[1] + j) = 0
    <3>1. Stored(ram, a[1], a[2], data)[b] # ram[b]
      BY <2>2, <2>4
    <3>2. TypeOK /\ SegmentsIsolated
      BY <1>4
    <3> HIDE DEF HostAddr, Harmless, Same
    <3> QED  BY <2>1, <2>3, <3>1, <3>2, FailedWrite, Zenon
  <2> QED  BY <2>2, <2>4
<1>5. ASSUME NEW a \in Accesses, read(a[1], a[2])
      PROVE  Same /\ Harmless
  BY <1>5 DEF read
<1>6. ASSUME TypeOK, SegmentsIsolated, [Next]_vars
      PROVE  [result'.out = "err" => Same /\ Harmless]_vars
  <2> HIDE DEF Same, Harmless
  <2> QED  BY <1>1, <1>2, <1>3, <1>4, <1>5, <1>6 DEF Next
<1> QED
  BY <1>6, TypeCorrect, SegmentsAlwaysIsolated, PTL DEF Spec, FailedCallsHarmless

-----------------------------------------------------------------------------
(* Where nobody protects.  A guest's own mappings are readable and         *)
(* writable, its calls to mprotect do nothing, and the emulator's memory   *)
(* is left alone: then no host byte is mapped without access.              *)
Unprotected == \A b \in HostAddr : host[b] \in {"free", "own", "RW", "RWX"}

LEMMA PushUnprotected ==
  ASSUME Unprotected, NEW target, NEW size, NEW prot \in {"RW", "RWX"}, NEW ptr,
         PushSegment(target, size, prot, ptr)
  PROVE  Unprotected'
BY DEF Unprotected, PushSegment

LEMMA MapUnprotected ==
  ASSUME Unprotected, NEW target, NEW size, map_anonymous(target, size)
  PROVE  Unprotected'
<1>1. CASE Refused("map")
  BY <1>1 DEF Unprotected, Refused
<1>2. ASSUME NEW ptr \in HostPlaces(target, size), PushSegment(target, size, "RWX", ptr)
      PROVE  Unprotected'
  BY <1>2, PushUnprotected
<1> QED  BY <1>1, <1>2 DEF map_anonymous, map_anonymous_prot

LEMMA BrkUnprotected ==
  ASSUME Unprotected, NEW new_brk, set_brk(new_brk)
  PROVE  Unprotected'
<1>1. CASE UNCHANGED <<segments, hostVars>>
  BY <1>1 DEF Unprotected
<1>2. ASSUME NEW size, NEW ptr \in HostPlaces(brk_mapped_end, size),
             PushSegment(brk_mapped_end, size, "RW", ptr)
      PROVE  Unprotected'
  BY <1>2, PushUnprotected
<1> QED  BY <1>1, <1>2, Zenon DEF set_brk, ExpansionFails, Refused, AlignmentPanics

(* What is held can be read and written.                                   *)
LEMMA HeldAccessible ==
  ASSUME TypeOK, SegmentsIsolated, Unprotected, NEW a \in Nat, NEW h \in Holding(a)
  PROVE  h \in HostAddr /\ Readable(h) /\ Writable(h)
BY HoldingMapped DEF Unprotected, Readable, Writable

(* An address translates if a segment holds it, to a byte it has for it.   *)
LEMMA TranslationHeld ==
  ASSUME TypeOK, SegmentsIsolated, NEW a \in Nat
  PROVE  /\ Translation(a) # -1 => Translation(a) \in Holding(a)
         /\ Translation(a) = -1 => Holding(a) = {}
<1>1. CASE FirstMatch(a) = 0
  BY <1>1, FirstMatches DEF Translation, Holding, TypeOK
<1>2. CASE FirstMatch(a) # 0
  <2>1. Translation(a) \in Holding(a)
    BY <1>2, FirstMatches DEF Translation, Holding, TypeOK
  <2>2. Translation(a) \in HostAddr
    BY <2>1, HoldingMapped
  <2>3. Translation(a) # -1
    BY <2>2, HostAssumption
  <2> QED  BY <2>1, <2>3
<1> QED  BY <1>1, <1>2

(* A range that is not got through has an address no segment holds.        *)
LEMMA CutShort ==
  ASSUME TypeOK, NEW addr \in Nat, NEW len \in Nat, NEW to, Reaches(to, addr, len),
         DOMAIN to # 0 .. len - 1
  PROVE  \E k \in 0 .. len - 1 : FirstMatch(addr + k) = 0
<1>1. PICK n \in 0 .. len : DOMAIN to = 0 .. n - 1 /\ (n < len => Holding(addr + n) = {})
  BY DEF Reaches
<1>2. n \in 0 .. len - 1 /\ Holding(addr + n) = {}
  BY <1>1
<1>3. FirstMatch(addr + n) = 0
  BY <1>2 DEF Holding, FirstMatch
<1> QED  BY <1>2, <1>3

(* An access faults only in the direct range, at a byte the host does not  *)
(* let it touch; it errs only at a byte no segment holds.                  *)
LEMMA WriteFails ==
  ASSUME TypeOK, SegmentsIsolated, Unprotected, NEW addr \in Nat, NEW len \in Nat
  PROVE  /\ WriteOutcome(addr, len) \in {"ok", "err", "fault"}
         /\ WriteOutcome(addr, len) = "fault" =>
              Direct(addr) /\ \E k \in 0 .. len - 1 : ~Writable(addr + k)
         /\ WriteOutcome(addr, len) = "err" => \E k \in 0 .. len - 1 : FirstMatch(addr + k) = 0
<1> DEFINE to == WriteBytes(addr, len)
<1>1. Reaches(to, addr, len)
  BY WriteReaches DEF TypeOK
<1>2. WriteOutcome(addr, len) = Outcome(\A k \in DOMAIN to : Writable(to[k]), to, len)
  BY DEF WriteOutcome
<1> HIDE DEF to
<1>3. ASSUME NEW k \in DOMAIN to, ~Writable(to[k])
      PROVE  Direct(addr) /\ k \in 0 .. len - 1 /\ ~Writable(addr + k)
  <2>1. k \in 0 .. len - 1
    BY <1>1 DEF Reaches
  <2>2. CASE Direct(addr)
    BY <1>1, <1>3, <2>1, <2>2 DEF Reaches
  <2>3. CASE ~Direct(addr)
    <3>1. to[k] \in Holding(addr + k)
      BY <1>1, <2>3 DEF Reaches
    <3> QED  BY <1>3, <2>1, <3>1, HeldAccessible
  <2> QED  BY <2>1, <2>2, <2>3
<1>4. DOMAIN to # 0 .. len - 1 => \E k \in 0 .. len - 1 : FirstMatch(addr + k) = 0
  BY <1>1, CutShort
<1> QED  BY <1>2, <1>3, <1>4 DEF Outcome

LEMMA ReadFails ==
  ASSUME TypeOK, SegmentsIsolated, Unprotected, NEW addr \in Nat, NEW len \in Nat
  PROVE  /\ ReadOutcome(addr, len) \in {"ok", "err", "fault", "panic"}
         /\ ReadOutcome(addr, len) = "fault" =>
              Direct(addr) /\ \E k \in 0 .. len - 1 : ~Readable(addr + k)
         /\ ReadOutcome(addr, len) = "err" => \E k \in 0 .. len - 1 : FirstMatch(addr + k) = 0
         /\ ReadOutcome(addr, len) = "panic" => len > AllocMax
<1> DEFINE from == ReadBytes(addr, len)
<1>1. Reaches(from, addr, len)
  BY ReadReaches DEF TypeOK
<1>2. ReadOutcome(addr, len) = IF len > AllocMax THEN "panic"
                               ELSE Outcome(\A k \in DOMAIN from : Readable(from[k]), from, len)
  BY DEF ReadOutcome
<1> HIDE DEF from
<1>3. ASSUME NEW k \in DOMAIN from, ~Readable(from[k])
      PROVE  Direct(addr) /\ k \in 0 .. len - 1 /\ ~Readable(addr + k)
  <2>1. k \in 0 .. len - 1
    BY <1>1 DEF Reaches
  <2>2. CASE Direct(addr)
    BY <1>1, <1>3, <2>1, <2>2 DEF Reaches
  <2>3. CASE ~Direct(addr)
    <3>1. from[k] \in Holding(addr + k)
      BY <1>1, <2>3 DEF Reaches
    <3> QED  BY <1>3, <2>1, <3>1, HeldAccessible
  <2> QED  BY <2>1, <2>2, <2>3
<1>4. DOMAIN from # 0 .. len - 1 => \E k \in 0 .. len - 1 : FirstMatch(addr + k) = 0
  BY <1>1, CutShort
<1> QED  BY <1>2, <1>3, <1>4 DEF Outcome

(* A write touches the bytes the segments have for its range, and in the   *)
(* direct range the addresses themselves.                                  *)
LEMMA StoredWithin ==
  ASSUME TypeOK, SegmentsIsolated, NEW addr \in Nat, NEW len \in Nat, NEW data, NEW m,
         NEW b \in HostAddr, Stored(m, addr, len, data)[b] # m[b]
  PROVE  \E k \in 0 .. len - 1 : b \in Holding(addr + k) \/ (Direct(addr + k) /\ b = addr + k)
<1> DEFINE to == WriteBytes(addr, len)
<1>1. Reaches(to, addr, len)
  BY WriteReaches DEF TypeOK
<1>2. PICK k \in DOMAIN to : to[k] = b
  <2>1. WriteOutcome(addr, len) # "fault"
    BY DEF Stored
  <2> QED  BY <2>1, StoredAt
<1> HIDE DEF to
<1>3. k \in 0 .. len - 1
  BY <1>1, <1>2 DEF Reaches
<1>4. CASE Direct(addr)
  <2>1. b = addr + k
    BY <1>1, <1>2, <1>4 DEF Reaches
  <2>2. Direct(addr + k)
    BY <1>3, <1>4, AddressAssumption DEF Direct
  <2> QED  BY <1>3, <2>1, <2>2
<1>5. CASE ~Direct(addr)
  <2>1. b \in Holding(addr + k)
    BY <1>1, <1>2, <1>5 DEF Reaches
  <2> QED  BY <1>3, <2>1
<1> QED  BY <1>4, <1>5

(* A push makes a fresh range of zeros of what had no segment.             *)
LEMMA PushFresh ==
  ASSUME TypeOK, TypeOK', SegmentsIsolated, SegmentsIsolated', NEW target, NEW size, NEW prot,
         NEW ptr \in HostPlaces(target, size), PushSegment(target, size, prot, ptr),
         NEW a \in Nat, Translation(a) = -1,
         LET first == IF target # 0 THEN target ELSE ptr IN a >= first /\ a < first + size
  PROVE  /\ Translation(a)' = ptr + (a - IF target # 0 THEN target ELSE ptr)
         /\ Translation(a)' # -1 /\ Translation(a)' \in Pages(ptr, size)
         /\ ram'[Translation(a)'] = 0
<1> DEFINE n == Len(segments) + 1
           first == IF target # 0 THEN target ELSE ptr
<1>1. /\ DOMAIN segments' = DOMAIN segments \cup {n}
      /\ \A i \in DOMAIN segments : segments'[i] = segments[i]
      /\ segments'[n].addr = first /\ segments'[n].size = size /\ segments'[n].ptr = ptr
  BY PushAppends
<1>2. n \in Nat \ {0} /\ 1 .. n - 1 = DOMAIN segments
  BY DEF TypeOK
<1>3. Covers(segments'[n], a)
  BY <1>1 DEF Covers
<1>4. \A j \in 1 .. n - 1 : ~Covers(segments'[j], a)
  <2>1. \A j \in DOMAIN segments : ~Covers(segments[j], a)
    BY TranslationHeld DEF Holding
  <2> QED  BY <1>1, <1>2, <2>1
<1>5. FirstMatch(a)' = n
  <2>1. segments' \in Seq(Segment) /\ n \in DOMAIN segments'
    BY <1>1 DEF TypeOK
  <2> HIDE DEF n
  <2> QED  BY <1>3, <1>4, <2>1, FirstUnique DEF FirstMatch, Covers
<1> HIDE DEF n, first
<1>6. Translation(a)' = ptr + (a - first)
  BY <1>1, <1>2, <1>5 DEF Translation, HostByte
<1>7. Translation(a)' \in Pages(ptr, size)
  <2>1. segments'[n] \in Segment
    <3>1. segments' \in Seq(Segment) /\ n \in DOMAIN segments'
      BY <1>1 DEF TypeOK
    <3> QED  BY <3>1
  <2>2. ptr \in Nat /\ size \in Nat /\ first \in Nat
    BY <1>1, <2>1, HostAssumption DEF Segment
  <2>3. size <= align_up_page(size) /\ align_up_page(size) \in Nat
    BY <2>2, PageBounds
  <2>4. a >= first /\ a < first + size
    BY DEF first
  <2> QED  BY <1>6, <2>2, <2>3, <2>4 DEF Pages
<1>8. Pages(ptr, size) \subseteq HostAddr
  BY DEF HostPlaces, FreeRun
<1>9. ram'[Translation(a)'] = 0 /\ Translation(a)' # -1
  BY <1>7, <1>8, HostAssumption DEF PushSegment
<1> QED  BY <1>6, <1>7, <1>9 DEF first

(* A string ends: an address past the host's memory cannot be read, so the *)
(* loop of read_string stops, and its length is the one the loop counts.   *)
LEMMA StringEnds ==
  ASSUME NEW addr \in Nat
  PROVE  StringLength(addr) \in Nat
<1> DEFINE Char(n) == ReadOutcome(addr + n, 1) = "ok" /\ BytesAt(addr + n, 1)[0] # 0
           top == HostSize + DirectBase
           Stopping == {n \in Nat : ~Char(n)}
           Stops(n) == ~Char(n) /\ \A j \in 0 .. n - 1 : Char(j)
<1>1. top \in Nat /\ HostSize \in Nat /\ DirectBase \in Nat
  BY HostAssumption, AddressAssumption
<1>2. ReadOutcome(addr + top, 1) # "ok"
  <2>1. Direct(addr + top)
    BY <1>1 DEF Direct
  <2>2. ReadBytes(addr + top, 1) = [k \in 0 .. 0 |-> addr + top + k]
    BY <2>1 DEF ReadBytes
  <2>3. 0 \in DOMAIN ReadBytes(addr + top, 1) /\ ReadBytes(addr + top, 1)[0] = addr + top + 0
    BY <2>2
  <2>4. ~Readable(addr + top + 0)
    BY <1>1 DEF Readable
  <2> HIDE DEF top
  <2> QED  BY <2>3, <2>4 DEF ReadOutcome, Outcome
<1>3. top \in Stopping /\ Stopping \in SUBSET Nat
  BY <1>1, <1>2
<1> HIDE DEF Stopping, top
<1>4. PICK n \in Stopping : \A k \in Stopping : n <= k
  BY <1>3, Least
<1>5. n \in Nat /\ n <= top /\ Stops(n)
  <2>1. n \in Nat /\ n <= top /\ ~Char(n)
    BY <1>3, <1>4 DEF Stopping
  <2>2. ASSUME NEW j \in 0 .. n - 1 PROVE Char(j)
    <3>1. j \in Nat /\ ~(n <= j)
      BY <2>1
    <3>2. j \notin Stopping
      BY <1>4, <3>1
    <3> QED  BY <3>1, <3>2 DEF Stopping
  <2> QED  BY <2>1, <2>2
<1>6. n \in 0 .. top
  BY <1>1, <1>5
<1>7. StringLength(addr) = CHOOSE k \in 0 .. top : Stops(k)
  BY DEF StringLength, top
<1> HIDE DEF Stops
<1>8. StringLength(addr) \in 0 .. top
  BY <1>5, <1>6, <1>7
<1> QED  BY <1>8

=============================================================================
