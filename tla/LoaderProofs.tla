---------------------------- MODULE LoaderProofs ----------------------------
(***************************************************************************)
(* Whatever file is loaded, and however far the load gets, the manager's   *)
(* invariants hold and the emulator's own mappings are left alone; the     *)
(* load fails only for a reason of the file, the kernel or the arguments,  *)
(* and panics only if an address or a size of the file does not fit;       *)
(* and once it is over the heap is on the page after the image.            *)
(*                                                                         *)
(* The plan of a load is followed piece by piece.  A piece is good for a   *)
(* load if each of its calls is one the load may make and, of an image in  *)
(* range, each write that must succeed comes after the mapping that holds  *)
(* its range; good pieces join to good ones.  The plan as a whole is two   *)
(* good pieces around the call that places the heap.  The invariant then   *)
(* says of what is left of the plan what the plan says of itself, with     *)
(* the segments standing for the mappings already made.                    *)
(***************************************************************************)
EXTENDS Loader, GuestMemoryProofs

LEMMA PowerPositive ==
  ASSUME NEW n \in Nat
  PROVE  2^n \in Nat \ {0}
<1>1. IsFiniteSet(1 .. n) /\ Cardinality(1 .. n) = n
  BY FS_Interval
<1>2. IsFiniteSet(SUBSET (1 .. n)) /\ Cardinality(SUBSET (1 .. n)) = 2^n
  BY <1>1, FS_SUBSET
<1>3. {} \in SUBSET (1 .. n)
  OBVIOUS
<1> QED  BY <1>2, <1>3, FS_CardinalityType, FS_EmptySet

(* The bytes of an integer are bytes. *)
LEMMA IntegerBytes ==
  ASSUME NEW v \in Int, NEW n \in Nat
  PROVE  ToBytes(v, n) \in [0 .. n - 1 -> Byte]
<1> SUFFICES ASSUME NEW j \in 0 .. n - 1
             PROVE  Low(Shr(v, ByteBits * j), ByteBits) \in Byte
  BY DEF ToBytes
<1> DEFINE p == 2^ByteBits
           d == 2^(ByteBits * j)
           q == v \div d
<1>1. p \in Nat \ {0} /\ d \in Nat \ {0}
  <2>1. ByteBits \in Nat /\ ByteBits * j \in Nat
    BY ByteBitsAssumption
  <2> QED  BY <2>1, PowerPositive
<1>2. 0 .. p - 1 \subseteq Byte
  BY ByteValues
<1> HIDE DEF p, d
<1>3. q \in Int
  BY <1>1
<1> HIDE DEF q
<1>4. q % p \in 0 .. p - 1
  BY <1>1, <1>3
<1> QED  BY <1>2, <1>4 DEF Low, Shr, p, d, q

(* A recursion that goes through 0 .. n has a solution.                    *)
Steps(n, V) == [1 .. n -> [V -> V]]
Run(n, V, b, F, f) == f \in [0 .. n -> V] /\ f[0] = b /\ \A i \in 1 .. n : f[i] = F[i][f[i - 1]]

LEMMA Iterates ==
  ASSUME NEW n \in Nat, NEW V, NEW b \in V, NEW F \in Steps(n, V)
  PROVE  \E f : Run(n, V, b, F, f)
<1> DEFINE Solves(m, f) == f[0] = b /\ \A i \in 1 .. m : f[i] = F[i][f[i - 1]]
           Solvable(m) == \E f \in [0 .. n -> V] : Solves(m, f)
           Bad == {m \in 0 .. n : ~Solvable(m)}
<1>1. Solvable(0)
  <2>1. [k \in 0 .. n |-> b] \in [0 .. n -> V] /\ Solves(0, [k \in 0 .. n |-> b])
    OBVIOUS
  <2> QED  BY <2>1
<1>2. ASSUME NEW m \in 1 .. n, Solvable(m - 1)
      PROVE  Solvable(m)
  <2>1. PICK f \in [0 .. n -> V] : Solves(m - 1, f)
    BY <1>2
  <2> DEFINE g == [f EXCEPT ![m] = F[m][f[m - 1]]]
  <2>2. g \in [0 .. n -> V] /\ g[m] = F[m][f[m - 1]] /\ \A i \in 0 .. m - 1 : g[i] = f[i]
    BY DEF Steps
  <2>3. Solves(m, g)
    <3> HIDE DEF g
    <3>1. g[0] = b /\ g[m] = F[m][g[m - 1]]
      BY <2>1, <2>2
    <3>2. \A i \in 1 .. m - 1 : g[i] = F[i][g[i - 1]]
      BY <2>1, <2>2
    <3>3. ASSUME NEW i \in 1 .. m PROVE g[i] = F[i][g[i - 1]]
      <4>1. i = m \/ i \in 1 .. m - 1
        OBVIOUS
      <4> QED  BY <3>1, <3>2, <4>1
    <3> QED  BY <3>1, <3>3
  <2> HIDE DEF g, Solves
  <2> QED  BY <2>2, <2>3
<1> HIDE DEF Solvable
<1>3. Bad = {}
  <2> SUFFICES ASSUME Bad # {} PROVE FALSE
    OBVIOUS
  <2>1. Bad \in SUBSET Nat
    OBVIOUS
  <2>2. PICK m \in Bad : \A k \in Bad : m <= k
    <3> HIDE DEF Bad
    <3> QED  BY <2>1, Least
  <2>3. m \in 1 .. n
    BY <1>1, <2>2
  <2>4. m - 1 \in 0 .. n /\ ~(m <= m - 1)
    BY <2>3
  <2>5. Solvable(m - 1)
    BY <2>2, <2>4
  <2> QED  BY <1>2, <2>3, <2>5
<1>4. Solvable(n)
  <2>1. n \in 0 .. n
    OBVIOUS
  <2>2. n \notin Bad
    <3> HIDE DEF Bad
    <3> QED  BY <1>3
  <2> QED  BY <2>1, <2>2
<1> QED  BY <1>4 DEF Solvable, Run

(* The concatenation of sequences, step by step.                           *)
Joins(seqs, f) == f[0] = <<>> /\ \A i \in DOMAIN seqs : f[i] = f[i - 1] \o seqs[i]

(* What sequences taken from a set closed under concatenation come to.     *)
LEMMA Flattened ==
  ASSUME NEW S, NEW C \in SUBSET Seq(S), <<>> \in C, \A s, t \in C : s \o t \in C,
         NEW seqs \in Seq(C)
  PROVE  /\ FlattenSeq(seqs) \in C
         /\ \E f : /\ Joins(seqs, f) /\ \A i \in 0 .. Len(seqs) : f[i] \in C
                   /\ Len(seqs) # 0 => FlattenSeq(seqs) = f[Len(seqs)]
<1> DEFINE n == Len(seqs)
           IsFlat(f) == f = [i \in 1 .. n |-> IF i = 1 THEN seqs[i] ELSE f[i - 1] \o seqs[i]]
           flatten == CHOOSE f : IsFlat(f)
           F == [i \in 1 .. n |-> [s \in C |-> s \o seqs[i]]]
<1>1. n \in Nat /\ \A i \in 1 .. n : seqs[i] \in C /\ seqs[i] \in Seq(S)
  OBVIOUS
<1>9. seqs \in Seq(Seq(S))
  <2>1. DOMAIN seqs = 1 .. n /\ seqs = [i \in 1 .. n |-> seqs[i]]
    OBVIOUS
  <2> QED  BY <1>1, <2>1
<1>2. F \in Steps(n, C)
  BY <1>1 DEF Steps
<1>3. PICK f : Run(n, C, <<>>, F, f)
  <2> DEFINE V == C
             empty == <<>>
  <2>1. n \in Nat /\ empty \in V /\ F \in Steps(n, V)
    BY <1>1, <1>2
  <2> HIDE DEF F, n, V, empty
  <2>2. \E f : Run(n, V, empty, F, f)
    BY <2>1, Iterates
  <2> QED  BY <2>2 DEF V, empty
<1>4. f[0] = <<>> /\ \A i \in 0 .. n : f[i] \in C
  BY <1>3 DEF Run
<1>5. ASSUME NEW i \in 1 .. n PROVE f[i] = f[i - 1] \o seqs[i]
  <2>1. i - 1 \in 0 .. n
    BY <1>1
  <2>2. f[i - 1] \in C /\ f[i] = F[i][f[i - 1]]
    BY <1>3, <1>4, <2>1 DEF Run
  <2> QED  BY <2>2
<1>6. Joins(seqs, f)
  <2>1. DOMAIN seqs = 1 .. n
    OBVIOUS
  <2> HIDE DEF n, F
  <2> QED  BY <1>4, <1>5, <2>1 DEF Joins
<1>7. CASE n = 0
  <2>1. FlattenSeq(seqs) = seqs /\ DOMAIN seqs = {}
    BY <1>1, <1>7 DEF FlattenSeq
  <2>2. seqs = <<>>
    <3> QED  BY <1>7, <1>9
  <2> QED  BY <1>4, <1>6, <1>7, <2>1, <2>2
<1>8. CASE n # 0
  <2> DEFINE g == [i \in 1 .. n |-> f[i]]
  <2>4. IsFlat(g)
    <3>1. ASSUME NEW i \in 1 .. n
          PROVE  f[i] = IF i = 1 THEN seqs[i] ELSE g[i - 1] \o seqs[i]
      <4>1. CASE i = 1
        <5>1. i - 1 = 0
          BY <4>1
        <5>2. f[i] = <<>> \o seqs[i]
          BY <1>4, <1>5, <5>1
        <5> QED  BY <1>1, <4>1, <5>2
      <4>2. CASE i # 1
        <5>1. i - 1 \in 1 .. n
          BY <4>2
        <5> QED  BY <1>5, <4>2, <5>1
      <4> QED  BY <4>1, <4>2
    <3> QED  BY <3>1
  <2>5. IsFlat(flatten)
    <3> HIDE DEF g, IsFlat
    <3> QED  BY <2>4
  <2>6. FlattenSeq(seqs) = flatten[n]
    BY <1>8 DEF FlattenSeq
  <2>7. ASSUME NEW i \in 1 .. n
        PROVE  flatten[i] = f[i]
    <3> DEFINE Bad == {k \in 1 .. n : flatten[k] # f[k]}
    <3> HIDE DEF flatten
    <3>1. CASE Bad = {}
      BY <3>1
    <3>2. CASE Bad # {}
      <4>1. PICK k \in Bad : \A j \in Bad : k <= j
        <5>1. Bad \in SUBSET Nat
          OBVIOUS
        <5> HIDE DEF Bad
        <5> QED  BY <3>2, <5>1, Least
      <4>2. flatten[k] = IF k = 1 THEN seqs[k] ELSE flatten[k - 1] \o seqs[k]
        BY <2>5
      <4>3. g[k] = IF k = 1 THEN seqs[k] ELSE g[k - 1] \o seqs[k]
        BY <2>4
      <4>4. CASE k = 1
        BY <4>2, <4>3, <4>4
      <4>5. CASE k # 1
        <5>1. k - 1 \in 1 .. n /\ ~(k <= k - 1)
          BY <4>5
        <5>2. flatten[k - 1] = f[k - 1]
          BY <4>1, <5>1
        <5> QED  BY <4>2, <4>3, <4>5, <5>1, <5>2
      <4> QED  BY <4>4, <4>5
    <3> QED  BY <3>1, <3>2
  <2>8. n \in 1 .. n
    BY <1>1, <1>8
  <2>9. FlattenSeq(seqs) = f[n]
    BY <2>6, <2>7, <2>8
  <2> HIDE DEF flatten, IsFlat, g, F
  <2>10. f[n] \in C
    BY <1>1, <1>4
  <2>11. \A i \in 0 .. Len(seqs) : f[i] \in C
    BY <1>4
  <2> QED  BY <1>6, <2>9, <2>10, <2>11
<1> QED  BY <1>7, <1>8

LEMMA Concatenated ==
  ASSUME NEW S, NEW s \in Seq(S), NEW t \in Seq(S)
  PROVE  /\ s \o t \in Seq(S) /\ DOMAIN (s \o t) = 1 .. Len(s) + Len(t)
         /\ Len(s) \in Nat /\ DOMAIN s = 1 .. Len(s) /\ Len(t) \in Nat /\ DOMAIN t = 1 .. Len(t)
         /\ \A p \in DOMAIN s : (s \o t)[p] = s[p]
         /\ \A p \in DOMAIN t : (s \o t)[Len(s) + p] = t[p]
OBVIOUS

(* What the second part of a concatenation holds, the whole holds. *)
LEMMA SecondHalf ==
  ASSUME NEW S, NEW s \in Seq(S), NEW t \in Seq(S), NEW x \in ToSet(t)
  PROVE  x \in ToSet(s \o t)
<1>1. PICK p \in DOMAIN t : x = t[p]
  BY DEF ToSet
<1>2. Len(s) + p \in DOMAIN (s \o t) /\ (s \o t)[Len(s) + p] = t[p]
  OBVIOUS
<1> QED  BY <1>1, <1>2 DEF ToSet

(* And what the first part holds. *)
LEMMA FirstHalf ==
  ASSUME NEW S, NEW s \in Seq(S), NEW t \in Seq(S), NEW x \in ToSet(s)
  PROVE  x \in ToSet(s \o t)
<1>1. PICK p \in DOMAIN s : x = s[p]
  BY DEF ToSet
<1>2. p \in DOMAIN (s \o t) /\ (s \o t)[p] = s[p]
  OBVIOUS
<1> QED  BY <1>1, <1>2 DEF ToSet

(* Nothing gets lost in a concatenation. *)
LEMMA FlattenedHolds ==
  ASSUME NEW S, NEW seqs \in Seq(Seq(S)),
         NEW m \in DOMAIN seqs, NEW x \in ToSet(seqs[m])
  PROVE  x \in ToSet(FlattenSeq(seqs))
<1> DEFINE n == Len(seqs)
<1>1. PICK f : /\ Joins(seqs, f) /\ \A i \in 0 .. n : f[i] \in Seq(S)
               /\ FlattenSeq(seqs) = f[n]
  <2>1. <<>> \in Seq(S) /\ \A s, t \in Seq(S) : s \o t \in Seq(S)
    OBVIOUS
  <2> DEFINE C == Seq(S)
  <2>2. C \in SUBSET Seq(S) /\ <<>> \in C /\ (\A s, t \in C : s \o t \in C)
        /\ seqs \in Seq(C)
    BY <2>1
  <2>3. n # 0
    OBVIOUS
  <2> HIDE DEF C, n
  <2>4. \E f : /\ Joins(seqs, f) /\ \A i \in 0 .. Len(seqs) : f[i] \in C
               /\ Len(seqs) # 0 => FlattenSeq(seqs) = f[Len(seqs)]
    BY <2>2, Flattened
  <2> QED  BY <2>3, <2>4 DEF n, C
<1>2. ASSUME NEW i \in 1 .. n
      PROVE  /\ f[i] = f[i - 1] \o seqs[i] /\ f[i] \in Seq(S) /\ f[i - 1] \in Seq(S)
             /\ seqs[i] \in Seq(S)
  <2>1. i - 1 \in 0 .. n /\ i \in 0 .. n
    OBVIOUS
  <2>2. i \in DOMAIN seqs /\ seqs[i] \in Seq(S)
    OBVIOUS
  <2>3. f[i] \in Seq(S) /\ f[i - 1] \in Seq(S)
    <3> HIDE DEF n
    <3> QED  BY <1>1, <2>1
  <2> QED  BY <1>1, <2>2, <2>3 DEF Joins
<1> DEFINE Bad == {i \in m .. n : x \notin ToSet(f[i])}
<1>3. Bad = {}
  <2> SUFFICES ASSUME Bad # {} PROVE FALSE
    OBVIOUS
  <2>1. PICK k \in Bad : \A j \in Bad : k <= j
    <3>1. Bad \in SUBSET Nat
      OBVIOUS
    <3> HIDE DEF Bad
    <3> QED  BY <3>1, Least
  <2>5. m \in 1 .. n /\ k \in 1 .. n
    <3>1. m \in 1 .. n
      OBVIOUS
    <3> QED  BY <3>1
  <2>2. k \in 1 .. n /\ f[k] = f[k - 1] \o seqs[k] /\ f[k - 1] \in Seq(S) /\ seqs[k] \in Seq(S)
    BY <1>2, <2>5
  <2>3. CASE k = m
    <3>1. f[k - 1] \in Seq(S) /\ seqs[k] \in Seq(S) /\ x \in ToSet(seqs[k])
      <4>1. seqs[k] = seqs[m]
        BY <2>3
      <4> QED  BY <2>2, <4>1
    <3>2. x \in ToSet(f[k - 1] \o seqs[k])
      <4> HIDE DEF n, Bad
      <4> QED  BY <3>1, SecondHalf, ZenonT(60)
    <3>3. x \in ToSet(f[k])
      BY <2>2, <3>2, ZenonT(60)
    <3> QED  BY <3>3
  <2>4. CASE k # m
    <3>1. k - 1 \in m .. n /\ ~(k <= k - 1)
      BY <2>4
    <3>2. x \in ToSet(f[k - 1])
      BY <2>1, <3>1
    <3>3. f[k - 1] \in Seq(S) /\ seqs[k] \in Seq(S) /\ f[k] = f[k - 1] \o seqs[k]
      BY <2>2
    <3> HIDE DEF n, Bad
    <3>4. x \in ToSet(f[k - 1] \o seqs[k])
      BY <3>2, <3>3, FirstHalf, ZenonT(30)
    <3>5. x \in ToSet(f[k])
      BY <3>3, <3>4, ZenonT(30)
    <3>6. k \in Bad => x \notin ToSet(f[k])
      BY DEF Bad
    <3> QED  BY <2>1, <3>5, <3>6
  <2> QED  BY <2>3, <2>4
<1>4. n \in m .. n
  OBVIOUS
<1> QED  BY <1>1, <1>3, <1>4

(* The bias of a load. *)
PlanBias(l) ==
  IF l.file.magic \in MachOMagic THEN macho_bias(ImageOf(l)) ELSE load_bias(ImageOf(l))

Sound(l) == InRange(ImageOf(l), PlanBias(l))

LEMMA FileFacts ==
  ASSUME NEW l \in Loads, Parses(l.file)
  PROVE  /\ IsImage(ImageOf(l)) /\ l.args \in Seq(Seq(Byte)) /\ l.path \in Seq(Byte)
         /\ StackPointer(l) \in Nat /\ StackPointer(l) >= DirectBase
         /\ PlanBias(l) \in Nat
<1>1. PlanBias(l) \in Nat
  BY ElfAssumption, MachOAssumption DEF PlanBias, macho_bias, load_bias
<1> QED  BY <1>1, FileAssumption

(* No address of the load leaves 64 bits.                                  *)
Fitting(l) ==
  IF l.file.magic \in MachOMagic THEN MachOFits(ImageOf(l)) ELSE ElfFits(ImageOf(l))

(* A vector of zeros or an index that cannot be had.                       *)
Unfit(l) ==
  \/ l.file.magic \notin MachOMagic /\ l.file.size < HeaderEnd
  \/ \E i \in DOMAIN ImageOf(l).segs :
       ImageOf(l).segs[i].size - Len(ImageOf(l).segs[i].data) > AllocMax

LEMMA FittingSegments ==
  ASSUME NEW l, Fitting(l)
  PROVE  SegmentsFit(ImageOf(l), PlanBias(l))
BY DEF Fitting, MachOFits, ElfFits, PlanBias

LEMMA WordFacts ==
  /\ WordTop \in Nat \ {0} /\ AddrTop \in Nat /\ WordTop = AddrTop + PAGE_SIZE
  /\ PAGE_SIZE \in Nat \ {0} /\ DirectBase \in Nat /\ DirectBase < AddrTop
  /\ StackTop \in Nat /\ StackTop <= AddrTop /\ HostSize \in Nat /\ HostSize <= AddrTop
<1>1. PAGE_SIZE \in Nat \ {0} /\ AddrTop \in Nat /\ DirectBase \in Nat /\ HostSize \in Nat
  BY PageAssumption, AddressAssumption, HostAssumption
<1>2. StackTop \in Nat /\ StackSize \in Nat \ {0} /\ DirectBase + StackSize <= StackTop
      /\ StackTop <= AddrTop /\ HostSize <= AddrTop
  BY RegionAssumption
<1> QED  BY <1>1, <1>2 DEF WordTop

LEMMA AsWordIs ==
  ASSUME NEW v \in Int
  PROVE  /\ AsWord(v) \in Nat /\ AsWord(v) < WordTop
         /\ v >= 0 => AsWord(v) <= v
         /\ v >= 0 /\ v < WordTop => AsWord(v) = v
<1> DEFINE w == WordTop
<1>1. w \in Nat \ {0}
  BY WordFacts
<1> HIDE DEF w
<1>2. v % w \in 0 .. w - 1
  BY <1>1
<1>3. v >= 0 => v % w <= v
  BY <1>1
<1>4. v >= 0 /\ v < w => v % w = v
  BY <1>1
<1> QED  BY <1>1, <1>2, <1>3, <1>4 DEF AsWord, w

-----------------------------------------------------------------------------
(* The calls of a plan: mappings that must succeed are the image's or the  *)
(* stack's, and of a sound image only the stack is written at addresses of *)
(* the host; of one whose addresses fit no mapping ends past them.         *)
Places(l) ==
  {StackTop - StackSize}
  \cup {align_down_page(AsWord(ImageOf(l).segs[i].addr + PlanBias(l))) : i \in DOMAIN ImageOf(l).segs}

Maps(l) ==
  {c \in [op : {"map"}, addr : Nat, size : Nat, must : BOOLEAN] :
     /\ c.must => c.addr \in Places(l)
     /\ Sound(l) => c.addr # 0 /\ (c.addr = StackTop - StackSize => c.size = StackSize)
     /\ Fitting(l) => c.addr + c.size < WordTop}

AnyWrite == UNION {[op : {"write"}, addr : Int, len : {n}, data : [0 .. n - 1 -> Byte], must : BOOLEAN] : n \in Nat}

OnStack(c, lo) == lo <= c.addr /\ c.addr + c.len <= StackTop

Writes(l) ==
  {c \in AnyWrite : c.addr \in Nat /\ (Sound(l) => c.addr < DirectBase \/ OnStack(c, StackPointer(l)))}

Rebases(l) ==
  {c \in [op : {"rebase"}, addr : Nat, bias : Nat] : Sound(l) => c.addr < DirectBase}

Overflows(l) == {c \in {Overflow} : ~Fitting(l)}
Panics(l) == {c \in {Panic} : Unfit(l)}

Steady(l) == Maps(l) \cup Writes(l) \cup Rebases(l) \cup Overflows(l) \cup Panics(l) \cup {Fail}

(* A write that must succeed, below the host's addresses, comes after the  *)
(* mapping that holds its range.                                           *)
NeedsMap(c) == c.op = "write" /\ c.must /\ c.addr < DirectBase
Backs(m, c) ==
  m.op = "map" /\ m.must /\ m.addr <= c.addr /\ c.addr + c.len <= m.addr + m.size

Fronted(s) == \A k \in DOMAIN s : NeedsMap(s[k]) => \E j \in 1 .. k - 1 : Backs(s[j], s[k])

Good(l) == {s \in Seq(Steady(l)) : Sound(l) => Fronted(s)}

LEMMA GoodEmpty == \A l : <<>> \in Good(l)
BY DEF Good, Fronted

LEMMA FrontedJoins ==
  ASSUME NEW S, NEW s \in Seq(S), NEW t \in Seq(S), Fronted(s), Fronted(t)
  PROVE  Fronted(s \o t)
<1> SUFFICES ASSUME NEW k \in DOMAIN (s \o t), NeedsMap((s \o t)[k])
             PROVE  \E j \in 1 .. k - 1 : Backs((s \o t)[j], (s \o t)[k])
  BY DEF Fronted
<1> HIDE DEF NeedsMap, Backs
<1>1. /\ DOMAIN (s \o t) = 1 .. Len(s) + Len(t)
      /\ Len(s) \in Nat /\ DOMAIN s = 1 .. Len(s) /\ Len(t) \in Nat /\ DOMAIN t = 1 .. Len(t)
      /\ \A p \in DOMAIN s : (s \o t)[p] = s[p]
      /\ \A p \in DOMAIN t : (s \o t)[Len(s) + p] = t[p]
  BY Concatenated
<1> DEFINE u == s \o t
<1> HIDE DEF u
<1>2. CASE k <= Len(s)
  <2>1. k \in DOMAIN s /\ u[k] = s[k] /\ NeedsMap(s[k])
    BY <1>1, <1>2 DEF u
  <2>2. PICK j \in 1 .. k - 1 : Backs(s[j], s[k])
    BY <2>1 DEF Fronted
  <2>3. j \in DOMAIN s /\ u[j] = s[j]
    BY <1>1, <1>2, <2>1 DEF u
  <2> QED  BY <2>1, <2>2, <2>3 DEF u
<1>3. CASE k > Len(s)
  <2> DEFINE p == k - Len(s)
  <2>1. p \in DOMAIN t /\ k = Len(s) + p
    BY <1>1, <1>3
  <2> HIDE DEF p
  <2>2. u[k] = t[p] /\ NeedsMap(t[p])
    BY <1>1, <2>1 DEF u
  <2>3. PICK j \in 1 .. p - 1 : Backs(t[j], t[p])
    BY <2>1, <2>2 DEF Fronted
  <2>4. j \in DOMAIN t /\ Len(s) + j \in 1 .. k - 1
    BY <1>1, <2>1, <2>3
  <2>5. u[Len(s) + j] = t[j]
    BY <1>1, <2>4 DEF u
  <2> QED  BY <2>2, <2>3, <2>4, <2>5 DEF u
<1> QED  BY <1>1, <1>2, <1>3

LEMMA GoodJoins ==
  ASSUME NEW l, NEW s \in Good(l), NEW t \in Good(l)
  PROVE  s \o t \in Good(l)
<1> DEFINE S == Steady(l)
<1>1. s \in Seq(S) /\ t \in Seq(S)
  BY DEF Good
<1> HIDE DEF S
<1>2. s \o t \in Seq(S)
  BY <1>1
<1>3. Fronted(s) /\ Fronted(t) => Fronted(s \o t)
  BY <1>1, FrontedJoins
<1> QED  BY <1>2, <1>3 DEF Good, S

(* Calls that need no mapping. *)
LEMMA GoodPlain ==
  ASSUME NEW l, NEW s \in Seq(Steady(l)), \A k \in DOMAIN s : ~NeedsMap(s[k])
  PROVE  s \in Good(l)
BY DEF Good, Fronted

LEMMA GoodOne ==
  ASSUME NEW l, NEW c \in Steady(l), ~NeedsMap(c)
  PROVE  <<c>> \in Good(l)
<1> DEFINE S == Steady(l)
           s == <<c>>
<1> HIDE DEF S
<1>1. s \in Seq(S) /\ \A k \in DOMAIN s : s[k] = c
  BY DEF S
<1> HIDE DEF s
<1>2. \A k \in DOMAIN s : ~NeedsMap(s[k])
  BY <1>1
<1>3. s \in Good(l)
  BY <1>1, <1>2, GoodPlain DEF S
<1> QED  BY <1>3 DEF s

LEMMA GoodTwo ==
  ASSUME NEW l, NEW c \in Steady(l), ~NeedsMap(c), NEW d \in Steady(l), ~NeedsMap(d)
  PROVE  <<c, d>> \in Good(l)
<1> DEFINE S == Steady(l)
           s == <<c, d>>
<1> HIDE DEF S
<1>1. s \in Seq(S) /\ \A k \in DOMAIN s : s[k] = c \/ s[k] = d
  BY DEF S
<1> HIDE DEF s
<1>2. \A k \in DOMAIN s : ~NeedsMap(s[k])
  BY <1>1
<1>3. s \in Good(l)
  BY <1>1, <1>2, GoodPlain DEF S
<1> QED  BY <1>3 DEF s

(* Writes that a mapping among the calls before them holds.                *)
LEMMA GoodAfter ==
  ASSUME NEW l, NEW s \in Good(l), NEW m \in ToSet(s), NEW t \in Seq(Steady(l)),
         Sound(l) => \A k \in DOMAIN t : NeedsMap(t[k]) => Backs(m, t[k])
  PROVE  s \o t \in Good(l)
<1> DEFINE S == Steady(l)
           u == s \o t
<1>1. s \in Seq(S) /\ t \in Seq(S) /\ (Sound(l) => Fronted(s))
  BY DEF Good
<1> HIDE DEF S
<1>2. /\ u \in Seq(S) /\ DOMAIN u = 1 .. Len(s) + Len(t)
      /\ Len(s) \in Nat /\ DOMAIN s = 1 .. Len(s) /\ Len(t) \in Nat /\ DOMAIN t = 1 .. Len(t)
      /\ \A p \in DOMAIN s : u[p] = s[p]
      /\ \A p \in DOMAIN t : u[Len(s) + p] = t[p]
  BY <1>1, Concatenated
<1> HIDE DEF u
<1>3. ASSUME Sound(l), NEW k \in DOMAIN u, NeedsMap(u[k])
      PROVE  \E j \in 1 .. k - 1 : Backs(u[j], u[k])
  <2>1. CASE k <= Len(s)
    <3>1. k \in DOMAIN s /\ u[k] = s[k]
      BY <1>2, <2>1
    <3>2. PICK j \in 1 .. k - 1 : Backs(s[j], s[k])
      BY <1>1, <1>3, <3>1 DEF Fronted
    <3>3. j \in DOMAIN s /\ u[j] = s[j]
      BY <1>2, <3>1
    <3> QED  BY <3>1, <3>2, <3>3
  <2>2. CASE ~(k <= Len(s))
    <3> DEFINE p == k - Len(s)
    <3>1. p \in DOMAIN t /\ k = Len(s) + p
      BY <1>2, <2>2
    <3> HIDE DEF p
    <3>2. u[k] = t[p]
      BY <1>2, <3>1
    <3>3. Backs(m, u[k])
      BY <1>3, <3>1, <3>2
    <3>4. PICK j \in DOMAIN s : m = s[j]
      BY DEF ToSet
    <3>5. j \in 1 .. k - 1 /\ u[j] = m
      BY <1>2, <2>2, <3>4
    <3> QED  BY <3>3, <3>5
  <2> QED  BY <2>1, <2>2
<1> QED  BY <1>2, <1>3 DEF Good, Fronted, S, u

(* An addition that fits if the addresses of the load do.                  *)
LEMMA CheckedGood ==
  ASSUME NEW l, NEW v \in Nat, Fitting(l) => v < WordTop
  PROVE  Checked(v) \in Good(l)
<1>1. CASE v < WordTop
  BY <1>1, GoodEmpty DEF Checked
<1>2. CASE ~(v < WordTop)
  <2>1. Overflow \in Steady(l)
    BY <1>2 DEF Steady, Overflows
  <2>2. ~NeedsMap(Overflow)
    BY DEF NeedsMap, Overflow
  <2> HIDE DEF Overflow
  <2>3. <<Overflow>> \in Good(l)
    BY <2>1, <2>2, GoodOne
  <2> QED  BY <1>2, <2>3 DEF Checked
<1> QED  BY <1>1, <1>2

LEMMA PanicGood ==
  ASSUME NEW l, Unfit(l)
  PROVE  Panic \in Steady(l) /\ ~NeedsMap(Panic) /\ <<Panic>> \in Good(l)
<1>1. Panic \in Steady(l)
  BY DEF Steady, Panics
<1>2. ~NeedsMap(Panic)
  BY DEF NeedsMap, Panic
<1> HIDE DEF Panic
<1> QED  BY <1>1, <1>2, GoodOne

LEMMA SeqEqual ==
  ASSUME NEW S, NEW s \in Seq(S), NEW t \in Seq(S), Len(s) = Len(t), \A i \in 1 .. Len(s) : s[i] = t[i]
  PROVE  s = t
OBVIOUS

LEMMA Literals ==
  ASSUME NEW a, NEW b, NEW c
  PROVE  <<a, b>> \o <<c>> = <<a, b, c>> /\ <<a, b>> \o <<>> = <<a, b>>
<1> DEFINE S == {a, b, c}
           s == <<a, b>>
           t == <<c>>
           u == <<a, b, c>>
<1>1. s \in Seq(S) /\ t \in Seq(S) /\ u \in Seq(S) /\ Len(s) = 2 /\ Len(t) = 1 /\ Len(u) = 3
  OBVIOUS
<1>2. s \o t \in Seq(S) /\ Len(s \o t) = 3
  BY <1>1
<1>3. (s \o t)[1] = u[1] /\ (s \o t)[2] = u[2]
  BY <1>1
<1>4. (s \o t)[3] = t[1]
  BY <1>1
<1>5. s \o t = u
  <2>1. \A i \in 1 .. 3 : i = 1 \/ i = 2 \/ i = 3
    OBVIOUS
  <2>2. u[3] = t[1]
    OBVIOUS
  <2>3. \A i \in 1 .. 3 : (s \o t)[i] = u[i]
    BY <1>3, <1>4, <2>1, <2>2
  <2> DEFINE v == s \o t
  <2> HIDE DEF s, t, u, v
  <2>4. v \in Seq(S) /\ u \in Seq(S) /\ Len(v) = Len(u) /\ \A i \in 1 .. Len(v) : v[i] = u[i]
    BY <1>1, <1>2, <2>3 DEF v
  <2>5. v = u
    <3> HIDE DEF S
    <3> QED  BY <2>4, SeqEqual
  <2> QED  BY <2>5 DEF v
<1>6. s \o <<>> = s
  BY <1>1
<1> QED  BY <1>5, <1>6

LEMMA GoodFlat ==
  ASSUME NEW l, NEW seqs \in Seq(Good(l))
  PROVE  FlattenSeq(seqs) \in Good(l)
<1> DEFINE S == Steady(l)
           C == Good(l)
<1>1. C \in SUBSET Seq(S) /\ <<>> \in C /\ (\A s, t \in C : s \o t \in C) /\ seqs \in Seq(C)
  BY GoodEmpty, GoodJoins DEF Good
<1> HIDE DEF S, C
<1>2. FlattenSeq(seqs) \in C
  BY <1>1, Flattened
<1> QED  BY <1>2 DEF C

-----------------------------------------------------------------------------
LEMMA WriteTyped ==
  ASSUME NEW addr \in Int, NEW bytes \in Seq(Byte), NEW must \in BOOLEAN
  PROVE  /\ Write(addr, bytes, must) \in AnyWrite
         /\ Write(addr, bytes, must).addr = addr /\ Write(addr, bytes, must).len = Len(bytes)
         /\ Write(addr, bytes, must).must = must /\ Write(addr, bytes, must).op = "write"
<1>1. Len(bytes) \in Nat /\ Indexed(bytes) \in [0 .. Len(bytes) - 1 -> Byte]
  BY DEF Indexed
<1> QED  BY <1>1 DEF Write, AnyWrite

LEMMA WriteIntTyped ==
  ASSUME NEW addr \in Int, NEW v \in Int, NEW n \in Nat, NEW must \in BOOLEAN
  PROVE  /\ WriteInt(addr, v, n, must) \in AnyWrite
         /\ WriteInt(addr, v, n, must).addr = addr /\ WriteInt(addr, v, n, must).len = n
         /\ WriteInt(addr, v, n, must).must = must /\ WriteInt(addr, v, n, must).op = "write"
<1>1. ToBytes(v, n) \in [0 .. n - 1 -> Byte]
  BY IntegerBytes
<1> QED  BY <1>1 DEF WriteInt, AnyWrite

(* Zeros behind the data, which the mapping map is to hold.                *)
LEMMA ZerosGood ==
  ASSUME NEW l \in Loads, NEW seg \in FileSegment, NEW vaddr \in Nat, NEW map,
         Fitting(l) => vaddr + seg.size < WordTop,
         seg.size - Len(seg.data) > AllocMax => Unfit(l),
         Sound(l) => vaddr + seg.size <= DirectBase /\ map.op = "map" /\ map.must
                     /\ map.addr \in Nat /\ map.addr <= vaddr
                     /\ map.size \in Nat /\ vaddr + seg.size <= map.addr + map.size
  PROVE  /\ ZerosPlan(seg, vaddr) \in Seq(Steady(l))
         /\ Sound(l) => \A k \in DOMAIN ZerosPlan(seg, vaddr) :
                          NeedsMap(ZerosPlan(seg, vaddr)[k]) => Backs(map, ZerosPlan(seg, vaddr)[k])
<1> DEFINE z == ZerosPlan(seg, vaddr)
           filled == Len(seg.data)
           n == seg.size - filled
           zeros == Zeros(n)
           over == vaddr + filled
           at == AsWord(over)
           must == TRUE
           rest == Write(at, zeros, must)
           S == Steady(l)
           size == seg.size
<1>1. size \in Nat /\ filled \in Nat
  BY DEF FileSegment
<1>2. CASE size <= filled
  <2>1. z = <<>>
    BY <1>2 DEF ZerosPlan
  <2> QED  BY <2>1
<1>3. CASE ~(size <= filled) /\ n > AllocMax
  <2>1. z = <<Panic>>
    BY <1>3 DEF ZerosPlan
  <2>2. Panic \in S /\ ~NeedsMap(Panic)
    BY <1>3, PanicGood
  <2> HIDE DEF S, Panic
  <2>3. <<Panic>> \in Seq(S) /\ \A k \in DOMAIN <<Panic>> : <<Panic>>[k] = Panic
    BY <2>2
  <2> QED  BY <2>1, <2>2, <2>3 DEF S
<1>4. CASE ~(size <= filled) /\ ~(n > AllocMax)
  <2>1. z = Checked(over) \o <<rest>>
    BY <1>4 DEF ZerosPlan
  <2>2. n \in Nat \ {0} /\ over \in Nat
    BY <1>1, <1>4
  <2>3. zeros \in Seq(Byte) /\ Len(zeros) = n
    <3> HIDE DEF n
    <3> QED  BY <2>2, ByteAssumption DEF Zeros
  <2>4. at \in Nat /\ (over < WordTop => at = over)
    <3> HIDE DEF over
    <3> QED  BY <2>2, AsWordIs
  <2>5. rest \in AnyWrite /\ rest.addr = at /\ rest.len = n /\ rest.must = must /\ rest.op = "write"
    <3> HIDE DEF at, zeros, n
    <3>1. at \in Int /\ must \in BOOLEAN
      BY <2>4
    <3> HIDE DEF must
    <3> QED  BY <2>3, <3>1, WriteTyped
  <2>6. over + n = vaddr + size /\ over <= vaddr + size
    BY <1>1, <1>4
  <2>7. Sound(l) => at = over
    <3>1. Sound(l) => vaddr + size <= DirectBase
      OBVIOUS
    <3> HIDE DEF over, at, size
    <3> QED  BY <1>1, <2>2, <2>4, <2>6, <3>1, WordFacts
  <2> HIDE DEF rest, at, zeros
  <2>8. rest \in S
    <3>1. Sound(l) => rest.addr < DirectBase
      <4>1. Sound(l) => vaddr + size <= DirectBase
        OBVIOUS
      <4> HIDE DEF over, size, n
      <4> QED  BY <1>1, <2>2, <2>5, <2>6, <2>7, <4>1, WordFacts
    <3>2. rest \in Writes(l)
      BY <2>4, <2>5, <3>1 DEF Writes
    <3> QED  BY <3>2 DEF Steady
  <2>9. Sound(l) => Backs(map, rest)
    <3> HIDE DEF n, filled, size
    <3>1. over >= vaddr
      BY <1>1
    <3> HIDE DEF over
    <3> QED  BY <1>1, <2>2, <2>5, <2>6, <2>7, <3>1 DEF Backs, size
  <2>10. Fitting(l) => over < WordTop
    <3> HIDE DEF over, size
    <3> QED  BY <1>1, <2>2, <2>6, WordFacts DEF size
  <2> HIDE DEF n, filled, over, size
  <2>11. CASE over < WordTop
    <3>1. z = <<rest>>
      <4>1. Checked(over) = <<>>
        BY <2>11 DEF Checked
      <4>2. <<>> \o <<rest>> = <<rest>>
        BY <2>8 DEF S
      <4> QED  BY <2>1, <4>1, <4>2
    <3> HIDE DEF S, z
    <3>2. z \in Seq(S) /\ \A k \in DOMAIN z : z[k] = rest
      BY <2>8, <3>1
    <3> QED  BY <2>9, <3>2 DEF S, z
  <2>12. CASE ~(over < WordTop)
    <3>1. Checked(over) = <<Overflow>>
      BY <2>12 DEF Checked
    <3>2. Overflow \in S /\ ~NeedsMap(Overflow)
      BY <2>10, <2>12 DEF Steady, Overflows, NeedsMap, Overflow
    <3>3. z = <<Overflow>> \o <<rest>>
      BY <2>1, <3>1
    <3> HIDE DEF S, z, Overflow
    <3>4. z \in Seq(S) /\ \A k \in DOMAIN z : z[k] = Overflow \/ z[k] = rest
      <4> DEFINE u == <<Overflow>>
                 v == <<rest>>
      <4>1. u \in Seq(S) /\ v \in Seq(S) /\ Len(u) = 1 /\ Len(v) = 1 /\ u[1] = Overflow /\ v[1] = rest
        BY <2>8, <3>2
      <4> HIDE DEF u, v
      <4>2. z = u \o v
        BY <3>3 DEF u, v
      <4>4. /\ u \o v \in Seq(S) /\ DOMAIN (u \o v) = 1 .. Len(u) + Len(v)
            /\ DOMAIN u = 1 .. Len(u) /\ DOMAIN v = 1 .. Len(v)
            /\ (\A p \in DOMAIN u : (u \o v)[p] = u[p])
            /\ \A p \in DOMAIN v : (u \o v)[Len(u) + p] = v[p]
        <5>1. u \in Seq(S) /\ v \in Seq(S)
          BY <4>1
        <5> QED  BY <5>1, Concatenated
      <4>5. 1 \in DOMAIN u /\ 1 \in DOMAIN v /\ 1 + 1 = 2
        BY <4>1, <4>4
      <4>3. z \in Seq(S) /\ DOMAIN z = 1 .. 2 /\ z[1] = u[1] /\ z[2] = v[1]
        BY <4>1, <4>2, <4>4, <4>5
      <4> QED  BY <4>1, <4>3
    <3> QED  BY <2>9, <3>2, <3>4 DEF S, z
  <2> QED  BY <2>11, <2>12
<1> QED  BY <1>2, <1>3, <1>4

LEMMA SegmentGood ==
  ASSUME NEW l \in Loads, Parses(l.file), NEW i \in DOMAIN ImageOf(l).segs
  PROVE  SegmentPlan(ImageOf(l).segs[i], PlanBias(l)) \in Good(l)
<1> DEFINE seg == ImageOf(l).segs[i]
           bias == PlanBias(l)
           linked == seg.addr + bias
           vaddr == AsWord(linked)
           aligned == align_down_page(vaddr)
           n == seg.size + (vaddr - aligned)
           pages == n + PAGE_SIZE - 1
           size == align_down_page(AsWord(pages))
           map == Map(aligned, size, TRUE)
           data == Write(vaddr, seg.data, TRUE)
           len == seg.size
<1>1. seg \in FileSegment /\ bias \in Nat
  BY FileFacts DEF IsImage
<1>2. seg.addr \in Nat /\ len \in Nat /\ seg.data \in Seq(Byte) /\ Len(seg.data) \in Nat
  BY <1>1 DEF FileSegment
<1>3. linked \in Nat
  BY <1>1, <1>2
<1>4. vaddr \in Nat /\ vaddr <= linked /\ (linked < WordTop => vaddr = linked)
  <2> HIDE DEF linked
  <2> QED  BY <1>3, AsWordIs
<1>5. Fitting(l) => linked + len <= AddrTop
  BY FittingSegments DEF SegmentsFit
<1>6. Sound(l) /\ len # 0 => linked >= PAGE_SIZE /\ linked + len <= DirectBase /\ Len(seg.data) <= len
  BY DEF Sound, InRange
<1>7. aligned \in Places(l)
  BY DEF Places
<1>8. len - Len(seg.data) > AllocMax => Unfit(l)
  BY DEF Unfit
<1>9. SegmentPlan(seg, bias) =
        Checked(linked) \o
          IF len = 0 THEN <<>>
          ELSE IF ~seg.readable THEN <<Fail>>
          ELSE Checked(pages) \o <<map, data>> \o ZerosPlan(seg, vaddr) \o Checked(vaddr + len)
  BY DEF SegmentPlan
<1> HIDE DEF linked, vaddr, bias, seg
<1>10. aligned \in Nat /\ aligned <= vaddr
  BY <1>4, PageBounds
<1> HIDE DEF aligned
<1>11. n \in Nat /\ pages \in Nat
  BY <1>2, <1>4, <1>10, WordFacts
<1>12. size \in Nat /\ size <= pages /\ (pages < WordTop => size = align_up_page(n))
  <2> DEFINE p == AsWord(pages)
  <2>1. p \in Nat /\ p <= pages /\ (pages < WordTop => p = pages)
    <3> HIDE DEF pages
    <3> QED  BY <1>11, AsWordIs
  <2> HIDE DEF p, pages
  <2>2. align_down_page(p) \in Nat /\ align_down_page(p) <= p
    BY <2>1, PageBounds
  <2>3. align_down_page(p) <= pages
    BY <1>11, <2>1, <2>2
  <2> QED  BY <2>1, <2>2, <2>3 DEF p, pages, align_up_page
<1> HIDE DEF size
<1>13. Fitting(l) => /\ linked < WordTop /\ pages < WordTop /\ vaddr + len < WordTop
                     /\ aligned + size < WordTop
  <2> SUFFICES ASSUME Fitting(l)
               PROVE  /\ linked < WordTop /\ pages < WordTop /\ vaddr + len < WordTop
                      /\ aligned + size < WordTop
    OBVIOUS
  <2>1. linked + len <= AddrTop /\ linked < WordTop
    BY <1>2, <1>3, <1>5, WordFacts
  <2>2. vaddr = linked
    BY <1>4, <2>1
  <2>3. vaddr + len < WordTop /\ aligned + n = vaddr + len
    BY <1>2, <1>3, <1>10, <2>1, <2>2, WordFacts
  <2> HIDE DEF n, len
  <2>4. n <= vaddr + len
    BY <1>2, <1>4, <1>10, <1>11, <2>3
  <2>5. pages < WordTop
    BY <1>2, <1>3, <1>11, <2>1, <2>2, <2>4, WordFacts
  <2>6. aligned + size <= aligned + n + PAGE_SIZE - 1
    BY <1>10, <1>11, <1>12, WordFacts
  <2> QED  BY <1>2, <1>3, <1>10, <1>11, <1>12, <2>1, <2>2, <2>3, <2>5, <2>6, WordFacts
<1>14. ASSUME Sound(l), len # 0
       PROVE  /\ vaddr = linked /\ aligned # 0 /\ aligned # StackTop - StackSize
              /\ vaddr + len <= DirectBase /\ vaddr + len <= aligned + size
  <2>1. linked >= PAGE_SIZE /\ linked + len <= DirectBase
    BY <1>6, <1>14
  <2>2. vaddr = linked
    BY <1>2, <1>3, <1>4, <2>1, WordFacts
  <2>3. aligned # 0
    <3>1. vaddr >= PAGE_SIZE
      BY <2>1, <2>2
    <3> QED  BY <1>4, <3>1, PageAssumption DEF align_down_page, aligned
  <2>4. aligned < DirectBase
    BY <1>2, <1>3, <1>10, <1>14, <2>1, <2>2, WordFacts
  <2>5. aligned # StackTop - StackSize
    BY <1>10, <2>4, RegionAssumption, WordFacts
  <2>6. n <= vaddr + len /\ aligned + n = vaddr + len
    BY <1>2, <1>4, <1>10
  <2> HIDE DEF n, len
  <2>7. pages < WordTop
    BY <1>2, <1>3, <1>11, <2>1, <2>2, <2>6, WordFacts
  <2>8. n <= size
    BY <1>11, <1>12, <2>7, PageBounds
  <2> QED  BY <1>2, <1>3, <1>4, <1>10, <1>11, <1>12, <2>1, <2>2, <2>3, <2>5, <2>6, <2>8
<1>15. map.op = "map" /\ map.must /\ map.addr = aligned /\ map.size = size
  BY DEF Map
<1>16. len # 0 => map \in Steady(l) /\ ~NeedsMap(map)
  <2>1. len # 0 => map \in Maps(l)
    <3> HIDE DEF pages, n
    <3> QED  BY <1>7, <1>10, <1>12, <1>13, <1>14 DEF Maps, Map
  <2>2. ~NeedsMap(map)
    BY <1>15 DEF NeedsMap
  <2> HIDE DEF map
  <2> QED  BY <2>1, <2>2 DEF Steady
<1>17. data \in AnyWrite /\ data.addr = vaddr /\ data.len = Len(seg.data) /\ data.op = "write"
  <2> DEFINE d == seg.data
             must == TRUE
  <2>1. d \in Seq(Byte) /\ vaddr \in Int /\ must \in BOOLEAN
    BY <1>2, <1>4
  <2> HIDE DEF d, must
  <2>2. LET w == Write(vaddr, d, must)
        IN  w \in AnyWrite /\ w.addr = vaddr /\ w.len = Len(d) /\ w.op = "write"
    BY <2>1, WriteTyped
  <2> QED  BY <2>2 DEF d, must
<1> HIDE DEF map, data, pages, n
<1>18. len # 0 => data \in Steady(l) /\ (Sound(l) => Backs(map, data))
  <2>1. len # 0 /\ Sound(l) => vaddr < DirectBase
    BY <1>2, <1>4, <1>14, WordFacts
  <2>2. len # 0 => data \in Writes(l)
    BY <1>4, <1>17, <2>1 DEF Writes
  <2> DEFINE k == Len(seg.data)
  <2>3. len # 0 /\ Sound(l) => vaddr + k <= aligned + size
    <3>1. k \in Nat
      BY <1>2
    <3>2. len # 0 /\ Sound(l) => k <= len
      BY <1>6
    <3> HIDE DEF k, len
    <3> QED  BY <1>2, <1>4, <1>10, <1>12, <1>14, <3>1, <3>2
  <2>4. len # 0 /\ Sound(l) => Backs(map, data)
    BY <1>10, <1>15, <1>17, <2>3 DEF Backs
  <2> QED  BY <2>2, <2>4 DEF Steady
<1>19. Checked(linked) \in Good(l) /\ Checked(pages) \in Good(l) /\ Checked(vaddr + len) \in Good(l)
  <2> DEFINE v == vaddr + len
  <2>1. v \in Nat /\ (Fitting(l) => v < WordTop)
    BY <1>2, <1>4, <1>13
  <2> HIDE DEF v
  <2>2. Checked(v) \in Good(l)
    BY <2>1, CheckedGood
  <2>3. Checked(linked) \in Good(l) /\ Checked(pages) \in Good(l)
    BY <1>3, <1>11, <1>13, CheckedGood
  <2> QED  BY <2>2, <2>3 DEF v
<1>20. CASE len = 0
  <2> DEFINE c == Checked(linked)
             none == <<>>
  <2>1. c \in Good(l) /\ none \in Good(l) /\ SegmentPlan(seg, bias) = c \o none
    BY <1>9, <1>19, <1>20, GoodEmpty
  <2> HIDE DEF c, none
  <2>2. c \o none \in Good(l)
    BY <2>1, GoodJoins
  <2> QED  BY <2>1, <2>2 DEF seg, bias
<1>21. CASE len # 0 /\ ~seg.readable
  <2>1. Fail \in Steady(l) /\ ~NeedsMap(Fail)
    BY DEF Steady, Fail, NeedsMap
  <2> HIDE DEF Fail
  <2>2. <<Fail>> \in Good(l)
    BY <2>1, GoodOne
  <2> DEFINE c == Checked(linked)
             f == <<Fail>>
  <2>3. c \in Good(l) /\ f \in Good(l) /\ SegmentPlan(seg, bias) = c \o f
    BY <1>9, <1>19, <1>21, <2>2
  <2> HIDE DEF c, f
  <2>4. c \o f \in Good(l)
    BY <2>3, GoodJoins
  <2> QED  BY <2>3, <2>4 DEF seg, bias
<1>22. CASE len # 0 /\ seg.readable
  <2> DEFINE G == Good(l)
             S == Steady(l)
             pair == <<map, data>>
             zeros == ZerosPlan(seg, vaddr)
             a == Checked(pages)
             b == Checked(vaddr + len)
             ap == a \o pair
             apz == ap \o zeros
  <2>1. map \in S /\ data \in S /\ ~NeedsMap(map) /\ (Sound(l) => Backs(map, data))
    BY <1>16, <1>18, <1>22
  <2> HIDE DEF S
  <2>2. pair \in Seq(S) /\ map \in ToSet(pair) /\ DOMAIN pair = {1, 2} /\ pair[1] = map /\ pair[2] = data
    <3>1. pair \in Seq(S) /\ DOMAIN pair = {1, 2} /\ pair[1] = map /\ pair[2] = data
      BY <2>1
    <3> QED  BY <3>1 DEF ToSet
  <2> HIDE DEF pair
  <2>3. Sound(l) => Fronted(pair)
    <3>1. ASSUME Sound(l), NEW k \in DOMAIN pair, NeedsMap(pair[k])
          PROVE  \E j \in 1 .. k - 1 : Backs(pair[j], pair[k])
      <4>1. k = 2
        BY <2>1, <2>2, <3>1
      <4>2. 1 \in 1 .. k - 1
        BY <4>1
      <4> QED  BY <2>1, <2>2, <3>1, <4>1, <4>2
    <3> QED  BY <3>1 DEF Fronted
  <2>4. pair \in G
    BY <2>2, <2>3 DEF Good, S
  <2>5. a \in G /\ b \in G /\ Checked(linked) \in G
    BY <1>19
  <2>6. ap \in G /\ map \in ToSet(ap)
    <3>1. a \in Seq(S)
      BY <2>5 DEF Good, S
    <3> HIDE DEF G, a
    <3>2. map \in ToSet(ap)
      BY <2>2, <3>1, SecondHalf
    <3> QED  BY <2>4, <2>5, <3>2, GoodJoins DEF G
  <2> HIDE DEF ap
  <2>7. /\ zeros \in Seq(S)
        /\ Sound(l) => \A k \in DOMAIN zeros : NeedsMap(zeros[k]) => Backs(map, zeros[k])
    <3>1. Fitting(l) => vaddr + seg.size < WordTop
      BY <1>13
    <3>2. Sound(l) => vaddr + seg.size <= DirectBase /\ map.op = "map" /\ map.must
                      /\ map.addr \in Nat /\ map.addr <= vaddr
                      /\ map.size \in Nat /\ vaddr + seg.size <= map.addr + map.size
      BY <1>10, <1>12, <1>14, <1>15, <1>22
    <3>3. seg.size - Len(seg.data) > AllocMax => Unfit(l)
      BY <1>8
    <3> QED  BY <1>1, <1>4, <3>1, <3>2, <3>3, ZerosGood DEF S
  <2> HIDE DEF zeros
  <2>8. apz \in G
    BY <2>6, <2>7, GoodAfter DEF G, S
  <2> HIDE DEF apz, a, b
  <2>9. apz \o b \in G
    BY <2>5, <2>8, GoodJoins DEF G
  <2>10. Checked(linked) \o (apz \o b) \in G
    <3> DEFINE c == Checked(linked)
               d == apz \o b
    <3>1. c \in G /\ d \in G
      BY <2>5, <2>9
    <3> HIDE DEF c, d
    <3>2. c \o d \in G
      BY <3>1, GoodJoins DEF G
    <3> QED  BY <3>2 DEF c, d
  <2>11. SegmentPlan(seg, bias) = Checked(linked) \o (apz \o b)
    BY <1>9, <1>22 DEF apz, ap, a, b, pair, zeros
  <2> HIDE DEF G
  <2> QED  BY <2>10, <2>11 DEF G, seg, bias
<1> QED  BY <1>20, <1>21, <1>22 DEF seg, bias

LEMMA SegmentsGood ==
  ASSUME NEW l \in Loads, Parses(l.file)
  PROVE  SegmentsPlan(ImageOf(l).segs, PlanBias(l)) \in Good(l)
<1> DEFINE segs == ImageOf(l).segs
           plans == [i \in DOMAIN segs |-> SegmentPlan(segs[i], PlanBias(l))]
<1>1. DOMAIN segs = 1 .. Len(segs) /\ Len(segs) \in Nat
  BY FileFacts DEF IsImage
<1>2. \A i \in DOMAIN segs : SegmentPlan(segs[i], PlanBias(l)) \in Good(l)
  BY SegmentGood
<1>3. plans \in Seq(Good(l))
  <2> HIDE DEF segs
  <2> QED  BY <1>1, <1>2
<1> HIDE DEF plans
<1>4. FlattenSeq(plans) \in Good(l)
  BY <1>3, GoodFlat
<1> QED  BY <1>4 DEF plans, SegmentsPlan

IsElfLoad(l) == l \in Loads /\ Parses(l.file) /\ l.file.magic \notin MachOMagic

(* The slot of a name that is imported. *)
LEMMA FirstAtIs ==
  ASSUME NEW S, NEW names \in Seq(S), NEW n \in ToSet(names)
  PROVE  /\ FirstAt(names, n) \in DOMAIN names /\ names[FirstAt(names, n)] = n
         /\ \A j \in 1 .. FirstAt(names, n) - 1 : names[j] # n
<1> DEFINE At(i) == names[i] = n
           T == {i \in DOMAIN names : At(i)}
<1>1. T \in SUBSET Nat /\ T # {}
  BY DEF ToSet
<1>2. PICK m \in T : \A k \in T : m <= k
  <2> HIDE DEF T
  <2> QED  BY <1>1, Least
<1>3. m \in DOMAIN names /\ names[m] = n /\ \A j \in 1 .. m - 1 : names[j] # n
  BY <1>2
<1> QED  BY <1>3 DEF FirstAt

(* The names met before n. *)
Before(names, n) == {names[j] : j \in 1 .. FirstAt(names, n) - 1}

LEMMA NamesFinite ==
  ASSUME NEW S, NEW names \in Seq(S), NEW k \in 0 .. Len(names)
  PROVE  IsFiniteSet({names[j] : j \in 1 .. k})
<1> DEFINE D == 1 .. k
           N == {names[j] : j \in D}
           f == [j \in D |-> names[j]]
<1>1. f \in Surjection(D, N)
  <2>1. f \in [D -> N] /\ \A y \in N : \E x \in D : f[x] = y
    OBVIOUS
  <2> HIDE DEF f, N
  <2> QED  BY <2>1 DEF Surjection
<1>2. IsFiniteSet(D)
  BY FS_Interval
<1> HIDE DEF f, D, N
<1>3. IsFiniteSet(N)
  BY <1>1, <1>2, FS_Surjection
<1> QED  BY <1>3 DEF N, D

LEMMA BeforeFinite ==
  ASSUME NEW S, NEW names \in Seq(S), NEW n \in ToSet(names)
  PROVE  IsFiniteSet(Before(names, n)) /\ Cardinality(Before(names, n)) \in Nat
<1> DEFINE k == FirstAt(names, n) - 1
<1>1. k \in 0 .. Len(names)
  <2>1. FirstAt(names, n) \in DOMAIN names
    BY FirstAtIs
  <2> QED  BY <2>1
<1> HIDE DEF k
<1>2. IsFiniteSet({names[j] : j \in 1 .. k})
  BY <1>1, NamesFinite
<1> QED  BY <1>2, FS_CardinalityType DEF Before, k

LEMMA ThunkIsNat ==
  ASSUME NEW S, NEW names \in Seq(S), NEW n \in ToSet(names)
  PROVE  ThunkOf(names, n) \in Nat
<1> DEFINE c == Cardinality(Before(names, n))
<1>1. ThunkBase \in Nat /\ PtrBytes \in Nat
  BY RegionAssumption, PtrAssumption
<1>2. c \in Nat /\ ThunkOf(names, n) = ThunkBase + PtrBytes * c
  BY BeforeFinite DEF ThunkOf, Before
<1> HIDE DEF c
<1> QED  BY <1>1, <1>2

(* Of two names the one met later has more before it, and none has all.    *)
LEMMA SlotsDiffer ==
  ASSUME NEW S, NEW names \in Seq(S), NEW m \in ToSet(names), NEW n \in ToSet(names), m # n
  PROVE  ThunkOf(names, m) # ThunkOf(names, n)
<1> DEFINE at(x) == FirstAt(names, x)
           c(x) == Cardinality(Before(names, x))
<1>1. ASSUME NEW x \in ToSet(names), NEW y \in ToSet(names), at(x) < at(y)
      PROVE  c(x) < c(y)
  <2>1. /\ at(x) \in DOMAIN names /\ names[at(x)] = x /\ \A j \in 1 .. at(x) - 1 : names[j] # x
        /\ at(y) \in DOMAIN names
    BY FirstAtIs
  <2> DEFINE B == Before(names, x)
             C == Before(names, y)
  <2>2. B \subseteq C /\ x \in C /\ x \notin B
    <3> DEFINE a == at(x)
               b == at(y)
    <3>1. a \in 1 .. Len(names) /\ b \in 1 .. Len(names) /\ a < b /\ names[a] = x
          /\ \A j \in 1 .. a - 1 : names[j] # x
      BY <1>1, <2>1
    <3>2. B = {names[j] : j \in 1 .. a - 1} /\ C = {names[j] : j \in 1 .. b - 1}
      BY DEF Before
    <3> HIDE DEF a, b, B, C
    <3>3. (1 .. a - 1) \subseteq (1 .. b - 1) /\ a \in 1 .. b - 1
      BY <3>1
    <3> QED  BY <3>1, <3>2, <3>3
  <2>3. IsFiniteSet(B) /\ IsFiniteSet(C) /\ Cardinality(B) \in Nat /\ Cardinality(C) \in Nat
    BY BeforeFinite
  <2> HIDE DEF B, C
  <2>4. Cardinality(B) <= Cardinality(C) /\ Cardinality(C) # Cardinality(B)
    BY <2>2, <2>3, FS_Subset
  <2>5. Cardinality(B) < Cardinality(C)
    BY <2>3, <2>4
  <2> QED  BY <2>5 DEF B, C
<1>2. at(m) \in Nat /\ at(n) \in Nat /\ names[at(m)] = m /\ names[at(n)] = n
  BY FirstAtIs
<1> HIDE DEF at
<1>3. at(m) < at(n) \/ at(n) < at(m)
  BY <1>2
<1>4. c(m) \in Nat /\ c(n) \in Nat
  BY BeforeFinite
<1>5. ThunkOf(names, m) = ThunkBase + PtrBytes * c(m) /\ ThunkOf(names, n) = ThunkBase + PtrBytes * c(n)
  BY DEF ThunkOf, Before
<1> DEFINE cm == c(m)
           cn == c(n)
<1>6. cm \in Nat /\ cn \in Nat /\ (cm < cn \/ cn < cm)
  BY <1>1, <1>3, <1>4
<1>7. ThunkOf(names, m) = ThunkBase + PtrBytes * cm /\ ThunkOf(names, n) = ThunkBase + PtrBytes * cn
  BY <1>5
<1> HIDE DEF c, cm, cn
<1> DEFINE p == PtrBytes
           b == ThunkBase
<1>8. p \in Nat \ {0} /\ b \in Nat
  BY RegionAssumption, PtrAssumption
<1>9. b + p * cm # b + p * cn
  <2> HIDE DEF p, b
  <2>1. cm = cn + (cm - cn) /\ p * (cn + (cm - cn)) = p * cn + p * (cm - cn)
    BY <1>6, <1>8
  <2>2. cm - cn \in Int \ {0}
    BY <1>6
  <2> DEFINE e == cm - cn
  <2>3. e \in Int \ {0} /\ p * cm = p * cn + p * e
    BY <2>1, <2>2
  <2> HIDE DEF e
  <2>4. p * e # 0 /\ p * e \in Int /\ p * cn \in Int /\ p * cm \in Int
    BY <1>6, <1>8, <2>3
  <2> DEFINE pe == p * e
             pm == p * cm
             pn == p * cn
  <2>5. pe # 0 /\ pe \in Int /\ pn \in Int /\ pm = pn + pe
    BY <2>3, <2>4
  <2> HIDE DEF pe, pm, pn
  <2>6. b + pm # b + pn
    BY <1>8, <2>5
  <2> QED  BY <2>6 DEF pm, pn
<1> QED  BY <1>7, <1>9

(* There are as many slots as names.                                       *)
LEMMA SlotsCounted ==
  ASSUME NEW S, NEW names \in Seq(S)
  PROVE  /\ IsFiniteSet(ToSet(names)) /\ Cardinality(ToSet(names)) \in Nat
         /\ Cardinality(dynamic_thunks(names)) = Cardinality(ToSet(names))
<1> DEFINE N == ToSet(names)
           T == dynamic_thunks(names)
           f == [n \in N |-> <<ThunkOf(names, n), n>>]
<1>1. IsFiniteSet(N) /\ Cardinality(N) \in Nat
  <2>1. N = {names[j] : j \in 1 .. Len(names)}
    BY DEF ToSet
  <2>2. Len(names) \in 0 .. Len(names)
    OBVIOUS
  <2>3. IsFiniteSet({names[j] : j \in 1 .. Len(names)})
    BY <2>2, NamesFinite
  <2> HIDE DEF N
  <2> QED  BY <2>1, <2>3, FS_CardinalityType
<1>2. T = {<<ThunkOf(names, n), n>> : n \in N}
  BY DEF dynamic_thunks
<1> HIDE DEF N, T
<1>3. f \in [N -> T] /\ (\A x, y \in N : f[x] = f[y] => x = y) /\ \A y \in T : \E x \in N : f[x] = y
  BY <1>2
<1> HIDE DEF f
<1>4. ExistsBijection(N, T)
  BY <1>3 DEF ExistsBijection, Bijection, Injection, Surjection, IsInjective
<1>5. Cardinality(T) = Cardinality(N)
  BY <1>1, <1>4, FS_Bijection
<1> QED  BY <1>1, <1>5 DEF N, T

LEMMA SlotWithin ==
  ASSUME NEW S, NEW names \in Seq(S), NEW n \in ToSet(names)
  PROVE  \E k \in 0 .. Cardinality(dynamic_thunks(names)) - 1 : ThunkOf(names, n) = ThunkBase + PtrBytes * k
<1> DEFINE N == ToSet(names)
           B == Before(names, n)
           at == FirstAt(names, n)
<1>1. at \in DOMAIN names /\ \A j \in 1 .. at - 1 : names[j] # n
  BY FirstAtIs
<1>2. B = {names[j] : j \in 1 .. at - 1} /\ N = {names[j] : j \in 1 .. Len(names)}
  BY DEF Before, ToSet
<1>3. IsFiniteSet(N) /\ Cardinality(N) \in Nat /\ Cardinality(B) \in Nat
      /\ Cardinality(dynamic_thunks(names)) = Cardinality(N) /\ n \in N
  BY BeforeFinite, SlotsCounted
<1>4. ThunkOf(names, n) = ThunkBase + PtrBytes * Cardinality(B)
  BY DEF ThunkOf, Before
<1> HIDE DEF at, B, N
<1>5. B \subseteq N /\ n \notin B
  <2>1. (1 .. at - 1) \subseteq (1 .. Len(names))
    BY <1>1
  <2> QED  BY <1>1, <1>2, <2>1
<1>6. Cardinality(B) <= Cardinality(N) /\ Cardinality(N) # Cardinality(B)
  BY <1>3, <1>5, FS_Subset
<1>7. Cardinality(B) \in 0 .. Cardinality(N) - 1
  BY <1>3, <1>6
<1> QED  BY <1>3, <1>4, <1>7

LEMMA RegionGood ==
  ASSUME NEW l \in Loads, Parses(l.file)
  PROVE  ThunkRegion \in Good(l)
<1> DEFINE thunks == Map(ThunkBase, ThunkSize, FALSE)
           tls == Map(TlsBase, TlsSize, FALSE)
<1>1. /\ ThunkBase \in Nat /\ TlsBase \in Nat /\ ThunkSize \in Nat /\ TlsSize \in Nat
      /\ ThunkBase # 0 /\ TlsBase # 0
      /\ ThunkBase # StackTop - StackSize /\ TlsBase # StackTop - StackSize
      /\ ThunkBase + ThunkSize < WordTop /\ TlsBase + TlsSize < WordTop
  BY RegionAssumption, WordFacts
<1>2. thunks \in Maps(l) /\ tls \in Maps(l)
  BY <1>1 DEF Maps, Map
<1>3. ~NeedsMap(thunks) /\ ~NeedsMap(tls)
  BY DEF NeedsMap, Map
<1>4. thunks \in Steady(l) /\ tls \in Steady(l)
  BY <1>2 DEF Steady
<1> HIDE DEF thunks, tls
<1>5. <<thunks, tls>> \in Good(l)
  BY <1>3, <1>4, GoodTwo
<1> QED  BY <1>5 DEF ThunkRegion, thunks, tls

(* A store whose error is dropped, below the host's addresses. *)
LEMMA LooseWrite ==
  ASSUME NEW l, NEW addr \in Nat, NEW v \in Int, NEW n \in Nat, Sound(l) => addr < DirectBase
  PROVE  /\ WriteInt(addr, v, n, FALSE) \in Steady(l)
         /\ ~NeedsMap(WriteInt(addr, v, n, FALSE))
<1> DEFINE w == WriteInt(addr, v, n, FALSE)
<1>1. w \in AnyWrite /\ w.addr = addr /\ w.must = FALSE
  <2> DEFINE must == FALSE
  <2>1. must \in BOOLEAN /\ addr \in Int
    OBVIOUS
  <2> HIDE DEF must
  <2>2. LET u == WriteInt(addr, v, n, must)
        IN  u \in AnyWrite /\ u.addr = addr /\ u.must = must
    BY <2>1, WriteIntTyped
  <2> QED  BY <2>2 DEF must
<1> HIDE DEF w
<1>2. w \in Writes(l) /\ ~NeedsMap(w)
  BY <1>1 DEF Writes, NeedsMap
<1> QED  BY <1>2 DEF Steady, w

LEMMA DataSymbolIs ==
  ASSUME NEW n \in DOMAIN DataSymbols
  PROVE  DataSymbols[n] \in Nat /\ DataSymbols[n] < DirectBase
<1> DEFINE a == DataSymbols[n]
<1>1. a \in ThunkBase .. ThunkBase + ThunkSize - 1
  BY ElfAssumption
<1>2. /\ ThunkBase \in Nat /\ ThunkSize \in Nat /\ TlsBase \in Nat /\ TlsSize \in Nat /\ DirectBase \in Nat
      /\ ThunkBase + ThunkSize <= TlsBase /\ TlsBase + TlsSize <= DirectBase
  BY RegionAssumption, AddressAssumption
<1> HIDE DEF a
<1>3. a \in Nat /\ a < DirectBase
  BY <1>1, <1>2
<1> QED  BY <1>3 DEF a

LEMMA OptionsGood ==
  ASSUME NEW l \in Loads, Parses(l.file)
  PROVE  <<WriteInt(DataSymbols[Name("optind")], 1, PtrBytes \div 2, FALSE),
           WriteInt(DataSymbols[Name("opterr")], 1, PtrBytes \div 2, FALSE)>> \in Good(l)
<1> DEFINE a == DataSymbols[Name("optind")]
           b == DataSymbols[Name("opterr")]
           n == PtrBytes \div 2
<1>1. n \in Nat
  BY PtrAssumption
<1>2. a \in Nat /\ a < DirectBase /\ b \in Nat /\ b < DirectBase
  BY ElfAssumption, DataSymbolIs
<1> DEFINE v == WriteInt(a, 1, n, FALSE)
           w == WriteInt(b, 1, n, FALSE)
<1> HIDE DEF n, a, b
<1>3. v \in Steady(l) /\ ~NeedsMap(v) /\ w \in Steady(l) /\ ~NeedsMap(w)
  <2>1. 1 \in Int /\ (Sound(l) => a < DirectBase) /\ (Sound(l) => b < DirectBase)
    BY <1>2
  <2> HIDE DEF v, w
  <2>2. v \in Steady(l) /\ ~NeedsMap(v)
    BY <1>1, <1>2, <2>1, LooseWrite DEF v
  <2>3. w \in Steady(l) /\ ~NeedsMap(w)
    BY <1>1, <1>2, <2>1, LooseWrite DEF w
  <2> QED  BY <2>2, <2>3
<1> HIDE DEF v, w
<1>4. <<v, w>> \in Good(l)
  BY <1>3, GoodTwo
<1> QED  BY <1>4 DEF v, w, a, b, n

-----------------------------------------------------------------------------
(* Relocations. *)

LEMMA RelocFacts ==
  ASSUME NEW l, IsElfLoad(l), NEW i \in DOMAIN ImageOf(l).relocs
  PROVE  LET img == ImageOf(l)
             r == img.relocs[i]
         IN  /\ r.addr \in Nat /\ r.sym \in Nat /\ r.addend \in Int
             /\ r.sym # 0 => img.dynsyms[r.sym] \in Symbol /\ img.dynsyms[r.sym].addr \in Nat
                             /\ img.dynsyms[r.sym].name \in Nat \X STRING
<1> DEFINE img == ImageOf(l)
           r == img.relocs[i]
<1>1. img.relocs \in Seq(Relocation) /\ img.dynsyms \in Seq(Symbol) /\ r.sym <= Len(img.dynsyms)
  BY FileFacts DEF IsImage, IsElfLoad
<1>2. r \in Relocation
  BY <1>1
<1>3. r.addr \in Nat /\ r.sym \in Nat /\ r.addend \in Int
  BY <1>2 DEF Relocation
<1> HIDE DEF img, r
<1>4. ASSUME r.sym # 0 PROVE img.dynsyms[r.sym] \in Symbol
  <2> DEFINE syms == img.dynsyms
             k == r.sym
  <2>1. syms \in Seq(Symbol) /\ k \in 1 .. Len(syms)
    BY <1>1, <1>3, <1>4
  <2> HIDE DEF syms, k
  <2>2. syms[k] \in Symbol
    BY <2>1
  <2> QED  BY <2>2 DEF syms, k
<1> QED  BY <1>3, <1>4 DEF img, r, Symbol

LEMMA ImportsAre ==
  ASSUME NEW l, IsElfLoad(l)
  PROVE  /\ elf_imports(ImageOf(l)) \in Seq(Nat \X STRING)
         /\ \A i \in DOMAIN ImageOf(l).relocs :
              LET r == ImageOf(l).relocs[i]
                  name == ImageOf(l).dynsyms[r.sym].name
              IN  Imported(ImageOf(l), r) /\ name \notin DOMAIN DataSymbols
                    => name \in ToSet(elf_imports(ImageOf(l)))
<1> DEFINE img == ImageOf(l)
           S == Nat \X STRING
           name(i) == img.dynsyms[img.relocs[i].sym].name
           import(i) == Imported(img, img.relocs[i]) /\ name(i) \notin DOMAIN DataSymbols
           lists == [i \in DOMAIN img.relocs |-> IF import(i) THEN <<name(i)>> ELSE <<>>]
<1>1. elf_imports(img) = FlattenSeq(lists)
  BY DEF elf_imports
<1>2. DOMAIN img.relocs = 1 .. Len(img.relocs) /\ Len(img.relocs) \in Nat
  BY FileFacts DEF IsImage, IsElfLoad
<1>3. \A i \in DOMAIN img.relocs : import(i) => name(i) \in S
  BY RelocFacts DEF Imported
<1> HIDE DEF img, import, name, S
<1>4. lists \in Seq(Seq(S)) /\ DOMAIN lists = DOMAIN img.relocs
  <2> DEFINE n == Len(img.relocs)
             list(i) == IF import(i) THEN <<name(i)>> ELSE <<>>
  <2>1. n \in Nat /\ \A i \in 1 .. n : list(i) \in Seq(S)
    BY <1>2, <1>3
  <2>2. lists = [i \in 1 .. n |-> list(i)]
    BY <1>2
  <2> HIDE DEF n, list, lists
  <2>3. lists \in Seq(Seq(S)) /\ DOMAIN lists = 1 .. n
    BY <2>1, <2>2
  <2> QED  BY <1>2, <2>3 DEF n
<1>5. ASSUME NEW i \in DOMAIN img.relocs, import(i)
      PROVE  name(i) \in ToSet(FlattenSeq(lists))
  <2>1. lists[i] = <<name(i)>> /\ i \in DOMAIN lists
    BY <1>5
  <2>2. name(i) \in ToSet(lists[i])
    <3>1. name(i) = lists[i][1] /\ 1 \in DOMAIN lists[i]
      BY <2>1
    <3> QED  BY <3>1 DEF ToSet
  <2> HIDE DEF lists
  <2> QED  BY <1>4, <2>1, <2>2, FlattenedHolds
<1>6. FlattenSeq(lists) \in Seq(S)
  <2> DEFINE C == Seq(S)
  <2>1. C \in SUBSET Seq(S) /\ <<>> \in C /\ (\A s, t \in C : s \o t \in C) /\ lists \in Seq(C)
    BY <1>4
  <2> HIDE DEF C, lists
  <2>2. FlattenSeq(lists) \in C
    BY <2>1, Flattened
  <2> QED  BY <2>2 DEF C
<1> HIDE DEF lists
<1> QED  BY <1>1, <1>5, <1>6 DEF img, S, import, name

(* The names a file imports. *)
Imports(l) ==
  IF l.file.magic \in MachOMagic THEN macho_imports(ImageOf(l)) ELSE elf_imports(ImageOf(l))

LEMMA ImportsTyped ==
  ASSUME NEW l \in Loads, Parses(l.file)
  PROVE  \E S : Imports(l) \in Seq(S)
<1>1. CASE l.file.magic \notin MachOMagic
  <2>1. elf_imports(ImageOf(l)) \in Seq(Nat \X STRING)
    BY <1>1, ImportsAre DEF IsElfLoad
  <2> QED  BY <1>1, <2>1 DEF Imports
<1>2. CASE l.file.magic \in MachOMagic
  <2> DEFINE img == ImageOf(l)
             n == Len(img.symbols)
             S == {clean_name(img.symbols[i].name) : i \in DOMAIN img.symbols}
             import(i) == img.symbols[i].undefined /\ img.symbols[i].name # <<0, "">>
             list(i) == IF import(i) THEN <<clean_name(img.symbols[i].name)>> ELSE <<>>
             lists == [i \in DOMAIN img.symbols |-> list(i)]
             C == Seq(S)
  <2>1. DOMAIN img.symbols = 1 .. n /\ n \in Nat
    BY FileFacts DEF IsImage
  <2>2. \A i \in 1 .. n : list(i) \in C
    <3> DEFINE name(i) == clean_name(img.symbols[i].name)
    <3>1. \A i \in 1 .. n : name(i) \in S
      BY <2>1
    <3>2. \A i \in 1 .. n : list(i) = <<name(i)>> \/ list(i) = <<>>
      OBVIOUS
    <3> HIDE DEF name, list, S, n, img
    <3>3. ASSUME NEW i \in 1 .. n PROVE list(i) \in Seq(S)
      <4>1. <<name(i)>> \in Seq(S)
        BY <3>1
      <4>2. <<>> \in Seq(S)
        OBVIOUS
      <4> QED  BY <3>2, <4>1, <4>2
    <3> QED  BY <3>3
  <2>3. macho_imports(img) = FlattenSeq(lists)
    BY DEF macho_imports
  <2>4. lists = [i \in 1 .. n |-> list(i)]
    BY <2>1
  <2>5. C \in SUBSET Seq(S) /\ <<>> \in C /\ (\A s, t \in C : s \o t \in C)
    OBVIOUS
  <2> HIDE DEF n, list, lists, C, S
  <2>6. lists \in Seq(C)
    BY <2>1, <2>2, <2>4
  <2>7. FlattenSeq(lists) \in C
    BY <2>5, <2>6, Flattened
  <2> QED  BY <1>2, <2>3, <2>7 DEF Imports, C
<1> QED  BY <1>1, <1>2

LEMMA RelocGood ==
  ASSUME NEW l, IsElfLoad(l), NEW i \in DOMAIN ImageOf(l).relocs
  PROVE  RelocPlan(ImageOf(l), ImageOf(l).relocs[i]) \in Good(l)
<1> DEFINE img == ImageOf(l)
           r == img.relocs[i]
           bias == load_bias(img)
           linked == r.addr + bias
           target == AsWord(linked)
           sym == img.dynsyms[r.sym]
           moved == sym.addr + bias
           sum == AsWord(moved) + AsWord(r.addend)
           store(v) == <<WriteWord(target, v, FALSE)>>
           G == Good(l)
<1>1. bias = PlanBias(l) /\ bias \in Nat
  BY FileFacts DEF PlanBias, IsElfLoad
<1>2. /\ r.addr \in Nat /\ r.sym \in Nat /\ r.addend \in Int
      /\ r.sym # 0 => sym.addr \in Nat /\ sym.name \in Nat \X STRING
  BY RelocFacts
<1>3. linked \in Nat
  BY <1>1, <1>2
<1>4. Sound(l) => linked < DirectBase
  BY <1>1 DEF Sound, InRange
<1>5. Fitting(l) => linked < WordTop /\ (Defined(img, r) /\ ~Imported(img, r) => moved + AsWord(r.addend) < WordTop)
  BY DEF Fitting, ElfFits, RelocFits, IsElfLoad
<1>6. RelocPlan(img, r) =
        Checked(linked) \o
          IF Imported(img, r)
          THEN store(IF sym.name \in DOMAIN DataSymbols THEN DataSymbols[sym.name]
                     ELSE ThunkOf(elf_imports(img), sym.name))
          ELSE IF Defined(img, r) THEN Checked(moved) \o Checked(sum) \o store(moved + r.addend)
          ELSE store(bias + r.addend)
  BY DEF RelocPlan
<1>7. Imported(img, r) \/ Defined(img, r) => r.sym # 0
  BY DEF Imported, Defined
<1> HIDE DEF bias, linked
<1>8. target \in Nat /\ (linked < WordTop => target = linked)
  BY <1>3, AsWordIs
<1>9. Sound(l) => target < DirectBase
  BY <1>3, <1>4, <1>8, WordFacts
<1> HIDE DEF target
<1>10. ASSUME NEW v \in Int
       PROVE  store(v) \in G
  <2>1. PtrBytes \in Nat
    BY PtrAssumption
  <2>2. WriteWord(target, v, FALSE) \in Steady(l) /\ ~NeedsMap(WriteWord(target, v, FALSE))
    BY <1>8, <1>9, <2>1, LooseWrite DEF WriteWord
  <2> QED  BY <2>2, GoodOne
<1>11. Checked(linked) \in G
  BY <1>3, <1>5, CheckedGood
<1> HIDE DEF store
<1>12. CASE Imported(img, r)
  <2> DEFINE v == IF sym.name \in DOMAIN DataSymbols THEN DataSymbols[sym.name]
                  ELSE ThunkOf(elf_imports(img), sym.name)
  <2>1. v \in Int
    <3>1. CASE sym.name \in DOMAIN DataSymbols
      BY <3>1, DataSymbolIs
    <3>2. CASE sym.name \notin DOMAIN DataSymbols
      <4> DEFINE names == elf_imports(img)
                 n == sym.name
      <4>1. names \in Seq(Nat \X STRING) /\ n \in ToSet(names)
        BY <1>12, <3>2, ImportsAre
      <4> HIDE DEF names, n
      <4>2. ThunkOf(names, n) \in Nat
        BY <4>1, ThunkIsNat
      <4> QED  BY <3>2, <4>2 DEF names, n
    <3> QED  BY <3>1, <3>2
  <2>2. RelocPlan(img, r) = Checked(linked) \o store(v)
    BY <1>6, <1>12
  <2> HIDE DEF v
  <2>3. store(v) \in G
    BY <1>10, <2>1
  <2> DEFINE s == store(v)
             c == Checked(linked)
  <2>4. s \in G /\ c \in G
    BY <1>11, <2>3
  <2> HIDE DEF s, c
  <2>5. c \o s \in G
    BY <2>4, GoodJoins
  <2> QED  BY <2>2, <2>5 DEF c, s
<1>13. CASE ~Imported(img, r) /\ Defined(img, r)
  <2> DEFINE a == sym.addr
             add == r.addend
             v == moved + r.addend
             s == store(v)
             c == Checked(linked)
             cm == Checked(moved)
             cs == Checked(sum)
             cc == cm \o cs
  <2>1. a \in Nat /\ add \in Int /\ bias \in Nat
    <3>1. r.sym # 0
      BY <1>7, <1>13
    <3> HIDE DEF r, sym
    <3> QED  BY <1>1, <1>2, <3>1
  <2>2. RelocPlan(img, r) = c \o (cc \o s)
    BY <1>6, <1>13
  <2>3. Fitting(l) => moved + AsWord(add) < WordTop
    BY <1>5, <1>13
  <2> HIDE DEF a, add
  <2>4. moved \in Nat /\ v \in Int
    BY <2>1 DEF a, add
  <2> HIDE DEF moved, v
  <2>5. /\ AsWord(add) \in Nat /\ AsWord(moved) \in Nat /\ (moved < WordTop => AsWord(moved) = moved)
        /\ sum = AsWord(moved) + AsWord(add)
    BY <2>1, <2>4, AsWordIs DEF add
  <2> HIDE DEF sum
  <2>6. sum \in Nat /\ (Fitting(l) => moved < WordTop /\ sum < WordTop)
    BY <2>3, <2>4, <2>5, WordFacts
  <2>7. cm \in G /\ cs \in G
    BY <2>4, <2>6, CheckedGood
  <2>8. s \in G /\ c \in G
    BY <1>10, <1>11, <2>4
  <2> HIDE DEF c, cm, cs, s
  <2>9. cc \in G
    BY <2>7, GoodJoins
  <2> HIDE DEF cc
  <2>10. cc \o s \in G
    BY <2>8, <2>9, GoodJoins
  <2> DEFINE d == cc \o s
  <2> HIDE DEF d
  <2>11. c \o d \in G
    BY <2>8, <2>10, GoodJoins DEF d
  <2> QED  BY <2>2, <2>11 DEF d
<1>14. CASE ~Imported(img, r) /\ ~Defined(img, r)
  <2> DEFINE v == bias + r.addend
             s == store(v)
             c == Checked(linked)
  <2>1. v \in Int
    BY <1>1, <1>2
  <2>2. RelocPlan(img, r) = c \o s
    BY <1>6, <1>14
  <2> HIDE DEF v
  <2>3. s \in G /\ c \in G
    BY <1>10, <1>11, <2>1
  <2> HIDE DEF s, c
  <2>4. c \o s \in G
    BY <2>3, GoodJoins
  <2> QED  BY <2>2, <2>4
<1> QED  BY <1>12, <1>13, <1>14

LEMMA RelocsGood ==
  ASSUME NEW l, IsElfLoad(l)
  PROVE  FlattenSeq([i \in DOMAIN ImageOf(l).relocs |-> RelocPlan(ImageOf(l), ImageOf(l).relocs[i])])
           \in Good(l)
<1> DEFINE img == ImageOf(l)
           plans == [i \in DOMAIN img.relocs |-> RelocPlan(img, img.relocs[i])]
<1>1. DOMAIN img.relocs = 1 .. Len(img.relocs) /\ Len(img.relocs) \in Nat
  BY FileFacts DEF IsImage, IsElfLoad
<1>2. \A i \in DOMAIN img.relocs : RelocPlan(img, img.relocs[i]) \in Good(l)
  BY RelocGood
<1>3. plans \in Seq(Good(l))
  <2> HIDE DEF img
  <2> QED  BY <1>1, <1>2
<1> HIDE DEF plans
<1>4. FlattenSeq(plans) \in Good(l)
  BY <1>3, GoodFlat
<1> QED  BY <1>4 DEF plans

LEMMA BitmapWordsNat == BitmapWords \in Nat /\ PtrBytes * BitmapWords \in Nat
<1>1. PtrBytes \in Nat \ {0} /\ ByteBits \in Nat \ {0}
  BY PtrAssumption, ByteBitsAssumption
<1>2. PtrBytes * ByteBits \in Nat \ {0}
  BY <1>1
<1>3. BitmapWords \in Nat
  BY <1>2 DEF BitmapWords
<1> QED  BY <1>1, <1>3

(* What the entries of a section cover, one after the other. *)
LEMMA RelrBasesAre ==
  ASSUME NEW relr \in Seq(Nat)
  PROVE  LET base == RelrBases(relr)
         IN  /\ \A k \in 0 .. Len(relr) : base[k] \in Nat
             /\ \A i \in 1 .. Len(relr) :
                  base[i] = IF relr[i] % 2 = 0 THEN relr[i] + PtrBytes ELSE base[i - 1] + PtrBytes * BitmapWords
<1> DEFINE n == Len(relr)
           step == PtrBytes * BitmapWords
           F == [i \in 1 .. n |-> [b \in Nat |->
                   IF relr[i] % 2 = 0 THEN relr[i] + PtrBytes ELSE b + step]]
           IsBase(f) == f = [i \in 0 .. n |->
                   IF i = 0 THEN 0 ELSE IF relr[i] % 2 = 0 THEN relr[i] + PtrBytes ELSE f[i - 1] + step]
           base == CHOOSE f : IsBase(f)
           zero == 0
           N == Nat
<1>1. n \in Nat /\ step \in Nat /\ PtrBytes \in Nat /\ \A i \in 1 .. n : relr[i] \in Nat
  BY BitmapWordsNat, PtrAssumption
<1>2. F \in Steps(n, N)
  <2> HIDE DEF step, n
  <2> QED  BY <1>1 DEF Steps
<1>3. PICK f : Run(n, N, zero, F, f)
  <2>1. zero \in N
    OBVIOUS
  <2> HIDE DEF F, n, step, zero, N
  <2> QED  BY <1>1, <1>2, <2>1, Iterates
<1>4. /\ f \in [0 .. n -> Nat] /\ f[0] = 0
      /\ \A i \in 1 .. n : f[i] = IF relr[i] % 2 = 0 THEN relr[i] + PtrBytes ELSE f[i - 1] + step
  <2>1. f \in [0 .. n -> Nat] /\ f[0] = 0 /\ \A i \in 1 .. n : f[i] = F[i][f[i - 1]]
    BY <1>3 DEF Run
  <2>2. ASSUME NEW i \in 1 .. n
        PROVE  f[i] = IF relr[i] % 2 = 0 THEN relr[i] + PtrBytes ELSE f[i - 1] + step
    <3>1. f[i - 1] \in Nat
      <4>1. i - 1 \in 0 .. n
        BY <1>1
      <4> HIDE DEF n
      <4> QED  BY <2>1, <4>1
    <3> QED  BY <2>1, <3>1
  <2> QED  BY <2>1, <2>2
<1> HIDE DEF step
<1>5. IsBase(f)
  <2>1. \A i \in 0 .. n : i = 0 \/ i \in 1 .. n
    BY <1>1
  <2> HIDE DEF n
  <2> QED  BY <1>4, <2>1
<1>6. IsBase(base)
  <2> HIDE DEF IsBase
  <2> QED  BY <1>5
<1>7. RelrBases(relr) = base
  BY DEF RelrBases, step
<1>8. base[0] = 0 /\ \A i \in 1 .. n : base[i] = IF relr[i] % 2 = 0 THEN relr[i] + PtrBytes ELSE base[i - 1] + step
  <2>1. 0 \in 0 .. n /\ \A i \in 1 .. n : i \in 0 .. n /\ i # 0
    BY <1>1
  <2> DEFINE b == base
  <2> HIDE DEF n, base
  <2> QED  BY <1>6, <2>1
<1> DEFINE Bad == {i \in 0 .. n : base[i] \notin Nat}
<1> HIDE DEF base, IsBase, F
<1>9. Bad = {}
  <2> SUFFICES ASSUME Bad # {} PROVE FALSE
    OBVIOUS
  <2>1. PICK i \in Bad : \A j \in Bad : i <= j
    <3>1. Bad \in SUBSET Nat
      OBVIOUS
    <3> HIDE DEF Bad
    <3> QED  BY <3>1, Least
  <2>2. i \in 1 .. n /\ i - 1 \in 0 .. n /\ ~(i <= i - 1)
    BY <1>8
  <2>3. base[i - 1] \in Nat
    BY <2>1, <2>2
  <2>4. base[i] = IF relr[i] % 2 = 0 THEN relr[i] + PtrBytes ELSE base[i - 1] + step
    BY <1>8, <2>2
  <2>5. relr[i] \in Nat
    BY <1>1, <2>2
  <2>6. base[i] \notin Nat
    OBVIOUS
  <2> DEFINE v == base[i]
             u == base[i - 1]
             x == relr[i]
  <2>7. u \in Nat /\ x \in Nat /\ v \notin Nat /\ (v = x + PtrBytes \/ v = u + step)
    BY <2>3, <2>4, <2>5, <2>6
  <2> HIDE DEF u, v, x
  <2> QED  BY <1>1, <2>7
<1> QED  BY <1>7, <1>8, <1>9 DEF step

LEMMA MaxIs ==
  ASSUME NEW n \in Nat, NEW e \in [1 .. n -> Nat], NEW J \in SUBSET (1 .. n)
  PROVE  LET T == {0} \cup {e[i] : i \in J}
         IN  Max(T) \in T /\ \A x \in T : x <= Max(T)
<1> DEFINE Upto(m) == {0} \cup {e[i] : i \in {j \in J : j <= m}}
           HasMax(S) == \E x \in S : \A y \in S : y <= x
           Bad == {m \in 0 .. n : ~HasMax(Upto(m))}
<1>1. HasMax(Upto(0))
  BY DEF HasMax
<1>2. Bad = {}
  <2> SUFFICES ASSUME Bad # {} PROVE FALSE
    OBVIOUS
  <2>1. PICK m \in Bad : \A k \in Bad : m <= k
    <3>1. Bad \in SUBSET Nat
      OBVIOUS
    <3> HIDE DEF Bad
    <3> QED  BY <3>1, Least
  <2>2. m \in 1 .. n
    BY <1>1
  <2>3. HasMax(Upto(m - 1))
    <3>1. m - 1 \in 0 .. n /\ ~(m <= m - 1)
      BY <2>2
    <3> HIDE DEF HasMax, Upto
    <3> QED  BY <2>1, <3>1
  <2>4. PICK x \in Upto(m - 1) : \A y \in Upto(m - 1) : y <= x
    BY <2>3
  <2>5. x \in Nat /\ e[m] \in Nat
    BY <2>2
  <2>6. Upto(m) = IF m \in J THEN Upto(m - 1) \cup {e[m]} ELSE Upto(m - 1)
    BY <2>2
  <2> HIDE DEF Upto
  <2>7. HasMax(Upto(m))
    <3>1. CASE m \notin J
      BY <2>4, <2>6, <3>1
    <3>2. CASE m \in J /\ e[m] <= x
      BY <2>4, <2>5, <2>6, <3>2
    <3>3. CASE m \in J /\ ~(e[m] <= x)
      <4>1. \A y \in Upto(m - 1) : y <= e[m]
        <5>1. \A y \in Upto(m - 1) : y \in Nat
          BY <2>2 DEF Upto
        <5> QED  BY <2>4, <2>5, <3>3, <5>1
      <4>2. Upto(m) = Upto(m - 1) \cup {e[m]}
        BY <2>6, <3>3
      <4> DEFINE top == e[m]
                 S == Upto(m)
      <4>3. top \in S /\ \A y \in S : y <= top
        <5>1. e[m] <= e[m]
          BY <2>5
        <5>2. \A y \in Upto(m - 1) \cup {e[m]} : y <= e[m]
          BY <4>1, <5>1, ZenonT(30)
        <5> QED  BY <4>2, <5>2
      <4> HIDE DEF top, S
      <4>4. HasMax(S)
        BY <4>3
      <4> QED  BY <4>4 DEF S
    <3> QED  BY <3>1, <3>2, <3>3
  <2> HIDE DEF HasMax
  <2> QED  BY <2>7
<1> DEFINE T == {0} \cup {e[i] : i \in J}
<1>3. Upto(n) = T
  OBVIOUS
<1>4. HasMax(T)
  <2>1. HasMax(Upto(n))
    <3> HIDE DEF HasMax, Upto
    <3> QED  BY <1>2
  <2> HIDE DEF HasMax, Upto, T
  <2> QED  BY <1>3, <2>1
<1> HIDE DEF T
<1>5. Max(T) \in T /\ \A x \in T : x <= Max(T)
  BY <1>4 DEF Max
<1> QED  BY <1>5 DEF T

LEMMA RebaseGood ==
  ASSUME NEW l, NEW v \in Nat, NEW bias \in Nat,
         Fitting(l) => v + bias < WordTop, Sound(l) => v + bias < DirectBase
  PROVE  RebasePlan(v, bias) \in Good(l)
<1> DEFINE sum == v + bias
           at == AsWord(sum)
           c == Rebase(at, bias)
           check == Checked(sum)
<1>1. RebasePlan(v, bias) = check \o <<c>>
  BY DEF RebasePlan
<1>2. sum \in Nat
  OBVIOUS
<1>3. check \in Good(l)
  <2> HIDE DEF sum
  <2> QED  BY <1>2, CheckedGood DEF sum
<1>4. at \in Nat /\ at <= sum
  <2> HIDE DEF sum
  <2> QED  BY <1>2, AsWordIs
<1>5. Sound(l) => at < DirectBase
  <2> HIDE DEF sum, at
  <2> QED  BY <1>2, <1>4, WordFacts DEF sum
<1> HIDE DEF at, check, sum
<1>6. c \in Rebases(l) /\ ~NeedsMap(c)
  BY <1>4, <1>5 DEF Rebases, Rebase, NeedsMap
<1> HIDE DEF c
<1>7. <<c>> \in Good(l)
  BY <1>6, GoodOne DEF Steady
<1> QED  BY <1>1, <1>3, <1>7, GoodJoins

(* The last bit of a bitmap that is set.                                   *)
LEMMA LastBit ==
  ASSUME NEW bitmap
  PROVE  Max({0} \cup {k \in 1 .. BitmapWords : Bit(bitmap, k) = 1}) \in 0 .. BitmapWords
<1> DEFINE n == BitmapWords
           J == {k \in 1 .. n : Bit(bitmap, k) = 1}
           e == [i \in 1 .. n |-> i]
           T == {0} \cup {e[i] : i \in J}
<1>1. n \in Nat
  BY BitmapWordsNat
<1>2. J \in SUBSET (1 .. n)
  OBVIOUS
<1> HIDE DEF n, J
<1>3. e \in [1 .. n -> Nat]
  BY <1>1
<1>4. T = {0} \cup J
  BY <1>2
<1> HIDE DEF e
<1>5. Max(T) \in T
  BY <1>1, <1>2, <1>3, MaxIs
<1> HIDE DEF T
<1>6. Max({0} \cup J) \in {0} \cup J
  BY <1>4, <1>5
<1> QED  BY <1>1, <1>2, <1>6 DEF n, J

LEMMA BitmapGood ==
  ASSUME NEW l, NEW base \in Nat, NEW bitmap, NEW bias \in Nat,
         Fitting(l) => base + PtrBytes * BitmapWords + bias < WordTop,
         Sound(l) => base + PtrBytes * BitmapWords + bias <= DirectBase
  PROVE  BitmapPlan(base, bitmap, bias) \in Good(l)
<1> DEFINE G == Good(l)
           p == PtrBytes
           top == base + PtrBytes * BitmapWords
           addr(k) == AsWord(base + PtrBytes * (k - 1))
           last == Max({0} \cup {k \in 1 .. BitmapWords : Bit(bitmap, k) = 1})
           a(k) == IF Bit(bitmap, k) = 1 THEN RebasePlan(addr(k), bias) ELSE <<>>
           b(k) == Checked(addr(k) + PtrBytes)
           plans == [k \in 1 .. last |-> a(k) \o b(k)]
           end == AsWord(base) + PtrBytes * BitmapWords
<1>1. p \in Nat \ {0} /\ top \in Nat /\ BitmapWords \in Nat
  BY PtrAssumption, BitmapWordsNat
<1>2. last \in 0 .. BitmapWords
  BY LastBit
<1>3. BitmapPlan(base, bitmap, bias) = FlattenSeq(plans) \o Checked(end)
  BY DEF BitmapPlan
<1> HIDE DEF last
<1>4. ASSUME NEW k \in 1 .. last
      PROVE  a(k) \o b(k) \in G
  <2> DEFINE v == base + PtrBytes * (k - 1)
             x == AsWord(v)
             ak == a(k)
             bk == b(k)
  <2>1. k - 1 \in Nat /\ BitmapWords - k \in Nat
    BY <1>1, <1>2
  <2>2. p * (k - 1) \in Nat /\ p * (BitmapWords - k) \in Nat
        /\ p * BitmapWords = p * (k - 1) + p + p * (BitmapWords - k)
    <3> DEFINE i == k - 1
               j == BitmapWords - k
    <3>1. i \in Nat /\ j \in Nat /\ BitmapWords = i + 1 + j
      BY <1>1, <2>1
    <3> HIDE DEF i, j, p
    <3>2. p * BitmapWords = p * i + p + p * j /\ p * i \in Nat /\ p * j \in Nat
      BY <1>1, <3>1
    <3> QED  BY <3>2 DEF i, j
  <2>3. v \in Nat /\ v + p <= top
    <3> DEFINE x1 == p * (k - 1)
               x2 == p * (BitmapWords - k)
               x3 == p * BitmapWords
    <3>1. x1 \in Nat /\ x2 \in Nat /\ x3 = x1 + p + x2 /\ v = base + x1 /\ top = base + x3
      BY <2>2
    <3> HIDE DEF x1, x2, x3, v, p, top
    <3> QED  BY <1>1, <3>1
  <2> HIDE DEF v
  <2>4. x \in Nat /\ x <= v
    BY <2>3, AsWordIs
  <2>5. ak = (IF Bit(bitmap, k) = 1 THEN RebasePlan(x, bias) ELSE <<>>) /\ bk = Checked(x + p)
    BY DEF v
  <2>6. (Fitting(l) => top + bias < WordTop) /\ (Sound(l) => top + bias <= DirectBase)
    OBVIOUS
  <2> HIDE DEF x, ak, bk, top, p
  <2>7. (Fitting(l) => x + bias < WordTop /\ x + p < WordTop) /\ (Sound(l) => x + bias < DirectBase)
    BY <1>1, <2>3, <2>4, <2>6, WordFacts
  <2>8. RebasePlan(x, bias) \in G
    BY <2>4, <2>7, RebaseGood
  <2>9. ak \in G
    BY <2>5, <2>8, GoodEmpty
  <2> DEFINE y == x + p
  <2>10. y \in Nat /\ (Fitting(l) => y < WordTop)
    BY <1>1, <2>4, <2>7
  <2> HIDE DEF y
  <2>11. Checked(y) \in G
    BY <2>10, CheckedGood
  <2>12. bk \in G
    BY <2>5, <2>11 DEF y
  <2> HIDE DEF G
  <2>13. ak \o bk \in G
    BY <2>9, <2>12, GoodJoins DEF G
  <2> QED  BY <2>13 DEF ak, bk
<1>5. plans \in Seq(G)
  <2> DEFINE c(k) == a(k) \o b(k)
  <2>1. \A k \in 1 .. last : c(k) \in G
    BY <1>4
  <2>2. plans = [k \in 1 .. last |-> c(k)] /\ last \in Nat
    BY <1>2
  <2> HIDE DEF c, G, plans, a, b
  <2> QED  BY <2>1, <2>2
<1> HIDE DEF plans
<1>6. FlattenSeq(plans) \in G
  BY <1>5, GoodFlat
<1>7. AsWord(base) \in Nat /\ AsWord(base) <= base
  BY AsWordIs
<1>8. end \in Nat /\ (Fitting(l) => end < WordTop)
  <2> DEFINE w == AsWord(base)
             t == PtrBytes * BitmapWords
  <2>1. w \in Nat /\ w <= base /\ t \in Nat /\ end = w + t /\ (Fitting(l) => base + t + bias < WordTop)
    BY <1>7, BitmapWordsNat
  <2> HIDE DEF w, t, end
  <2> QED  BY <2>1, WordFacts
<1> HIDE DEF end
<1>9. Checked(end) \in G
  BY <1>8, CheckedGood
<1> QED  BY <1>3, <1>6, <1>9, GoodJoins

LEMMA SectionGood ==
  ASSUME NEW l, IsElfLoad(l), NEW s \in DOMAIN ImageOf(l).relr
  PROVE  RelrPlan(ImageOf(l).relr[s], load_bias(ImageOf(l))) \in Good(l)
<1> DEFINE img == ImageOf(l)
           relr == img.relr[s]
           bias == load_bias(img)
           base == RelrBases(relr)
           n == Len(relr)
           G == Good(l)
           a(i) == RebasePlan(relr[i], bias)
           b(i) == Checked(relr[i] + PtrBytes)
           plan(i) == IF relr[i] % 2 = 0 THEN a(i) \o b(i) ELSE BitmapPlan(base[i - 1], relr[i], bias)
           plans == [i \in DOMAIN relr |-> plan(i)]
<1>1. bias = PlanBias(l) /\ bias \in Nat
  BY FileFacts DEF PlanBias, IsElfLoad
<1>2. relr \in Seq(Nat)
  <2>1. img.relr \in Seq(Seq(Nat))
    BY FileFacts DEF IsImage, IsElfLoad
  <2> QED  BY <2>1
<1>3. \A i \in DOMAIN relr : Fitting(l) => base[i] + bias < WordTop
  BY DEF Fitting, ElfFits, IsElfLoad
<1>4. \A i \in DOMAIN relr : Sound(l) => base[i] + bias <= DirectBase
  BY <1>1 DEF Sound, InRange
<1>5. RelrPlan(relr, bias) = FlattenSeq(plans)
  BY DEF RelrPlan
<1> HIDE DEF relr, bias, base
<1>6. n \in Nat /\ DOMAIN relr = 1 .. n /\ \A i \in 1 .. n : relr[i] \in Nat
  BY <1>2
<1>7. /\ \A k \in 0 .. n : base[k] \in Nat
      /\ \A i \in 1 .. n :
           base[i] = IF relr[i] % 2 = 0 THEN relr[i] + PtrBytes ELSE base[i - 1] + PtrBytes * BitmapWords
  BY <1>2, RelrBasesAre DEF base
<1> HIDE DEF n
<1>8. ASSUME NEW i \in 1 .. n
      PROVE  plan(i) \in G
  <2> DEFINE x == relr[i]
             e == base[i]
             d == base[i - 1]
             p == PtrBytes
  <2>1. i \in 0 .. n /\ i - 1 \in 0 .. n
    BY <1>6
  <2>2. x \in Nat /\ e \in Nat /\ d \in Nat /\ p \in Nat \ {0}
    BY <1>6, <1>7, <2>1, PtrAssumption
  <2>3. (Fitting(l) => e + bias < WordTop) /\ (Sound(l) => e + bias <= DirectBase)
    BY <1>3, <1>4, <1>6
  <2>4. e = IF x % 2 = 0 THEN x + p ELSE d + PtrBytes * BitmapWords
    BY <1>7
  <2>5. plan(i) = IF x % 2 = 0 THEN RebasePlan(x, bias) \o Checked(x + p) ELSE BitmapPlan(d, x, bias)
    OBVIOUS
  <2> HIDE DEF x, e, d, plan
  <2>6. CASE x % 2 = 0
    <3> DEFINE y == x + p
    <3> HIDE DEF p
    <3>1. y \in Nat /\ e = y /\ (Fitting(l) => y < WordTop /\ x + bias < WordTop)
          /\ (Sound(l) => x + bias < DirectBase)
      BY <1>1, <2>2, <2>3, <2>4, <2>6, WordFacts
    <3> HIDE DEF y
    <3>2. RebasePlan(x, bias) \in G /\ Checked(y) \in G
      BY <1>1, <2>2, <3>1, RebaseGood, CheckedGood
    <3> DEFINE r == RebasePlan(x, bias)
               c == Checked(y)
    <3>3. r \in G /\ c \in G /\ plan(i) = r \o c
      BY <2>5, <2>6, <3>2 DEF y
    <3> HIDE DEF r, c
    <3> QED  BY <3>3, GoodJoins
  <2>7. CASE ~(x % 2 = 0)
    <3>1. e = d + PtrBytes * BitmapWords
      BY <2>4, <2>7
    <3>2. (Fitting(l) => d + PtrBytes * BitmapWords + bias < WordTop)
          /\ (Sound(l) => d + PtrBytes * BitmapWords + bias <= DirectBase)
      BY <2>3, <3>1
    <3>3. BitmapPlan(d, x, bias) \in G
      BY <1>1, <2>2, <3>2, BitmapGood
    <3> QED  BY <2>5, <2>7, <3>3
  <2> QED  BY <2>6, <2>7
<1>9. plans \in Seq(G)
  <2> HIDE DEF plan, G
  <2> QED  BY <1>6, <1>8
<1> HIDE DEF plans
<1>10. FlattenSeq(plans) \in G
  BY <1>9, GoodFlat
<1> QED  BY <1>5, <1>10 DEF relr, bias

LEMMA RelrGood ==
  ASSUME NEW l, IsElfLoad(l)
  PROVE  FlattenSeq([s \in DOMAIN ImageOf(l).relr |-> RelrPlan(ImageOf(l).relr[s], load_bias(ImageOf(l)))])
           \in Good(l)
<1> DEFINE img == ImageOf(l)
           plan(s) == RelrPlan(img.relr[s], load_bias(img))
           plans == [s \in DOMAIN img.relr |-> plan(s)]
<1>1. DOMAIN img.relr = 1 .. Len(img.relr) /\ Len(img.relr) \in Nat
  BY FileFacts DEF IsImage, IsElfLoad
<1>2. \A s \in DOMAIN img.relr : plan(s) \in Good(l)
  BY SectionGood
<1>3. plans \in Seq(Good(l))
  <2> HIDE DEF img, plan
  <2> QED  BY <1>1, <1>2
<1> HIDE DEF plans
<1>4. FlattenSeq(plans) \in Good(l)
  BY <1>3, GoodFlat
<1> QED  BY <1>4 DEF plans

-----------------------------------------------------------------------------
(* The end of the image. *)

ImageEnds(segs, bias) ==
  {AsWord(segs[i].addr + bias + segs[i].size) : i \in {j \in DOMAIN segs : segs[j].size # 0}}

LEMMA MaxVaddrIs ==
  ASSUME NEW segs \in Seq(FileSegment), NEW bias \in Nat
  PROVE  LET m == max_vaddr(segs, bias)
         IN  /\ m \in Nat /\ \A x \in ImageEnds(segs, bias) : x <= m
             /\ m # 0 => m \in ImageEnds(segs, bias)
<1> DEFINE n == Len(segs)
           J == {j \in DOMAIN segs : segs[j].size # 0}
           e == [i \in 1 .. n |-> AsWord(segs[i].addr + bias + segs[i].size)]
           T == {0} \cup {e[i] : i \in J}
<1>1. n \in Nat /\ DOMAIN segs = 1 .. n /\ \A i \in 1 .. n : segs[i] \in FileSegment
  OBVIOUS
<1>2. \A i \in 1 .. n : segs[i].addr \in Nat /\ segs[i].size \in Nat
  <2> HIDE DEF n
  <2> QED  BY <1>1 DEF FileSegment
<1>3. e \in [1 .. n -> Nat] /\ J \in SUBSET (1 .. n)
  <2> HIDE DEF n
  <2>1. ASSUME NEW i \in 1 .. n
        PROVE  AsWord(segs[i].addr + bias + segs[i].size) \in Nat
    <3>1. segs[i].addr + bias + segs[i].size \in Int
      BY <1>2
    <3> QED  BY <3>1, AsWordIs
  <2> QED  BY <1>1, <2>1
<1>4. T = {0} \cup ImageEnds(segs, bias)
  <2> HIDE DEF n
  <2> QED  BY <1>1 DEF ImageEnds
<1>5. max_vaddr(segs, bias) = Max({0} \cup ImageEnds(segs, bias))
  BY DEF max_vaddr, ImageEnds
<1>6. Max(T) \in T /\ \A x \in T : x <= Max(T)
  <2> HIDE DEF n, e, J
  <2> QED  BY <1>1, <1>3, MaxIs
<1>7. T \subseteq Nat
  <2> HIDE DEF n, e
  <2> QED  BY <1>1, <1>3
<1> HIDE DEF T
<1> QED  BY <1>4, <1>5, <1>6, <1>7

(* Where the strings of a list come to lie: one below the other. *)
LEMMA PushedIs ==
  ASSUME NEW sp \in Int, NEW strs \in Seq(Seq(Byte))
  PROVE  LET at == Pushed(sp, strs)
             n  == Len(strs)
         IN  /\ at[0] = sp /\ \A i \in 1 .. n : at[i] = at[i - 1] - (Len(strs[i]) + 1)
             /\ \A i \in 0 .. n : at[i] \in Int /\ at[i] <= sp /\ at[n] <= at[i]
<1> DEFINE n == Len(strs)
           Z == Int
           F == [i \in 1 .. n |-> [a \in Z |-> a - (Len(strs[i]) + 1)]]
           IsAt(f) == f = [i \in 0 .. n |-> IF i = 0 THEN sp ELSE f[i - 1] - (Len(strs[i]) + 1)]
           at == CHOOSE f : IsAt(f)
<1>1. n \in Nat /\ \A i \in 1 .. n : Len(strs[i]) \in Nat
  OBVIOUS
<1>2. F \in Steps(n, Z)
  <2> HIDE DEF n
  <2> QED  BY <1>1 DEF Steps
<1>3. PICK f : Run(n, Z, sp, F, f)
  <2>1. sp \in Z
    OBVIOUS
  <2> HIDE DEF F, n, Z
  <2> QED  BY <1>1, <1>2, <2>1, Iterates
<1>4. /\ f \in [0 .. n -> Int] /\ f[0] = sp
      /\ \A i \in 1 .. n : f[i] = f[i - 1] - (Len(strs[i]) + 1)
  <2>1. f \in [0 .. n -> Int] /\ f[0] = sp /\ \A i \in 1 .. n : f[i] = F[i][f[i - 1]]
    BY <1>3 DEF Run
  <2>2. ASSUME NEW i \in 1 .. n
        PROVE  f[i] = f[i - 1] - (Len(strs[i]) + 1)
    <3>1. f[i - 1] \in Int
      <4>1. i - 1 \in 0 .. n
        BY <1>1
      <4> HIDE DEF n
      <4> QED  BY <2>1, <4>1
    <3> QED  BY <2>1, <3>1
  <2> QED  BY <2>1, <2>2
<1>5. IsAt(f)
  <2>1. \A i \in 0 .. n : i = 0 \/ i \in 1 .. n
    BY <1>1
  <2> HIDE DEF n
  <2> QED  BY <1>4, <2>1
<1>6. IsAt(at)
  <2> HIDE DEF IsAt
  <2> QED  BY <1>5
<1>7. Pushed(sp, strs) = at
  BY DEF Pushed
<1>8. at[0] = sp /\ \A i \in 1 .. n : at[i] = at[i - 1] - (Len(strs[i]) + 1)
  <2>1. 0 \in 0 .. n /\ \A i \in 1 .. n : i \in 0 .. n /\ i # 0
    BY <1>1
  <2> DEFINE b == at
  <2> HIDE DEF n, at
  <2> QED  BY <1>6, <2>1
<1> HIDE DEF at, IsAt, F
<1> DEFINE Falls(i) == at[i] \in Int /\ \A j \in 0 .. i : at[j] \in Int /\ at[i] <= at[j]
           Bad == {i \in 0 .. n : ~Falls(i)}
<1>9. Bad = {}
  <2> SUFFICES ASSUME Bad # {} PROVE FALSE
    OBVIOUS
  <2>1. PICK i \in Bad : \A j \in Bad : i <= j
    <3>1. Bad \in SUBSET Nat
      OBVIOUS
    <3> HIDE DEF Bad
    <3> QED  BY <3>1, Least
  <2>2. i # 0
    BY <1>8
  <2>3. i \in 1 .. n /\ i - 1 \in 0 .. n /\ ~(i <= i - 1)
    BY <1>1, <2>2
  <2>4. Falls(i - 1)
    <3> HIDE DEF Falls
    <3> QED  BY <2>1, <2>3
  <2>5. at[i] = at[i - 1] - (Len(strs[i]) + 1) /\ Len(strs[i]) \in Nat
    BY <1>1, <1>8, <2>3
  <2>6. at[i] \in Int /\ at[i] <= at[i - 1]
    BY <2>4, <2>5
  <2>7. \A j \in 0 .. i : j = i \/ j \in 0 .. i - 1
    BY <2>3
  <2>8. Falls(i)
    <3>1. ASSUME NEW j \in 0 .. i
          PROVE  at[j] \in Int /\ at[i] <= at[j]
      <4>1. CASE j = i
        BY <2>6, <4>1
      <4>2. CASE j \in 0 .. i - 1
        <5>1. at[j] \in Int /\ at[i - 1] <= at[j] /\ at[i - 1] \in Int
          BY <2>4, <4>2
        <5> QED  BY <2>6, <5>1
      <4> QED  BY <2>7, <4>1, <4>2
    <3> QED  BY <2>6, <3>1
  <2> HIDE DEF Falls
  <2> QED  BY <2>8
<1>10. ASSUME NEW i \in 0 .. n
       PROVE  at[i] \in Int /\ at[i] <= sp /\ at[n] <= at[i]
  <2>1. Falls(i) /\ Falls(n)
    <3>1. n \in 0 .. n
      BY <1>1
    <3> HIDE DEF Falls, n
    <3> QED  BY <1>9, <3>1
  <2>2. 0 \in 0 .. i /\ i \in 0 .. n
    OBVIOUS
  <2> HIDE DEF n
  <2> QED  BY <1>8, <2>1, <2>2
<1> QED  BY <1>7, <1>8, <1>10

(* The writes that must succeed and stay between two addresses. *)
Within(lo, hi) == {c \in AnyWrite : c.must /\ lo <= c.addr /\ c.addr + c.len <= hi}

LEMMA WithinWider ==
  ASSUME NEW lo \in Int, NEW hi \in Int, NEW lo2 \in Int, NEW hi2 \in Int, lo2 <= lo, hi <= hi2,
         NEW s \in Seq(Within(lo, hi))
  PROVE  s \in Seq(Within(lo2, hi2))
<1> DEFINE A == Within(lo, hi)
           B == Within(lo2, hi2)
<1>1. A \subseteq B
  <2> SUFFICES ASSUME NEW c \in A PROVE c \in B
    OBVIOUS
  <2>1. c.addr \in Int /\ c.len \in Nat
    BY DEF Within, AnyWrite
  <2> QED  BY <2>1 DEF Within
<1> HIDE DEF A, B
<1>2. s \in Seq(B)
  <2>1. s \in Seq(A)
    BY DEF A
  <2> QED  BY <1>1, <2>1
<1> QED  BY <1>2 DEF B

LEMMA PushStringsIs ==
  ASSUME NEW sp \in Int, NEW strs \in Seq(Seq(Byte))
  PROVE  LET r == PushStrings(sp, strs)
         IN  /\ r.sp \in Int /\ r.sp <= sp /\ r.ptrs \in Seq(Int) /\ r.plan \in Seq(Within(r.sp, sp))
<1> DEFINE at == Pushed(sp, strs)
           n == Len(strs)
           low == at[n]
           C == Within(low, sp)
           list(i) == PushString(at[i], strs[i])
           lists == [i \in DOMAIN strs |-> list(i)]
           r == PushStrings(sp, strs)
<1>1. n \in Nat /\ DOMAIN strs = 1 .. n /\ \A i \in 1 .. n : strs[i] \in Seq(Byte) /\ Len(strs[i]) \in Nat
  OBVIOUS
<1>2. /\ at[0] = sp /\ \A i \in 1 .. n : at[i] = at[i - 1] - (Len(strs[i]) + 1)
      /\ \A i \in 0 .. n : at[i] \in Int /\ at[i] <= sp /\ low <= at[i]
  BY PushedIs
<1> HIDE DEF at
<1>3. n \in 0 .. n
  BY <1>1
<1>4. low \in Int /\ low <= sp
  <2> HIDE DEF n
  <2> QED  BY <1>2, <1>3
<1>5. ASSUME NEW i \in 1 .. n
      PROVE  list(i) \in Seq(C)
  <2> DEFINE s == strs[i]
             a == at[i]
             zero == <<0>>
             must == TRUE
             v == Write(a, s, must)
             w == Write(a + Len(s), zero, must)
  <2>1. i \in 0 .. n /\ i - 1 \in 0 .. n
    BY <1>1
  <2>2. s \in Seq(Byte) /\ Len(s) \in Nat /\ a \in Int /\ low <= a /\ a + Len(s) + 1 <= sp
    <3>1. at[i - 1] \in Int /\ at[i - 1] <= sp /\ at[i] = at[i - 1] - (Len(strs[i]) + 1)
      <4> HIDE DEF n
      <4> QED  BY <1>2, <2>1
    <3>2. a \in Int /\ low <= a
      <4> HIDE DEF n, low
      <4> QED  BY <1>2, <2>1
    <3>3. s \in Seq(Byte) /\ Len(s) \in Nat
      BY <1>1
    <3> DEFINE prev == at[i - 1]
               len == Len(s)
    <3>4. prev \in Int /\ prev <= sp /\ a = prev - (len + 1) /\ a \in Int /\ len \in Nat
      BY <3>1, <3>2, <3>3
    <3> HIDE DEF prev, len, a
    <3>5. a + len + 1 <= sp
      BY <3>4
    <3> HIDE DEF n, low, s
    <3> QED  BY <3>2, <3>3, <3>5 DEF len
  <2>3. zero \in Seq(Byte) /\ Len(zero) = 1
    BY ByteAssumption
  <2>4. must \in BOOLEAN /\ must
    OBVIOUS
  <2> DEFINE k == Len(s)
             a2 == a + k
  <2>5. k \in Nat /\ a2 \in Int
    BY <2>2
  <2>6. list(i) = <<v, w>>
    BY DEF PushString
  <2> HIDE DEF s, zero, must, low, a, n
  <2>7. v \in AnyWrite /\ v.addr = a /\ v.len = k /\ v.must = must
    BY <2>2, <2>4, WriteTyped
  <2> HIDE DEF v, a2, k
  <2>8. w \in AnyWrite /\ w.addr = a2 /\ w.len = 1 /\ w.must = must
    BY <2>3, <2>4, <2>5, WriteTyped DEF a2, k
  <2> HIDE DEF w
  <2>10. low <= a /\ a + k <= sp /\ low <= a2 /\ a2 + 1 <= sp
    BY <1>4, <2>2, <2>5 DEF a2, k
  <2> HIDE DEF a2, k
  <2>9. v \in C /\ w \in C
    <3>1. v.must /\ low <= v.addr /\ v.addr + v.len <= sp
      BY <2>4, <2>7, <2>10
    <3>2. w.must /\ low <= w.addr /\ w.addr + w.len <= sp
      BY <2>4, <2>8, <2>10
    <3> QED  BY <2>7, <2>8, <3>1, <3>2 DEF Within
  <2> HIDE DEF C, list
  <2> QED  BY <2>6, <2>9
<1> DEFINE V == Seq(C)
<1>6. lists \in Seq(V)
  <2>1. lists = [i \in 1 .. n |-> list(i)]
    BY <1>1
  <2>2. n \in Nat
    BY <1>1
  <2> HIDE DEF n, list, C, lists, low, V
  <2>3. \A i \in 1 .. n : list(i) \in V
    BY <1>5 DEF V
  <2> QED  BY <2>1, <2>2, <2>3
<1>7. V \in SUBSET Seq(C) /\ <<>> \in V /\ \A s, t \in V : s \o t \in V
  <2> HIDE DEF C
  <2> QED  OBVIOUS
<1> HIDE DEF V, C, lists
<1>8. FlattenSeq(lists) \in V
  BY <1>6, <1>7, Flattened
<1> DEFINE ptrs == [i \in DOMAIN strs |-> at[i]]
<1>9. ptrs \in Seq(Int)
  <2>1. \A i \in 1 .. n : i \in 0 .. n
    OBVIOUS
  <2>2. \A i \in DOMAIN strs : at[i] \in Int
    <3> HIDE DEF n
    <3> QED  BY <1>1, <1>2, <2>1
  <2>3. n \in Nat /\ DOMAIN strs = 1 .. n
    BY <1>1
  <2> HIDE DEF n
  <2> QED  BY <2>2, <2>3
<1> HIDE DEF ptrs, low, n
<1>10. r.sp = low /\ r.ptrs = ptrs /\ r.plan = FlattenSeq(lists)
  BY DEF PushStrings, low, ptrs, lists, at, n
<1> HIDE DEF r
<1>11. r.plan \in Seq(Within(r.sp, sp))
  BY <1>8, <1>10 DEF V, C
<1>12. r.sp \in Int /\ r.sp <= sp /\ r.ptrs \in Seq(Int)
  BY <1>4, <1>9, <1>10
<1> QED  BY <1>11, <1>12 DEF r

LEMMA PushWordsIs ==
  ASSUME NEW sp \in Int, NEW words \in Seq(Int)
  PROVE  /\ BelowWords(sp, words) \in Int /\ BelowWords(sp, words) <= sp
         /\ PushWords(sp, words) \in Seq(Within(BelowWords(sp, words), sp))
<1> DEFINE n == Len(words)
           low == BelowWords(sp, words)
           C == Within(low, sp)
           call(i) == WriteWord(sp - PtrBytes * i, words[Len(words) + 1 - i], TRUE)
<1>1. n \in Nat /\ PtrBytes \in Nat /\ \A k \in 1 .. n : words[k] \in Int
  BY PtrAssumption
<1>2. low = sp - PtrBytes * n
  BY DEF BelowWords
<1> HIDE DEF low
<1>3. low \in Int /\ low <= sp
  <2>1. PtrBytes * n \in Nat
    <3> HIDE DEF n
    <3> QED  BY <1>1
  <2> HIDE DEF n
  <2> QED  BY <1>2, <2>1
<1>4. ASSUME NEW i \in 1 .. n
      PROVE  call(i) \in C
  <2> DEFINE a == sp - PtrBytes * i
             v == words[Len(words) + 1 - i]
             must == TRUE
             w == WriteInt(a, v, PtrBytes, must)
  <2>1. v \in Int
    <3>1. n + 1 - i \in 1 .. n
      BY <1>1
    <3> QED  BY <1>1, <3>1
  <2>2. a \in Int /\ low <= a /\ a + PtrBytes <= sp
    <3>1. i - 1 \in Nat /\ n - i \in Nat /\ i \in Nat
      BY <1>1
    <3>2. PtrBytes * i \in Nat /\ PtrBytes * (i - 1) \in Nat /\ PtrBytes * (n - i) \in Nat /\ PtrBytes * n \in Nat
      <4> HIDE DEF n
      <4> QED  BY <1>1, <3>1
    <3>3. PtrBytes * i = PtrBytes * (i - 1) + PtrBytes /\ PtrBytes * n = PtrBytes * i + PtrBytes * (n - i)
      <4> HIDE DEF n
      <4> QED  BY <1>1, <3>1
    <3> HIDE DEF n
    <3> QED  BY <1>1, <1>2, <3>2, <3>3
  <2>3. must \in BOOLEAN /\ must
    OBVIOUS
  <2>4. call(i) = w
    BY DEF WriteWord
  <2> HIDE DEF a, v, must
  <2>7. PtrBytes \in Nat /\ a \in Int /\ v \in Int /\ must \in BOOLEAN
    BY <1>1, <2>1, <2>2, <2>3
  <2>5. w \in AnyWrite /\ w.addr = a /\ w.len = PtrBytes /\ w.must = must
    BY <2>7, WriteIntTyped
  <2> HIDE DEF w
  <2>6. w \in C
    BY <2>2, <2>3, <2>5 DEF Within
  <2> HIDE DEF C, call
  <2> QED  BY <2>4, <2>6
<1>5. PushWords(sp, words) = [i \in 1 .. n |-> call(i)]
  BY DEF PushWords
<1> HIDE DEF call, C, n
<1>6. PushWords(sp, words) \in Seq(C)
  BY <1>1, <1>4, <1>5
<1> QED  BY <1>3, <1>6 DEF C, low

(* The symbol that stands in for the entry is one of the file's. *)
LEMMA EntrySymbolIs ==
  ASSUME NEW l, IsElfLoad(l), EntrySymbol(ImageOf(l)) # 0
  PROVE  LET syms == ImageOf(l).symbols \o ImageOf(l).dynsyms
             s    == syms[EntrySymbol(ImageOf(l))]
         IN  s \in ToSet(syms) /\ s.addr \in Nat
<1> DEFINE img == ImageOf(l)
           syms == img.symbols \o img.dynsyms
           T == {i \in 1 .. Len(syms) : syms[i].name \in EntryNames}
           pos == EntrySymbol(img)
           n == Len(syms)
<1>1. syms \in Seq(Symbol) /\ n \in Nat /\ DOMAIN syms = 1 .. n
  <2> DEFINE a == img.symbols
             b == img.dynsyms
             S == Symbol
             ab == a \o b
  <2>1. a \in Seq(S) /\ b \in Seq(S)
    BY FileFacts DEF IsImage, IsElfLoad
  <2> HIDE DEF a, b, S
  <2>2. ab \in Seq(S)
    BY <2>1
  <2> HIDE DEF ab
  <2>3. ab \in Seq(S) /\ Len(ab) \in Nat /\ DOMAIN ab = 1 .. Len(ab)
    BY <2>2
  <2> QED  BY <2>3 DEF ab, a, b, S
<1>2. pos = IF T # {} THEN Min(T) ELSE 0
  BY DEF EntrySymbol, SelectInSeq
<1>3. T \in SUBSET (1 .. n)
  OBVIOUS
<1> HIDE DEF pos, T, n
<1>4. T # {} /\ pos = Min(T)
  BY <1>2 DEF pos
<1>5. pos \in T
  BY <1>1, <1>3, <1>4, SelectedMatches
<1>6. pos \in DOMAIN syms
  BY <1>1, <1>3, <1>5
<1> HIDE DEF syms
<1>7. syms[pos] \in Symbol /\ syms[pos] \in ToSet(syms)
  BY <1>1, <1>6 DEF ToSet
<1>8. syms[pos].addr \in Nat
  BY <1>7 DEF Symbol
<1> QED  BY <1>7, <1>8 DEF syms, pos

LEMMA EntryInt ==
  ASSUME NEW l, IsElfLoad(l)
  PROVE  elf_entry(ImageOf(l)) \in Int
<1> DEFINE img == ImageOf(l)
           found == EntrySymbol(img) # 0
           at == (img.symbols \o img.dynsyms)[EntrySymbol(img)].addr
           v == IF found THEN at ELSE img.entry
           sum == load_bias(img) + v
<1>1. img.entry \in Nat /\ load_bias(img) \in Nat
  BY FileFacts DEF IsImage, IsElfLoad, PlanBias
<1>2. found => at \in Nat
  BY EntrySymbolIs
<1>3. elf_entry(img) = AsWord(sum)
  BY DEF elf_entry
<1> HIDE DEF img, at, found
<1>4. sum \in Int
  BY <1>1, <1>2
<1> HIDE DEF sum
<1>5. elf_entry(img) \in Int
  BY <1>3, <1>4, AsWordIs
<1> QED  BY <1>5 DEF img

LEMMA EntryGood ==
  ASSUME NEW l, IsElfLoad(l)
  PROVE  EntryPlan(ImageOf(l)) \in Good(l)
<1> DEFINE img == ImageOf(l)
           syms == img.symbols \o img.dynsyms
           s == syms[EntrySymbol(img)]
           found == EntrySymbol(img) # 0
           v == img.entry + load_bias(img)
           w == s.addr + load_bias(img)
           a == Checked(v)
           b == IF found THEN Checked(w) ELSE <<>>
<1>1. img.entry \in Nat /\ load_bias(img) \in Nat
  BY FileFacts DEF IsImage, IsElfLoad, PlanBias
<1>2. Fitting(l) => \A x \in {img.entry} \cup {t.addr : t \in ToSet(syms)} : x + load_bias(img) < WordTop
  BY DEF Fitting, ElfFits, IsElfLoad
<1>3. found => s \in ToSet(syms) /\ s.addr \in Nat
  BY EntrySymbolIs
<1>4. EntryPlan(img) = a \o b
  BY DEF EntryPlan
<1> HIDE DEF img, syms, s, found
<1>5. v \in Nat /\ (Fitting(l) => v < WordTop)
  BY <1>1, <1>2
<1>6. found => w \in Nat /\ (Fitting(l) => w < WordTop)
  BY <1>1, <1>2, <1>3
<1> HIDE DEF v, w
<1>7. a \in Good(l) /\ b \in Good(l)
  BY <1>5, <1>6, CheckedGood, GoodEmpty
<1> HIDE DEF a, b
<1>8. a \o b \in Good(l)
  BY <1>7, GoodJoins
<1> QED  BY <1>4, <1>8 DEF img

LEMMA MachOEntryGood ==
  ASSUME NEW l \in Loads, Parses(l.file), l.file.magic \in MachOMagic
  PROVE  MachOEntryPlan(ImageOf(l)) \in Good(l)
<1> DEFINE img == ImageOf(l)
           raw == RawEntry(img)
           bias == macho_bias(img)
           v == AsWord(raw) + bias
           a == Checked(raw)
           b == Checked(v)
<1>1. bias \in Nat /\ img.entry \in Nat /\ img.segs \in Seq(FileSegment)
  BY FileFacts DEF IsImage, PlanBias
<1>2. first_seg_addr(img) \in Nat
  <2> DEFINE segs == img.segs
  <2>1. segs \in Seq(FileSegment)
    BY <1>1
  <2>2. first_seg_addr(img) = IF segs = <<>> THEN 0 ELSE segs[1].addr
    BY DEF first_seg_addr
  <2> HIDE DEF segs
  <2>3. segs # <<>> => segs[1] \in FileSegment
    BY <2>1
  <2> QED  BY <2>2, <2>3 DEF FileSegment
<1>3. raw \in Nat
  BY <1>1, <1>2 DEF RawEntry
<1>4. Fitting(l) => raw + bias < WordTop
  BY DEF Fitting, MachOFits
<1>5. MachOEntryPlan(img) = a \o b
  BY DEF MachOEntryPlan
<1> HIDE DEF raw, bias
<1>6. AsWord(raw) \in Nat /\ AsWord(raw) <= raw
  BY <1>3, AsWordIs
<1>7. v \in Nat /\ (Fitting(l) => raw < WordTop /\ v < WordTop)
  BY <1>1, <1>3, <1>4, <1>6, WordFacts
<1> HIDE DEF v
<1>8. a \in Good(l) /\ b \in Good(l)
  BY <1>3, <1>7, CheckedGood
<1> HIDE DEF a, b
<1>9. a \o b \in Good(l)
  BY <1>8, GoodJoins
<1> QED  BY <1>5, <1>9

LEMMA AuxvGood ==
  ASSUME NEW l, IsElfLoad(l)
  PROVE  AuxvPlan(ImageOf(l), l.file.size) \in Good(l)
<1> DEFINE v == ElfBias + ImageOf(l).phoff
<1>1. CASE l.file.size < HeaderEnd
  <2>1. Unfit(l)
    BY <1>1 DEF Unfit, IsElfLoad
  <2>2. AuxvPlan(ImageOf(l), l.file.size) = <<Panic>>
    BY <1>1 DEF AuxvPlan
  <2> QED  BY <2>1, <2>2, PanicGood
<1>2. CASE ~(l.file.size < HeaderEnd)
  <2>1. v \in Nat
    BY FileFacts, ElfAssumption DEF IsImage, IsElfLoad
  <2>2. Fitting(l) => v < WordTop
    BY DEF Fitting, ElfFits, IsElfLoad
  <2>3. AuxvPlan(ImageOf(l), l.file.size) = Checked(v)
    BY <1>2 DEF AuxvPlan
  <2> HIDE DEF v
  <2>4. Checked(v) \in Good(l)
    BY <2>1, <2>2, CheckedGood
  <2> QED  BY <2>3, <2>4
<1> QED  BY <1>1, <1>2

LEMMA AuxvInt ==
  ASSUME NEW l, IsElfLoad(l), NEW p \in Int, NEW r \in Int
  PROVE  auxv(ImageOf(l), p, r) \in Seq(Int)
<1> DEFINE e == elf_entry(ImageOf(l))
           ph == ElfBias + ImageOf(l).phoff
           sz == ImageOf(l).phentsize
           nm == ImageOf(l).phnum
<1>1. e \in Int /\ ph \in Int /\ sz \in Int /\ nm \in Int /\ PAGE_SIZE \in Int
  <2>1. e \in Int
    BY EntryInt
  <2>2. ph \in Int /\ sz \in Int /\ nm \in Int
    BY FileFacts, ElfAssumption DEF IsImage, IsElfLoad
  <2>3. PAGE_SIZE \in Int
    BY PageAssumption
  <2> HIDE DEF e, ph, sz, nm
  <2> QED  BY <2>1, <2>2, <2>3
<1>2. auxv(ImageOf(l), p, r) =
        <<3, ph, 4, sz, 5, nm, 6, PAGE_SIZE, 7, 0, 8, 0, 9, e, 11, 0, 12, 0, 13, 0, 14, 0, 15, p,
          16, 0, 17, 100, 23, 0, 25, r, 26, 0, 0, 0>>
  BY DEF auxv
<1> HIDE DEF e, ph, sz, nm
<1> QED  BY <1>1, <1>2

LEMMA AlignedDown ==
  ASSUME NEW sp \in Int
  PROVE  AlignStack(sp) \in Int /\ AlignStack(sp) <= sp
<1> DEFINE p == 2 * PtrBytes
<1>1. p \in Nat \ {0}
  BY PtrAssumption
<1> HIDE DEF p
<1>2. sp % p \in 0 .. p - 1
  BY <1>1
<1>3. AlignStack(sp) = sp - (sp % p)
  BY DEF AlignStack, p
<1> DEFINE q == sp % p
<1> HIDE DEF q
<1>4. q \in 0 .. p - 1 /\ AlignStack(sp) = sp - q
  BY <1>2, <1>3 DEF q
<1> QED  BY <1>1, <1>4

(* What is pushed on the stack is good for any load whose stack pointer    *)
(* ends there.                                                             *)
LEMMA StackGood ==
  ASSUME NEW l \in Loads, Parses(l.file), NEW s \in Seq(Within(StackPointer(l), StackTop))
  PROVE  <<StackMap>> \in Good(l) /\ s \in Good(l)
<1> DEFINE sp == StackPointer(l)
           C == Within(sp, StackTop)
           S == Steady(l)
<1>1. sp \in Nat /\ sp >= DirectBase /\ DirectBase \in Nat
  BY FileFacts, AddressAssumption
<1> HIDE DEF sp
<1>2. ASSUME NEW c \in C
      PROVE  c \in S /\ ~NeedsMap(c)
  <2>1. c \in AnyWrite /\ c.addr \in Int /\ c.len \in Nat
    BY DEF Within, AnyWrite
  <2>2. c.addr \in Nat /\ c.addr >= DirectBase /\ sp <= c.addr /\ c.addr + c.len <= StackTop
    BY <1>1, <2>1 DEF Within
  <2>3. c \in Writes(l)
    BY <2>1, <2>2 DEF Writes, OnStack, sp
  <2>4. ~NeedsMap(c)
    BY <1>1, <2>2 DEF NeedsMap
  <2> QED  BY <2>3, <2>4 DEF Steady
<1>3. StackMap \in S /\ ~NeedsMap(StackMap)
  <2>1. /\ StackTop - StackSize \in Nat /\ StackTop - StackSize # 0 /\ StackSize \in Nat
        /\ StackTop - StackSize + StackSize < WordTop
    BY RegionAssumption, AddressAssumption, WordFacts
  <2>2. StackMap \in Maps(l)
    BY <2>1 DEF StackMap, Map, Maps, Places
  <2> QED  BY <2>2 DEF Steady, StackMap, Map, NeedsMap
<1> HIDE DEF C, S
<1>4. s \in Seq(S) /\ \A k \in DOMAIN s : ~NeedsMap(s[k])
  <2>1. s \in Seq(C)
    BY DEF C, sp
  <2>2. \A k \in DOMAIN s : s[k] \in C
    BY <2>1
  <2>3. s = [k \in 1 .. Len(s) |-> s[k]] /\ Len(s) \in Nat /\ DOMAIN s = 1 .. Len(s)
    BY <2>1
  <2> DEFINE n == Len(s)
  <2>4. \A k \in 1 .. n : s[k] \in S
    BY <1>2, <2>2, <2>3
  <2> HIDE DEF n
  <2>5. s \in Seq(S)
    BY <2>3, <2>4 DEF n
  <2> QED  BY <1>2, <2>2, <2>5
<1>5. s \in Good(l)
  BY <1>4, GoodPlain DEF S
<1>6. <<StackMap>> \in Good(l)
  BY <1>3, GoodOne DEF S
<1> QED  BY <1>5, <1>6

LEMMA StackBounds ==
  /\ StackTop - StackGap \in Int /\ StackTop - StackGap <= StackTop /\ StackTop \in Int
BY RegionAssumption

LEMMA ElfStackGood ==
  ASSUME NEW l, IsElfLoad(l)
  PROVE  ElfStack(ImageOf(l), l.file.size, l.args).plan \in Good(l)
<1> DEFINE img == ImageOf(l)
           args == l.args
           size == l.file.size
           top == StackTop - StackGap
           arg == PushStrings(top, args)
           env == PushStrings(arg.sp, ElfEnv)
           platform_ptr == env.sp - Len(Platform)
           random_bytes_ptr == platform_ptr - Len(RandomBytes)
           aux == auxv(img, platform_ptr, random_bytes_ptr)
           words == <<Len(args)>> \o arg.ptrs \o <<0>> \o env.ptrs \o <<0>> \o aux
           sp == AlignStack(random_bytes_ptr) - Padding(words)
           low == BelowWords(sp, words)
           x == AuxvPlan(img, size)
           v == Write(platform_ptr, Platform, TRUE)
           w == Write(random_bytes_ptr, RandomBytes, TRUE)
<1>0. /\ ElfStack(img, size, args).plan =
           <<StackMap>> \o arg.plan \o env.plan \o <<v, w>> \o x \o PushWords(sp, words)
      /\ ElfStack(img, size, args).sp = low
  BY DEF ElfStack
<1>1. /\ args \in Seq(Seq(Byte)) /\ ElfEnv \in Seq(Seq(Byte))
      /\ Platform \in Seq(Byte) /\ RandomBytes \in Seq(Byte)
  BY FileFacts, ElfAssumption DEF IsElfLoad
<1>2. top \in Int /\ top <= StackTop /\ StackTop \in Int
  BY StackBounds
<1>20. x \in Good(l)
  BY AuxvGood
<1> HIDE DEF img, args, size, top, x
<1>3. arg.sp \in Int /\ arg.sp <= top /\ arg.ptrs \in Seq(Int) /\ arg.plan \in Seq(Within(arg.sp, top))
  BY <1>1, <1>2, PushStringsIs
<1> HIDE DEF arg
<1>4. env.sp \in Int /\ env.sp <= arg.sp /\ env.ptrs \in Seq(Int) /\ env.plan \in Seq(Within(env.sp, arg.sp))
  <2> DEFINE a == arg.sp
  <2>1. a \in Int
    BY <1>3
  <2> HIDE DEF a
  <2>2. LET e == PushStrings(a, ElfEnv)
        IN  e.sp \in Int /\ e.sp <= a /\ e.ptrs \in Seq(Int) /\ e.plan \in Seq(Within(e.sp, a))
    BY <1>1, <2>1, PushStringsIs
  <2> QED  BY <2>2 DEF a
<1> HIDE DEF env
<1>5. /\ Len(Platform) \in Nat /\ Len(RandomBytes) \in Nat
      /\ platform_ptr \in Int /\ platform_ptr + Len(Platform) = env.sp
      /\ random_bytes_ptr \in Int /\ random_bytes_ptr + Len(RandomBytes) = platform_ptr
  BY <1>1, <1>4
<1> HIDE DEF platform_ptr, random_bytes_ptr
<1>6. aux \in Seq(Int)
  BY <1>5, AuxvInt DEF img
<1> HIDE DEF aux
<1>7. words \in Seq(Int)
  <2>1. <<Len(args)>> \in Seq(Int) /\ <<0>> \in Seq(Int)
    BY <1>1
  <2> DEFINE argc == <<Len(args)>>
             z == <<0>>
             p == arg.ptrs
             e == env.ptrs
  <2>2. argc \in Seq(Int) /\ z \in Seq(Int) /\ p \in Seq(Int) /\ e \in Seq(Int)
    BY <1>3, <1>4, <2>1
  <2> HIDE DEF argc, z, p, e
  <2>3. argc \o p \o z \o e \o z \o aux \in Seq(Int)
    BY <1>6, <2>2
  <2> QED  BY <2>3 DEF argc, z, p, e
<1> HIDE DEF words
<1>8. Padding(words) \in Nat
  BY PtrAssumption DEF Padding
<1>9. sp \in Int /\ sp <= random_bytes_ptr
  <2>1. AlignStack(random_bytes_ptr) \in Int /\ AlignStack(random_bytes_ptr) <= random_bytes_ptr
    BY <1>5, AlignedDown
  <2> DEFINE al == AlignStack(random_bytes_ptr)
             pad == Padding(words)
  <2>2. al \in Int /\ al <= random_bytes_ptr /\ pad \in Nat
    BY <1>8, <2>1
  <2> HIDE DEF al, pad
  <2> QED  BY <1>5, <2>2 DEF al, pad
<1> HIDE DEF sp
<1>10. low \in Int /\ low <= sp /\ PushWords(sp, words) \in Seq(Within(low, sp))
  BY <1>7, <1>9, PushWordsIs
<1> DEFINE T == Seq(Within(low, StackTop))
<1> HIDE DEF low
<1>11. low <= random_bytes_ptr /\ low <= platform_ptr /\ low <= env.sp /\ low <= arg.sp
       /\ arg.sp <= StackTop /\ env.sp <= StackTop /\ platform_ptr <= StackTop /\ sp <= StackTop
  <2> DEFINE a == arg.sp
             e == env.sp
             m == Len(Platform)
             n == Len(RandomBytes)
  <2>1. a \in Int /\ a <= top /\ e \in Int /\ e <= a
    BY <1>3, <1>4
  <2>2. /\ m \in Nat /\ platform_ptr \in Int /\ platform_ptr + m = e
        /\ n \in Nat /\ random_bytes_ptr \in Int /\ random_bytes_ptr + n = platform_ptr
    BY <1>5
  <2> HIDE DEF a, e, m, n
  <2>3. platform_ptr <= e /\ random_bytes_ptr <= platform_ptr
    BY <2>1, <2>2
  <2>4. sp \in Int /\ sp <= random_bytes_ptr /\ low \in Int /\ low <= sp
    BY <1>9, <1>10
  <2>5. low <= random_bytes_ptr /\ low <= platform_ptr /\ low <= e /\ low <= a
    BY <2>1, <2>2, <2>3, <2>4
  <2>6. a <= StackTop /\ e <= StackTop /\ platform_ptr <= StackTop /\ sp <= StackTop
    BY <1>2, <2>1, <2>2, <2>3, <2>4
  <2> QED  BY <2>5, <2>6 DEF a, e
<1>12. arg.plan \in T
  BY <1>2, <1>3, <1>10, <1>11, WithinWider
<1>13. env.plan \in T
  <2> DEFINE a == arg.sp
             e == env.sp
             s == env.plan
  <2>1. a \in Int /\ e \in Int /\ s \in Seq(Within(e, a)) /\ low <= e /\ a <= StackTop
    BY <1>3, <1>4, <1>11
  <2> HIDE DEF a, e, s
  <2>2. s \in T
    BY <1>2, <1>10, <2>1, WithinWider
  <2> QED  BY <2>2 DEF s
<1>14. PushWords(sp, words) \in T
  <2> DEFINE s == PushWords(sp, words)
  <2>1. s \in Seq(Within(low, sp)) /\ low <= low
    BY <1>10
  <2> HIDE DEF s
  <2>2. s \in T
    BY <1>2, <1>9, <1>10, <1>11, <2>1, WithinWider
  <2> QED  BY <2>2 DEF s
<1>15. <<v, w>> \in T
  <2> DEFINE must == TRUE
             v1 == Write(platform_ptr, Platform, must)
             w1 == Write(random_bytes_ptr, RandomBytes, must)
  <2>0. must \in BOOLEAN /\ must
    OBVIOUS
  <2> HIDE DEF must
  <2>1. /\ v1 \in AnyWrite /\ v1.addr = platform_ptr /\ v1.len = Len(Platform) /\ v1.must
    BY <1>1, <1>5, <2>0, WriteTyped
  <2>2. /\ w1 \in AnyWrite /\ w1.addr = random_bytes_ptr /\ w1.len = Len(RandomBytes) /\ w1.must
    BY <1>1, <1>5, <2>0, WriteTyped
  <2> HIDE DEF v1, w1
  <2>3. v1 \in Within(low, StackTop) /\ w1 \in Within(low, StackTop)
    BY <1>5, <1>11, <2>1, <2>2 DEF Within
  <2> DEFINE W == Within(low, StackTop)
  <2> HIDE DEF W, v, w
  <2>4. <<v1, w1>> \in Seq(W)
    BY <2>3 DEF W
  <2>5. v1 = v /\ w1 = w
    BY DEF v1, w1, v, w, must
  <2> QED  BY <2>4, <2>5 DEF W
<1> DEFINE a == arg.plan
           e == env.plan
           p == <<v, w>>
           q == PushWords(sp, words)
           m == <<StackMap>>
<1>16. a \in T /\ e \in T /\ p \in T /\ q \in T
  BY <1>12, <1>13, <1>14, <1>15
<1> HIDE DEF a, e, p, q
<1>17. low = StackPointer(l)
  BY <1>0 DEF StackPointer, IsElfLoad, img, args, size
<1>18. m \in Good(l) /\ a \in Good(l) /\ e \in Good(l) /\ p \in Good(l) /\ q \in Good(l)
  <2>1. \A s \in Seq(Within(StackPointer(l), StackTop)) : <<StackMap>> \in Good(l) /\ s \in Good(l)
    BY StackGood DEF IsElfLoad
  <2> QED  BY <1>16, <1>17, <2>1
<1> HIDE DEF m
<1>19. m \o a \o e \o p \o x \o q \in Good(l)
  <2> DEFINE ma == m \o a
             mae == ma \o e
             maep == mae \o p
             maepx == maep \o x
  <2>1. ma \in Good(l)
    BY <1>18, GoodJoins
  <2> HIDE DEF ma
  <2>2. mae \in Good(l)
    BY <1>18, <2>1, GoodJoins
  <2> HIDE DEF mae
  <2>3. maep \in Good(l)
    BY <1>18, <2>2, GoodJoins
  <2> HIDE DEF maep
  <2>4. maepx \in Good(l)
    BY <1>20, <2>3, GoodJoins
  <2> HIDE DEF maepx
  <2>5. maepx \o q \in Good(l)
    BY <1>18, <2>4, GoodJoins
  <2> QED  BY <2>5 DEF maepx, maep, mae, ma
<1> QED  BY <1>0, <1>19 DEF a, e, p, q, m, img, args, size

LEMMA MachOStackGood ==
  ASSUME NEW l \in Loads, Parses(l.file), l.file.magic \in MachOMagic
  PROVE  MachOStack(l.path, l.args).plan \in Good(l)
<1> DEFINE args == l.args
           names == <<l.path, PfRandom>>
           top == StackTop - StackGap
           env == PushStrings(top, MachOEnv)
           apple == PushStrings(env.sp, names)
           arg == PushStrings(apple.sp, args)
           words == <<Len(args)>> \o arg.ptrs \o <<0>> \o env.ptrs \o <<0>> \o apple.ptrs \o <<0>>
           sp == AlignStack(arg.sp)
           low == BelowWords(sp, words)
           m == <<StackMap>>
           pushed == PushWords(sp, words)
<1>0. /\ MachOStack(l.path, l.args).plan = m \o env.plan \o apple.plan \o arg.plan \o pushed
      /\ MachOStack(l.path, l.args).sp = low
  BY DEF MachOStack
<1>1. args \in Seq(Seq(Byte)) /\ MachOEnv \in Seq(Seq(Byte)) /\ names \in Seq(Seq(Byte))
  BY FileFacts, MachOAssumption
<1>2. top \in Int /\ top <= StackTop /\ StackTop \in Int
  BY StackBounds
<1> HIDE DEF args, names, top
<1>3. env.sp \in Int /\ env.sp <= top /\ env.ptrs \in Seq(Int) /\ env.plan \in Seq(Within(env.sp, top))
  BY <1>1, <1>2, PushStringsIs
<1> HIDE DEF env
<1>4. apple.sp \in Int /\ apple.sp <= env.sp /\ apple.ptrs \in Seq(Int) /\ apple.plan \in Seq(Within(apple.sp, env.sp))
  <2> DEFINE a == env.sp
  <2>1. a \in Int
    BY <1>3
  <2> HIDE DEF a
  <2>2. LET e == PushStrings(a, names)
        IN  e.sp \in Int /\ e.sp <= a /\ e.ptrs \in Seq(Int) /\ e.plan \in Seq(Within(e.sp, a))
    BY <1>1, <2>1, PushStringsIs
  <2> QED  BY <2>2 DEF a
<1> HIDE DEF apple
<1>5. arg.sp \in Int /\ arg.sp <= apple.sp /\ arg.ptrs \in Seq(Int) /\ arg.plan \in Seq(Within(arg.sp, apple.sp))
  <2> DEFINE a == apple.sp
  <2>1. a \in Int
    BY <1>4
  <2> HIDE DEF a
  <2>2. LET e == PushStrings(a, args)
        IN  e.sp \in Int /\ e.sp <= a /\ e.ptrs \in Seq(Int) /\ e.plan \in Seq(Within(e.sp, a))
    BY <1>1, <2>1, PushStringsIs
  <2> QED  BY <2>2 DEF a
<1> HIDE DEF arg
<1>6. words \in Seq(Int)
  <2>1. <<Len(args)>> \in Seq(Int) /\ <<0>> \in Seq(Int)
    BY <1>1
  <2> DEFINE argc == <<Len(args)>>
             z == <<0>>
             p == arg.ptrs
             e == env.ptrs
             a == apple.ptrs
  <2>2. argc \in Seq(Int) /\ z \in Seq(Int) /\ p \in Seq(Int) /\ e \in Seq(Int) /\ a \in Seq(Int)
    BY <1>3, <1>4, <1>5, <2>1
  <2> HIDE DEF argc, z, p, e, a
  <2>3. argc \o p \o z \o e \o z \o a \o z \in Seq(Int)
    BY <2>2
  <2> QED  BY <2>3 DEF argc, z, p, e, a
<1> HIDE DEF words
<1>7. sp \in Int /\ sp <= arg.sp
  BY <1>5, AlignedDown
<1> HIDE DEF sp
<1>8. low \in Int /\ low <= sp /\ pushed \in Seq(Within(low, sp))
  BY <1>6, <1>7, PushWordsIs
<1> DEFINE T == Seq(Within(low, StackTop))
<1> HIDE DEF low, pushed
<1>9. low <= arg.sp /\ low <= apple.sp /\ low <= env.sp
      /\ arg.sp <= StackTop /\ apple.sp <= StackTop /\ env.sp <= StackTop /\ sp <= StackTop
  <2> DEFINE a == arg.sp
             e == env.sp
             p == apple.sp
  <2>1. top \in Int /\ top <= StackTop /\ StackTop \in Int
    BY <1>2
  <2>2. e \in Int /\ e <= top /\ p \in Int /\ p <= e /\ a \in Int /\ a <= p
    BY <1>3, <1>4, <1>5
  <2>3. sp \in Int /\ sp <= a /\ low \in Int /\ low <= sp
    BY <1>7, <1>8
  <2> HIDE DEF a, e, p
  <2>4. low <= a /\ low <= p /\ low <= e
    BY <2>2, <2>3
  <2>5. a <= StackTop /\ p <= StackTop /\ e <= StackTop /\ sp <= StackTop
    BY <2>1, <2>2, <2>3
  <2> QED  BY <2>4, <2>5 DEF a, e, p
<1>10. env.plan \in T
  BY <1>2, <1>3, <1>8, <1>9, WithinWider
<1>11. apple.plan \in T
  <2> DEFINE a == env.sp
             e == apple.sp
             s == apple.plan
  <2>1. a \in Int /\ e \in Int /\ s \in Seq(Within(e, a)) /\ low <= e /\ a <= StackTop
    BY <1>3, <1>4, <1>9
  <2> HIDE DEF a, e, s
  <2>2. s \in T
    BY <1>2, <1>8, <2>1, WithinWider
  <2> QED  BY <2>2 DEF s
<1>12. arg.plan \in T
  <2> DEFINE a == apple.sp
             e == arg.sp
             s == arg.plan
  <2>1. a \in Int /\ e \in Int /\ s \in Seq(Within(e, a)) /\ low <= e /\ a <= StackTop
    BY <1>4, <1>5, <1>9
  <2> HIDE DEF a, e, s
  <2>2. s \in T
    BY <1>2, <1>8, <2>1, WithinWider
  <2> QED  BY <2>2 DEF s
<1>13. pushed \in T
  BY <1>2, <1>7, <1>8, <1>9, WithinWider
<1> DEFINE a == env.plan
           e == apple.plan
           p == arg.plan
           q == pushed
<1>14. a \in T /\ e \in T /\ p \in T /\ q \in T
  BY <1>10, <1>11, <1>12, <1>13
<1> HIDE DEF a, e, p, q
<1>15. low = StackPointer(l)
  BY <1>0 DEF StackPointer
<1>16. m \in Good(l) /\ a \in Good(l) /\ e \in Good(l) /\ p \in Good(l) /\ q \in Good(l)
  <2>1. \A s \in Seq(Within(StackPointer(l), StackTop)) : <<StackMap>> \in Good(l) /\ s \in Good(l)
    BY StackGood
  <2> QED  BY <1>14, <1>15, <2>1
<1> HIDE DEF m
<1>17. m \o a \o e \o p \o q \in Good(l)
  <2> DEFINE ma == m \o a
             mae == ma \o e
             maep == mae \o p
  <2>1. ma \in Good(l)
    BY <1>16, GoodJoins
  <2> HIDE DEF ma
  <2>2. mae \in Good(l)
    BY <1>16, <2>1, GoodJoins
  <2> HIDE DEF mae
  <2>3. maep \in Good(l)
    BY <1>16, <2>2, GoodJoins
  <2> HIDE DEF maep
  <2>4. maep \o q \in Good(l)
    BY <1>16, <2>3, GoodJoins
  <2> QED  BY <2>4 DEF maep, mae, ma
<1> QED  BY <1>0, <1>17 DEF a, e, p, q

-----------------------------------------------------------------------------
(* The whole plan: the heap is placed once, at the end of the image. *)

LEMMA EndsFit ==
  ASSUME NEW img, img.segs \in Seq(FileSegment), NEW bias \in Nat, SegmentsFit(img, bias)
  PROVE  /\ \A i \in DOMAIN img.segs :
              LET end == img.segs[i].addr + bias + img.segs[i].size
              IN  end \in Nat /\ AsWord(end) = end /\ end <= AddrTop
         /\ max_vaddr(img.segs, bias) <= AddrTop
         /\ heap_base(img.segs, bias) = max_vaddr(img.segs, bias)
<1> DEFINE segs == img.segs
           m == max_vaddr(segs, bias)
<1>1. ASSUME NEW i \in DOMAIN segs
      PROVE  LET end == segs[i].addr + bias + segs[i].size
             IN  end \in Nat /\ AsWord(end) = end /\ end <= AddrTop
  <2> DEFINE a == segs[i].addr
             z == segs[i].size
             end == a + bias + z
  <2>1. a \in Nat /\ z \in Nat
    <3>1. segs[i] \in FileSegment
      OBVIOUS
    <3> QED  BY <3>1 DEF FileSegment
  <2>2. end <= AddrTop
    BY <1>1 DEF SegmentsFit
  <2> HIDE DEF a, z
  <2>3. end \in Nat
    BY <2>1
  <2> HIDE DEF end
  <2>4. end < WordTop
    BY <2>2, <2>3, WordFacts
  <2>5. AsWord(end) = end
    BY <2>3, <2>4, AsWordIs
  <2> QED  BY <2>2, <2>3, <2>5 DEF end, a, z
<1>2. m \in Nat /\ (m # 0 => m \in ImageEnds(segs, bias))
  BY MaxVaddrIs
<1>3. heap_base(segs, bias) = IF m > AddrTop THEN 0 ELSE m
  BY DEF heap_base
<1> HIDE DEF m, segs
<1>4. \A x \in ImageEnds(segs, bias) : x <= AddrTop
  BY <1>1 DEF ImageEnds
<1>5. m <= AddrTop
  BY <1>2, <1>4, WordFacts
<1>6. heap_base(segs, bias) = m
  BY <1>2, <1>3, <1>5, WordFacts
<1> QED  BY <1>1, <1>5, <1>6 DEF m, segs

ImageEnd(l) == heap_base(ImageOf(l).segs, PlanBias(l))

LEMMA ImageEndIs ==
  ASSUME NEW l \in Loads, Parses(l.file)
  PROVE  /\ ImageEnd(l) \in Nat
         /\ Checked(max_vaddr(ImageOf(l).segs, PlanBias(l)) + PAGE_SIZE - 1) \in Good(l)
<1> DEFINE m == max_vaddr(ImageOf(l).segs, PlanBias(l))
           v == m + PAGE_SIZE - 1
<1>1. ImageOf(l).segs \in Seq(FileSegment) /\ PlanBias(l) \in Nat
  BY FileFacts DEF IsImage
<1>2. m \in Nat
  BY <1>1, MaxVaddrIs
<1>3. Fitting(l) => m <= AddrTop
  BY <1>1, FittingSegments, EndsFit
<1>4. ImageEnd(l) = IF m > AddrTop THEN 0 ELSE m
  BY DEF ImageEnd, heap_base
<1> HIDE DEF m
<1>5. ImageEnd(l) \in Nat
  BY <1>2, <1>4
<1>6. v \in Nat /\ (Fitting(l) => v < WordTop)
  BY <1>2, <1>3, WordFacts
<1> HIDE DEF v
<1>7. Checked(v) \in Good(l)
  BY <1>6, CheckedGood
<1> QED  BY <1>5, <1>7 DEF v, m

PlaceHeap(l) == SetBrkBase(ImageEnd(l))
Calls(l) == Steady(l) \cup {PlaceHeap(l)}

PlacesHeapOnce(l, s) ==
  \E k \in DOMAIN s : s[k] = PlaceHeap(l) /\ \A j \in DOMAIN s \ {k} : s[j] \in Steady(l)

Planned(l, s) == s \in Seq(Calls(l)) /\ PlacesHeapOnce(l, s) /\ (Sound(l) => Fronted(s))

LEMMA Splits ==
  ASSUME NEW l, NEW before \in Good(l), NEW after \in Good(l)
  PROVE  Planned(l, before \o <<PlaceHeap(l)>> \o after)
<1> DEFINE S == Steady(l)
           c == PlaceHeap(l)
           C == Calls(l)
           mid == <<c>>
           bm == before \o mid
           s == bm \o after
<1>1. before \in Seq(S) /\ after \in Seq(S) /\ (Sound(l) => Fronted(before) /\ Fronted(after))
  BY DEF Good
<1>2. S \subseteq C /\ c \in C /\ ~NeedsMap(c)
  BY DEF Calls, PlaceHeap, SetBrkBase, NeedsMap
<1> HIDE DEF S, c, C
<1>3. before \in Seq(C) /\ after \in Seq(C) /\ mid \in Seq(C)
  BY <1>1, <1>2
<1>4. Len(mid) = 1 /\ mid[1] = c /\ DOMAIN mid = {1}
  OBVIOUS
<1> HIDE DEF mid
<1>5. Fronted(mid)
  BY <1>2, <1>4 DEF Fronted
<1>6. /\ bm \in Seq(C) /\ DOMAIN bm = 1 .. Len(before) + Len(mid)
      /\ Len(before) \in Nat /\ DOMAIN before = 1 .. Len(before) /\ Len(mid) \in Nat
      /\ \A p \in DOMAIN before : bm[p] = before[p]
      /\ \A p \in DOMAIN mid : bm[Len(before) + p] = mid[p]
  BY <1>3, Concatenated
<1>7. Sound(l) => Fronted(bm)
  BY <1>1, <1>3, <1>5, FrontedJoins
<1>8. Len(bm) = Len(before) + 1
  BY <1>4, <1>6
<1> HIDE DEF bm
<1>9. /\ s \in Seq(C) /\ DOMAIN s = 1 .. Len(bm) + Len(after)
      /\ Len(bm) \in Nat /\ DOMAIN bm = 1 .. Len(bm) /\ Len(after) \in Nat /\ DOMAIN after = 1 .. Len(after)
      /\ \A p \in DOMAIN bm : s[p] = bm[p]
      /\ \A p \in DOMAIN after : s[Len(bm) + p] = after[p]
  BY <1>3, <1>6, Concatenated
<1>10. Sound(l) => Fronted(s)
  BY <1>1, <1>3, <1>6, <1>7, FrontedJoins
<1> HIDE DEF s
<1> DEFINE k == Len(before) + 1
<1>11. k \in DOMAIN s /\ s[k] = c
  <2>1. k \in DOMAIN bm /\ bm[k] = c
    BY <1>4, <1>6, <1>8
  <2> QED  BY <1>8, <1>9, <2>1
<1>12. ASSUME NEW j \in DOMAIN s, j # k
       PROVE  s[j] \in S
  <2>1. CASE j < k
    <3>1. j \in DOMAIN before /\ j \in DOMAIN bm
      BY <1>6, <1>8, <1>9, <2>1
    <3>2. s[j] = before[j]
      BY <1>6, <1>9, <3>1
    <3> QED  BY <1>1, <3>1, <3>2
  <2>2. CASE j > k
    <3> DEFINE p == j - Len(bm)
    <3>1. p \in DOMAIN after /\ j = Len(bm) + p
      BY <1>6, <1>8, <1>9, <2>2
    <3> HIDE DEF p
    <3>2. s[j] = after[p]
      BY <1>9, <3>1
    <3> QED  BY <1>1, <3>1, <3>2
  <2> QED  BY <1>6, <1>9, <1>12, <2>1, <2>2
<1> HIDE DEF k
<1>13. PlacesHeapOnce(l, s)
  BY <1>11, <1>12 DEF PlacesHeapOnce, c, S
<1> QED  BY <1>9, <1>10, <1>13 DEF Planned, C, c, s, bm, mid

(* What a load is to do for any file the library can parse. *)
LEMMA PlanIs ==
  ASSUME NEW l \in Loads, Parses(l.file)
  PROVE  Planned(l, Plan(l))
<1> DEFINE img == ImageOf(l)
           a == SegmentsPlan(img.segs, PlanBias(l))
           b == ThunkRegion
           k == Checked(max_vaddr(img.segs, PlanBias(l)) + PAGE_SIZE - 1)
           h == <<PlaceHeap(l)>>
<1>1. a \in Good(l) /\ b \in Good(l) /\ k \in Good(l)
  BY SegmentsGood, RegionGood, ImageEndIs
<1>2. CASE l.file.magic \in MachOMagic
  <2> DEFINE st == MachOStack(l.path, l.args).plan
             o == MachOEntryPlan(img)
             oa == o \o a
             oab == oa \o b
             oabk == oab \o k
  <2>1. Plan(l) = oabk \o h \o st
    BY <1>2 DEF Plan, MachOPlan, PlaceHeap, ImageEnd, PlanBias
  <2>2. st \in Good(l) /\ o \in Good(l)
    BY <1>2, MachOStackGood, MachOEntryGood
  <2> HIDE DEF a, b, k, o, st
  <2>3. oa \in Good(l)
    BY <1>1, <2>2, GoodJoins
  <2> HIDE DEF oa
  <2>4. oab \in Good(l)
    BY <1>1, <2>3, GoodJoins
  <2> HIDE DEF oab
  <2>5. oabk \in Good(l)
    BY <1>1, <2>4, GoodJoins
  <2> HIDE DEF oabk
  <2>6. Planned(l, oabk \o <<PlaceHeap(l)>> \o st)
    BY <2>2, <2>5, Splits
  <2> QED  BY <2>1, <2>6
<1>3. CASE l.file.magic \notin MachOMagic
  <2> DEFINE st == ElfStack(img, l.file.size, l.args).plan
             o == EntryPlan(img)
             c == <<WriteInt(DataSymbols[Name("optind")], 1, PtrBytes \div 2, FALSE),
                    WriteInt(DataSymbols[Name("opterr")], 1, PtrBytes \div 2, FALSE)>>
             d == FlattenSeq([i \in DOMAIN img.relocs |-> RelocPlan(img, img.relocs[i])])
             e == FlattenSeq([i \in DOMAIN img.relr |-> RelrPlan(img.relr[i], load_bias(img))])
             oa == o \o a
             oab == oa \o b
             oabc == oab \o c
             oabcd == oabc \o d
             oabcde == oabcd \o e
             oabcdek == oabcde \o k
  <2>0. IsElfLoad(l)
    BY <1>3 DEF IsElfLoad
  <2>1. Plan(l) = oabcdek \o h \o st
    BY <1>3 DEF Plan, ElfPlan, PlaceHeap, ImageEnd, PlanBias
  <2>2. st \in Good(l) /\ o \in Good(l) /\ c \in Good(l) /\ d \in Good(l) /\ e \in Good(l)
    BY <2>0, ElfStackGood, EntryGood, OptionsGood, RelocsGood, RelrGood
  <2> HIDE DEF a, b, c, d, e, k, o, st
  <2>3. oa \in Good(l)
    BY <1>1, <2>2, GoodJoins
  <2> HIDE DEF oa
  <2>4. oab \in Good(l)
    BY <1>1, <2>3, GoodJoins
  <2> HIDE DEF oab
  <2>5. oabc \in Good(l)
    BY <2>2, <2>4, GoodJoins
  <2> HIDE DEF oabc
  <2>6. oabcd \in Good(l)
    BY <2>2, <2>5, GoodJoins
  <2> HIDE DEF oabcd
  <2>7. oabcde \in Good(l)
    BY <2>2, <2>6, GoodJoins
  <2> HIDE DEF oabcde
  <2>8. oabcdek \in Good(l)
    BY <1>1, <2>7, GoodJoins
  <2> HIDE DEF oabcdek
  <2>9. Planned(l, oabcdek \o <<PlaceHeap(l)>> \o st)
    BY <2>2, <2>8, Splits
  <2> QED  BY <2>1, <2>9
<1> QED  BY <1>2, <1>3

-----------------------------------------------------------------------------
(* The load, call by call. *)

USE DEF HostAddr, Prot, heapVars, hostVars, vars, Alive, Returns

(* What was mapped before the load is still the emulator's. *)
OwnKept == \A b \in HostOwned \cup load.taken : host[b] = "own"

Going == status \in {"loading", "loaded"}

(* The file was parsed as the plan has it. *)
Opened ==
  Going => /\ Parses(load.file) /\ image = ImageOf(load) /\ Bias = PlanBias(load)
           /\ IsElf = (load.file.magic \notin MachOMagic)
           /\ bin.stack_pointer = StackPointer(load)
           /\ bin.dynamic_thunks = dynamic_thunks(Imports(load))

(* The heap is still to be placed, once, or it is on the page after the    *)
(* image and will not be moved.                                            *)
HeapPlanned ==
  /\ status = "loaded" => todo = <<>>
  /\ Going => \/ PlacesHeapOnce(load, todo)
              \/ todo \in Seq(Steady(load)) /\ brk_base = align_up_page(ImageEnd(load))

Holds(c) ==
  \E i \in DOMAIN segments : segments[i].addr <= c.addr /\ c.addr + c.len <= segments[i].addr + segments[i].size

(* A write that must succeed finds its mapping, made or still to be made;  *)
(* the stack, if it is mapped, is mapped whole.                            *)
Backed ==
  /\ status = "opening" => segments = <<>>
  /\ Going /\ Sound(load) =>
       /\ \A k \in DOMAIN todo : NeedsMap(todo[k]) => Holds(todo[k]) \/ \E j \in 1 .. k - 1 : Backs(todo[j], todo[k])
       /\ \A i \in DOMAIN segments : segments[i].addr = StackTop - StackSize => segments[i].size = StackSize

(* No segment of a load whose addresses fit ends past them.                *)
SegmentsLow == Fitting(load) => \A i \in DOMAIN segments : ~PastTop(segments[i])

MemoryInv == TypeOK /\ HeapBacked /\ SegmentsIsolated /\ Unprotected /\ OwnKept /\ SegmentsLow

LoaderInv ==
  /\ MemoryInv
  /\ load \in Loads /\ todo \in Seq(Calls(load))
  /\ Opened /\ HeapPlanned /\ Backed

-----------------------------------------------------------------------------
LEMMA NextCall ==
  ASSUME NEW C, NEW s \in Seq(C), s # <<>>
  PROVE  /\ Head(s) = s[1] /\ 1 \in DOMAIN s /\ Tail(s) \in Seq(C)
         /\ DOMAIN s = 1 .. Len(s) /\ Len(s) \in Nat \ {0} /\ Len(Tail(s)) = Len(s) - 1
         /\ DOMAIN Tail(s) = 1 .. Len(s) - 1
         /\ \A k \in DOMAIN Tail(s) : k + 1 \in DOMAIN s /\ Tail(s)[k] = s[k + 1]
OBVIOUS

(* What the operation of a call says of it. *)
LEMMA CallKinds ==
  ASSUME NEW l \in Loads, Parses(l.file), NEW c \in Calls(l)
  PROVE  /\ c.op = "map" => /\ c.addr \in Nat /\ c.size \in Nat /\ c.must \in BOOLEAN
                            /\ c.must => c.addr \in Places(l)
                            /\ Sound(l) => c.addr # 0 /\ (c.addr = StackTop - StackSize => c.size = StackSize)
                            /\ Fitting(l) => c.addr + c.size < WordTop
         /\ c.op = "write" => /\ c.addr \in Nat /\ c.len \in Nat /\ c.data \in [0 .. c.len - 1 -> Byte]
                              /\ c.must \in BOOLEAN
                              /\ Sound(l) => c.addr < DirectBase \/ OnStack(c, StackPointer(l))
         /\ c.op = "rebase" => c.addr \in Nat /\ c.bias \in Nat /\ (Sound(l) => c.addr < DirectBase)
         /\ c.op = "overflow" => ~Fitting(l)
         /\ c.op = "panic" => Unfit(l)
         /\ (c.op = "brk") = (c = PlaceHeap(l)) /\ (c.op = "brk" => c.addr = ImageEnd(l) /\ c.addr \in Nat)
         /\ (c \in Steady(l)) = (c.op # "brk")
         /\ c.op \in {"map", "write", "rebase", "overflow", "panic", "brk", "fail"}
<1>0. ImageEnd(l) \in Nat
  BY ImageEndIs
<1> HIDE DEF ImageEnd
<1>1. c \in Maps(l) =>
        /\ c.op = "map" /\ c.addr \in Nat /\ c.size \in Nat /\ c.must \in BOOLEAN
        /\ c.must => c.addr \in Places(l)
        /\ Sound(l) => c.addr # 0 /\ (c.addr = StackTop - StackSize => c.size = StackSize)
        /\ Fitting(l) => c.addr + c.size < WordTop
  BY DEF Maps
<1>2. c \in Writes(l) =>
        /\ c.op = "write" /\ c.addr \in Nat /\ c.len \in Nat /\ c.data \in [0 .. c.len - 1 -> Byte]
        /\ c.must \in BOOLEAN
        /\ Sound(l) => c.addr < DirectBase \/ OnStack(c, StackPointer(l))
  <2> SUFFICES ASSUME c \in Writes(l)
               PROVE  /\ c.op = "write" /\ c.addr \in Nat /\ c.len \in Nat /\ c.data \in [0 .. c.len - 1 -> Byte]
                      /\ c.must \in BOOLEAN
                      /\ Sound(l) => c.addr < DirectBase \/ OnStack(c, StackPointer(l))
    OBVIOUS
  <2>1. c \in AnyWrite /\ c.addr \in Nat /\ (Sound(l) => c.addr < DirectBase \/ OnStack(c, StackPointer(l)))
    BY DEF Writes
  <2>2. PICK n \in Nat : c \in [op : {"write"}, addr : Int, len : {n}, data : [0 .. n - 1 -> Byte], must : BOOLEAN]
    BY <2>1 DEF AnyWrite
  <2>3. c.op = "write" /\ c.len = n /\ c.data \in [0 .. n - 1 -> Byte] /\ c.must \in BOOLEAN
    BY <2>2
  <2> QED  BY <2>1, <2>3
<1>3. c \in Rebases(l) =>
        c.op = "rebase" /\ c.addr \in Nat /\ c.bias \in Nat /\ (Sound(l) => c.addr < DirectBase)
  BY DEF Rebases
<1>4. /\ c \in Overflows(l) => c.op = "overflow" /\ ~Fitting(l)
      /\ c \in Panics(l) => c.op = "panic" /\ Unfit(l)
  BY DEF Overflows, Overflow, Panics, Panic
<1>5. c = Fail => c.op = "fail"
  BY DEF Fail
<1>6. c = PlaceHeap(l) => c.op = "brk" /\ c.addr = ImageEnd(l)
  BY DEF PlaceHeap, SetBrkBase
<1>7. (c \in Steady(l)) = (c \in Maps(l) \/ c \in Writes(l) \/ c \in Rebases(l)
                           \/ c \in Overflows(l) \/ c \in Panics(l) \/ c = Fail)
  BY DEF Steady
<1>8. c \in Steady(l) \/ c = PlaceHeap(l)
  BY DEF Calls
<1> HIDE DEF PlaceHeap
<1>9. (c \in Steady(l)) = (c.op # "brk") /\ (c.op = "brk") = (c = PlaceHeap(l))
  BY <1>1, <1>2, <1>3, <1>4, <1>5, <1>6, <1>7, <1>8
<1>10. c.op = "map" => c \in Maps(l)
  BY <1>1, <1>2, <1>3, <1>4, <1>5, <1>6, <1>7, <1>8
<1>11. c.op = "write" => c \in Writes(l)
  BY <1>1, <1>2, <1>3, <1>4, <1>5, <1>6, <1>7, <1>8
<1>12. c.op = "rebase" => c \in Rebases(l)
  BY <1>1, <1>2, <1>3, <1>4, <1>5, <1>6, <1>7, <1>8
<1>13. (c.op = "overflow" => c \in Overflows(l)) /\ (c.op = "panic" => c \in Panics(l))
  BY <1>1, <1>2, <1>3, <1>4, <1>5, <1>6, <1>7, <1>8
<1>14. c.op \in {"map", "write", "rebase", "overflow", "panic", "brk", "fail"}
  BY <1>1, <1>2, <1>3, <1>4, <1>5, <1>6, <1>7, <1>8
<1> QED
  BY <1>0, <1>1, <1>2, <1>3, <1>4, <1>6, <1>9, <1>10, <1>11, <1>12, <1>13, <1>14

(* A range that one segment holds is written without an error. *)
LEMMA HeldWrites ==
  ASSUME TypeOK, SegmentsIsolated, Unprotected, NEW addr \in Nat, NEW len \in Nat,
         Direct(addr) \/ \E i \in DOMAIN segments :
                           segments[i].addr <= addr /\ addr + len <= segments[i].addr + segments[i].size
  PROVE  WriteOutcome(addr, len) # "err"
<1> DEFINE to == WriteBytes(addr, len)
<1>1. Reaches(to, addr, len)
  BY WriteReaches DEF TypeOK
<1>2. PICK n \in 0 .. len :
        /\ DOMAIN to = 0 .. n - 1
        /\ IF Direct(addr) THEN n = len /\ \A k \in 0 .. n - 1 : to[k] = addr + k
           ELSE /\ \A k \in 0 .. n - 1 : to[k] \in Holding(addr + k)
                /\ n < len => Holding(addr + n) = {}
  BY <1>1 DEF Reaches
<1>3. n = len
  <2>1. CASE Direct(addr)
    BY <1>2, <2>1
  <2>2. CASE ~Direct(addr)
    <3>1. PICK i \in DOMAIN segments :
            segments[i].addr <= addr /\ addr + len <= segments[i].addr + segments[i].size
      BY <2>2
    <3>2. segments[i] \in Segment
      BY DEF TypeOK
    <3>3. ASSUME n < len PROVE FALSE
      <4>1. n \in 0 .. len - 1
        BY <1>2, <3>3
      <4>2. Covers(segments[i], addr + n)
        BY <3>1, <3>2, <4>1, RangeCovered
      <4>3. HostByte(i, addr + n) \in Holding(addr + n)
        BY <4>2 DEF Holding
      <4> QED  BY <1>2, <2>2, <3>3, <4>3
    <3> QED  BY <1>2, <3>3
  <2> QED  BY <2>1, <2>2
<1>4. DOMAIN to = 0 .. len - 1
  BY <1>2, <1>3
<1> QED  BY <1>4 DEF WriteOutcome, Outcome

(* A write changes the emulator's own memory only at direct addresses.     *)
LEMMA OwnWritten ==
  ASSUME TypeOK, SegmentsIsolated, NEW addr \in Nat, NEW len \in Nat, NEW data,
         write(addr, len, data), NEW b \in HostAddr, ram'[b] # ram[b], host[b] = "own"
  PROVE  Direct(addr) /\ \E k \in 0 .. len - 1 : b = addr + k
<1> DEFINE to == WriteBytes(addr, len)
<1>1. Reaches(to, addr, len)
  BY WriteReaches DEF TypeOK
<1>2. PICK k \in DOMAIN to : to[k] = b
  <2>1. Stored(ram, addr, len, data)[b] # ram[b]
    BY DEF write
  <2>2. WriteOutcome(addr, len) # "fault"
    BY <2>1 DEF Stored
  <2> QED  BY <2>1, <2>2, StoredAt
<1> HIDE DEF to
<1>3. k \in 0 .. len - 1
  BY <1>1, <1>2 DEF Reaches
<1>4. CASE Direct(addr)
  BY <1>1, <1>2, <1>3, <1>4 DEF Reaches
<1>5. CASE ~Direct(addr)
  <2>1. b \in Holding(addr + k)
    BY <1>1, <1>2, <1>5 DEF Reaches
  <2>2. addr + k \in Nat
    BY <1>3
  <2>3. host[b] \in Prot
    BY <2>1, <2>2, HoldingMapped
  <2>4. FALSE
    BY <2>3
  <2> QED  BY <2>4
<1> QED  BY <1>4, <1>5

(* One call further on. *)
Onward ==
  /\ status = "loading" /\ todo # <<>> /\ todo' = Tail(todo) /\ status' \notin {"opening", "loaded"}
  /\ UNCHANGED <<load, image, bin>>

LEMMA OpenedOnward ==
  ASSUME Opened, Onward
  PROVE  Opened'
<1>1. Bias' = Bias /\ IsElf' = IsElf
  BY DEF Onward, Bias, IsElf
<1> QED  BY <1>1 DEF Opened, Onward, Going

LEMMA HeapOnward ==
  ASSUME load \in Loads, todo \in Seq(Calls(load)), Opened, HeapPlanned, Onward,
         IF Head(todo).op = "brk" THEN brk_base' = align_up_page(Head(todo).addr) ELSE UNCHANGED brk_base
  PROVE  HeapPlanned'
<1> DEFINE l == load
           C == Calls(l)
           S == Steady(l)
           c == Head(todo)
           rest == Tail(todo)
           up == align_up_page(ImageEnd(l))
           n == Len(todo)
<1>1. l \in Loads /\ Parses(l.file) /\ todo \in Seq(C) /\ todo # <<>>
  BY DEF Opened, Onward, Going
<1>2. /\ c = todo[1] /\ 1 \in DOMAIN todo /\ rest \in Seq(C) /\ DOMAIN todo = 1 .. n /\ n \in Nat \ {0}
      /\ Len(rest) = n - 1 /\ DOMAIN rest = 1 .. n - 1
      /\ \A k \in DOMAIN rest : k + 1 \in DOMAIN todo /\ rest[k] = todo[k + 1]
  <2> HIDE DEF C
  <2> QED  BY <1>1, NextCall
<1>3. c \in C
  BY <1>1, <1>2
<1>4. \A d \in C : /\ (d \in S) = (d.op # "brk") /\ (d.op = "brk") = (d = PlaceHeap(l))
                   /\ d.op = "brk" => d.addr = ImageEnd(l)
  BY <1>1, CallKinds
<1> HIDE DEF C, S, c, rest, up, n, l
<1>5. (\A k \in DOMAIN rest : rest[k] \in S) => rest \in Seq(S)
  BY <1>2
<1>6. PlacesHeapOnce(l, rest) \/ (rest \in Seq(S) /\ brk_base' = up)
  <2>1. CASE PlacesHeapOnce(l, todo)
    <3>1. PICK k \in DOMAIN todo : todo[k] = PlaceHeap(l) /\ \A j \in DOMAIN todo \ {k} : todo[j] \in S
      BY <2>1 DEF PlacesHeapOnce, S
    <3>2. CASE k = 1
      <4>1. c.op = "brk" /\ c.addr = ImageEnd(l)
        BY <1>2, <1>3, <1>4, <3>1, <3>2
      <4>2. brk_base' = up
        BY <4>1 DEF c, up
      <4>3. \A j \in DOMAIN rest : j + 1 \in DOMAIN todo \ {k} /\ rest[j] = todo[j + 1]
        BY <1>2, <3>2
      <4>4. \A j \in DOMAIN rest : rest[j] \in S
        BY <3>1, <4>3
      <4> QED  BY <1>5, <4>2, <4>4
    <3>3. CASE k # 1
      <4> DEFINE i == k - 1
      <4>1. i \in DOMAIN rest /\ rest[i] = todo[k]
        <5>1. i \in 1 .. n - 1 /\ i + 1 = k
          BY <1>2, <3>1, <3>3
        <5> HIDE DEF i
        <5> QED  BY <1>2, <5>1
      <4>2. ASSUME NEW j \in DOMAIN rest \ {i}
            PROVE  rest[j] \in S
        <5>1. j + 1 \in DOMAIN todo /\ j + 1 # k /\ rest[j] = todo[j + 1]
          BY <1>2, <3>1
        <5> QED  BY <3>1, <5>1
      <4> HIDE DEF i
      <4>3. PlacesHeapOnce(l, rest)
        BY <3>1, <4>1, <4>2 DEF PlacesHeapOnce, S
      <4> QED  BY <4>3
    <3> QED  BY <3>2, <3>3
  <2>2. CASE todo \in Seq(S) /\ brk_base = up
    <3>1. c \in S /\ \A k \in DOMAIN todo : todo[k] \in S
      BY <1>2, <2>2
    <3>2. c.op # "brk"
      BY <1>3, <1>4, <3>1
    <3>3. brk_base' = brk_base
      BY <3>2 DEF c
    <3>4. \A k \in DOMAIN rest : rest[k] \in S
      BY <1>2, <3>1
    <3> QED  BY <1>5, <2>2, <3>3, <3>4
  <2> QED  BY <2>1, <2>2 DEF HeapPlanned, Onward, Going, S, up, l
<1> DEFINE Placed(k, t, b) == PlacesHeapOnce(k, t) \/ (t \in Seq(Steady(k)) /\ b = align_up_page(ImageEnd(k)))
<1>7. Placed(l, rest, brk_base')
  BY <1>6 DEF S, up
<1>8. load' = l /\ todo' = rest
  BY DEF Onward, l, rest
<1> HIDE DEF Placed
<1>9. Placed(load', todo', brk_base')
  BY <1>7, <1>8
<1> QED  BY <1>9 DEF HeapPlanned, Onward, Placed

LEMMA BackedOnward ==
  ASSUME load \in Loads, todo \in Seq(Calls(load)), Opened, Backed, Onward,
         \A i \in DOMAIN segments : i \in DOMAIN segments' /\ segments'[i] = segments[i],
         Sound(load) /\ status' = "loading" =>
           /\ \A i \in DOMAIN segments' \ DOMAIN segments :
                segments'[i].addr = StackTop - StackSize => segments'[i].size = StackSize
           /\ Head(todo).op = "map" /\ Head(todo).must =>
                \E i \in DOMAIN segments' : segments'[i].addr = Head(todo).addr /\ segments'[i].size = Head(todo).size
  PROVE  Backed'
<1> DEFINE C == Calls(load)
           c == Head(todo)
           rest == Tail(todo)
           n == Len(todo)
           HoldsIn(segs, d) ==
             \E i \in DOMAIN segs : segs[i].addr <= d.addr /\ d.addr + d.len <= segs[i].addr + segs[i].size
           Covered(segs, s) ==
             \A k \in DOMAIN s : NeedsMap(s[k]) => HoldsIn(segs, s[k]) \/ \E j \in 1 .. k - 1 : Backs(s[j], s[k])
           Whole(segs) == \A i \in DOMAIN segs : segs[i].addr = StackTop - StackSize => segs[i].size = StackSize
<1>1. /\ c = todo[1] /\ 1 \in DOMAIN todo /\ DOMAIN todo = 1 .. n /\ n \in Nat \ {0}
      /\ DOMAIN rest = 1 .. n - 1
      /\ \A k \in DOMAIN rest : k + 1 \in DOMAIN todo /\ rest[k] = todo[k + 1]
  <2>1. todo \in Seq(C) /\ todo # <<>>
    BY DEF Onward
  <2> HIDE DEF C
  <2> QED  BY <2>1, NextCall
<1>2. load' = load /\ todo' = rest
  BY DEF Onward
<1>3. ASSUME Sound(load), status' = "loading"
      PROVE  Covered(segments', rest) /\ Whole(segments')
  <2>1. Covered(segments, todo) /\ Whole(segments)
    BY <1>3 DEF Backed, Going, Holds, Onward
  <2>2. Whole(segments')
    BY <1>3, <2>1
  <2>3. ASSUME NEW k \in DOMAIN rest, NeedsMap(rest[k])
        PROVE  HoldsIn(segments', rest[k]) \/ \E j \in 1 .. k - 1 : Backs(rest[j], rest[k])
    <3> DEFINE d == rest[k]
    <3>1. k + 1 \in DOMAIN todo /\ d = todo[k + 1]
      BY <1>1
    <3>2. HoldsIn(segments, d) \/ \E j \in 1 .. k + 1 - 1 : Backs(todo[j], d)
      <4> HIDE DEF HoldsIn, d
      <4> QED  BY <2>1, <2>3, <3>1 DEF d
    <3> HIDE DEF d
    <3>3. CASE HoldsIn(segments, d)
      BY <3>3 DEF d
    <3>4. ASSUME NEW j \in 1 .. k + 1 - 1, Backs(todo[j], d)
          PROVE  HoldsIn(segments', d) \/ \E i \in 1 .. k - 1 : Backs(rest[i], d)
      <4>1. CASE j = 1
        <5>1. Backs(c, d)
          BY <1>1, <3>4, <4>1
        <5>2. c.op = "map" /\ c.must /\ c.addr <= d.addr /\ d.addr + d.len <= c.addr + c.size
          BY <5>1 DEF Backs
        <5>3. PICK i \in DOMAIN segments' : segments'[i].addr = c.addr /\ segments'[i].size = c.size
          BY <1>3, <5>2
        <5> HIDE DEF c
        <5> QED  BY <5>2, <5>3
      <4>2. CASE j # 1
        <5> DEFINE i == j - 1
        <5>1. i \in 1 .. k - 1 /\ i \in DOMAIN rest /\ i + 1 = j
          BY <1>1, <4>2
        <5> HIDE DEF i
        <5>2. rest[i] = todo[j]
          BY <1>1, <5>1
        <5> QED  BY <3>4, <5>1, <5>2
      <4> QED  BY <4>1, <4>2
    <3> QED  BY <3>2, <3>3, <3>4 DEF d
  <2> QED  BY <2>2, <2>3
<1> HIDE DEF Covered, Whole, rest
<1>4. Sound(load') /\ status' = "loading" => Covered(segments', todo') /\ Whole(segments')
  BY <1>2, <1>3
<1> QED  BY <1>4 DEF Backed, Going, Holds, Covered, Whole, Onward

(* A mapping takes free host memory only. *)
LEMMA MapKeepsOwn ==
  ASSUME TypeOK, NEW target \in Nat, NEW size \in Nat, NEW prot \in Prot,
         map_anonymous_prot(target, size, prot), NEW b \in HostAddr, host[b] = "own"
  PROVE  host'[b] = "own" /\ ram'[b] = ram[b]
<1>1. CASE Refused("map")
  BY <1>1 DEF Refused
<1>2. ASSUME Acceptable(size), NEW ptr \in HostPlaces(target, size),
             PushSegment(target, size, prot, ptr)
      PROVE  host'[b] = "own" /\ ram'[b] = ram[b]
  <2>1. \A x \in Pages(ptr, size) : host[x] = "free"
    BY <1>2 DEF HostPlaces, FreeRun
  <2>2. /\ host' = [x \in HostAddr |-> IF x \in Pages(ptr, size) THEN prot ELSE host[x]]
        /\ ram' = [x \in HostAddr |-> IF x \in Pages(ptr, size) THEN 0 ELSE ram[x]]
    BY <1>2 DEF PushSegment
  <2>3. b \notin Pages(ptr, size)
    BY <2>1
  <2> QED  BY <2>2, <2>3
<1> QED  BY <1>1, <1>2 DEF map_anonymous_prot

LEMMA OwnInHost ==
  ASSUME load \in Loads
  PROVE  HostOwned \cup load.taken \subseteq HostAddr
BY HostAssumption, LoadAssumption

(* The next call is one of the plan's.                                     *)
LEMMA AtCall ==
  ASSUME LoaderInv, NEW op, Turn(op)
  PROVE  /\ load \in Loads /\ Parses(load.file) /\ Head(todo) \in Calls(load) /\ Head(todo).op = op
         /\ todo # <<>> /\ todo \in Seq(Calls(load)) /\ Head(todo) = todo[1] /\ 1 \in DOMAIN todo
<1> DEFINE C == Calls(load)
<1>1. todo \in Seq(C) /\ todo # <<>> /\ load \in Loads /\ Parses(load.file) /\ Head(todo).op = op
  BY DEF LoaderInv, Turn, Opened, Going
<1> HIDE DEF C
<1>2. Head(todo) = todo[1] /\ 1 \in DOMAIN todo
  BY <1>1, NextCall
<1>3. Head(todo) \in C
  BY <1>1, <1>2
<1> QED  BY <1>1, <1>2, <1>3 DEF C

LEMMA Proceeds ==
  ASSUME NEW op, Turn(op), NEW must, Proceed(must)
  PROVE  /\ Onward /\ status' \in {"loading", "err", "fault", "panic"}
         /\ status' = "err" => must /\ result'.out = "err"
         /\ (status' = "fault") = (result'.out = "fault")
         /\ (status' = "panic") = (result'.out = "panic")
         /\ status' = "loading" /\ must => result'.out # "err"
BY DEF Turn, Proceed, Onward

(* A mapping ends below the top of the addresses if the one asked for does,*)
(* or if it is where the host has room.                                    *)
LEMMA MapStaysLow ==
  ASSUME TypeOK, SegmentsLow, NEW target \in Nat, NEW size \in Nat, NEW prot \in Prot,
         map_anonymous_prot(target, size, prot), UNCHANGED load,
         Fitting(load) => target + size < WordTop
  PROVE  SegmentsLow'
<1> DEFINE AllLow(segs) == \A i \in DOMAIN segs : ~(segs[i].addr + segs[i].size >= WordTop)
           fits == Fitting(load)
<1>1. SegmentsLow = (fits => AllLow(segments))
  BY DEF SegmentsLow, PastTop
<1>2. SegmentsLow' = (fits => AllLow(segments'))
  BY DEF SegmentsLow, PastTop
<1> HIDE DEF fits
<1>3. CASE Refused("map")
  BY <1>1, <1>2, <1>3 DEF Refused
<1>4. ASSUME Acceptable(size), NEW ptr \in HostPlaces(target, size), PushSegment(target, size, prot, ptr), fits
      PROVE  AllLow(segments')
  <2> DEFINE n == Len(segments) + 1
             at == IF target # 0 THEN target ELSE ptr
  <2>1. /\ DOMAIN segments' = DOMAIN segments \cup {n}
        /\ \A i \in DOMAIN segments : segments'[i] = segments[i] /\ i # n
        /\ segments'[n].addr = at
        /\ segments'[n].size = size
    BY <1>4, PushAppends
  <2>2. target # 0 => at + size < WordTop
    BY <1>4 DEF fits
  <2>3. ASSUME target = 0
        PROVE  at + size < WordTop
    <3>1. FreeRun(ptr, size)
      BY <1>4, <2>3 DEF HostPlaces
    <3>2. ptr \in Nat /\ ptr .. ptr + align_up_page(size) - 1 \subseteq 0 .. HostSize - 1
      BY <3>1, HostAssumption DEF FreeRun, Pages
    <3>3. size \in Nat \ {0} /\ align_up_page(size) \in Nat /\ size <= align_up_page(size)
      BY <1>4, PageBounds DEF Acceptable
    <3> DEFINE up == align_up_page(size)
               last == ptr + up - 1
    <3>4. up \in Nat /\ size <= up /\ up # 0
      BY <3>3
    <3> HIDE DEF up
    <3>5. last \in ptr .. ptr + up - 1
      BY <3>2, <3>4
    <3>6. last \in 0 .. HostSize - 1
      BY <3>2, <3>5 DEF up
    <3>7. ptr + size <= HostSize
      BY <3>2, <3>3, <3>4, <3>6, WordFacts
    <3> QED  BY <2>3, <3>2, <3>3, <3>7, WordFacts
  <2>4. at + size < WordTop /\ at + size \in Nat
    <3>1. ptr \in Nat
      BY <1>4, HostAssumption DEF HostPlaces, FreeRun
    <3> QED  BY <2>2, <2>3, <3>1
  <2> HIDE DEF n, at
  <2>5. ~(at + size >= WordTop)
    BY <2>4, WordFacts
  <2>6. AllLow(segments)
    BY <1>1, <1>4
  <2> QED  BY <2>1, <2>5, <2>6
<1> QED  BY <1>2, <1>3, <1>4 DEF map_anonymous_prot

LEMMA MapDoes ==
  ASSUME LoaderInv, MapCall
  PROVE  /\ Onward /\ MemoryInv' /\ UNCHANGED brk_base /\ status' # "fault" /\ status' # "panic"
         /\ \A i \in DOMAIN segments : i \in DOMAIN segments' /\ segments'[i] = segments[i]
         /\ Sound(load) /\ status' = "loading" =>
              /\ \A i \in DOMAIN segments' \ DOMAIN segments :
                   segments'[i].addr = StackTop - StackSize => segments'[i].size = StackSize
              /\ Head(todo).op = "map" /\ Head(todo).must =>
                   \E i \in DOMAIN segments' :
                     segments'[i].addr = Head(todo).addr /\ segments'[i].size = Head(todo).size
         /\ \A b \in HostAddr : host[b] = "own" => host'[b] = "own" /\ ram'[b] = ram[b]
         /\ status' = "err" => Head(todo).addr \in Places(load)
<1> DEFINE c == Head(todo)
           target == c.addr
           size == c.size
<1>1. /\ load \in Loads /\ target \in Nat /\ size \in Nat /\ c.must \in BOOLEAN
      /\ c.must => target \in Places(load)
      /\ Sound(load) => target # 0 /\ (target = StackTop - StackSize => size = StackSize)
      /\ Fitting(load) => target + size < WordTop
  <2>1. load \in Loads /\ Parses(load.file) /\ c \in Calls(load) /\ c.op = "map"
    BY AtCall DEF MapCall
  <2> HIDE DEF c
  <2> QED  BY <2>1, CallKinds
<1>2. Turn("map") /\ map_anonymous(target, size) /\ Proceed(c.must)
  BY DEF MapCall
<1>3. /\ Onward /\ status' \in {"loading", "err", "fault", "panic"} /\ (status' = "err" => c.must)
      /\ (status' = "fault") = (result'.out = "fault")
      /\ (status' = "panic") = (result'.out = "panic")
      /\ status' = "loading" /\ c.must => result'.out # "err"
  BY <1>2, Proceeds
<1> HIDE DEF c, target, size
<1>4. map_anonymous_prot(target, size, "RWX") /\ "RWX" \in Prot
  BY <1>2 DEF map_anonymous
<1>5. TypeOK /\ HeapBacked /\ SegmentsIsolated /\ Unprotected /\ OwnKept
  BY DEF LoaderInv, MemoryInv
<1>14. SegmentsLow
  BY DEF LoaderInv, MemoryInv
<1>6. UNCHANGED brk_base /\ result'.out \notin {"fault", "panic"}
  BY <1>4 DEF map_anonymous_prot, Refused
<1>7. TypeOK' /\ HeapBacked' /\ SegmentsIsolated'
  BY <1>1, <1>4, <1>5, MapKeeps DEF Kept
<1>8. Unprotected'
  BY <1>2, <1>5, MapUnprotected
<1>9. \A b \in HostAddr : host[b] = "own" => host'[b] = "own" /\ ram'[b] = ram[b]
  BY <1>1, <1>4, <1>5, MapKeepsOwn
<1>10. OwnKept'
  <2>1. load' = load
    BY <1>3 DEF Onward
  <2>2. \A b \in HostOwned \cup load.taken : host'[b] = "own"
    BY <1>1, <1>5, <1>9, OwnInHost DEF OwnKept
  <2> QED  BY <2>1, <2>2 DEF OwnKept
<1>13. SegmentsLow'
  BY <1>1, <1>3, <1>4, <1>5, <1>14, MapStaysLow DEF Onward
<1>11. CASE Refused("map")
  <2>1. UNCHANGED segments /\ result'.out = "err"
    BY <1>11 DEF Refused
  <2>2. ~(status' = "loading" /\ c.must)
    BY <1>3, <2>1
  <2> QED  BY <1>1, <1>3, <1>6, <1>7, <1>8, <1>9, <1>10, <1>13, <2>1, <2>2, <1>5 DEF MemoryInv, c, target
<1>12. ASSUME NEW ptr \in HostPlaces(target, size), PushSegment(target, size, "RWX", ptr)
       PROVE  /\ \A i \in DOMAIN segments : i \in DOMAIN segments' /\ segments'[i] = segments[i]
              /\ Sound(load) =>
                   /\ \A i \in DOMAIN segments' \ DOMAIN segments :
                        segments'[i].addr = StackTop - StackSize => segments'[i].size = StackSize
                   /\ \E i \in DOMAIN segments' : segments'[i].addr = target /\ segments'[i].size = size
  <2> DEFINE n == Len(segments) + 1
  <2>1. /\ DOMAIN segments' = DOMAIN segments \cup {n}
        /\ \A i \in DOMAIN segments : segments'[i] = segments[i] /\ i # n
        /\ segments'[n].addr = (IF target # 0 THEN target ELSE ptr)
        /\ segments'[n].size = size
    BY <1>5, <1>12, PushAppends
  <2> HIDE DEF n
  <2> QED  BY <1>1, <2>1
<1> QED
  BY <1>1, <1>3, <1>4, <1>6, <1>7, <1>8, <1>9, <1>10, <1>11, <1>12, <1>13, <1>5
  DEF MemoryInv, map_anonymous_prot, c, target, size

(* A write of bytes. *)
LEMMA StoreDoes ==
  ASSUME MemoryInv, NEW addr \in Nat, NEW len \in Nat, NEW data \in [0 .. len - 1 -> Byte],
         write(addr, len, data), UNCHANGED load
  PROVE  /\ MemoryInv' /\ UNCHANGED <<segments, brk_base, host>>
         /\ result'.out = "fault" => Direct(addr) /\ \E k \in 0 .. len - 1 : ~Writable(addr + k)
         /\ \A b \in HostAddr : host[b] = "own" /\ ram'[b] # ram[b] =>
              Direct(addr) /\ \E k \in 0 .. len - 1 : b = addr + k
         /\ result'.out = "err" =>
              ~Direct(addr)
              /\ ~ \E i \in DOMAIN segments :
                     segments[i].addr <= addr /\ addr + len <= segments[i].addr + segments[i].size
         /\ result'.out = "panic" => ~Fitting(load)
<1>1. TypeOK /\ HeapBacked /\ SegmentsIsolated /\ Unprotected /\ OwnKept /\ SegmentsLow
  BY DEF MemoryInv
<1>2. UNCHANGED <<segments, brk_base, host>> /\ ram' = Stored(ram, addr, len, data)
  BY DEF write
<1>8. PICK out : out = WriteOutcome(addr, len) /\ result'.out \in Ends(out)
  BY DEF write
<1>9. \/ result'.out = WriteOutcome(addr, len)
      \/ result'.out = "panic" /\ \E i \in DOMAIN segments : PastTop(segments[i])
  BY <1>8, EndsTyped
<1>3. TypeOK' /\ HeapBacked' /\ SegmentsIsolated'
  BY <1>1, WriteKeeps DEF Kept
<1>4. Unprotected' /\ OwnKept' /\ SegmentsLow'
  BY <1>1, <1>2 DEF Unprotected, OwnKept, SegmentsLow
<1>5. result'.out = "fault" => Direct(addr) /\ \E k \in 0 .. len - 1 : ~Writable(addr + k)
  BY <1>1, <1>9, WriteFails
<1>10. result'.out = "panic" => ~Fitting(load)
  BY <1>1, <1>9, OutcomesTyped DEF SegmentsLow
<1>6. ASSUME NEW b \in HostAddr, host[b] = "own", ram'[b] # ram[b]
      PROVE  Direct(addr) /\ \E k \in 0 .. len - 1 : b = addr + k
  BY <1>1, <1>6, OwnWritten
<1>7. result'.out = "err" =>
        ~Direct(addr)
        /\ ~ \E i \in DOMAIN segments :
               segments[i].addr <= addr /\ addr + len <= segments[i].addr + segments[i].size
  BY <1>1, <1>9, HeldWrites
<1> QED  BY <1>2, <1>3, <1>4, <1>5, <1>6, <1>7, <1>10 DEF MemoryInv

(* A stack in its place, and large enough, is written in full. *)
LEMMA StackReached ==
  ASSUME LoaderInv, status = "loading", Sound(load), StackPlaced, StackFits,
         NEW c, c.addr \in Nat, c.len \in Nat, OnStack(c, StackPointer(load)), NEW k \in 0 .. c.len - 1
  PROVE  c.addr + k \in HostAddr /\ host[c.addr + k] \in Prot /\ Writable(c.addr + k)
<1> DEFINE a == c.addr + k
<1>1. PICK i \in DOMAIN segments : segments[i].addr = StackTop - StackSize /\ segments[i].ptr = segments[i].addr
  BY DEF StackPlaced
<1>2. segments[i].size = StackSize
  BY <1>1 DEF LoaderInv, Backed, Going
<1>3. bin.stack_pointer = StackPointer(load) /\ StackPointer(load) >= StackTop - StackSize
      /\ load \in Loads /\ Parses(load.file) /\ TypeOK /\ SegmentsIsolated /\ Unprotected
  BY DEF LoaderInv, MemoryInv, Opened, Going, StackFits
<1>4. StackPointer(load) \in Nat /\ StackTop \in Nat /\ StackSize \in Nat
  BY <1>3, FileFacts, RegionAssumption
<1>5. a \in Nat /\ StackTop - StackSize <= a /\ a < StackTop
  <2> DEFINE sp == StackPointer(load)
             x == c.addr
             n == c.len
  <2>1. sp \in Nat /\ x \in Nat /\ n \in Nat /\ sp <= x /\ x + n <= StackTop /\ k \in 0 .. n - 1
        /\ sp >= StackTop - StackSize
    BY <1>3, <1>4 DEF OnStack
  <2> HIDE DEF sp, x, n
  <2>2. x + k \in Nat /\ StackTop - StackSize <= x + k /\ x + k < StackTop
    BY <1>4, <2>1
  <2> QED  BY <2>2 DEF x
<1> HIDE DEF a
<1>6. Covers(segments[i], a)
  BY <1>1, <1>2, <1>4, <1>5 DEF Covers
<1>7. HostByte(i, a) \in Extent(segments[i]) /\ HostByte(i, a) = segments[i].ptr + (a - segments[i].addr)
  BY <1>3, <1>5, <1>6, HeldInExtent
<1>8. HostByte(i, a) = a
  <2>1. segments[i].addr \in Int
    BY <1>1, <1>4
  <2> QED  BY <1>1, <1>5, <1>7, <2>1
<1>9. a \in HostAddr /\ host[a] \in Prot
  BY <1>3, <1>7, <1>8 DEF SegmentsIsolated
<1>10. Writable(a)
  BY <1>3, <1>9 DEF Unprotected, Writable
<1> QED  BY <1>9, <1>10 DEF a

LEMMA WriteDoes ==
  ASSUME LoaderInv, WriteCall
  PROVE  /\ Onward /\ MemoryInv' /\ UNCHANGED <<segments, brk_base, host>>
         /\ status' = "panic" => ~Fitting(load)
         /\ status' = "fault" \/ (\E b \in HostAddr : host[b] = "own" /\ ram'[b] # ram[b]) =>
              \/ ~Sound(load)
              \/ Head(todo).addr >= StackPointer(load) /\ (~StackPlaced \/ ~StackFits)
         /\ status' = "err" => ~Sound(load)
<1> DEFINE c == Head(todo)
           addr == c.addr
           len == c.len
           data == c.data
<1>1. load \in Loads /\ Parses(load.file) /\ c \in Calls(load) /\ c.op = "write" /\ c = todo[1] /\ 1 \in DOMAIN todo
  BY AtCall DEF WriteCall
<1>2. /\ addr \in Nat /\ len \in Nat /\ data \in [0 .. len - 1 -> Byte] /\ c.must \in BOOLEAN
      /\ Sound(load) => addr < DirectBase \/ OnStack(c, StackPointer(load))
  <2> HIDE DEF c
  <2> QED  BY <1>1, CallKinds
<1>3. Turn("write") /\ write(addr, len, data) /\ Proceed(c.must) /\ status = "loading"
  BY DEF WriteCall, Turn
<1>4. /\ Onward /\ status' \in {"loading", "err", "fault", "panic"}
      /\ status' = "err" => c.must /\ result'.out = "err"
      /\ (status' = "fault") = (result'.out = "fault")
      /\ (status' = "panic") = (result'.out = "panic")
  BY <1>3, Proceeds
<1>5. UNCHANGED load /\ MemoryInv
  BY <1>4 DEF Onward, LoaderInv
<1> HIDE DEF c, addr, len, data
<1>6. /\ MemoryInv' /\ UNCHANGED <<segments, brk_base, host>>
      /\ result'.out = "fault" => Direct(addr) /\ \E k \in 0 .. len - 1 : ~Writable(addr + k)
      /\ \A b \in HostAddr : host[b] = "own" /\ ram'[b] # ram[b] =>
           Direct(addr) /\ \E k \in 0 .. len - 1 : b = addr + k
      /\ result'.out = "err" =>
           ~Direct(addr)
           /\ ~ \E i \in DOMAIN segments :
                  segments[i].addr <= addr /\ addr + len <= segments[i].addr + segments[i].size
      /\ result'.out = "panic" => ~Fitting(load)
  BY <1>2, <1>3, <1>5, StoreDoes
<1>7. ASSUME Sound(load), status' = "fault" \/ \E b \in HostAddr : host[b] = "own" /\ ram'[b] # ram[b]
      PROVE  addr >= StackPointer(load) /\ (~StackPlaced \/ ~StackFits)
  <2>1. Direct(addr)
    BY <1>4, <1>6, <1>7
  <2>2. OnStack(c, StackPointer(load))
    BY <1>2, <1>7, <2>1, AddressAssumption DEF Direct
  <2>3. ASSUME StackPlaced, StackFits
        PROVE  FALSE
    <3>1. \A k \in 0 .. len - 1 : addr + k \in HostAddr /\ host[addr + k] \in Prot /\ Writable(addr + k)
      BY <1>2, <1>3, <1>7, <2>2, <2>3, StackReached DEF addr, len
    <3>2. CASE status' = "fault"
      BY <1>4, <1>6, <3>1, <3>2
    <3>3. ASSUME NEW b \in HostAddr, host[b] = "own", ram'[b] # ram[b]
          PROVE  FALSE
      <4>1. host[b] \in Prot
        BY <1>6, <3>1, <3>3
      <4> QED  BY <3>3, <4>1
    <3> QED  BY <1>7, <3>2, <3>3
  <2> QED  BY <2>2, <2>3 DEF OnStack, addr
<1>8. ASSUME status' = "err", Sound(load)
      PROVE  FALSE
  <2>1. c.must /\ result'.out = "err"
    BY <1>4, <1>8
  <2>2. addr < DirectBase
    BY <1>2, <1>6, <2>1, AddressAssumption DEF Direct
  <2>3. NeedsMap(c)
    BY <1>1, <2>1, <2>2 DEF NeedsMap, addr
  <2>4. Holds(todo[1]) \/ \E j \in 1 .. 1 - 1 : Backs(todo[j], todo[1])
    BY <1>1, <1>3, <1>8, <2>3 DEF LoaderInv, Backed, Going
  <2>5. Holds(c)
    BY <1>1, <2>4
  <2> QED  BY <1>6, <2>1, <2>5 DEF Holds, addr, len
<1> QED  BY <1>4, <1>6, <1>7, <1>8 DEF addr, c

LEMMA RebaseDoes ==
  ASSUME LoaderInv, RebaseCall
  PROVE  /\ Onward /\ MemoryInv' /\ UNCHANGED <<segments, brk_base, host>> /\ status' # "err"
         /\ status' = "panic" => ~Fitting(load)
         /\ status' = "fault" \/ (\E b \in HostAddr : host[b] = "own" /\ ram'[b] # ram[b]) => ~Sound(load)
<1> DEFINE c == Head(todo)
           addr == c.addr
           bias == c.bias
           n == PtrBytes
<1>1. load \in Loads /\ Parses(load.file) /\ c \in Calls(load) /\ c.op = "rebase"
  BY AtCall DEF RebaseCall
<1>2. addr \in Nat /\ bias \in Nat /\ n \in Nat /\ n <= AllocMax /\ (Sound(load) => addr < DirectBase)
  <2> HIDE DEF c
  <2> QED  BY <1>1, CallKinds, PtrAssumption
<1>3. Turn("rebase") /\ Proceed(FALSE)
  BY DEF RebaseCall
<1>4. Onward /\ status' \in {"loading", "fault", "panic"} /\ (status' = "fault") = (result'.out = "fault")
      /\ (status' = "panic") = (result'.out = "panic")
  <2> DEFINE must == FALSE
  <2>1. Proceed(must) /\ ~must
    BY <1>3
  <2> HIDE DEF must
  <2> QED  BY <1>3, <2>1, Proceeds
<1>5. UNCHANGED load /\ MemoryInv
  BY <1>4 DEF Onward, LoaderInv
<1>6. \/ \E v \in Nat : write(addr, n, ToBytes(v + bias, n))
      \/ read(addr, n)
  BY Zenon DEF RebaseCall
<1>7. Sound(load) => ~Direct(addr)
  BY <1>2, AddressAssumption DEF Direct
<1> HIDE DEF addr, bias, c, n
<1>8. ASSUME NEW v \in Nat, write(addr, n, ToBytes(v + bias, n))
      PROVE  /\ MemoryInv' /\ UNCHANGED <<segments, brk_base, host>>
             /\ (result'.out = "fault" \/ \E b \in HostAddr : host[b] = "own" /\ ram'[b] # ram[b]) => Direct(addr)
             /\ result'.out = "panic" => ~Fitting(load)
  <2> DEFINE data == ToBytes(v + bias, n)
  <2>1. v + bias \in Int
    BY <1>2
  <2>2. data \in [0 .. n - 1 -> Byte]
    BY <1>2, <2>1, IntegerBytes
  <2>3. write(addr, n, data)
    BY <1>8
  <2> HIDE DEF data
  <2> QED  BY <1>2, <1>5, <2>2, <2>3, StoreDoes
<1>9. ASSUME read(addr, n)
      PROVE  /\ MemoryInv' /\ UNCHANGED <<segments, brk_base, host, ram>>
             /\ result'.out = "fault" => Direct(addr)
             /\ result'.out = "panic" => ~Fitting(load)
  <2>1. TypeOK /\ HeapBacked /\ SegmentsIsolated /\ Unprotected /\ OwnKept /\ SegmentsLow
    BY <1>5 DEF MemoryInv
  <2>2. UNCHANGED <<segments, brk_base, host, ram>>
    BY <1>9 DEF read
  <2>6. PICK out : out = ReadOutcome(addr, n) /\ result'.out \in Ends(out)
    BY <1>9 DEF read
  <2>7. \/ result'.out = ReadOutcome(addr, n)
        \/ result'.out = "panic" /\ \E i \in DOMAIN segments : PastTop(segments[i])
    BY <2>6, EndsTyped
  <2>3. TypeOK' /\ HeapBacked' /\ SegmentsIsolated'
    BY <1>2, <1>9, <2>1, ReadKeeps DEF Kept
  <2>4. Unprotected' /\ OwnKept' /\ SegmentsLow'
    BY <1>5, <2>1, <2>2 DEF Unprotected, OwnKept, SegmentsLow
  <2>5. /\ result'.out = "fault" => Direct(addr)
        /\ ReadOutcome(addr, n) = "panic" => n > AllocMax
    BY <1>2, <2>1, <2>7, ReadFails
  <2>8. ReadOutcome(addr, n) # "panic"
    BY <1>2, <2>5, AddressAssumption
  <2>9. result'.out = "panic" => ~Fitting(load)
    BY <2>1, <2>7, <2>8 DEF SegmentsLow
  <2> QED  BY <2>2, <2>3, <2>4, <2>5, <2>9 DEF MemoryInv
<1> QED  BY <1>4, <1>6, <1>7, <1>8, <1>9

LEMMA BrkDoes ==
  ASSUME LoaderInv, BrkCall
  PROVE  /\ Onward /\ MemoryInv' /\ UNCHANGED <<segments, host, ram>> /\ status' = "loading"
         /\ brk_base' = align_up_page(Head(todo).addr)
<1> DEFINE c == Head(todo)
           addr == c.addr
<1>1. load \in Loads /\ Parses(load.file) /\ c \in Calls(load) /\ c.op = "brk"
  BY AtCall DEF BrkCall
<1>2. addr \in Nat
  <2> HIDE DEF c
  <2> QED  BY <1>1, CallKinds
<1>3. Turn("brk") /\ set_brk_base(addr) /\ Proceed(FALSE)
  BY DEF BrkCall
<1>4. Onward /\ status' \in {"loading", "fault", "panic"} /\ (status' = "fault") = (result'.out = "fault")
      /\ (status' = "panic") = (result'.out = "panic")
  <2> DEFINE must == FALSE
  <2>1. Proceed(must) /\ ~must
    BY <1>3
  <2> HIDE DEF must
  <2> QED  BY <1>3, <2>1, Proceeds
<1>5. UNCHANGED load /\ TypeOK /\ HeapBacked /\ SegmentsIsolated /\ Unprotected /\ OwnKept /\ SegmentsLow
  BY <1>4 DEF Onward, LoaderInv, MemoryInv
<1> HIDE DEF addr, c
<1>6. /\ UNCHANGED <<segments, host, ram>> /\ brk_base' = align_up_page(addr) /\ result'.out = "ok"
  BY <1>3 DEF set_brk_base
<1>7. TypeOK' /\ HeapBacked' /\ SegmentsIsolated'
  BY <1>2, <1>3, <1>5, BrkBaseKeeps DEF Kept
<1>8. Unprotected' /\ OwnKept' /\ SegmentsLow'
  BY <1>5, <1>6 DEF Unprotected, OwnKept, SegmentsLow
<1> QED  BY <1>4, <1>6, <1>7, <1>8 DEF MemoryInv, addr, c

LEMMA Untouched ==
  ASSUME MemoryInv, UNCHANGED vars, UNCHANGED load
  PROVE  MemoryInv'
<1>1. Kept
  BY MappingsUntouched DEF MemoryInv, TypeOK
<1> QED  BY <1>1 DEF MemoryInv, Kept, Unprotected, OwnKept, SegmentsLow

LEMMA CallsOnward ==
  ASSUME todo \in Seq(Calls(load)), Onward
  PROVE  todo' \in Seq(Calls(load'))
<1> DEFINE C == Calls(load)
<1>1. todo \in Seq(C) /\ todo # <<>> /\ todo' = Tail(todo) /\ load' = load
  BY DEF Onward
<1> HIDE DEF C
<1>2. todo' \in Seq(C)
  BY <1>1
<1>3. Calls(load') = C
  BY <1>1 DEF C
<1> QED  BY <1>2, <1>3

(* Each call keeps the invariant: what it needs of the call's effect.      *)
LEMMA OnwardKeeps ==
  ASSUME LoaderInv, Onward, MemoryInv',
         IF Head(todo).op = "brk" THEN brk_base' = align_up_page(Head(todo).addr) ELSE UNCHANGED brk_base,
         \A i \in DOMAIN segments : i \in DOMAIN segments' /\ segments'[i] = segments[i],
         Sound(load) /\ status' = "loading" =>
           /\ \A i \in DOMAIN segments' \ DOMAIN segments :
                segments'[i].addr = StackTop - StackSize => segments'[i].size = StackSize
           /\ Head(todo).op = "map" /\ Head(todo).must =>
                \E i \in DOMAIN segments' : segments'[i].addr = Head(todo).addr /\ segments'[i].size = Head(todo).size
  PROVE  LoaderInv'
<1>1. load \in Loads /\ todo \in Seq(Calls(load)) /\ Opened /\ HeapPlanned /\ Backed
  BY DEF LoaderInv
<1>2. Opened'
  BY <1>1, OpenedOnward
<1>3. HeapPlanned'
  BY <1>1, HeapOnward
<1>4. Backed'
  BY <1>1, BackedOnward
<1>5. todo' \in Seq(Calls(load'))
  BY <1>1, CallsOnward
<1>6. load' \in Loads
  BY <1>1 DEF Onward
<1> QED  BY <1>2, <1>3, <1>4, <1>5, <1>6 DEF LoaderInv

LEMMA PlainOnward ==
  ASSUME LoaderInv, Onward, MemoryInv', Head(todo).op \notin {"map", "brk"}, UNCHANGED <<segments, brk_base>>
  PROVE  LoaderInv'
<1>1. \A i \in DOMAIN segments : i \in DOMAIN segments' /\ segments'[i] = segments[i]
  OBVIOUS
<1>2. \A i \in DOMAIN segments' \ DOMAIN segments : FALSE
  OBVIOUS
<1> QED  BY <1>1, <1>2, OnwardKeeps

LEMMA LoadStarts ==
  ASSUME LoaderInit
  PROVE  LoaderInv
<1>1. HostOwned \cup load.taken \subseteq HostAddr
  BY OwnInHost DEF LoaderInit
<1>2. TypeOK /\ HeapBacked /\ SegmentsIsolated
  BY ByteAssumption DEF LoaderInit, TypeOK, HeapBacked, SegmentsIsolated
<1>3. OwnKept /\ Unprotected
  BY <1>1 DEF LoaderInit, OwnKept, Unprotected
<1>4. load \in Loads /\ todo = <<>> /\ status = "opening" /\ segments = <<>>
  BY DEF LoaderInit
<1>5. todo \in Seq(Calls(load)) /\ ~Going
  BY <1>4 DEF Going
<1>6. SegmentsLow
  BY <1>4 DEF SegmentsLow
<1> QED  BY <1>2, <1>3, <1>4, <1>5, <1>6 DEF LoaderInv, MemoryInv, Opened, HeapPlanned, Backed

(* The plan of the file is taken up. *)
LEMMA OpenKeeps ==
  ASSUME LoaderInv, OpenElf \/ OpenMachO
  PROVE  LoaderInv' /\ status' = "loading" /\ UNCHANGED vars
<1> DEFINE l == load
           plan == Plan(l)
           img == ImageOf(l)
<1>1. /\ l \in Loads /\ Parses(l.file) /\ UNCHANGED vars /\ load' = l /\ todo' = plan /\ image' = img
      /\ status' = "loading" /\ MemoryInv
  BY DEF OpenElf, OpenMachO, LoaderInv
<1>2. segments = <<>> /\ segments' = segments
  BY <1>1 DEF OpenElf, OpenMachO, LoaderInv, Backed
<1>3. MemoryInv'
  BY <1>1, Untouched
<1>4. Planned(l, plan)
  BY <1>1, PlanIs
<1>5. /\ Bias' = PlanBias(l) /\ IsElf' = (l.file.magic \notin MachOMagic)
      /\ bin'.stack_pointer = StackPointer(l)
      /\ bin'.dynamic_thunks = dynamic_thunks(Imports(l))
  <2>1. CASE OpenElf
    <3>1. l.file.magic \notin MachOMagic /\ bin' = ElfBinary(img, l.file.size, l.args) /\ image' = img
      BY <2>1 DEF OpenElf
    <3>2. bin'.target_os = "Linux" /\ bin'.stack_pointer = ElfStack(img, l.file.size, l.args).sp
          /\ bin'.dynamic_thunks = dynamic_thunks(elf_imports(img))
      BY <3>1 DEF ElfBinary
    <3> HIDE DEF img
    <3> QED  BY <3>1, <3>2 DEF Bias, IsElf, PlanBias, StackPointer, Imports, img
  <2>2. CASE OpenMachO
    <3>1. l.file.magic \in MachOMagic /\ bin' = MachOBinary(img, l.path, l.args) /\ image' = img
      BY <2>2 DEF OpenMachO
    <3>2. bin'.target_os = "Darwin" /\ bin'.stack_pointer = MachOStack(l.path, l.args).sp
          /\ bin'.dynamic_thunks = dynamic_thunks(macho_imports(img))
      BY <3>1 DEF MachOBinary
    <3> HIDE DEF img
    <3> QED  BY <3>1, <3>2 DEF Bias, IsElf, PlanBias, StackPointer, Imports, img
  <2> QED  BY <2>1, <2>2
<1> HIDE DEF l, plan
<1>6. Opened'
  BY <1>1, <1>5 DEF Opened, img
<1> DEFINE Placed(k, t) == PlacesHeapOnce(k, t)
<1>7. Placed(load', todo')
  <2>1. Placed(l, plan)
    BY <1>4 DEF Planned
  <2> HIDE DEF Placed
  <2> QED  BY <1>1, <2>1
<1>8. HeapPlanned'
  BY <1>1, <1>7 DEF HeapPlanned
<1> DEFINE Ready(k, t) == Sound(k) => Fronted(t)
<1>9. Ready(load', todo')
  <2>1. Ready(l, plan)
    BY <1>4 DEF Planned
  <2> HIDE DEF Ready
  <2> QED  BY <1>1, <2>1
<1>10. Backed'
  BY <1>1, <1>2, <1>9 DEF Backed, Fronted
<1> DEFINE Typed(k, t) == t \in Seq(Calls(k)) /\ k \in Loads
<1>11. Typed(load', todo')
  <2>1. Typed(l, plan)
    BY <1>1, <1>4 DEF Planned
  <2> HIDE DEF Typed
  <2> QED  BY <1>1, <2>1
<1> QED  BY <1>1, <1>3, <1>6, <1>8, <1>10, <1>11 DEF LoaderInv

(* Steps that leave the memory alone and call nothing. *)
LEMMA StopKeeps ==
  ASSUME LoaderInv, UNCHANGED vars, UNCHANGED <<load, todo, image, bin>>,
         \/ UNCHANGED status
         \/ status' = "err"
         \/ status = "loading" /\ status' = "loaded" /\ todo = <<>>
  PROVE  LoaderInv'
<1>1. MemoryInv'
  BY Untouched DEF LoaderInv
<1>2. Opened'
  <2>1. Bias' = Bias /\ IsElf' = IsElf
    BY DEF Bias, IsElf
  <2> QED  BY <2>1 DEF LoaderInv, Opened, Going
<1>3. HeapPlanned'
  BY DEF LoaderInv, HeapPlanned, Going, PlacesHeapOnce
<1>4. Backed'
  BY DEF LoaderInv, Backed, Going, Holds
<1> QED  BY <1>1, <1>2, <1>3, <1>4 DEF LoaderInv

LEMMA CallKeeps ==
  ASSUME LoaderInv, [LoaderNext]_loadVars
  PROVE  LoaderInv'
<1>1. CASE OpenFails \/ Finish \/ UNCHANGED loadVars
  BY <1>1, StopKeeps DEF OpenFails, Finish, loadVars
<1>2. CASE OpenElf \/ OpenMachO
  BY <1>2, OpenKeeps
<1>3. CASE OverflowCall \/ PanicCall \/ FailCall
  <2>1. /\ Onward /\ UNCHANGED vars
    BY <1>3 DEF OverflowCall, PanicCall, FailCall, Onward, Turn
  <2>2. MemoryInv' /\ Head(todo).op \notin {"map", "brk"}
    BY <1>3, <2>1, Untouched DEF OverflowCall, PanicCall, FailCall, Turn, LoaderInv, Onward
  <2> QED  BY <2>1, <2>2, PlainOnward
<1>4. CASE MapCall
  <2>1. Head(todo).op # "brk"
    BY <1>4 DEF MapCall, Turn
  <2> QED  BY <1>4, <2>1, MapDoes, OnwardKeeps
<1>5. CASE WriteCall
  <2>1. Head(todo).op \notin {"map", "brk"}
    BY <1>5 DEF WriteCall, Turn
  <2> QED  BY <1>5, <2>1, WriteDoes, PlainOnward
<1>6. CASE RebaseCall
  <2>1. Head(todo).op \notin {"map", "brk"}
    BY <1>6 DEF RebaseCall, Turn
  <2> QED  BY <1>6, <2>1, RebaseDoes, PlainOnward
<1>7. CASE BrkCall
  <2>1. Head(todo).op = "brk"
    BY <1>7 DEF BrkCall, Turn
  <2>2. /\ Onward /\ MemoryInv' /\ UNCHANGED segments
        /\ brk_base' = align_up_page(Head(todo).addr)
    BY <1>7, BrkDoes
  <2>3. Head(todo).op # "map"
    BY <2>1
  <2>4. \A i \in DOMAIN segments : i \in DOMAIN segments' /\ segments'[i] = segments[i]
    BY <2>2
  <2>5. \A i \in DOMAIN segments' \ DOMAIN segments : FALSE
    BY <2>2
  <2> QED  BY <2>1, <2>2, <2>3, <2>4, <2>5, OnwardKeeps
<1> QED  BY <1>1, <1>2, <1>3, <1>4, <1>5, <1>6, <1>7 DEF LoaderNext

-----------------------------------------------------------------------------
(* At every point of every load the heap is backed, no two mappings share  *)
(* host memory, and what the emulator had mapped beforehand is mapped as   *)
(* it was: no segment lies on it (load_file_with_args of both loaders).    *)
THEOREM LoadsKeepMemory == LoaderSpec => [](TypeOK /\ HeapBacked /\ SegmentsIsolated /\ OwnKept)
<1>1. LoaderInit => LoaderInv
  BY LoadStarts
<1>2. LoaderInv /\ [LoaderNext]_loadVars => LoaderInv'
  BY CallKeeps
<1>3. LoaderInv => TypeOK /\ HeapBacked /\ SegmentsIsolated /\ OwnKept
  BY DEF LoaderInv, MemoryInv
<1> QED  BY <1>1, <1>2, <1>3, PTL DEF LoaderSpec

(* The least page boundary at or above m. *)
LEMMA LeastPage ==
  ASSUME NEW m \in Nat, NEW b \in Nat, b % PAGE_SIZE = 0, m <= b
  PROVE  align_up_page(m) <= b
<1> DEFINE p == PAGE_SIZE
           x == m + p - 1
           d == x \div p
           r == x % p
           q == b \div p
<1>1. p \in Nat \ {0} /\ x \in Nat
  BY PageAssumption
<1>2. d \in Int /\ r \in 0 .. p - 1 /\ x = p * d + r
  <2> HIDE DEF x, p
  <2> QED  BY <1>1
<1>3. q \in Int /\ b = p * q
  <2> HIDE DEF p
  <2>1. b % p = 0
    BY DEF p
  <2> QED  BY <1>1, <2>1
<1>4. align_up_page(m) = x - r
  BY DEF align_up_page, align_down_page
<1> HIDE DEF d, r, q
<1>5. d <= q
  <2> SUFFICES ASSUME d >= q + 1 PROVE FALSE
    BY <1>2, <1>3
  <2> DEFINE e == d - q - 1
  <2>1. e \in Nat /\ d = q + 1 + e
    BY <1>2, <1>3
  <2> HIDE DEF e
  <2>2. p * d = p * q + p + p * e
    BY <1>1, <1>3, <2>1
  <2>3. p * e \in Nat /\ p * q \in Int
    BY <1>1, <1>3, <2>1
  <2> DEFINE pe == p * e
             pq == p * q
             pd == p * d
  <2>4. pd = pq + p + pe /\ pe \in Nat /\ pq \in Int /\ b = pq /\ x = pd + r /\ m + p - 1 = x
    BY <1>2, <1>3, <2>2, <2>3
  <2> HIDE DEF pe, pq, pd, x, p
  <2> QED  BY <1>1, <1>2, <2>4
<1>6. p * d <= p * q
  <2> DEFINE e == q - d
  <2>1. e \in Nat /\ q = d + e
    BY <1>2, <1>3, <1>5
  <2> HIDE DEF e
  <2>2. p * q = p * d + p * e /\ p * e \in Nat /\ p * d \in Int
    BY <1>1, <1>2, <2>1
  <2> QED  BY <2>2
<1> DEFINE pd == p * d
<1>7. pd \in Int
  BY <1>1, <1>2
<1> HIDE DEF pd
<1>8. x = pd + r /\ pd <= b
  BY <1>2, <1>3, <1>6 DEF pd
<1> HIDE DEF x, p
<1> QED  BY <1>1, <1>2, <1>4, <1>7, <1>8

LEMMA HeapPlaced ==
  ASSUME LoaderInv
  PROVE  HeapAboveImage
<1> SUFFICES ASSUME Loaded, SegmentsFit(image, Bias) PROVE HeapAboveImage
  BY DEF HeapAboveImage
<1> DEFINE segs == ImageOf(load).segs
           bias == PlanBias(load)
           m == max_vaddr(segs, bias)
           End(i) == segs[i].addr + bias + segs[i].size
<1>1. /\ load \in Loads /\ Parses(load.file) /\ image = ImageOf(load) /\ Bias = bias
      /\ todo = <<>> /\ (PlacesHeapOnce(load, todo) \/ brk_base = align_up_page(ImageEnd(load)))
  BY DEF LoaderInv, Opened, HeapPlanned, Going, Loaded
<1>3. segs \in Seq(FileSegment) /\ bias \in Nat /\ SegmentsFit(ImageOf(load), bias)
  BY <1>1, FileFacts DEF IsImage
<1>4. ImageEnd(load) = m
  BY <1>3, EndsFit DEF ImageEnd
<1>2. brk_base = align_up_page(m)
  BY <1>1, <1>4 DEF PlacesHeapOnce
<1>5. \A i \in DOMAIN segs : End(i) \in Nat /\ AsWord(End(i)) = End(i)
  BY <1>3, EndsFit
<1>6. /\ m \in Nat /\ \A x \in ImageEnds(segs, bias) : x <= m
      /\ m # 0 => m \in ImageEnds(segs, bias)
  <2> HIDE DEF segs, bias
  <2> QED  BY <1>3, MaxVaddrIs
<1> HIDE DEF m
<1>7. align_up_page(m) \in Nat /\ m <= align_up_page(m)
  BY <1>6, PageBounds
<1>8. ASSUME NEW i \in DOMAIN segs, segs[i].size # 0
      PROVE  End(i) <= brk_base
  <2> DEFINE e == End(i)
  <2>1. e \in Nat /\ AsWord(e) = e
    BY <1>5, <1>8
  <2>3. AsWord(e) \in ImageEnds(segs, bias)
    BY <1>8 DEF ImageEnds
  <2> HIDE DEF e
  <2>2. e <= m
    BY <1>6, <2>1, <2>3
  <2> QED  BY <1>2, <1>6, <1>7, <2>1, <2>2 DEF e
<1>9. ASSUME NEW b \in 1 .. brk_base, b % PAGE_SIZE = 0, b < brk_base
      PROVE  \E i \in DOMAIN segs : segs[i].size # 0 /\ End(i) > b
  <2>1. b \in Nat
    BY <1>2, <1>7
  <2>2. m > b
    BY <1>2, <1>6, <1>7, <1>9, <2>1, LeastPage
  <2>3. m # 0
    BY <1>6, <1>9, <2>2
  <2>4. PICK i \in {j \in DOMAIN segs : segs[j].size # 0} : m = AsWord(End(i))
    BY <1>6, <2>3 DEF ImageEnds
  <2>5. m = End(i)
    BY <1>5, <2>4
  <2> QED  BY <2>2, <2>4, <2>5
<1> QED  BY <1>1, <1>8, <1>9 DEF HeapAboveImage

(* Once a file is loaded its heap starts on the page after the last byte   *)
(* of the image, whatever the order of the segments, for any file whose    *)
(* segments end below the last page of addresses (max_vaddr, set_brk_base).*)
THEOREM HeapAlwaysAboveImage == LoaderSpec => []HeapAboveImage
<1>1. LoaderInit => LoaderInv
  BY LoadStarts
<1>2. LoaderInv /\ [LoaderNext]_loadVars => LoaderInv'
  BY CallKeeps
<1>3. LoaderInv => HeapAboveImage
  BY HeapPlaced
<1> QED  BY <1>1, <1>2, <1>3, PTL DEF LoaderSpec

(* The names of a file have one slot each, of their own, side by side      *)
(* (symbol_map and next_idx of both loaders).                              *)
THEOREM SlotsAlwaysDistinct == LoaderSpec => []SlotsDistinct
<1>1. LoaderInit => LoaderInv
  BY LoadStarts
<1>2. LoaderInv /\ [LoaderNext]_loadVars => LoaderInv'
  BY CallKeeps
<1>3. ASSUME LoaderInv, Loaded
      PROVE  LET dt == bin.dynamic_thunks
             IN  /\ \A p, q \in dt : (p[1] = q[1]) = (p[2] = q[2])
                 /\ \A p \in dt : \E k \in 0 .. Cardinality(dt) - 1 : p[1] = ThunkBase + PtrBytes * k
  <2> DEFINE names == Imports(load)
             dt == dynamic_thunks(names)
  <2>1. load \in Loads /\ Parses(load.file) /\ bin.dynamic_thunks = dt
    BY <1>3 DEF LoaderInv, Opened, Going, Loaded
  <2>2. PICK S : names \in Seq(S)
    BY <2>1, ImportsTyped
  <2> HIDE DEF names
  <2>3. \A p \in dt : p[2] \in ToSet(names) /\ p[1] = ThunkOf(names, p[2])
    BY DEF dynamic_thunks
  <2> HIDE DEF dt
  <2>4. \A p, q \in dt : (p[1] = q[1]) = (p[2] = q[2])
    BY <2>2, <2>3, SlotsDiffer
  <2>5. \A p \in dt : \E k \in 0 .. Cardinality(dt) - 1 : p[1] = ThunkBase + PtrBytes * k
    BY <2>2, <2>3, SlotWithin DEF dt
  <2> QED  BY <2>1, <2>4, <2>5
<1>4. LoaderInv => SlotsDistinct
  BY <1>3 DEF SlotsDistinct
<1> QED  BY <1>1, <1>2, <1>4, PTL DEF LoaderSpec

(* A load ends early only for a reason the file, the kernel or the         *)
(* arguments give: in an error for a file that cannot be parsed or read or *)
(* a mapping that is refused (the ? of every call of both loaders), in a   *)
(* panic for an ELF file shorter than its header, addresses that leave 64  *)
(* bits or zeros no vector can hold, and in a signal for a stack that is   *)
(* elsewhere or too small.  Until then it leaves the emulator's own memory *)
(* alone, if the image is in range.                                        *)
THEOREM LoadsAreHarmless == LoaderSpec => LoadHarmless
<1> DEFINE OwnStored == \E b \in HostAddr : host[b] = "own" /\ ram'[b] # ram[b]
           Errs ==
             status' = "err" =>
               \/ status = "opening" /\ UNCHANGED vars
               \/ status = "loading" /\ Head(todo).op = "fail"
               \/ /\ status = "loading" /\ Head(todo).op = "map"
                  /\ \/ Head(todo).addr = StackTop - StackSize
                     \/ \E i \in DOMAIN image.segs : Head(todo).addr = align_down_page(AsWord(image.segs[i].addr + Bias))
               \/ ~InRange(image, Bias)
           Faults ==
             status' = "fault" \/ OwnStored =>
               \/ Head(todo).addr >= bin.stack_pointer /\ (~StackPlaced \/ ~StackFits)
               \/ ~InRange(image, Bias)
           Own == \A b \in HostAddr : host[b] = "own" => host'[b] = "own"
           NoFit ==
             \/ IsElf /\ load.file.size < HeaderEnd
             \/ ~AddressesFit
             \/ \E i \in DOMAIN image.segs : image.segs[i].size - Len(image.segs[i].data) > AllocMax
           Panicked == status' = "panic" => NoFit
           Harmless == Errs /\ Faults /\ Own /\ Panicked
<1>1. ASSUME LoaderInv, status = "loading"
      PROVE  /\ load \in Loads /\ Parses(load.file) /\ image = ImageOf(load) /\ Bias = PlanBias(load)
             /\ bin.stack_pointer = StackPointer(load) /\ Sound(load) = InRange(image, Bias)
             /\ ~Fitting(load) => NoFit
             /\ Unfit(load) => NoFit
  <2>1. /\ load \in Loads /\ Parses(load.file) /\ image = ImageOf(load) /\ Bias = PlanBias(load)
        /\ bin.stack_pointer = StackPointer(load) /\ IsElf = (load.file.magic \notin MachOMagic)
    BY <1>1 DEF LoaderInv, Opened, Going
  <2>2. Sound(load) = InRange(image, Bias)
    BY <2>1 DEF Sound
  <2>3. ~Fitting(load) => NoFit
    BY <2>1 DEF Fitting, AddressesFit
  <2>4. Unfit(load) => NoFit
    BY <2>1 DEF Unfit
  <2> HIDE DEF NoFit
  <2> QED  BY <2>1, <2>2, <2>3, <2>4
<1> HIDE DEF NoFit
<1>2. ASSUME UNCHANGED vars, status' \notin {"err", "fault", "panic"} PROVE Harmless
  BY <1>2
<1>3. ASSUME LoaderInv, OpenFails \/ Finish PROVE Harmless
  BY <1>3 DEF OpenFails, Finish
<1>4. ASSUME LoaderInv, OpenElf \/ OpenMachO PROVE Harmless
  BY <1>2, <1>4, OpenKeeps
<1>5. ASSUME LoaderInv, FailCall PROVE Harmless
  BY <1>5 DEF FailCall, Turn
<1>6. ASSUME LoaderInv, OverflowCall PROVE Harmless
  <2>1. /\ status = "loading" /\ status' \in {"loading", "panic"} /\ UNCHANGED vars /\ Turn("overflow")
    BY <1>6 DEF OverflowCall, Turn
  <2>2. load \in Loads /\ Parses(load.file) /\ Head(todo) \in Calls(load) /\ Head(todo).op = "overflow"
    BY <1>6, <2>1, AtCall
  <2> DEFINE c == Head(todo)
  <2> HIDE DEF c
  <2>3. ~Fitting(load)
    BY <2>2, CallKinds DEF c
  <2>4. Panicked
    BY <1>1, <1>6, <2>1, <2>3
  <2>5. Errs /\ Faults /\ Own
    BY <2>1
  <2> QED  BY <2>4, <2>5
<1>14. ASSUME LoaderInv, PanicCall PROVE Harmless
  <2>1. /\ status = "loading" /\ status' = "panic" /\ UNCHANGED vars /\ Turn("panic")
    BY <1>14 DEF PanicCall, Turn
  <2>2. load \in Loads /\ Parses(load.file) /\ Head(todo) \in Calls(load) /\ Head(todo).op = "panic"
    BY <1>14, <2>1, AtCall
  <2> DEFINE c == Head(todo)
  <2> HIDE DEF c
  <2>3. Unfit(load)
    BY <2>2, CallKinds DEF c
  <2>4. Panicked
    BY <1>1, <1>14, <2>1, <2>3
  <2>5. Errs /\ Faults /\ Own
    BY <2>1
  <2> QED  BY <2>4, <2>5
<1>7. ASSUME LoaderInv, MapCall PROVE Harmless
  <2>1. /\ status' # "fault" /\ status' # "panic"
        /\ \A b \in HostAddr : host[b] = "own" => host'[b] = "own" /\ ram'[b] = ram[b]
        /\ status' = "err" => Head(todo).addr \in Places(load)
    BY <1>7, MapDoes
  <2>2. status = "loading" /\ Head(todo).op = "map"
    BY <1>7 DEF MapCall, Turn
  <2>3. image = ImageOf(load) /\ Bias = PlanBias(load)
    BY <1>1, <1>7, <2>2
  <2>4. Errs
    BY <2>1, <2>2, <2>3 DEF Places
  <2>5. Faults /\ Own /\ Panicked
    BY <2>1
  <2> QED  BY <2>4, <2>5
<1>8. ASSUME LoaderInv, WriteCall PROVE Harmless
  <2>1. /\ UNCHANGED host /\ (status' = "panic" => ~Fitting(load))
        /\ status' = "fault" \/ OwnStored =>
              \/ ~Sound(load)
              \/ Head(todo).addr >= StackPointer(load) /\ (~StackPlaced \/ ~StackFits)
        /\ status' = "err" => ~Sound(load)
    BY <1>8, WriteDoes
  <2>2. status = "loading"
    BY <1>8 DEF WriteCall, Turn
  <2>3. bin.stack_pointer = StackPointer(load) /\ Sound(load) = InRange(image, Bias)
        /\ (~Fitting(load) => NoFit)
    BY <1>1, <1>8, <2>2
  <2> HIDE DEF OwnStored
  <2>4. Errs
    BY <2>1, <2>3
  <2>5. Faults
    BY <2>1, <2>3
  <2>6. Own /\ Panicked
    BY <2>1, <2>3
  <2> QED  BY <2>4, <2>5, <2>6
<1>9. ASSUME LoaderInv, RebaseCall PROVE Harmless
  <2>1. /\ UNCHANGED host /\ status' # "err" /\ (status' = "panic" => ~Fitting(load))
        /\ status' = "fault" \/ OwnStored => ~Sound(load)
    BY <1>9, RebaseDoes
  <2>2. status = "loading"
    BY <1>9 DEF RebaseCall, Turn
  <2>3. Sound(load) = InRange(image, Bias) /\ (~Fitting(load) => NoFit)
    BY <1>1, <1>9, <2>2
  <2> HIDE DEF OwnStored
  <2>4. Errs /\ Own /\ Panicked
    BY <2>1, <2>3
  <2>5. Faults
    BY <2>1, <2>3
  <2> QED  BY <2>4, <2>5
<1>10. ASSUME LoaderInv, BrkCall PROVE Harmless
  <2>1. UNCHANGED <<host, ram>> /\ status' = "loading"
    BY <1>10, BrkDoes
  <2> QED  BY <2>1
<1>11. LoaderInv /\ [LoaderNext]_loadVars => [Harmless]_loadVars
  <2> HIDE DEF Harmless
  <2> QED  BY <1>3, <1>4, <1>5, <1>6, <1>7, <1>8, <1>9, <1>10, <1>14 DEF LoaderNext
<1>12. LoaderInit => LoaderInv
  BY LoadStarts
<1>13. LoaderInv /\ [LoaderNext]_loadVars => LoaderInv'
  BY CallKeeps
<1> QED  BY <1>11, <1>12, <1>13, PTL DEF LoaderSpec, LoadHarmless, NoFit

=============================================================================
