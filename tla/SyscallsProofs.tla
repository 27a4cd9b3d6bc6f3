--------------------------- MODULE SyscallsProofs ---------------------------
(***************************************************************************)
(* Whatever system calls a guest makes, with whatever arguments, the       *)
(* manager's invariants hold.                                              *)
(***************************************************************************)
EXTENDS Syscalls, GuestMemoryProofs

USE DEF U32Bytes, HostAddr, Prot, heapVars, hostVars, vars, Alive, Returns

(* The arguments of a call are numbers. *)
LEMMA Arguments ==
  ASSUME NEW c \in Calls, NEW k \in 0 .. 4
  PROVE  c.x[k] \in Nat
BY CallAssumption

(* A value written with to_le_bytes is a sequence of bytes if a byte holds *)
(* what fits ByteBits bits.                                                *)
LEMMA LittleEndian ==
  ASSUME NEW v \in Nat
  PROVE  ToBytes(v, U32Bytes) \in [0 .. U32Bytes - 1 -> Byte]
<1> DEFINE n == 2^ByteBits
<1>1. n \in Nat \ {0} /\ 0 .. n - 1 \subseteq Byte
  BY WordAssumption
<1>2. ASSUME NEW j \in 0 .. U32Bytes - 1
      PROVE  Low(Shr(v, ByteBits * j), ByteBits) \in Byte
  <2> DEFINE d == 2^(ByteBits * j)
             q == v \div d
  <2>1. d \in Nat \ {0}
    BY WordAssumption
  <2> HIDE DEF d, n
  <2>2. q \in Nat
    BY <2>1
  <2> HIDE DEF q
  <2>3. q % n \in 0 .. n - 1
    BY <1>1, <2>2
  <2> QED  BY <1>1, <2>3 DEF Low, Shr, n, q, d
<1> QED  BY <1>2 DEF ToBytes

(* A handler that uses no memory, or only reads it. *)
LEMMA MemoryKeeps ==
  ASSUME TypeOK, NEW op, NEW out \in {"ok", "err", "fault", "panic"}, Memory(op, out)
  PROVE  Kept
BY MappingsUntouched DEF Memory, TypeOK

(* How a call that drops an error ends, and one that passes it on.         *)
LEMMA DroppedTyped ==
  ASSUME NEW out \in {"ok", "err", "fault", "panic"}, NEW end \in Dropped(out)
  PROVE  /\ end \in {"ok", "fault", "panic"}
         /\ end = "ok" => out \in {"ok", "err"}
         /\ end = "fault" => out = "fault"
         /\ end = "panic" => \/ out = "panic"
                             \/ out = "err" /\ \E i \in DOMAIN segments : PastTop(segments[i])
BY EndsTyped DEF Dropped

LEMMA PassedOn ==
  ASSUME NEW out \in {"ok", "err", "fault", "panic"}, NEW end \in Ends(out)
  PROVE  end \in {"ok", "err", "fault", "panic"}
BY EndsTyped

LEMMA PathTyped ==
  ASSUME NEW ptr
  PROVE  PathAt(ptr).out \in {"ok", "err", "fault", "panic"}
BY OutcomesTyped DEF PathAt, read_string

(* Two writes one after the other: what ram becomes and how they end.      *)
LEMMA StoreBothEnds ==
  ASSUME NEW p, NEW len1, NEW data1, NEW q, NEW len2, NEW data2,
         StoreBoth(p, len1, data1, q, len2, data2)
  PROVE  LET first == IF p = 0 THEN ram ELSE Stored(ram, p, len1, data1)
         IN  /\ ram' = first \/ (q # 0 /\ ram' = Stored(first, q, len2, data2))
             /\ \/ result'.out = "ok"
                \/ p # 0 /\ result'.out \in Dropped(WriteOutcome(p, len1))
                \/ q # 0 /\ result'.out \in Dropped(WriteOutcome(q, len2))
             /\ result'.out \in {"ok", "fault", "panic"}
             /\ UNCHANGED <<segments, heapVars, host>>
<1> DEFINE first == IF p = 0 THEN ram ELSE Stored(ram, p, len1, data1)
           out == IF p = 0 THEN "ok" ELSE WriteOutcome(p, len1)
<1>1. PICK end \in Dropped(out) :
        IF end # "ok" \/ q = 0
        THEN ram' = first /\ result' = Returns("write", end)
        ELSE /\ ram' = Stored(first, q, len2, data2)
             /\ \E last \in Dropped(WriteOutcome(q, len2)) : result' = Returns("write", last)
  BY DEF StoreBoth
<1>2. UNCHANGED <<segments, heapVars, host>>
  BY DEF StoreBoth
<1>3. out \in {"ok", "err", "fault", "panic"} /\ WriteOutcome(q, len2) \in {"ok", "err", "fault", "panic"}
  BY OutcomesTyped
<1>4. p = 0 => end = "ok"
  BY <1>1 DEF Dropped, Ends
<1>5. end \in {"ok", "fault", "panic"}
  BY <1>1, <1>3, DroppedTyped
<1>6. \A last \in Dropped(WriteOutcome(q, len2)) : last \in {"ok", "fault", "panic"}
  BY <1>3, DroppedTyped
<1>7. p # 0 => end \in Dropped(WriteOutcome(p, len1))
  BY <1>1
<1> HIDE DEF first, out
<1>8. CASE end # "ok" \/ q = 0
  <2>1. ram' = first /\ result'.out = end
    BY <1>1, <1>8
  <2> QED  BY <1>2, <1>4, <1>5, <1>7, <2>1 DEF first
<1>9. CASE ~(end # "ok" \/ q = 0)
  <2>1. ram' = Stored(first, q, len2, data2)
    BY <1>1, <1>9
  <2>2. PICK last \in Dropped(WriteOutcome(q, len2)) : result'.out = last
    BY <1>1, <1>9
  <2> QED  BY <1>2, <1>6, <1>9, <2>1, <2>2 DEF first
<1> QED  BY <1>8, <1>9

(* Two writes one after the other. *)
LEMMA StoreBothKeeps ==
  ASSUME TypeOK, NEW p \in Nat, NEW len1 \in Nat, NEW data1 \in [0 .. len1 - 1 -> Byte],
         NEW q \in Nat, NEW len2 \in Nat, NEW data2,
         q # 0 => data2 \in [0 .. len2 - 1 -> Byte],
         StoreBoth(p, len1, data1, q, len2, data2)
  PROVE  Kept
<1> DEFINE first == IF p = 0 THEN ram ELSE Stored(ram, p, len1, data1)
<1>1. first \in [HostAddr -> Byte]
  BY StoredTyped DEF TypeOK
<1>2. ram' = first \/ (q # 0 /\ ram' = Stored(first, q, len2, data2))
  BY StoreBothEnds
<1> HIDE DEF first
<1>3. ram' \in [HostAddr -> Byte]
  BY <1>1, <1>2, StoredTyped
<1>4. result'.out \in {"ok", "fault", "panic"} /\ UNCHANGED <<segments, heapVars, host>>
  BY StoreBothEnds
<1> QED  BY <1>3, <1>4, MappingsUntouched

-----------------------------------------------------------------------------
(* The state a loader leaves satisfies the invariants. *)
LEMMA InitKept ==
  ASSUME SysInit
  PROVE  TypeOK /\ HeapBacked /\ SegmentsIsolated
<1> DEFINE image == [addr |-> ImageAddr, size |-> ImageSize, prot |-> "RWX", ptr |-> ImageAddr]
           stack == [addr |-> StackAddr, size |-> StackSize, prot |-> "RWX", ptr |-> StackAddr]
           base == align_up_page(ImageAddr + ImageSize)
<1>1. segments = <<image, stack>>
  BY DEF SysInit
<1>2. /\ ImageAddr \in Pages(ImageAddr, ImageSize)
      /\ StackAddr \in Pages(StackAddr, StackSize)
  BY LayoutAssumption, PageBounds DEF Pages
<1>3. ImageAddr \in HostAddr /\ StackAddr \in HostAddr
  BY <1>2, LayoutAssumption
<1>4. image \in Segment /\ stack \in Segment
  BY <1>3, LayoutAssumption DEF Segment
<1>5. base \in Nat
  BY LayoutAssumption, PageBounds
<1>6. brk_base = base /\ brk_current = base /\ brk_mapped_end = base
  BY DEF SysInit
<1>7. TypeOK
  <2> HIDE DEF image, stack, base
  <2>1. segments \in Seq(Segment)
    BY <1>1, <1>4
  <2>2. /\ host \in [HostAddr -> Prot \cup {"free", "own"}]
        /\ ram \in [HostAddr -> Byte]
        /\ result.out \in {"ok", "err", "fault", "panic"}
    BY ByteAssumption DEF SysInit
  <2> QED  BY <1>5, <1>6, <2>1, <2>2 DEF TypeOK
<1>8. HeapBacked
  <2> HIDE DEF base
  <2> QED  BY <1>5, <1>6 DEF HeapBacked
<1>9. SegmentsIsolated
  <2> DEFINE P == Pages(ImageAddr, ImageSize)
             Q == Pages(StackAddr, StackSize)
  <2>1. Extent(image) = P /\ Extent(stack) = Q
    BY DEF Extent
  <2>2. DOMAIN segments = {1, 2} /\ segments[1] = image /\ segments[2] = stack
    BY <1>1
  <2>3. \A b \in P \cup Q : b \in HostAddr /\ host[b] = "RWX"
    BY LayoutAssumption DEF SysInit
  <2>4. P \cap Q = {}
    BY LayoutAssumption
  <2> HIDE DEF P, Q, image, stack
  <2> QED  BY <2>1, <2>2, <2>3, <2>4 DEF SegmentsIsolated
<1> QED  BY <1>7, <1>8, <1>9

-----------------------------------------------------------------------------
(* The calls that read: what they do to the memory is one Memory step.     *)
LEMMA ReaderEnds ==
  ASSUME NEW x, sys_setsockopt(x) \/ sys_futex(x) \/ sys_write(x)
  PROVE  \E out \in {"ok", "fault", "panic"} : Memory("read", out)
<1>1. CASE sys_setsockopt(x)
  <2> DEFINE out == IF optlen(x) > AllocMax THEN "panic"
                    ELSE IF x[3] # 0 /\ optlen(x) > 0 THEN ReadOutcome(x[3], optlen(x)) ELSE "ok"
  <2>1. out \in {"ok", "err", "fault", "panic"}
    BY OutcomesTyped
  <2>2. PICK end \in Dropped(out) : Memory("read", end)
    BY <1>1 DEF sys_setsockopt
  <2> QED  BY <2>1, <2>2, DroppedTyped
<1>2. CASE sys_futex(x)
  <2> DEFINE out == IF x[1] % 128 = 0 /\ x[0] # 0 THEN ReadOutcome(x[0], U32Bytes) ELSE "ok"
  <2>1. out \in {"ok", "err", "fault", "panic"}
    BY OutcomesTyped
  <2>2. PICK end \in Dropped(out) : Memory("read", end)
    BY <1>2 DEF sys_futex
  <2> QED  BY <2>1, <2>2, DroppedTyped
<1>3. CASE sys_write(x)
  <2> DEFINE out == ReadOutcome(x[1], x[2])
  <2>1. out \in {"ok", "err", "fault", "panic"}
    BY OutcomesTyped
  <2>2. PICK end \in Dropped(out) \cup (IF out = "ok" /\ x[0] \in {1, 2} THEN {"panic"} ELSE {}) :
          Memory("read", end)
    BY <1>3 DEF sys_write
  <2>3. end \in {"ok", "fault", "panic"}
    BY <2>1, <2>2, DroppedTyped
  <2> QED  BY <2>2, <2>3
<1> QED  BY <1>1, <1>2, <1>3

LEMMA PathEnds ==
  ASSUME NEW x, sys_symlink(x) \/ sys_execve(x)
  PROVE  \E out \in {"ok", "err", "fault", "panic"} : Memory("read", out)
<1>1. CASE sys_symlink(x)
  <2> DEFINE target == PathAt(x[1])
             link == PathAt(x[2])
             out == IF target.out # "ok" THEN target.out ELSE link.out
  <2>1. out \in {"ok", "err", "fault", "panic"}
    BY PathTyped
  <2>2. PICK end \in Ends(out) : Memory("read", end)
    BY <1>1 DEF sys_symlink
  <2> QED  BY <2>1, <2>2, PassedOn
<1>2. CASE sys_execve(x)
  <2>1. PathAt(x[0]).out \in {"ok", "err", "fault", "panic"}
    BY PathTyped
  <2>2. PICK end \in Ends(PathAt(x[0]).out) : Memory("read", end)
    BY <1>2 DEF sys_execve
  <2> QED  BY <2>1, <2>2, PassedOn
<1> QED  BY <1>1, <1>2

(* Every handler keeps them. *)
LEMMA HandlerKeeps ==
  ASSUME TypeOK, [SysNext]_sysVars
  PROVE  Kept
<1> USE DEF JustAnswer, HostAnswer, HostStatus
<1>1. ASSUME NEW s \in Stores, Store(s)
      PROVE  Kept
  BY <1>1, WriteKeeps, StoreAssumption DEF Store
<1>2. ASSUME NEW out \in {"ok", "err", "fault", "panic"}, NEW op, Memory(op, out)
      PROVE  Kept
  BY <1>2, MemoryKeeps
<1>3. ASSUME NEW c \in Calls, sys_statfs(c.x)
      PROVE  Kept
  <2>1. CASE c.x[1] # 0
    <3>1. c.x[1] \in Nat
      BY Arguments
    <3>2. StatfsBytes.len \in Nat /\ StatfsBytes.data \in [0 .. StatfsBytes.len - 1 -> Byte]
      BY HostDataAssumption
    <3>3. write(c.x[1], StatfsBytes.len, StatfsBytes.data)
      BY <1>3, <2>1 DEF sys_statfs
    <3> QED  BY <3>1, <3>2, <3>3, WriteKeeps
  <2>2. CASE c.x[1] = 0
    BY <1>2, <1>3, <2>2 DEF sys_statfs
  <2> QED  BY <2>1, <2>2
<1>4. ASSUME NEW ptr \in Nat, NEW lenPtr \in Nat, HostResult(ptr, lenPtr)
      PROVE  Kept
  <2>1. ASSUME NEW d \in HostData,
               StoreBoth(ptr, d.len, d.data, lenPtr, U32Bytes, ToBytes(d.len, U32Bytes))
        PROVE  Kept
    BY <2>1, StoreBothKeeps, LittleEndian, HostDataAssumption
  <2> QED  BY <1>2, <1>4, <2>1 DEF HostResult
<1>5. ASSUME NEW c \in Calls, sys_getsockname(c.x) \/ sys_getsockopt(c.x)
      PROVE  Kept
  BY <1>4, <1>5, Arguments DEF sys_getsockname, sys_getsockopt
<1>6. ASSUME sys_socket \/ sys_listen \/ sys_kill \/ sys_fcntl \/ sys_close \/ sys_ids \/ sys_nothing
      PROVE  Kept
  BY <1>2, <1>6 DEF sys_socket, sys_listen, sys_kill, sys_fcntl, sys_close, sys_ids, sys_nothing
<1>7. ASSUME NEW c \in Calls, sys_setsockopt(c.x) \/ sys_futex(c.x) \/ sys_write(c.x)
      PROVE  Kept
  BY <1>2, <1>7, ReaderEnds
<1>8. ASSUME NEW c \in Calls, sys_symlink(c.x) \/ sys_execve(c.x)
      PROVE  Kept
  BY <1>2, <1>8, PathEnds
<1>9. ASSUME NEW c \in Calls, sys_clone(c.x)
      PROVE  Kept
  <2> DEFINE tid == ToBytes(Pid + 1, U32Bytes)
  <2>1. tid \in [0 .. U32Bytes - 1 -> Byte]
    BY LittleEndian, HostDataAssumption
  <2>2. c.x[4] \in Nat /\ c.x[2] \in Nat /\ U32Bytes \in Nat
    BY Arguments
  <2>3. Memory("none", "ok") \/ StoreBoth(c.x[4], U32Bytes, tid, c.x[2], U32Bytes, tid)
    BY <1>9, Zenon DEF sys_clone
  <2> HIDE DEF tid, U32Bytes
  <2>4. StoreBoth(c.x[4], U32Bytes, tid, c.x[2], U32Bytes, tid) => Kept
    BY <2>1, <2>2, StoreBothKeeps
  <2> QED  BY <1>2, <2>3, <2>4
<1>10. ASSUME NEW c \in Calls, sys_end_thread(c.x)
       PROVE  Kept
  <2>1. [k \in 0 .. U32Bytes - 1 |-> 0] \in [0 .. U32Bytes - 1 -> Byte]
    BY ByteAssumption
  <2>2. c.x[0] \in Nat /\ U32Bytes \in Nat
    BY Arguments
  <2>3. StoreBoth(c.x[0], U32Bytes, [k \in 0 .. U32Bytes - 1 |-> 0], 0, 0, <<>>)
    BY <1>10 DEF sys_end_thread
  <2> HIDE DEF U32Bytes
  <2> QED  BY <2>1, <2>2, <2>3, StoreBothKeeps
<1>11. ASSUME NEW c \in Calls, sys_exit(c.x) \/ sys_set_tls(c.x)
       PROVE  Kept
  BY <1>2, <1>11 DEF sys_exit, sys_set_tls
<1>12. ASSUME NEW c \in Calls, sys_mmap(c.x)
       PROVE  Kept
  BY <1>12, MapKeeps, Arguments, LayoutAssumption DEF sys_mmap, map_anonymous
<1>13. ASSUME NEW c \in Calls, sys_brk(c.x)
       PROVE  Kept
  BY <1>2, <1>13, BrkKeeps, Arguments DEF sys_brk
<1>14. CASE UNCHANGED sysVars
  BY <1>14, MappingsUntouched DEF sysVars, TypeOK
<1> QED  BY <1>1, <1>3, <1>5, <1>6, <1>7, <1>8, <1>9, <1>10, <1>11, <1>12, <1>13, <1>14
         DEF SysNext

(* Under any sequence of system calls and stores the heap the guest was    *)
(* told of is backed, and no two mappings share host memory (handle of     *)
(* linux.rs and darwin.rs).                                                *)
THEOREM SystemCallsKeepMemory == SysSpec => [](TypeOK /\ HeapBacked /\ SegmentsIsolated)
<1>1. SysInit => TypeOK /\ HeapBacked /\ SegmentsIsolated
  BY InitKept
<1>2. TypeOK /\ HeapBacked /\ SegmentsIsolated /\ [SysNext]_sysVars
        => (TypeOK /\ HeapBacked /\ SegmentsIsolated)'
  BY HandlerKeeps DEF Kept
<1> QED  BY <1>1, <1>2, PTL DEF SysSpec

-----------------------------------------------------------------------------
(* The registers and how a call ends. *)

CtxOK ==
  /\ ctx \in [target_os : TargetOses, x0 : Int, tpidr_el0 : Nat,
              exited : BOOLEAN, exit_code : 0 .. 2^WBits - 1]
  /\ ret \in {"ok", "stopped", "err", "fault", "panic"}
  /\ ctx.exited = (ret = "stopped")

(* A handler that only answers changes X0 to a number and exits nothing.   *)
LEMMA AnswerTyped ==
  ASSUME CtxOK, Running, result'.out \in {"ok", "err", "fault", "panic"}, NEW v \in Int, Answer(v)
  PROVE  CtxOK'
<1>1. ret' = result'.out /\ ctx.exited = FALSE
  BY DEF Answer, CtxOK, Running
<1>2. ctx' = ctx \/ ctx' = [ctx EXCEPT !.x0 = v]
  BY DEF Answer, SetX0
<1>3. ctx'.exited = ctx.exited
  BY <1>2 DEF CtxOK
<1>4. ctx' \in [target_os : TargetOses, x0 : Int, tpidr_el0 : Nat,
                exited : BOOLEAN, exit_code : 0 .. 2^WBits - 1]
  BY <1>2 DEF CtxOK
<1> QED  BY <1>1, <1>3, <1>4 DEF CtxOK

LEMMA LowTyped ==
  ASSUME NEW v \in Nat
  PROVE  Low(v, WBits) \in 0 .. 2^WBits - 1
<1> DEFINE n == 2^WBits
<1>1. n \in Nat \ {0}
  BY WordAssumption
<1> HIDE DEF n
<1>2. v % n \in 0 .. n - 1
  BY <1>1
<1> QED  BY <1>2 DEF Low, n

LEMMA CtxKept ==
  ASSUME CtxOK, TypeOK, TypeOK', [SysNext]_sysVars
  PROVE  CtxOK'
<1> USE DEF JustAnswer, HostAnswer, HostStatus
<1>0. result'.out \in {"ok", "err", "fault", "panic"} /\ brk_current' \in Int /\ \A r \in HostRets : r \in Int
  BY HostDataAssumption DEF TypeOK
<1>1. ASSUME Running, NEW v \in Int, Answer(v)
      PROVE  CtxOK'
  BY <1>0, <1>1, AnswerTyped
<1>2. ASSUME NEW s \in Stores, Store(s)
      PROVE  CtxOK'
  BY <1>1, <1>2 DEF Store
<1>3. ASSUME NEW c \in Calls, Running,
             sys_statfs(c.x) \/ sys_getsockname(c.x) \/ sys_getsockopt(c.x) \/ sys_setsockopt(c.x)
             \/ sys_symlink(c.x) \/ sys_execve(c.x) \/ sys_brk(c.x)
      PROVE  CtxOK'
  <2>1. \E v \in Int : Answer(v)
    BY <1>0, <1>3 DEF sys_statfs, sys_getsockname, sys_getsockopt, HostResult, sys_setsockopt,
      sys_symlink, sys_execve, ENOENT, sys_brk
  <2> QED  BY <1>1, <1>3, <2>1
<1>4. ASSUME Running,
             sys_socket \/ sys_listen \/ sys_kill \/ sys_fcntl \/ sys_close \/ sys_ids \/ sys_nothing
      PROVE  CtxOK'
  <2>1. \E v \in Int : Answer(v)
    BY <1>0, <1>4 DEF sys_socket, sys_listen, sys_kill, sys_fcntl, sys_close, sys_ids, sys_nothing
  <2> QED  BY <1>1, <1>4, <2>1
<1>5. ASSUME NEW c \in Calls, Running,
             sys_clone(c.x) \/ sys_futex(c.x) \/ sys_write(c.x) \/ sys_mmap(c.x)
      PROVE  CtxOK'
  <2>1. c.x[0] \in Nat /\ c.x[2] \in Nat
    BY Arguments
  <2>2. Low(c.x[2], WBits) \in Int
    BY <2>1, LowTyped, WordAssumption
  <2>3. \E v \in Int : Answer(v)
    <3>1. sys_clone(c.x) => Answer(Pid + 1)
      BY DEF sys_clone
    <3>2. sys_write(c.x) => Answer(c.x[2])
      BY DEF sys_write
    <3>3. sys_mmap(c.x) => Answer(IF c.x[0] = 0 THEN MmapDefault ELSE c.x[0])
      BY DEF sys_mmap
    <3>4. sys_futex(c.x) => Answer(Low(c.x[2], WBits)) \/ Answer(-EAGAIN) \/ Answer(0)
      BY DEF sys_futex
    <3>5. -EAGAIN \in Int /\ 0 \in Int /\ Pid + 1 \in Int
      BY HostDataAssumption DEF EAGAIN
    <3>6. (IF c.x[0] = 0 THEN MmapDefault ELSE c.x[0]) \in Int
      BY <2>1, LayoutAssumption
    <3> QED  BY <1>5, <2>1, <2>2, <3>1, <3>2, <3>3, <3>4, <3>5, <3>6
  <2> QED  BY <1>1, <1>5, <2>3
<1>6. ASSUME NEW c \in Calls, Running, sys_exit(c.x)
      PROVE  CtxOK'
  <2>1. Low(c.x[0], WBits) \in 0 .. 2^WBits - 1
    BY LowTyped, Arguments
  <2>2. ctx' = [ctx EXCEPT !.exited = TRUE, !.exit_code = Low(c.x[0], WBits)] /\ ret' = "stopped"
    BY <1>6 DEF sys_exit
  <2> QED  BY <2>1, <2>2 DEF CtxOK
<1>7. ASSUME NEW c \in Calls, Running, sys_set_tls(c.x)
      PROVE  CtxOK'
  <2>1. ctx' = [ctx EXCEPT !.x0 = 0, !.tpidr_el0 = c.x[0]] /\ ret' = "ok"
    BY <1>7 DEF sys_set_tls
  <2>2. ~ctx.exited
    BY <1>7 DEF CtxOK, Running
  <2>3. ctx' = [target_os |-> ctx.target_os, x0 |-> 0, tpidr_el0 |-> c.x[0],
                exited |-> ctx.exited, exit_code |-> ctx.exit_code]
    BY <2>1 DEF CtxOK
  <2>4. ctx.target_os \in TargetOses /\ ctx.exit_code \in 0 .. 2^WBits - 1 /\ c.x[0] \in Nat
    BY Arguments DEF CtxOK
  <2>5. ctx' \in [target_os : TargetOses, x0 : Int, tpidr_el0 : Nat,
                  exited : BOOLEAN, exit_code : 0 .. 2^WBits - 1]
    <3>1. ctx.exited \in BOOLEAN
      BY DEF CtxOK
    <3> QED  BY <2>3, <2>4, <3>1
  <2>6. ~ctx'.exited
    BY <2>2, <2>3
  <2> QED  BY <2>1, <2>5, <2>6 DEF CtxOK
<1>8. ASSUME NEW c \in Calls, Running, sys_end_thread(c.x)
      PROVE  CtxOK'
  <2>1. \/ ctx' = [ctx EXCEPT !.exited = TRUE, !.exit_code = 0] /\ ret' = "stopped"
        \/ ctx' = ctx /\ ret' \in {"err", "fault", "panic"}
    BY <1>0, <1>8 DEF sys_end_thread
  <2>3. ctx.exited = FALSE
    BY <1>8 DEF CtxOK, Running
  <2>2. 0 \in 0 .. 2^WBits - 1
    <3> DEFINE n == 2^WBits
    <3>1. n \in Nat \ {0}
      BY WordAssumption
    <3> HIDE DEF n
    <3>2. 0 \in 0 .. n - 1
      BY <3>1
    <3> QED  BY <3>2 DEF n
  <2> QED  BY <2>1, <2>2, <2>3 DEF CtxOK
<1>9. UNCHANGED sysVars => CtxOK'
  BY DEF sysVars, CtxOK
<1> HIDE DEF CtxOK
<1> QED  BY <1>2, <1>3, <1>4, <1>5, <1>6, <1>7, <1>8, <1>9 DEF SysNext, Linux, Darwin

(* The invariant of a running guest. *)
SysInv ==
  /\ TypeOK /\ CtxOK
  /\ HeapBacked /\ SegmentsIsolated /\ Unprotected
  /\ brk_base # 0

LEMMA LayoutKept ==
  ASSUME Unprotected, [SysNext]_sysVars
  PROVE  Unprotected' /\ UNCHANGED brk_base
<1> USE DEF JustAnswer, HostAnswer, HostStatus
<1>1. ASSUME UNCHANGED <<host, heapVars>> PROVE Unprotected' /\ UNCHANGED brk_base
  BY <1>1 DEF Unprotected
<1>2. ASSUME NEW op, NEW out, Memory(op, out) PROVE UNCHANGED <<host, heapVars>>
  BY <1>2 DEF Memory
<1>3. ASSUME NEW p, NEW len1, NEW data1, NEW q, NEW len2, NEW data2, StoreBoth(p, len1, data1, q, len2, data2)
      PROVE  UNCHANGED <<host, heapVars>>
  BY <1>3, StoreBothEnds
<1>4. ASSUME NEW s, Store(s) PROVE UNCHANGED <<host, heapVars>>
  BY <1>4 DEF Store, write
<1>5. ASSUME NEW x, sys_statfs(x) \/ sys_getsockname(x) \/ sys_getsockopt(x) \/ sys_setsockopt(x)
                    \/ sys_symlink(x) \/ sys_execve(x)
      PROVE  UNCHANGED <<host, heapVars>>
  <2>1. sys_setsockopt(x) \/ sys_symlink(x) \/ sys_execve(x) => UNCHANGED <<host, heapVars>>
    BY <1>2, ReaderEnds, PathEnds, Zenon
  <2> QED
    BY <1>2, <1>3, <1>5, <2>1, Zenon DEF sys_statfs, sys_getsockname, sys_getsockopt, HostResult, write
<1>6. ASSUME NEW x, sys_clone(x) \/ sys_futex(x) \/ sys_write(x) \/ sys_exit(x) \/ sys_set_tls(x)
                    \/ sys_end_thread(x)
      PROVE  UNCHANGED <<host, heapVars>>
  <2>1. sys_futex(x) \/ sys_write(x) => UNCHANGED <<host, heapVars>>
    BY <1>2, ReaderEnds, Zenon
  <2> QED
    BY <1>2, <1>3, <1>6, <2>1, Zenon DEF sys_clone, sys_exit, sys_set_tls, sys_end_thread
<1>7. ASSUME sys_socket \/ sys_listen \/ sys_kill \/ sys_fcntl \/ sys_close \/ sys_ids \/ sys_nothing
      PROVE  UNCHANGED <<host, heapVars>>
  BY <1>2, <1>7 DEF sys_socket, sys_listen, sys_kill, sys_fcntl, sys_close, sys_ids, sys_nothing
<1>8. ASSUME NEW x, sys_mmap(x) PROVE Unprotected' /\ UNCHANGED brk_base
  <2>1. \E target : map_anonymous(target, x[1])
    BY <1>8 DEF sys_mmap
  <2>2. UNCHANGED brk_base
    BY <2>1 DEF map_anonymous, map_anonymous_prot, Refused
  <2> QED  BY <2>1, <2>2, MapUnprotected
<1>9. ASSUME NEW x, sys_brk(x) PROVE Unprotected' /\ UNCHANGED brk_base
  <2>1. CASE Memory("brk", "ok")
    BY <1>1, <1>2, <2>1
  <2>2. CASE set_brk(x[0])
    <3>1. UNCHANGED brk_base
      BY <2>2, Zenon DEF set_brk, ExpansionFails, Refused, AlignmentPanics
    <3> QED  BY <2>2, <3>1, BrkUnprotected
  <2> QED  BY <1>9, <2>1, <2>2 DEF sys_brk
<1>10. UNCHANGED sysVars => UNCHANGED <<host, heapVars>>
  BY DEF sysVars
<1> QED  BY <1>1, <1>4, <1>5, <1>6, <1>7, <1>8, <1>9, <1>10 DEF SysNext

LEMMA SysStart == SysInit => SysInv
<1> SUFFICES ASSUME SysInit PROVE SysInv
  OBVIOUS
<1>1. CtxOK
  <2> DEFINE n == 2^WBits
  <2>1. n \in Nat \ {0}
    BY WordAssumption
  <2> HIDE DEF n
  <2>2. 0 \in 0 .. n - 1
    BY <2>1
  <2>3. PICK os \in TargetOses :
          ctx = [target_os |-> os, x0 |-> 0, tpidr_el0 |-> 0, exited |-> FALSE, exit_code |-> 0]
    BY DEF SysInit
  <2>4. ctx \in [target_os : TargetOses, x0 : Int, tpidr_el0 : Nat,
                 exited : BOOLEAN, exit_code : 0 .. n - 1]
    BY <2>2, <2>3
  <2>5. ret = "ok" /\ ctx.exited = FALSE
    BY <2>3 DEF SysInit
  <2> QED  BY <2>4, <2>5 DEF CtxOK, n
<1>2. Unprotected
  BY DEF SysInit, Unprotected
<1>3. brk_base # 0
  <2>1. ImageAddr + ImageSize \in Nat \ {0}
    BY LayoutAssumption
  <2>2. align_up_page(ImageAddr + ImageSize) >= ImageAddr + ImageSize
        /\ align_up_page(ImageAddr + ImageSize) \in Nat
    BY <2>1, PageBounds
  <2>3. brk_base = align_up_page(ImageAddr + ImageSize)
    BY DEF SysInit
  <2> QED  BY <2>1, <2>2, <2>3
<1> QED  BY <1>1, <1>2, <1>3, InitKept DEF SysInv

LEMMA SysInductive ==
  ASSUME SysInv, [SysNext]_sysVars
  PROVE  SysInv'
<1>1. TypeOK' /\ HeapBacked' /\ SegmentsIsolated'
  BY HandlerKeeps DEF SysInv, Kept
<1>2. CtxOK'
  BY <1>1, CtxKept DEF SysInv
<1>3. Unprotected' /\ brk_base' # 0
  BY LayoutKept DEF SysInv
<1> QED  BY <1>1, <1>2, <1>3 DEF SysInv

LEMMA SysInvariant == SysSpec => []SysInv
<1>1. SysInv /\ [SysNext]_sysVars => SysInv'
  BY SysInductive
<1> QED  BY <1>1, SysStart, PTL DEF SysSpec

(* Registers, exit code and the way a run ends keep their types, and only  *)
(* a run that has ended has exited (handle, exit of CpuContext).           *)
THEOREM SystemCallsTyped == SysSpec => []SysTypeOK
<1>1. SysInv => SysTypeOK
  BY DEF SysInv, CtxOK, SysTypeOK
<1> QED  BY <1>1, SysInvariant, PTL

-----------------------------------------------------------------------------
(* Mappings and the break. *)

(* What translates can be read and written. *)
TranslationsBacked ==
  \A a \in Nat : Translation(a) # -1 => Translation(a) \in HostAddr /\ Writable(Translation(a))

LEMMA Backs == TypeOK /\ SegmentsIsolated /\ Unprotected => TranslationsBacked
BY TranslationHeld, HeldAccessible DEF TranslationsBacked

LEMMA MmapStep ==
  ASSUME SysNext, Makes("Linux", {222}) \/ Makes("Darwin", {199})
  PROVE  \E c \in Calls : call' = c /\ sys_mmap(c.x)
BY DEF SysNext, Store, Linux, Darwin, Makes, LinuxTable, NoCall

(* A new mapping seen from the guest: what was mapped is as it was, and    *)
(* the rest of the range it asked for holds zeros.                         *)
LEMMA PushShows ==
  ASSUME SysInv, SysInv', NEW target \in Nat, NEW size, NEW prot,
         NEW ptr \in HostPlaces(target, size), PushSegment(target, size, prot, ptr),
         target # 0, NEW a \in Nat, a >= target, a < target + size
  PROVE  /\ Translation(a)' # -1
         /\ ram'[Translation(a)'] = IF Translation(a) # -1 THEN ram[Translation(a)] ELSE 0
<1>1. CASE Translation(a) # -1
  <2>1. Translation(a)' = Translation(a) /\ ram'[Translation(a)] = ram[Translation(a)]
    BY <1>1, PushTranslates DEF SysInv
  <2> QED  BY <1>1, <2>1
<1>2. CASE Translation(a) = -1
  <2>1. Translation(a)' # -1 /\ ram'[Translation(a)'] = 0
    BY <1>2, PushFresh DEF SysInv
  <2> QED  BY <1>2, <2>1
<1> QED  BY <1>1, <1>2

LEMMA MapStep ==
  ASSUME SysInv, SysInv', NEW c \in Calls, call' = c, sys_mmap(c.x), ret' = "ok",
         NEW a \in ctx'.x0 .. ctx'.x0 + c.x[1] - 1
  PROVE  \/ Direct(a) /\ segments'[Len(segments')].addr # segments'[Len(segments')].ptr
         \/ /\ Backed(a)'
            /\ ram'[Place(a)'] = IF Backed(a) THEN ram[Place(a)] ELSE 0
<1> DEFINE target == IF c.x[0] = 0 THEN MmapDefault ELSE c.x[0]
           size == c.x[1]
<1>1. target \in Nat \ {0} /\ size \in Nat
  BY Arguments, LayoutAssumption
<1>2. map_anonymous(target, size) /\ Answer(target)
  BY DEF sys_mmap
<1> HIDE DEF target, size
<1>3. result'.out = "ok" /\ ctx'.x0 = target
  <2>1. result'.out = "ok" /\ ctx' = [ctx EXCEPT !.x0 = target]
    BY <1>2 DEF Answer, SetX0
  <2> QED  BY <2>1 DEF SysInv, CtxOK
<1>4. PICK ptr \in HostPlaces(target, size) : PushSegment(target, size, "RWX", ptr)
  BY <1>2, <1>3 DEF map_anonymous, map_anonymous_prot, Refused
<1>5. a \in Nat /\ a >= target /\ a < target + size
  BY <1>1, <1>3 DEF size
<1>6. CASE Direct(a) /\ ptr # target
  <2>1. /\ segments'[Len(segments) + 1].addr = target
        /\ segments'[Len(segments) + 1].ptr = ptr
    BY <1>1, <1>4, PushAppends DEF SysInv
  <2>2. Len(segments') = Len(segments) + 1
    BY <1>4 DEF PushSegment, SysInv, TypeOK
  <2> QED  BY <1>6, <2>1, <2>2
<1>7. CASE Direct(a) /\ ptr = target
  <2>1. a \in Pages(ptr, size)
    BY <1>1, <1>5, <1>7, PageBounds DEF Pages
  <2>2. a \in HostAddr /\ host[a] = "free"
    BY <2>1 DEF HostPlaces, FreeRun
  <2>3. host'[a] = "RWX" /\ ram'[a] = 0
    BY <1>4, <2>1, <2>2 DEF PushSegment
  <2>4. a # -1
    BY <1>5
  <2> QED  BY <1>7, <2>2, <2>3, <2>4 DEF Backed, BackedIn, Place, PlaceIn, Direct, Writable
<1>8. CASE ~Direct(a)
  <2>1. /\ Translation(a)' # -1
        /\ ram'[Translation(a)'] = IF Translation(a) # -1 THEN ram[Translation(a)] ELSE 0
    BY <1>1, <1>4, <1>5, PushShows
  <2>2. TranslationsBacked /\ TranslationsBacked'
    BY Backs, PTL DEF SysInv
  <2>3. Backed(a)' /\ (Backed(a) <=> Translation(a) # -1)
    BY <1>5, <1>8, <2>1, <2>2 DEF TranslationsBacked, Backed, BackedIn, PlaceIn, Direct
  <2>4. Place(a)' = Translation(a)' /\ Place(a) = Translation(a)
    BY <1>8 DEF Place, PlaceIn, Direct
  <2> QED  BY <2>1, <2>3, <2>4
<1> QED  BY <1>6, <1>7, <1>8

(* A guest that is told an address by mmap finds memory of the size it     *)
(* asked for there, of zeros where it had none (mmap of both tables).      *)
THEOREM MmapIsHonest == SysSpec => MappingHonest
<1>1. ASSUME SysInv, SysInv', [SysNext]_sysVars
      PROVE  [Makes("Linux", {222}) \/ Makes("Darwin", {199}) =>
               (ret' = "ok" =>
                 \A a \in ctx'.x0 .. ctx'.x0 + call'.x[1] - 1 :
                   \/ Direct(a) /\ segments'[Len(segments')].addr # segments'[Len(segments')].ptr
                   \/ /\ Backed(a)'
                      /\ ram'[Place(a)'] = IF Backed(a) THEN ram[Place(a)] ELSE 0)]_sysVars
  BY <1>1, MmapStep, MapStep, Zenon
<1> QED  BY <1>1, SysInvariant, PTL DEF SysSpec, MappingHonest

LEMMA BrkStep ==
  ASSUME SysNext, Makes("Linux", {214})
  PROVE  \E c \in Calls : call' = c /\ sys_brk(c.x)
BY DEF SysNext, Store, Linux, Darwin, Makes, LinuxTable, NoCall

LEMMA ShorterRange ==
  ASSUME NEW p \in Nat, NEW q \in Nat, NEW r \in Nat, q <= r
  PROVE  \A a \in p .. q - 1 : a \in p .. r - 1
OBVIOUS

LEMMA BreakStep ==
  ASSUME SysInv, SysInv', NEW c \in Calls, call' = c, sys_brk(c.x), ret' = "ok"
  PROVE  /\ ctx'.x0 \in brk_base .. brk_current'
         /\ c.x[0] >= brk_base => ctx'.x0 = c.x[0]
         /\ c.x[0] < brk_base => ctx'.x0 = brk_current
         /\ \A a \in brk_base .. ctx'.x0 - 1 :
              /\ Translation(a)' # -1
              /\ ram'[Translation(a)'] = IF Translation(a) # -1 THEN ram[Translation(a)] ELSE 0
<1> DEFINE new == c.x[0]
<1>1. new \in Nat /\ brk_base \in Nat \ {0} /\ brk_current \in Nat /\ brk_mapped_end \in Nat
      /\ brk_base <= brk_current /\ brk_current <= brk_mapped_end
  BY Arguments DEF SysInv, TypeOK, HeapBacked
<1>2. result'.out = "ok" /\ ctx'.x0 = brk_current'
  <2>1. result'.out = "ok" /\ ctx' = [ctx EXCEPT !.x0 = brk_current']
    BY DEF sys_brk, Answer, SetX0
  <2> QED  BY <2>1 DEF SysInv, CtxOK
<1>3. (new = 0 /\ Memory("brk", "ok")) \/ set_brk(new)
  BY DEF sys_brk
<1> HIDE DEF new
<1>4. ASSUME NEW a \in brk_base .. brk_mapped_end - 1
      PROVE  Translation(a) # -1
  <2>1. \E i \in DOMAIN segments : Covers(segments[i], a)
    BY <1>4 DEF SysInv, HeapBacked
  <2>2. Holding(a) # {}
    BY <2>1 DEF Holding
  <2>3. a \in Nat
    BY <1>1
  <2> QED  BY <2>2, <2>3, TranslationHeld DEF SysInv
<1>5. CASE UNCHANGED <<segments, hostVars>> /\ brk_current' \in brk_base .. brk_mapped_end
  <2>1. \A a \in brk_base .. brk_current' - 1 :
          Translation(a)' = Translation(a) /\ ram' = ram /\ Translation(a) # -1
    <3>1. \A a : Translation(a)' = Translation(a)
      BY <1>5 DEF Translation, FirstMatch, HostByte, Covers
    <3>2. \A a \in brk_base .. brk_current' - 1 : a \in brk_base .. brk_mapped_end - 1
      <4>1. brk_current' \in Nat /\ brk_current' <= brk_mapped_end
        BY <1>1, <1>5
      <4> QED  BY <1>1, <4>1, ShorterRange
    <3>3. ram' = ram
      BY <1>5
    <3> QED  BY <1>4, <3>1, <3>2, <3>3
  <2>2. /\ new >= brk_base => brk_current' = new
        /\ new < brk_base => brk_current' = brk_current
    BY <1>1, <1>2, <1>3, <1>5 DEF set_brk, Memory, ExpansionFails, Refused, AlignmentPanics
  <2>3. brk_current' \in brk_base .. brk_current'
    BY <1>1, <1>5
  <2>4. \A a \in brk_base .. brk_current' - 1 :
          /\ Translation(a)' # -1
          /\ ram'[Translation(a)'] = IF Translation(a) # -1 THEN ram[Translation(a)] ELSE 0
    BY <2>1
  <2> QED  BY <1>2, <2>2, <2>3, <2>4 DEF new
<1>6. ASSUME new > brk_mapped_end, brk_current' = new,
             NEW size, NEW ptr \in HostPlaces(brk_mapped_end, size),
             size = align_up_page(new) - brk_mapped_end,
             PushSegment(brk_mapped_end, size, "RW", ptr)
      PROVE  /\ new >= brk_base
             /\ \A a \in brk_base .. new - 1 :
                  /\ Translation(a)' # -1
                  /\ ram'[Translation(a)'] = IF Translation(a) # -1 THEN ram[Translation(a)] ELSE 0
  <2>1. ASSUME NEW a \in brk_base .. brk_mapped_end - 1
        PROVE  Translation(a)' = Translation(a) /\ ram'[Translation(a)] = ram[Translation(a)]
               /\ Translation(a) # -1
    BY <1>1, <1>4, <1>6, PushTranslates DEF SysInv
  <2>2. ASSUME NEW a \in brk_mapped_end .. new - 1
        PROVE  /\ Translation(a)' # -1
               /\ ram'[Translation(a)'] = IF Translation(a) # -1 THEN ram[Translation(a)] ELSE 0
    <3>1. a < brk_mapped_end + size
      BY <1>1, <1>6, PageBounds
    <3>2. a \in Nat /\ a >= brk_mapped_end /\ brk_mapped_end # 0
      BY <1>1
    <3> QED  BY <1>1, <1>6, <3>1, <3>2, PushShows
  <2>3. \A a \in brk_base .. new - 1 :
          a \in brk_base .. brk_mapped_end - 1 \/ a \in brk_mapped_end .. new - 1
    BY <1>1
  <2> QED  BY <1>1, <1>6, <2>1, <2>2, <2>3
<1>7. \/ UNCHANGED <<segments, hostVars>> /\ brk_current' \in brk_base .. brk_mapped_end
      \/ /\ new > brk_mapped_end /\ brk_current' = new
         /\ \E size : /\ size = align_up_page(new) - brk_mapped_end
                       /\ \E ptr \in HostPlaces(brk_mapped_end, size) :
                            PushSegment(brk_mapped_end, size, "RW", ptr)
  BY <1>1, <1>2, <1>3 DEF set_brk, Memory, ExpansionFails, Refused, AlignmentPanics
<1> QED  BY <1>1, <1>2, <1>5, <1>6, <1>7 DEF new

(* The break a guest is told is what it asked for or, for a query, what it *)
(* was, and every byte of the heap below it is there (brk of linux.rs).    *)
THEOREM BrkIsHonest == SysSpec => BreakHonest
<1>1. ASSUME SysInv, SysInv', [SysNext]_sysVars
      PROVE  [Makes("Linux", {214}) /\ ret' = "ok" =>
                /\ ctx'.x0 \in brk_base .. brk_current'
                /\ call'.x[0] >= brk_base => ctx'.x0 = call'.x[0]
                /\ call'.x[0] < brk_base => ctx'.x0 = brk_current
                /\ \A a \in brk_base .. ctx'.x0 - 1 :
                     /\ Translation(a)' # -1
                     /\ ram'[Translation(a)'] = IF Translation(a) # -1 THEN ram[Translation(a)] ELSE 0
             ]_sysVars
  BY <1>1, BrkStep, BreakStep, Zenon
<1> QED  BY <1>1, SysInvariant, PTL DEF SysSpec, BreakHonest

-----------------------------------------------------------------------------
(* How a run ends. *)

(* One of the addresses is direct and kills the emulator.                  *)
Crash(S) == \E a \in S : Direct(a) /\ ~Backed(a)

(* One of the addresses is in no segment; a segment runs past the last one.*)
Unheld(S) == \E a \in S : FirstMatch(a) = 0
Overlong == \E i \in DOMAIN segments : PastTop(segments[i])

(* An access that faults names an address that kills, and one that fails   *)
(* an address in no segment.                                               *)
LEMMA WriteEnds ==
  ASSUME SysInv, NEW addr \in Nat, NEW len \in Nat
  PROVE  /\ WriteOutcome(addr, len) = "fault" => Crash(addr .. addr + len - 1)
         /\ WriteOutcome(addr, len) = "err" => Unheld(addr .. addr + len - 1)
<1>1. \A k \in 0 .. len - 1 : addr + k \in Nat /\ addr + k \in addr .. addr + len - 1
  OBVIOUS
<1>2. ASSUME WriteOutcome(addr, len) = "fault"
      PROVE  Crash(addr .. addr + len - 1)
  <2>1. PICK k \in 0 .. len - 1 : Direct(addr) /\ ~Writable(addr + k)
    BY <1>2, WriteFails DEF SysInv
  <2>2. Direct(addr + k)
    BY <2>1, AddressAssumption DEF Direct
  <2>3. ~Backed(addr + k)
    BY <2>1, <2>2 DEF Backed, BackedIn, PlaceIn
  <2> QED  BY <1>1, <2>2, <2>3 DEF Crash
<1>3. WriteOutcome(addr, len) = "err" => \E k \in 0 .. len - 1 : FirstMatch(addr + k) = 0
  BY WriteFails DEF SysInv
<1> QED  BY <1>1, <1>2, <1>3 DEF Unheld

LEMMA ReadEnds ==
  ASSUME SysInv, NEW addr \in Nat, NEW len \in Nat
  PROVE  /\ ReadOutcome(addr, len) = "fault" => Crash(addr .. addr + len - 1)
         /\ ReadOutcome(addr, len) = "err" => Unheld(addr .. addr + len - 1)
         /\ ReadOutcome(addr, len) = "panic" => len > AllocMax
<1>1. \A k \in 0 .. len - 1 : addr + k \in Nat /\ addr + k \in addr .. addr + len - 1
  OBVIOUS
<1>2. ASSUME ReadOutcome(addr, len) = "fault"
      PROVE  Crash(addr .. addr + len - 1)
  <2>1. PICK k \in 0 .. len - 1 : Direct(addr) /\ ~Readable(addr + k)
    BY <1>2, ReadFails DEF SysInv
  <2>2. Direct(addr + k)
    BY <2>1, AddressAssumption DEF Direct
  <2>3. ~Backed(addr + k)
    BY <2>1, <2>2 DEF Backed, BackedIn, PlaceIn, Readable, Writable
  <2> QED  BY <1>1, <2>2, <2>3 DEF Crash
<1>3. /\ ReadOutcome(addr, len) = "err" => \E k \in 0 .. len - 1 : FirstMatch(addr + k) = 0
      /\ ReadOutcome(addr, len) = "panic" => len > AllocMax
  BY ReadFails DEF SysInv
<1> QED  BY <1>1, <1>2, <1>3 DEF Unheld

LEMMA StringFails ==
  ASSUME SysInv, NEW addr \in Nat
  PROVE  /\ PathAt(addr).out = "fault" => Crash(StringBytes(addr))
         /\ PathAt(addr).out = "err" => Unheld(StringBytes(addr))
         /\ PathAt(addr).out # "panic"
<1> DEFINE n == StringLength(addr)
<1>1. n \in Nat
  BY StringEnds
<1>2. PathAt(addr).out = IF addr = 0 THEN "ok" ELSE ReadOutcome(addr + n, 1)
  BY DEF PathAt, read_string
<1>3. addr # 0 => StringBytes(addr) = addr .. addr + (n + 1) - 1
  BY DEF StringBytes, Bytes
<1> HIDE DEF n
<1>4. addr + n \in Nat /\ 1 \in Nat
  BY <1>1
<1>5. /\ ReadOutcome(addr + n, 1) = "fault" => Crash(addr + n .. addr + n + 1 - 1)
      /\ ReadOutcome(addr + n, 1) = "err" => Unheld(addr + n .. addr + n + 1 - 1)
      /\ ReadOutcome(addr + n, 1) = "panic" => 1 > AllocMax
  BY <1>4, ReadEnds, Zenon
<1>6. \A a \in addr + n .. addr + n + 1 - 1 : a \in addr .. addr + (n + 1) - 1
  BY <1>1
<1>7. ~(1 > AllocMax)
  BY AddressAssumption
<1> QED  BY <1>2, <1>3, <1>5, <1>6, <1>7 DEF Crash, Unheld

LEMMA BothEnd ==
  ASSUME SysInv, NEW p \in Nat, NEW len1 \in Nat, NEW data1,
         NEW q \in Nat, NEW len2 \in Nat, NEW data2,
         StoreBoth(p, len1, data1, q, len2, data2)
  PROVE  /\ result'.out \in {"ok", "fault", "panic"}
         /\ result'.out = "fault" => Crash(Bytes(p, len1) \cup Bytes(q, len2))
         /\ result'.out = "panic" => Overlong /\ Unheld(Bytes(p, len1) \cup Bytes(q, len2))
<1>1. /\ result'.out \in {"ok", "fault", "panic"}
      /\ \/ result'.out = "ok"
         \/ p # 0 /\ result'.out \in Dropped(WriteOutcome(p, len1))
         \/ q # 0 /\ result'.out \in Dropped(WriteOutcome(q, len2))
  BY StoreBothEnds
<1>2. ASSUME NEW at \in Nat \ {0}, NEW len \in Nat, result'.out \in Dropped(WriteOutcome(at, len)),
             Bytes(at, len) \subseteq Bytes(p, len1) \cup Bytes(q, len2)
      PROVE  /\ result'.out = "fault" => Crash(Bytes(p, len1) \cup Bytes(q, len2))
             /\ result'.out = "panic" => Overlong /\ Unheld(Bytes(p, len1) \cup Bytes(q, len2))
  <2>1. WriteOutcome(at, len) \in {"ok", "err", "fault"}
    BY OutcomesTyped
  <2>2. /\ result'.out = "fault" => WriteOutcome(at, len) = "fault"
        /\ result'.out = "panic" => WriteOutcome(at, len) = "err" /\ Overlong
    BY <1>2, <2>1, DroppedTyped DEF Overlong
  <2>3. Bytes(at, len) = at .. at + len - 1
    BY DEF Bytes
  <2>4. /\ WriteOutcome(at, len) = "fault" => Crash(Bytes(at, len))
        /\ WriteOutcome(at, len) = "err" => Unheld(Bytes(at, len))
    BY <2>3, WriteEnds
  <2> QED  BY <1>2, <2>2, <2>4 DEF Crash, Unheld
<1> QED  BY <1>1, <1>2

(* A call that failed changed nothing and sent nothing; one that faulted   *)
(* was given an address that kills; one that panicked had a cause, or an   *)
(* address in no segment where one runs past the last address, and changed *)
(* nothing the guest has but memory; none has stopped the guest.           *)
Ended(S, cause) ==
  /\ ret' # "stopped"
  /\ ret' = "err" => UNCHANGED <<ctx, segments, heapVars, hostVars>> /\ sent' = Nothing
  /\ ret' = "fault" => Crash(S)
  /\ ret' = "panic" =>
       /\ cause \/ (Overlong /\ Unheld(S))
       /\ UNCHANGED <<ctx, segments, heapVars, host>> /\ sent' = Nothing

LEMMA AnswerEnds ==
  ASSUME TypeOK', NEW v, Answer(v), NEW S, NEW cause \in BOOLEAN,
         result'.out = "err" => UNCHANGED <<segments, heapVars, hostVars>> /\ sent' = Nothing,
         result'.out = "fault" => Crash(S),
         result'.out = "panic" =>
           /\ cause \/ (Overlong /\ Unheld(S))
           /\ UNCHANGED <<segments, heapVars, host>> /\ sent' = Nothing
  PROVE  Ended(S, cause)
<1>1. ret' = result'.out /\ (result'.out # "ok" => ctx' = ctx)
  BY DEF Answer
<1>2. result'.out # "stopped"
  BY DEF TypeOK
<1> QED  BY <1>1, <1>2 DEF Ended

LEMMA Quiet == \A v : JustAnswer(v) => ret' = "ok"
BY DEF JustAnswer, Memory, Answer

(* The handlers that use memory, by the buffers they are given.            *)
LEMMA StatfsEnds ==
  ASSUME SysInv, NEW c \in Calls, sys_statfs(c.x), TypeOK'
  PROVE  /\ ret' # "stopped"
         /\ ret' \in {"err", "panic"} => UNCHANGED <<ctx, segments, heapVars, host>> /\ sent' = Nothing
         /\ ret' = "fault" => Crash(Bytes(c.x[1], StatfsBytes.len))
         /\ ret' = "panic" => Overlong /\ Unheld(Bytes(c.x[1], StatfsBytes.len))
<1>1. Answer(0) /\ sent' = Nothing
  BY DEF sys_statfs, Silent
<1>2. ret' = result'.out /\ (result'.out # "ok" => ctx' = ctx) /\ result'.out # "stopped"
  BY <1>1 DEF Answer, TypeOK
<1>3. CASE c.x[1] = 0
  BY <1>2, <1>3 DEF sys_statfs, Memory
<1>4. CASE c.x[1] # 0
  <2>1. write(c.x[1], StatfsBytes.len, StatfsBytes.data)
    BY <1>4 DEF sys_statfs
  <2>2. result'.out \in Ends(WriteOutcome(c.x[1], StatfsBytes.len)) /\ UNCHANGED <<segments, heapVars, host>>
    BY <2>1 DEF write
  <2>3. /\ result'.out = "fault" => WriteOutcome(c.x[1], StatfsBytes.len) = "fault"
        /\ result'.out = "panic" => WriteOutcome(c.x[1], StatfsBytes.len) = "err" /\ Overlong
    BY <2>2, EndsTyped, OutcomesTyped DEF Overlong
  <2>4. c.x[1] \in Nat /\ StatfsBytes.len \in Nat
    BY Arguments, HostDataAssumption
  <2>5. Bytes(c.x[1], StatfsBytes.len) = c.x[1] .. c.x[1] + StatfsBytes.len - 1
    BY <1>4 DEF Bytes
  <2>6. /\ result'.out = "fault" => Crash(Bytes(c.x[1], StatfsBytes.len))
        /\ result'.out = "panic" => Overlong /\ Unheld(Bytes(c.x[1], StatfsBytes.len))
    BY <2>3, <2>4, <2>5, WriteEnds, Zenon
  <2> QED  BY <1>1, <1>2, <2>2, <2>6
<1> QED  BY <1>3, <1>4

LEMMA HostResultEnds ==
  ASSUME SysInv, TypeOK', NEW ptr \in Nat, NEW lenPtr \in Nat, HostResult(ptr, lenPtr)
  PROVE  Ended(HostBytes(ptr) \cup Bytes(lenPtr, U32Bytes), FALSE) /\ ret' # "err"
<1> DEFINE S == HostBytes(ptr) \cup Bytes(lenPtr, U32Bytes)
<1>0. sent' = Nothing
  BY DEF HostResult, Silent
<1>1. CASE \E r : Memory("none", "ok") /\ Answer(r)
  BY <1>1 DEF Memory, Answer, Ended
<1>2. ASSUME NEW d \in HostData, Answer(0),
             StoreBoth(ptr, d.len, d.data, lenPtr, U32Bytes, ToBytes(d.len, U32Bytes))
      PROVE  Ended(S, FALSE) /\ ret' # "err"
  <2>1. d.len \in Nat /\ U32Bytes \in Nat
    BY HostDataAssumption
  <2>2. /\ result'.out \in {"ok", "fault", "panic"}
        /\ result'.out = "fault" => Crash(Bytes(ptr, d.len) \cup Bytes(lenPtr, U32Bytes))
        /\ result'.out = "panic" => Overlong /\ Unheld(Bytes(ptr, d.len) \cup Bytes(lenPtr, U32Bytes))
    BY <1>2, <2>1, BothEnd
  <2>3. Bytes(ptr, d.len) \cup Bytes(lenPtr, U32Bytes) \subseteq S
    BY DEF HostBytes
  <2>4. /\ result'.out = "fault" => Crash(S)
        /\ result'.out = "panic" => Overlong /\ Unheld(S)
    BY <2>2, <2>3 DEF Crash, Unheld
  <2>5. ret' = result'.out
    BY <1>2 DEF Answer
  <2>6. UNCHANGED <<segments, heapVars, host>>
    BY <1>2, StoreBothEnds
  <2> HIDE DEF S, U32Bytes
  <2>7. Ended(S, FALSE)
    BY <1>0, <1>2, <2>2, <2>4, <2>6, AnswerEnds
  <2> QED  BY <2>2, <2>5, <2>7
<1> HIDE DEF U32Bytes
<1> QED  BY <1>1, <1>2 DEF HostResult

LEMMA CloneEnds ==
  ASSUME SysInv, TypeOK', NEW c \in Calls, sys_clone(c.x)
  PROVE  Ended(Bytes(c.x[2], U32Bytes) \cup Bytes(c.x[4], U32Bytes), FALSE) /\ ret' # "err"
<1> DEFINE tid == ToBytes(Pid + 1, U32Bytes)
           S == Bytes(c.x[2], U32Bytes) \cup Bytes(c.x[4], U32Bytes)
<1>1. Answer(Pid + 1) /\ ret' = result'.out /\ sent' = Nothing
  BY DEF sys_clone, Answer, Silent
<1>2. Memory("none", "ok") \/ StoreBoth(c.x[4], U32Bytes, tid, c.x[2], U32Bytes, tid)
  BY Zenon DEF sys_clone
<1>3. c.x[4] \in Nat /\ c.x[2] \in Nat /\ U32Bytes \in Nat
  BY Arguments
<1>4. Bytes(c.x[4], U32Bytes) \cup Bytes(c.x[2], U32Bytes) = S
  OBVIOUS
<1> HIDE DEF tid, U32Bytes, S
<1>5. CASE StoreBoth(c.x[4], U32Bytes, tid, c.x[2], U32Bytes, tid)
  <2>1. /\ result'.out \in {"ok", "fault", "panic"}
        /\ result'.out = "fault" => Crash(S)
        /\ result'.out = "panic" => Overlong /\ Unheld(S)
    BY <1>3, <1>4, <1>5, BothEnd
  <2>2. UNCHANGED <<segments, heapVars, host>>
    BY <1>5, StoreBothEnds
  <2>3. Ended(S, FALSE)
    BY <1>1, <2>1, <2>2, AnswerEnds
  <2> QED  BY <1>1, <2>1, <2>3 DEF S
<1>6. CASE Memory("none", "ok")
  <2>1. result'.out = "ok"
    BY <1>6 DEF Memory
  <2> QED  BY <1>1, <2>1 DEF Ended
<1> QED  BY <1>2, <1>5, <1>6

LEMMA EndThreadEnds ==
  ASSUME SysInv, NEW c \in Calls, sys_end_thread(c.x)
  PROVE  /\ ret' \in {"stopped", "fault", "panic"}
         /\ ret' = "stopped" => ctx' = [ctx EXCEPT !.exited = TRUE, !.exit_code = 0]
         /\ ret' = "fault" => Crash(Bytes(c.x[0], U32Bytes))
         /\ ret' = "panic" =>
              /\ Overlong /\ Unheld(Bytes(c.x[0], U32Bytes))
              /\ UNCHANGED <<ctx, segments, heapVars, host>> /\ sent' = Nothing
<1>1. /\ StoreBoth(c.x[0], U32Bytes, [k \in 0 .. U32Bytes - 1 |-> 0], 0, 0, <<>>)
      /\ ret' = IF result'.out = "ok" THEN "stopped" ELSE result'.out
      /\ ctx' = IF result'.out = "ok" THEN [ctx EXCEPT !.exited = TRUE, !.exit_code = 0] ELSE ctx
      /\ sent' = Nothing
  BY DEF sys_end_thread, Silent
<1>2. c.x[0] \in Nat /\ U32Bytes \in Nat /\ 0 \in Nat
  BY Arguments
<1> HIDE DEF U32Bytes
<1>3. /\ result'.out \in {"ok", "fault", "panic"}
      /\ result'.out = "fault" => Crash(Bytes(c.x[0], U32Bytes) \cup Bytes(0, 0))
      /\ result'.out = "panic" => Overlong /\ Unheld(Bytes(c.x[0], U32Bytes) \cup Bytes(0, 0))
  BY <1>1, <1>2, BothEnd
<1>4. Bytes(0, 0) = {}
  BY DEF Bytes
<1>5. UNCHANGED <<segments, heapVars, host>>
  BY <1>1, StoreBothEnds
<1> QED  BY <1>1, <1>3, <1>4, <1>5

LEMMA OptlenTyped ==
  ASSUME NEW c \in Calls
  PROVE  optlen(c.x) \in Nat
<1>1. Low(c.x[4], WBits) \in 0 .. 2^WBits - 1
  BY LowTyped, Arguments
<1> QED  BY <1>1, WordAssumption DEF optlen

LEMMA OptionReaderEnds ==
  ASSUME SysInv, TypeOK', NEW c \in Calls, sys_setsockopt(c.x)
  PROVE  Ended(Bytes(c.x[3], optlen(c.x)), optlen(c.x) > AllocMax) /\ ret' # "err"
<1> DEFINE len == optlen(c.x)
           S == Bytes(c.x[3], len)
           reads == c.x[3] # 0 /\ len > 0
           out == IF len > AllocMax THEN "panic" ELSE IF reads THEN ReadOutcome(c.x[3], len) ELSE "ok"
<1>1. PICK end \in Dropped(out) : Memory("read", end) /\ (end # "ok" => sent' = Nothing)
  BY DEF sys_setsockopt
<1>2. PICK v : Answer(v)
  BY DEF sys_setsockopt
<1>3. c.x[3] \in Nat /\ len \in Nat
  BY Arguments, OptlenTyped
<1>4. out \in {"ok", "err", "fault", "panic"}
  BY OutcomesTyped
<1>5. /\ ReadOutcome(c.x[3], len) = "fault" => Crash(c.x[3] .. c.x[3] + len - 1)
      /\ ReadOutcome(c.x[3], len) = "err" => Unheld(c.x[3] .. c.x[3] + len - 1)
      /\ ReadOutcome(c.x[3], len) = "panic" => len > AllocMax
  BY <1>3, ReadEnds
<1>6. reads => S = c.x[3] .. c.x[3] + len - 1
  BY DEF Bytes
<1>7. /\ out = "fault" => Crash(S)
      /\ out = "err" => Unheld(S)
      /\ out = "panic" => len > AllocMax
  BY <1>5, <1>6
<1> HIDE DEF out, len, S, reads
<1>8. /\ end \in {"ok", "fault", "panic"}
      /\ end = "fault" => Crash(S)
      /\ end = "panic" => len > AllocMax \/ (Overlong /\ Unheld(S))
  BY <1>1, <1>4, <1>7, DroppedTyped DEF Overlong
<1>9. result'.out = end /\ UNCHANGED <<segments, heapVars, host>>
  BY <1>1 DEF Memory
<1>10. Ended(S, len > AllocMax)
  <2> DEFINE cause == len > AllocMax
  <2>1. cause \in BOOLEAN
    BY <1>3, AddressAssumption
  <2>2. end = "panic" => cause \/ (Overlong /\ Unheld(S))
    BY <1>8
  <2> HIDE DEF cause
  <2>3. Ended(S, cause)
    BY <1>1, <1>2, <1>8, <1>9, <2>1, <2>2, AnswerEnds
  <2> QED  BY <2>3 DEF cause
<1>11. ret' # "err"
  BY <1>2, <1>8, <1>9 DEF Answer
<1> QED  BY <1>10, <1>11 DEF S, len

LEMMA FutexEnds ==
  ASSUME SysInv, TypeOK', NEW c \in Calls, sys_futex(c.x)
  PROVE  Ended(Bytes(c.x[0], U32Bytes), FALSE) /\ ret' # "err"
<1> DEFINE S == Bytes(c.x[0], U32Bytes)
           compares == c.x[1] % 128 = 0 /\ c.x[0] # 0
           out == IF compares THEN ReadOutcome(c.x[0], U32Bytes) ELSE "ok"
<1>1. PICK end \in Dropped(out) : Memory("read", end)
  BY DEF sys_futex
<1>2. (\E v : Answer(v)) /\ sent' = Nothing
  BY DEF sys_futex, Silent
<1>3. c.x[0] \in Nat /\ U32Bytes \in Nat /\ ~(U32Bytes > AllocMax)
  BY Arguments, VectorAssumption, AddressAssumption
<1>4. out \in {"ok", "err", "fault", "panic"}
  BY OutcomesTyped
<1>5. compares => S = c.x[0] .. c.x[0] + U32Bytes - 1
  BY DEF Bytes
<1> HIDE DEF U32Bytes
<1>6. /\ ReadOutcome(c.x[0], U32Bytes) = "fault" => Crash(c.x[0] .. c.x[0] + U32Bytes - 1)
      /\ ReadOutcome(c.x[0], U32Bytes) = "err" => Unheld(c.x[0] .. c.x[0] + U32Bytes - 1)
      /\ ReadOutcome(c.x[0], U32Bytes) # "panic"
  BY <1>3, ReadEnds
<1>7. /\ out = "fault" => Crash(S)
      /\ out = "err" => Unheld(S)
      /\ out # "panic"
  BY <1>5, <1>6
<1> HIDE DEF out, S, compares
<1>8. /\ end \in {"ok", "fault", "panic"}
      /\ end = "fault" => Crash(S)
      /\ end = "panic" => Overlong /\ Unheld(S)
  BY <1>1, <1>4, <1>7, DroppedTyped DEF Overlong
<1>9. result'.out = end /\ UNCHANGED <<segments, heapVars, host>>
  BY <1>1 DEF Memory
<1>10. Ended(S, FALSE)
  BY <1>2, <1>8, <1>9, AnswerEnds
<1>11. ret' # "err"
  BY <1>2, <1>8, <1>9 DEF Answer
<1> QED  BY <1>10, <1>11 DEF S

LEMMA WriteCallEnds ==
  ASSUME SysInv, TypeOK', NEW c \in Calls, sys_write(c.x)
  PROVE  /\ Ended(c.x[1] .. c.x[1] + c.x[2] - 1, c.x[2] > AllocMax \/ c.x[0] \in {1, 2})
         /\ ret' # "err"
<1> DEFINE S == c.x[1] .. c.x[1] + c.x[2] - 1
           out == ReadOutcome(c.x[1], c.x[2])
           prints == out = "ok" /\ c.x[0] \in {1, 2}
           cause == c.x[2] > AllocMax \/ c.x[0] \in {1, 2}
<1>1. PICK end \in Dropped(out) \cup (IF prints THEN {"panic"} ELSE {}) :
        Memory("read", end) /\ (end # "ok" => sent' = Nothing)
  BY DEF sys_write
<1>2. Answer(c.x[2])
  BY DEF sys_write
<1>3. c.x[1] \in Nat /\ c.x[2] \in Nat
  BY Arguments
<1>4. out \in {"ok", "err", "fault", "panic"}
  BY OutcomesTyped
<1>5. /\ out = "fault" => Crash(S)
      /\ out = "err" => Unheld(S)
      /\ out = "panic" => c.x[2] > AllocMax
  BY <1>3, ReadEnds
<1>6. prints => cause
  OBVIOUS
<1>7. c.x[2] > AllocMax => cause
  OBVIOUS
<1>8. cause \in BOOLEAN
  OBVIOUS
<1> HIDE DEF out, S, prints, cause
<1>9. /\ end \in {"ok", "fault", "panic"}
      /\ end = "fault" => Crash(S)
      /\ end = "panic" => cause \/ (Overlong /\ Unheld(S))
  <2>1. CASE end \in Dropped(out)
    BY <1>4, <1>5, <1>7, <2>1, DroppedTyped DEF Overlong
  <2>2. CASE prints /\ end = "panic"
    BY <1>6, <2>2
  <2> QED  BY <1>1, <2>1, <2>2
<1>10. result'.out = end /\ UNCHANGED <<segments, heapVars, host>>
  BY <1>1 DEF Memory
<1>11. Ended(S, cause)
  BY <1>1, <1>2, <1>8, <1>9, <1>10, AnswerEnds
<1>12. ret' # "err"
  BY <1>2, <1>9, <1>10 DEF Answer
<1> QED  BY <1>11, <1>12 DEF S, cause

LEMMA StringReadersEnd ==
  ASSUME SysInv, TypeOK', NEW c \in Calls
  PROVE  /\ sys_symlink(c.x) => Ended(StringBytes(c.x[1]) \cup StringBytes(c.x[2]), FALSE)
         /\ sys_execve(c.x) => Ended(StringBytes(c.x[0]), FALSE)
<1>0. c.x[0] \in Nat /\ c.x[1] \in Nat /\ c.x[2] \in Nat
  BY Arguments
<1>1. ASSUME NEW S, NEW out \in {"ok", "err", "fault", "panic"}, NEW end \in Ends(out), NEW v,
             Memory("read", end), Answer(v), out # "ok" => sent' = Nothing,
             out = "fault" => Crash(S), out = "err" => Unheld(S), out # "panic"
      PROVE  Ended(S, FALSE)
  <2>1. result'.out = end /\ UNCHANGED <<segments, heapVars, hostVars>>
    BY <1>1 DEF Memory
  <2>2. end = out \/ (out = "err" /\ end = "panic" /\ Overlong)
    BY <1>1, EndsTyped DEF Overlong
  <2> QED  BY <1>1, <2>1, <2>2, AnswerEnds
<1>2. ASSUME sys_symlink(c.x) PROVE Ended(StringBytes(c.x[1]) \cup StringBytes(c.x[2]), FALSE)
  <2> DEFINE out == IF PathAt(c.x[1]).out # "ok" THEN PathAt(c.x[1]).out ELSE PathAt(c.x[2]).out
             S == StringBytes(c.x[1]) \cup StringBytes(c.x[2])
  <2>1. (\E end \in Ends(out) : Memory("read", end)) /\ (out # "ok" => sent' = Nothing) /\ \E v : Answer(v)
    BY <1>2 DEF sys_symlink
  <2>2. /\ PathAt(c.x[1]).out = "fault" => Crash(StringBytes(c.x[1]))
        /\ PathAt(c.x[1]).out = "err" => Unheld(StringBytes(c.x[1]))
        /\ PathAt(c.x[1]).out # "panic"
        /\ PathAt(c.x[2]).out = "fault" => Crash(StringBytes(c.x[2]))
        /\ PathAt(c.x[2]).out = "err" => Unheld(StringBytes(c.x[2]))
        /\ PathAt(c.x[2]).out # "panic"
    BY <1>0, StringFails
  <2>3. /\ out = "fault" => Crash(S)
        /\ out = "err" => Unheld(S)
        /\ out # "panic"
    BY <2>2 DEF Crash, Unheld
  <2>4. out \in {"ok", "err", "fault", "panic"}
    BY PathTyped
  <2> HIDE DEF out, S
  <2>5. Ended(S, FALSE)
    BY <1>1, <2>1, <2>3, <2>4
  <2> QED  BY <2>5 DEF S
<1>3. ASSUME sys_execve(c.x) PROVE Ended(StringBytes(c.x[0]), FALSE)
  <2>1. (\E end \in Ends(PathAt(c.x[0]).out) : Memory("read", end)) /\ Answer(-ENOENT) /\ sent' = Nothing
    BY <1>3 DEF sys_execve, Silent
  <2>2. /\ PathAt(c.x[0]).out = "fault" => Crash(StringBytes(c.x[0]))
        /\ PathAt(c.x[0]).out = "err" => Unheld(StringBytes(c.x[0]))
        /\ PathAt(c.x[0]).out # "panic"
    BY <1>0, StringFails
  <2>3. PathAt(c.x[0]).out \in {"ok", "err", "fault", "panic"}
    BY PathTyped
  <2> QED  BY <1>1, <2>1, <2>2, <2>3
<1> QED  BY <1>2, <1>3

LEMMA MappersEnd ==
  ASSUME SysInv, TypeOK', NEW c \in Calls
  PROVE  /\ sys_mmap(c.x) => Ended({}, FALSE) /\ ret' # "fault"
         /\ sys_brk(c.x) => Ended({}, c.x[0] > AddrTop) /\ ret' # "fault"
<1>1. ASSUME sys_mmap(c.x) PROVE Ended({}, FALSE) /\ ret' # "fault"
  <2>1. PICK target : map_anonymous(target, c.x[1]) /\ Answer(target) /\ sent' = Nothing
    BY <1>1 DEF sys_mmap, Silent
  <2>2. result'.out = "ok" \/ Refused("map")
    BY <2>1 DEF map_anonymous, map_anonymous_prot
  <2>3. result'.out \in {"ok", "err"}
    BY <2>2 DEF Refused
  <2> QED  BY <2>1, <2>2, <2>3, AnswerEnds DEF Refused, Answer
<1>2. ASSUME sys_brk(c.x) PROVE Ended({}, c.x[0] > AddrTop) /\ ret' # "fault"
  <2> DEFINE cause == c.x[0] > AddrTop
  <2>1. Answer(brk_current') /\ sent' = Nothing
    BY <1>2 DEF sys_brk, Silent
  <2>2. result'.out = "ok" \/ Refused("brk") \/ AlignmentPanics(c.x[0])
    BY <1>2 DEF sys_brk, Memory, set_brk, ExpansionFails
  <2>3. /\ result'.out \in {"ok", "err", "panic"}
        /\ result'.out # "ok" => UNCHANGED <<segments, heapVars, hostVars>>
        /\ result'.out = "panic" => cause
    BY <2>2 DEF Refused, AlignmentPanics
  <2>4. cause \in BOOLEAN
    BY Arguments, AddressAssumption
  <2> HIDE DEF cause
  <2>5. Ended({}, cause)
    BY <2>1, <2>3, <2>4, AnswerEnds
  <2> QED  BY <2>1, <2>3, <2>5 DEF Answer, cause
<1> QED  BY <1>1, <1>2

LEMMA EndsStep ==
  ASSUME SysInv, SysInv', SysNext
  PROVE  /\ ret' = "err" =>
              /\ call' = NoCall \/ Makes("Linux", {17, 43, 44, 57, 214, 222}) \/ Makes("Darwin", {199})
              /\ UNCHANGED <<ctx, segments, heapVars, host>> /\ sent' = Nothing
              /\ ram' # ram => call' = NoCall \/ Makes("Linux", {43, 44})
         /\ ret' = "stopped" =>
              /\ Makes("Linux", {93, 94, 96}) \/ Makes("Darwin", {1})
              /\ ctx'.exit_code = IF Makes("Linux", {96}) THEN 0 ELSE Low(call'.x[0], WBits)
         /\ ret' = "fault" /\ call' # NoCall =>
              Makes("Linux", {78}) \/ Crash(StoreBuffers(call'.x) \cup ReadBuffers(call'.x))
         /\ ret' = "panic" =>
              /\ call' # NoCall => PanicCause(call'.x)
              /\ UNCHANGED <<ctx, segments, heapVars, host>> /\ sent' = Nothing
<1> DEFINE Named == StoreBuffers(call'.x) \cup ReadBuffers(call'.x)
           Failing == Makes("Linux", {17, 43, 44, 57, 214, 222}) \/ Makes("Darwin", {199})
           Panics == PanicCause(call'.x)
           G == /\ ret' = "err" =>
                     /\ call' = NoCall \/ Failing
                     /\ UNCHANGED <<ctx, segments, heapVars, host>> /\ sent' = Nothing
                     /\ ram' # ram => call' = NoCall \/ Makes("Linux", {43, 44})
                /\ ret' = "stopped" =>
                     /\ Makes("Linux", {93, 94, 96}) \/ Makes("Darwin", {1})
                     /\ ctx'.exit_code = IF Makes("Linux", {96}) THEN 0 ELSE Low(call'.x[0], WBits)
                /\ ret' = "fault" /\ call' # NoCall => Makes("Linux", {78}) \/ Crash(Named)
                /\ ret' = "panic" =>
                     /\ call' # NoCall => Panics
                     /\ UNCHANGED <<ctx, segments, heapVars, host>> /\ sent' = Nothing
<1>0. TypeOK /\ TypeOK'
  BY DEF SysInv
<1>a. ASSUME Overlong, Unheld(Named) PROVE Panics
  BY <1>a DEF PanicCause, Overlong, Unheld
<1>1. ASSUME NEW S, NEW cause, Ended(S, cause), S \subseteq Named, ret' = "err" => Failing,
             cause => Panics
      PROVE  G
  <2>1. Unheld(S) => Unheld(Named)
    BY <1>1 DEF Unheld
  <2>2. Crash(S) => Crash(Named)
    BY <1>1 DEF Crash
  <2> HIDE DEF Named, Panics, Failing
  <2> QED  BY <1>1, <1>a, <2>1, <2>2 DEF Ended
<1>2. ASSUME ret' = "ok" PROVE G
  BY <1>2
<1>3. ASSUME NEW c, NEW nrs, Linux(c, nrs)
      PROVE  call' = c /\ Makes("Linux", nrs)
  BY <1>3 DEF Linux, Makes
<1>4. ASSUME NEW c, NEW nrs, Darwin(c, nrs)
      PROVE  call' = c /\ Makes("Darwin", nrs)
  BY <1>4 DEF Darwin, Makes
<1>5. ASSUME NEW s \in Stores, Store(s) PROVE G
  <2>1. Answer(0) /\ call' = NoCall /\ sent' = Nothing /\ UNCHANGED <<segments, heapVars, host>>
    BY <1>5 DEF Store, Silent, write
  <2>2. ret' # "stopped" /\ (ret' # "ok" => ctx' = ctx)
    BY <1>0, <2>1 DEF Answer, TypeOK
  <2> QED  BY <2>1, <2>2
<1>6. ASSUME NEW c \in Calls, Linux(c, {43, 44}), sys_statfs(c.x) PROVE G
  <2>1. call' = c /\ Makes("Linux", {43, 44})
    BY <1>3, <1>6
  <2>2. Bytes(c.x[1], StatfsBytes.len) \subseteq Named
    BY <2>1 DEF StoreBuffers, When
  <2>3. Failing
    BY <2>1 DEF Makes
  <2>4. Unheld(Bytes(c.x[1], StatfsBytes.len)) => Unheld(Named)
    BY <2>2 DEF Unheld
  <2>5. Crash(Bytes(c.x[1], StatfsBytes.len)) => Crash(Named)
    BY <2>2 DEF Crash
  <2>6. /\ ret' # "stopped"
        /\ ret' \in {"err", "panic"} => UNCHANGED <<ctx, segments, heapVars, host>> /\ sent' = Nothing
        /\ ret' = "fault" => Crash(Bytes(c.x[1], StatfsBytes.len))
        /\ ret' = "panic" => Overlong /\ Unheld(Bytes(c.x[1], StatfsBytes.len))
    BY <1>0, <1>6, StatfsEnds
  <2> HIDE DEF Named, Panics, Failing
  <2> QED  BY <1>a, <2>1, <2>3, <2>4, <2>5, <2>6
<1>7. ASSUME NEW c \in Calls, Linux(c, {199, 200}), sys_getsockname(c.x) PROVE G
  <2>1. call' = c /\ Makes("Linux", {199, 200})
    BY <1>3, <1>7
  <2>2. Ended(HostBytes(c.x[1]) \cup Bytes(c.x[2], U32Bytes), FALSE) /\ ret' # "err"
    <3>1. HostResult(c.x[1], c.x[2]) /\ c.x[1] \in Nat /\ c.x[2] \in Nat
      BY <1>7, Arguments DEF sys_getsockname
    <3> QED  BY <1>0, <3>1, HostResultEnds, Zenon
  <2>3. HostBytes(c.x[1]) \cup Bytes(c.x[2], U32Bytes) \subseteq Named
    BY <2>1 DEF StoreBuffers, When
  <2> QED  BY <1>1, <2>2, <2>3
<1>8. ASSUME NEW c \in Calls, Linux(c, {209}), sys_getsockopt(c.x) PROVE G
  <2>1. call' = c /\ Makes("Linux", {209})
    BY <1>3, <1>8
  <2>2. Ended(HostBytes(c.x[3]) \cup Bytes(c.x[4], U32Bytes), FALSE) /\ ret' # "err"
    <3>1. HostResult(c.x[3], c.x[4]) /\ c.x[3] \in Nat /\ c.x[4] \in Nat
      BY <1>8, Arguments DEF sys_getsockopt
    <3> QED  BY <1>0, <3>1, HostResultEnds, Zenon
  <2>3. HostBytes(c.x[3]) \cup Bytes(c.x[4], U32Bytes) \subseteq Named
    BY <2>1 DEF StoreBuffers, When
  <2> QED  BY <1>1, <2>2, <2>3
<1>9. ASSUME NEW c \in Calls, Linux(c, {208}), sys_setsockopt(c.x) PROVE G
  <2>1. call' = c /\ Makes("Linux", {208})
    BY <1>3, <1>9
  <2>2. Ended(Bytes(c.x[3], optlen(c.x)), optlen(c.x) > AllocMax) /\ ret' # "err"
    BY <1>0, <1>9, OptionReaderEnds
  <2>3. Bytes(c.x[3], optlen(c.x)) \subseteq Named
    BY <2>1 DEF ReadBuffers, When
  <2>4. optlen(c.x) > AllocMax => Panics
    BY <2>1 DEF PanicCause
  <2> QED  BY <1>1, <2>2, <2>3, <2>4
<1>10. ASSUME NEW c \in Calls, Linux(c, {17}), sys_symlink(c.x) PROVE G
  <2>1. call' = c /\ Makes("Linux", {17})
    BY <1>3, <1>10
  <2>2. Ended(StringBytes(c.x[1]) \cup StringBytes(c.x[2]), FALSE)
    BY <1>0, <1>10, StringReadersEnd
  <2>3. StringBytes(c.x[1]) \cup StringBytes(c.x[2]) \subseteq Named
    BY <2>1 DEF ReadBuffers, When
  <2>4. Failing
    BY <2>1 DEF Makes
  <2> QED  BY <1>1, <2>2, <2>3, <2>4
<1>11. ASSUME NEW c \in Calls, Linux(c, {57}), sys_execve(c.x) PROVE G
  <2>1. call' = c /\ Makes("Linux", {57})
    BY <1>3, <1>11
  <2>2. Ended(StringBytes(c.x[0]), FALSE)
    BY <1>0, <1>11, StringReadersEnd
  <2>3. StringBytes(c.x[0]) \subseteq Named
    BY <2>1 DEF ReadBuffers, When
  <2>4. Failing
    BY <2>1 DEF Makes
  <2> QED  BY <1>1, <2>2, <2>3, <2>4
<1>12. ASSUME NEW c \in Calls, Linux(c, {56}), sys_clone(c.x) PROVE G
  <2>1. call' = c /\ Makes("Linux", {56})
    BY <1>3, <1>12
  <2>2. Ended(Bytes(c.x[2], U32Bytes) \cup Bytes(c.x[4], U32Bytes), FALSE) /\ ret' # "err"
    BY <1>0, <1>12, CloneEnds
  <2>3. Bytes(c.x[2], U32Bytes) \cup Bytes(c.x[4], U32Bytes) \subseteq Named
    BY <2>1 DEF StoreBuffers, When
  <2> QED  BY <1>1, <2>2, <2>3
<1>13. ASSUME NEW c \in Calls, Linux(c, {98}), sys_futex(c.x) PROVE G
  <2>1. call' = c /\ Makes("Linux", {98})
    BY <1>3, <1>13
  <2>2. Ended(Bytes(c.x[0], U32Bytes), FALSE) /\ ret' # "err"
    BY <1>0, <1>13, FutexEnds
  <2>3. Bytes(c.x[0], U32Bytes) \subseteq Named
    BY <2>1 DEF ReadBuffers, When
  <2> QED  BY <1>1, <2>2, <2>3
<1>14. ASSUME NEW c \in Calls, Linux(c, {64}) \/ Darwin(c, {4}), sys_write(c.x) PROVE G
  <2>1. call' = c /\ (Makes("Linux", {64}) \/ Makes("Darwin", {4}))
    BY <1>3, <1>4, <1>14
  <2>2. Ended(c.x[1] .. c.x[1] + c.x[2] - 1, c.x[2] > AllocMax \/ c.x[0] \in {1, 2}) /\ ret' # "err"
    BY <1>0, <1>14, WriteCallEnds
  <2>3. c.x[1] .. c.x[1] + c.x[2] - 1 \subseteq Named
    BY <2>1 DEF ReadBuffers, When
  <2>4. c.x[2] > AllocMax \/ c.x[0] \in {1, 2} => Panics
    BY <2>1 DEF PanicCause
  <2> QED  BY <1>1, <2>2, <2>3, <2>4
<1>15. ASSUME NEW c \in Calls, Linux(c, {222}) \/ Darwin(c, {199}), sys_mmap(c.x) PROVE G
  <2>1. Ended({}, FALSE)
    BY <1>0, <1>15, MappersEnd
  <2>2. Makes("Linux", {222}) \/ Makes("Darwin", {199})
    BY <1>3, <1>4, <1>15
  <2>3. Failing
    BY <2>2 DEF Makes
  <2> QED  BY <1>1, <2>1, <2>3
<1>21. ASSUME NEW c \in Calls, Linux(c, {214}), sys_brk(c.x) PROVE G
  <2>1. Ended({}, c.x[0] > AddrTop)
    BY <1>0, <1>21, MappersEnd
  <2>2. call' = c /\ Makes("Linux", {214})
    BY <1>3, <1>21
  <2>3. Failing /\ (c.x[0] > AddrTop => Panics)
    BY <2>2 DEF Makes, PanicCause
  <2> QED  BY <1>1, <2>1, <2>3
<1>16. ASSUME NEW c \in Calls, sys_set_tls(c.x) PROVE G
  BY <1>2, <1>16 DEF sys_set_tls
<1>17. ASSUME sys_socket \/ sys_listen \/ sys_fcntl \/ sys_close \/ sys_ids \/ sys_nothing
       PROVE  G
  BY <1>2, <1>17, Quiet DEF sys_socket, sys_listen, sys_fcntl, sys_close, sys_ids,
    sys_nothing, HostAnswer, HostStatus
<1>22. ASSUME NEW c \in Calls, Linux(c, {78}), sys_kill PROVE G
  <2>1. Makes("Linux", {78})
    BY <1>3, <1>22
  <2>2. ret' \in {"ok", "fault"}
    BY <1>22, Quiet DEF sys_kill, HostStatus, Memory, Answer
  <2> QED  BY <2>1, <2>2
<1>18. ASSUME NEW c \in Calls, Linux(c, {93, 94}) \/ Darwin(c, {1}), sys_exit(c.x) PROVE G
  <2>1. call' = c /\ (Makes("Linux", {93, 94}) \/ Makes("Darwin", {1}))
    BY <1>3, <1>4, <1>18
  <2>2. ~Makes("Linux", {96}) /\ (Makes("Linux", {93, 94, 96}) \/ Makes("Darwin", {1}))
    BY <2>1 DEF Makes
  <2>3. ret' = "stopped" /\ ctx' = [ctx EXCEPT !.exited = TRUE, !.exit_code = Low(c.x[0], WBits)]
    BY <1>18 DEF sys_exit
  <2>4. ctx'.exit_code = Low(c.x[0], WBits)
    BY <2>3 DEF SysInv, CtxOK
  <2> QED  BY <2>1, <2>2, <2>3, <2>4
<1>19. ASSUME NEW c \in Calls, Linux(c, {96}), sys_end_thread(c.x) PROVE G
  <2>1. call' = c /\ Makes("Linux", {96})
    BY <1>3, <1>19
  <2>2. Makes("Linux", {93, 94, 96})
    BY <2>1 DEF Makes
  <2>3. /\ ret' \in {"stopped", "fault", "panic"}
        /\ ret' = "stopped" => ctx' = [ctx EXCEPT !.exited = TRUE, !.exit_code = 0]
        /\ ret' = "fault" => Crash(Bytes(c.x[0], U32Bytes))
        /\ ret' = "panic" =>
             /\ Overlong /\ Unheld(Bytes(c.x[0], U32Bytes))
             /\ UNCHANGED <<ctx, segments, heapVars, host>> /\ sent' = Nothing
    BY <1>19, EndThreadEnds
  <2>4. ret' = "stopped" => ctx'.exit_code = 0
    BY <2>3 DEF SysInv, CtxOK
  <2>5. Bytes(c.x[0], U32Bytes) \subseteq Named
    BY <2>1 DEF StoreBuffers, When
  <2>6. /\ Crash(Bytes(c.x[0], U32Bytes)) => Crash(Named)
        /\ Unheld(Bytes(c.x[0], U32Bytes)) => Unheld(Named)
    BY <2>5 DEF Crash, Unheld
  <2> HIDE DEF Named, Panics, Failing
  <2> QED  BY <1>a, <2>1, <2>2, <2>3, <2>4, <2>6
<1>20. G
  <2> HIDE DEF G
  <2> QED  BY <1>5, <1>6, <1>7, <1>8, <1>9, <1>10, <1>11, <1>12, <1>13, <1>14, <1>15, <1>16, <1>17,
             <1>18, <1>19, <1>21, <1>22 DEF SysNext
<1> QED  BY <1>20

(* A run ends in an error only at a call that may pass one on, with        *)
(* registers, heap and mappings as they were and nothing sent; by a stop   *)
(* only at an exit; it dies only of a direct address that a buffer of the  *)
(* call names, or of a signal it was sent; and it panics only over a count *)
(* or option length no vector holds, a standard output that fails, a break *)
(* past the last page, or - where a mapping runs past the last address -   *)
(* an unmapped byte of a buffer (the ? and let _ = of linux.rs and         *)
(* darwin.rs).                                                             *)
THEOREM RunsEndForAReason == SysSpec => EndsJustified
<1>1. ASSUME SysInv, SysInv', [SysNext]_sysVars
      PROVE  [/\ ret' = "err" =>
                   /\ call' = NoCall \/ Makes("Linux", {17, 43, 44, 57, 214, 222}) \/ Makes("Darwin", {199})
                   /\ UNCHANGED <<ctx, segments, heapVars, host>> /\ sent' = Nothing
                   /\ ram' # ram => call' = NoCall \/ Makes("Linux", {43, 44})
              /\ ret' = "stopped" =>
                   /\ Makes("Linux", {93, 94, 96}) \/ Makes("Darwin", {1})
                   /\ ctx'.exit_code = IF Makes("Linux", {96}) THEN 0 ELSE Low(call'.x[0], WBits)
              /\ ret' = "fault" /\ call' # NoCall =>
                   \/ Makes("Linux", {78})
                   \/ \E a \in StoreBuffers(call'.x) \cup ReadBuffers(call'.x) : Direct(a) /\ ~Backed(a)
              /\ ret' = "panic" =>
                   /\ call' # NoCall => PanicCause(call'.x)
                   /\ UNCHANGED <<ctx, segments, heapVars, host>> /\ sent' = Nothing]_sysVars
  BY <1>1, EndsStep, Zenon DEF Crash
<1> QED  BY <1>1, SysInvariant, PTL DEF SysSpec, EndsJustified

-----------------------------------------------------------------------------
(* Where a call stores. *)

(* A segment has b for one of the addresses, or b is one, in direct range. *)
Reached(S, b) == \E a \in S : b \in Holding(a) \/ (Direct(a) /\ b = a)

LEMMA StoreReaches ==
  ASSUME SysInv, NEW addr \in Nat, NEW len \in Nat, NEW data, NEW m,
         NEW b \in HostAddr, Stored(m, addr, len, data)[b] # m[b]
  PROVE  Reached(addr .. addr + len - 1, b)
<1>1. PICK k \in 0 .. len - 1 : b \in Holding(addr + k) \/ (Direct(addr + k) /\ b = addr + k)
  <2>1. TypeOK /\ SegmentsIsolated
    BY DEF SysInv
  <2> QED  BY <2>1, StoredWithin
<1>2. addr + k \in addr .. addr + len - 1
  OBVIOUS
<1> QED  BY <1>1, <1>2 DEF Reached

LEMMA BothReach ==
  ASSUME SysInv, NEW p \in Nat, NEW len1 \in Nat, NEW data1,
         NEW q \in Nat, NEW len2 \in Nat, NEW data2,
         StoreBoth(p, len1, data1, q, len2, data2),
         NEW b \in HostAddr, ram'[b] # ram[b]
  PROVE  Reached(Bytes(p, len1) \cup Bytes(q, len2), b)
<1> DEFINE first == IF p = 0 THEN ram ELSE Stored(ram, p, len1, data1)
<1>1. ram' = first \/ (q # 0 /\ ram' = Stored(first, q, len2, data2))
  BY StoreBothEnds
<1>2. \A addr \in Nat, len \in Nat : \A data, m :
        Stored(m, addr, len, data)[b] # m[b] => Reached(addr .. addr + len - 1, b)
  <2> SUFFICES ASSUME NEW addr \in Nat, NEW len \in Nat, NEW data, NEW m,
                      Stored(m, addr, len, data)[b] # m[b]
               PROVE  Reached(addr .. addr + len - 1, b)
    OBVIOUS
  <2> QED  BY StoreReaches
<1>3. ASSUME q # 0, Stored(first, q, len2, data2)[b] # first[b]
      PROVE  Reached(Bytes(p, len1) \cup Bytes(q, len2), b)
  <2> HIDE DEF first
  <2>1. Reached(q .. q + len2 - 1, b)
    BY <1>2, <1>3, Zenon
  <2> QED  BY <1>3, <2>1 DEF Reached, Bytes
<1>4. ASSUME p # 0, Stored(ram, p, len1, data1)[b] # ram[b]
      PROVE  Reached(Bytes(p, len1) \cup Bytes(q, len2), b)
  <2> HIDE DEF first
  <2>1. Reached(p .. p + len1 - 1, b)
    BY <1>2, <1>4, Zenon
  <2> QED  BY <1>4, <2>1 DEF Reached, Bytes
<1> HIDE DEF Reached
<1> QED  BY <1>1, <1>3, <1>4

(* A mapping clears bytes that were free and no others.                    *)
LEMMA PushClears ==
  ASSUME NEW target, NEW size, NEW prot, NEW ptr \in HostPlaces(target, size),
         PushSegment(target, size, prot, ptr), NEW b \in HostAddr, ram'[b] # ram[b]
  PROVE  host[b] = "free"
<1>1. b \in Pages(ptr, size)
  BY DEF PushSegment
<1> QED  BY <1>1 DEF HostPlaces, FreeRun

LEMMA ConfinedStep ==
  ASSUME SysInv, SysNext, call' # NoCall, NEW b \in HostAddr, ram'[b] # ram[b]
  PROVE  host[b] = "free" \/ Reached(StoreBuffers(call'.x), b)
<1> DEFINE Named == StoreBuffers(call'.x)
           G == host[b] = "free" \/ Reached(Named, b)
<1>1. ASSUME NEW S, Reached(S, b), S \subseteq Named PROVE G
  BY <1>1 DEF Reached
<1>2. ASSUME NEW op, NEW out, Memory(op, out) PROVE G
  BY <1>2 DEF Memory
<1>3. ASSUME NEW c, NEW nrs, Linux(c, nrs)
      PROVE  call' = c /\ Makes("Linux", nrs)
  BY <1>3 DEF Linux, Makes
<1>4. ASSUME NEW s \in Stores, Store(s) PROVE G
  BY <1>4 DEF Store
<1>5. ASSUME NEW c \in Calls, Linux(c, {43, 44}), sys_statfs(c.x) PROVE G
  <2>1. call' = c /\ Makes("Linux", {43, 44})
    BY <1>3, <1>5
  <2>2. CASE c.x[1] = 0
    BY <1>2, <1>5, <2>2 DEF sys_statfs
  <2>3. CASE c.x[1] # 0
    <3>1. ram' = Stored(ram, c.x[1], StatfsBytes.len, StatfsBytes.data)
      BY <1>5, <2>3 DEF sys_statfs, write
    <3>2. c.x[1] \in Nat /\ StatfsBytes.len \in Nat
      BY Arguments, HostDataAssumption
    <3>3. Reached(c.x[1] .. c.x[1] + StatfsBytes.len - 1, b)
      BY <3>1, <3>2, StoreReaches
    <3>4. c.x[1] .. c.x[1] + StatfsBytes.len - 1 \subseteq Named
      BY <2>1, <2>3 DEF StoreBuffers, When, Bytes
    <3> QED  BY <1>1, <3>3, <3>4
  <2> QED  BY <2>2, <2>3
<1>6. ASSUME NEW ptr \in Nat, NEW lenPtr \in Nat, HostResult(ptr, lenPtr),
             HostBytes(ptr) \cup Bytes(lenPtr, U32Bytes) \subseteq Named
      PROVE  G
  <2>1. ASSUME NEW d \in HostData,
               StoreBoth(ptr, d.len, d.data, lenPtr, U32Bytes, ToBytes(d.len, U32Bytes))
        PROVE  G
    <3>1. d.len \in Nat /\ U32Bytes \in Nat
      BY HostDataAssumption
    <3> HIDE DEF U32Bytes
    <3>2. Reached(Bytes(ptr, d.len) \cup Bytes(lenPtr, U32Bytes), b)
      BY <2>1, <3>1, BothReach
    <3>3. Bytes(ptr, d.len) \cup Bytes(lenPtr, U32Bytes) \subseteq Named
      BY <1>6 DEF HostBytes
    <3> QED  BY <1>1, <3>2, <3>3
  <2> HIDE DEF U32Bytes, G
  <2> QED  BY <1>2, <1>6, <2>1 DEF HostResult
<1>7. ASSUME NEW c \in Calls, Linux(c, {199, 200}), sys_getsockname(c.x) PROVE G
  <2>1. call' = c /\ Makes("Linux", {199, 200})
    BY <1>3, <1>7
  <2>2. HostBytes(c.x[1]) \cup Bytes(c.x[2], U32Bytes) \subseteq Named
    BY <2>1 DEF StoreBuffers, When
  <2> QED  BY <1>6, <1>7, <2>2, Arguments DEF sys_getsockname
<1>8. ASSUME NEW c \in Calls, Linux(c, {209}), sys_getsockopt(c.x) PROVE G
  <2>1. call' = c /\ Makes("Linux", {209})
    BY <1>3, <1>8
  <2>2. HostBytes(c.x[3]) \cup Bytes(c.x[4], U32Bytes) \subseteq Named
    BY <2>1 DEF StoreBuffers, When
  <2> QED  BY <1>6, <1>8, <2>2, Arguments DEF sys_getsockopt
<1>9. ASSUME NEW c \in Calls, Linux(c, {56}), sys_clone(c.x) PROVE G
  <2> DEFINE tid == ToBytes(Pid + 1, U32Bytes)
  <2>1. call' = c /\ Makes("Linux", {56})
    BY <1>3, <1>9
  <2>2. Memory("none", "ok") \/ StoreBoth(c.x[4], U32Bytes, tid, c.x[2], U32Bytes, tid)
    BY <1>9, Zenon DEF sys_clone
  <2>3. c.x[4] \in Nat /\ c.x[2] \in Nat /\ U32Bytes \in Nat
    BY Arguments
  <2>4. Bytes(c.x[4], U32Bytes) \cup Bytes(c.x[2], U32Bytes) \subseteq Named
    BY <2>1 DEF StoreBuffers, When
  <2> HIDE DEF tid, U32Bytes, Named, G, HostAddr
  <2>5. StoreBoth(c.x[4], U32Bytes, tid, c.x[2], U32Bytes, tid)
          => Reached(Bytes(c.x[4], U32Bytes) \cup Bytes(c.x[2], U32Bytes), b)
    BY <2>3, BothReach
  <2>6. StoreBoth(c.x[4], U32Bytes, tid, c.x[2], U32Bytes, tid) => G
    BY <1>1, <2>4, <2>5, Zenon
  <2> QED  BY <1>2, <2>2, <2>6
<1>10. ASSUME NEW c \in Calls, Linux(c, {96}), sys_end_thread(c.x) PROVE G
  <2>1. call' = c /\ Makes("Linux", {96})
    BY <1>3, <1>10
  <2>2. StoreBoth(c.x[0], U32Bytes, [k \in 0 .. U32Bytes - 1 |-> 0], 0, 0, <<>>)
    BY <1>10 DEF sys_end_thread
  <2>3. c.x[0] \in Nat /\ U32Bytes \in Nat
    BY Arguments
  <2>4. Bytes(c.x[0], U32Bytes) \cup Bytes(0, 0) \subseteq Named
    BY <2>1 DEF StoreBuffers, When, Bytes
  <2> HIDE DEF U32Bytes, Named, G, HostAddr
  <2>5. 0 \in Nat
    OBVIOUS
  <2>6. Reached(Bytes(c.x[0], U32Bytes) \cup Bytes(0, 0), b)
    BY <2>2, <2>3, <2>5, BothReach
  <2> QED  BY <1>1, <2>4, <2>6, Zenon
<1>11. ASSUME NEW c \in Calls, sys_mmap(c.x) PROVE G
  <2>1. PICK target : map_anonymous(target, c.x[1])
    BY <1>11 DEF sys_mmap
  <2>2. \E ptr \in HostPlaces(target, c.x[1]) : PushSegment(target, c.x[1], "RWX", ptr)
    BY <2>1 DEF map_anonymous, map_anonymous_prot, Refused
  <2> QED  BY <2>2, PushClears
<1>12. ASSUME NEW c \in Calls, sys_brk(c.x) PROVE G
  <2>1. CASE Memory("brk", "ok")
    BY <1>2, <2>1
  <2>2. CASE set_brk(c.x[0])
    <3>1. \E size : \E ptr \in HostPlaces(brk_mapped_end, size) :
            PushSegment(brk_mapped_end, size, "RW", ptr)
      BY <2>2 DEF set_brk, ExpansionFails, Refused, AlignmentPanics
    <3> QED  BY <3>1, PushClears
  <2> QED  BY <1>12, <2>1, <2>2 DEF sys_brk
<1>13. ASSUME NEW c \in Calls,
              sys_setsockopt(c.x) \/ sys_symlink(c.x) \/ sys_futex(c.x) \/ sys_write(c.x)
              \/ sys_execve(c.x) \/ sys_exit(c.x) \/ sys_set_tls(c.x)
       PROVE  G
  <2>1. \E op, out : Memory(op, out)
    BY <1>13, ReaderEnds, PathEnds DEF sys_exit, sys_set_tls
  <2> QED  BY <1>2, <2>1
<1>14. ASSUME sys_socket \/ sys_listen \/ sys_kill \/ sys_fcntl \/ sys_close \/ sys_ids \/ sys_nothing
       PROVE  G
  <2>1. Memory("none", "ok") \/ Memory("none", "fault")
    BY <1>14 DEF sys_socket, sys_listen, sys_kill, sys_fcntl, sys_close, sys_ids, sys_nothing,
      HostAnswer, HostStatus, JustAnswer
  <2> QED  BY <1>2, <2>1
<1>15. G
  <2> HIDE DEF G
  <2> QED  BY <1>4, <1>5, <1>7, <1>8, <1>9, <1>10, <1>11, <1>12, <1>13, <1>14 DEF SysNext
<1> QED  BY <1>15

(* A call stores to the buffers its registers name, by the segments that   *)
(* hold them or, in the direct range, to the very addresses, and to no     *)
(* other byte; a new mapping clears bytes that were nobody's.              *)
THEOREM CallsStayInTheirBuffers == SysSpec => CallsConfined
<1>1. ASSUME SysInv, [SysNext]_sysVars
      PROVE  [call' # NoCall =>
                \A b \in HostAddr : ram'[b] # ram[b] =>
                  \/ host[b] = "free"
                  \/ \E a \in StoreBuffers(call'.x) : b \in Holding(a) \/ (Direct(a) /\ b = a)]_sysVars
  <2>1. ASSUME SysNext, call' # NoCall, NEW b \in HostAddr, ram'[b] # ram[b]
        PROVE  host[b] = "free" \/ Reached(StoreBuffers(call'.x), b)
    BY <1>1, <2>1, ConfinedStep
  <2> QED  BY <1>1, <2>1, Zenon DEF Reached
<1> QED  BY <1>1, SysInvariant, PTL DEF SysSpec, CallsConfined

-----------------------------------------------------------------------------
(* What a write delivers. *)

(* A buffer a vector holds can be read exactly if all of it is backed.     *)
LEMMA ReadsWhenBacked ==
  ASSUME SysInv, NEW buf \in Nat, NEW count \in Nat
  PROVE  IF count > AllocMax THEN ReadOutcome(buf, count) = "panic"
         ELSE ReadOutcome(buf, count) = "ok" <=> \A k \in 0 .. count - 1 : BackedIn(buf, buf + k)
<1>a. CASE count > AllocMax
  BY <1>a DEF ReadOutcome
<1>b. SUFFICES ASSUME ~(count > AllocMax)
               PROVE  ReadOutcome(buf, count) = "ok" <=> \A k \in 0 .. count - 1 : BackedIn(buf, buf + k)
  BY <1>a
<1> DEFINE from == ReadBytes(buf, count)
           whole == DOMAIN from = 0 .. count - 1
           fit == \A k \in DOMAIN from : Readable(from[k])
<1>1. Reaches(from, buf, count)
  BY ReadReaches DEF SysInv, TypeOK
<1>2. ReadOutcome(buf, count) = "ok" <=> whole /\ fit
  BY <1>b DEF ReadOutcome, Outcome
<1> HIDE DEF from
<1>3. CASE Direct(buf)
  <2>1. whole /\ \A k \in 0 .. count - 1 : from[k] = buf + k
    BY <1>1, <1>3 DEF Reaches
  <2>2. \A k \in 0 .. count - 1 : Readable(buf + k) <=> BackedIn(buf, buf + k)
    <3>1. ASSUME NEW b \in Nat PROVE Readable(b) <=> BackedIn(buf, b)
      <4>1. b # -1
        OBVIOUS
      <4> QED  BY <1>3, <4>1 DEF SysInv, Unprotected, Readable, Writable, BackedIn, PlaceIn
    <3> QED  BY <3>1
  <2> QED  BY <1>2, <2>1, <2>2
<1>4. CASE ~Direct(buf)
  <2>1. PICK n \in 0 .. count :
          /\ DOMAIN from = 0 .. n - 1
          /\ \A k \in 0 .. n - 1 : from[k] \in Holding(buf + k)
          /\ n < count => Holding(buf + n) = {}
    BY <1>1, <1>4 DEF Reaches
  <2>2. ASSUME NEW k \in 0 .. count - 1
        PROVE  BackedIn(buf, buf + k) <=> Holding(buf + k) # {}
    <3>1. buf + k \in Nat
      OBVIOUS
    <3>2. Translation(buf + k) # -1 <=> Holding(buf + k) # {}
      BY <3>1, TranslationHeld DEF SysInv
    <3>3. Translation(buf + k) # -1 => Writable(Translation(buf + k))
      BY <3>1, Backs DEF SysInv, TranslationsBacked
    <3> QED  BY <1>4, <3>2, <3>3 DEF BackedIn, PlaceIn
  <2>3. fit
    <3>1. ASSUME NEW k \in 0 .. n - 1 PROVE Readable(from[k])
      <4>1. buf + k \in Nat
        OBVIOUS
      <4> QED  BY <2>1, <4>1, HeldAccessible DEF SysInv
    <3> QED  BY <2>1, <3>1
  <2>4. CASE n = count
    <3>1. whole
      BY <2>1, <2>4
    <3>2. \A k \in 0 .. count - 1 : Holding(buf + k) # {}
      BY <2>1, <2>4
    <3> QED  BY <1>2, <2>2, <2>3, <3>1, <3>2
  <2>5. CASE n < count
    <3>1. n \in 0 .. count - 1 /\ n \notin 0 .. n - 1
      BY <2>5
    <3>2. ~whole
      BY <2>1, <3>1
    <3>3. ~BackedIn(buf, buf + n)
      BY <2>1, <2>2, <2>5, <3>1
    <3> QED  BY <1>2, <3>1, <3>2, <3>3
  <2> QED  BY <2>4, <2>5
<1> QED  BY <1>3, <1>4

(* What is read is what the guest sees there, one segment to an address.   *)
LEMMA ReadsWhatIsSeen ==
  ASSUME SysInv, NEW buf \in Nat, NEW count \in Nat, ReadOutcome(buf, count) = "ok",
         Direct(buf) \/ CoveredOnce(buf, count)
  PROVE  BytesAt(buf, count) = [k \in 0 .. count - 1 |-> ram[PlaceIn(buf, buf + k)]]
<1> DEFINE from == ReadBytes(buf, count)
<1>1. Reaches(from, buf, count)
  BY ReadReaches DEF SysInv, TypeOK
<1>2. DOMAIN from = 0 .. count - 1
  BY DEF ReadOutcome, Outcome
<1>3. BytesAt(buf, count) = [k \in DOMAIN from |-> ram[from[k]]]
  BY DEF BytesAt
<1>4. \A k \in 0 .. count - 1 : BackedIn(buf, buf + k)
  <2>1. ~(count > AllocMax)
    BY DEF ReadOutcome
  <2> QED  BY <2>1, ReadsWhenBacked
<1> HIDE DEF from
<1>5. ASSUME NEW k \in 0 .. count - 1
      PROVE  from[k] = PlaceIn(buf, buf + k)
  <2>1. CASE Direct(buf)
    <3>1. from[k] = buf + k
      BY <1>1, <2>1 DEF Reaches
    <3>2. PlaceIn(buf, buf + k) = buf + k
      BY <1>4, <2>1 DEF BackedIn, PlaceIn
    <3> QED  BY <3>1, <3>2
  <2>2. CASE ~Direct(buf)
    <3> DEFINE S == {i \in DOMAIN segments : Covers(segments[i], buf + k)}
               here == Translation(buf + k)
    <3>1. from[k] \in Holding(buf + k)
      BY <1>1, <1>2, <2>2 DEF Reaches
    <3>2. here \in Holding(buf + k) /\ PlaceIn(buf, buf + k) = here
      <4>1. buf + k \in Nat
        OBVIOUS
      <4>2. PlaceIn(buf, buf + k) = here /\ here # -1
        BY <1>4, <2>2 DEF BackedIn, PlaceIn
      <4> QED  BY <4>1, <4>2, TranslationHeld DEF SysInv
    <3>3. IsFiniteSet(S) /\ Cardinality(S) <= 1
      <4>1. IsFiniteSet(S)
        BY SegmentsFinite DEF SysInv, TypeOK
      <4>2. buf + k \in buf .. buf + count - 1
        OBVIOUS
      <4> QED  BY <2>2, <4>1, <4>2 DEF CoveredOnce
    <3> HIDE DEF here
    <3>4. PICK i \in S, j \in S : here = HostByte(i, buf + k) /\ from[k] = HostByte(j, buf + k)
      BY <3>1, <3>2 DEF Holding
    <3> HIDE DEF S
    <3>5. i = j
      BY <3>3, AtMostOne
    <3> QED  BY <3>2, <3>4, <3>5
  <2> QED  BY <2>1, <2>2
<1> QED  BY <1>2, <1>3, <1>5

LEMMA LossyKeepsText ==
  ASSUME NEW bytes, \A k \in DOMAIN bytes : bytes[k] \notin NotUtf8
  PROVE  Lossy(bytes) = [k \in DOMAIN bytes |-> bytes[k]]
BY DEF Lossy

LEMMA WriteStep ==
  ASSUME SysNext, Makes("Linux", {64}) \/ Makes("Darwin", {4})
  PROVE  \E c \in Calls : call' = c /\ sys_write(c.x)
BY DEF SysNext, Store, Linux, Darwin, Makes, LinuxTable, NoCall

LEMMA Delivers ==
  ASSUME SysInv, NEW c \in Calls, call' = c, sys_write(c.x)
  PROVE  LET fd == call'.x[0]
             buf == call'.x[1]
             count == call'.x[2]
             Sees(a) == ram[PlaceIn(buf, a)]
         IN  /\ ret' = "ok" => ctx'.x0 = count
             /\ IF /\ fd \in {1, 2} /\ ret' # "panic"
                  /\ \A a \in buf .. buf + count - 1 : BackedIn(buf, a)
                THEN /\ sent'.to = "output"
                     /\ (\A a \in buf .. buf + count - 1 : Sees(a) \notin NotUtf8)
                        /\ (Direct(buf) \/ CoveredOnce(buf, count))
                        => sent'.data = [k \in 0 .. count - 1 |-> Sees(buf + k)]
                ELSE sent' = Nothing
<1> DEFINE fd == c.x[0]
           buf == c.x[1]
           count == c.x[2]
           out == ReadOutcome(buf, count)
           Sees(a) == ram[PlaceIn(buf, a)]
<1>1. fd \in Nat /\ buf \in Nat /\ count \in Nat
  BY Arguments
<1>2. PICK end \in Dropped(out) \cup (IF out = "ok" /\ fd \in {1, 2} THEN {"panic"} ELSE {}) :
        /\ Memory("read", end) /\ Answer(count)
        /\ sent' = IF out = "ok" /\ fd \in {1, 2} /\ end = "ok"
                   THEN [to |-> "output", data |-> Lossy(BytesAt(buf, count))]
                   ELSE Nothing
  BY DEF sys_write
<1>6. out \in {"ok", "err", "fault", "panic"}
  BY OutcomesTyped
<1> HIDE DEF fd, buf, count, Sees, out
<1>7. /\ ret' = end
      /\ out = "ok" => end = "ok" \/ (fd \in {1, 2} /\ end = "panic")
      /\ out = "panic" => end = "panic"
  <2>1. ret' = end
    BY <1>2 DEF Memory, Answer
  <2>2. ASSUME out = "ok", end \in Dropped(out) PROVE end = "ok"
    BY <2>2, EndsTyped DEF Dropped
  <2>3. ASSUME out = "panic" PROVE end = "panic"
    BY <1>2, <2>3, EndsTyped DEF Dropped
  <2> QED  BY <1>2, <2>1, <2>2, <2>3
<1>3. ret' = "ok" => ctx'.x0 = count
  <2>1. ret' = "ok" => ctx' = [ctx EXCEPT !.x0 = count]
    BY <1>2 DEF Answer, SetX0
  <2> QED  BY <2>1 DEF SysInv, CtxOK
<1>4. IF count > AllocMax THEN out = "panic"
      ELSE out = "ok" <=> \A a \in buf .. buf + count - 1 : BackedIn(buf, a)
  <2>1. ASSUME NEW a \in buf .. buf + count - 1
        PROVE  a - buf \in 0 .. count - 1 /\ a = buf + (a - buf)
    BY <1>1
  <2>2. ASSUME NEW k \in 0 .. count - 1
        PROVE  buf + k \in buf .. buf + count - 1
    BY <1>1
  <2>3. IF count > AllocMax THEN out = "panic"
        ELSE out = "ok" <=> \A k \in 0 .. count - 1 : BackedIn(buf, buf + k)
    BY <1>1, ReadsWhenBacked DEF out
  <2> QED  BY <2>1, <2>2, <2>3
<1>5. ASSUME out = "ok", fd \in {1, 2}, end = "ok",
             \A a \in buf .. buf + count - 1 : Sees(a) \notin NotUtf8,
             Direct(buf) \/ CoveredOnce(buf, count)
      PROVE  sent'.data = [k \in 0 .. count - 1 |-> Sees(buf + k)]
  <2>1. BytesAt(buf, count) = [k \in 0 .. count - 1 |-> Sees(buf + k)]
    BY <1>1, <1>5, ReadsWhatIsSeen DEF Sees, out
  <2>2. \A k \in 0 .. count - 1 : buf + k \in buf .. buf + count - 1
    BY <1>1
  <2>3. Lossy(BytesAt(buf, count)) = BytesAt(buf, count)
    BY <1>5, <2>1, <2>2, LossyKeepsText, ZenonT(60)
  <2> QED  BY <1>2, <1>5, <2>1, <2>3
<1> QED  BY <1>2, <1>3, <1>4, <1>5, <1>7 DEF fd, buf, count, Sees

(* A program that prints text from readable memory has all of it printed,  *)
(* in order; nothing else is printed, and nothing is to other files (write *)
(* of both tables).                                                        *)
THEOREM TextIsDelivered == SysSpec => OutputDelivered
<1>1. ASSUME SysInv, [SysNext]_sysVars
      PROVE  [Makes("Linux", {64}) \/ Makes("Darwin", {4}) =>
                LET fd == call'.x[0]
                    buf == call'.x[1]
                    count == call'.x[2]
                    Sees(a) == ram[PlaceIn(buf, a)]
                IN  /\ ret' = "ok" => ctx'.x0 = count
                    /\ IF /\ fd \in {1, 2} /\ ret' # "panic"
                          /\ \A a \in buf .. buf + count - 1 : BackedIn(buf, a)
                       THEN /\ sent'.to = "output"
                            /\ (\A a \in buf .. buf + count - 1 : Sees(a) \notin NotUtf8)
                               /\ (Direct(buf) \/ CoveredOnce(buf, count))
                               => sent'.data = [k \in 0 .. count - 1 |-> Sees(buf + k)]
                       ELSE sent' = Nothing]_sysVars
  <2>1. SysNext \/ UNCHANGED sysVars
    BY <1>1
  <2> QED  BY <1>1, <2>1, WriteStep, Delivers, Zenon
<1> QED  BY <1>1, SysInvariant, PTL DEF SysSpec, OutputDelivered

=============================================================================
