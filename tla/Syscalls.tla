------------------------------ MODULE Syscalls ------------------------------
(***************************************************************************)
(* The system calls: SyscallDispatcher (src/src/syscall/mod.rs) and the    *)
(* tables of Linux (linux.rs) and Darwin (darwin.rs), over GuestMemory.    *)
(*                                                                         *)
(* A guest alternates stores of its own and SVC instructions; one action   *)
(* is a whole handler with the memory calls it makes.  What the host's     *)
(* kernel answers to a call that is forwarded is any of HostRets.  A       *)
(* register holds an integer: a negative one is the u64 of the same bits.  *)
(***************************************************************************)
EXTENDS GuestMemory, Word

CONSTANTS
  TargetOses,     \* the systems the guest may be of: "Linux", "Android", "Darwin"
  Calls,          \* the calls the guest makes: [nr, x], x from 0 .. 4 to arguments
  Stores,         \* the guest's own stores between them: [at, len, data]
  ImageAddr, ImageSize, StackAddr, StackSize,   \* what the loader has mapped
  MmapDefault,    \* 0x7f03_0000
  StatfsBytes,    \* the 120 bytes statfs fills in
  HostRets,       \* results of the host's calls; an error number is negative
  HostData,       \* [len, data]: names and options of sockets, as the host has them
  Pid,            \* the emulator's process id
  NotUtf8         \* bytes that occur in no UTF-8 text

U32Bytes == 4
Nothing == [to |-> "none"]
NoCall == [nr |-> -1, x |-> [k \in 0 .. 4 |-> 0]]

ASSUME VectorAssumption == AllocMax >= U32Bytes
ASSUME CallAssumption ==
  \A c \in Calls : c.nr \in Nat /\ c.x \in [0 .. 4 -> Nat]
ASSUME WordAssumption ==
  /\ 2^ByteBits \in Nat \ {0} /\ 0 .. 2^ByteBits - 1 \subseteq Byte
  /\ \A j \in 0 .. U32Bytes - 1 : 2^(ByteBits * j) \in Nat \ {0}
  /\ 2^WBits \in Nat \ {0}
ASSUME StoreAssumption ==
  \A s \in Stores : s.at \in Nat /\ s.len \in Nat /\ s.data \in [0 .. s.len - 1 -> Byte]
ASSUME LayoutAssumption ==
  /\ ImageAddr \in Nat \ {0} /\ ImageSize \in Nat \ {0}
  /\ StackAddr \in Nat \ {0} /\ StackSize \in Nat \ {0}
  /\ Pages(ImageAddr, ImageSize) \cup Pages(StackAddr, StackSize) \subseteq HostAddr \ HostOwned
  /\ Pages(ImageAddr, ImageSize) \cap Pages(StackAddr, StackSize) = {}
  /\ MmapDefault \in Nat \ {0}
ASSUME HostDataAssumption ==
  /\ HostRets \subseteq Int /\ Pid \in Nat
  /\ \A d \in HostData \cup {StatfsBytes} : d.len \in Nat /\ d.data \in [0 .. d.len - 1 -> Byte]

VARIABLES
  ctx,            \* of CpuContext: target_os, X0, tpidr_el0, exited, exit_code
  call,           \* the registers of the last SVC; NoCall after a store
  sent,           \* what the last step handed to the host's system, if anything
  ret             \* "ok" while step returns Ok(true); then "stopped", "err", "fault"
                  \* or "panic"

sysVars == <<vars, ctx, call, sent, ret>>

-----------------------------------------------------------------------------
(* How a handler ends. *)

SetX0(v) == ctx' = [ctx EXCEPT !.x0 = v]

(* The handler returns Ok with v in X0 unless its memory call, already     *)
(* made, failed: an error is passed on by ?, a fault or a panic ends the   *)
(* emulator.                                                               *)
Answer(v) ==
  /\ ret' = result'.out
  /\ IF result'.out = "ok" THEN SetX0(v) ELSE UNCHANGED ctx

Memory(op, out) ==
  /\ result' = Returns(op, out)
  /\ UNCHANGED <<segments, heapVars, hostVars>>

Silent == sent' = Nothing

(* Neither memory nor the host's system is involved. *)
JustAnswer(v) == Memory("none", "ok") /\ Answer(v) /\ Silent

(* A call forwarded to the host with its arguments and without memory: the *)
(* guest gets the result, or 0 for a success.                              *)
HostAnswer == \E r \in HostRets : JustAnswer(r)
HostStatus == \E r \in HostRets : JustAnswer(IF r < 0 THEN r ELSE 0)

(* How a memory call whose error is dropped ends. *)
Dropped(out) == {IF end = "err" THEN "ok" ELSE end : end \in Ends(out)}

\* Mutant: the first word is written with the eight bytes of the u64.
StoreBoth_Wide(p, len1, data1, q, len2, data2) ==
  LET wide == data1 @@ [k \in len1 .. 2 * len1 - 1 |-> 0]
      first == IF p = 0 THEN ram ELSE Stored(ram, p, 2 * len1, wide)
  IN  /\ \E end \in Dropped(IF p = 0 THEN "ok" ELSE WriteOutcome(p, 2 * len1)) :
           IF end # "ok" \/ q = 0
           THEN ram' = first /\ result' = Returns("write", end)
           ELSE /\ ram' = Stored(first, q, len2, data2)
                /\ \E last \in Dropped(WriteOutcome(q, len2)) : result' = Returns("write", last)
      /\ UNCHANGED <<segments, heapVars, host>>

(* Two writes, each left out at a null pointer, whose errors are dropped;  *)
(* the second is not reached if the first ends the emulator.               *)
StoreBoth(p, len1, data1, q, len2, data2) ==
  LET first == IF p = 0 THEN ram ELSE Stored(ram, p, len1, data1)
  IN  /\ \E end \in Dropped(IF p = 0 THEN "ok" ELSE WriteOutcome(p, len1)) :
           IF end # "ok" \/ q = 0
           THEN ram' = first /\ result' = Returns("write", end)
           ELSE /\ ram' = Stored(first, q, len2, data2)
                /\ \E last \in Dropped(WriteOutcome(q, len2)) : result' = Returns("write", last)
      /\ UNCHANGED <<segments, heapVars, host>>

(* String::from_utf8_lossy: -1 stands for U+FFFD. *)
Lossy(bytes) == [k \in DOMAIN bytes |-> IF bytes[k] \in NotUtf8 THEN -1 ELSE bytes[k]]

-----------------------------------------------------------------------------
(* The Linux table.  x is the function of arguments. *)

sys_statfs(x) ==
  /\ IF x[1] # 0 THEN write(x[1], StatfsBytes.len, StatfsBytes.data) ELSE Memory("none", "ok")
  /\ Answer(0)
  /\ Silent

sys_socket == HostAnswer
sys_listen == HostStatus
(* The process signalled may be the emulator's own. *)
sys_kill ==
  \/ HostStatus
  \/ Memory("none", "fault") /\ Answer(0) /\ Silent
sys_fcntl == HostAnswer
sys_close == HostStatus

(* What the host returned, d, is stored whole: the length the guest put    *)
(* behind its second pointer is not read.                                  *)
HostResult(ptr, lenPtr) ==
  /\ \/ \E r \in HostRets : r < 0 /\ Memory("none", "ok") /\ Answer(r)
     \/ \E d \in HostData :
          /\ IF ptr # 0 /\ lenPtr # 0
             THEN StoreBoth(ptr, d.len, d.data, lenPtr, U32Bytes, ToBytes(d.len, U32Bytes))
             ELSE Memory("none", "ok")
          /\ Answer(0)
  /\ Silent

sys_getsockname(x) == HostResult(x[1], x[2])
sys_getsockopt(x) == HostResult(x[3], x[4])

(* The length is cut to a u32.  A vector of it is allocated first; an      *)
(* option that cannot be read is passed on as zeros.                       *)
optlen(x) == Low(x[4], WBits)

sys_setsockopt(x) ==
  LET out == IF optlen(x) > AllocMax THEN "panic"
             ELSE IF x[3] # 0 /\ optlen(x) > 0 THEN ReadOutcome(x[3], optlen(x)) ELSE "ok"
      zeros == [k \in 0 .. optlen(x) - 1 |-> 0]
  IN  /\ \E end \in Dropped(out) :
           /\ Memory("read", end)
           /\ sent' = IF end # "ok" THEN Nothing
                      ELSE [to |-> "option",
                            data |-> IF x[3] # 0 /\ out = "ok" THEN BytesAt(x[3], optlen(x))
                                     ELSE zeros]
      /\ \E r \in HostRets : Answer(IF r < 0 THEN r ELSE 0)

PathAt(ptr) == IF ptr = 0 THEN [out |-> "ok", bytes |-> <<>>] ELSE read_string(ptr)

sys_symlink(x) ==
  LET target == PathAt(x[1])
      link == PathAt(x[2])
      out == IF target.out # "ok" THEN target.out ELSE link.out
  IN  /\ \E end \in Ends(out) : Memory("read", end)
      /\ \E r \in HostRets : Answer(IF r < 0 THEN r ELSE 0)
      /\ sent' = IF out # "ok" THEN Nothing
                 ELSE [to |-> "symlink", data |-> <<Lossy(target.bytes), Lossy(link.bytes)>>]

(* The context of a new thread is built and dropped; its id is a number    *)
(* nothing runs under.                                                     *)
CloneThread == 65536

sys_clone(x) ==
  /\ IF (x[0] \div CloneThread) % 2 = 1
     THEN LET tid == ToBytes(Pid + 1, U32Bytes)
          IN  StoreBoth(x[4], U32Bytes, tid, x[2], U32Bytes, tid)
     ELSE Memory("none", "ok")
  /\ Answer(Pid + 1)
  /\ Silent

EAGAIN == 11

(* Nothing waits and nothing is woken. *)
sys_futex(x) ==
  LET op == x[1] % 128
      val == Low(x[2], WBits)
      compares == op = 0 /\ x[0] # 0
      out == IF compares THEN ReadOutcome(x[0], U32Bytes) ELSE "ok"
      differs == compares /\ out = "ok" /\ FromBytes(BytesAt(x[0], U32Bytes)) # val
  IN  /\ \E end \in Dropped(out) : Memory("read", end)
      /\ Answer(IF op = 1 THEN val ELSE IF differs THEN -EAGAIN ELSE 0)
      /\ Silent

(* Process, user and group ids are the host's. *)
sys_ids == \E id \in {r \in HostRets : r >= 0} : JustAnswer(id)

\* Mutant: the status is not cut to an i32.
sys_exit_Wide(x) ==
  /\ Memory("none", "ok")
  /\ ctx' = [ctx EXCEPT !.exited = TRUE, !.exit_code = x[0]]
  /\ ret' = "stopped"
  /\ Silent

sys_exit(x) ==
  /\ Memory("none", "ok")
  /\ ctx' = [ctx EXCEPT !.exited = TRUE, !.exit_code = Low(x[0], WBits)]
  /\ ret' = "stopped"
  /\ Silent

\* Mutant: the last byte is not printed.
sys_write_Short(x) ==
  LET out == ReadOutcome(x[1], x[2])
      prints == out = "ok" /\ x[0] \in {1, 2}
  IN  /\ \E end \in Dropped(out) \cup (IF prints THEN {"panic"} ELSE {}) :
           /\ Memory("read", end)
           /\ sent' = IF prints /\ end = "ok"
                      THEN [to |-> "output",
                            data |-> Lossy([k \in 0 .. x[2] - 2 |-> BytesAt(x[1], x[2])[k]])]
                      ELSE Nothing
      /\ Answer(x[2])

(* The count is returned whether the buffer could be read or not, and      *)
(* whatever the file; the two standard outputs are printed to as text, and *)
(* print! panics if the output does not take it.                           *)
sys_write(x) ==
  LET out == ReadOutcome(x[1], x[2])
      prints == out = "ok" /\ x[0] \in {1, 2}
  IN  /\ \E end \in Dropped(out) \cup (IF prints THEN {"panic"} ELSE {}) :
           /\ Memory("read", end)
           /\ sent' = IF prints /\ end = "ok"
                      THEN [to |-> "output", data |-> Lossy(BytesAt(x[1], x[2]))]
                      ELSE Nothing
      /\ Answer(x[2])

ENOENT == 2

sys_execve(x) ==
  /\ \E end \in Ends(PathAt(x[0]).out) : Memory("read", end)
  /\ Answer(-ENOENT)
  /\ Silent

\* Mutant: X0 is set before the mapping is tried.
sys_mmap_Early(x) ==
  LET target_addr == IF x[0] = 0 THEN MmapDefault ELSE x[0]
  IN  map_anonymous(target_addr, x[1]) /\ SetX0(target_addr) /\ ret' = result'.out /\ Silent

\* Mutant: the address asked for is returned.
sys_mmap_Asked(x) ==
  LET target_addr == IF x[0] = 0 THEN MmapDefault ELSE x[0]
  IN  map_anonymous(target_addr, x[1]) /\ Answer(x[0]) /\ Silent

sys_mmap(x) ==
  LET target_addr == IF x[0] = 0 THEN MmapDefault ELSE x[0]
  IN  map_anonymous(target_addr, x[1]) /\ Answer(target_addr) /\ Silent

\* Mutant: a query returns what is mapped.
sys_brk_Mapped(x) ==
  /\ IF x[0] = 0 THEN Memory("brk", "ok") ELSE set_brk(x[0])
  /\ Answer(brk_mapped_end')
  /\ Silent

sys_brk(x) ==
  /\ IF x[0] = 0 THEN Memory("brk", "ok") ELSE set_brk(x[0])
  /\ Answer(brk_current')
  /\ Silent

sys_set_tls(x) ==
  /\ Memory("none", "ok")
  /\ ctx' = [ctx EXCEPT !.x0 = 0, !.tpidr_el0 = x[0]]
  /\ ret' = "ok"
  /\ Silent

(* 96 clears the word it is given and ends the process. *)
sys_end_thread(x) ==
  /\ StoreBoth(x[0], U32Bytes, [k \in 0 .. U32Bytes - 1 |-> 0], 0, 0, <<>>)
  /\ ctx' = IF result'.out = "ok" THEN [ctx EXCEPT !.exited = TRUE, !.exit_code = 0] ELSE ctx
  /\ ret' = IF result'.out = "ok" THEN "stopped" ELSE result'.out
  /\ Silent

LinuxTable ==
  {17, 43, 44, 56, 57, 62, 63, 64, 78, 93, 94, 96, 98, 169, 172} \cup 174 .. 178
  \cup {198, 199, 200, 203, 208, 209, 214, 222}

(* Calls without an arm, and 99, 160, 215 and 226, succeed and do nothing. *)
sys_nothing == JustAnswer(0)

-----------------------------------------------------------------------------
(* Dispatch. *)

Running == ret = "ok"

Linux(c, nrs) == Running /\ ctx.target_os # "Darwin" /\ c.nr \in nrs /\ call' = c

(* The upper bits of the number are a class and are masked. *)
Darwin(c, nrs) ==
  Running /\ ctx.target_os = "Darwin" /\ (c.nr % 16777216) \in nrs /\ call' = c

(* Between two calls the guest stores to memory; X0 is its own again. *)
Store(s) ==
  /\ Running
  /\ write(s.at, s.len, s.data)
  /\ Answer(0)
  /\ call' = NoCall
  /\ Silent

SysInit ==
  /\ segments = <<[addr |-> ImageAddr, size |-> ImageSize, prot |-> "RWX", ptr |-> ImageAddr],
                  [addr |-> StackAddr, size |-> StackSize, prot |-> "RWX", ptr |-> StackAddr]>>
  /\ brk_base = align_up_page(ImageAddr + ImageSize)
  /\ brk_current = brk_base /\ brk_mapped_end = brk_base
  /\ host = [b \in HostAddr |->
               IF b \in Pages(ImageAddr, ImageSize) \cup Pages(StackAddr, StackSize) THEN "RWX"
               ELSE IF b \in HostOwned THEN "own" ELSE "free"]
  /\ ram = [b \in HostAddr |-> 0]
  /\ result = Returns("map", "ok")
  /\ \E os \in TargetOses :
       ctx = [target_os |-> os, x0 |-> 0, tpidr_el0 |-> 0, exited |-> FALSE, exit_code |-> 0]
  /\ call = NoCall /\ sent = Nothing /\ ret = "ok"

SysNext ==
  \/ \E s \in Stores : Store(s)
  \/ \E c \in Calls : Linux(c, {43, 44}) /\ sys_statfs(c.x)
  \/ \E c \in Calls : Linux(c, {198}) /\ sys_socket
  \/ \E c \in Calls : Linux(c, {199, 200}) /\ sys_getsockname(c.x)
  \/ \E c \in Calls : Linux(c, {203}) /\ sys_listen
  \/ \E c \in Calls : Linux(c, {208}) /\ sys_setsockopt(c.x)
  \/ \E c \in Calls : Linux(c, {209}) /\ sys_getsockopt(c.x)
  \/ \E c \in Calls : Linux(c, {17}) /\ sys_symlink(c.x)
  \/ \E c \in Calls : Linux(c, {78}) /\ sys_kill
  \/ \E c \in Calls : Linux(c, {56}) /\ sys_clone(c.x)
  \/ \E c \in Calls : Linux(c, {98}) /\ sys_futex(c.x)
  \/ \E c \in Calls : Linux(c, {63}) /\ sys_fcntl
  \/ \E c \in Calls : Linux(c, {172} \cup 174 .. 178) /\ sys_ids
  \/ \E c \in Calls : Linux(c, {93, 94}) /\ sys_exit(c.x)
  \/ \E c \in Calls : Linux(c, {64}) /\ sys_write(c.x)
  \/ \E c \in Calls : Linux(c, {62}) /\ sys_close
  \/ \E c \in Calls : Linux(c, {57}) /\ sys_execve(c.x)
  \/ \E c \in Calls : Linux(c, {222}) /\ sys_mmap(c.x)
  \/ \E c \in Calls : Linux(c, {214}) /\ sys_brk(c.x)
  \/ \E c \in Calls : Linux(c, {169}) /\ sys_set_tls(c.x)
  \/ \E c \in Calls : Linux(c, {96}) /\ sys_end_thread(c.x)
  \/ \E c \in Calls : Linux(c, Nat \ LinuxTable) /\ sys_nothing
  \/ \E c \in Calls : Darwin(c, {1}) /\ sys_exit(c.x)
  \/ \E c \in Calls : Darwin(c, {4}) /\ sys_write(c.x)
  \/ \E c \in Calls : Darwin(c, {199}) /\ sys_mmap(c.x)
  \/ \E c \in Calls : Darwin(c, Nat \ {1, 4, 199}) /\ sys_nothing

SysSpec == SysInit /\ [][SysNext]_sysVars

-----------------------------------------------------------------------------
(* Properties. *)

SysTypeOK ==
  /\ TypeOK
  /\ ctx \in [target_os : TargetOses, x0 : Int, tpidr_el0 : Nat,
              exited : BOOLEAN, exit_code : 0 .. 2^WBits - 1]
  /\ ret \in {"ok", "stopped", "err", "fault", "panic"}
  /\ ctx.exited = (ret = "stopped")

Makes(os, nrs) ==
  /\ (ctx.target_os = "Darwin") = (os = "Darwin")
  /\ (IF os = "Darwin" THEN call'.nr % 16777216 ELSE call'.nr) \in nrs

(* The host byte a guest reaches at address a of a buffer that starts at   *)
(* buf, -1 for none: what counts is whether the start is direct.           *)
PlaceIn(buf, a) == IF Direct(buf) THEN (IF a \in HostAddr THEN a ELSE -1) ELSE Translation(a)
BackedIn(buf, a) == PlaceIn(buf, a) # -1 /\ Writable(PlaceIn(buf, a))

Place(a) == PlaceIn(a, a)
Backed(a) == BackedIn(a, a)

(* A mapping is as long as asked and fresh: the range at the address mmap  *)
(* returns is accessible, reads as zeros where nothing was mapped before   *)
(* and keeps its contents where something was - a second mapping without   *)
(* an address is the first one again.  The exception: past DirectBase the  *)
(* guest reaches the mapping only if the kernel placed it there.           *)
MappingHonest ==
  [][Makes("Linux", {222}) \/ Makes("Darwin", {199}) =>
       (ret' = "ok" =>
          \A a \in ctx'.x0 .. ctx'.x0 + call'.x[1] - 1 :
            \/ Direct(a) /\ segments'[Len(segments')].addr # segments'[Len(segments')].ptr
            \/ /\ Backed(a)'
               /\ ram'[Place(a)'] = IF Backed(a) THEN ram[Place(a)] ELSE 0)]_sysVars

(* The break the guest is told is the manager's, every address of the heap *)
(* up to it translates, memory the heap grew by is zero unless a mapping   *)
(* was there, and what was mapped keeps its contents.                      *)
BreakHonest ==
  [][Makes("Linux", {214}) /\ ret' = "ok" =>
       /\ ctx'.x0 \in brk_base .. brk_current'
       /\ call'.x[0] >= brk_base => ctx'.x0 = call'.x[0]
       /\ call'.x[0] < brk_base => ctx'.x0 = brk_current
       /\ \A a \in brk_base .. ctx'.x0 - 1 :
            /\ Translation(a)' # -1
            /\ ram'[Translation(a)'] = IF Translation(a) # -1 THEN ram[Translation(a)] ELSE 0]_sysVars

(* What a write delivers, if it does not kill the emulator: the guest's    *)
(* bytes, in order and all of them, as long as they are text and lie in    *)
(* one mapping each; otherwise the buffer is not readable or the file is   *)
(* no standard output.  The count says nothing about it: it is always the  *)
(* one asked for.                                                          *)
OutputDelivered ==
  [][Makes("Linux", {64}) \/ Makes("Darwin", {4}) =>
       LET fd == call'.x[0]
           buf == call'.x[1]
           count == call'.x[2]
           Sees(a) == ram[PlaceIn(buf, a)]
       IN  /\ ret' = "ok" => ctx'.x0 = count
           /\ IF /\ fd \in {1, 2} /\ ret' # "panic"
                 /\ \A a \in buf .. buf + count - 1 : BackedIn(buf, a)
              THEN /\ sent'.to = "output"
                   /\ (\A a \in buf .. buf + count - 1 : Sees(a) \notin NotUtf8)
                      /\ (Direct(buf) \/ CoveredOnce(buf, count))
                      => sent'.data = [k \in 0 .. count - 1 |-> Sees(buf + k)]
              ELSE sent' = Nothing]_sysVars

(* The buffers a call names, those it stores to and those it reads.  Names *)
(* and options of sockets are as long as the host made them: the guest's   *)
(* length is not among the bounds.                                         *)
Bytes(at, len) == IF at = 0 THEN {} ELSE at .. at + len - 1

When(condition, S) == IF condition THEN S ELSE {}

HostBytes(at) == UNION {Bytes(at, d.len) : d \in HostData}

StoreBuffers(x) ==
  When(Makes("Linux", {43, 44}), Bytes(x[1], StatfsBytes.len))
  \cup When(Makes("Linux", {199, 200}), HostBytes(x[1]) \cup Bytes(x[2], U32Bytes))
  \cup When(Makes("Linux", {209}), HostBytes(x[3]) \cup Bytes(x[4], U32Bytes))
  \cup When(Makes("Linux", {56}), Bytes(x[2], U32Bytes) \cup Bytes(x[4], U32Bytes))
  \cup When(Makes("Linux", {96}), Bytes(x[0], U32Bytes))

StringBytes(at) == Bytes(at, StringLength(at) + 1)

ReadBuffers(x) ==
  When(Makes("Linux", {64}) \/ Makes("Darwin", {4}), x[1] .. x[1] + x[2] - 1)
  \cup When(Makes("Linux", {208}), Bytes(x[3], optlen(x)))
  \cup When(Makes("Linux", {98}), Bytes(x[0], U32Bytes))
  \cup When(Makes("Linux", {17}), StringBytes(x[1]) \cup StringBytes(x[2]))
  \cup When(Makes("Linux", {57}), StringBytes(x[0]))

(* What makes the emulator panic or abort in a call: a length it can have  *)
(* no vector for, an output that does not take what is printed, a break    *)
(* that overflows when it is rounded up; and where the guest has a mapping *)
(* that runs past the last address, any buffer with an unmapped byte.      *)
PanicCause(x) ==
  \/ (Makes("Linux", {64}) \/ Makes("Darwin", {4})) /\ (x[2] > AllocMax \/ x[0] \in {1, 2})
  \/ Makes("Linux", {208}) /\ optlen(x) > AllocMax
  \/ Makes("Linux", {214}) /\ x[0] > AddrTop
  \/ /\ \E i \in DOMAIN segments : PastTop(segments[i])
     /\ \E a \in StoreBuffers(x) \cup ReadBuffers(x) : FirstMatch(a) = 0

(* Why a run ends.  A call whose memory operation fails and is not ignored *)
(* ends it, with the guest's registers and the heap as they were; 96 ends  *)
(* it as an exit does; a buffer with an address of the direct range that   *)
(* is not mapped in the host kills the emulator, and so may a signal; and  *)
(* a panic has one of the causes above and leaves the guest as it was but  *)
(* for what was stored ahead of the unmapped byte.                         *)
EndsJustified ==
  [][/\ ret' = "err" =>
          /\ call' = NoCall \/ Makes("Linux", {17, 43, 44, 57, 214, 222}) \/ Makes("Darwin", {199})
          /\ UNCHANGED <<ctx, segments, heapVars, host>> /\ sent' = Nothing
          /\ ram' # ram => call' = NoCall \/ Makes("Linux", {43, 44})
     /\ ret' = "stopped" =>
          /\ Makes("Linux", {93, 94, 96}) \/ Makes("Darwin", {1})
          /\ ctx'.exit_code = IF Makes("Linux", {96}) THEN 0 ELSE Low(call'.x[0], WBits)
     /\ ret' = "fault" /\ call' # NoCall =>
          \/ Makes("Linux", {78})
          \/ \E a \in StoreBuffers(call'.x) \cup ReadBuffers(call'.x) : Direct(a) /\ ~Backed(a)
     /\ ret' = "panic" =>
          /\ call' # NoCall => PanicCause(call'.x)
          /\ UNCHANGED <<ctx, segments, heapVars, host>> /\ sent' = Nothing]_sysVars

(* A call stores to the buffers its arguments name and nowhere else, in a  *)
(* segment that has the address or, in the direct range, at the address;   *)
(* host memory that was not the guest's may be cleared when it is mapped.  *)
CallsConfined ==
  [][call' # NoCall =>
       \A b \in HostAddr : ram'[b] # ram[b] =>
         \/ host[b] = "free"
         \/ \E a \in StoreBuffers(call'.x) : b \in Holding(a) \/ (Direct(a) /\ b = a)]_sysVars

=============================================================================
