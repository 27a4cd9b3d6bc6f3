# maarch64-core in TLA+

maarch64-core runs AArch64 programs in user mode on a foreign host: it loads an
ELF or Mach-O image into a simulated memory, executes its instructions with an
interpreter or with a JIT built on Cranelift, and answers the system calls. This
directory holds TLA+ models of it, the TLC configurations that check them and
TLAPS proofs about them. Paths below are relative to the crate (`src/...`).

The emulator is sequential: one guest thread, no host thread, no persistent
state. What is hard in it is not interleaving. It is *state that two parts must
agree on* (segments and host mappings; the break and the segments behind it;
compiled blocks and the code they came from; the JIT and the interpreter),
*calls that fail half way* (a store across an unmapped byte, a pair, a write-back
before a fault, a refused expansion of the heap) and *arithmetic at the edges of a
width* (flags, bitfields, division, products, sign extension).

## 1. Inventory

| Component | State | Operations | What makes it correct |
|---|---|---|---|
| Guest memory, `memory/mod.rs` | segment list, three heap bounds; the host's mappings behind them | map, brk, read, write, mprotect, munmap | the heap is backed; host memory is not shared; an address keeps its translation; a read returns what was written; errors have no side effect beyond a stored prefix |
| CPU state, `cpu/mod.rs` | registers, SP, PC, NZCV, TPIDR_EL0, vectors, exit status | accessors | widths; the zero register; which field an instruction writes |
| Decoder, `decoder/mod.rs` | none | bad64 | external |
| Interpreter, `interp/mod.rs` | none of its own: one `step` maps context and memory to the next | `step`; the loops `run`, `run_max_steps`, `step_with_thunk_lookup` | every instruction computes what the manual says; a failed step changes no more than it must; programs terminate with their result |
| JIT, `jit/mod.rs`, `run_with_jit` | cache of blocks by start address | `compile_and_get`, `execute`, `execute_block_chain` (`is_cached`, `get_block`: queries without a caller) | whatever runs natively, the interpreter could have done; blocks end and resume at the right instruction; the loop does not hang |
| System calls, `syscall/` | none of their own | `dispatch`, about 35 Linux calls, a few Darwin ones | effects on memory and registers; error reporting |
| ELF loader, `loader/mod.rs` | none of its own | segments, relocations, RELR, thunks, initial stack | segments and relocations land where the image says; SP is aligned |
| Mach-O loader, `loader/macho.rs` | none of its own | segments, binding to thunks, initial stack | the same |
| Vfs, `vfs/mod.rs` | none | mock `/etc/passwd` | - |

**Interactions.** All of it is direct calls on `&mut CpuContext` and
`&mut MemoryManager`. A loader maps segments, writes them, sets `brk_base` and
hands over an entry point. `step` fetches through `MemoryManager::read`, decodes,
reads and writes memory, and calls the dispatcher on `SVC`, which reads and
writes both. `run_with_jit` calls `execute_block_chain`, which compiles or finds
a block, calls it as host code on the context, or falls back to
`Interpreter::step`. Accesses to guest addresses from `0x5000_0000_0000` on go
straight to the emulator's own address space, so the placement of host mappings
is part of the guest-visible state.

**What is hard to test** is listed with its line under `hazards` in
`PROJECT.json`; each hazard names the properties that cover it or says why none
does.

## 2. Modules

| Module | Models |
|---|---|
| `GuestMemory` | `MemoryManager`, and the host kernel behind `mmap` byte by byte |
| `FlatMemory` | abstract specification: what a guest may expect of memory |
| `GuestMemoryFlat`, `GuestMemoryFlatProofs` | the discipline under which `GuestMemory` implements `FlatMemory`, and the refinement mapping; proof of the refinement |
| `GuestMemoryProofs` | proofs about `GuestMemory`: its invariants, its translation, what its reads and writes do |
| `Syscalls`, `SyscallsProofs` | the tables of Linux and Darwin calls over `GuestMemory`; proofs |
| `LoadPlan`, `ElfLoader`, `MachOLoader` | what each loader asks of the memory, as a plan of calls |
| `Loader`, `LoaderProofs` | `AutoLoader` and the execution of a plan over `GuestMemory`; proofs |
| `Word` | Rust's fixed-width integers |
| `Nzcv` | flags of additions and subtractions, conditions |
| `ArithmeticProofs` | proofs about both: words, powers of two, flags |
| `Cpu` | `CpuContext`, operands, shifted registers, addressing modes |
| `Alu` | the data-processing arms of `step` on general registers |
| `Vectors` | its integer arms on vector registers |
| `Interpreter` | `step`: fetch, memory, branches, system registers and calls |
| `Drivers` | `run`, `run_max_steps`, `step_with_thunk_lookup` |
| `InterpreterProps` | reference definitions and properties of a step |
| `InterpreterProofs`, `InstructionProofs` | proofs: types of every arm; the properties of single instructions |
| `GuestPrograms` | small guest programs and their layout in memory |
| `JitEngine`, `JitProofs` | `JitEngine`, `execute_block_chain`, `run_with_jit`, and the refinement to `Interpreter`; proofs |
| `MC*` | instances for TLC |

`Word <- Cpu <- Alu <- Vectors <- Interpreter <- JitEngine, Drivers` is one chain of
EXTENDS (`Cpu` also extends `Nzcv`). `GuestMemory` and `Word` carry the other two: `Syscalls`, and
`LoadPlan <- ElfLoader, MachOLoader <- Loader`. `JitEngine` instantiates `Interpreter` a second time as
the specification it implements.

### GuestMemory

`segments`, `brk_base`, `brk_current`, `brk_mapped_end` are the fields of the
struct. `host` and `ram` are the emulator's address space: what each host byte is
mapped as (free, the emulator's own, or a protection of a guest mapping) and what
it holds. `result` records the outcome of the last call: "ok", "err", "fault"
when a raw pointer access would have raised a signal, or "panic" when the call
panicked or aborted; after the last two nothing happens any more. Where the code
overflows, a build with overflow checks panics and any other goes on with the wrapped
value; the actions have both. Each action is a whole method:

* `map_anonymous_prot` maps at a place the kernel chooses. `HostPlaces` is the
  kernel: the hint, rounded down to a page, when those pages are free, and
  otherwise any free run of pages; it may also refuse. The new segment goes
  to the *end* of the list and keeps the guest's address even if the kernel
  placed it elsewhere.
* `set_brk` has five outcomes: query, a break inside the mapped part, an
  expansion that pushes a segment, an expansion that fails, a panic. The sum of
  `align_up_page` overflows for arguments in the last page of the address space, above
  `AddrTop`: it panics (`AlignmentPanics`), or wraps to 0, and as the subtraction that
  follows asks `mmap` for more than the address space, the expansion is refused.
* `write` translates byte by byte but stays in a segment until that segment ends
  (`ChunkSegments`); `read` first looks for one segment that holds the whole range
  (`WholeSegment`). Both bypass the list from `DirectBase` on. A read takes a vector
  for its bytes first; one of more than `AllocMax` cannot be had, and the read panics or
  aborts (`ReadOutcome`). The text of an error adds address and size of every segment,
  which overflows where a mapping reaches past the last address (`PastTop`): such an
  error may be a panic (`Ends`).
* `read_string`, a loop of one-byte reads, is the operator of that name; the system
  calls use it.
* `mprotect` and `munmap` have no caller in the crate. They are in `ApiNext` only.
  `munmap` removes the segment before the host call and whatever it returns.

### Syscalls

The variables of `GuestMemory`, the part of `ctx` the handlers touch (X0,
`tpidr_el0`, exit state, the guest's system), the last `call`, what it handed to the
host (`sent`) and `ret`, the result of the step. A guest alternates stores of its
own (`Store`) and calls; one action is one arm of a table with all its memory calls.
A memory error that the arm passes on with `?` ends the run (`ret = "err"`), one it
drops (`let _ =`) does not (`Dropped`), and a fault in the direct range, or a panic,
ends the emulator whatever the arm does with results: of two stores the second is
then not reached (`StoreBoth`). Counts go to the allocator as the guest gives them, so a
`write` of more than a vector can hold panics, as a `setsockopt` does after its length
is cut to 32 bits (`optlen`); so does `print!` when the output of the emulator is
closed. Arms that forward to the host answer any of
`HostRets`; `sent` records the bytes they pass on, since what a `write`, a
`setsockopt` or a `symlinkat` delivers is the point of the call. `kill` may be for the
emulator itself. The Darwin table
masks the number (`% 2^24`) and has `exit`, `write`, `mmap` and "anything else
succeeds". `futex` neither waits nor wakes; `clone` writes thread ids and starts
nothing; 96 ends the process: the model does what the code does.

### LoadPlan, ElfLoader, MachOLoader, Loader

Which memory calls a loader makes, with which arguments and in which order, depends
on the file and the arguments alone; what a call returns can only end the load. So
a load is a *plan*, a sequence of calls (`ElfPlan`, `MachOPlan`), and `Loader`
executes it: `MapCall`, `WriteCall`, `RebaseCall` (a RELR word read and written back)
and `BrkCall` are `GuestMemory`'s actions with the head of the plan as arguments.
`must` says whether the code passes an error on (`?`) or drops it (`let _ =`).
Every sum the loaders make of numbers in the file is unchecked: the bias with segments, entry,
symbols, relocations and RELR words, addends, sizes rounded to pages, the place of the program headers.
One that leaves 64 bits puts an `Overflow` ahead of the call that uses it (`Checked`):
`OverflowCall` panics, or goes on, and the call takes the wrapped sum (`AsWord`).
`PanicCall` is a panic of every build: a file shorter than the header the
loader takes the program headers from (`HeaderEnd`), or more zeros behind a segment's data than a
vector can hold. The initial state is an empty
manager and a host in which some pages may be taken (`load.taken`), so that a hint is
not honoured.

A file is what its bytes mean: readable or not, its size, its magic, the table of a
universal file, and for each slice the image the object library makes of it
(segments, entry, symbols, relocations, the entries of each RELR section, program header fields). A
slice without an image does not parse. `IsImage` is what the object library gives:
addresses and sizes are unsigned, a relocation's symbol is in the table. `FileAssumption`
asks this of every load, and that the arguments leave the initial SP above the
addresses of the host (48 TiB away in the source). `OpenElf` and `OpenMachO` choose the plan as
`AutoLoader` does. `Finish` returns the `LoadedBinary`.

The loaders check no address. `InRange` says of an image that its segments lie
behind page zero and ahead of the host's addresses, with no more data than memory, and that
nothing is relocated at a host address; what `LoadHarmless` promises of errors and
faults is about these. `AddressesFit` says that no sum of the loader leaves 64 bits; it is what panics
and wrapped addresses are excused by.

### Interpreter

The state is `ctx` (the `CpuContext`; a vector register is a function from its
sixteen bytes), `mem` and `ret`, the result of the last `step`: `"ok"` for `Ok(true)`, `"stopped"` for
`Ok(false)`, `"err"`, or `"panic"` where the emulator itself panics: over the division
`MIN / -1` in every build, over the overflows of `OverflowPanic` in one that checks for them. One action is one arm, or one family of arms, of `step`, fetch
included. `DataProcessing` and `VectorProcessing` cover the arms that neither touch
memory nor branch; `Alu` and `Vectors` say what they compute, with the widths and
casts of the source. `LoadRegister`, `LoadPair`, `StoreRegister` and `StorePair` take
registers of both kinds; `LoadVectors`, `StoreVectors` and `LoadStructures` are LD1,
ST1 and LD2 to LD4.

* **Memory** is the flat array of `FlatMemory`, a function from the mapped
  addresses: the interpreter sees memory through `read` and `write` only, and
  `GuestMemoryFlat` shows when the two are the same.
* **Decoding** is the constant `Decode`. Operands keep bad64's kinds (register,
  shifted register, immediate with a shift, label, condition, memory in its
  addressing modes, system register) because the arms branch on them. Words bad64
  does not decode are one of two words: `UNDECODED_SYSTEM` (`0xd50...`, skipped by
  `step`) and `UNDECODED`. `step` recognises `DC ZVA` before it decodes, by a mask
  over the word. The words the mask could match, `SYS #3, C7, CRm, #op2`, are the
  operation `SYS` with the fields `crm` and `op2`; `TakenForZva` is the mask, which
  looks at three bits of CRm and none of op2 and so takes IC IVAU and others too.
* **Widths** keep the source's proportions: `ByteBits` bits to a byte, eight bytes
  to an X register. The source has `ByteBits = 8`; the runs use 2 (16-bit X, 8-bit
  W registers) or 1. Where the code has a constant derived from a width (31, 63,
  0xffff) the model has the width.
* **Overflow.** Signed sums and negations of guest words that leave their range wrap in a release
  build, which is what the arms do, and panic in one with overflow checks, which is
  `OverflowPanic`: the address of an access (`AddressOverflows`), CSNEG and CNEG of the
  least word (`NegationOverflows`), the vector amount -2^31 of USHL and SSHL (`AmountOverflows`),
  and the shift by 64 in SBFIZ of 63 bits (`ShiftOverflows`). Left out is `pc + 4` of an
  instruction in the last four bytes of the address space. The immediates of SHRN
  are those its encodings have.
* **System registers** are told apart by name; of any other the model keeps
  whether its name has CNT in it, which is what the code asks for the counter.
* **Vectors.** The size of a lane, whether an arrangement has 64 bits, and the index of
  a lane are read off the Debug text that bad64 prints for an operand. What that text
  is belongs to bad64; the model takes it to spell the arrangement as the source
  expects. (Where it does not, every lane is a byte and every index 0.)
* `WSP` reads as 0 and drops writes, `BLR` writes the link register before it
  reads its target, `STXR` always stores eight bytes, `MOVZ` shifts twice: the
  model does what the code does.
* **SVC**: `exit`, `exit_group`, call 169 (which this dispatcher treats as "set
  thread pointer") and calls that only return 0. For the other numbers
  (`Handled`) the action is not enabled, and no program of the runs makes such a
  call.

### Drivers

A host chooses one of three loops: `run`; `run_max_steps`, called again after it
returned at its limit (`LimitReached`); or `step_with_thunk_lookup`, which calls a
function of the host where the pc is on a registered address. What these functions do is
a constant (`ThunkCall`). One that leaves the pc where it was returns to X30
(`CallThunk`).

### JitEngine

`cache` maps a start address to a block, the sequence of decoded instructions it
was compiled from. `native` says whether a block runs and at which of its
instructions. `Enter` is `compile_and_get` with the call of the block it returns; one
`RunNative` is the host code of one instruction, and the last one writes the pc
the block returns; `Fallback` is `Interpreter::step`. While a block runs, `ctx.pc`
stays on its start, as in the code, where only the return value moves it; the
refinement mapping gives the interpreter the pc of the current instruction
(`Here`). A block that returns its own start address is followed by one interpreted
step (`MustStep`). An instruction with a JIT arm but operands of another shape
emits nothing (`Emits`), and a block that emits nothing is not kept. A vector
register reads as 0 there and is never written (`load_reg`, `store_reg`), so `MOV`,
`ADD` or `ORR` of vectors are compiled and do nothing.

The chain limit of 1000 blocks in `execute_block_chain` is not in the model:
`run_with_jit` calls again at once, and no state is lost between two calls.

## 3. Runs

| Run | Shows |
|---|---|
| `guest_memory` | Types, `HeapBacked`, `SegmentsIsolated`; `TranslationStable`: no later mapping takes an address away or changes its bytes; `ReadAfterWrite`, outside overlaps; `FailedCallsHarmless` |
| `guest_memory_flat` | `GuestMemory` implements `FlatMemory` under the discipline of `GuestMemoryFlat` |
| `guest_memory_api` | with `mprotect` and `munmap`, isolation is lost only by a munmap longer than its segment |
| `syscalls` | `MappingHonest`: a mapping is as long as asked and zero where nothing was; `BreakHonest`; `OutputDelivered`; `EndsJustified`: which calls may end a run, and by what: a status, an error, a signal, a panic; `CallsConfined`: a call stores to the buffers it names |
| `loader` | `ImageLoaded`: every byte of the image, relocated once, is at its place; `SlotsDistinct`: slots of imports are distinct as the names are, and side by side; `SlotsResolve`: so are the pointers to them; `EntryLoaded`; `StackWellFormed`: a C runtime finds argc, argv, envp, auxv; `HeapAboveImage`; `LoadHarmless`: how a load may fail or panic |
| `instructions` | `ComparisonsDecide` (flags against comparisons of integers), `BitsPlaced` (each bit of a result where the manual puts it), `DivisionExact` (quotients, and over which operands data processing panics), `ProductsExact` (high and long products against products of integers); `FaultsPrecise`, `StoresConfined`, `LoadsExtend` for every width and addressing mode; `BranchesLand`: the next instruction and the link; `LanesExact`: the lanes, bits and bytes of a vector result, where the arm is written for the arrangement (`AsManual`); `VectorsLoaded`; types |
| `programs` | eleven programs under each of the three loops exit with the result of their algorithm, or fail where a function of the host does: `ProgramsCorrect`, `Terminates` |
| `jit_programs` | under `run_with_jit`, six programs behave as under the interpreter (`ImplementsInterpreter`) and exit (`Terminates`); while host code runs it is that of the instruction in memory (`HostCodeCurrent`) |
| `jit_ops` | `NativeAgrees`: every compiled instruction agrees with the interpreter but for the named exceptions |
| `jit_msr`, `macho_stack`, `zva_mask` | disagreements with what the code's comments state (section 6) |

The reference definitions in `InterpreterProps` do not reuse the word arithmetic of
`Alu`: they are written bit by bit, or over the integers. `ProgramsCorrect` compares
exit codes with the mathematical function (sum, gcd, number of bits).

### Bounds

* **Memory runs**: pages of 2 bytes, a host of 12 (or 8) bytes of which some belong
  to the emulator - one page in the middle, so that a hint may be honoured or not
  and a mapping of two pages may fail - two or three segments (`MaxSegments`).
  Addresses 0 to 5 are translated, 6 to 11 direct. That holds every case the code
  distinguishes: overlaps, a range across two segments, a range that runs into a
  hole, an allocation that ends inside a page, the break on and off page
  boundaries, a heap that meets a mapping or reaches the direct range, a `brk`
  argument past `AddrTop` (31), a mapping that reaches past the last address, a read
  longer than `AllocMax`, and a store that begins in a segment and runs on into the
  direct range. The invariants are proved without these bounds.
* **System calls**: pages of 4 bytes, a host of 24 bytes, an image and a
  stack as the loader leaves them, calls of every arm with arguments at, across and
  beyond the edges of what is mapped, null pointers, pointers into the direct
  range and a buffer that begins below it and ends in it, a mapping that ends
  past the last address, a break in the last page, counts and option lengths above `AllocMax` = 64 and an
  option length above 32 bits (8 in the model). `MaxSegments` bounds the mappings of a behaviour: enough for two without an
  address, an overlap and two expansions of the heap.
* **Loads**: pages of 16 bytes and pointers of two, so a bitmap of RELR has 15 words.
  The regions keep the order of the source: image, thunks at 128 to 159 (data
  symbols in the upper half), thread-local storage at 160, direct range from 256,
  stack below 512; `AddrTop` is 65520, the last page of two bytes' addresses. Twenty-five loads: a position-independent executable whose segments
  share a page, with imports of functions and data, defined symbols, RELR; an
  executable linked for an address with its segments out of order; a library without
  entry and with negative addends, with and without overflow; more imports than slots ahead of the data symbols, and in all;
  damaged and foreign files, one of them shorter than an ELF header; Mach-O images, one with its entry
  past the last address; universal files, one of them cut off; images that are not
  `InRange`, one with a segment in page zero, one relocated at a host address; images that do not fit
  the addresses: everything wraps, a segment ends at the top, one is too large to round up, one
  has more zeros than a vector can hold. The host has
  pages in the way of the image or of the stack in some, and the kernel may refuse
  any mapping in all.
* **Instruction runs**: two-bit bytes and operands at 0, at the top and at the
  sign of each width, one below and one above, with two mixed patterns, all pairs;
  factors are those whose product fits TLC's integers. Flags, casts and shifts change behaviour only at these points. Each form
  is one image; the run ends at the fetch of the unmapped word behind it. For loads
  and stores the base registers go from below the first of two mapped ranges to
  beyond the second, across the gap of three bytes between them, and to 0 and the
  last address. The ranges have 18 and 35 bytes, so that a load of two vector registers
  fits one of them, ends in the gap or begins in it. Vector operands are all pairs of six
  patterns: mixed lanes, lanes that are small amounts to shift by, extremes.
* **Programs**: arguments 0 to 3, a stack of 64 bytes, a limit of 7 for
  `run_max_steps`, which every program but the shortest reaches, in loops and inside
  calls. Under the JIT at most `MaxInsts` = 3 instructions to a block (100 in the source), so that blocks end for each of their
  reasons: the limit, a branch, an instruction that is not compiled, a word that
  does not decode, unmapped memory.

### Fairness and deadlock

`run` is `while Interpreter::step(ctx, mem)? {}` and `run_with_jit` a loop over
`execute_block_chain`: whenever a step is possible, the loop takes it. The loops
around `run_max_steps` and `step_with_thunk_lookup` are the host's; they are assumed to
go on until a call fails or the guest has exited. That is weak fairness of `Drive` and of
`execute`, the only fairness assumed; `Terminates` needs it and nothing else does. The memory manager has no scheduling of its own and no
liveness. Deadlock checking is off in all runs because behaviours end: at the
guest's exit, at a failed step, or at a fault that kills the emulator.

## 4. Proofs

All theorems hold for every value of the constants that the named assumptions allow:
every page size, host, layout, segment bound, set of arguments, of calls, of loads.
Every property of the runs `guest_memory`, `guest_memory_flat`, `guest_memory_api` and
`syscalls` is proved, of `instructions` all but two, of `loader` the three that are not about
what memory holds in the end or the entry, and what the JIT runs say of a step.

### Guest memory

`GuestMemoryProofs` is about `Spec` (all calls the crate makes):

* `TypeCorrect`: `Spec => []TypeOK`. Inductive as it stands; the cases of
  interest are `write`, whose CHOOSE of the last byte stored needs a largest
  element of a finite set (`Largest`, from well-foundedness of `<`), and
  `WriteReach`: a write stores no byte it has no data for.
* `HeapAlwaysBacked`: `Spec => []HeapBacked`, inductive with `TypeOK`.
  `PushAppends` says what a push leaves of the list; the interesting step is the
  expansion, where the new segment starts at the old mapped end and `PageBounds`
  places the new end above the new break.
* `SegmentsAlwaysIsolated`: `Spec => []SegmentsIsolated`, inductive with `TypeOK`.
  `PushIsolated` rests on the kernel giving out free bytes only (`FreeRun`), i.e.
  on the absence of MAP_FIXED, and not on where it places them.
* `TranslationNeverMoves`: `Spec => TranslationStable`. An address is decided by the
  first segment that contains it (`FirstExists`, `FirstUnique`); `PushTranslates` shows
  that a push, being behind the others, leaves that segment first, and, being on free
  host pages while the byte lies in the extent of an isolated segment (`Translated`),
  leaves its content. So the property needs `SegmentsIsolated`, and only writes change
  what an address holds.
* `OnlyOverlongUnmaps`: `ApiSpec => IsolationKept`, with `mprotect` and `munmap` among
  the calls: what ends isolation is a `munmap` longer than the segment it removes.

Its second half is about what a reader sees:

* `ReadsFollowWrites`: `Spec => ReadAfterWrite`. A write translates byte by byte but keeps
  to a segment until it ends, a read asks for one segment for the whole range, so the
  two agree only away from overlaps. The proof brings both to the byte: `Holding(a)`, the
  host byte behind the address, is where the write put it and where the read looks.
* `ErrorsAreHarmless`: `Spec => FailedCallsHarmless`. A failed write stores a prefix
  of its data and nothing else; every other failed call leaves everything as it was.

`GuestMemoryFlatProofs`:

* `ManagerIsFlatMemory`: under the discipline of `GuestMemoryFlat` the manager implements
  `FlatMemory`, step by step. The mapping takes each mapped address to the byte
  behind it; the invariant `FlatInv` adds to the three of `GuestMemory` that segments
  do not overlap for the guest either, which is what the discipline buys.
  `FlatAssumption` states of the constants what the mapping needs: no argument leaves
  the flat array, which ends below the last page, and no access is longer than a vector can be.

### System calls and loads

`GuestMemoryProofs` has one lemma per operation (`MapKeeps`, `BrkKeeps`, `WriteKeeps`,
...) for *any* argument, with the conclusion `Kept`: the three invariants hold again. A
handler of a system call, or a call of a load, is such an operation or a combination
of them (`StoreBothKeeps`). `SyscallsProofs`, about `SysSpec`:

* `SystemCallsKeepMemory`: the three invariants of the memory. `InitKept` shows that the
  state a loader leaves satisfies them.
* `SystemCallsTyped`: `[]SysTypeOK`: the types of the manager, and of the context that X0 is an
  integer (which stands for the word of its low bits), the thread pointer a natural number, the
  exit status a 32-bit value, and `exited` set exactly when the run was stopped.
* `MmapIsHonest`: `MappingHonest`. Each address of the range asked for is accessible, and
  holds zero if it was not mapped before and what it held if it was; except for an
  address of the direct range whose mapping the kernel placed elsewhere. It needs the isolation
  of the segments, and the heap's (`HeapBacked`), since a hint may name the heap.
* `BrkIsHonest`: `BreakHonest`. What `brk` answers is the break, and it is backed. It needs
  `brk_base # 0`, which only the loader's `init_brk` establishes.
* `RunsEndForAReason`: `EndsJustified`, arm by arm. A signal is over an unmapped direct
  address of a buffer, or from `kill`. The causes of a panic are those of `PanicCause`, which says for
  each call which argument overflows or asks for too much; what an error of the memory would have left
  alone, its panic does too.
* `CallsStayInTheirBuffers`: `CallsConfined`, which is about memory, not registers. What a call
  stores lies in the host bytes behind the buffers it names (`StoreReaches`, `BothReach` for
  the calls that fill two).
* `TextIsDelivered`: `OutputDelivered`. The bytes handed to the host are those the guest
  has in its buffer.

Their invariant, `SysInv`, is `TypeOK`, `SysTypeOK`, `HeapBacked`, `SegmentsIsolated`,
`brk_base # 0` and `Unprotected`: without `mprotect` every mapped guest byte can be read
and written, so an access to a segment never faults. `WordAssumption` gives the width of
a word, and `MmapDefault`, the address `mmap` takes where the guest named none, is
a positive number.

`LoaderProofs`, about `LoaderSpec`:

* `LoadsKeepMemory`: `[](TypeOK /\ HeapBacked /\ SegmentsIsolated /\ OwnKept)`: `OwnKept` says
  that what the emulator had mapped stays its own.
* `HeapAlwaysAboveImage`: `HeapAboveImage`. When a load is done of an image whose segments end below
  the last page of addresses, the break is on the first page boundary that no segment
  reaches past, in whatever order the segments came.
* `SlotsAlwaysDistinct`: `SlotsDistinct`, of both formats. The slot of a name counts the names met
  before it (`Before`); of two names, what comes before the earlier is a proper subset of what
  comes before the later (`SlotsDiffer`), and no name comes before itself, so the count stays
  below the number of names (`SlotWithin`).
* `LoadsAreHarmless`: `LoadHarmless`. Which calls may end a load, that the
  emulator's own memory is left alone, and the causes of a panic.

They hold for every file `FileAssumption` admits, whatever the kernel refuses. The proof
has two halves. The first is about the plan, which the file decides:

* A plan is put together from `Good` pieces. A call of such a piece (`Steady`) is a mapping, which
  may end the load only if it is for a segment or the stack, a write, a rebase, an overflow
  (only of a file that is not `Fitting`: some sum leaves 64 bits), a panic (only of one that is
  `Unfit`: too short for its header, or with too many zeros) or an error of the library. And the piece is `Fronted`
  if the image is in range: before each write that must succeed, below the addresses of the
  host, comes the mapping that must succeed and holds its range. For writes to segments
  this is the rounding of their pages (`align_down_page`, `align_up_page` of size plus offset).
* `GoodJoins` and `GoodFlat`: pieces joined, or flattened from a sequence of
  them, are good. The second is about `FlattenSeq` of any length (`Flattened`): a
  recursion through 0 to n has a solution (`Iterates`), by well-founded induction that
  takes the least length without one instead of a predicate. For this the model writes segments,
  relocations, RELR sections and imports with `FlattenSeq` and recursive functions.
* `PlanIs`: a plan is a good piece, the call that places the heap at `max_vaddr`, and
  a good piece. So the heap is placed once, and no call of the image comes unbacked.

The second half is about carrying it out. `LoaderInv` is the memory's invariants with
`Unprotected`, `OwnKept` and `SegmentsLow` (of a file that is `Fitting` no segment reaches the top of the
addresses, so no error text panics); `todo`, which holds calls of this load's plan; and three links of plan and state:
`Opened` (what was parsed, and will be returned, is what the plan is of), `HeapPlanned` (the heap is still to
be placed, once, or is where the image ends, and no call left moves it) and `Backed` (each write that
must succeed finds its mapping among the segments or earlier in `todo`; the stack's
mapping is a whole one). `Backed` is what makes `LoadHarmless` follow: a write below the host's addresses that
must succeed lies in a segment, so it does not fail (`Unprotected`), and a store to the
emulator's own memory, like a fault, needs an address the host has (`OwnWritten`, from
`SegmentsIsolated`), which only the writes to the stack have.

### Words and flags

`ArithmeticProofs` holds what `Word` and `Nzcv` compute. The prover has no exponentiation:
`PowerIsCardinality` makes 2^n the number of subsets of n elements, for which the
library has theorems. Sums over the bits of a word are folds; `HornerValue` turns them into
a function with a recurrence, and inductions over that are on sets of numbers (the least
element, or `Downward` from the top), since the induction theorems of the library take an
operator.

* `SubtractionCompares`: after a subtraction's flags all ten relational conditions
  decide the unsigned and signed comparisons they are named for, at every width.
* `AdditionSums`: after an addition's flags C and V say whether the unsigned and
  the signed sum fit, Z whether the result is zero, LT the sign of the true sum.

### Interpreter

A byte has 1, 2, 4 or 8 bits (`ByteBitsAssumption`; 8 is the machine's), so a word has up to 64;
`Regs` and `VRegs` are any sets of registers with X30. What `step` takes for granted of
bad64 when it indexes and unwraps operands is `DecodeAssumption`: how many operands an
instruction has and of which kind, that the data register of a load or store is never
the stack pointer, that the destination of a long product is a 64-bit register. Encodings
that say otherwise do not exist. `ImagesAssumption` says that memory lies in the address space and
holds bytes, and that runs begin with a context. TLC evaluates both over the instances.

* `InterpreterTyped`: `Spec => []TypeOK`. Inductive as it stands: registers, flags, vectors
  and bytes stay in their widths. Its lemmas, one per arm, say that each result of `Alu` and
  of `Vectors` fits the register it goes to, and that no load or table look-up
  leaves the domain of a function.

`InstructionProofs` takes the properties of `instructions` one by one. `DataArm`, `BranchLands` and
`MemoryArm` first say which disjunct of `step` an operation takes.

* `ComparisonsAlwaysDecide`: `ComparisonsDecide`, from the theorems on flags and from what the operands of the
  comparisons are.
* `BranchesAlwaysLand`: `BranchesLand`, also for a label that wraps at either end of the
  address space.
* `ProductsAlwaysExact`, `DivisionsAlwaysExact`: the high half of a product is computed on
  residues and the quotient on magnitudes; both are brought back to the integers. The second
  also says which operands data processing panics on: MIN / -1, SBFIZ of 63 negative bits,
  and the least word where CSNEG or CNEG negates it.
* `StoresAlwaysConfined`: `StoresConfined`. Each of the seven stores is brought to one
  statement (`IsStore`: these bytes, at this address), and one lemma says what a store
  does to memory (`StoreEffect`). It needs that mapped addresses are words, `MemoryPlaced`; they stay
  (`MemoryStays`), as no instruction maps anything. Besides stores memory is changed by the
  SYS words `TakenForZva`, and those change the block of their address only.
* `FaultsAlwaysPrecise`: `FaultsPrecise`. `Faults` lists the ways a step can fail;
  `AddressMovesBase` says that the addressing mode changes only the base, `ListFault` that
  what LD1 has read by then are the registers before the one that failed.
* `LoadsAlwaysExtend`: `LoadsExtend`. Sign extension to 64 bits, cut to the register.
* `VectorsAlwaysLoaded`: `VectorsLoaded`; `LastListed` is the register named twice.

### JIT

`JitProofs` is about `JitSpec`, for every program, every context and every `MaxInsts`.
`JitEngine` takes `Interpreter` in twice: by EXTENDS, for the steps it falls back to, and as
the instance `Interp` with `pc <- Here`, the specification it implements. To the provers
the instance is a copy of every operator, so the lemmas `Same*` say that what does
not look at the context is the same in both, and `Mirror*` that what does look at
it is when `ctx.pc = Here`.

* `JitTyped`: `JitSpec => []JitTypeOK`. Not inductive as it stands: that the pc stays on
  the block's start needs host code to be defined, so operands that resolve, and that the next
  position is one of the block needs blocks to be sequences. `JitInvariant` proves the strengthening `JitInv`: the machine
  is typed; a cached block is not empty, has at most `MaxInsts` instructions, all of
  mnemonics the JIT compiles and with operands that resolve, a branch or `RET` only
  as its last (`IsBlock`, `CompiledBlock`); and the guest is running while a block runs.
* `NativeCodeAgrees`: `NativeAgrees`. One lemma for each instruction the host code has a form
  for: what it stores is what the arm of `step` stores, although the two compute
  it apart (masks of 64-bit results against arithmetic of the register's width). The
  arithmetic is in `Low*` and `Native*`: a sum or a product cut twice, shifts of values that fit.
* `JitRefines`: `JitSpec /\ []HostCodeCurrent => ImplementsInterpreter`. Under the mapping
  that puts the guest's pc at the instruction inside the block, `Enter` stutters, `RunNative` and
  `Fallback` are one step of the interpreter. The hypothesis cannot be dropped: nothing
  removes a block when the guest overwrites its code (`jit/mod.rs:229`), and the host code
  differs from the interpreter in the cases `Agreed` lists. It is not an assumption
  on a constant but on the behaviour, and `jit_programs` checks that it holds of its programs.

### What failed proofs showed

Properties that held in every run and were false, until a proof failed. Two said where a call stores by
translating the addresses one by one; but `write` stays in the segment it began in until
that segment ends, past an address another segment comes first for
(`FailedCallsHarmless`) and past `DirectBase`, above which single addresses are not
translated at all (`CallsConfined`). Both allow now every segment that holds the
address (`Holding`), and the runs have the cases: an access `<<3, 4>>`, a `statfs` buffer across
`DirectBase`.

In the interpreter:

* `ComparisonsDecide` took the width of CCMP from its second operand, which may be an
  immediate; it is the first's.
* `DivisionExact` and `ProductsExact` read the result from the destination, which may be
  the zero register.
* The footprint of STXR was that of its data register; the arm stores eight bytes for a W register too.
* `VectorsLoaded` forgot addresses that wrap and registers named twice, and held
  for LD1R and LD2 to LD4 only in the arrangements the runs have: LD1R of a 64-bit
  arrangement fills the upper half too, and LD2 to LD4 always read words into whole
  registers. `LoadsVectors` now says for which arrangements the property speaks.

The instance has a CCMP with an immediate and a STXR of a W register since.

In the loader, `LoadHarmless` promised too much: an image with a segment in page zero, with
relocations at host addresses or with more data than memory for a segment is written
over whatever is there, or ends in a fault. `InRange` names these, and the run has two. And it excused
too much: while the stack was not mapped yet, any call was excused by its absence. Now only a
write above SP is. `SlotsResolve` said that every slot lies in the region of the thunks, which
the instance was too small to refute: nothing stops the loaders at the end of the region.
`SlotsDistinct` says where slots are for any number of imports, and the run has an image
with more than fit.

In the JIT, `NativeAgrees` excluded the disagreements the forms of the run `jit_ops` show. The proof
found more, which `Agreed` names now: operands the host code has no form for, of which it
drops the instruction (`Emits`), an ADRP of a label inside a page (the interpreter
clears the low bits, the host code does not), LSL with the four operands of a bit field,
a 32-bit LSL by 32 or more, LSR or ASR of a value whose upper half is not what a W
register has, and operands of `MRS` and `MSR` that are not system registers.

### Only model-checked

* `Terminates`: liveness is out of the prover's reach. `ProgramsCorrect` is about the
  programs of `GuestPrograms`, which are values and no parameters.
* The loader's `ImageLoaded`, `SlotsResolve`, `EntryLoaded`, `StackWellFormed`: what
  memory holds after the whole plan, each byte written by the last of several calls that
  overlap. The proofs know of a plan which calls it may have and that their mappings come
  first, not what the calls leave together.
* `BitsPlaced` and `LanesExact`: a statement about each bit, or each lane, of many
  forms, through sums over the bits of a word.
* `HostCodeCurrent`: it depends on the program, as a guest may overwrite its code.

## 5. Not modelled

* Floating point: FCMP, FADD to FCVT in the interpreter (`interp/mod.rs:2168` to 2335)
  and the same in the JIT, with the accessors of `CpuContext` for it. TLA+ has no
  floating-point numbers.
* Vfs and `translate_open_flags`: pure helpers without a caller.
* What an image is before the object library has parsed it, and the numbers inside
  the strings of the environment.
* `mmap_current` (never read), the counters of the JIT cache, failures inside
  Cranelift.
* What bad64 makes of an instruction word.

## 6. Findings

* `jit_msr`: the JIT compiles every `MSR` to a store to `tpidr_el0`, whatever
  register is named; the field is documented as TPIDR_EL0 (`cpu/mod.rs:17`), and the
  interpreter looks at the name. A guest that writes FPCR loses its thread pointer. The
  same holds of `MRS`, which loads `tpidr_el0` where the interpreter answers
  `DCZID_EL0` with 0x10 so that the guest never uses DC ZVA (`interp/mod.rs:1254`); `Agreed` leaves it out.
* `zva_mask`: "Handle DC ZVA (0xd50b7400 | Rt)" (`interp/mod.rs:375`), but the mask of the test
  leaves out a bit of CRm and all of op2 and takes IC IVAU (0xd50b7520 | Rt) too: a
  guest that invalidates the instruction cache for code it has just written has 64 bytes of it cleared.
* `macho_stack`: the Mach-O loader aligns SP ("Align SP to 16-byte boundary",
  `loader/macho.rs:137`) and then pushes argc + 9 words, an odd number when argc is
  even. The ELF loader counts the words first and pads.

Exceptions a property names because the code does otherwise, without a text of the
repository that promises more: past the slots of the thunk region imports run into
the data symbols, and relocations may overlap (`SlotsResolve`); the words of `optind` and
`opterr` are stored over an image that reaches the thunks (`ImageLoaded`); behind a page zero the entry of a Mach-O file is
taken from address 0 (`EntryLoaded`); `AT_PHDR` holds for images linked for 0 or
0x400000 (`StackWellFormed`); a stack the kernel places elsewhere, or arguments that
do not fit it, and images not in range, end in a fault or in stores to other memory, and files whose numbers leave 64 bits in a panic or at
wrapped addresses (`LoadHarmless`); socket
names are stored whatever length the guest gave (`CallsConfined`).

`NativeAgrees` names the other disagreements of JIT and interpreter it excludes
(`Agreed`, `Fresh`): vector registers are zero and lost, the shift of an operand is dropped, `ORR` moves its first source,
`ADRP` keeps the low bits of its label, `LSL` takes the rotation of a bit field for its amount,
32-bit shifts work on 64 bits, WSP is SP, and code overwritten after it was compiled
keeps running. No comment or document promises otherwise for these, so they are
exceptions of the property rather than findings.

`LanesExact` leaves out (`AsManual`) what the vector arms do otherwise than the manual:
64-bit arrangements write the upper half too; `MOV` between vectors repeats the low
byte of its source in every lane of a byte arrangement; `ADDP` is right for
doublewords only, `USHR`, `SSHR`, `ZIP1` and `ZIP2` for words, `XTN` and `SXTL` between
halfwords and words; `SSHL` shifts right logically; `UMOV`, `SMOV`, `ADDV` and the
second forms of the narrowing and widening arms. `BitsPlaced` leaves out BFM, BFI and
BFXIL, whose arm replaces the low imms + 1 bits by a rotated source whether or not
immr is 0, and takes the position and width of an alias for immr and imms; and, by name (`ReadOtherwise`), SBFIZ and
UBFIZ of a field that reaches the top bit, for which the arm makes the same mistake, and MOVZ and MOVN of a shifted
immediate, which they shift again. `VectorsLoaded` leaves out
(`LoadsVectors`) LD1R of 64-bit arrangements, which fills whole registers, and `LD2` to `LD4` of others than
four words, which they read as four words; it states that `LD2` to
`LD4` of memory that is not all mapped neither load nor fail, and `BranchesLand` that
`BLR X30` goes to its own return address and `RET` to X30 whatever it names.

## 7. Plan

Done, in this order: guest memory with its abstract specification and proofs;
flags with proofs; the integer interpreter; the JIT as an implementation of the
interpreter; system calls and loaders over guest memory, with proofs; branches, vector
instructions and the loops that drive the interpreter. Left:

1. **Interpreter**: the control of the floating-point arms (which register and which
   width an arm writes), with uninterpreted arithmetic.
2. **Composition**: the interpreter over `Syscalls` instead of flat memory, so that a
   program's own mappings and its heap are what its loads and stores see.
3. **Proofs**: what a plan leaves in memory (`EntryLoaded`, `SlotsResolve`, then
   `ImageLoaded`); `BitsPlaced`, form by form, from the bits of shifts and masks.
