------------------------------- MODULE Loader -------------------------------
(***************************************************************************)
(* AutoLoader (src/src/loader/mod.rs) carrying out the load of one file,   *)
(* call by call, over GuestMemory.                                         *)
(*                                                                         *)
(* A file is what its bytes mean to the loaders: its size, its magic, the  *)
(* table of a universal file, and the images the object library finds in   *)
(* slices of it (no image: it returns an error).  A load is a file, its    *)
(* path, the arguments, and the host memory that is taken beforehand.      *)
(***************************************************************************)
EXTENDS ElfLoader, MachOLoader

CONSTANT Loads

ASSUME LoadAssumption == \A l \in Loads : l.taken \subseteq HostAddr

VARIABLES
  load,           \* the load, an element of Loads
  image,          \* the image that was parsed
  todo,           \* the calls still to make
  bin,            \* the LoadedBinary to return
  status          \* "opening", "loading", then "loaded", "err", "fault" or "panic"

loadVars == <<vars, load, image, todo, bin, status>>

-----------------------------------------------------------------------------
(* The choice of the loader. *)

MachOMagic == {"cffaedfe", "feedfacf", "cafebabe"}

Slice(file) == IF file.magic \in MachOMagic THEN extract_arm64_slice(file) ELSE <<0, file.size>>

Parses(file) == file.readable /\ file.size >= 4 /\ Slice(file) \in DOMAIN file.images

ImageOf(l) == l.file.images[Slice(l.file)]

Plan(l) ==
  IF l.file.magic \in MachOMagic THEN MachOPlan(ImageOf(l), l.path, l.args)
  ELSE ElfPlan(ImageOf(l), l.file.size, l.args)

StackPointer(l) ==
  IF l.file.magic \in MachOMagic THEN MachOStack(l.path, l.args).sp
  ELSE ElfStack(ImageOf(l), l.file.size, l.args).sp

(* What the object library gives for a file.                               *)
FileSegment == [addr : Nat, size : Nat, data : Seq(Byte), readable : BOOLEAN]
Symbol == [name : Nat \X STRING, addr : Nat, undefined : BOOLEAN]
Relocation == [addr : Nat, sym : Nat, addend : Int]

IsImage(img) ==
  /\ img.segs \in Seq(FileSegment) /\ img.entry \in Nat
  /\ img.symbols \in Seq(Symbol) /\ img.dynsyms \in Seq(Symbol)
  /\ img.relocs \in Seq(Relocation) /\ img.relr \in Seq(Seq(Nat))
  /\ \A i \in DOMAIN img.relocs : img.relocs[i].sym <= Len(img.dynsyms)
  /\ {img.phoff, img.phentsize, img.phnum} \subseteq Nat

(* No arguments are so long that the stack reaches below the addresses of  *)
(* the host (48 TiB in the source).                                        *)
ASSUME FileAssumption ==
  \A l \in Loads : Parses(l.file) =>
    /\ IsImage(ImageOf(l)) /\ l.args \in Seq(Seq(Byte)) /\ l.path \in Seq(Byte)
    /\ StackPointer(l) \in Nat /\ StackPointer(l) >= DirectBase
ASSUME ByteValues == 0 .. 2^ByteBits - 1 \subseteq Byte

OpenFails ==
  /\ status = "opening" /\ ~Parses(load.file)
  /\ status' = "err"
  /\ UNCHANGED <<vars, load, image, todo, bin>>

OpenElf ==
  /\ status = "opening" /\ Parses(load.file) /\ load.file.magic \notin MachOMagic
  /\ image' = ImageOf(load)
  /\ todo' = Plan(load)
  /\ bin' = ElfBinary(image', load.file.size, load.args)
  /\ status' = "loading"
  /\ UNCHANGED <<vars, load>>

OpenMachO ==
  /\ status = "opening" /\ Parses(load.file) /\ load.file.magic \in MachOMagic
  /\ image' = ImageOf(load)
  /\ todo' = Plan(load)
  /\ bin' = MachOBinary(image', load.path, load.args)
  /\ status' = "loading"
  /\ UNCHANGED <<vars, load>>

-----------------------------------------------------------------------------
(* The calls. *)

Turn(op) == status = "loading" /\ todo # <<>> /\ Head(todo).op = op

(* What the call returned decides whether the load goes on. *)
Proceed(must) ==
  /\ todo' = Tail(todo)
  /\ status' = IF result'.out \in {"fault", "panic"} THEN result'.out
               ELSE IF must /\ result'.out = "err" THEN "err" ELSE "loading"
  /\ UNCHANGED <<load, image, bin>>

MapCall ==
  /\ Turn("map")
  /\ map_anonymous(Head(todo).addr, Head(todo).size)
  /\ Proceed(Head(todo).must)

WriteCall ==
  /\ Turn("write")
  /\ write(Head(todo).addr, Head(todo).len, Head(todo).data)
  /\ Proceed(Head(todo).must)

(* The word, an unsigned one, is moved by the bias.  A word that cannot be *)
(* read is left alone.                                                     *)
RebaseCall ==
  LET addr == Head(todo).addr
  IN  /\ Turn("rebase")
      /\ IF ReadOutcome(addr, PtrBytes) = "ok"
         THEN \E curr_val \in {FromBytes(BytesAt(addr, PtrBytes))} \cap Nat :
                write(addr, PtrBytes, ToBytes(curr_val + Head(todo).bias, PtrBytes))
         ELSE read(addr, PtrBytes)
      /\ Proceed(FALSE)

BrkCall == Turn("brk") /\ set_brk_base(Head(todo).addr) /\ Proceed(FALSE)

(* A build with overflow checks panics, one without wraps. *)
OverflowCall ==
  /\ Turn("overflow")
  /\ todo' = Tail(todo)
  /\ status' \in {"loading", "panic"}
  /\ UNCHANGED <<vars, load, image, bin>>

PanicCall ==
  /\ Turn("panic")
  /\ status' = "panic" /\ todo' = Tail(todo)
  /\ UNCHANGED <<vars, load, image, bin>>

FailCall ==
  /\ Turn("fail")
  /\ status' = "err" /\ todo' = Tail(todo)
  /\ UNCHANGED <<vars, load, image, bin>>

Finish ==
  /\ status = "loading" /\ todo = <<>>
  /\ status' = "loaded"
  /\ UNCHANGED <<vars, load, image, todo, bin>>

LoaderInit ==
  /\ load \in Loads
  /\ segments = <<>>
  /\ brk_base = 0 /\ brk_current = 0 /\ brk_mapped_end = 0
  /\ host = [b \in HostAddr |-> IF b \in HostOwned \cup load.taken THEN "own" ELSE "free"]
  /\ ram = [b \in HostAddr |-> 0]
  /\ result = Returns("map", "ok")
  /\ image = [arch |-> "none"] /\ todo = <<>> /\ bin = [target_os |-> "none"] /\ status = "opening"

LoaderNext ==
  \/ OpenFails \/ OpenElf \/ OpenMachO
  \/ MapCall \/ WriteCall \/ RebaseCall \/ BrkCall
  \/ OverflowCall \/ PanicCall \/ FailCall
  \/ Finish

LoaderSpec == LoaderInit /\ [][LoaderNext]_loadVars

-----------------------------------------------------------------------------
(* Properties. *)

Loaded == status = "loaded"
IsElf == bin.target_os = "Linux"
Bias == IF IsElf THEN load_bias(image) ELSE macho_bias(image)

Word(addr) == FromBytes(BytesAt(addr, PtrBytes))
String(addr) == LET s == read_string(addr) IN [k \in 1 .. Cardinality(DOMAIN s.bytes) |-> s.bytes[k - 1]]

(* No address that is computed for the image img leaves 64 bits, also when *)
(* it is rounded up to a page.                                             *)
SegmentsFit(img, bias) ==
  \A i \in DOMAIN img.segs : img.segs[i].addr + bias + img.segs[i].size <= AddrTop

RelocFits(img, r) ==
  /\ r.addr + load_bias(img) < WordTop
  /\ Defined(img, r) /\ ~Imported(img, r) =>
       img.dynsyms[r.sym].addr + load_bias(img) + AsWord(r.addend) < WordTop

ElfFits(img) ==
  /\ SegmentsFit(img, load_bias(img))
  /\ \A v \in {img.entry} \cup {s.addr : s \in ToSet(img.symbols \o img.dynsyms)} :
       v + load_bias(img) < WordTop
  /\ \A i \in DOMAIN img.relocs : RelocFits(img, img.relocs[i])
  /\ \A s \in DOMAIN img.relr : \A i \in DOMAIN img.relr[s] :
       RelrBases(img.relr[s])[i] + load_bias(img) < WordTop
  /\ ElfBias + img.phoff < WordTop

MachOFits(img) ==
  SegmentsFit(img, macho_bias(img)) /\ RawEntry(img) + macho_bias(img) < WordTop

AddressesFit == IF IsElf THEN ElfFits(image) ELSE MachOFits(image)

(* What the file says of the word at a virtual address: a RELR entry       *)
(* covers it, or a relocation is for it.                                   *)
RelrCovers(v) ==
  \E s \in DOMAIN image.relr : \E i \in DOMAIN image.relr[s] :
    LET relr == image.relr[s]
        from == Max({0} \cup {j \in 1 .. i : relr[j] % 2 = 0})
        base == IF from = 0 THEN 0 ELSE relr[from] + PtrBytes
        first == base + PtrBytes * BitmapWords * (i - from - 1)
    IN  IF from = i THEN v = relr[i]
        ELSE \E k \in 0 .. BitmapWords - 1 :
               Bit(relr[i], k + 1) = 1 /\ v = first + PtrBytes * k

(* Symbol plus addend plus bias, or the address given to an import.        *)
RelocValue(r) ==
  IF Imported(image, r)
  THEN LET name == image.dynsyms[r.sym].name
       IN  IF name \in DOMAIN DataSymbols THEN DataSymbols[name]
           ELSE (CHOOSE p \in bin.dynamic_thunks : p[2] = name)[1]
  ELSE (IF RelrCovers(r.addr) THEN Bias ELSE 0)
       + (IF r.sym # 0 THEN image.dynsyms[r.sym].addr ELSE 0) + r.addend + Bias

SegmentsAt(v) == {i \in DOMAIN image.segs : Covers(image.segs[i], v)}

FileByte(v) ==
  LET seg == image.segs[Max(SegmentsAt(v))]
  IN  IF v - seg.addr < Len(seg.data) THEN seg.data[v - seg.addr + 1] ELSE 0

ImageByte(v) ==
  LET WordsAt == {w \in v - PtrBytes + 1 .. v : w >= 0}
      relocs == {i \in DOMAIN image.relocs : image.relocs[i].addr \in WordsAt}
      rebased == {w \in WordsAt : RelrCovers(w)}
      InWord(value, w) == ToBytes(value, PtrBytes)[v - w]
  IN  IF relocs # {}
      THEN LET r == image.relocs[Max(relocs)] IN InWord(RelocValue(r), r.addr)
      ELSE IF rebased # {}
      THEN LET w == Max(rebased)
           IN  InWord(FromBytes([k \in 0 .. PtrBytes - 1 |-> FileByte(w + k)]) + Bias, w)
      ELSE FileByte(v)

(* The stack is reachable: its mapping is where it was asked for, and what *)
(* was pushed did not run out of it.                                       *)
StackPlaced ==
  \E i \in DOMAIN segments : segments[i].addr = StackTop - StackSize /\ segments[i].ptr = segments[i].addr
StackFits == bin.stack_pointer >= StackTop - StackSize

(* The image is in place: of the file (the slice for this processor, if it *)
(* has several) every byte of every segment is where the bias puts it,     *)
(* zero past the file's data, with all relocations applied once, whatever  *)
(* pages the segments share.  A read of a word sees it too, unless the     *)
(* word lies in two mappings.  (A stack that is elsewhere is pushed over   *)
(* whatever the host has in its place, and that may be the image; so do    *)
(* the data symbols over an image that reaches the thunks.)                *)
ImageLoaded ==
  Loaded /\ StackPlaced /\ StackFits /\ AddressesFit /\ max_vaddr(image.segs, Bias) <= ThunkBase =>
    /\ image.arch = "arm64"
    /\ \A v \in UNION {image.segs[i].addr .. image.segs[i].addr + image.segs[i].size - 1 :
                         i \in DOMAIN image.segs} :
         /\ Translation(v + Bias) # -1
         /\ ram[Translation(v + Bias)] = ImageByte(v)
         /\ CoveredOnce(v + Bias, PtrBytes) /\ SegmentsAt(v + PtrBytes - 1) # {}
              => BytesAt(v + Bias, PtrBytes) = [k \in 0 .. PtrBytes - 1 |-> ImageByte(v + k)]

(* A slot stands for one name and a name has one slot, whatever names the  *)
(* image imports and however often, and the slots lie side by side: as     *)
(* many as names, so they are in their region when the names fit it.  (The *)
(* loaders do not check that they do.)                                     *)
SlotsDistinct ==
  Loaded =>
    /\ \A p, q \in bin.dynamic_thunks : (p[1] = q[1]) = (p[2] = q[2])
    /\ \A p \in bin.dynamic_thunks :
         \E k \in 0 .. Cardinality(bin.dynamic_thunks) - 1 : p[1] = ThunkBase + PtrBytes * k

(* Relocations are words of the image, none over another.                  *)
RelocsApart ==
  /\ \A i \in DOMAIN image.relocs : \A v \in image.relocs[i].addr .. image.relocs[i].addr + PtrBytes - 1 :
       SegmentsAt(v) # {}
  /\ \A i, j \in DOMAIN image.relocs :
       i # j => image.relocs[j].addr \notin image.relocs[i].addr .. image.relocs[i].addr + PtrBytes - 1

(* Imports resolve: two pointers of the image hold the same address only   *)
(* if they are for the same name.  The exceptions: after ThunkSize / 2     *)
(* bytes of slots they run into the data symbols; and relocations may lie  *)
(* over each other or outside the image.                                   *)
SlotsResolve ==
  /\ Loaded /\ StackPlaced /\ StackFits /\ AddressesFit /\ RelocsApart
  /\ max_vaddr(image.segs, Bias) <= ThunkBase
  /\ IsElf /\ PtrBytes * Cardinality(bin.dynamic_thunks) <= ThunkSize \div 2
  => \A i, j \in {k \in DOMAIN image.relocs : Imported(image, image.relocs[k])} :
       LET r == image.relocs[i]
           s == image.relocs[j]
       IN  (Word(r.addr + Bias) = Word(s.addr + Bias))
             = (image.dynsyms[r.sym].name = image.dynsyms[s.sym].name)

(* The guest starts where the file says.  The exception is a Mach-O file   *)
(* whose first segment, at 0, is not the one with the code: its entry is   *)
(* an offset from the code's segment and is taken from address 0.          *)
EntryLoaded ==
  Loaded /\ (IsElf \/ first_seg_addr(image) # 0 \/ Len(image.segs[1].data) # 0) =>
    bin.entry_point = AsWord(image.start + Bias)

(* The strings of a list are those the pointers from addr on lead to, and  *)
(* a zero ends the list.                                                   *)
ListAt(addr, strs) ==
  /\ \A i \in DOMAIN strs : String(Word(addr + PtrBytes * (i - 1))) = strs[i]
  /\ Word(addr + PtrBytes * Len(strs)) = 0

(* What the auxiliary vector at addr, up to its end, has for a key: the    *)
(* first value, and -1 when there is none.                                 *)
Aux(addr, key) ==
  LET Key(i) == Word(addr + 2 * PtrBytes * i)
      last == CHOOSE n \in 0 .. StackSize : Key(n) = 0 /\ \A j \in 0 .. n - 1 : Key(j) # 0
      found == {i \in 0 .. last : Key(i) = key}
  IN  IF found = {} THEN -1 ELSE Word(addr + 2 * PtrBytes * Min(found) + PtrBytes)

(* A C runtime that walks the initial stack upwards from SP finds the      *)
(* argument count, the arguments, the environment and, of ELF, an          *)
(* auxiliary vector with the entry, the platform, the random bytes and the *)
(* program headers (if the image is linked for address 0 or the bias), of  *)
(* Mach-O the apple strings; SP of an ELF guest is aligned.                *)
StackWellFormed ==
  Loaded /\ StackPlaced /\ StackFits =>
    LET sp == bin.stack_pointer
        argv == sp + PtrBytes
        envp == argv + PtrBytes * (Len(load.args) + 1)
        rest == envp + PtrBytes * (Len(IF IsElf THEN ElfEnv ELSE MachOEnv) + 1)
    IN  /\ Word(sp) = Len(load.args)
        /\ ListAt(argv, load.args)
        /\ ListAt(envp, IF IsElf THEN ElfEnv ELSE MachOEnv)
        /\ IF IsElf
           THEN /\ sp % (2 * PtrBytes) = 0
                /\ Aux(rest, 9) = bin.entry_point
                /\ FirstAddress(image) \in {0, ElfBias} => Aux(rest, 3) = AsWord(ElfBias + image.phoff)
                /\ String(Aux(rest, 15)) \o <<0>> = Platform
                /\ BytesAt(Aux(rest, 25), Len(RandomBytes)) = Indexed(RandomBytes)
           ELSE ListAt(rest, <<load.path, PfRandom>>)

(* "Align SP to 16-byte boundary" (macho.rs). *)
StackAligned == Loaded => bin.stack_pointer % (2 * PtrBytes) = 0

(* The heap starts on the page after the image, whatever the order of the  *)
(* segments (if the image ends below the last page of the addresses).      *)
HeapAboveImage ==
  Loaded /\ SegmentsFit(image, Bias) =>
    /\ \A i \in DOMAIN image.segs : image.segs[i].size # 0 =>
         image.segs[i].addr + Bias + image.segs[i].size <= brk_base
    /\ \A b \in 1 .. brk_base : (b % PAGE_SIZE = 0 /\ b < brk_base) =>
         \E i \in DOMAIN image.segs : image.segs[i].size # 0 /\ image.segs[i].addr + Bias + image.segs[i].size > b

(* What the image img is loaded to, or relocated at, lies behind page zero *)
(* and ahead of the addresses of the host, and no segment has more data    *)
(* than memory.                                                            *)
InRange(img, bias) ==
  /\ \A i \in DOMAIN img.segs : img.segs[i].size # 0 =>
       /\ img.segs[i].addr + bias >= PAGE_SIZE
       /\ img.segs[i].addr + bias + img.segs[i].size <= DirectBase
       /\ Len(img.segs[i].data) <= img.segs[i].size
  /\ \A i \in DOMAIN img.relocs : img.relocs[i].addr + bias < DirectBase
  /\ \A s \in DOMAIN img.relr : \A i \in DOMAIN img.relr[s] :
       RelrBases(img.relr[s])[i] + bias <= DirectBase

(* How a load may fail.  It returns an error for a file that cannot be     *)
(* parsed, a segment that cannot be read, or a mapping of the image or of  *)
(* the stack the kernel refuses - not for one of the thunks.  It dies, or  *)
(* stores to memory that is the emulator's own, only while it fills a      *)
(* stack that is not where it was asked for or too small for the           *)
(* arguments.  It panics only over an ELF file that is shorter than the    *)
(* header it takes the place of the program headers from, addresses that   *)
(* do not fit 64 bits, or zeros no vector can hold.  (An image that is not *)
(* in range is written wherever it says: the loaders look at no address.)  *)
LoadHarmless ==
  [][/\ status' = "err" =>
          \/ status = "opening" /\ UNCHANGED vars
          \/ status = "loading" /\ Head(todo).op = "fail"
          \/ /\ status = "loading" /\ Head(todo).op = "map"
             /\ \/ Head(todo).addr = StackTop - StackSize
                \/ \E i \in DOMAIN image.segs : Head(todo).addr = align_down_page(AsWord(image.segs[i].addr + Bias))
          \/ ~InRange(image, Bias)
     /\ status' = "fault" \/ (\E b \in HostAddr : host[b] = "own" /\ ram'[b] # ram[b]) =>
          \/ Head(todo).addr >= bin.stack_pointer /\ (~StackPlaced \/ ~StackFits)
          \/ ~InRange(image, Bias)
     /\ \A b \in HostAddr : host[b] = "own" => host'[b] = "own"
     /\ status' = "panic" =>
          \/ IsElf /\ load.file.size < HeaderEnd
          \/ ~AddressesFit
          \/ \E i \in DOMAIN image.segs : image.segs[i].size - Len(image.segs[i].data) > AllocMax]_loadVars

=============================================================================
