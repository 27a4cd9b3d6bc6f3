----------------------------- MODULE ElfLoader ------------------------------
(***************************************************************************)
(* ElfLoader::load_file_with_args of src/src/loader/mod.rs: the plan of a  *)
(* load and the LoadedBinary it ends with.                                 *)
(*                                                                         *)
(* An image is what the object library makes of a file: its segments,      *)
(* entry, symbols, dynamic symbols, dynamic relocations (the position of   *)
(* the symbol, 0 for none), the entries of each of its RELR sections, and  *)
(* the place of the program headers.                                       *)
(***************************************************************************)
EXTENDS LoadPlan

CONSTANTS
  ElfBias,       \* 0x40_0000
  DataSymbols,   \* where the names of data the emulator provides live
  ElfEnv,        \* the five strings of the environment
  Platform,      \* "aarch64" with its zero
  RandomBytes    \* sixteen bytes of 0x42


Name(stem) == <<0, stem>>

ASSUME ElfAssumption ==
  /\ ElfBias \in Nat \ {0}
  /\ \A n \in DOMAIN DataSymbols : DataSymbols[n] \in ThunkBase .. ThunkBase + ThunkSize - 1
  /\ {Name("optind"), Name("opterr")} \subseteq DOMAIN DataSymbols
  /\ ElfEnv \in Seq(Seq(Byte)) /\ Platform \in Seq(Byte) /\ RandomBytes \in Seq(Byte)

EntryNames == {Name("main"), Name("JNI_OnLoad"), Name("ANativeActivity_onCreate")}

FirstAddress(img) == IF img.segs = <<>> THEN 0 ELSE img.segs[1].addr
load_bias(img) == IF FirstAddress(img) = 0 THEN ElfBias ELSE 0

(* The position of the symbol that stands in for an entry of 0; 0 for none.*)
EntrySymbol(img) ==
  IF img.entry # 0 THEN 0
  ELSE SelectInSeq(img.symbols \o img.dynsyms, LAMBDA s : s.name \in EntryNames)

\* Mutant: the entry of a symbol is not moved with the image.
elf_entry_Unbiased(img) ==
  IF EntrySymbol(img) # 0 THEN (img.symbols \o img.dynsyms)[EntrySymbol(img)].addr
  ELSE AsWord(img.entry + load_bias(img))

elf_entry(img) ==
  AsWord(load_bias(img) + IF EntrySymbol(img) # 0
                          THEN (img.symbols \o img.dynsyms)[EntrySymbol(img)].addr ELSE img.entry)

EntryPlan(img) ==
  Checked(img.entry + load_bias(img))
  \o IF EntrySymbol(img) # 0
     THEN Checked((img.symbols \o img.dynsyms)[EntrySymbol(img)].addr + load_bias(img)) ELSE <<>>

-----------------------------------------------------------------------------
(* Relocations. *)

(* A relocation whose symbol is to come from outside the image. *)
Imported(img, r) ==
  r.sym # 0 /\ img.dynsyms[r.sym].undefined /\ img.dynsyms[r.sym].name # Name("")

elf_imports(img) ==
  LET Import(r) == Imported(img, r) /\ img.dynsyms[r.sym].name \notin DOMAIN DataSymbols
  IN  FlattenSeq([i \in DOMAIN img.relocs |->
        IF Import(img.relocs[i]) THEN <<img.dynsyms[img.relocs[i].sym].name>> ELSE <<>>])

Defined(img, r) == r.sym # 0 /\ ~img.dynsyms[r.sym].undefined /\ img.dynsyms[r.sym].addr # 0

(* The type of a relocation is not looked at, nor the addend of an import. *)
(* An addend is added to a symbol as a u64: one that is negative overflows *)
(* unless the sum is negative too.                                         *)
RelocPlan(img, r) ==
  LET bias == load_bias(img)
      target_addr == AsWord(r.addr + bias)
      sym == img.dynsyms[r.sym]
  IN  Checked(r.addr + bias)
      \o IF Imported(img, r)
         THEN <<WriteWord(target_addr,
                  IF sym.name \in DOMAIN DataSymbols THEN DataSymbols[sym.name]
                  ELSE ThunkOf(elf_imports(img), sym.name), FALSE)>>
         ELSE IF Defined(img, r)
         THEN Checked(sym.addr + bias) \o Checked(AsWord(sym.addr + bias) + AsWord(r.addend))
              \o <<WriteWord(target_addr, sym.addr + bias + r.addend, FALSE)>>
         ELSE <<WriteWord(target_addr, bias + r.addend, FALSE)>>

(* RELR: an even entry is an address, an odd one a bitmap of the words     *)
(* that follow the last one covered.  Each section starts anew.            *)
BitmapWords == PtrBytes * ByteBits - 1

\* Mutant: a bitmap covers a word for each of its bits.
RelrBases_AllBits(relr) ==
  LET base[i \in 0 .. Len(relr)] ==
        IF i = 0 THEN 0 ELSE IF relr[i] % 2 = 0 THEN relr[i] + PtrBytes
        ELSE base[i - 1] + PtrBytes * (BitmapWords + 1)
  IN  base

(* The word behind the last one covered, after each entry of a section.    *)
RelrBases(relr) ==
  LET base[i \in 0 .. Len(relr)] ==
        IF i = 0 THEN 0 ELSE IF relr[i] % 2 = 0 THEN relr[i] + PtrBytes
        ELSE base[i - 1] + PtrBytes * BitmapWords
  IN  base

RebasePlan(v, bias) == Checked(v + bias) \o <<Rebase(AsWord(v + bias), bias)>>

(* The loop ends with the last bit that is set.                            *)
BitmapPlan(base, bitmap, bias) ==
  LET addr(k) == AsWord(base + PtrBytes * (k - 1))
      last == Max({0} \cup {k \in 1 .. BitmapWords : Bit(bitmap, k) = 1})
  IN  FlattenSeq([k \in 1 .. last |->
        (IF Bit(bitmap, k) = 1 THEN RebasePlan(addr(k), bias) ELSE <<>>)
        \o Checked(addr(k) + PtrBytes)])
      \o Checked(AsWord(base) + PtrBytes * BitmapWords)

RelrPlan(relr, bias) ==
  FlattenSeq([i \in DOMAIN relr |->
    IF relr[i] % 2 = 0 THEN RebasePlan(relr[i], bias) \o Checked(relr[i] + PtrBytes)
    ELSE BitmapPlan(RelrBases(relr)[i - 1], relr[i], bias)])

-----------------------------------------------------------------------------
(* The stack. *)

(* AT_PHDR to AT_NULL.  The place of the program headers is taken from the *)
(* bytes of the file as those of an ELF header of 64 bits, which a file in *)
(* another format may be too short for.                                    *)
HeaderEnd == 58

AuxvPlan(img, size) == IF size < HeaderEnd THEN <<Panic>> ELSE Checked(ElfBias + img.phoff)

auxv(img, platform_ptr, random_bytes_ptr) ==
  <<3, ElfBias + img.phoff, 4, img.phentsize, 5, img.phnum, 6, PAGE_SIZE, 7, 0, 8, 0,
    9, elf_entry(img), 11, 0, 12, 0, 13, 0, 14, 0, 15, platform_ptr, 16, 0, 17, 100,
    23, 0, 25, random_bytes_ptr, 26, 0, 0, 0>>

\* Mutant: padded when the number of words is even.
Padding_Even(words) == IF Len(words) % 2 = 0 THEN PtrBytes ELSE 0

Padding(words) == IF Len(words) % 2 # 0 THEN PtrBytes ELSE 0

ElfStack(img, size, args) ==
  LET arg == PushStrings(StackTop - StackGap, args)
      env == PushStrings(arg.sp, ElfEnv)
      platform_ptr == env.sp - Len(Platform)
      random_bytes_ptr == platform_ptr - Len(RandomBytes)
      words == <<Len(args)>> \o arg.ptrs \o <<0>> \o env.ptrs \o <<0>>
               \o auxv(img, platform_ptr, random_bytes_ptr)
      sp == AlignStack(random_bytes_ptr) - Padding(words)
  IN  [sp |-> BelowWords(sp, words),
       plan |-> <<StackMap>> \o arg.plan \o env.plan
                \o <<Write(platform_ptr, Platform, TRUE), Write(random_bytes_ptr, RandomBytes, TRUE)>>
                \o AuxvPlan(img, size) \o PushWords(sp, words)]

-----------------------------------------------------------------------------
(* Of an image img, the contents of a file of the size.                    *)
ElfPlan(img, size, args) ==
  EntryPlan(img)
  \o SegmentsPlan(img.segs, load_bias(img))
  \o ThunkRegion
  \o <<WriteInt(DataSymbols[Name("optind")], 1, PtrBytes \div 2, FALSE),
       WriteInt(DataSymbols[Name("opterr")], 1, PtrBytes \div 2, FALSE)>>
  \o FlattenSeq([i \in DOMAIN img.relocs |-> RelocPlan(img, img.relocs[i])])
  \o FlattenSeq([i \in DOMAIN img.relr |-> RelrPlan(img.relr[i], load_bias(img))])
  \o Checked(max_vaddr(img.segs, load_bias(img)) + PAGE_SIZE - 1)
  \o <<SetBrkBase(heap_base(img.segs, load_bias(img)))>>
  \o ElfStack(img, size, args).plan

ElfBinary(img, size, args) ==
  [entry_point |-> elf_entry(img), stack_pointer |-> ElfStack(img, size, args).sp,
   dynamic_thunks |-> dynamic_thunks(elf_imports(img)), target_os |-> "Linux"]

=============================================================================
