---------------------------- MODULE MachOLoader -----------------------------
(***************************************************************************)
(* MachOLoader of src/src/loader/macho.rs: the slice of a universal file,  *)
(* the plan of a load and the LoadedBinary it ends with.                   *)
(***************************************************************************)
EXTENDS LoadPlan

CONSTANTS
  MachOBias,     \* 0x1_0000_0000
  MachOEnv,      \* the three strings of the environment
  PfRandom       \* "pf_random=..."

ASSUME MachOAssumption ==
  MachOBias \in Nat \ {0} /\ MachOEnv \in Seq(Seq(Byte)) /\ PfRandom \in Seq(Byte)

(* A slice is an offset and a size.  A fat header is eight bytes and has   *)
(* entries of twenty; those the file is too short for are not read.        *)
Arm64Types == {"arm64", "0x0100000E"}

extract_arm64_slice(file) ==
  LET Suits(i) == /\ 8 + 20 * i <= file.size
                  /\ file.archs[i].cputype \in Arm64Types
                  /\ file.archs[i].offset + file.archs[i].size <= file.size
      found == {i \in DOMAIN file.archs : Suits(i)}
  IN  IF file.size >= 8 /\ file.magic \in {"cafebabe", "bebafeca"} /\ found # {}
      THEN <<file.archs[Min(found)].offset, file.archs[Min(found)].size>>
      ELSE <<0, file.size>>

first_seg_addr(img) == IF img.segs = <<>> THEN 0 ELSE img.segs[1].addr
macho_bias(img) == IF first_seg_addr(img) = 0 THEN MachOBias ELSE 0

RawEntry(img) ==
  IF img.entry < first_seg_addr(img) THEN first_seg_addr(img) + img.entry ELSE img.entry

macho_entry(img) == AsWord(macho_bias(img) + RawEntry(img))

MachOEntryPlan(img) ==
  Checked(RawEntry(img)) \o Checked(AsWord(RawEntry(img)) + macho_bias(img))

(* strip_prefix('_') *)
clean_name(n) == IF n[1] > 0 THEN <<n[1] - 1, n[2]>> ELSE n

macho_imports(img) ==
  FlattenSeq([i \in DOMAIN img.symbols |->
    IF img.symbols[i].undefined /\ img.symbols[i].name # <<0, "">>
    THEN <<clean_name(img.symbols[i].name)>> ELSE <<>>])

MachOStack(path, args) ==
  LET env == PushStrings(StackTop - StackGap, MachOEnv)
      apple == PushStrings(env.sp, <<path, PfRandom>>)
      arg == PushStrings(apple.sp, args)
      words == <<Len(args)>> \o arg.ptrs \o <<0>> \o env.ptrs \o <<0>> \o apple.ptrs \o <<0>>
      sp == AlignStack(arg.sp)
  IN  [sp |-> BelowWords(sp, words),
       plan |-> <<StackMap>> \o env.plan \o apple.plan \o arg.plan \o PushWords(sp, words)]

(* The slots of the imports are handed out and no pointer to them stored.  *)
MachOPlan(img, path, args) ==
  MachOEntryPlan(img)
  \o SegmentsPlan(img.segs, macho_bias(img))
  \o ThunkRegion
  \o Checked(max_vaddr(img.segs, macho_bias(img)) + PAGE_SIZE - 1)
  \o <<SetBrkBase(heap_base(img.segs, macho_bias(img)))>>
  \o MachOStack(path, args).plan

MachOBinary(img, path, args) ==
  [entry_point |-> macho_entry(img), stack_pointer |-> MachOStack(path, args).sp,
   dynamic_thunks |-> dynamic_thunks(macho_imports(img)), target_os |-> "Darwin"]

=============================================================================
