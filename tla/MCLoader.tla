------------------------------ MODULE MCLoader ------------------------------
(***************************************************************************)
(* Pages of sixteen bytes and pointers of two.  The bias is 32, the thunks *)
(* are at 128 with the data symbols in the second half of their region,    *)
(* thread-local storage at 160, host addresses from 256 on and the stack   *)
(* at 368 - 511.                                                           *)
(***************************************************************************)
EXTENDS Loader

MCHostOwned == 0 .. 31 \cup 320 .. 335

MCDataSymbols ==
  [n \in {Name(s) : s \in {"stdout", "stderr", "stdin", "optind", "optarg", "opterr", "optopt", "environ"}} |->
     CASE n[2] = "stdout" -> 144 [] n[2] = "stderr" -> 146 [] n[2] = "stdin" -> 148
       [] n[2] = "optind" -> 150 [] n[2] = "optarg" -> 152 [] n[2] = "opterr" -> 154
       [] n[2] = "optopt" -> 156 [] n[2] = "environ" -> 158]

MCElfEnv == <<<<1>>, <<2>>, <<3>>, <<4>>, <<5>>>>
MCMachOEnv == <<<<1>>, <<2>>, <<3>>>>
MCPlatform == <<7, 0>>
MCRandom == <<66, 66, 66, 66>>
MCPfRandom == <<9>>

Seg(addr, size, filled) ==
  [addr |-> addr, size |-> size, data |-> [k \in 1 .. filled |-> (addr + k) % 200], readable |-> TRUE]
Sym(name, addr, undefined) == [name |-> name, addr |-> addr, undefined |-> undefined]
Rel(addr, sym, addend) == [addr |-> addr, sym |-> sym, addend |-> addend]

Base == [arch |-> "arm64", segs |-> <<Seg(0, 20, 20)>>, entry |-> 4, start |-> 4, symbols |-> <<>>,
         dynsyms |-> <<>>, relocs |-> <<>>, relr |-> <<>>, phoff |-> 8, phentsize |-> 56, phnum |-> 2]

\* A position-independent program: segments that share a page, imports of
\* functions and data, a section with two bitmaps and one that starts with one.
Pie ==
  [Base EXCEPT
     !.segs = <<Seg(0, 36, 36), Seg(38, 44, 40)>>,
     !.dynsyms = <<Sym(Name("puts"), 0, TRUE), Sym(Name("stdout"), 0, TRUE), Sym(Name("exit"), 0, TRUE),
                   Sym(Name("table"), 20, FALSE), Sym(Name(""), 0, TRUE), Sym(Name("weak"), 0, FALSE)>>,
     !.relocs = <<Rel(4, 1, 0), Rel(6, 3, 0), Rel(8, 1, 0), Rel(10, 2, 0), Rel(12, 4, 3),
                  Rel(14, 0, 16), Rel(16, 5, 2), Rel(18, 6, 4)>>,
     !.relr = <<<<40, 1 + 2 + 2^5, 1 + 2 + 4>>, <<1 + 4, 76>>>>]

\* Linked for an address, with the segments out of order.
Static ==
  [Base EXCEPT !.segs = <<Seg(64, 20, 12), Seg(48, 10, 10), Seg(60, 0, 0)>>, !.entry = 50, !.start = 50]

\* A shared library: no entry, but a symbol.  Of the addends to its second
\* symbol only the third does not overflow.
Library ==
  [Base EXCEPT !.entry = 0, !.start = 6,
     !.symbols = <<Sym(Name("local"), 2, FALSE)>>,
     !.dynsyms = <<Sym(Name("JNI_OnLoad"), 6, FALSE), Sym(Name("main"), 8, FALSE)>>,
     !.relocs = <<Rel(10, 2, -4), Rel(12, 0, -2), Rel(14, 2, -60), Rel(16, 2, 65500)>>]

\* More imports than there are slots, ahead of the data symbols or in all.
Crowded ==
  [Base EXCEPT
     !.segs = <<Seg(0, 40, 40)>>,
     !.dynsyms = [i \in 1 .. 19 |-> Sym(Name(<<"a", "b", "c", "d", "e", "f", "g", "h", "i", "stdout",
                                                "j", "k", "l", "m", "n", "o", "p", "q", "r">>[i]), 0, TRUE)],
     !.relocs = [i \in 1 .. 19 |-> Rel(2 * i - 2, i, 0)]]

\* A segment in page zero, and a relocation in the emulator's own memory: the
\* loaders look at neither address.
PageZero == [Base EXCEPT !.segs = <<Seg(48, 20, 20), Seg(4, 6, 6)>>, !.entry = 50, !.start = 50]
Stray == [PageZero EXCEPT !.segs = <<Seg(48, 20, 20)>>, !.relocs = <<Rel(324, 0, 5)>>]

\* Addresses that leave the word: they wrap to the image and to page zero.
Wrapped ==
  [Base EXCEPT !.segs = <<Seg(0, 20, 20), Seg(65520, 20, 20)>>, !.entry = 0, !.start = 65530,
     !.symbols = <<Sym(Name("main"), 65530, FALSE)>>, !.relocs = <<Rel(65508, 0, 5)>>,
     !.relr = <<<<65534, 1 + 2 + 8>>>>, !.phoff = 65520]

\* A segment that ends where the addresses do, one too large to round up to a
\* page, and one with more zeros than a vector can have.
AtTop == [Static EXCEPT !.segs = <<Seg(48, 10, 10), Seg(65500, 30, 10)>>]
Huge == [Static EXCEPT !.segs = <<Seg(48, 10, 10), Seg(64, 65530, 4)>>]
Zeroed == [Base EXCEPT !.segs = <<Seg(0, 90, 20)>>]

Foreign == [Base EXCEPT !.arch = "x86_64"]
Damaged == [Base EXCEPT !.segs = <<Seg(0, 20, 20), [Seg(32, 4, 4) EXCEPT !.readable = FALSE]>>]

\* A Mach-O dylib, an executable behind a page zero, one whose entry leaves the
\* word, and one linked elsewhere.
Dylib ==
  [Base EXCEPT !.segs = <<Seg(0, 20, 20), Seg(32, 10, 4)>>,
     !.symbols = <<Sym(<<1, "puts">>, 0, TRUE), Sym(Name("puts"), 0, TRUE), Sym(<<2, "exit">>, 0, TRUE),
                   Sym(<<1, "main">>, 4, FALSE)>>]
Executable == [Base EXCEPT !.segs = <<Seg(0, 16, 0), Seg(16, 20, 20)>>, !.start = 20]
Distant == [Dylib EXCEPT !.entry = 65500, !.start = 65500]
Moved == [Base EXCEPT !.segs = <<Seg(48, 20, 20)>>, !.start = 52]

File(magic, img) ==
  [readable |-> TRUE, size |-> 300, magic |-> magic, archs |-> <<>>, images |-> (<<0, 300>> :> img)]
Arch(cputype, offset, size) == [cputype |-> cputype, offset |-> offset, size |-> size]

\* A universal file with an x86 slice, one that runs past its end, and ours.
Universal ==
  [File("cafebabe", Foreign) EXCEPT
     !.archs = <<Arch("x86_64", 100, 80), Arch("arm64", 250, 80), Arch("arm64", 180, 80)>>,
     !.images = (<<100, 80>> :> Foreign) @@ (<<180, 80>> :> Dylib)]

\* A universal file cut off in its table, one without our architecture, one
\* too short for a header, one of another format and shorter than a header of
\* ELF, a file that is none, and one that is not there.
Cut == [Universal EXCEPT !.size = 60]
Other == [Universal EXCEPT !.archs = <<Arch("x86_64", 100, 80)>>]
Short == [Universal EXCEPT !.size = 6]
Headless == [File("7f454c46", Base) EXCEPT !.size = 56, !.images = (<<0, 56>> :> Base)]
Text == [File("text", Base) EXCEPT !.size = 3]
Missing == [File("text", Base) EXCEPT !.readable = FALSE]

Load(file, args, taken) == [file |-> file, path |-> <<11>>, args |-> args, taken |-> taken]
One == <<<<8>>>>
Two == <<<<8, 9>>, <<10>>>>
Long == <<[k \in 1 .. 30 |-> 1]>>
StackPage == 400 .. 415

MCLoads ==
  {Load(File("7f454c46", Pie), Two, {}),
   Load(File("7f454c46", Static), One, {}), Load(File("7f454c46", Static), Two, StackPage),
   Load(File("7f454c46", Static), Long, {}), Load(File("7f454c46", Library), One, {}),
   Load(File("7f454c46", Crowded), One, {}), Load(File("7f454c46", Damaged), One, {}),
   Load(File("7f454c46", PageZero), <<>>, {}), Load(File("7f454c46", Stray), <<>>, {}),
   Load(File("feedface", Library), <<>>, 32 .. 47),
   Load(File("cffaedfe", Dylib), One, {}), Load(File("cffaedfe", Executable), Two, {}),
   Load(File("feedfacf", Moved), <<>>, StackPage), Load(File("cffaedfe", Distant), One, {})}
  \cup {Load(File("7f454c46", img), One, {}) : img \in {Wrapped, AtTop, Huge, Zeroed}}
  \cup {Load(file, One, {}) : file \in {Universal, Cut, Other, Short, Headless, Text, Missing}}

\* The arguments of GuestMemory's own next-state relation are not used.
None == {}
MCByte == 0 .. 255

=============================================================================
