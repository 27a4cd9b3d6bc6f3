----------------------------- MODULE MCSyscalls -----------------------------
(***************************************************************************)
(* Pages of four bytes: the image at 4, the heap from 8, mappings without  *)
(* an address at 12, host addresses from 16 on with the stack first.  The  *)
(* emulator has the host's first page.                                     *)
(***************************************************************************)
EXTENDS Syscalls

MCHostOwned == 0 .. 3
Word4(a, b, c, d) == [k \in 0 .. 3 |-> <<a, b, c, d>>[k + 1]]

MCStores == {[at |-> 4, len |-> 4, data |-> Word4(1, 2, 0, 0)],
             [at |-> 10, len |-> 4, data |-> Word4(1, 2, 1, 3)]}

Make(nr, a, b, c, d, e) == [nr |-> nr, x |-> [k \in 0 .. 4 |-> <<a, b, c, d, e>>[k + 1]]]

MCCalls ==
  {Make(222, 0, 4, 0, 0, 0), Make(222, 0, 7, 0, 0, 0), Make(222, 0, 0, 0, 0, 0), Make(222, 20, 4, 0, 0, 0),
   Make(214, 0, 0, 0, 0, 0), Make(214, 10, 0, 0, 0, 0), Make(214, 13, 0, 0, 0, 0), Make(214, 5, 0, 0, 0, 0),
   Make(64, 1, 4, 2, 0, 0), Make(64, 2, 10, 5, 0, 0), Make(64, 1, 18, 3, 0, 0), Make(64, 1, 14, 4, 0, 0),
   Make(64, 3, 4, 65530, 0, 0), Make(222, 65532, 4, 0, 0, 0), Make(214, 65534, 0, 0, 0, 0),
   Make(43, 0, 10, 0, 0, 0), Make(44, 0, 0, 0, 0, 0),
   Make(198, 0, 0, 0, 0, 0), Make(203, 0, 0, 0, 0, 0), Make(78, 0, 0, 0, 0, 0),
   Make(63, 0, 0, 0, 0, 0), Make(62, 0, 0, 0, 0, 0), Make(175, 0, 0, 0, 0, 0),
   Make(199, 3, 4, 10, 0, 0), Make(209, 3, 0, 0, 4, 10),
   Make(208, 3, 0, 0, 4, 2), Make(208, 3, 0, 0, 7, 258), Make(208, 3, 0, 0, 4, 200), Make(208, 3, 0, 0, 18, 4),
   Make(17, 0, 4, 16, 0, 0), Make(57, 4, 0, 0, 0, 0),
   Make(56, 65536, 0, 4, 0, 10), Make(56, 0, 0, 4, 0, 16),
   Make(98, 4, 128, 201, 0, 0), Make(98, 4, 129, 3, 0, 0),
   Make(93, 300, 0, 0, 0, 0), Make(96, 6, 0, 0, 0, 0),
   Make(169, 9, 0, 0, 0, 0), Make(160, 4, 0, 0, 0, 0),
   Make(33554433, 7, 0, 0, 0, 0), Make(33554436, 1, 4, 2, 0, 0),
   Make(33554631, 0, 4, 0, 0, 0)}

MCStatfs == [len |-> 5, data |-> [k \in 0 .. 4 |-> 1 + (k % 2)]]
MCHostRets == {-9, 3}
MCHostData == {[len |-> 3, data |-> [k \in 0 .. 2 |-> 1]]}

\* The arguments of GuestMemory's own next-state relation are not used.
None == {}
MCAccesses == {<<4, 1>>}

=============================================================================
