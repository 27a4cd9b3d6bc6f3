-------------------------- MODULE MCGuestMemoryApi --------------------------
(***************************************************************************)
(* A host of four pages of two bytes for the run with mprotect and munmap: *)
(* contents do not matter, mappings come and go.                           *)
(***************************************************************************)
EXTENDS GuestMemory

MCHostOwned == {0, 1}
MCMapAddrs  == {0, 2}
MCSizes     == {2, 3}
MCBrkArgs   == {5}
MCBrkBases  == {3}
MCAccesses  == {<<2, 2>>}
MCProtect   == {<<2, 0>>, <<2, 2>>, <<3, 3>>, <<6, 2>>}

=============================================================================
