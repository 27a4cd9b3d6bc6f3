--------------------------- MODULE MCGuestMemory ---------------------------
(***************************************************************************)
(* A host of six pages of two bytes.  Two pages are not for the guest, one *)
(* of them in the middle, so that a hint may or may not be honoured.       *)
(* Guest addresses 0 to 5 are translated, 6 to 11 are host addresses.      *)
(***************************************************************************)
EXTENDS GuestMemory

MCHostOwned == {0, 1, 4, 5}
MCMapAddrs  == {0, 2, 6, 30}
MCSizes     == {0, 2, 3}
MCBrkArgs   == {0, 3, 5, 7, 31}
MCBrkBases  == {3}
MCAccesses  == {<<5, 2>>, <<3, 3>>, <<6, 1>>, <<0, 1>>, <<2, 4>>}
MCProtect   == {<<2, 0>>, <<2, 2>>, <<3, 3>>, <<6, 2>>}

=============================================================================
