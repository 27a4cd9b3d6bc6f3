------------------------- MODULE MCGuestMemoryFlat -------------------------
(***************************************************************************)
(* The host of MCGuestMemory; a range of three bytes may span a mapping    *)
(* and the heap, and the heap may reach the direct range.                  *)
(***************************************************************************)
EXTENDS GuestMemoryFlat

MCHostOwned == {0, 1, 4, 5}
MCMapAddrs  == {0, 6}
MCSizes     == {2, 3}
MCBrkArgs   == {3, 5, 7}
MCBrkBases  == {3}
MCAccesses  == {<<5, 2>>, <<3, 3>>, <<6, 1>>, <<0, 1>>}
MCProtect   == {}

=============================================================================
