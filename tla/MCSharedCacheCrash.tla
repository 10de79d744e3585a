------------------------- MODULE MCSharedCacheCrash -------------------------
(* SharedCacheCrash with keys that are alike and a data area of four bytes. *)
EXTENDS SharedCacheCrash, TLC

MCValues == {<<1>>, <<1, 2, 2>>}
MCByte   == 0 .. 2

Symmetry == Permutations(Keys)

Everywhere == Functions
=============================================================================
