--------------------------- MODULE MCSharedCache ---------------------------
(* SharedCache on small instances: three slots, a data area of a few bytes. *)
EXTENDS SharedCache

MCValues == {<<1>>, <<2, 1>>, <<1, 2, 2>>}
MCByte   == 0 .. 2
=============================================================================
