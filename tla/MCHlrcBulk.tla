----------------------------- MODULE MCHlrcBulk -----------------------------
(* A small instance of HlrcBulk for TLC: two pages of three words, and     *)
(* sources of one word and of two that straddle the pages.                 *)
EXTENDS HlrcBulk

OneWord == {{<<2, 1>>}}
Sources == {{<<1, 3>>, <<2, 1>>}, {<<1, 2>>}}
=============================================================================
