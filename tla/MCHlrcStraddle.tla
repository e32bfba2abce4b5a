--------------------------- MODULE MCHlrcStraddle ---------------------------
(* Instances of Hlrc with a store of at most a page that starts in one     *)
(* page and ends in the next, as a memset or memcpy into an array does.    *)
EXTENDS Hlrc

Straddling == {{<<1, 2>>, <<2, 1>>}}
=============================================================================
