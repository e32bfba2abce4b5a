------------------------------- MODULE MCHlrc -------------------------------
(* Small instances of Hlrc for TLC, with stores the home books under all   *)
(* their pages.                                                            *)
EXTENDS Hlrc

(* A word, and a page and a half from a page boundary on: a scalar store,  *)
(* and a memset or memcpy into a large array.                              *)
MixedExtent == {{<<1, 1>>}, {<<1, 1>>, <<1, 2>>, <<2, 1>>}}

(* A light client stores to the other word of the page. *)
LightWord == {{<<1, 2>>}}

(* What the theorems of HlrcProofs assume. *)
ASSUME AlignedInstance == Aligned
=============================================================================
