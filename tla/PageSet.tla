------------------------------ MODULE PageSet ------------------------------
(***************************************************************************)
(* A set of pages in two levels of bit vectors: class PageSet              *)
(* (tools/uva/pageset.cpp) and namespace MmapSet (tools/uva/mmapset.cpp),  *)
(* which is the same code without the counter.                             *)
(*                                                                         *)
(* Bit n of tblL1 stands for page n, bit t of tblL2 for the vector of the  *)
(* Bits pages from t * Bits on.  A table is the set of its bits that are   *)
(* set.                                                                    *)
(***************************************************************************)
EXTENDS Integers, FiniteSets

CONSTANT Bits            \* bits of a vector: BITVEC_SIZE, at least one

End == 0                 \* PAGESET_END, MMAPSET_END
Fails == -1              \* an assert of next fails

NoPages == [tblL1 |-> {}, tblL2 |-> {}, minaddr |-> End, count |-> 0]

Vector(p) == p \div Bits
Least(S) == CHOOSE x \in S : \A y \in S : x <= y

(* findNonZeroIdx on the vector of a page, from the next bit on. *)
LaterHere(s, p) == {q \in s.tblL1 : Vector(q) = Vector(p) /\ q > p}
(* findNonZeroIdx on tblL2, then findNonZeroL2Entry: the next vector that  *)
(* is marked.                                                              *)
LaterVectors(s, p) == {v \in s.tblL2 : v > Vector(p)}
PagesOf(s, v) == {q \in s.tblL1 : Vector(q) = v}

After(s, p) ==
  LET here == LaterHere(s, p)
      vectors == LaterVectors(s, p)
      there == PagesOf(s, Least(vectors))
  IN  IF here # {} THEN Least(here)
      ELSE IF vectors = {} THEN End
      ELSE IF there = {} THEN Fails     \* "must success"
      ELSE Least(there)

Contains(s, p) == p \in s.tblL1

Insert(s, p) ==
  [tblL1 |-> s.tblL1 \union {p},
   tblL2 |-> s.tblL2 \union {Vector(p)},
   minaddr |-> IF p < s.minaddr \/ s.minaddr = End THEN p ELSE s.minaddr,
   count |-> IF p \in s.tblL1 THEN s.count ELSE s.count + 1]

(* An erase that leaves the mark of the vector. *)
EraseKeepMark(s, p) ==
  [tblL1 |-> s.tblL1 \ {p},
   tblL2 |-> s.tblL2,
   minaddr |-> IF p = s.minaddr THEN After(s, p) ELSE s.minaddr,
   count |-> IF p \in s.tblL1 THEN s.count - 1 ELSE s.count]

(* The mark of the vector goes even when other pages of it stay. *)
Erase(s, p) ==
  [tblL1 |-> s.tblL1 \ {p},
   tblL2 |-> s.tblL2 \ {Vector(p)},
   minaddr |-> IF p = s.minaddr THEN After(s, p) ELSE s.minaddr,
   count |-> IF p \in s.tblL1 THEN s.count - 1 ELSE s.count]
=============================================================================
