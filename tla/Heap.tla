-------------------------------- MODULE Heap --------------------------------
(***************************************************************************)
(* What a program expects of malloc, realloc and free: the blocks it holds *)
(* lie in memory that is mapped, and no two of them share a byte.          *)
(***************************************************************************)
EXTENDS Integers

CONSTANTS PAGE_SIZE,   \* bytes of a page
          Lens         \* lengths a program asks for

VARIABLES live,        \* blocks the program holds
          mapped       \* pages mapped for its heap

Bytes(b) == b.at .. b.at + b.len - 1
Apart(b, others) == \A o \in others : Bytes(b) \intersect Bytes(o) = {}
Inside(b, pages) == \A a \in Bytes(b) : a \div PAGE_SIZE \in pages

Init == live = {} /\ mapped = {}

(* The heap may grow by any page, and never shrinks. *)
Grow == mapped \subseteq mapped'
More == Grow /\ UNCHANGED live

Place(b, others) ==
  /\ b.len \in Lens
  /\ Apart(b, others)
  /\ Inside(b, mapped')
  /\ live' = others \union {b}

New == live' \ live
Malloc == Grow /\ \E b \in New : Place(b, live)
Free == UNCHANGED mapped /\ \E b \in live : live' = live \ {b}

(* The block stays where it is, or moves to bytes it did not have. *)
Realloc ==
  /\ Grow
  /\ \E old \in live, b \in New :
       /\ Place(b, live \ {old})
       /\ b.at = old.at \/ Apart(b, {old})

Next == More \/ Malloc \/ Free \/ Realloc

Spec == Init /\ [][Next]_<<live, mapped>>
=============================================================================
