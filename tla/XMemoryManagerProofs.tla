------------------------ MODULE XMemoryManagerProofs ------------------------
(***************************************************************************)
(* Theorems about XMemoryManager for any page longer than two headers, any *)
(* number of bins and any lengths: until an assert of the allocator fails  *)
(* or free takes for a chunk what is none, the chunks fill the pages of    *)
(* the client, bins and headers agree, and the program gets what it        *)
(* expects of malloc, realloc and free.                                    *)
(***************************************************************************)
EXTENDS XMemoryManager, WellFoundedInduction, FiniteSetTheorems, SequenceTheorems, TLAPS

-----------------------------------------------------------------------------
(* What a heap is, and what is right about it.                             *)

Faults == {"none", "bin", "tag", "astray"}
HeaderType == [prev : Int, size : Int, used : BOOLEAN, bin : Bin \union {Nowhere}]
IsHeap(h) ==
  /\ h = [chunk |-> h.chunk, freeList |-> h.freeList, freeSizeList |-> h.freeSizeList,
          lastChunk |-> h.lastChunk, fault |-> h.fault]
  /\ h.chunk \in [Chunks(h) -> HeaderType] /\ Chunks(h) \subseteq Int
  /\ h.freeList \in [Bin -> Seq(Int)] /\ h.freeSizeList \in [Bin -> Int]
  /\ h.lastChunk \in Int /\ h.fault \in Faults

(* The chunks of a bin.                                                    *)
In(h, b) == {h.freeList[b][i] : i \in DOMAIN h.freeList[b]}
Once(s) == \A i, j \in DOMAIN s : s[i] = s[j] => i = j

Tiles(h, U) ==
  /\ \A c \in Chunks(h) : Size(h, c) > 0 /\ Span(h, c) \subseteq U
  /\ \A a \in U : \E c \in Chunks(h) : a \in Span(h, c)
  /\ \A c, d \in Chunks(h) : c # d => Span(h, c) \intersect Span(h, d) = {}

(* The chunks of L may be in use and in a bin, or neither.                 *)
Bins(h, L) ==
  /\ \A b \in Bin : Once(h.freeList[b])
  /\ \A b \in Bin : In(h, b) = {c \in Chunks(h) : h.chunk[c].bin = b}
  /\ \A c \in Chunks(h) \ L : h.chunk[c].used <=> h.chunk[c].bin = Nowhere
  /\ \A c \in Chunks(h) : h.chunk[c].bin \in 0 .. Slabs - 1 =>
       Size(h, c) = h.freeSizeList[h.chunk[c].bin]

Good(h, U, L) ==
  /\ IsHeap(h)
  /\ h.lastChunk \in Chunks(h) \union {Null}
  /\ Tiles(h, U)
  /\ Bins(h, L)

(* What is left of that of the heap at which the model ends.               *)
Typed(h, U) ==
  /\ IsHeap(h)
  /\ h.lastChunk \in Chunks(h) \union {Null}
  /\ Chunks(h) \subseteq U
  /\ \A b \in Bin : h.freeList[b] \in Seq(Chunks(h))

LEMMA LeastIsIn == ASSUME NEW S \in SUBSET Nat, S # {} PROVE MmapSet!Least(S) \in S
<1> DEFINE less == {ss \in Nat \X Nat : ss[1] < ss[2]}
<1>1. IsWellFoundedOn(less, Nat)
  BY NatLessThanWellFounded DEF OpToRel
<1>2. PICK x \in S : \A y \in S : ~ (<<y, x>> \in less)
  <2> HIDE DEF less
  <2> QED
    BY <1>1, WFMin
<1>3. ASSUME NEW y \in S PROVE x <= y
  <2>1. ~ (<<y, x>> \in less) /\ <<y, x>> \in Nat \X Nat
    BY <1>2
  <2>2. ~ (y < x)
    BY <2>1
  <2> QED
    BY <2>2
<1> QED
  BY <1>3 DEF MmapSet!Least

LEMMA BinTypes ==
  /\ Bin \subseteq Int /\ Residue \in Bin /\ Nowhere \notin Bin /\ 0 .. Slabs - 1 \subseteq Bin
  /\ \A b \in Bin : b = Residue \/ b \in 0 .. Slabs - 1
BY SlabsAssumption DEF Bin, Residue, Nowhere

LEMMA GoodTyped == ASSUME NEW h, NEW U, NEW L, Good(h, U, L) PROVE Typed(h, U)
<1>1. IsHeap(h) /\ h.lastChunk \in Chunks(h) \union {Null}
  BY DEF Good
<1>2. ASSUME NEW c \in Chunks(h) PROVE c \in U
  <2>1. c \in Int /\ Size(h, c) \in Int /\ Size(h, c) > 0
    BY <1>1 DEF Good, Tiles, Size, HeaderType, IsHeap
  <2> QED
    BY <2>1 DEF Good, Tiles, Span, NextInMem
<1>3. ASSUME NEW b \in Bin PROVE h.freeList[b] \in Seq(Chunks(h))
  <2>1. h.freeList[b] \in Seq(Int)
    BY <1>1 DEF IsHeap
  <2>2. \A i \in DOMAIN h.freeList[b] : h.freeList[b][i] \in Chunks(h)
    BY DEF Good, Bins, In
  <2> QED
    BY <2>1, <2>2
<1> QED
  BY <1>1, <1>2, <1>3 DEF Typed

-----------------------------------------------------------------------------
(* The parts of the operations.                                            *)

(* A bin that gets a length has no chunks.                                 *)
LEMMA Registers ==
  ASSUME NEW h, NEW U, NEW L, Good(h, U, L), NEW s \in Int
  PROVE  /\ Good(registerSlab(h, s), U, L)
         /\ registerSlab(h, s).chunk = h.chunk
         /\ registerSlab(h, s).freeList = h.freeList
         /\ registerSlab(h, s).fault = h.fault
         /\ registerSlab(h, s).lastChunk = h.lastChunk
<1> DEFINE g == registerSlab(h, s)
<1>1. CASE g = h
  BY <1>1
<1>2. CASE \E i \in 0 .. Slabs - 1 :
             /\ g = [h EXCEPT !.freeSizeList[i] = s]
             /\ h.freeSizeList[i] = 0 \/ h.freeList[i] = << >>
  <2>1. PICK i \in 0 .. Slabs - 1 :
               /\ g = [h EXCEPT !.freeSizeList[i] = s]
               /\ h.freeSizeList[i] = 0 \/ h.freeList[i] = << >>
    BY <1>2
  <2>2. IsHeap(h) /\ i \in Bin
    BY BinTypes DEF Good
  <2>3. /\ g.chunk = h.chunk /\ g.freeList = h.freeList /\ g.lastChunk = h.lastChunk
        /\ g.fault = h.fault /\ g.freeSizeList = [h.freeSizeList EXCEPT ![i] = s]
        /\ g = [chunk |-> g.chunk, freeList |-> g.freeList, freeSizeList |-> g.freeSizeList,
                lastChunk |-> g.lastChunk, fault |-> g.fault]
    BY <2>1, <2>2 DEF IsHeap
  <2> HIDE DEF g
  <2>4. IsHeap(g)
    BY <2>2, <2>3 DEF IsHeap, Chunks
  <2>5. ASSUME NEW c \in Chunks(h), h.chunk[c].bin \in 0 .. Slabs - 1
        PROVE  h.chunk[c].bin # i
    <3>1. SUFFICES ASSUME h.chunk[c].bin = i PROVE FALSE
      OBVIOUS
    <3>2. Size(h, c) = h.freeSizeList[i] /\ Size(h, c) > 0
      BY <2>5, <3>1 DEF Good, Bins, Tiles
    <3>3. c \in In(h, i)
      BY <2>2, <3>1 DEF Good, Bins
    <3> QED
      BY <2>1, <3>2, <3>3 DEF In
  <2>6. \A c \in Chunks(g) : g.chunk[c].bin \in 0 .. Slabs - 1 =>
          Size(g, c) = g.freeSizeList[g.chunk[c].bin]
    BY <2>2, <2>3, <2>5, BinTypes DEF Good, Bins, Chunks, Size, IsHeap
  <2>7. Bins(g, L)
    BY <2>3, <2>6 DEF Good, Bins, Chunks, In
  <2>8. Tiles(g, U)
    BY <2>3 DEF Good, Tiles, Chunks, Size, Span, NextInMem
  <2>9. g.lastChunk \in Chunks(g) \union {Null}
    BY <2>3 DEF Good, Chunks
  <2>10. Good(g, U, L)
    BY <2>4, <2>7, <2>8, <2>9 DEF Good
  <2> QED
    BY <2>3, <2>10 DEF g
<1>3. g = h \/ \E i \in 0 .. Slabs - 1 :
                 /\ g = [h EXCEPT !.freeSizeList[i] = s]
                 /\ h.freeSizeList[i] = 0 \/ h.freeList[i] = << >>
  <2> DEFINE unused == {i \in 0 .. Slabs - 1 : h.freeSizeList[i] = 0}
             idle == {i \in 0 .. Slabs - 1 : h.freeList[i] = << >>}
  <2>1. unused \in SUBSET Nat /\ idle \in SUBSET Nat
    OBVIOUS
  <2>2. (unused # {} => MmapSet!Least(unused) \in unused)
        /\ (idle # {} => MmapSet!Least(idle) \in idle)
    <3> HIDE DEF unused, idle, g
    <3> QED
      BY <2>1, LeastIsIn
  <2>3. \/ g = h
        \/ unused # {} /\ g = [h EXCEPT !.freeSizeList[MmapSet!Least(unused)] = s]
        \/ idle # {} /\ g = [h EXCEPT !.freeSizeList[MmapSet!Least(idle)] = s]
    BY DEF registerSlab
  <2> HIDE DEF g
  <2> QED
    BY <2>2, <2>3
<1> QED
  BY <1>1, <1>2, <1>3
LEMMA RemovesAt ==
  ASSUME NEW s \in Seq(Int), Once(s), NEW i \in DOMAIN s
  PROVE  /\ RemoveAt(s, i) \in Seq(Int) /\ Once(RemoveAt(s, i))
         /\ {RemoveAt(s, i)[j] : j \in DOMAIN RemoveAt(s, i)}
              = {s[j] : j \in DOMAIN s} \ {s[i]}
<1> DEFINE left == SubSeq(s, 1, i - 1)
           right == SubSeq(s, i + 1, Len(s))
           r == RemoveAt(s, i)
<1>0. i \in 1 .. Len(s) /\ Len(s) \in Nat
  OBVIOUS
<1>1. /\ r \in Seq(Int) /\ Len(r) = Len(s) - 1
      /\ \A j \in 1 .. Len(r) : r[j] = IF j < i THEN s[j] ELSE s[j + 1]
  <2>1. left \in Seq(Int) /\ Len(left) = i - 1 /\ \A j \in 1 .. i - 1 : left[j] = s[j]
    BY <1>0
  <2>2. /\ right \in Seq(Int) /\ Len(right) = Len(s) - i
        /\ \A j \in 1 .. Len(s) - i : right[j] = s[i + j]
    BY <1>0
  <2>3. r = left \o right
    BY DEF RemoveAt
  <2> HIDE DEF left, right, r
  <2>4. r \in Seq(Int) /\ Len(r) = Len(s) - 1
    BY <1>0, <2>1, <2>2, <2>3
  <2>5. \A j \in 1 .. Len(left) + Len(right) :
          (left \o right)[j] = IF j <= Len(left) THEN left[j] ELSE right[j - Len(left)]
    BY <2>1, <2>2, ConcatProperties
  <2>6. ASSUME NEW j \in 1 .. Len(s) - 1 PROVE r[j] = IF j < i THEN s[j] ELSE s[j + 1]
    <3>1. r[j] = IF j <= i - 1 THEN left[j] ELSE right[j - (i - 1)]
      <4>1. Len(left) = i - 1 /\ Len(left) + Len(right) = Len(s) - 1
        BY <1>0, <2>1, <2>2
      <4>2. j \in 1 .. Len(left) + Len(right)
        BY <4>1
      <4>3. (left \o right)[j] = IF j <= Len(left) THEN left[j] ELSE right[j - Len(left)]
        BY <2>5, <4>2
      <4> QED
        BY <2>3, <4>1, <4>3
    <3>2. CASE j < i
      BY <1>0, <2>1, <3>1, <3>2
    <3>3. CASE j >= i
      <4>1. j - (i - 1) \in 1 .. Len(s) - i /\ i + (j - (i - 1)) = j + 1
        BY <1>0, <3>3
      <4>2. right[j - (i - 1)] = s[i + (j - (i - 1))]
        BY <2>2, <4>1
      <4>3. ~ (j <= i - 1) /\ ~ (j < i)
        BY <1>0, <3>3
      <4>4. r[j] = s[i + (j - (i - 1))]
        BY <3>1, <4>2, <4>3
      <4>5. r[j] = s[j + 1]
        BY <4>1, <4>4
      <4> QED
        BY <4>3, <4>5
    <3> QED
      BY <1>0, <3>2, <3>3
  <2> QED
    BY <2>4, <2>6
<1> HIDE DEF r, left, right
<1>d. DOMAIN r = 1 .. Len(s) - 1
  BY <1>1
<1>2. Once(r)
  <2> SUFFICES ASSUME NEW j \in DOMAIN r, NEW k \in DOMAIN r, r[j] = r[k] PROVE j = k
    BY DEF Once
  <2>1. j \in 1 .. Len(s) - 1 /\ k \in 1 .. Len(s) - 1
    BY <1>d
  <2> DEFINE from(n) == IF n < i THEN n ELSE n + 1
  <2>2. from(j) \in DOMAIN s /\ from(k) \in DOMAIN s
    BY <1>0, <2>1
  <2>3. s[from(j)] = s[from(k)]
    BY <1>1, <2>1
  <2>4. from(j) = from(k)
    <3> HIDE DEF from
    <3> QED
      BY <2>2, <2>3 DEF Once
  <2> QED
    BY <1>0, <2>1, <2>4
<1>3. ASSUME NEW j \in DOMAIN r PROVE r[j] \in {s[k] : k \in DOMAIN s} \ {s[i]}
  <2> DEFINE k == IF j < i THEN j ELSE j + 1
  <2>1. j \in 1 .. Len(s) - 1
    BY <1>d
  <2>2. k \in DOMAIN s /\ k # i
    BY <1>0, <2>1
  <2>3. r[j] = s[k]
    BY <1>1, <2>1
  <2> HIDE DEF k
  <2> QED
    BY <2>2, <2>3 DEF Once
<1>4. ASSUME NEW j \in DOMAIN s, j # i PROVE \E k \in DOMAIN r : r[k] = s[j]
  <2>1. CASE j < i
    <3>1. j \in DOMAIN r /\ r[j] = s[j]
      BY <1>0, <1>1, <2>1
    <3> QED
      BY <3>1
  <2>2. CASE j > i
    <3> DEFINE k == j - 1
    <3>1. k \in 1 .. Len(r) /\ ~ (k < i) /\ k + 1 = j
      BY <1>0, <1>1, <2>2
    <3> HIDE DEF k
    <3>2. r[k] = s[k + 1] /\ k \in DOMAIN r
      BY <1>1, <3>1
    <3> QED
      BY <3>1, <3>2
  <2> QED
    BY <1>0, <1>4, <2>1, <2>2
<1>5. {r[j] : j \in DOMAIN r} = {s[j] : j \in DOMAIN s} \ {s[i]}
  BY <1>3, <1>4
<1> QED
  BY <1>1, <1>2, <1>5 DEF r

LEMMA Removes ==
  ASSUME NEW h, NEW U, NEW L, Good(h, U, L), NEW c \in Chunks(h), NEW b \in Bin,
         h.chunk[c].bin = b
  PROVE  LET g == removeFromFreeList(h, c, b)
         IN  /\ Good(g, U, L \union {c})
             /\ g.chunk = [h.chunk EXCEPT ![c].bin = Nowhere]
             /\ g.freeSizeList = h.freeSizeList
             /\ g.lastChunk = h.lastChunk /\ g.fault = h.fault
<1> DEFINE g == removeFromFreeList(h, c, b)
           i == CHOOSE k \in DOMAIN h.freeList[b] : h.freeList[b][k] = c
<1>1. IsHeap(h)
  BY DEF Good
<1>2. i \in DOMAIN h.freeList[b] /\ h.freeList[b][i] = c
  <2>1. c \in In(h, b)
    BY DEF Good, Bins
  <2> QED
    BY <2>1 DEF In
<1>3. /\ g.chunk = [h.chunk EXCEPT ![c].bin = Nowhere]
      /\ g.freeList = [h.freeList EXCEPT ![b] = RemoveAt(@, i)]
      /\ g.freeSizeList = h.freeSizeList /\ g.lastChunk = h.lastChunk /\ g.fault = h.fault
      /\ g = [chunk |-> g.chunk, freeList |-> g.freeList, freeSizeList |-> g.freeSizeList,
              lastChunk |-> g.lastChunk, fault |-> g.fault]
  <2> HIDE DEF i
  <2>1. g = [h EXCEPT !.freeList[b] = RemoveAt(@, i), !.chunk[c].bin = Nowhere]
    BY DEF removeFromFreeList, i
  <2> HIDE DEF g
  <2> QED
    BY <1>1, <2>1 DEF IsHeap
<1>4. /\ RemoveAt(h.freeList[b], i) \in Seq(Int) /\ Once(RemoveAt(h.freeList[b], i))
      /\ {RemoveAt(h.freeList[b], i)[j] : j \in DOMAIN RemoveAt(h.freeList[b], i)}
           = In(h, b) \ {c}
  <2>1. h.freeList[b] \in Seq(Int) /\ Once(h.freeList[b])
    BY <1>1 DEF Good, Bins, IsHeap
  <2> QED
    BY <1>2, <2>1, RemovesAt DEF In
<1> HIDE DEF g, i
<1>5. /\ Chunks(g) = Chunks(h)
      /\ \A d \in Chunks(h) : /\ g.chunk[d] \in HeaderType /\ g.chunk[d].prev = h.chunk[d].prev
                              /\ g.chunk[d].size = h.chunk[d].size /\ g.chunk[d].used = h.chunk[d].used
                              /\ g.chunk[d].bin = IF d = c THEN Nowhere ELSE h.chunk[d].bin
  <2>1. Chunks(g) = Chunks(h)
    BY <1>3 DEF Chunks
  <2>2. ASSUME NEW d \in Chunks(h)
        PROVE  g.chunk[d] = IF d = c THEN [h.chunk[c] EXCEPT !.bin = Nowhere] ELSE h.chunk[d]
    BY <1>1, <1>3 DEF IsHeap, Chunks
  <2>3. ASSUME NEW d \in Chunks(h) PROVE h.chunk[d] \in HeaderType
    BY <1>1 DEF IsHeap
  <2> QED
    BY <2>1, <2>2, <2>3 DEF HeaderType
<1>6. IsHeap(g)
  <2>1. g.chunk \in [Chunks(g) -> HeaderType]
    BY <1>1, <1>3, <1>5 DEF IsHeap, Chunks
  <2>2. g.freeList \in [Bin -> Seq(Int)]
    BY <1>1, <1>3, <1>4 DEF IsHeap
  <2> QED
    BY <1>1, <1>3, <1>5, <2>1, <2>2 DEF IsHeap
<1>7. Tiles(g, U)
  BY <1>5 DEF Good, Tiles, Size, Span, NextInMem
<1>8. ASSUME NEW e \in Bin
      PROVE  Once(g.freeList[e]) /\ In(g, e) = {d \in Chunks(g) : g.chunk[d].bin = e}
  <2>1. CASE e = b
    <3>1. g.freeList[e] = RemoveAt(h.freeList[b], i)
      BY <1>1, <1>3, <2>1 DEF IsHeap
    <3>2. In(g, e) = In(h, b) \ {c} /\ Once(g.freeList[e])
      BY <1>4, <3>1 DEF In
    <3> QED
      BY <1>5, <2>1, <3>2, BinTypes DEF Good, Bins
  <2>2. CASE e # b
    <3>1. g.freeList[e] = h.freeList[e]
      BY <1>1, <1>3, <2>2 DEF IsHeap
    <3>2. In(g, e) = In(h, e)
      BY <3>1 DEF In
    <3> QED
      BY <1>5, <2>2, <3>1, <3>2, BinTypes DEF Good, Bins
  <2> QED
    BY <2>1, <2>2
<1>9. Bins(g, L \union {c})
  BY <1>3, <1>5, <1>8, BinTypes DEF Good, Bins, Size
<1> QED
  BY <1>3, <1>5, <1>6, <1>7, <1>9 DEF Good, g
LEMMA InsertsAt ==
  ASSUME NEW s \in Seq(Int), Once(s), NEW c \in Int, c \notin {s[j] : j \in DOMAIN s}
  PROVE  /\ <<c>> \o s \in Seq(Int) /\ Once(<<c>> \o s)
         /\ {(<<c>> \o s)[j] : j \in DOMAIN (<<c>> \o s)} = {s[j] : j \in DOMAIN s} \union {c}
<1> DEFINE r == <<c>> \o s
<1>1. /\ r \in Seq(Int) /\ Len(r) = Len(s) + 1 /\ Len(s) \in Nat
      /\ r[1] = c /\ \A j \in 1 .. Len(s) : r[j + 1] = s[j]
  OBVIOUS
<1> HIDE DEF r
<1>2. ASSUME NEW j \in DOMAIN r, j # 1
      PROVE  \E k \in DOMAIN s : j = k + 1 /\ r[j] = s[k]
  <2> DEFINE k == j - 1
  <2>1. k \in 1 .. Len(s) /\ j = k + 1
    BY <1>1, <1>2
  <2> HIDE DEF k
  <2>2. r[j] = s[k]
    BY <1>1, <2>1
  <2> QED
    BY <2>1, <2>2
<1>3. Once(r)
  <2> SUFFICES ASSUME NEW j \in DOMAIN r, NEW k \in DOMAIN r, r[j] = r[k] PROVE j = k
    BY DEF Once
  <2>1. CASE j # 1 /\ k # 1
    BY <1>2, <2>1 DEF Once
  <2>2. CASE j = 1 \/ k = 1
    BY <1>1, <1>2, <2>2
  <2> QED
    BY <2>1, <2>2
<1>4. ASSUME NEW k \in DOMAIN s PROVE k + 1 \in DOMAIN r /\ r[k + 1] = s[k]
  <2>1. k \in 1 .. Len(s) /\ k + 1 \in 1 .. Len(r)
    BY <1>1
  <2> QED
    BY <1>1, <2>1
<1>5. {r[j] : j \in DOMAIN r} \subseteq {s[j] : j \in DOMAIN s} \union {c}
  BY <1>1, <1>2
<1>6. ASSUME NEW k \in DOMAIN s PROVE s[k] \in {r[j] : j \in DOMAIN r}
  BY <1>4
<1>7. c \in {r[j] : j \in DOMAIN r}
  BY <1>1
<1>8. {r[j] : j \in DOMAIN r} = {s[j] : j \in DOMAIN s} \union {c}
  BY <1>5, <1>6, <1>7
<1> QED
  BY <1>1, <1>3, <1>8 DEF r

(* A slab takes chunks of its length only.                                 *)
Fits(h, b, s) == b \in 0 .. Slabs - 1 => s = h.freeSizeList[b]

LEMMA Inserts ==
  ASSUME NEW h, NEW U, NEW L, Good(h, U, L), NEW c \in Chunks(h), NEW b \in Bin,
         h.chunk[c].bin = Nowhere, Fits(h, b, Size(h, c))
  PROVE  LET g == insertToFreeList(h, c, b)
         IN  /\ Good(g, U, L \union {c})
             /\ g.chunk = [h.chunk EXCEPT ![c].bin = b]
             /\ g.freeSizeList = h.freeSizeList
             /\ g.lastChunk = h.lastChunk /\ g.fault = h.fault
<1> DEFINE g == insertToFreeList(h, c, b)
<1>1. IsHeap(h)
  BY DEF Good
<1>2. c \notin In(h, b) /\ c \in Int
  BY <1>1, BinTypes DEF Good, Bins, IsHeap
<1>3. /\ g.chunk = [h.chunk EXCEPT ![c].bin = b]
      /\ g.freeList = [h.freeList EXCEPT ![b] = <<c>> \o @]
      /\ g.freeSizeList = h.freeSizeList /\ g.lastChunk = h.lastChunk /\ g.fault = h.fault
      /\ g = [chunk |-> g.chunk, freeList |-> g.freeList, freeSizeList |-> g.freeSizeList,
              lastChunk |-> g.lastChunk, fault |-> g.fault]
  <2>1. g = [h EXCEPT !.freeList[b] = <<c>> \o @, !.chunk[c].bin = b]
    BY DEF insertToFreeList
  <2> HIDE DEF g
  <2> QED
    BY <1>1, <2>1 DEF IsHeap
<1>4. /\ <<c>> \o h.freeList[b] \in Seq(Int) /\ Once(<<c>> \o h.freeList[b])
      /\ {(<<c>> \o h.freeList[b])[j] : j \in DOMAIN (<<c>> \o h.freeList[b])}
           = In(h, b) \union {c}
  <2>1. h.freeList[b] \in Seq(Int) /\ Once(h.freeList[b])
    BY <1>1 DEF Good, Bins, IsHeap
  <2> QED
    BY <1>2, <2>1, InsertsAt DEF In
<1> HIDE DEF g
<1>5. /\ Chunks(g) = Chunks(h)
      /\ \A d \in Chunks(h) : /\ g.chunk[d] \in HeaderType /\ g.chunk[d].prev = h.chunk[d].prev
                              /\ g.chunk[d].size = h.chunk[d].size /\ g.chunk[d].used = h.chunk[d].used
                              /\ g.chunk[d].bin = IF d = c THEN b ELSE h.chunk[d].bin
  <2>1. Chunks(g) = Chunks(h)
    BY <1>3 DEF Chunks
  <2>2. ASSUME NEW d \in Chunks(h)
        PROVE  g.chunk[d] = IF d = c THEN [h.chunk[c] EXCEPT !.bin = b] ELSE h.chunk[d]
    BY <1>1, <1>3 DEF IsHeap, Chunks
  <2>3. ASSUME NEW d \in Chunks(h) PROVE h.chunk[d] \in HeaderType
    BY <1>1 DEF IsHeap
  <2> QED
    BY <2>1, <2>2, <2>3 DEF HeaderType
<1>6. IsHeap(g)
  <2>1. g.chunk \in [Chunks(g) -> HeaderType]
    BY <1>1, <1>3, <1>5 DEF IsHeap, Chunks
  <2>2. g.freeList \in [Bin -> Seq(Int)]
    BY <1>1, <1>3, <1>4 DEF IsHeap
  <2> QED
    BY <1>1, <1>3, <1>5, <2>1, <2>2 DEF IsHeap
<1>7. Tiles(g, U)
  BY <1>5 DEF Good, Tiles, Size, Span, NextInMem
<1>8. ASSUME NEW e \in Bin
      PROVE  Once(g.freeList[e]) /\ In(g, e) = {d \in Chunks(g) : g.chunk[d].bin = e}
  <2>1. CASE e = b
    <3>1. g.freeList[e] = <<c>> \o h.freeList[b]
      BY <1>1, <1>3, <2>1 DEF IsHeap
    <3>2. In(g, e) = In(h, b) \union {c} /\ Once(g.freeList[e])
      BY <1>4, <3>1 DEF In
    <3> QED
      BY <1>5, <2>1, <3>2, BinTypes DEF Good, Bins
  <2>2. CASE e # b
    <3>1. g.freeList[e] = h.freeList[e]
      BY <1>1, <1>3, <2>2 DEF IsHeap
    <3>2. In(g, e) = In(h, e)
      BY <3>1 DEF In
    <3>3. \A d \in Chunks(h) : g.chunk[d].bin = e <=> h.chunk[d].bin = e
      BY <1>5, <2>2, BinTypes
    <3> QED
      BY <1>5, <3>1, <3>2, <3>3 DEF Good, Bins
  <2> QED
    BY <2>1, <2>2
<1>9. Bins(g, L \union {c})
  BY <1>3, <1>5, <1>8, BinTypes DEF Good, Bins, Size, Fits
<1> QED
  BY <1>3, <1>5, <1>6, <1>7, <1>9 DEF Good, g
(* Steps on the headers that leave the bins alone.                         *)
Same(h, g, d) ==
  /\ g.chunk[d].size = h.chunk[d].size
  /\ g.chunk[d].used = h.chunk[d].used
  /\ g.chunk[d].bin = h.chunk[d].bin

LEMMA SameBins ==
  ASSUME NEW h, NEW U, NEW L, Good(h, U, L), NEW g, NEW M, IsHeap(g),
         g.freeList = h.freeList, g.freeSizeList = h.freeSizeList,
         \A d \in Chunks(g) : g.chunk[d].bin \in Bin =>
           d \in Chunks(h) /\ h.chunk[d].bin = g.chunk[d].bin /\ Size(h, d) = Size(g, d),
         \A d \in Chunks(h) : h.chunk[d].bin \in Bin =>
           d \in Chunks(g) /\ h.chunk[d].bin = g.chunk[d].bin,
         \A d \in Chunks(g) \ M : g.chunk[d].used <=> g.chunk[d].bin = Nowhere
  PROVE  Bins(g, M)
<1>1. ASSUME NEW b \in Bin PROVE In(g, b) = {c \in Chunks(g) : g.chunk[c].bin = b}
  <2>1. In(g, b) = {c \in Chunks(h) : h.chunk[c].bin = b}
    BY DEF Good, Bins, In
  <2> QED
    BY <2>1
<1>2. \A b \in Bin : Once(g.freeList[b])
  BY DEF Good, Bins
<1>3. \A c \in Chunks(g) : g.chunk[c].bin \in 0 .. Slabs - 1 =>
        Size(g, c) = g.freeSizeList[g.chunk[c].bin]
  BY BinTypes DEF Good, Bins
<1> QED
  BY <1>1, <1>2, <1>3 DEF Bins

LEMMA Flags ==
  ASSUME NEW h, NEW U, NEW L, Good(h, U, L), NEW c \in Chunks(h), NEW v \in BOOLEAN,
         v <=> h.chunk[c].bin = Nowhere
  PROVE  LET g == [h EXCEPT !.chunk[c].used = v]
         IN  /\ Good(g, U, L \ {c})
             /\ g.chunk = [h.chunk EXCEPT ![c].used = v]
             /\ g.freeSizeList = h.freeSizeList
             /\ g.lastChunk = h.lastChunk /\ g.fault = h.fault
<1> DEFINE g == [h EXCEPT !.chunk[c].used = v]
<1>1. IsHeap(h)
  BY DEF Good
<1>2. /\ g.chunk = [h.chunk EXCEPT ![c].used = v] /\ g.freeList = h.freeList
      /\ g.freeSizeList = h.freeSizeList /\ g.lastChunk = h.lastChunk /\ g.fault = h.fault
      /\ g = [chunk |-> g.chunk, freeList |-> g.freeList, freeSizeList |-> g.freeSizeList,
              lastChunk |-> g.lastChunk, fault |-> g.fault]
  <2>1. g = [h EXCEPT !.chunk[c].used = v]
    OBVIOUS
  <2> HIDE DEF g
  <2> QED
    BY <1>1, <2>1 DEF IsHeap
<1> HIDE DEF g
<1>3. /\ Chunks(g) = Chunks(h)
      /\ \A d \in Chunks(h) : /\ g.chunk[d] \in HeaderType
                              /\ g.chunk[d].size = h.chunk[d].size /\ g.chunk[d].bin = h.chunk[d].bin
                              /\ g.chunk[d].used = IF d = c THEN v ELSE h.chunk[d].used
  <2>1. Chunks(g) = Chunks(h)
    BY <1>2 DEF Chunks
  <2>2. ASSUME NEW d \in Chunks(h)
        PROVE  g.chunk[d] = IF d = c THEN [h.chunk[c] EXCEPT !.used = v] ELSE h.chunk[d]
    BY <1>1, <1>2 DEF IsHeap, Chunks
  <2>3. ASSUME NEW d \in Chunks(h) PROVE h.chunk[d] \in HeaderType
    BY <1>1 DEF IsHeap
  <2> QED
    BY <2>1, <2>2, <2>3 DEF HeaderType
<1>4. IsHeap(g)
  BY <1>1, <1>2, <1>3 DEF IsHeap, Chunks
<1>5. Tiles(g, U)
  BY <1>3 DEF Good, Tiles, Size, Span, NextInMem
<1> DEFINE M == L \ {c}
<1>6. \A d \in Chunks(g) \ M : g.chunk[d].used <=> g.chunk[d].bin = Nowhere
  BY <1>3 DEF Good, Bins
<1> HIDE DEF M
<1>7. Bins(g, M)
  <2>1. \A d \in Chunks(g) : g.chunk[d].bin \in Bin =>
           d \in Chunks(h) /\ h.chunk[d].bin = g.chunk[d].bin /\ Size(h, d) = Size(g, d)
    BY <1>3 DEF Size
  <2>2. \A d \in Chunks(h) : h.chunk[d].bin \in Bin =>
           d \in Chunks(g) /\ h.chunk[d].bin = g.chunk[d].bin
    BY <1>3
  <2>3. g.freeList = h.freeList /\ g.freeSizeList = h.freeSizeList
    BY <1>2
  <2> QED
    BY <1>4, <1>6, <2>1, <2>2, <2>3, SameBins
<1> QED
  BY <1>2, <1>3, <1>4, <1>5, <1>7 DEF Good, g, M

LEMMA Tags ==
  ASSUME NEW h, NEW U, NEW L, Good(h, U, L), NEW n, NEW s \in Int
  PROVE  LET g == SetPrevSize(h, n, s)
         IN  /\ Good(g, U, L) /\ Chunks(g) = Chunks(h)
             /\ \A d \in Chunks(h) : Same(h, g, d)
             /\ g.freeList = h.freeList /\ g.freeSizeList = h.freeSizeList
             /\ g.lastChunk = h.lastChunk /\ g.fault = h.fault
<1> DEFINE g == SetPrevSize(h, n, s)
<1>1. IsHeap(h)
  BY DEF Good
<1>2. CASE g = h
  BY <1>2 DEF Same
<1>3. CASE n \in Chunks(h) /\ g = [h EXCEPT !.chunk[n].prev = s]
  <2>1. /\ g.chunk = [h.chunk EXCEPT ![n].prev = s] /\ g.freeList = h.freeList
        /\ g.freeSizeList = h.freeSizeList /\ g.lastChunk = h.lastChunk /\ g.fault = h.fault
        /\ g = [chunk |-> g.chunk, freeList |-> g.freeList, freeSizeList |-> g.freeSizeList,
                lastChunk |-> g.lastChunk, fault |-> g.fault]
    BY <1>1, <1>3 DEF IsHeap
  <2> HIDE DEF g
  <2>2. Chunks(g) = Chunks(h) /\ \A d \in Chunks(h) : g.chunk[d] \in HeaderType /\ Same(h, g, d)
    <3>1. Chunks(g) = Chunks(h)
      BY <2>1 DEF Chunks
    <3>2. ASSUME NEW d \in Chunks(h)
          PROVE  g.chunk[d] = IF d = n THEN [h.chunk[n] EXCEPT !.prev = s] ELSE h.chunk[d]
      BY <1>1, <1>3, <2>1 DEF IsHeap, Chunks
    <3>3. ASSUME NEW d \in Chunks(h) PROVE h.chunk[d] \in HeaderType
      BY <1>1 DEF IsHeap
    <3> QED
      BY <3>1, <3>2, <3>3 DEF HeaderType, Same
  <2>3. IsHeap(g)
    BY <1>1, <2>1, <2>2 DEF IsHeap, Chunks
  <2>4. Tiles(g, U)
    BY <2>2 DEF Good, Tiles, Size, Span, NextInMem, Same
  <2>5. \A d \in Chunks(g) \ L : g.chunk[d].used <=> g.chunk[d].bin = Nowhere
    BY <2>2 DEF Good, Bins, Same
  <2>6. Bins(g, L)
    <3>1. \A d \in Chunks(g) : g.chunk[d].bin \in Bin =>
           d \in Chunks(h) /\ h.chunk[d].bin = g.chunk[d].bin /\ Size(h, d) = Size(g, d)
      BY <2>2 DEF Size, Same
    <3>2. \A d \in Chunks(h) : h.chunk[d].bin \in Bin =>
           d \in Chunks(g) /\ h.chunk[d].bin = g.chunk[d].bin
      BY <2>2 DEF Same
    <3> QED
      BY <2>1, <2>3, <2>5, <3>1, <3>2, SameBins
  <2> QED
    BY <2>1, <2>2, <2>3, <2>4, <2>6 DEF Good, g
<1>4. g = h \/ (n \in Chunks(h) /\ g = [h EXCEPT !.chunk[n].prev = s])
  BY DEF SetPrevSize
<1> QED
  BY <1>2, <1>3, <1>4
(* A header on a new chunk: h.chunk with k as the header of c.             *)
LEMMA ChunkSet ==
  ASSUME NEW h, IsHeap(h), NEW c \in Int, NEW k \in HeaderType
  PROVE  LET g == WithChunk(h, c, k)
         IN  /\ IsHeap(g) /\ Chunks(g) = Chunks(h) \union {c}
             /\ \A d \in Chunks(g) : g.chunk[d] = IF d = c THEN k ELSE h.chunk[d]
             /\ g.freeList = h.freeList /\ g.freeSizeList = h.freeSizeList
             /\ g.lastChunk = h.lastChunk /\ g.fault = h.fault
<1> DEFINE m == [d \in Chunks(h) \union {c} |-> IF d = c THEN k ELSE h.chunk[d]]
           g == WithChunk(h, c, k)
<1>1. m \in [Chunks(h) \union {c} -> HeaderType]
      /\ \A d \in Chunks(h) \union {c} : m[d] = IF d = c THEN k ELSE h.chunk[d]
  <2>1. \A d \in Chunks(h) : h.chunk[d] \in HeaderType
    BY DEF IsHeap
  <2> QED
    BY <2>1
<1>2. g = [h EXCEPT !.chunk = m]
  BY DEF WithChunk
<1> HIDE DEF m, g
<1>3. /\ g.chunk = m /\ g.freeList = h.freeList
      /\ g.freeSizeList = h.freeSizeList /\ g.lastChunk = h.lastChunk /\ g.fault = h.fault
      /\ g = [chunk |-> g.chunk, freeList |-> g.freeList, freeSizeList |-> g.freeSizeList,
              lastChunk |-> g.lastChunk, fault |-> g.fault]
  BY <1>2 DEF IsHeap
<1>4. Chunks(g) = Chunks(h) \union {c}
  BY <1>1, <1>3 DEF Chunks
<1>5. IsHeap(g)
  BY <1>1, <1>3, <1>4 DEF IsHeap
<1> QED
  BY <1>1, <1>3, <1>4, <1>5 DEF g

LEMMA LastChunks ==
  ASSUME NEW h, NEW U, NEW L, Good(h, U, L), NEW c \in Chunks(h)
  PROVE  LET g == [h EXCEPT !.lastChunk = c]
         IN  /\ Good(g, U, L) /\ g.chunk = h.chunk
             /\ g.freeList = h.freeList /\ g.freeSizeList = h.freeSizeList
             /\ g.fault = h.fault
<1> DEFINE g == [h EXCEPT !.lastChunk = c]
<1>1. IsHeap(h)
  BY DEF Good
<1>2. g = [h EXCEPT !.lastChunk = c]
  OBVIOUS
<1> HIDE DEF g
<1>3. /\ g.chunk = h.chunk /\ g.freeList = h.freeList
      /\ g.freeSizeList = h.freeSizeList /\ g.lastChunk = c /\ g.fault = h.fault
      /\ g = [chunk |-> g.chunk, freeList |-> g.freeList, freeSizeList |-> g.freeSizeList,
              lastChunk |-> g.lastChunk, fault |-> g.fault]
  BY <1>1, <1>2 DEF IsHeap
<1>4. Chunks(g) = Chunks(h) /\ c \in Int
  BY <1>1, <1>3 DEF Chunks, IsHeap
<1>5. IsHeap(g)
  BY <1>1, <1>3, <1>4 DEF IsHeap
<1>6. Tiles(g, U)
  BY <1>3, <1>4 DEF Good, Tiles, Size, Span, NextInMem
<1>7. Bins(g, L)
  BY <1>3, <1>4 DEF Good, Bins, In, Size
<1> QED
  BY <1>3, <1>4, <1>5, <1>6, <1>7 DEF Good, g

(* Memory behind all of U becomes a chunk.                                 *)
Behind(U, c) == U \subseteq Int /\ \A u \in U : u < c
Bytes(c, n) == c .. c + n - 1

LEMMA Extends ==
  ASSUME NEW h, NEW U, NEW L, Good(h, U, L), NEW c \in Int, NEW size \in Int, size > 0,
         NEW prev \in Int, Behind(U, c)
  PROVE  Good(WithChunk(h, c, Header(prev, size)), U \union Bytes(c, size), L \union {c})
<1> DEFINE g == WithChunk(h, c, Header(prev, size))
           V == U \union Bytes(c, size)
           M == L \union {c}
<1>1. IsHeap(h)
  BY DEF Good
<1>2. Header(prev, size) \in HeaderType
  BY DEF Header, HeaderType
<1>3. /\ IsHeap(g) /\ Chunks(g) = Chunks(h) \union {c}
      /\ \A d \in Chunks(g) : g.chunk[d] = IF d = c THEN Header(prev, size) ELSE h.chunk[d]
      /\ g.freeList = h.freeList /\ g.freeSizeList = h.freeSizeList
      /\ g.lastChunk = h.lastChunk /\ g.fault = h.fault
  BY <1>1, <1>2, ChunkSet
<1> HIDE DEF g
<1>4. c \notin Chunks(h)
  BY GoodTyped DEF Typed, Behind
<1>5. \A d \in Chunks(h) : g.chunk[d] = h.chunk[d] /\ Span(g, d) = Span(h, d) /\ Size(g, d) = Size(h, d)
  BY <1>3, <1>4 DEF Span, NextInMem, Size
<1>6. Span(g, c) = Bytes(c, size) /\ Size(g, c) = size
      /\ g.chunk[c].used = FALSE /\ g.chunk[c].bin = Nowhere
  BY <1>3 DEF Span, NextInMem, Size, Header, Bytes
<1>7. \A d \in Chunks(h) : Span(h, d) \intersect Bytes(c, size) = {}
  BY DEF Good, Tiles, Behind, Bytes
<1>8. Tiles(g, V)
  <2>1. \A d \in Chunks(g) : Size(g, d) > 0 /\ Span(g, d) \subseteq V
    BY <1>3, <1>5, <1>6 DEF Good, Tiles
  <2>2. \A a \in V : \E d \in Chunks(g) : a \in Span(g, d)
    BY <1>3, <1>5, <1>6 DEF Good, Tiles
  <2>3. \A d, e \in Chunks(g) : d # e => Span(g, d) \intersect Span(g, e) = {}
    BY <1>3, <1>5, <1>6, <1>7 DEF Good, Tiles
  <2> QED
    BY <2>1, <2>2, <2>3 DEF Tiles
<1>9. Bins(g, M)
  <2>1. \A d \in Chunks(g) : g.chunk[d].bin \in Bin =>
           d \in Chunks(h) /\ h.chunk[d].bin = g.chunk[d].bin /\ Size(h, d) = Size(g, d)
    BY <1>3, <1>5, <1>6, BinTypes
  <2>2. \A d \in Chunks(h) : h.chunk[d].bin \in Bin =>
           d \in Chunks(g) /\ h.chunk[d].bin = g.chunk[d].bin
    BY <1>3, <1>5
  <2>3. \A d \in Chunks(g) \ M : g.chunk[d].used <=> g.chunk[d].bin = Nowhere
    BY <1>3, <1>5 DEF Good, Bins
  <2>4. g.freeList = h.freeList /\ g.freeSizeList = h.freeSizeList
    BY <1>3
  <2> HIDE DEF M
  <2> QED
    BY <1>3, <2>1, <2>2, <2>3, <2>4, SameBins
<1> QED
  BY <1>3, <1>8, <1>9 DEF Good, g
(* A size written into the header of c.                                    *)
LEMMA Resized ==
  ASSUME NEW h, IsHeap(h), NEW c \in Chunks(h), NEW s \in Int
  PROVE  LET g == [h EXCEPT !.chunk[c].size = s]
         IN  /\ IsHeap(g) /\ Chunks(g) = Chunks(h) /\ Size(g, c) = s
             /\ g.chunk[c].used = h.chunk[c].used /\ g.chunk[c].bin = h.chunk[c].bin
             /\ \A d \in Chunks(h) \ {c} : g.chunk[d] = h.chunk[d]
             /\ g.freeList = h.freeList /\ g.freeSizeList = h.freeSizeList
             /\ g.lastChunk = h.lastChunk /\ g.fault = h.fault
<1> DEFINE g == [h EXCEPT !.chunk[c].size = s]
<1>1. g = [h EXCEPT !.chunk[c].size = s]
  OBVIOUS
<1> HIDE DEF g
<1>2. /\ g.chunk = [h.chunk EXCEPT ![c].size = s] /\ g.freeList = h.freeList
      /\ g.freeSizeList = h.freeSizeList /\ g.lastChunk = h.lastChunk /\ g.fault = h.fault
      /\ g = [chunk |-> g.chunk, freeList |-> g.freeList, freeSizeList |-> g.freeSizeList,
              lastChunk |-> g.lastChunk, fault |-> g.fault]
  BY <1>1 DEF IsHeap
<1>3. Chunks(g) = Chunks(h)
  BY <1>2 DEF Chunks
<1>4. ASSUME NEW d \in Chunks(h)
      PROVE  g.chunk[d] = IF d = c THEN [h.chunk[c] EXCEPT !.size = s] ELSE h.chunk[d]
  BY <1>2 DEF IsHeap, Chunks
<1>5. ASSUME NEW d \in Chunks(h) PROVE h.chunk[d] \in HeaderType
  BY DEF IsHeap
<1>6. /\ Size(g, c) = s /\ g.chunk[c].used = h.chunk[c].used /\ g.chunk[c].bin = h.chunk[c].bin
      /\ \A d \in Chunks(h) : g.chunk[d] \in HeaderType
  BY <1>4, <1>5 DEF HeaderType, Size
<1>7. IsHeap(g)
  BY <1>2, <1>3, <1>6 DEF IsHeap, Chunks
<1> QED
  BY <1>2, <1>3, <1>4, <1>6, <1>7 DEF g

(* The end of a chunk in no bin becomes a chunk of its own.                *)
Split(h, c, req) ==
  WithChunk([h EXCEPT !.chunk[c].size = req], c + req, Header(req, Size(h, c) - req))

LEMMA Cut ==
  ASSUME NEW h, NEW U, NEW L, Good(h, U, L), NEW c \in Chunks(h), h.chunk[c].bin = Nowhere,
         NEW req \in Int, 0 < req, req < Size(h, c)
  PROVE  LET s == Size(h, c)
             g == Split(h, c, req)
         IN  /\ Good(g, U, L \union {c + req})
             /\ c + req \notin Chunks(h) /\ Chunks(g) = Chunks(h) \union {c + req}
             /\ g.chunk[c + req] = Header(req, s - req)
             /\ Size(g, c) = req
             /\ g.chunk[c].used = h.chunk[c].used /\ g.chunk[c].bin = Nowhere
             /\ \A d \in Chunks(h) \ {c} : g.chunk[d] = h.chunk[d]
             /\ g.freeSizeList = h.freeSizeList
             /\ g.lastChunk = h.lastChunk /\ g.fault = h.fault
<1> DEFINE s == Size(h, c)
           rest == c + req
           k == Header(req, s - req)
           e == [h EXCEPT !.chunk[c].size = req]
           g == WithChunk(e, rest, k)
           M == L \union {rest}
<1>1. IsHeap(h) /\ c \in Int /\ s \in Int
  BY DEF Good, IsHeap, HeaderType, Size
<1>2. k \in HeaderType /\ k.used = FALSE /\ k.bin = Nowhere /\ k.size = s - req
  BY <1>1 DEF Header, HeaderType
<1>3. /\ IsHeap(e) /\ Chunks(e) = Chunks(h) /\ Size(e, c) = req
      /\ e.chunk[c].used = h.chunk[c].used /\ e.chunk[c].bin = h.chunk[c].bin
      /\ \A d \in Chunks(h) \ {c} : e.chunk[d] = h.chunk[d]
      /\ e.freeList = h.freeList /\ e.freeSizeList = h.freeSizeList
      /\ e.lastChunk = h.lastChunk /\ e.fault = h.fault
  BY <1>1, Resized
<1>4. rest \in Int /\ rest # c /\ rest \in Span(h, c)
  BY <1>1 DEF Span, NextInMem
<1> HIDE DEF e, k
<1>5. /\ IsHeap(g) /\ Chunks(g) = Chunks(e) \union {rest}
      /\ \A d \in Chunks(g) : g.chunk[d] = IF d = rest THEN k ELSE e.chunk[d]
      /\ g.freeList = e.freeList /\ g.freeSizeList = e.freeSizeList
      /\ g.lastChunk = e.lastChunk /\ g.fault = e.fault
  <2> HIDE DEF rest
  <2> QED
    BY <1>2, <1>3, <1>4, ChunkSet
<1> HIDE DEF g
<1>6. rest \notin Chunks(h)
  <2>1. SUFFICES ASSUME rest \in Chunks(h) PROVE FALSE
    OBVIOUS
  <2>2. Size(h, rest) \in Int /\ Size(h, rest) > 0
    BY <1>1, <2>1 DEF Good, Tiles, IsHeap, HeaderType, Size
  <2>3. rest \in Span(h, rest)
    BY <1>4, <2>2 DEF Span, NextInMem
  <2> QED
    BY <1>4, <2>1, <2>3 DEF Good, Tiles
<1>7. \A d \in Chunks(h) \ {c} : g.chunk[d] = h.chunk[d]
  BY <1>3, <1>5, <1>6
<1>8. /\ g.chunk[rest] = k /\ Size(g, c) = req
      /\ g.chunk[c].used = h.chunk[c].used /\ g.chunk[c].bin = Nowhere
  BY <1>3, <1>4, <1>5 DEF Size
<1>9. /\ Size(g, c) = req /\ Span(g, c) = c .. c + req - 1
      /\ Size(g, rest) = s - req /\ Span(g, rest) = c + req .. c + s - 1
      /\ \A d \in Chunks(h) \ {c} : Span(g, d) = Span(h, d) /\ Size(g, d) = Size(h, d)
  <2>1. Size(g, rest) = s - req
    BY <1>2, <1>8 DEF Size
  <2>2. Span(g, rest) = c + req .. c + s - 1
    <3>1. rest + (s - req) - 1 = c + s - 1
      BY <1>1
    <3> QED
      BY <1>1, <1>4, <2>1, <3>1 DEF Span, NextInMem
  <2>3. Span(g, c) = c .. c + req - 1
    BY <1>1, <1>8 DEF Span, NextInMem
  <2> QED
    BY <1>7, <1>8, <2>1, <2>2, <2>3 DEF Size, Span, NextInMem
<1>10. Span(h, c) = c .. c + s - 1
  BY <1>1 DEF Span, NextInMem
<1>11. Tiles(g, U)
  <2>1. Chunks(g) = (Chunks(h) \ {c}) \union {c, rest}
    BY <1>3, <1>5
  <2>2. Span(g, c) \subseteq Span(h, c) /\ Span(g, rest) \subseteq Span(h, c)
        /\ Span(g, c) \intersect Span(g, rest) = {}
    BY <1>1, <1>9, <1>10
  <2>3. \A a \in Span(h, c) : a \in Span(g, c) \/ a \in Span(g, rest)
    BY <1>1, <1>9, <1>10
  <2>4. Size(g, c) > 0 /\ Size(g, rest) > 0
    BY <1>1, <1>9
  <2>5. Tiles(h, U)
    BY DEF Good
  <2>6. \A d \in Chunks(g) : Size(g, d) > 0 /\ Span(g, d) \subseteq U
    <3> HIDE DEF rest
    <3> QED BY <1>9, <2>1, <2>2, <2>4, <2>5 DEF Tiles
  <2>7. \A a \in U : \E d \in Chunks(g) : a \in Span(g, d)
    <3> HIDE DEF rest
    <3> QED BY <1>9, <2>1, <2>3, <2>5 DEF Tiles
  <2>8. \A d, f \in Chunks(g) : d # f => Span(g, d) \intersect Span(g, f) = {}
    <3> HIDE DEF rest
    <3>1. \A d, f \in Chunks(h) \ {c} : d # f => Span(g, d) \intersect Span(g, f) = {}
      BY <1>9, <2>5 DEF Tiles
    <3>2. \A d \in Chunks(h) \ {c} : Span(g, d) \intersect Span(h, c) = {}
      BY <1>9, <2>5 DEF Tiles
    <3> QED BY <2>1, <2>2, <3>1, <3>2
  <2> QED
    BY <2>6, <2>7, <2>8 DEF Tiles
<1>12. Bins(g, M)
  <2>1. \A d \in Chunks(g) : g.chunk[d].bin \in Bin =>
           d \in Chunks(h) /\ h.chunk[d].bin = g.chunk[d].bin /\ Size(h, d) = Size(g, d)
    BY <1>2, <1>3, <1>5, <1>7, <1>8, <1>9, BinTypes
  <2>2. \A d \in Chunks(h) : h.chunk[d].bin \in Bin =>
           d \in Chunks(g) /\ h.chunk[d].bin = g.chunk[d].bin
    BY <1>3, <1>5, <1>7, <1>8
  <2>3. \A d \in Chunks(g) \ M : g.chunk[d].used <=> g.chunk[d].bin = Nowhere
    BY <1>3, <1>5, <1>7, <1>8 DEF Good, Bins
  <2>4. g.freeList = h.freeList /\ g.freeSizeList = h.freeSizeList
    BY <1>3, <1>5
  <2> HIDE DEF M
  <2> QED
    BY <1>5, <2>1, <2>2, <2>3, <2>4, SameBins
<1>13. Good(g, U, M)
  BY <1>3, <1>5, <1>11, <1>12 DEF Good
<1> QED
  BY <1>3, <1>5, <1>6, <1>7, <1>8, <1>13 DEF g, e, k, Split
(* Two neighbours in no bin become one chunk.                              *)
LEMMA Coalesces ==
  ASSUME NEW h, NEW U, NEW L, Good(h, U, L), NEW head \in Chunks(h), NEW tail \in Chunks(h),
         head # tail, h.chunk[head].bin = Nowhere, h.chunk[tail].bin = Nowhere,
         NextInMem(h, head) = tail
  PROVE  LET g == coalesce(h, head, tail)
         IN  /\ Good(g, U, L)
             /\ Chunks(g) = Chunks(h) \ {tail}
             /\ Size(g, head) = Size(h, head) + Size(h, tail)
             /\ g.chunk[head].used = h.chunk[head].used /\ g.chunk[head].bin = Nowhere
             /\ \A d \in Chunks(h) \ {head, tail} : Same(h, g, d)
             /\ g.freeSizeList = h.freeSizeList /\ g.fault = h.fault
<1> DEFINE s == Size(h, head) + Size(h, tail)
           t == SetPrevSize(h, NextInMem(h, tail), s)
           D == Chunks(h) \ {tail}
           m == Restrict([t.chunk EXCEPT ![head].size = s], D)
           l == IF tail = t.lastChunk THEN head ELSE t.lastChunk
           g == coalesce(h, head, tail)
<1>1. /\ IsHeap(h) /\ head \in Int /\ tail \in Int
      /\ Size(h, head) \in Int /\ Size(h, tail) \in Int /\ s \in Int
  BY DEF Good, IsHeap, HeaderType, Size
<1>2. g = [t EXCEPT !.chunk = m, !.lastChunk = l]
  BY DEF coalesce, Size
<1>3. /\ Good(t, U, L) /\ Chunks(t) = Chunks(h)
      /\ \A d \in Chunks(h) : Same(h, t, d)
      /\ t.freeList = h.freeList /\ t.freeSizeList = h.freeSizeList
      /\ t.lastChunk = h.lastChunk /\ t.fault = h.fault
  <2> HIDE DEF s, g, m, l
  <2> QED
    BY <1>1, Tags
<1>4. /\ t.chunk \in [Chunks(h) -> HeaderType] /\ IsHeap(t)
  BY <1>3 DEF Good, IsHeap
<1> HIDE DEF t, g, l
<1>5. /\ m \in [D -> HeaderType] /\ m[head].size = s
      /\ m[head].used = t.chunk[head].used /\ m[head].bin = t.chunk[head].bin
      /\ \A d \in D \ {head} : m[d] = t.chunk[d]
  <2> HIDE DEF s
  <2>1. \A d \in D : m[d] = IF d = head THEN [t.chunk[head] EXCEPT !.size = s] ELSE t.chunk[d]
    BY <1>4 DEF Restrict
  <2>2. \A d \in D : t.chunk[d] \in HeaderType
    BY <1>4
  <2>3. \A d \in D : m[d] \in HeaderType
    <3>1. t.chunk[head] \in HeaderType
      BY <2>2
    <3>2. [t.chunk[head] EXCEPT !.size = s] \in HeaderType
      BY <1>1, <3>1 DEF HeaderType
    <3> HIDE DEF m, t
    <3> QED
      BY <2>1, <2>2, <3>2
  <2>4. m = [d \in D |-> m[d]]
    BY DEF Restrict
  <2>5. head \in D
    OBVIOUS
  <2>6. m \in [D -> HeaderType]
    <3> HIDE DEF m
    <3> QED
      BY <2>3, <2>4
  <2> HIDE DEF m, D
  <2> QED
    BY <2>1, <2>2, <2>5, <2>6 DEF HeaderType
<1> HIDE DEF m
<1>6. /\ g.chunk = m /\ g.freeList = h.freeList /\ g.freeSizeList = h.freeSizeList
      /\ g.lastChunk = l /\ g.fault = h.fault
      /\ g = [chunk |-> g.chunk, freeList |-> g.freeList, freeSizeList |-> g.freeSizeList,
              lastChunk |-> g.lastChunk, fault |-> g.fault]
  BY <1>2, <1>3, <1>4 DEF IsHeap
<1>7. Chunks(g) = D
  BY <1>5, <1>6 DEF Chunks
<1>8. l \in D \union {Null} /\ l \in Int
  <2>1. t.lastChunk \in Chunks(h) \union {Null}
    BY <1>3 DEF Good
  <2>2. Chunks(h) \subseteq Int /\ Null \in Int
    BY <1>1 DEF IsHeap, Null
  <2>3. head \in D
    OBVIOUS
  <2> QED
    BY <2>1, <2>2, <2>3 DEF l
<1>9. IsHeap(g)
  BY <1>1, <1>5, <1>6, <1>7, <1>8 DEF IsHeap
<1>10. /\ Size(g, head) = s /\ g.chunk[head].used = h.chunk[head].used
       /\ g.chunk[head].bin = Nowhere
       /\ \A d \in Chunks(h) \ {head, tail} : Same(h, g, d)
  BY <1>3, <1>5, <1>6 DEF Size, Same
<1>11. Tiles(g, U)
  <2>1. \A d \in Chunks(h) \ {head, tail} : Size(g, d) = Size(h, d) /\ Span(g, d) = Span(h, d)
    BY <1>10 DEF Same, Size, Span, NextInMem
  <2>2. tail = head + Size(h, head) /\ Size(h, head) > 0 /\ Size(h, tail) > 0
    BY DEF NextInMem, Good, Tiles
  <2>3. Span(g, head) = Span(h, head) \union Span(h, tail)
    <3>1. Span(g, head) = head .. head + s - 1
      BY <1>1, <1>10 DEF Span, NextInMem
    <3>2. Span(h, head) = head .. head + Size(h, head) - 1
      BY <1>1 DEF Span, NextInMem
    <3>3. Span(h, tail) = tail .. tail + Size(h, tail) - 1
      BY <1>1 DEF Span, NextInMem
    <3> QED
      BY <1>1, <2>2, <3>1, <3>2, <3>3
  <2>4. Tiles(h, U)
    BY DEF Good
  <2>5. Size(g, head) > 0
    BY <1>1, <1>10, <2>2
  <2>6. \A d \in Chunks(g) : Size(g, d) > 0 /\ Span(g, d) \subseteq U
    BY <1>7, <2>1, <2>3, <2>4, <2>5 DEF Tiles
  <2>7. \A a \in U : \E d \in Chunks(g) : a \in Span(g, d)
    BY <1>7, <2>1, <2>3, <2>4 DEF Tiles
  <2>8. \A d, f \in Chunks(g) : d # f => Span(g, d) \intersect Span(g, f) = {}
    BY <1>7, <2>1, <2>3, <2>4 DEF Tiles
  <2> QED
    BY <2>6, <2>7, <2>8 DEF Tiles
<1>12. Bins(g, L)
  <2>1. \A d \in Chunks(g) : g.chunk[d].bin \in Bin =>
           d \in Chunks(h) /\ h.chunk[d].bin = g.chunk[d].bin /\ Size(h, d) = Size(g, d)
    BY <1>7, <1>10, BinTypes DEF Same, Size
  <2>2. \A d \in Chunks(h) : h.chunk[d].bin \in Bin =>
           d \in Chunks(g) /\ h.chunk[d].bin = g.chunk[d].bin
    BY <1>7, <1>10, BinTypes DEF Same
  <2>3. \A d \in Chunks(g) \ L : g.chunk[d].used <=> g.chunk[d].bin = Nowhere
    BY <1>7, <1>10 DEF Good, Bins, Same
  <2> QED
    BY <1>6, <1>9, <2>1, <2>2, <2>3, SameBins
<1>13. Good(g, U, L)
  BY <1>6, <1>7, <1>8, <1>9, <1>11, <1>12 DEF Good
<1> QED
  BY <1>6, <1>7, <1>10, <1>13 DEF g

(* New memory lengthens the chunk before it, which is in no bin.           *)
Longer(h, c, n) == [h EXCEPT !.chunk[c].size = @ + n]

LEMMA Grown ==
  ASSUME NEW h, NEW U, NEW L, Good(h, U, L), NEW c \in Chunks(h), h.chunk[c].bin = Nowhere,
         NEW n \in Int, 0 < n, Behind(U, NextInMem(h, c))
  PROVE  LET g == Longer(h, c, n)
         IN  /\ Good(g, U \union Bytes(NextInMem(h, c), n), L)
             /\ Chunks(g) = Chunks(h) /\ Size(g, c) = Size(h, c) + n
             /\ g.chunk[c].used = h.chunk[c].used /\ g.chunk[c].bin = Nowhere
             /\ \A d \in Chunks(h) \ {c} : g.chunk[d] = h.chunk[d]
             /\ g.freeSizeList = h.freeSizeList
             /\ g.lastChunk = h.lastChunk /\ g.fault = h.fault
<1> DEFINE s == Size(h, c) + n
           end == NextInMem(h, c)
           V == U \union Bytes(end, n)
           g == Longer(h, c, n)
<1>1. IsHeap(h) /\ c \in Int /\ Size(h, c) \in Int /\ s \in Int /\ end \in Int
      /\ end = c + Size(h, c) /\ Size(h, c) > 0
  BY DEF Good, Tiles, IsHeap, HeaderType, Size, NextInMem
<1>2. g = [h EXCEPT !.chunk[c].size = s]
  BY <1>1 DEF Size, IsHeap, Longer
<1>3. /\ IsHeap(g) /\ Chunks(g) = Chunks(h) /\ Size(g, c) = s
      /\ g.chunk[c].used = h.chunk[c].used /\ g.chunk[c].bin = h.chunk[c].bin
      /\ \A d \in Chunks(h) \ {c} : g.chunk[d] = h.chunk[d]
      /\ g.freeList = h.freeList /\ g.freeSizeList = h.freeSizeList
      /\ g.lastChunk = h.lastChunk /\ g.fault = h.fault
  <2> HIDE DEF s, g
  <2> QED
    BY <1>1, <1>2, Resized
<1> HIDE DEF g
<1>4. \A d \in Chunks(h) \ {c} : Span(g, d) = Span(h, d) /\ Size(g, d) = Size(h, d)
  BY <1>3 DEF Span, NextInMem, Size
<1>5. Span(g, c) = c .. c + s - 1 /\ Span(h, c) = c .. c + Size(h, c) - 1
  BY <1>1, <1>3 DEF Span, NextInMem
<1>6. Span(g, c) = Span(h, c) \union Bytes(end, n)
  <2> HIDE DEF end
  <2> QED
    BY <1>1, <1>5 DEF Bytes
<1>7. Tiles(g, V)
  <2>1. Tiles(h, U)
    BY DEF Good
  <2>2. Size(g, c) > 0
    BY <1>1, <1>3
  <2>3. \A d \in Chunks(h) : Span(h, d) \intersect Bytes(end, n) = {}
    <3>1. \A u \in U : u < end
      BY DEF Behind
    <3>2. U \intersect Bytes(end, n) = {}
      <4> HIDE DEF end
      <4> QED
        BY <1>1, <3>1 DEF Bytes
    <3> QED
      BY <2>1, <3>2 DEF Tiles
  <2> HIDE DEF end
  <2>4. \A d \in Chunks(g) : Size(g, d) > 0 /\ Span(g, d) \subseteq V
    BY <1>3, <1>4, <1>6, <2>1, <2>2 DEF Tiles
  <2>5. \A a \in V : \E d \in Chunks(g) : a \in Span(g, d)
    BY <1>3, <1>4, <1>6, <2>1 DEF Tiles
  <2>6. \A d, f \in Chunks(g) : d # f => Span(g, d) \intersect Span(g, f) = {}
    BY <1>3, <1>4, <1>6, <2>1, <2>3 DEF Tiles
  <2> QED
    BY <2>4, <2>5, <2>6 DEF Tiles
<1>8. Bins(g, L)
  <2>1. \A d \in Chunks(g) : g.chunk[d].bin \in Bin =>
           d \in Chunks(h) /\ h.chunk[d].bin = g.chunk[d].bin /\ Size(h, d) = Size(g, d)
    BY <1>3, <1>4, BinTypes
  <2>2. \A d \in Chunks(h) : h.chunk[d].bin \in Bin =>
           d \in Chunks(g) /\ h.chunk[d].bin = g.chunk[d].bin
    BY <1>3, BinTypes
  <2>3. \A d \in Chunks(g) \ L : g.chunk[d].used <=> g.chunk[d].bin = Nowhere
    BY <1>3 DEF Good, Bins
  <2> QED
    BY <1>3, <2>1, <2>2, <2>3, SameBins
<1>9. Good(g, V, L)
  BY <1>3, <1>7, <1>8 DEF Good
<1> QED
  BY <1>3, <1>9 DEF g
(* A chunk whose flag and bin agree, or that is gone, need not be named.   *)
LEMMA Settles ==
  ASSUME NEW h, NEW U, NEW L, Good(h, U, L), NEW M,
         \A c \in Chunks(h) : c \in L \ M => (h.chunk[c].used <=> h.chunk[c].bin = Nowhere)
  PROVE  Good(h, U, M)
BY DEF Good, Bins

LEMMA Stops ==
  ASSUME NEW h, NEW U, Typed(h, U), NEW why \in Faults \ {"none"}
  PROVE  Typed(Stop(h, why), U) /\ ~ Runs(Stop(h, why))
<1> DEFINE g == Stop(h, why)
<1>1. IsHeap(h) /\ why \in Faults
  BY DEF Typed
<1>2. /\ g.chunk = h.chunk /\ g.freeList = h.freeList
      /\ g.freeSizeList = h.freeSizeList /\ g.lastChunk = h.lastChunk /\ g.fault = why
      /\ g = [chunk |-> g.chunk, freeList |-> g.freeList, freeSizeList |-> g.freeSizeList,
              lastChunk |-> g.lastChunk, fault |-> g.fault]
  <2>1. g = [h EXCEPT !.fault = why]
    BY DEF Stop
  <2> HIDE DEF g
  <2> QED
    BY <1>1, <2>1 DEF IsHeap
<1> HIDE DEF g
<1>3. Chunks(g) = Chunks(h)
  BY <1>2 DEF Chunks
<1>4. IsHeap(g)
  BY <1>1, <1>2, <1>3 DEF IsHeap
<1>5. Typed(g, U)
  BY <1>2, <1>3, <1>4 DEF Typed
<1>6. ~ Runs(g)
  BY <1>2 DEF Runs
<1> QED
  BY <1>5, <1>6 DEF g

LEMMA Wider == ASSUME NEW h, NEW U, NEW V, Typed(h, U), U \subseteq V PROVE Typed(h, V)
BY DEF Typed

(* getBinIndex: a slab of that length, or the residue.                     *)
LEMMA BinFits ==
  ASSUME NEW h, NEW s
  PROVE  getBinIndex(h, s) \in Bin /\ Fits(h, getBinIndex(h, s), s)
<1> DEFINE fit == {i \in 0 .. Slabs - 1 : h.freeSizeList[i] = s}
<1>1. getBinIndex(h, s) = IF fit = {} THEN Residue ELSE MmapSet!Least(fit)
  BY DEF getBinIndex
<1>2. fit \in SUBSET Nat /\ fit \subseteq 0 .. Slabs - 1
  OBVIOUS
<1>3. fit # {} => MmapSet!Least(fit) \in fit
  <2> HIDE DEF fit
  <2> QED
    BY <1>2, LeastIsIn
<1>4. Residue \in Bin /\ Residue \notin 0 .. Slabs - 1 /\ 0 .. Slabs - 1 \subseteq Bin
  BY SlabsAssumption DEF Bin, Residue
<1>5. CASE fit = {}
  BY <1>1, <1>4, <1>5 DEF Fits
<1>6. CASE fit # {}
  <2>1. getBinIndex(h, s) \in fit
    BY <1>1, <1>3, <1>6
  <2> QED
    BY <1>4, <2>1 DEF Fits
<1> QED
  BY <1>5, <1>6

(* findChunk: nothing, or a chunk of the bin it names, long enough.        *)
LEMMA Finds ==
  ASSUME NEW h, NEW U, NEW L, Good(h, U, L), NEW req \in Int
  PROVE  LET f == findChunk(h, req)
         IN  /\ f.bin \in Bin
             /\ f.at # Null => /\ f.at \in Chunks(h) /\ h.chunk[f.at].bin = f.bin
                               /\ Size(h, f.at) >= req
<1> DEFINE i == getBinIndex(h, req)
           residue == h.freeList[Residue]
           fit == {k \in DOMAIN residue : Size(h, residue[k]) >= req}
           f == findChunk(h, req)
<1>1. i \in Bin /\ Fits(h, i, req)
  BY BinFits
<1>2. f = IF i # Residue /\ h.freeList[i] # << >>
          THEN [at |-> Head(h.freeList[i]), bin |-> i]
          ELSE [at |-> IF fit = {} THEN Null ELSE residue[MmapSet!Least(fit)], bin |-> Residue]
  BY DEF findChunk
<1>3. IsHeap(h) /\ Residue \in Bin
  BY BinTypes DEF Good
<1>4. residue \in Seq(Int) /\ h.freeList[i] \in Seq(Int)
  BY <1>1, <1>3 DEF IsHeap
<1>5. fit # {} => MmapSet!Least(fit) \in fit
  <2>1. fit \in SUBSET Nat
    BY <1>4
  <2> HIDE DEF fit
  <2> QED
    BY <2>1, LeastIsIn
<1> SUFFICES /\ f.bin \in Bin
             /\ f.at # Null => /\ f.at \in Chunks(h) /\ h.chunk[f.at].bin = f.bin
                               /\ Size(h, f.at) >= req
  OBVIOUS
<1> HIDE DEF f, i
<1>6. CASE i # Residue /\ h.freeList[i] # << >>
  <2>1. f.at = h.freeList[i][1] /\ 1 \in DOMAIN h.freeList[i] /\ f.bin = i
    BY <1>2, <1>4, <1>6
  <2>2. f.at \in Chunks(h) /\ h.chunk[f.at].bin = i
    BY <1>1, <2>1 DEF Good, Bins, In
  <2>3. i \in 0 .. Slabs - 1
    BY <1>1, <1>6, BinTypes
  <2>4. Size(h, f.at) = req
    BY <1>1, <2>2, <2>3 DEF Good, Bins, Fits
  <2> QED
    BY <1>1, <2>1, <2>2, <2>4
<1>7. CASE ~ (i # Residue /\ h.freeList[i] # << >>) /\ fit = {}
  BY <1>2, <1>3, <1>7
<1>8. CASE ~ (i # Residue /\ h.freeList[i] # << >>) /\ fit # {}
  <2> DEFINE k == MmapSet!Least(fit)
  <2>1. k \in DOMAIN residue /\ Size(h, residue[k]) >= req
    BY <1>5, <1>8
  <2>2. f.at = residue[k] /\ f.bin = Residue
    BY <1>2, <1>8
  <2> HIDE DEF k
  <2>3. f.at \in Chunks(h) /\ h.chunk[f.at].bin = Residue
    BY <1>3, <2>1, <2>2 DEF Good, Bins, In
  <2> QED
    BY <1>3, <2>1, <2>2, <2>3
<1> QED
  BY <1>6, <1>7, <1>8
-----------------------------------------------------------------------------
(* The operations.                                                         *)

(* The chunks the program holds, and that their sizes are what they were.  *)
Held(h) == {c \in Chunks(h) : h.chunk[c].used}
Kept(h, g, S) == \A d \in S : Size(g, d) = Size(h, d)

(* Join: the assert of coalesce, or a longer chunk at head, in no bin.     *)
Joined(h, g, U, L, free, head, tail) ==
  /\ Typed(g, U)
  /\ NextInMem(h, head) # tail => ~ Runs(g)
  /\ NextInMem(h, head) = tail =>
       /\ Good(g, U, L \union {free}) /\ Runs(g)
       /\ Chunks(g) = Chunks(h) \ {tail}
       /\ g.chunk[head].used = h.chunk[head].used /\ g.chunk[head].bin = Nowhere
       /\ \A d \in Chunks(h) \ {head, tail} : Same(h, g, d)

LEMMA Joins ==
  ASSUME NEW h, NEW U, NEW L, Good(h, U, L), Runs(h),
         NEW head \in Chunks(h), NEW tail \in Chunks(h), head # tail,
         NEW free \in {head, tail}, h.chunk[free].bin \in Bin,
         free = head \/ h.chunk[head].bin = Nowhere,
         free = tail \/ h.chunk[tail].bin = Nowhere
  PROVE  Joined(h, Join(h, free, head, tail, h.chunk[free].bin), U, L, free, head, tail)
<1> DEFINE b == h.chunk[free].bin
           out == removeFromFreeList(h, free, b)
           M == L \union {free}
           g == Join(h, free, head, tail, b)
<1>1. /\ Good(out, U, M)
      /\ out.chunk = [h.chunk EXCEPT ![free].bin = Nowhere]
      /\ out.freeSizeList = h.freeSizeList /\ out.fault = h.fault
  <2>1. free \in Chunks(h)
    OBVIOUS
  <2> QED
    BY <2>1, Removes
<1>2. g = coalesce(out, head, tail) /\ Runs(out)
  BY <1>1 DEF Join, Runs
<1>3. IsHeap(h)
  BY DEF Good
<1> HIDE DEF out, g
<1>4. /\ Chunks(out) = Chunks(h)
      /\ \A d \in Chunks(h) : /\ Size(out, d) = Size(h, d) /\ out.chunk[d].used = h.chunk[d].used
                              /\ out.chunk[d].size = h.chunk[d].size
                              /\ out.chunk[d].bin = IF d = free THEN Nowhere ELSE h.chunk[d].bin
  <2>1. Chunks(out) = Chunks(h)
    BY <1>1 DEF Chunks
  <2>2. ASSUME NEW d \in Chunks(h)
        PROVE  out.chunk[d] = IF d = free THEN [h.chunk[free] EXCEPT !.bin = Nowhere] ELSE h.chunk[d]
    BY <1>1, <1>3 DEF IsHeap, Chunks
  <2>3. ASSUME NEW d \in Chunks(h) PROVE h.chunk[d] \in HeaderType
    BY <1>3 DEF IsHeap
  <2> QED
    BY <2>1, <2>2, <2>3 DEF HeaderType, Size
<1>5. out.chunk[head].bin = Nowhere /\ out.chunk[tail].bin = Nowhere
  BY <1>4
<1>6. NextInMem(out, head) = NextInMem(h, head)
  BY <1>4 DEF NextInMem
<1>7. CASE NextInMem(h, head) # tail
  <2>1. g = Stop(out, "tag")
    BY <1>2, <1>6, <1>7 DEF coalesce
  <2>2. Typed(out, U)
    BY <1>1, GoodTyped
  <2>3. "tag" \in Faults \ {"none"}
    BY DEF Faults
  <2>4. Typed(g, U) /\ ~ Runs(g)
    BY <2>1, <2>2, <2>3, Stops
  <2> QED
    BY <1>7, <2>4 DEF g, Joined
<1>8. CASE NextInMem(h, head) = tail
  <2>1. /\ Good(g, U, M)
        /\ Chunks(g) = Chunks(out) \ {tail}
        /\ g.chunk[head].used = out.chunk[head].used /\ g.chunk[head].bin = Nowhere
        /\ \A d \in Chunks(out) \ {head, tail} : Same(out, g, d)
        /\ g.fault = out.fault
    <3>1. head \in Chunks(out) /\ tail \in Chunks(out) /\ NextInMem(out, head) = tail
      BY <1>4, <1>6, <1>8
    <3>2. Good(out, U, M) /\ g = coalesce(out, head, tail)
      BY <1>1, <1>2
    <3> HIDE DEF M
    <3> QED
      BY <1>5, <3>1, <3>2, Coalesces
  <2>2. Typed(g, U)
    BY <2>1, GoodTyped
  <2>3. Runs(g)
    BY <1>1, <2>1 DEF Runs
  <2>4. \A d \in Chunks(h) \ {head, tail} : Same(h, g, d)
    BY <1>4, <2>1 DEF Same
  <2> QED
    BY <1>4, <1>8, <2>1, <2>2, <2>3, <2>4 DEF g, Joined
<1> QED
  BY <1>7, <1>8

(* useChunk, of a chunk of the bin it is told.                             *)
Used(h, g, U, c, req) ==
  /\ Good(g, U, {}) /\ Runs(g)
  /\ Held(g) = Held(h) \union {c} /\ c \notin Held(h)
  /\ Size(g, c) >= req /\ Kept(h, g, Held(h))

LEMMA Uses ==
  ASSUME NEW h, NEW U, Good(h, U, {}), Runs(h), NEW c \in Chunks(h), NEW b \in Bin,
         h.chunk[c].bin = b, NEW req \in Int, 0 < req, req <= Size(h, c)
  PROVE  Used(h, useChunk(h, c, req, b), U, c, req)
<1> DEFINE s == Size(h, c)
           rest == c + req
           out == removeFromFreeList(h, c, b)
           cut == WithChunk([out EXCEPT !.chunk[c].size = req], rest, Header(req, s - req))
           tagged == SetPrevSize(cut, c + s, s - req)
           r == getBinIndex(h, s - req)
           binned == insertToFreeList(tagged, rest, r)
           split == [binned EXCEPT !.lastChunk = IF rest > @ THEN rest ELSE @]
           long == s >= req + MIN_CHUNK_SIZE
           e == IF long THEN split ELSE out
           g == useChunk(h, c, req, b)
<1>0. IsHeap(h) /\ c \in Int /\ s \in Int /\ c \notin Held(h)
  BY BinTypes DEF Good, Bins, IsHeap, HeaderType, Size, Held
<1>1. /\ Good(out, U, {c})
      /\ out.chunk = [h.chunk EXCEPT ![c].bin = Nowhere]
      /\ out.freeSizeList = h.freeSizeList /\ out.fault = h.fault
  <2>1. {} \union {c} = {c}
    OBVIOUS
  <2> HIDE DEF out
  <2>2. /\ Good(out, U, {} \union {c})
        /\ out.chunk = [h.chunk EXCEPT ![c].bin = Nowhere]
        /\ out.freeSizeList = h.freeSizeList /\ out.fault = h.fault
    BY Removes DEF out
  <2> QED
    BY <2>1, <2>2
<1>2. g = [e EXCEPT !.chunk[c].used = TRUE]
  BY <1>1 DEF useChunk, Runs
<1> HIDE DEF out, g
<1>3. /\ Chunks(out) = Chunks(h)
      /\ \A d \in Chunks(h) : /\ Size(out, d) = Size(h, d) /\ out.chunk[d].used = h.chunk[d].used
                              /\ out.chunk[d].bin = IF d = c THEN Nowhere ELSE h.chunk[d].bin
  <2>1. Chunks(out) = Chunks(h)
    BY <1>1 DEF Chunks
  <2>2. ASSUME NEW d \in Chunks(h)
        PROVE  out.chunk[d] = IF d = c THEN [h.chunk[c] EXCEPT !.bin = Nowhere] ELSE h.chunk[d]
    BY <1>0, <1>1 DEF IsHeap, Chunks
  <2>3. ASSUME NEW d \in Chunks(h) PROVE h.chunk[d] \in HeaderType
    BY <1>0 DEF IsHeap
  <2> QED
    BY <2>1, <2>2, <2>3 DEF HeaderType, Size
(* Before the chunk is marked as in use. *)
<1>4. /\ Good(e, U, {c}) /\ c \in Chunks(e) /\ e.chunk[c].bin = Nowhere /\ e.fault = h.fault
      /\ Size(e, c) >= req /\ Held(e) = Held(h) /\ Kept(h, e, Held(h))
  <2>1. CASE ~ long
    <3>1. e = out
      BY <2>1
    <3>2. c \in Chunks(out) /\ out.chunk[c].bin = Nowhere /\ Size(out, c) >= req
      BY <1>3
    <3>3. Held(out) = Held(h) /\ Kept(h, out, Held(h))
      BY <1>3 DEF Held, Kept
    <3> QED
      BY <1>1, <3>1, <3>2, <3>3
  <2>2. CASE long
    <3>1. e = split /\ 0 < req /\ req < s /\ s = Size(out, c)
      BY <1>0, <1>3, <2>2, UnitsAssumption DEF MIN_CHUNK_SIZE
    <3>2. c \in Chunks(out) /\ out.chunk[c].bin = Nowhere
      BY <1>3
    <3>3. /\ Good(cut, U, {c} \union {rest})
          /\ rest \notin Chunks(out) /\ Chunks(cut) = Chunks(out) \union {rest}
          /\ cut.chunk[rest] = Header(req, s - req)
          /\ Size(cut, c) = req
          /\ cut.chunk[c].used = out.chunk[c].used /\ cut.chunk[c].bin = Nowhere
          /\ \A d \in Chunks(out) \ {c} : cut.chunk[d] = out.chunk[d]
          /\ cut.freeSizeList = out.freeSizeList
          /\ cut.lastChunk = out.lastChunk /\ cut.fault = out.fault
      <4>1. Good(out, U, {c}) /\ req < Size(out, c)
        BY <1>1, <3>1
      <4>2. cut = Split(out, c, req)
        BY <3>1 DEF Split
      <4> HIDE DEF cut
      <4>3. /\ Good(cut, U, {c} \union {c + req})
            /\ c + req \notin Chunks(out) /\ Chunks(cut) = Chunks(out) \union {c + req}
            /\ cut.chunk[c + req] = Header(req, Size(out, c) - req)
            /\ Size(cut, c) = req
            /\ cut.chunk[c].used = out.chunk[c].used /\ cut.chunk[c].bin = Nowhere
            /\ \A d \in Chunks(out) \ {c} : cut.chunk[d] = out.chunk[d]
            /\ cut.freeSizeList = out.freeSizeList
            /\ cut.lastChunk = out.lastChunk /\ cut.fault = out.fault
        <5> HIDE DEF s
        <5> QED
          BY <3>2, <4>1, <4>2, Cut
      <4> QED
        BY <3>1, <4>3
    <3> HIDE DEF cut
    <3>4. cut.chunk[rest].used = FALSE /\ cut.chunk[rest].bin = Nowhere /\ Size(cut, rest) = s - req
      BY <3>3 DEF Header, Size
    <3>5. /\ Good(tagged, U, {c} \union {rest}) /\ Chunks(tagged) = Chunks(cut)
          /\ \A d \in Chunks(cut) : Same(cut, tagged, d)
          /\ tagged.freeSizeList = cut.freeSizeList
          /\ tagged.lastChunk = cut.lastChunk /\ tagged.fault = cut.fault
      <4>1. s - req \in Int
        BY <1>0
      <4> HIDE DEF rest
      <4> DEFINE x == s - req
      <4> HIDE DEF x
      <4> QED
        BY <3>3, <4>1, Tags DEF x
    <3> HIDE DEF tagged
    <3>6. /\ rest \in Chunks(tagged) /\ tagged.chunk[rest].bin = Nowhere
          /\ Size(tagged, rest) = s - req /\ tagged.chunk[rest].used = FALSE
      BY <3>3, <3>4, <3>5 DEF Same, Size
    <3>7. r \in Bin /\ Fits(tagged, r, Size(tagged, rest))
      <4>1. r \in Bin /\ Fits(h, r, s - req)
        BY BinFits
      <4> QED
        BY <1>1, <3>3, <3>5, <3>6, <4>1 DEF Fits
    <3> HIDE DEF r
    <3>8. /\ Good(binned, U, ({c} \union {rest}) \union {rest})
          /\ binned.chunk = [tagged.chunk EXCEPT ![rest].bin = r]
          /\ binned.lastChunk = tagged.lastChunk /\ binned.fault = tagged.fault
      <4> HIDE DEF rest
      <4> QED
        BY <3>5, <3>6, <3>7, Inserts
    <3> HIDE DEF binned
    <3>9. /\ Chunks(binned) = Chunks(tagged)
          /\ \A d \in Chunks(tagged) :
               /\ Size(binned, d) = Size(tagged, d)
               /\ binned.chunk[d].used = tagged.chunk[d].used
               /\ binned.chunk[d].bin = IF d = rest THEN r ELSE tagged.chunk[d].bin
      <4>1. Chunks(binned) = Chunks(tagged)
        BY <3>8 DEF Chunks
      <4>2. ASSUME NEW d \in Chunks(tagged) PROVE tagged.chunk[d] \in HeaderType
        BY <3>5 DEF Good, IsHeap
      <4>3. tagged.chunk \in [Chunks(tagged) -> HeaderType]
        BY <3>5 DEF Good, IsHeap
      <4>4. ASSUME NEW d \in Chunks(tagged)
            PROVE  binned.chunk[d] = IF d = rest THEN [tagged.chunk[rest] EXCEPT !.bin = r]
                                     ELSE tagged.chunk[d]
        <5> HIDE DEF rest
        <5> QED
          BY <3>8, <4>3
      <4> HIDE DEF rest
      <4> QED
        BY <4>1, <4>2, <4>4 DEF HeaderType, Size
    <3>10. Good(binned, U, {c})
      <4>1. binned.chunk[rest].used <=> binned.chunk[rest].bin = Nowhere
        BY <3>6, <3>7, <3>9, BinTypes
      <4> DEFINE A == ({c} \union {rest}) \union {rest}
      <4>2. \A d \in A \ {c} : d = rest
        OBVIOUS
      <4> HIDE DEF A, rest
      <4>3. Good(binned, U, A)
        BY <3>8 DEF A
      <4> QED
        BY <4>1, <4>2, <4>3, Settles
    <3>11. /\ Good(split, U, {c}) /\ split.chunk = binned.chunk /\ split.fault = binned.fault
      <4> DEFINE x == IF rest > binned.lastChunk THEN rest ELSE binned.lastChunk
      <4>1. split = [binned EXCEPT !.lastChunk = x]
        BY <3>10 DEF Good, IsHeap
      <4>2. CASE rest > binned.lastChunk
        <5>1. rest \in Chunks(binned) /\ split = [binned EXCEPT !.lastChunk = rest]
          BY <3>6, <3>9, <4>1, <4>2
        <5> HIDE DEF split, rest
        <5> QED
          BY <3>10, <5>1, LastChunks
      <4>3. CASE ~ (rest > binned.lastChunk)
        <5>1. split = binned
          BY <3>10, <4>1, <4>3 DEF Good, IsHeap
        <5> QED
          BY <3>10, <5>1
      <4> QED
        BY <4>2, <4>3
    <3> HIDE DEF split
    <3>12. Chunks(split) = Chunks(h) \union {rest} /\ rest \notin Chunks(h)
      BY <1>3, <3>3, <3>5, <3>9, <3>11 DEF Chunks
    <3>13. ASSUME NEW d \in Chunks(h)
           PROVE  /\ split.chunk[d].used = h.chunk[d].used
                  /\ Size(split, d) = IF d = c THEN req ELSE Size(h, d)
                  /\ d = c => split.chunk[d].bin = Nowhere
      <4>1. d \in Chunks(cut) /\ d \in Chunks(tagged) /\ d # rest
        BY <1>3, <3>3, <3>5
      <4>2. cut.chunk[d].used = h.chunk[d].used
            /\ Size(cut, d) = (IF d = c THEN req ELSE Size(h, d))
            /\ (d = c => cut.chunk[d].bin = Nowhere)
        BY <1>3, <3>3 DEF Size
      <4>3. tagged.chunk[d].used = h.chunk[d].used
            /\ Size(tagged, d) = (IF d = c THEN req ELSE Size(h, d))
            /\ (d = c => tagged.chunk[d].bin = Nowhere)
        BY <3>5, <4>1, <4>2 DEF Same, Size
      <4> QED
        BY <3>9, <3>11, <4>1, <4>3 DEF Size
    <3>14. split.chunk[rest].used = FALSE
      BY <3>6, <3>9, <3>11
    <3>15. Held(split) = Held(h) /\ Kept(h, split, Held(h))
      BY <1>0, <3>12, <3>13, <3>14 DEF Held, Kept
    <3>16. split.fault = h.fault
      BY <1>1, <3>3, <3>5, <3>8, <3>11
    <3> QED
      BY <3>1, <3>11, <3>12, <3>13, <3>15, <3>16
  <2> QED
    BY <2>1, <2>2
<1> HIDE DEF e
<1>5. /\ Good(g, U, {c} \ {c})
      /\ g.chunk = [e.chunk EXCEPT ![c].used = TRUE]
      /\ g.fault = e.fault
  <2> DEFINE v == TRUE
  <2>1. v \in BOOLEAN /\ (v <=> e.chunk[c].bin = Nowhere) /\ g = [e EXCEPT !.chunk[c].used = v]
    BY <1>2, <1>4
  <2>2. Good(e, U, {c}) /\ c \in Chunks(e)
    BY <1>4
  <2>3. v = TRUE
    OBVIOUS
  <2> HIDE DEF v
  <2>4. /\ Good(g, U, {c} \ {c})
        /\ g.chunk = [e.chunk EXCEPT ![c].used = v]
        /\ g.fault = e.fault
    BY <2>1, <2>2, Flags
  <2> QED
    BY <2>3, <2>4
<1>6. Good(g, U, {})
  <2>1. {c} \ {c} = {}
    OBVIOUS
  <2> QED
    BY <1>5, <2>1
<1>7. /\ Chunks(g) = Chunks(e)
      /\ \A d \in Chunks(e) : /\ Size(g, d) = Size(e, d)
                              /\ g.chunk[d].used = IF d = c THEN TRUE ELSE e.chunk[d].used
  <2>1. Chunks(g) = Chunks(e)
    BY <1>5 DEF Chunks
  <2>2. ASSUME NEW d \in Chunks(e) PROVE e.chunk[d] \in HeaderType
    BY <1>4 DEF Good, IsHeap
  <2>3. e.chunk \in [Chunks(e) -> HeaderType]
    BY <1>4 DEF Good, IsHeap
  <2>4. ASSUME NEW d \in Chunks(e)
        PROVE  g.chunk[d] = IF d = c THEN [e.chunk[c] EXCEPT !.used = TRUE] ELSE e.chunk[d]
    BY <1>5, <2>3
  <2> QED
    BY <2>1, <2>2, <2>4 DEF HeaderType, Size
<1>8. Held(g) = Held(h) \union {c}
  BY <1>4, <1>7 DEF Held
<1>9. Kept(h, g, Held(h)) /\ Size(g, c) >= req
  BY <1>4, <1>7 DEF Held, Kept
<1>10. Runs(g)
  BY <1>4, <1>5 DEF Runs
<1> QED
  BY <1>0, <1>6, <1>8, <1>9, <1>10 DEF g, Used
(* insertToFreeList, of a chunk not in use.                                *)
LEMMA Returns ==
  ASSUME NEW h, NEW U, NEW c \in Chunks(h), Good(h, U, {c}),
         h.chunk[c].bin = Nowhere, ~ h.chunk[c].used,
         NEW b \in Bin, Fits(h, b, Size(h, c))
  PROVE  LET g == insertToFreeList(h, c, b)
         IN  /\ Good(g, U, {}) /\ Chunks(g) = Chunks(h) /\ g.chunk[c].bin = b
             /\ \A d \in Chunks(h) : Size(g, d) = Size(h, d)
             /\ Held(g) = Held(h) /\ g.fault = h.fault
<1> DEFINE g == insertToFreeList(h, c, b)
<1>1. /\ Good(g, U, {c} \union {c})
      /\ g.chunk = [h.chunk EXCEPT ![c].bin = b]
      /\ g.fault = h.fault
  BY Inserts
<1> HIDE DEF g
<1>2. /\ Chunks(g) = Chunks(h)
      /\ \A d \in Chunks(h) : /\ Size(g, d) = Size(h, d) /\ g.chunk[d].used = h.chunk[d].used
                              /\ g.chunk[d].bin = IF d = c THEN b ELSE h.chunk[d].bin
  <2>1. Chunks(g) = Chunks(h)
    BY <1>1 DEF Chunks
  <2>2. h.chunk \in [Chunks(h) -> HeaderType]
    BY DEF Good, IsHeap
  <2>3. ASSUME NEW d \in Chunks(h)
        PROVE  g.chunk[d] = IF d = c THEN [h.chunk[c] EXCEPT !.bin = b] ELSE h.chunk[d]
    BY <1>1, <2>2
  <2>4. ASSUME NEW d \in Chunks(h) PROVE h.chunk[d] \in HeaderType
    BY <2>2
  <2> QED
    BY <2>1, <2>3, <2>4 DEF HeaderType, Size
<1>3. Good(g, U, {})
  <2> DEFINE A == {c} \union {c}
  <2>1. \A d \in A \ {} : d = c
    OBVIOUS
  <2>2. Good(g, U, A)
    BY <1>1
  <2>3. \A d \in Chunks(g) : d \in A \ {} => (g.chunk[d].used <=> g.chunk[d].bin = Nowhere)
    <3> HIDE DEF A
    <3> QED
      BY <1>2, <2>1, BinTypes
  <2> HIDE DEF A
  <2> QED
    BY <2>2, <2>3, Settles
<1>4. Held(g) = Held(h) /\ g.chunk[c].bin = b
  BY <1>2 DEF Held
<1> QED
  BY <1>1, <1>2, <1>3, <1>4 DEF g

(* getMoreMemory: the assert of removeFromFreeList, or a chunk of the      *)
(* residue that is long enough.                                            *)
Got(h, r, U, size) ==
  /\ Typed(r.heap, U)
  /\ Runs(r.heap) => /\ Good(r.heap, U, {})
                     /\ r.at \in Chunks(r.heap) /\ r.heap.chunk[r.at].bin = Residue
                     /\ Size(r.heap, r.at) >= size
                     /\ Held(r.heap) = Held(h) /\ Kept(h, r.heap, Held(h))

LEMMA Grows ==
  ASSUME NEW h, NEW U, Good(h, U, {}), Runs(h), NEW c \in Int, NEW size \in Int, 0 < size,
         Behind(U, c)
  PROVE  Got(h, getMoreMemory(h, c, size), U \union Bytes(c, size), size)
<1> DEFINE last == h.lastChunk
           near == last # Null /\ NextInMem(h, last) = c
           fresh(prev) == WithChunk(h, c, Header(prev, size))
           b == getBinIndex(h, Size(h, last))
           out == removeFromFreeList(h, last, b)
           r == getMoreMemory(h, c, size)
           g == r.heap
           V == U \union Bytes(c, size)
           Result == /\ Good(g, V, {})
                     /\ r.at \in Chunks(g) /\ g.chunk[r.at].bin = Residue
                     /\ Size(g, r.at) >= size
                     /\ Held(g) = Held(h) /\ Kept(h, g, Held(h))
<1>1. IsHeap(h) /\ last \in Int /\ last \in Chunks(h) \union {Null}
  BY DEF Good, IsHeap
<1>2. Residue \in Bin /\ \A e, s : Fits(e, Residue, s)
  BY SlabsAssumption, BinTypes DEF Fits, Residue
<1>3. SUFFICES (Typed(g, V) /\ ~ Runs(g)) \/ Result
  <2>1. Result => Typed(g, V)
    BY GoodTyped
  <2> QED
    BY <1>3, <2>1 DEF Got
(* A chunk of its own, with lastChunk on it or left where it is. *)
<1>4. ASSUME NEW prev \in Int, NEW e,
             e = fresh(prev) \/ e = [fresh(prev) EXCEPT !.lastChunk = c],
             r = [at |-> c, heap |-> insertToFreeList(e, c, Residue)]
      PROVE  Result
  <2> DEFINE f == fresh(prev)
  <2>1. /\ Good(f, V, {c}) /\ c \notin Chunks(h) /\ Chunks(f) = Chunks(h) \union {c}
        /\ f.chunk[c] = Header(prev, size)
        /\ \A d \in Chunks(h) : f.chunk[d] = h.chunk[d]
    <3>1. {} \union {c} = {c}
      OBVIOUS
    <3>2. /\ Good(f, V, {} \union {c}) /\ c \notin Chunks(h) /\ Chunks(f) = Chunks(h) \union {c}
          /\ f.chunk[c] = Header(prev, size)
          /\ \A d \in Chunks(h) : f.chunk[d] = h.chunk[d]
      <4> DEFINE L == {}
      <4>1. /\ Good(h, U, L) /\ size > 0 /\ Behind(U, c) /\ f = WithChunk(h, c, Header(prev, size))
            /\ Header(prev, size) \in HeaderType
        BY DEF Header, HeaderType
      <4>2. c \notin Chunks(h)
        BY GoodTyped DEF Typed, Behind
      <4> HIDE DEF f, L
      <4>3. Good(f, U \union Bytes(c, size), L \union {c})
        BY <4>1, Extends
      <4>4. /\ Chunks(f) = Chunks(h) \union {c}
            /\ \A d \in Chunks(f) : f.chunk[d] = IF d = c THEN Header(prev, size) ELSE h.chunk[d]
        BY <1>1, <4>1, ChunkSet
      <4> QED
        BY <4>2, <4>3, <4>4 DEF L
    <3> HIDE DEF f, V
    <3> QED
      BY <3>1, <3>2
  <2>2. e = f \/ e = [f EXCEPT !.lastChunk = c]
    BY <1>4
  <2> HIDE DEF f, V
  <2>3. Good(e, V, {c}) /\ e.chunk = f.chunk /\ c \in Chunks(f)
    <3>1. c \in Chunks(f) /\ Good(f, V, {c})
      BY <2>1
    <3>2. CASE e = f
      BY <3>1, <3>2
    <3>3. CASE e = [f EXCEPT !.lastChunk = c]
      BY <3>1, <3>3, LastChunks
    <3> QED
      BY <2>2, <3>2, <3>3
  <2>4. c \in Chunks(e) /\ e.chunk[c].bin = Nowhere /\ e.chunk[c].used = FALSE /\ Size(e, c) = size
    BY <2>1, <2>3 DEF Chunks, Header, Size
  <2>5. Held(e) = Held(h) /\ Kept(h, e, Held(h)) /\ Held(h) \subseteq Chunks(e)
    BY <2>1, <2>3, <2>4 DEF Held, Kept, Chunks, Size
  <2> DEFINE k == insertToFreeList(e, c, Residue)
  <2>6. /\ Good(k, V, {}) /\ Chunks(k) = Chunks(e) /\ k.chunk[c].bin = Residue
        /\ \A d \in Chunks(e) : Size(k, d) = Size(e, d)
        /\ Held(k) = Held(e)
    <3>1. Fits(e, Residue, Size(e, c)) /\ Residue \in Bin
      BY <1>2
    <3>2. Good(e, V, {c}) /\ c \in Chunks(e) /\ e.chunk[c].bin = Nowhere /\ ~ e.chunk[c].used
      BY <2>3, <2>4
    <3> HIDE DEF k
    <3> QED
      BY <3>1, <3>2, Returns DEF k
  <2>7. g = k /\ r.at = c
    BY <1>4
  <2> HIDE DEF k, g, r
  <2>8. Kept(h, k, Held(h))
    BY <2>5, <2>6 DEF Kept
  <2>9. Size(k, c) >= size
    BY <2>4, <2>6
  <2> QED
    BY <2>4, <2>5, <2>6, <2>7, <2>8, <2>9
<1>5. CASE near /\ h.chunk[last].used
  <2>1. Size(h, last) \in Int
    BY <1>1, <1>5 DEF IsHeap, HeaderType, Size
  <2>2. r = [at |-> c, heap |-> insertToFreeList(fresh(Size(h, last)), c, Residue)]
    BY <1>5 DEF getMoreMemory
  <2> HIDE DEF r, Result
  <2> QED
    BY <1>4, <2>1, <2>2
<1>6. CASE ~ near
  <2>1. r = [at |-> c, heap |-> insertToFreeList([fresh(0) EXCEPT !.lastChunk = c], c, Residue)]
    BY <1>6 DEF getMoreMemory
  <2>2. 0 \in Int
    OBVIOUS
  <2> HIDE DEF r, Result
  <2> QED
    BY <1>4, <2>1, <2>2
<1>7. CASE near /\ ~ h.chunk[last].used
  <2>1. last \in Chunks(h) /\ h.chunk[last].bin \in Bin /\ NextInMem(h, last) = c
    <3>1. last \in Chunks(h) /\ h.chunk[last].bin # Nowhere
      BY <1>1, <1>7 DEF Good, Bins
    <3> QED
      BY <1>1, <1>7, <3>1 DEF IsHeap, HeaderType
  <2>2. b \in Bin
    BY BinFits
  <2>3. /\ r.at = last
        /\ g = IF Runs(out) THEN insertToFreeList(Longer(out, last, size), last, Residue) ELSE out
    BY <1>7 DEF getMoreMemory, Longer
  <2> HIDE DEF r, b
  <2>4. CASE h.chunk[last].bin # b
    <3>1. out = Stop(h, "bin")
      BY <2>4 DEF removeFromFreeList
    <3>2. "bin" \in Faults \ {"none"}
      BY DEF Faults
    <3>3. Typed(out, V) /\ ~ Runs(out)
      <4>1. Typed(h, V)
        BY GoodTyped, Wider
      <4> HIDE DEF out, V
      <4> QED
        BY <3>1, <3>2, <4>1, Stops
    <3> HIDE DEF out, V
    <3> QED
      BY <2>3, <3>3
  <2>5. CASE h.chunk[last].bin = b
    <3>1. {} \union {last} = {last}
      OBVIOUS
    <3>2. /\ Good(out, U, {} \union {last})
          /\ out.chunk = [h.chunk EXCEPT ![last].bin = Nowhere]
          /\ out.freeSizeList = h.freeSizeList /\ out.fault = h.fault
      <4> HIDE DEF last, out
      <4> QED
        BY <2>1, <2>2, <2>5, Removes DEF out
    <3> HIDE DEF out, last
    <3>3. /\ Chunks(out) = Chunks(h)
          /\ \A d \in Chunks(h) : /\ Size(out, d) = Size(h, d)
                                  /\ out.chunk[d].used = h.chunk[d].used
                                  /\ out.chunk[d].bin = IF d = last THEN Nowhere
                                                        ELSE h.chunk[d].bin
      <4>1. Chunks(out) = Chunks(h)
        BY <3>2 DEF Chunks
      <4>2. h.chunk \in [Chunks(h) -> HeaderType]
        BY <1>1 DEF IsHeap
      <4>3. ASSUME NEW d \in Chunks(h)
            PROVE  out.chunk[d] = IF d = last THEN [h.chunk[last] EXCEPT !.bin = Nowhere]
                                  ELSE h.chunk[d]
        BY <3>2, <4>2
      <4>4. ASSUME NEW d \in Chunks(h) PROVE h.chunk[d] \in HeaderType
        BY <4>2
      <4> QED
        BY <4>1, <4>3, <4>4 DEF HeaderType, Size
    <3>4. Good(out, U, {last}) /\ last \in Chunks(out) /\ out.chunk[last].bin = Nowhere
          /\ out.chunk[last].used = FALSE /\ NextInMem(out, last) = c /\ Runs(out)
      <4>1. out.chunk[last].used \in BOOLEAN
        BY <2>1, <3>2, <3>3 DEF Good, IsHeap, HeaderType
      <4> QED
        BY <1>7, <2>1, <3>1, <3>2, <3>3, <4>1 DEF NextInMem, Runs
    <3> DEFINE e == Longer(out, last, size)
               k == insertToFreeList(e, last, Residue)
    <3>5. /\ Good(e, U \union Bytes(NextInMem(out, last), size), {last})
          /\ Chunks(e) = Chunks(out) /\ Size(e, last) = Size(out, last) + size
          /\ e.chunk[last].used = out.chunk[last].used /\ e.chunk[last].bin = Nowhere
          /\ \A d \in Chunks(out) \ {last} : e.chunk[d] = out.chunk[d]
          /\ e.freeSizeList = out.freeSizeList
          /\ e.fault = out.fault
      <4> HIDE DEF e
      <4>1. Behind(U, NextInMem(out, last)) /\ size \in Int /\ 0 < size
        BY <3>4
      <4>2. e = Longer(out, last, size)
        BY DEF e
      <4> HIDE DEF out
      <4> QED
        BY <3>4, <4>1, <4>2, Grown
    <3> HIDE DEF e
    <3>6. Good(e, V, {last}) /\ last \in Chunks(e) /\ e.chunk[last].bin = Nowhere
          /\ ~ e.chunk[last].used
      BY <3>4, <3>5
    <3>7. Size(e, last) >= size
      <4>1. Size(out, last) > 0 /\ Size(out, last) \in Int
        BY <3>4 DEF Good, Tiles, IsHeap, HeaderType, Size
      <4> QED
        BY <3>5, <4>1
    <3>8. Held(e) = Held(h) /\ Kept(h, e, Held(h)) /\ Held(h) \subseteq Chunks(e)
      BY <3>3, <3>4, <3>5 DEF Held, Kept, Size
    <3> HIDE DEF V
    <3>9. /\ Good(k, V, {}) /\ Chunks(k) = Chunks(e) /\ k.chunk[last].bin = Residue
          /\ \A d \in Chunks(e) : Size(k, d) = Size(e, d)
          /\ Held(k) = Held(e)
      <4>1. Fits(e, Residue, Size(e, last)) /\ Residue \in Bin
        BY <1>2
      <4> HIDE DEF k
      <4> QED
        BY <3>6, <4>1, Returns DEF k
    <3>10. g = k
      BY <2>3, <3>4 DEF e
    <3> HIDE DEF k, g
    <3>11. Kept(h, k, Held(h)) /\ Size(k, last) >= size
      BY <3>6, <3>7, <3>8, <3>9 DEF Kept
    <3> QED
      BY <2>3, <3>6, <3>8, <3>9, <3>10, <3>11
  <2> QED
    BY <2>4, <2>5
<1> HIDE DEF Result
<1> QED
  BY <1>5, <1>6, <1>7
(* free on its way: the chunk mid is in no bin, and c is the only chunk    *)
(* that the program held before and does not hold now.                     *)
Freeing(h, g, U, c, mid) ==
  /\ Good(g, U, {mid}) /\ Runs(g)
  /\ mid \in Chunks(g) /\ g.chunk[mid].bin = Nowhere
  /\ Held(g) \ {mid} = Held(h) \ {c} /\ Kept(h, g, Held(h) \ {c})
Stopped(g, U) == Typed(g, U) /\ ~ Runs(g)

LEMMA Strays ==
  ASSUME NEW h, NEW U, NEW L, Good(h, U, L)
  PROVE  Stopped(Astray(h), U)
<1>1. "astray" \in Faults \ {"none"}
  BY DEF Faults
<1>2. Typed(h, U)
  BY GoodTyped
<1>3. Typed(Stop(h, "astray"), U) /\ ~ Runs(Stop(h, "astray"))
  BY <1>1, <1>2, Stops
<1>4. Astray(h) = Stop(h, "astray")
  BY DEF Astray, Stop
<1> QED
  BY <1>3, <1>4 DEF Stopped

(* The chunk before joins, when it is free.                                *)
LEMMA JoinsBack ==
  ASSUME NEW h, NEW U, Good(h, U, {}), Runs(h), NEW c \in Held(h),
         NEW prev \in Chunks(h), ~ h.chunk[prev].used
  PROVE  LET g == Join(h, prev, prev, c, h.chunk[prev].bin)
         IN  Stopped(g, U) \/ Freeing(h, g, U, c, prev)
<1> DEFINE g == Join(h, prev, prev, c, h.chunk[prev].bin)
           N == {}
<1>1. c \in Chunks(h) /\ h.chunk[c].used /\ h.chunk[c].bin = Nowhere /\ prev # c
  BY DEF Held, Good, Bins
<1>2. h.chunk[prev].bin \in Bin
  BY DEF Good, Bins, IsHeap, HeaderType
<1>3. prev \in {prev, c}
  OBVIOUS
<1>4. Good(h, U, N)
  OBVIOUS
<1> HIDE DEF N
<1>5. /\ Typed(g, U)
      /\ NextInMem(h, prev) # c => ~ Runs(g)
      /\ NextInMem(h, prev) = c =>
           /\ Good(g, U, N \union {prev}) /\ Runs(g)
           /\ Chunks(g) = Chunks(h) \ {c}
           /\ g.chunk[prev].used = h.chunk[prev].used /\ g.chunk[prev].bin = Nowhere
           /\ \A d \in Chunks(h) \ {prev, c} : Same(h, g, d)
  <2>1. Joined(h, g, U, N, prev, prev, c)
    BY <1>1, <1>2, <1>3, <1>4, Joins
  <2> QED
    BY <2>1 DEF Joined
<1> HIDE DEF g
<1>6. CASE NextInMem(h, prev) # c
  BY <1>5, <1>6 DEF Stopped, g
<1>7. CASE NextInMem(h, prev) = c
  <2>1. Good(g, U, {prev})
    <3>1. N \union {prev} = {prev}
      BY DEF N
    <3> QED
      BY <1>5, <1>7, <3>1
  <2>2. \A d \in Chunks(h) \ {prev, c} : g.chunk[d].used = h.chunk[d].used /\ Size(g, d) = Size(h, d)
    BY <1>5, <1>7 DEF Same, Size
  <2>3. Held(g) = Held(h) \ {c}
    BY <1>1, <1>5, <1>7, <2>2 DEF Held
  <2>4. prev \notin Held(h)
    BY DEF Held
  <2>5. Kept(h, g, Held(h) \ {c})
    BY <2>2, <2>4 DEF Kept, Held
  <2>6. Held(g) \ {prev} = Held(h) \ {c}
    BY <2>3, <2>4
  <2> QED
    BY <1>1, <1>5, <1>7, <2>1, <2>5, <2>6 DEF Freeing, g
<1> QED
  BY <1>6, <1>7

(* The chunk after joins, when it is free.                                 *)
LEMMA JoinsNext ==
  ASSUME NEW h, NEW e, NEW U, NEW c, NEW mid, Freeing(e, h, U, c, mid),
         NEW next, next = NextInMem(h, mid), next \in Chunks(h), ~ h.chunk[next].used
  PROVE  LET g == Join(h, next, mid, next, h.chunk[next].bin)
         IN  Freeing(e, g, U, c, mid)
<1> DEFINE g == Join(h, next, mid, next, h.chunk[next].bin)
           L == {mid}
<1>1. Good(h, U, L) /\ Runs(h) /\ mid \in Chunks(h) /\ h.chunk[mid].bin = Nowhere
  BY DEF Freeing
<1>2. next # mid
  <2>1. Size(h, mid) \in Int /\ Size(h, mid) > 0 /\ mid \in Int
    BY <1>1 DEF Good, Tiles, IsHeap, HeaderType, Size
  <2> QED
    BY <2>1 DEF NextInMem
<1>3. h.chunk[next].bin \in Bin
  <2>1. next \in Chunks(h) \ L
    BY <1>2
  <2>2. h.chunk[next].bin # Nowhere
    BY <1>1, <2>1 DEF Good, Bins
  <2> QED
    BY <1>1, <2>2 DEF Good, IsHeap, HeaderType
<1>4. next \in {mid, next} /\ mid # next
  BY <1>2
<1> HIDE DEF L
<1>5. /\ Good(g, U, L \union {next}) /\ Runs(g)
      /\ Chunks(g) = Chunks(h) \ {next}
      /\ g.chunk[mid].used = h.chunk[mid].used /\ g.chunk[mid].bin = Nowhere
      /\ \A d \in Chunks(h) \ {mid, next} : Same(h, g, d)
  <2>1. next \in Chunks(h) /\ (next = mid \/ h.chunk[mid].bin = Nowhere)
    BY <1>1
  <2>2. Joined(h, g, U, L, next, mid, next)
    BY <1>1, <1>2, <1>3, <1>4, <2>1, Joins
  <2> QED
    BY <2>2 DEF Joined
<1> HIDE DEF g
<1>6. Good(g, U, {mid})
  <2>1. \A d \in Chunks(g) : d \in (L \union {next}) \ {mid} =>
          (g.chunk[d].used <=> g.chunk[d].bin = Nowhere)
    BY <1>5 DEF L
  <2> QED
    BY <1>5, <2>1, Settles
<1>7. \A d \in Chunks(h) \ {mid, next} : g.chunk[d].used = h.chunk[d].used /\ Size(g, d) = Size(h, d)
  BY <1>5 DEF Same, Size
<1>8. Held(g) \ {mid} = Held(h) \ {mid}
  BY <1>5, <1>7 DEF Held
<1>9. Kept(e, g, Held(e) \ {c})
  <2>1. ASSUME NEW d \in Held(e) \ {c} PROVE Size(g, d) = Size(e, d)
    <3>1. d \in Held(h) \ {mid} /\ Size(h, d) = Size(e, d)
      BY <2>1 DEF Freeing, Kept
    <3> QED
      BY <1>7, <3>1 DEF Held
  <2> QED
    BY <2>1 DEF Kept
<1>10. mid \in Chunks(g)
  BY <1>1, <1>2, <1>5
<1> QED
  BY <1>5, <1>6, <1>8, <1>9, <1>10 DEF Freeing, g

(* The end of free: an assert, or the heap without the chunk.              *)
Gone(h, g, U, c) ==
  /\ Typed(g, U)
  /\ Runs(g) => Good(g, U, {}) /\ Held(g) = Held(h) \ {c} /\ Kept(h, g, Held(h) \ {c})

(* What is left becomes a free chunk.                                      *)
LEMMA FreesLast ==
  ASSUME NEW h, NEW e, NEW U, NEW c, NEW mid, Freeing(e, h, U, c, mid)
  PROVE  Gone(e, [insertToFreeList(h, mid, getBinIndex(h, Size(h, mid)))
                    EXCEPT !.chunk[mid].used = FALSE], U, c)
<1> DEFINE b == getBinIndex(h, Size(h, mid))
           last == insertToFreeList(h, mid, b)
           v == FALSE
           g == [last EXCEPT !.chunk[mid].used = v]
           A == {mid} \union {mid}
<1>1. Good(h, U, {mid}) /\ Runs(h) /\ mid \in Chunks(h) /\ h.chunk[mid].bin = Nowhere
  BY DEF Freeing
<1>2. b \in Bin /\ Fits(h, b, Size(h, mid))
  BY BinFits
<1> HIDE DEF b
<1>3. /\ Good(last, U, A)
      /\ last.chunk = [h.chunk EXCEPT ![mid].bin = b]
      /\ last.fault = h.fault
  BY <1>1, <1>2, Inserts
<1> HIDE DEF last
<1>4. h.chunk \in [Chunks(h) -> HeaderType]
  BY <1>1 DEF Good, IsHeap
<1>5. Chunks(last) = Chunks(h) /\ mid \in Chunks(last)
  BY <1>1, <1>3 DEF Chunks
<1>6. last.chunk[mid].bin = b
  BY <1>1, <1>3, <1>4 DEF HeaderType
<1>7. v \in BOOLEAN /\ (v <=> last.chunk[mid].bin = Nowhere) /\ v = FALSE
  BY <1>2, <1>6, BinTypes
<1> HIDE DEF v
<1>8. /\ Good(g, U, A \ {mid})
      /\ g.chunk = [last.chunk EXCEPT ![mid].used = v]
      /\ g.fault = last.fault
  <2>1. Good(last, U, A)
    BY <1>3
  <2> HIDE DEF A
  <2> QED
    BY <1>5, <1>7, <2>1, Flags
<1> HIDE DEF g
<1>9. /\ Chunks(g) = Chunks(h)
      /\ \A d \in Chunks(h) : /\ Size(g, d) = Size(h, d)
                              /\ g.chunk[d].used = IF d = mid THEN FALSE ELSE h.chunk[d].used
  <2>1. Chunks(g) = Chunks(h)
    BY <1>5, <1>8 DEF Chunks
  <2>2. last.chunk \in [Chunks(h) -> HeaderType]
    BY <1>3, <1>5 DEF Good, IsHeap
  <2>3. ASSUME NEW d \in Chunks(h)
        PROVE  /\ last.chunk[d] = IF d = mid THEN [h.chunk[mid] EXCEPT !.bin = b] ELSE h.chunk[d]
               /\ g.chunk[d] = IF d = mid THEN [last.chunk[mid] EXCEPT !.used = FALSE]
                               ELSE last.chunk[d]
    BY <1>3, <1>4, <1>7, <1>8, <2>2
  <2>4. ASSUME NEW d \in Chunks(h) PROVE h.chunk[d] \in HeaderType /\ last.chunk[d] \in HeaderType
    BY <1>4, <2>2
  <2>5. ASSUME NEW d \in Chunks(h)
        PROVE last.chunk[d].size = h.chunk[d].size /\ last.chunk[d].used = h.chunk[d].used
    BY <2>3, <2>4 DEF HeaderType
  <2>6. ASSUME NEW d \in Chunks(h)
        PROVE  /\ g.chunk[d].size = last.chunk[d].size
               /\ g.chunk[d].used = IF d = mid THEN FALSE ELSE last.chunk[d].used
    BY <2>3, <2>4 DEF HeaderType
  <2> QED
    BY <2>1, <2>5, <2>6 DEF Size
<1>10. Held(g) = Held(e) \ {c}
  <2>1. Held(g) = Held(h) \ {mid}
    BY <1>9 DEF Held
  <2> QED
    BY <2>1 DEF Freeing
<1>11. Kept(e, g, Held(e) \ {c})
  <2>1. ASSUME NEW d \in Held(e) \ {c} PROVE Size(g, d) = Size(e, d)
    <3>1. d \in Held(h) \ {mid} /\ Size(h, d) = Size(e, d)
      BY <2>1 DEF Freeing, Kept
    <3> QED
      BY <1>9, <3>1 DEF Held
  <2> QED
    BY <2>1 DEF Kept
<1>12. Good(g, U, {}) /\ Runs(g)
  <2>1. A \ {mid} = {}
    OBVIOUS
  <2> HIDE DEF A
  <2> QED
    BY <1>1, <1>3, <1>8, <2>1 DEF Runs
<1>13. v = FALSE
  BY <1>7
<1> QED
  BY <1>10, <1>11, <1>12, <1>13, GoodTyped DEF g, last, b, Gone
(* free.                                                                   *)
LEMMA Frees ==
  ASSUME NEW h, NEW U, Good(h, U, {}), Runs(h), NEW c \in Held(h), NEW looksUsed \in BOOLEAN
  PROVE  Gone(h, Freed(h, c, looksUsed), U, c)
<1> DEFINE slabbed == registerSlab(h, Size(h, c))
           prev == PrevInMem(slabbed, c)
           joins == prev \in Chunks(slabbed) /\ ~slabbed.chunk[prev].used
           back == IF joins THEN Join(slabbed, prev, prev, c, slabbed.chunk[prev].bin)
                   ELSE IF prev \in Chunks(slabbed) \/ looksUsed THEN slabbed
                   ELSE Astray(slabbed)
           mid == IF joins THEN prev ELSE c
           next == NextInMem(back, mid)
           both == IF next > back.lastChunk THEN back
                   ELSE IF next \notin Chunks(back)
                   THEN IF looksUsed THEN back ELSE Astray(back)
                   ELSE IF back.chunk[next].used THEN back
                   ELSE Join(back, next, mid, next, back.chunk[next].bin)
           last == insertToFreeList(both, mid, getBinIndex(both, Size(both, mid)))
           g == Freed(h, c, looksUsed)
<1>1. g = IF ~Runs(back) THEN back
          ELSE IF ~Runs(both) THEN both
          ELSE [last EXCEPT !.chunk[mid].used = FALSE]
  BY DEF Freed
<1>2. Size(h, c) \in Int
  BY DEF Held, Good, IsHeap, HeaderType, Size
<1>3. Good(slabbed, U, {}) /\ slabbed.chunk = h.chunk /\ slabbed.fault = h.fault
  <2> HIDE DEF slabbed
  <2> QED
    BY <1>2, Registers DEF slabbed
<1>4. Runs(slabbed) /\ Held(slabbed) = Held(h) /\ \A d \in Held(h) : Size(slabbed, d) = Size(h, d)
  BY <1>3 DEF Runs, Held, Chunks, Size
<1> HIDE DEF slabbed, g
<1>5. Stopped(back, U) \/ Freeing(slabbed, back, U, c, mid)
  <2>1. CASE joins
    <3>1. prev \in Chunks(slabbed) /\ ~ slabbed.chunk[prev].used /\ c \in Held(slabbed)
      BY <1>4, <2>1
    <3>2. back = Join(slabbed, prev, prev, c, slabbed.chunk[prev].bin) /\ mid = prev
      BY <2>1
    <3> HIDE DEF back, prev, mid
    <3> QED
      BY <1>3, <1>4, <3>1, <3>2, JoinsBack
  <2>2. CASE ~ joins /\ back = slabbed
    <3>1. mid = c /\ c \in Chunks(slabbed) /\ slabbed.chunk[c].used
      BY <1>4, <2>2 DEF Held
    <3>2. slabbed.chunk[c].bin = Nowhere
      BY <1>3, <3>1 DEF Good, Bins
    <3>3. Good(slabbed, U, {c})
      BY <1>3, Settles
    <3>4. Kept(slabbed, slabbed, Held(slabbed) \ {c})
      BY DEF Kept
    <3>5. Freeing(slabbed, slabbed, U, c, c)
      BY <1>4, <3>1, <3>2, <3>3, <3>4 DEF Freeing
    <3> HIDE DEF back, mid
    <3> QED
      BY <2>2, <3>1, <3>5
  <2>3. CASE back = Astray(slabbed)
    <3> HIDE DEF back
    <3> QED
      BY <1>3, <2>3, Strays
  <2> QED
    BY <2>1, <2>2, <2>3
<1>6. CASE Stopped(back, U)
  <2> HIDE DEF back, both, last, mid
  <2> QED
    BY <1>1, <1>6 DEF Stopped, Gone, g
<1>7. CASE Freeing(slabbed, back, U, c, mid)
  <2> HIDE DEF back, mid
  <2>1. Runs(back)
    BY <1>7 DEF Freeing
  <2>2. Stopped(both, U) \/ Freeing(slabbed, both, U, c, mid)
    <3>1. CASE both = back
      <4> HIDE DEF both
      <4> QED
        BY <1>7, <3>1
    <3>2. CASE both = Astray(back)
      <4>1. Good(back, U, {mid})
        BY <1>7 DEF Freeing
      <4> HIDE DEF both
      <4> QED
        BY <3>2, <4>1, Strays
    <3>3. CASE /\ next \in Chunks(back) /\ ~ back.chunk[next].used
               /\ both = Join(back, next, mid, next, back.chunk[next].bin)
      <4> DEFINE k == next
      <4>1. k = NextInMem(back, mid)
        OBVIOUS
      <4>2. /\ k \in Chunks(back) /\ ~ back.chunk[k].used
            /\ both = Join(back, k, mid, k, back.chunk[k].bin)
        BY <3>3
      <4> HIDE DEF both, k
      <4> QED
        BY <1>7, <4>1, <4>2, JoinsNext
    <3> QED
      BY <3>1, <3>2, <3>3
  <2> HIDE DEF both
  <2>3. CASE Stopped(both, U)
    <3> HIDE DEF last
    <3> QED
      BY <1>1, <2>1, <2>3 DEF Stopped, Gone, g
  <2>4. CASE Freeing(slabbed, both, U, c, mid)
    <3>1. Runs(both)
      BY <2>4 DEF Freeing
    <3>2. g = [insertToFreeList(both, mid, getBinIndex(both, Size(both, mid)))
                 EXCEPT !.chunk[mid].used = FALSE]
      BY <1>1, <2>1, <3>1
    <3>3. Gone(slabbed, g, U, c)
      BY <2>4, <3>2, FreesLast
    <3>4. Runs(g) => Kept(h, g, Held(h) \ {c})
      BY <1>4, <3>3 DEF Kept, Gone
    <3> QED
      BY <1>4, <3>3, <3>4 DEF g, Gone
  <2> QED
    BY <2>2, <2>3, <2>4
<1> QED
  BY <1>5, <1>6, <1>7
-----------------------------------------------------------------------------
(* Pages, and lengths with their header.                                   *)

LEMMA Monotone == ASSUME NEW i \in Int, NEW j \in Int, NEW p \in Nat, i <= j PROVE i * p <= j * p
<1>1. j - i \in Nat
  OBVIOUS
<1>2. (j - i) * p >= 0
  BY <1>1
<1>3. (j - i) * p = j * p - i * p
  OBVIOUS
<1> QED
  BY <1>2, <1>3

LEMMA Divides ==
  ASSUME NEW a \in Int, NEW p \in Nat \ {0}
  PROVE  a \div p \in Int /\ (a \div p) * p <= a /\ a < (a \div p) * p + p
OBVIOUS

LEMMA Products ==
  ASSUME NEW i \in Int, NEW j \in Int, NEW p \in Int
  PROVE  i * p \in Int /\ (i + j) * p = i * p + j * p
OBVIOUS

(* The byte a is of a page from i to j - 1.                                *)
LEMMA OfPages ==
  ASSUME NEW a \in Int, NEW i \in Int, NEW j \in Int
  PROVE  a \div PAGE_SIZE \in i .. j - 1 <=> a \in i * PAGE_SIZE .. j * PAGE_SIZE - 1
<1> DEFINE P == PAGE_SIZE
           q == a \div P
<1>1. P \in Nat \ {0} /\ P \in Nat
  BY UnitsAssumption DEF MIN_CHUNK_SIZE
<1>2. q \in Int /\ q * P <= a /\ a < q * P + P
  BY <1>1, Divides
<1>3. i * P \in Int /\ j * P \in Int /\ q * P \in Int
  BY <1>1, <1>2, Products
<1> HIDE DEF P, q
<1>4. (q + 1) * P = q * P + P
  BY <1>1, <1>2, Products
<1>5. i <= q => i * P <= q * P
  BY <1>1, <1>2, Monotone
<1>6. q < i => q * P + P <= i * P
  <2>1. q < i => q + 1 <= i /\ q + 1 \in Int
    BY <1>2
  <2> QED
    BY <1>1, <1>4, <2>1, Monotone
<1>7. q < j => q * P + P <= j * P
  <2>1. q < j => q + 1 <= j /\ q + 1 \in Int
    BY <1>2
  <2> QED
    BY <1>1, <1>4, <2>1, Monotone
<1>8. j <= q => j * P <= q * P
  BY <1>1, <1>2, Monotone
<1>9. q \in i .. j - 1 <=> a \in i * P .. j * P - 1
  <2> DEFINE x == i * P
             y == j * P
             z == q * P
  <2>1. /\ x \in Int /\ y \in Int /\ z \in Int /\ z <= a /\ a < z + P
        /\ (i <= q => x <= z) /\ (q < i => z + P <= x)
        /\ (q < j => z + P <= y) /\ (j <= q => y <= z)
    BY <1>2, <1>3, <1>5, <1>6, <1>7, <1>8
  <2> HIDE DEF x, y, z
  <2>2. q \in i .. j - 1 <=> a \in x .. y - 1
    BY <1>1, <1>2, <2>1
  <2> QED
    BY <2>2 DEF x, y
<1> QED
  BY <1>9 DEF P, q

(* The units of the pages of O when the home has given the pages below T.  *)
OwnOf(O, T) == {a \in HEAP_START .. T * PAGE_SIZE : a \div PAGE_SIZE \in O}

LEMMA MorePages ==
  ASSUME NEW T \in Nat \ {0}, NEW O \in SUBSET (1 .. T - 1), NEW n \in Nat
  PROVE  /\ OwnOf(O \union (T .. T + n - 1), T + n)
              = OwnOf(O, T) \union Bytes(T * PAGE_SIZE, n * PAGE_SIZE)
         /\ Behind(OwnOf(O, T), T * PAGE_SIZE)
         /\ O \union (T .. T + n - 1) \subseteq 1 .. T + n - 1
<1> DEFINE P == PAGE_SIZE
           x == T * P
           y == (T + n) * P
           New == T .. T + n - 1
<1>1. P \in Nat /\ P > 0
  BY UnitsAssumption DEF MIN_CHUNK_SIZE
<1>2. /\ x \in Int /\ y \in Int /\ n * P \in Int /\ y = x + n * P
      /\ 1 * P = P /\ P <= x /\ x <= y
  <2>1. T \in Int /\ n \in Int /\ T + n \in Int /\ P \in Int /\ 1 <= T /\ T <= T + n /\ 1 \in Int
    BY <1>1
  <2>2. 1 * P <= T * P /\ T * P <= (T + n) * P
    BY <1>1, <2>1, Monotone
  <2>3. 1 * P = P
    BY <1>1
  <2>4. T * P \in Int /\ n * P \in Int /\ (T + n) * P \in Int /\ (T + n) * P = T * P + n * P
    BY <2>1, Products
  <2> QED
    BY <2>2, <2>3, <2>4
<1>3. ASSUME NEW a \in Int
      PROVE  /\ a \div P \in New <=> a \in x .. y - 1
             /\ a \div P \in O => a \in P .. x - 1
  <2>1. T \in Int /\ T + n \in Int /\ 1 \in Int /\ T + n - 1 = (T + n) - 1
    OBVIOUS
  <2>2. a \div P \in T .. (T + n) - 1 <=> a \in T * P .. (T + n) * P - 1
    BY <2>1, OfPages
  <2>3. a \div P \in 1 .. T - 1 <=> a \in 1 * P .. T * P - 1
    BY <2>1, OfPages
  <2>4. /\ a \div P \in New <=> a \in x .. y - 1
        /\ a \div P \in 1 .. T - 1 <=> a \in 1 * P .. x - 1
    BY <2>2, <2>3
  <2> HIDE DEF P, x, y, New
  <2> QED
    BY <1>2, <2>4
<1> HIDE DEF P, x, y
<1>4. OwnOf(O, T) = {a \in P .. x : a \div P \in O}
      /\ OwnOf(O \union New, T + n) = {a \in P .. y : a \div P \in O \union New}
  BY DEF OwnOf, HEAP_START, P, x, y
<1>5. Bytes(T * PAGE_SIZE, n * PAGE_SIZE) = x .. y - 1
  <2>1. Bytes(T * PAGE_SIZE, n * PAGE_SIZE) = x .. x + n * P - 1
    BY DEF Bytes, P, x
  <2> QED
    BY <1>2, <2>1
<1> HIDE DEF New
<1>6. Behind(OwnOf(O, T), x)
  BY <1>1, <1>2, <1>3, <1>4 DEF Behind
<1>7. OwnOf(O \union New, T + n) = OwnOf(O, T) \union (x .. y - 1)
  <2>1. ASSUME NEW a \in OwnOf(O \union New, T + n) PROVE a \in OwnOf(O, T) \union (x .. y - 1)
    <3>1. a \in P .. y /\ a \div P \in O \union New
      BY <1>4
    <3>2. a \in Int
      BY <1>1, <1>2, <3>1
    <3>3. a \div P \in New => a \in x .. y - 1
      BY <1>3, <3>2
    <3>4. a \div P \in O => a \in P .. x - 1
      BY <1>3, <3>2
    <3>5. a \div P \in O => a \in P .. x
      BY <1>1, <1>2, <3>4
    <3> QED
      BY <1>4, <3>1, <3>3, <3>5
  <2>2. ASSUME NEW a \in OwnOf(O, T) PROVE a \in OwnOf(O \union New, T + n)
    <3>1. a \in P .. x /\ a \div P \in O
      BY <1>4
    <3>2. a \in P .. y
      BY <1>1, <1>2, <3>1
    <3> QED
      BY <1>4, <3>1, <3>2
  <2>3. ASSUME NEW a \in x .. y - 1 PROVE a \in OwnOf(O \union New, T + n)
    <3>1. a \in Int /\ a \in P .. y /\ a \div P \in New
      BY <1>1, <1>2, <1>3
    <3> QED
      BY <1>4, <3>1
  <2> QED
    BY <2>1, <2>2, <2>3
<1>8. O \union New \subseteq 1 .. T + n - 1
  BY DEF New
<1> QED
  BY <1>5, <1>6, <1>7, <1>8 DEF New, x, P

(* The pages asked from the home are enough.                               *)
LEMMA Enough ==
  ASSUME NEW req \in Nat \ {0}
  PROVE  /\ Pages(req) \in Nat \ {0} /\ Pages(req) * PAGE_SIZE \in Int
         /\ req <= Pages(req) * PAGE_SIZE
<1> DEFINE P == PAGE_SIZE
           q == (req - 1) \div P
<1>1. P \in Nat \ {0}
  BY UnitsAssumption DEF MIN_CHUNK_SIZE
<1>2. q \in Int /\ q * P <= req - 1 /\ req - 1 < q * P + P
  <2>1. req - 1 \in Int
    OBVIOUS
  <2> QED
    BY <1>1, <2>1, Divides
<1>3. Pages(req) = q + 1
  BY DEF Pages
<1> HIDE DEF P, q
<1>4. (q + 1) * P = q * P + P /\ q * P \in Int
  BY <1>1, <1>2, Products
<1>5. q >= 0
  <2>1. SUFFICES ASSUME q + 1 <= 0 PROVE FALSE
    BY <1>2
  <2>2. (q + 1) * P <= 0 * P
    BY <1>1, <1>2, <2>1, Monotone
  <2>3. 0 * P = 0
    BY <1>1
  <2> QED
    BY <1>1, <1>2, <1>4, <2>2, <2>3
<1>6. req <= (q + 1) * P
  BY <1>1, <1>2, <1>4
<1>7. q + 1 \in Nat \ {0} /\ (q + 1) * P \in Int
  BY <1>1, <1>2, <1>4, <1>5
<1> QED
  BY <1>3, <1>6, <1>7 DEF P
(* A length with its header is one a chunk may have, and long enough.      *)
LEMMA WithHeader ==
  ASSUME NEW n \in Nat \ {0}
  PROVE  Aligned(n) \in Nat \ {0} /\ n + UNIT_SIZE <= Aligned(n)
<1> DEFINE u == UNIT_SIZE
           q == (n - 1) \div u
<1>1. u \in Nat \ {0}
  BY UnitsAssumption
<1>2. q \in Int /\ q * u <= n - 1 /\ n - 1 < q * u + u
  <2>1. n - 1 \in Int
    OBVIOUS
  <2> QED
    BY <1>1, <2>1, Divides
<1>3. Aligned(n) = (q + 1) * u + u
  BY DEF Aligned
<1> HIDE DEF u, q
<1>4. (q + 1) * u = q * u + u /\ q * u \in Int
  BY <1>1, <1>2, Products
<1>5. (q + 1) * u + u \in Nat \ {0} /\ n + u <= (q + 1) * u + u
  BY <1>1, <1>2, <1>4
<1> QED
  BY <1>3, <1>5 DEF u

(* allocate: an assert, or one more chunk, which is long enough.           *)
Served(h, a, U, req) ==
  /\ Typed(a.heap, U)
  /\ Runs(a.heap) => Used(h, a.heap, U, a.at, req)

LEMMA Allocates ==
  ASSUME NEW h, NEW U, Good(h, U, {}), Runs(h), NEW n \in Nat \ {0}, heapTop \in Nat,
         Behind(U, heapTop * PAGE_SIZE)
  PROVE  LET a == Allocated(h, n)
         IN  /\ a.pages \in Nat
             /\ Served(h, a, U \union Bytes(heapTop * PAGE_SIZE, a.pages * PAGE_SIZE), Aligned(n))
<1> DEFINE req == Aligned(n)
           slabbed == registerSlab(h, req)
           found == findChunk(slabbed, req)
           c == heapTop * PAGE_SIZE
           size == Pages(req) * PAGE_SIZE
           more == getMoreMemory(slabbed, c, size)
           a == Allocated(h, n)
           V == U \union Bytes(c, a.pages * PAGE_SIZE)
<1>1. req \in Nat \ {0} /\ req \in Int /\ 0 < req
  BY WithHeader
<1>2. /\ Pages(req) \in Nat \ {0} /\ size \in Int /\ req <= size /\ 0 < size
  <2>1. Pages(req) \in Nat \ {0} /\ size \in Int /\ req <= size
    <3> HIDE DEF req
    <3> QED
      BY <1>1, Enough
  <2> HIDE DEF size, req
  <2> QED
    BY <1>1, <2>1
<1>3. c \in Int
  BY UnitsAssumption, Products
<1>4. a = IF found.at # Null
          THEN [heap |-> useChunk(slabbed, found.at, req, found.bin), at |-> found.at, pages |-> 0]
          ELSE [heap |-> IF Runs(more.heap) THEN useChunk(more.heap, more.at, req, Residue)
                                            ELSE more.heap,
                at |-> more.at, pages |-> Pages(req)]
  BY DEF Allocated
<1> HIDE DEF req, a
<1>5. Good(slabbed, U, {}) /\ slabbed.chunk = h.chunk /\ slabbed.fault = h.fault
  <2> HIDE DEF slabbed
  <2> QED
    BY <1>1, Registers DEF slabbed
<1>6. Runs(slabbed) /\ Held(slabbed) = Held(h) /\ \A d \in Held(h) : Size(slabbed, d) = Size(h, d)
  BY <1>5 DEF Runs, Held, Chunks, Size
<1> HIDE DEF slabbed
<1>7. CASE found.at # Null
  <2>1. /\ found.bin \in Bin /\ found.at \in Chunks(slabbed)
        /\ slabbed.chunk[found.at].bin = found.bin /\ Size(slabbed, found.at) >= req
    <3> HIDE DEF found
    <3> QED
      BY <1>1, <1>5, <1>7, Finds DEF found
  <2> HIDE DEF found
  <2>2. req <= Size(slabbed, found.at)
    <3>1. Size(slabbed, found.at) \in Int
      BY <1>5, <2>1 DEF Good, IsHeap, HeaderType, Size
    <3> QED
      BY <1>1, <2>1, <3>1
  <2>3. a.heap = useChunk(slabbed, found.at, req, found.bin) /\ a.at = found.at /\ a.pages = 0
    BY <1>4, <1>7
  <2>4. Used(slabbed, a.heap, U, a.at, req)
    BY <1>1, <1>5, <1>6, <2>1, <2>2, <2>3, Uses
  <2>5. V = U
    <3>1. a.pages * PAGE_SIZE = 0
      BY <2>3, UnitsAssumption
    <3>2. Bytes(c, 0) = {}
      <4> HIDE DEF c
      <4> QED
        BY <1>3 DEF Bytes
    <3> QED
      BY <3>1, <3>2
  <2>6. Used(h, a.heap, U, a.at, req) /\ Typed(a.heap, U)
    BY <1>6, <2>4, GoodTyped DEF Used, Kept
  <2> QED
    BY <2>3, <2>5, <2>6 DEF Served, a, req
<1>8. CASE found.at = Null
  <2> DEFINE W == U \union Bytes(c, size)
  <2>1. Got(slabbed, more, W, size)
    <3> HIDE DEF c, size
    <3>1. Behind(U, c)
      BY DEF c
    <3> QED
      BY <1>2, <1>3, <1>5, <1>6, <3>1, Grows
  <2>2. /\ a.heap = IF Runs(more.heap) THEN useChunk(more.heap, more.at, req, Residue)
                                       ELSE more.heap
        /\ a.at = more.at /\ a.pages = Pages(req)
    BY <1>4, <1>8
  <2>3. V = W
    BY <2>2
  <2> HIDE DEF V, W, more, size
  <2>4. CASE ~ Runs(more.heap)
    <3>1. Served(h, a, W, req)
      BY <2>1, <2>2, <2>4 DEF Got, Served
    <3> QED
      BY <1>2, <2>2, <2>3, <3>1 DEF V, c, a, req
  <2>5. CASE Runs(more.heap)
    <3> DEFINE e == more.heap
               d == more.at
    <3>1. /\ Good(e, W, {}) /\ Runs(e) /\ d \in Chunks(e) /\ e.chunk[d].bin = Residue
          /\ Size(e, d) >= size /\ Held(e) = Held(slabbed) /\ Kept(slabbed, e, Held(slabbed))
          /\ a.heap = useChunk(e, d, req, Residue) /\ a.at = d
      BY <2>1, <2>2, <2>5 DEF Got
    <3> HIDE DEF e, d
    <3>2. req <= Size(e, d) /\ Residue \in Bin
      <4>1. Size(e, d) \in Int
        BY <3>1 DEF Good, IsHeap, HeaderType, Size
      <4> QED
        BY <1>1, <1>2, <3>1, <4>1, BinTypes
    <3>3. Used(e, a.heap, W, a.at, req)
      BY <1>1, <3>1, <3>2, Uses
    <3>4. Used(h, a.heap, W, a.at, req) /\ Typed(a.heap, W)
      BY <1>6, <3>1, <3>3, GoodTyped DEF Used, Kept
    <3> QED
      BY <1>2, <2>2, <2>3, <3>4 DEF Served, V, c, a, req
  <2> QED
    BY <2>4, <2>5
<1> QED
  BY <1>7, <1>8

-----------------------------------------------------------------------------
(* The inductive invariant: an orderly heap, until an assert fails.        *)

PagesOK ==
  /\ heapTop \in Nat \ {0}
  /\ owned \subseteq 1 .. heapTop - 1

(* The blocks of the program and the chunks in use, one for one.           *)
Backed(h, blocks) ==
  /\ Held(h) = {ChunkOf(b) : b \in blocks}
  /\ \A b \in blocks : /\ b = Block(ChunkOf(b), b.len) /\ b.at \in Int /\ b.len \in Lens
                       /\ Aligned(b.len) <= Size(h, ChunkOf(b))
  /\ \A b, d \in blocks : b.at = d.at => b = d

IInv ==
  /\ PagesOK
  /\ Typed(heap, OwnBytes)
  /\ Runs(heap) => Good(heap, OwnBytes, {}) /\ Backed(heap, live)
LEMMA LensNat == Lens \subseteq Nat \ {0}
BY LensAssumption

LEMMA Backs ==
  ASSUME NEW h, NEW g, NEW U, NEW c, NEW n \in Lens, NEW B,
         Backed(h, B), IsHeap(g), Used(h, g, U, c, Aligned(n))
  PROVE  /\ Backed(g, B \union {Block(c, n)})
         /\ c \in Int /\ ChunkOf(Block(c, n)) = c /\ Block(c, n) \notin B
<1> DEFINE k == Block(c, n)
<1>1. c \in Held(g) /\ c \notin Held(h) /\ Held(g) = Held(h) \union {c}
      /\ Size(g, c) >= Aligned(n) /\ \A d \in Held(h) : Size(g, d) = Size(h, d)
  BY DEF Used, Kept
<1>2. c \in Int /\ Size(g, c) \in Int /\ Aligned(n) \in Int /\ UNIT_SIZE \in Int
  <2>1. Aligned(n) \in Int
    BY LensNat, WithHeader
  <2> QED
    BY <1>1, <2>1, UnitsAssumption DEF Held, IsHeap, HeaderType, Size
<1>3. k.at = c + UNIT_SIZE /\ k.len = n /\ ChunkOf(k) = c /\ k = Block(ChunkOf(k), k.len) /\ k.at \in Int
  BY <1>2 DEF Block, ChunkOf
<1> HIDE DEF k
<1>4. \A b \in B : /\ b = Block(ChunkOf(b), b.len) /\ b.at \in Int /\ b.len \in Lens
                   /\ Aligned(b.len) <= Size(h, ChunkOf(b)) /\ ChunkOf(b) \in Held(h)
  BY DEF Backed
<1>5. \A b \in B : b.at # k.at
  BY <1>1, <1>2, <1>3, <1>4 DEF ChunkOf
<1>6. Held(g) = {ChunkOf(b) : b \in B \union {k}}
  <2>1. Held(h) = {ChunkOf(b) : b \in B}
    BY DEF Backed
  <2> QED
    BY <1>1, <1>3, <2>1
<1>7. \A b \in B \union {k} : /\ b = Block(ChunkOf(b), b.len) /\ b.at \in Int /\ b.len \in Lens
                              /\ Aligned(b.len) <= Size(g, ChunkOf(b))
  BY <1>1, <1>2, <1>3, <1>4
<1>8. \A b, d \in B \union {k} : b.at = d.at => b = d
  BY <1>5 DEF Backed
<1>9. k \notin B
  BY <1>5
<1> QED
  BY <1>2, <1>3, <1>6, <1>7, <1>8, <1>9 DEF Backed, k

LEMMA Unbacks ==
  ASSUME NEW h, NEW g, NEW U, NEW B, NEW b \in B,
         Backed(h, B), Gone(h, g, U, ChunkOf(b)), Runs(g)
  PROVE  Backed(g, B \ {b})
<1>1. Held(g) = Held(h) \ {ChunkOf(b)} /\ \A d \in Held(h) \ {ChunkOf(b)} : Size(g, d) = Size(h, d)
  BY DEF Gone, Kept
<1>2. /\ Held(h) = {ChunkOf(d) : d \in B}
      /\ \A d \in B : /\ d = Block(ChunkOf(d), d.len) /\ d.at \in Int /\ d.len \in Lens
                      /\ Aligned(d.len) <= Size(h, ChunkOf(d))
      /\ \A d, e \in B : d.at = e.at => d = e
  BY DEF Backed
<1>3. \A d \in B : ChunkOf(d) = ChunkOf(b) => d = b
  <2>1. ASSUME NEW d \in B, ChunkOf(d) = ChunkOf(b) PROVE d.at = b.at
    BY <1>2, <2>1, UnitsAssumption DEF ChunkOf
  <2> QED
    BY <1>2, <2>1
<1>4. \A d \in B \ {b} : ChunkOf(d) \in Held(h) \ {ChunkOf(b)}
  BY <1>2, <1>3
<1>5. Held(g) = {ChunkOf(d) : d \in B \ {b}}
  BY <1>1, <1>2, <1>4
<1>6. \A d \in B \ {b} : /\ d = Block(ChunkOf(d), d.len) /\ d.at \in Int /\ d.len \in Lens
                         /\ Aligned(d.len) <= Size(g, ChunkOf(d))
  BY <1>1, <1>2, <1>4
<1> QED
  BY <1>2, <1>5, <1>6 DEF Backed

LEMMA Resizes ==
  ASSUME NEW h, NEW B, NEW b \in B, NEW n \in Lens, Backed(h, B),
         Aligned(n) <= Size(h, ChunkOf(b))
  PROVE  Backed(h, (B \ {b}) \union {Block(ChunkOf(b), n)})
<1> DEFINE k == Block(ChunkOf(b), n)
<1>1. /\ Held(h) = {ChunkOf(d) : d \in B}
      /\ \A d \in B : /\ d = Block(ChunkOf(d), d.len) /\ d.at \in Int /\ d.len \in Lens
                      /\ Aligned(d.len) <= Size(h, ChunkOf(d))
      /\ \A d, e \in B : d.at = e.at => d = e
  BY DEF Backed
<1>2. k.at = b.at /\ ChunkOf(k) = ChunkOf(b) /\ k.len = n /\ k = Block(ChunkOf(k), k.len)
  BY <1>1, UnitsAssumption DEF Block, ChunkOf
<1> HIDE DEF k
<1>3. Held(h) = {ChunkOf(d) : d \in (B \ {b}) \union {k}}
  BY <1>1, <1>2
<1>4. \A d \in (B \ {b}) \union {k} :
        /\ d = Block(ChunkOf(d), d.len) /\ d.at \in Int /\ d.len \in Lens
        /\ Aligned(d.len) <= Size(h, ChunkOf(d))
  BY <1>1, <1>2
<1>5. \A d, e \in (B \ {b}) \union {k} : d.at = e.at => d = e
  BY <1>1, <1>2
<1> QED
  BY <1>3, <1>4, <1>5 DEF Backed, k

LEMMA InitInv == Init => IInv
<1> SUFFICES ASSUME Init PROVE IInv
  OBVIOUS
<1>1. heapTop = 1
  <2>1. PAGE_SIZE \in Int /\ PAGE_SIZE > 0
    BY UnitsAssumption DEF MIN_CHUNK_SIZE
  <2>2. PAGE_SIZE \div PAGE_SIZE = 1
    BY <2>1
  <2> QED
    BY <2>2 DEF Init, HEAP_START
<1>2. PagesOK
  BY <1>1 DEF Init, PagesOK
<1>3. /\ heap.chunk = << >> /\ heap.freeList = [b \in Bin |-> << >>]
      /\ heap.freeSizeList = [b \in Bin |-> 0] /\ heap.lastChunk = Null /\ heap.fault = "none"
      /\ heap = [chunk |-> heap.chunk, freeList |-> heap.freeList,
                 freeSizeList |-> heap.freeSizeList, lastChunk |-> heap.lastChunk,
                 fault |-> heap.fault]
  BY DEF Init
<1>4. Chunks(heap) = {} /\ heap.chunk \in [Chunks(heap) -> HeaderType]
  <2>1. << >> \in Seq(HeaderType) /\ DOMAIN << >> = {}
    OBVIOUS
  <2>2. << >> \in [{} -> HeaderType]
    BY <2>1
  <2> QED
    BY <1>3, <2>1, <2>2 DEF Chunks
<1>5. IsHeap(heap)
  <2>1. heap.freeList \in [Bin -> Seq(Int)]
    BY <1>3
  <2>2. heap.freeSizeList \in [Bin -> Int]
    BY <1>3
  <2> QED
    BY <1>3, <1>4, <2>1, <2>2 DEF IsHeap, Null, Faults
<1>6. OwnBytes = {}
  BY DEF Init, OwnBytes
<1>7. Tiles(heap, OwnBytes)
  BY <1>4, <1>6 DEF Tiles
<1>8. Bins(heap, {})
  <2>1. ASSUME NEW b \in Bin PROVE Once(heap.freeList[b]) /\ In(heap, b) = {}
    <3>1. heap.freeList[b] = << >>
      BY <1>3
    <3> QED
      BY <3>1 DEF Once, In
  <2> QED
    BY <1>4, <2>1 DEF Bins
<1>9. Good(heap, OwnBytes, {})
  BY <1>3, <1>5, <1>7, <1>8 DEF Good
<1>10. Backed(heap, live)
  BY <1>4 DEF Init, Backed, Held
<1> QED
  BY <1>2, <1>9, <1>10, GoodTyped DEF IInv
(* What allocate does to the heap, the pages it gets included.             *)
LEMMA Gives ==
  ASSUME IInv, Runs(heap), NEW n \in Lens, allocatePage(Allocated(heap, n).pages)
  PROVE  /\ PagesOK' /\ owned \subseteq owned' /\ OwnBytes \subseteq OwnBytes'
         /\ Served(heap, Allocated(heap, n), OwnBytes', Aligned(n))
<1> DEFINE a == Allocated(heap, n)
           c == heapTop * PAGE_SIZE
           U == OwnBytes
           V == U \union Bytes(c, a.pages * PAGE_SIZE)
<1>1. Good(heap, U, {}) /\ heapTop \in Nat \ {0} /\ owned \in SUBSET (1 .. heapTop - 1)
  BY DEF IInv, PagesOK
<1>2. U = OwnOf(owned, heapTop) /\ OwnBytes' = OwnOf(owned', heapTop')
  BY DEF OwnBytes, OwnOf
<1>3. n \in Nat \ {0}
  BY LensNat
<1>4. Behind(U, c)
  <2>1. 0 \in Nat
    OBVIOUS
  <2> HIDE DEF U, c
  <2> QED
    BY <1>1, <1>2, <2>1, MorePages DEF c
<1>5. a.pages \in Nat /\ Served(heap, a, V, Aligned(n))
  <2> HIDE DEF U
  <2> QED
    BY <1>1, <1>3, <1>4, Allocates
<1>6. heapTop' = heapTop + a.pages /\ owned' = owned \union (heapTop .. heapTop + a.pages - 1)
  BY DEF allocatePage
<1> HIDE DEF a
<1>7. /\ OwnOf(owned', heapTop') = OwnOf(owned, heapTop) \union Bytes(c, a.pages * PAGE_SIZE)
      /\ owned' \subseteq 1 .. heapTop' - 1
  <2> DEFINE k == a.pages
  <2>1. /\ k \in Nat /\ a.pages = k /\ heapTop' = heapTop + k
        /\ owned' = owned \union (heapTop .. heapTop + k - 1)
    BY <1>5, <1>6
  <2> HIDE DEF k
  <2>2. /\ OwnOf(owned \union (heapTop .. heapTop + k - 1), heapTop + k)
             = OwnOf(owned, heapTop) \union Bytes(heapTop * PAGE_SIZE, k * PAGE_SIZE)
        /\ owned \union (heapTop .. heapTop + k - 1) \subseteq 1 .. heapTop + k - 1
    BY <1>1, <2>1, MorePages
  <2>3. OwnOf(owned', heapTop') = OwnOf(owned, heapTop) \union Bytes(c, k * PAGE_SIZE)
    BY <2>1, <2>2
  <2>4. owned' \subseteq 1 .. heapTop' - 1
    <3>1. heapTop' - 1 = heapTop + k - 1
      BY <1>1, <2>1
    <3> QED
      BY <2>1, <2>2, <3>1
  <2>5. a.pages * PAGE_SIZE = k * PAGE_SIZE
    BY <2>1
  <2> HIDE DEF c
  <2> QED
    BY <2>3, <2>4, <2>5
<1>8. OwnBytes' = V
  BY <1>2, <1>7
<1>9. PagesOK'
  BY <1>1, <1>5, <1>6, <1>7 DEF PagesOK
<1>10. OwnBytes \subseteq OwnBytes'
  BY <1>8
<1> QED
  BY <1>5, <1>6, <1>8, <1>9, <1>10 DEF a

LEMMA AllocateInv == ASSUME IInv, NEW n \in Lens, allocate(n) PROVE IInv'
<1> DEFINE a == Allocated(heap, n)
<1>1. Runs(heap) /\ allocatePage(a.pages) /\ heap' = a.heap
      /\ live' = IF Runs(a.heap) THEN live \union {Block(a.at, n)} ELSE live
  BY DEF allocate
<1>2. PagesOK' /\ Served(heap, a, OwnBytes', Aligned(n))
  BY <1>1, Gives
<1> HIDE DEF a
<1>3. Typed(heap', OwnBytes')
  BY <1>1, <1>2 DEF Served
<1>4. ASSUME Runs(heap') PROVE Good(heap', OwnBytes', {}) /\ Backed(heap', live')
  <2>1. Used(heap, heap', OwnBytes', a.at, Aligned(n))
    BY <1>1, <1>2, <1>4 DEF Served
  <2>2. Good(heap', OwnBytes', {}) /\ IsHeap(heap')
    BY <2>1 DEF Used, Good
  <2>3. Backed(heap, live)
    BY <1>1 DEF IInv
  <2>4. Backed(heap', live \union {Block(a.at, n)})
    BY <2>1, <2>2, <2>3, Backs
  <2> QED
    BY <1>1, <1>4, <2>2, <2>4
<1> QED
  BY <1>2, <1>3, <1>4 DEF IInv

(* What free of a block does to a heap on which the program holds B.       *)
LEMMA FreeGood ==
  ASSUME NEW h, NEW U, NEW B, NEW b \in B, Good(h, U, {}), Runs(h), Backed(h, B),
         NEW looksUsed \in BOOLEAN
  PROVE  LET g == Freed(h, ChunkOf(b), looksUsed)
         IN  /\ Typed(g, U)
             /\ Runs(g) => Good(g, U, {}) /\ Backed(g, B \ {b})
<1> DEFINE c == ChunkOf(b)
           g == Freed(h, c, looksUsed)
<1>1. c \in Held(h)
  BY DEF Backed
<1>2. Gone(h, g, U, c)
  <2> HIDE DEF c
  <2> QED
    BY <1>1, Frees
<1> HIDE DEF g
<1>3. Runs(g) => Backed(g, B \ {b})
  BY <1>2, Unbacks
<1> QED
  BY <1>2, <1>3 DEF Gone, g

LEMMA FreeInv == ASSUME IInv, NEW b \in live, Free(b) PROVE IInv'
<1>1. PICK looksUsed \in BOOLEAN : heap' = Freed(heap, ChunkOf(b), looksUsed)
  BY DEF Free
<1>2. Runs(heap) /\ UNCHANGED <<heapTop, owned>>
      /\ live' = IF Runs(heap') THEN live \ {b} ELSE live
  BY DEF Free
<1>3. Good(heap, OwnBytes, {}) /\ Backed(heap, live)
  BY <1>2 DEF IInv
<1>4. /\ Typed(heap', OwnBytes)
      /\ Runs(heap') => Good(heap', OwnBytes, {}) /\ Backed(heap', live \ {b})
  BY <1>1, <1>2, <1>3, FreeGood
<1>5. PagesOK' /\ OwnBytes' = OwnBytes
  BY <1>2 DEF IInv, PagesOK, OwnBytes
<1> QED
  BY <1>2, <1>4, <1>5 DEF IInv

LEMMA ReallocInv == ASSUME IInv, NEW b \in live, NEW n \in Lens, Realloc(b, n) PROVE IInv'
<1> DEFINE c == ChunkOf(b)
           a == Allocated(heap, n)
<1>1. Runs(heap) /\ Good(heap, OwnBytes, {}) /\ Backed(heap, live)
  BY DEF Realloc, IInv
<1>2. CASE Size(heap, c) >= Aligned(n)
  <2>1. live' = (live \ {b}) \union {Block(c, n)} /\ UNCHANGED <<heap, heapTop, owned>>
    BY <1>2 DEF Realloc
  <2>2. Aligned(n) <= Size(heap, c)
    <3>1. c \in Held(heap)
      BY <1>1 DEF Backed
    <3>2. Size(heap, c) \in Int
      BY <1>1, <3>1 DEF Good, IsHeap, HeaderType, Size, Held
    <3>3. Aligned(n) \in Int
      BY LensNat, WithHeader
    <3> QED
      BY <1>2, <3>2, <3>3
  <2>3. Backed(heap, live')
    BY <1>1, <2>1, <2>2, Resizes
  <2>4. PagesOK' /\ OwnBytes' = OwnBytes
    BY <2>1 DEF IInv, PagesOK, OwnBytes
  <2> QED
    BY <2>1, <2>3, <2>4 DEF IInv
<1>3. CASE ~ (Size(heap, c) >= Aligned(n))
  <2>1. /\ allocatePage(a.pages)
        /\ heap' \in IF Runs(a.heap) THEN {Freed(a.heap, c, looksUsed) : looksUsed \in BOOLEAN}
                     ELSE {a.heap}
        /\ live' = IF Runs(heap') THEN (live \ {b}) \union {Block(a.at, n)} ELSE live
    BY <1>3 DEF Realloc
  <2>2. PagesOK' /\ Served(heap, a, OwnBytes', Aligned(n))
    BY <1>1, <2>1, Gives
  <2> HIDE DEF a
  <2>3. CASE ~ Runs(a.heap)
    <3>1. heap' = a.heap
      BY <2>1, <2>3
    <3> QED
      BY <2>2, <2>3, <3>1 DEF IInv, Served
  <2>4. CASE Runs(a.heap)
    <3> DEFINE B == live \union {Block(a.at, n)}
    <3>1. PICK looksUsed \in BOOLEAN : heap' = Freed(a.heap, c, looksUsed)
      BY <2>1, <2>4
    <3>2. Used(heap, a.heap, OwnBytes', a.at, Aligned(n))
      BY <2>2, <2>4 DEF Served
    <3>3. Good(a.heap, OwnBytes', {}) /\ IsHeap(a.heap)
      BY <3>2 DEF Used, Good
    <3>4. Backed(a.heap, B) /\ Block(a.at, n) \notin live
      BY <1>1, <3>2, <3>3, Backs
    <3>5. b \in B /\ B \ {b} = (live \ {b}) \union {Block(a.at, n)}
      BY <3>4
    <3> HIDE DEF B
    <3>6. /\ Typed(heap', OwnBytes')
          /\ Runs(heap') => Good(heap', OwnBytes', {}) /\ Backed(heap', B \ {b})
      BY <2>4, <3>1, <3>3, <3>4, <3>5, FreeGood
    <3> QED
      BY <2>1, <2>2, <3>5, <3>6 DEF IInv
  <2> QED
    BY <2>3, <2>4
<1> QED
  BY <1>2, <1>3

LEMMA OthersInv == ASSUME IInv, Others PROVE IInv'
<1>1. /\ heapTop' = heapTop + 1 /\ UNCHANGED <<heap, owned, live>>
      /\ heapTop \in Nat \ {0} /\ owned \in SUBSET (1 .. heapTop - 1)
  BY DEF Others, IInv, PagesOK
<1>2. PagesOK'
  BY <1>1 DEF PagesOK
<1>3. OwnBytes' = OwnBytes
  <2> DEFINE P == PAGE_SIZE
             x == heapTop * P
             y == (heapTop + 1) * P
  <2>1. P \in Nat /\ x \in Int /\ y \in Int /\ y = x + P
    BY <1>1, UnitsAssumption, Products
  <2>2. OwnBytes = {u \in P .. x : u \div P \in owned}
        /\ OwnBytes' = {u \in P .. y : u \div P \in owned}
    BY <1>1 DEF OwnBytes, HEAP_START
  <2>3. ASSUME NEW u \in Int, u \div P \in owned PROVE u \in P .. x - 1
    <3> DEFINE q == u \div P
    <3>1. q \in owned
      BY <2>3
    <3> HIDE DEF q
    <3>2. 1 \in Int /\ heapTop \in Int /\ q \in 1 .. heapTop - 1
      BY <1>1, <3>1
    <3>3. u \in 1 * PAGE_SIZE .. heapTop * PAGE_SIZE - 1
      BY <3>2, OfPages DEF q
    <3>4. 1 * PAGE_SIZE = PAGE_SIZE
      BY <2>1
    <3> QED
      BY <3>3, <3>4
  <2> HIDE DEF P, x, y
  <2>4. ASSUME NEW u \in P .. y, u \div P \in owned PROVE u \in P .. x
    <3>1. u \in Int
      BY <2>1
    <3>2. u \in P .. x - 1
      BY <2>3, <2>4, <3>1
    <3> QED
      BY <2>1, <3>2
  <2> QED
    BY <2>1, <2>2, <2>4
<1> QED
  BY <1>1, <1>2, <1>3 DEF IInv

LEMMA InvHolds == Spec => []IInv
<1>1. Init => IInv
  BY InitInv
<1>2. IInv /\ [Next]_vars => IInv'
  <2> SUFFICES ASSUME IInv, [Next]_vars PROVE IInv'
    OBVIOUS
  <2>1. ASSUME NEW n \in Lens, allocate(n) PROVE IInv'
    BY <2>1, AllocateInv
  <2>2. ASSUME NEW b \in live, Free(b) PROVE IInv'
    BY <2>2, FreeInv
  <2>3. ASSUME NEW b \in live, NEW n \in Lens, Realloc(b, n) PROVE IInv'
    BY <2>3, ReallocInv
  <2>4. CASE Others
    BY <2>4, OthersInv
  <2>5. ASSUME NEW p \in owned, pageumap(p) PROVE IInv'
    BY <2>5 DEF pageumap, IInv, PagesOK, OwnBytes
  <2>6. CASE UNCHANGED vars
    BY <2>6 DEF vars, IInv, PagesOK, OwnBytes
  <2> QED
    BY <2>1, <2>2, <2>3, <2>4, <2>5, <2>6 DEF Next
<1> QED
  BY <1>1, <1>2, PTL DEF Spec
-----------------------------------------------------------------------------
(* What the invariant says of the state.                                   *)

(* Until free goes astray the chunks begin in the client's own pages, and  *)
(* lastChunk and the bins name chunks, also when an assert has failed.     *)
THEOREM TypeCorrect == Spec => []TypeOK
<1>1. ASSUME IInv PROVE TypeOK
  <2>1. IsHeap(heap) /\ heap.lastChunk \in Chunks(heap) \union {Null}
        /\ Chunks(heap) \subseteq OwnBytes
        /\ \A b \in Bin : heap.freeList[b] \in Seq(Chunks(heap))
    BY <1>1 DEF IInv, Typed
  <2>2. \A c \in Chunks(heap) : heap.chunk[c].bin \in Bin \union {Nowhere}
    BY <2>1 DEF IsHeap, HeaderType
  <2> QED
    BY <2>1, <2>2 DEF TypeOK, IsHeap, Faults
<1> QED
  BY <1>1, InvHolds, PTL

(* Until an assert fails or free goes astray, every byte of the pages that *)
(* the home has given to the client is in exactly one chunk, for any       *)
(* sequence of allocate, free and uva_realloc and of pages that other      *)
(* clients get.                                                            *)
THEOREM TiledHolds == Spec => []Tiled
<1>1. ASSUME IInv PROVE Tiled
  <2> SUFFICES ASSUME Runs(heap)
      PROVE  /\ UNION {Span(heap, c) : c \in Chunks(heap)} = OwnBytes
             /\ \A c, d \in Chunks(heap) :
                  c # d => Span(heap, c) \intersect Span(heap, d) = {}
    BY DEF Tiled
  <2>1. Tiles(heap, OwnBytes)
    BY <1>1 DEF IInv, Good
  <2> QED
    BY <2>1 DEF Tiles
<1> QED
  BY <1>1, InvHolds, PTL

(* Until then bins and headers agree, whatever lengths get slabs: a free   *)
(* chunk is once in its bin and has the length of a slab, and the chunks   *)
(* in use are those of the program's blocks and long enough for them.      *)
THEOREM ListedHolds == Spec => []Listed
<1>1. ASSUME IInv, Runs(heap) PROVE Good(heap, OwnBytes, {}) /\ Backed(heap, live)
  BY <1>1 DEF IInv
<1>2. ASSUME IInv, Runs(heap), NEW c \in Chunks(heap), NEW b \in Bin
      PROVE  Cardinality({i \in DOMAIN heap.freeList[b] : heap.freeList[b][i] = c})
               = IF heap.chunk[c].bin = b THEN 1 ELSE 0
  <2> DEFINE S == {i \in DOMAIN heap.freeList[b] : heap.freeList[b][i] = c}
  <2>1. Once(heap.freeList[b]) /\ In(heap, b) = {d \in Chunks(heap) : heap.chunk[d].bin = b}
    BY <1>1, <1>2 DEF Good, Bins
  <2>2. CASE heap.chunk[c].bin = b
    <3>1. PICK i \in DOMAIN heap.freeList[b] : heap.freeList[b][i] = c
      BY <2>1, <2>2 DEF In
    <3>2. S = {i}
      BY <2>1, <3>1 DEF Once
    <3>3. Cardinality({i}) = 1
      BY FS_Singleton
    <3> QED
      BY <2>2, <3>2, <3>3
  <2>3. CASE heap.chunk[c].bin # b
    <3>1. S = {}
      BY <2>1, <2>3 DEF In
    <3>2. Cardinality({}) = 0
      BY FS_EmptySet
    <3> QED
      BY <2>3, <3>1, <3>2
  <2> QED
    BY <2>2, <2>3
<1>3. ASSUME IInv, Runs(heap) PROVE \A c \in Chunks(heap) : heap.chunk[c].used <=> heap.chunk[c].bin = Nowhere
  BY <1>1, <1>3 DEF Good, Bins
<1>4. ASSUME IInv, Runs(heap), NEW b \in 0 .. Slabs - 1, NEW i \in DOMAIN heap.freeList[b]
      PROVE  Size(heap, heap.freeList[b][i]) = heap.freeSizeList[b]
  <2> DEFINE c == heap.freeList[b][i]
  <2>1. c \in In(heap, b) /\ b \in Bin
    BY BinTypes DEF In
  <2> HIDE DEF c
  <2>2. c \in Chunks(heap) /\ heap.chunk[c].bin = b
    BY <1>1, <1>4, <2>1 DEF Good, Bins
  <2>3. Size(heap, c) = heap.freeSizeList[b]
    BY <1>1, <1>4, <2>2 DEF Good, Bins
  <2> QED
    BY <2>3 DEF c
<1>5. ASSUME IInv, Runs(heap)
      PROVE  /\ {c \in Chunks(heap) : heap.chunk[c].used} = {ChunkOf(b) : b \in live}
             /\ \A b \in live : Aligned(b.len) <= Size(heap, ChunkOf(b))
  BY <1>1, <1>5 DEF Backed, Held
<1>6. IInv => Listed
  BY <1>2, <1>3, <1>4, <1>5 DEF Listed
<1> QED
  BY <1>6, InvHolds, PTL

-----------------------------------------------------------------------------
(* The allocator does what Heap promises.                                  *)

LEMMA BlocksApart ==
  ASSUME NEW h, NEW U, NEW B, Good(h, U, {}), Backed(h, B), NEW b \in B
  PROVE  /\ H!Bytes(b) \subseteq U
         /\ \A d \in B : d # b => H!Bytes(b) \intersect H!Bytes(d) = {}
<1>1. IsHeap(h) /\ Tiles(h, U)
  BY DEF Good
<1>2. ASSUME NEW d \in B
      PROVE  /\ ChunkOf(d) \in Chunks(h) /\ ChunkOf(d) = d.at - UNIT_SIZE /\ d.at \in Int
             /\ H!Bytes(d) \subseteq Span(h, ChunkOf(d))
  <2> DEFINE c == ChunkOf(d)
  <2>1. c \in Chunks(h) /\ d.at \in Int /\ d.len \in Lens /\ Aligned(d.len) <= Size(h, c)
    BY DEF Backed, Held
  <2>2. Size(h, c) \in Int /\ c = d.at - UNIT_SIZE /\ d.len \in Int /\ UNIT_SIZE \in Nat
        /\ d.len + UNIT_SIZE <= Aligned(d.len) /\ Aligned(d.len) \in Int
    <3>1. d.len \in Nat \ {0}
      BY <2>1, LensNat
    <3> QED
      BY <1>1, <2>1, <3>1, WithHeader, UnitsAssumption DEF IsHeap, HeaderType, Size, ChunkOf
  <2>3. H!Bytes(d) = d.at .. d.at + d.len - 1
    BY DEF H!Bytes
  <2> HIDE DEF c
  <2>4. Span(h, c) = c .. c + Size(h, c) - 1
    BY <2>2, <2>1 DEF Span, NextInMem
  <2>5. H!Bytes(d) \subseteq Span(h, c)
    BY <2>1, <2>2, <2>3, <2>4
  <2> QED
    BY <2>1, <2>2, <2>5 DEF c
<1>3. ASSUME NEW d \in B, d # b PROVE ChunkOf(d) # ChunkOf(b)
  <2>1. d.at # b.at
    BY <1>3 DEF Backed
  <2> QED
    BY <1>2, <2>1, UnitsAssumption
<1>4. H!Bytes(b) \subseteq U
  BY <1>1, <1>2 DEF Tiles
<1>5. ASSUME NEW d \in B, d # b PROVE H!Bytes(b) \intersect H!Bytes(d) = {}
  <2>1. Span(h, ChunkOf(b)) \intersect Span(h, ChunkOf(d)) = {}
    BY <1>1, <1>2, <1>3, <1>5 DEF Tiles
  <2> QED
    BY <1>2, <2>1
<1> QED
  BY <1>4, <1>5

(* A block that is in use next lies in the pages, apart from the others.   *)
LEMMA Placed ==
  ASSUME NEW b, NEW others, live' = others \union {b}, b \notin others,
         Good(heap', OwnBytes', {}), Backed(heap', live')
  PROVE  H!Place(b, others)
<1>1. H!Bytes(b) \subseteq OwnBytes' /\ \A d \in live' : d # b => H!Bytes(b) \intersect H!Bytes(d) = {}
  BY BlocksApart
<1>2. H!Apart(b, others)
  BY <1>1 DEF H!Apart
<1>3. H!Inside(b, owned')
  BY <1>1 DEF H!Inside, OwnBytes
<1>4. b.len \in Lens
  BY DEF Backed
<1> QED
  BY <1>2, <1>3, <1>4 DEF H!Place
LEMMA HeapStep == ASSUME IInv, IInv', [Next]_vars PROVE [H!Next]_<<live, owned>>
<1> DEFINE Goal == [H!Next]_<<live, owned>>
<1>1. ASSUME NEW n \in Lens, allocate(n) PROVE Goal
  <2> DEFINE a == Allocated(heap, n)
             k == Block(a.at, n)
  <2>1. Runs(heap) /\ allocatePage(a.pages) /\ heap' = a.heap
        /\ live' = IF Runs(heap') THEN live \union {k} ELSE live
    BY <1>1 DEF allocate
  <2>2. owned \subseteq owned' /\ Served(heap, a, OwnBytes', Aligned(n))
    BY <2>1, Gives
  <2> HIDE DEF a, k
  <2>3. CASE ~ Runs(heap')
    <3>1. H!More
      BY <2>1, <2>2, <2>3 DEF H!More, H!Grow
    <3> QED
      BY <3>1 DEF H!Next
  <2>4. CASE Runs(heap')
    <3>1. Good(heap', OwnBytes', {}) /\ Backed(heap', live') /\ live' = live \union {k}
      BY <2>1, <2>4 DEF IInv
    <3>2. k \notin live
      <4>1. Used(heap, heap', OwnBytes', a.at, Aligned(n)) /\ Backed(heap, live) /\ IsHeap(heap')
        BY <2>1, <2>2, <2>4, <3>1 DEF Served, IInv, Good
      <4> QED
        BY <4>1, Backs DEF k
    <3>3. H!Place(k, live)
      BY <3>1, <3>2, Placed
    <3>4. H!Malloc
      BY <2>2, <3>1, <3>2, <3>3 DEF H!Malloc, H!Grow, H!New
    <3> QED
      BY <3>4 DEF H!Next
  <2> QED
    BY <2>3, <2>4
<1>2. ASSUME NEW b \in live, Free(b) PROVE Goal
  <2>1. UNCHANGED owned /\ (live' = live \ {b} \/ live' = live)
    BY <1>2 DEF Free
  <2>2. CASE live' = live \ {b}
    BY <2>1, <2>2 DEF H!Next, H!Free
  <2>3. CASE live' = live
    BY <2>1, <2>3
  <2> QED
    BY <2>1, <2>2, <2>3
<1>3. ASSUME NEW b \in live, NEW n \in Lens, Realloc(b, n) PROVE Goal
  <2> DEFINE c == ChunkOf(b)
             a == Allocated(heap, n)
  <2>1. Runs(heap) /\ Good(heap, OwnBytes, {}) /\ Backed(heap, live)
    BY <1>3 DEF Realloc, IInv
  <2>2. CASE Size(heap, c) >= Aligned(n)
    <3> DEFINE k == Block(c, n)
    <3>1. live' = (live \ {b}) \union {k} /\ UNCHANGED <<heap, heapTop, owned>>
      BY <1>3, <2>2 DEF Realloc
    <3>2. k.at = b.at
      BY <2>1, UnitsAssumption DEF Backed, Block, ChunkOf
    <3> HIDE DEF k
    <3>3. CASE k \in live
      <4>1. k = b
        BY <2>1, <3>2, <3>3 DEF Backed
      <4> QED
        BY <3>1, <4>1
    <3>4. CASE k \notin live
      <4>1. Good(heap', OwnBytes', {}) /\ Backed(heap', live')
        BY <2>1, <3>1 DEF IInv
      <4> DEFINE others == live \ {b}
      <4>2. k \notin others /\ live' = others \union {k}
        BY <3>1, <3>4
      <4> HIDE DEF others
      <4>3. H!Place(k, others)
        BY <4>1, <4>2, Placed
      <4>4. H!Realloc
        BY <3>1, <3>2, <3>4, <4>3 DEF others, H!Realloc, H!Grow, H!New
      <4> QED
        BY <4>4 DEF H!Next
    <3> QED
      BY <3>3, <3>4
  <2>3. CASE ~ (Size(heap, c) >= Aligned(n))
    <3> DEFINE k == Block(a.at, n)
    <3>1. /\ allocatePage(a.pages)
          /\ heap' \in IF Runs(a.heap) THEN {Freed(a.heap, c, looksUsed) : looksUsed \in BOOLEAN}
                       ELSE {a.heap}
          /\ live' = IF Runs(heap') THEN (live \ {b}) \union {k} ELSE live
      BY <1>3, <2>3 DEF Realloc
    <3>2. owned \subseteq owned' /\ Served(heap, a, OwnBytes', Aligned(n))
      BY <2>1, <3>1, Gives
    <3> HIDE DEF a, k
    <3>3. CASE ~ Runs(heap')
      <4>1. H!More
        BY <3>1, <3>2, <3>3 DEF H!More, H!Grow
      <4> QED
        BY <4>1 DEF H!Next
    <3>4. CASE Runs(heap')
      <4>1. Runs(a.heap)
        BY <3>1, <3>4
      <4>2. Used(heap, a.heap, OwnBytes', a.at, Aligned(n))
        BY <3>2, <4>1 DEF Served
      <4>3. Good(a.heap, OwnBytes', {}) /\ IsHeap(a.heap)
        BY <4>2 DEF Used, Good
      <4> DEFINE B == live \union {k}
      <4>4. Backed(a.heap, B) /\ k \notin live
        BY <2>1, <4>2, <4>3, Backs DEF k
      <4>5. k \in B /\ b \in B /\ b # k
        BY <4>4
      <4> HIDE DEF B
      <4>6. H!Bytes(k) \intersect H!Bytes(b) = {}
        BY <4>3, <4>4, <4>5, BlocksApart
      <4>7. Good(heap', OwnBytes', {}) /\ Backed(heap', live') /\ live' = (live \ {b}) \union {k}
        BY <3>1, <3>4 DEF IInv
      <4> DEFINE others == live \ {b}
      <4>8. k \notin others /\ live' = others \union {k}
        BY <4>4, <4>7
      <4> HIDE DEF others
      <4>9. H!Place(k, others)
        BY <4>7, <4>8, Placed
      <4>10. H!Apart(k, {b})
        BY <4>6 DEF H!Apart
      <4>11. H!Realloc
        BY <3>2, <4>4, <4>7, <4>9, <4>10 DEF others, H!Realloc, H!Grow, H!New
      <4> QED
        BY <4>11 DEF H!Next
    <3> QED
      BY <3>3, <3>4
  <2> QED
    BY <2>2, <2>3
<1>4. CASE Others
  BY <1>4 DEF Others
<1>5. ASSUME NEW p \in owned, pageumap(p) PROVE Goal
  BY <1>5 DEF pageumap
<1>6. CASE UNCHANGED vars
  BY <1>6 DEF vars
<1> HIDE DEF Goal
<1>7. Goal
  <2>1. CASE Others
    BY <1>4, <2>1 DEF Goal
  <2>2. CASE UNCHANGED vars
    BY <1>6, <2>2 DEF Goal
  <2> QED
    BY <1>1, <1>2, <1>3, <1>5, <2>1, <2>2 DEF Next
<1> QED
  BY <1>7 DEF Goal

(* Until an assert fails or free goes astray, the program gets what it     *)
(* expects of malloc, realloc and free: blocks in pages mapped for it, of  *)
(* which no two share a byte, and free gives back what malloc gave.        *)
THEOREM HeapImplemented == Spec => ImplementsHeap
<1>1. Init => H!Init
  BY DEF Init, H!Init
<1>2. IInv /\ IInv' /\ [Next]_vars => [H!Next]_<<live, owned>>
  BY HeapStep
<1>3. [H!Next]_<<live, owned>> => [H!Next \/ ~Runs(heap')]_<<live, owned>>
  OBVIOUS
<1> QED
  BY <1>1, <1>2, <1>3, InvHolds, PTL DEF Spec, ImplementsHeap
=============================================================================
