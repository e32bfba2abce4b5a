--------------------------- MODULE XMemoryManager ---------------------------
(***************************************************************************)
(* The allocator of a client (tools/uva/mm.cpp, chunk.h): chunks with      *)
(* boundary tags, bins of free chunks, and pages asked from the home, a    *)
(* few at a time, while other clients ask for theirs.                      *)
(*                                                                         *)
(* Addresses and lengths are in bytes.  The low bit of a header, which     *)
(* says that the chunk is in use, is kept apart from the size: sizes are   *)
(* even, as PAGE_SIZE and UNIT_SIZE are.                                   *)
(*                                                                         *)
(* The model is of a client into whose heap pages no other client stores:  *)
(* the headers are never logged, so a page that another client has stored  *)
(* into is dropped at the next uva_sync and comes back without them.       *)
(***************************************************************************)
EXTENDS Integers, Sequences, SequencesExt, FiniteSets

CONSTANTS
  PAGE_SIZE,   \* 4096
  UNIT_SIZE,   \* 24, the length of a header
  Slabs,       \* bins that hold one length: MAX_BIN_INDEX
  Lens,        \* lengths a program asks for
  MaxPages,    \* bound: pages the home gives out
  MaxOthers,   \* bound: those of them that other clients get
  MaxUnmaps,   \* bound: calls of pageumap
  Bits         \* bits of a vector of MmapSet

MIN_CHUNK_SIZE == 2 * UNIT_SIZE

ASSUME UnitsAssumption ==
  UNIT_SIZE \in Nat \ {0} /\ PAGE_SIZE \in Nat /\ PAGE_SIZE > MIN_CHUNK_SIZE
ASSUME SlabsAssumption == Slabs \in Nat \ {0}
ASSUME LensAssumption == Lens \subseteq Nat \ {0}
ASSUME BitsAssumption == Bits \in Nat \ {0}

MmapSet == INSTANCE PageSet

Null == 0
Residue == Slabs             \* the last bin takes chunks of every length
Nowhere == -1                \* bin index of a chunk in no bin
Bin == 0 .. Residue
HEAP_START == PAGE_SIZE      \* page 0 holds address NULL

VARIABLES
  heap,     \* the variables of mm.cpp, and the headers of the chunks
  heapTop,  \* page the home gives out next
  mmapSet,  \* pages this client has mapped
  owned,    \* history: pages the home has given to this client
  unmaps,   \* calls of pageumap
  live      \* history: blocks the program holds

vars == <<heap, heapTop, mmapSet, owned, unmaps, live>>

Init ==
  /\ heap = [chunk |-> << >>, freeList |-> [b \in Bin |-> << >>],
             freeSizeList |-> [b \in Bin |-> 0], lastChunk |-> Null, fault |-> "none"]
  /\ heapTop = HEAP_START \div PAGE_SIZE
  /\ mmapSet = MmapSet!NoPages
  /\ owned = {}
  /\ unmaps = 0
  /\ live = {}

-----------------------------------------------------------------------------
(* The functions of mm.cpp, on a heap h.  After a failed assert the        *)
(* process has stopped; where free has gone astray (below) it goes on, but *)
(* is not followed any further.                                            *)
Runs(h) == h.fault = "none"
Stop(h, assert) == [h EXCEPT !.fault = assert]
Astray(h) == [h EXCEPT !.fault = "astray"]

Chunks(h) == DOMAIN h.chunk
Size(h, c) == h.chunk[c].size
NextInMem(h, c) == c + Size(h, c)
PrevInMem(h, c) == c - h.chunk[c].prev
Header(prev, size) == [prev |-> prev, size |-> size, used |-> FALSE, bin |-> Nowhere]

(* A header written at c. *)
WithChunk(h, c, header) ==
  [h EXCEPT !.chunk = [d \in Chunks(h) \union {c} |-> IF d = c THEN header ELSE h.chunk[d]]]

(* The tag is written when the next chunk is not behind lastChunk; where   *)
(* that is a page of another client it is written for nobody.              *)
SetPrevSize(h, next, s) ==
  IF next <= h.lastChunk /\ next \in Chunks(h)
  THEN [h EXCEPT !.chunk[next].prev = s] ELSE h

(* A bin takes one length; a new length gets the first bin without one, or *)
(* the first that is empty.                                                *)
registerSlab(h, s) ==
  LET slab == 0 .. Slabs - 1
      unused == {i \in slab : h.freeSizeList[i] = 0}
      idle == {i \in slab : h.freeList[i] = << >>}
      Take(S) == [h EXCEPT !.freeSizeList[MmapSet!Least(S)] = s]
  IN  IF s >= PAGE_SIZE \/ \E i \in slab : h.freeSizeList[i] = s THEN h
      ELSE IF unused # {} THEN Take(unused)
      ELSE IF idle # {} THEN Take(idle)
      ELSE h

getBinIndex(h, s) ==
  LET fit == {i \in 0 .. Slabs - 1 : h.freeSizeList[i] = s}
  IN  IF fit = {} THEN Residue ELSE MmapSet!Least(fit)

removeFromFreeList(h, c, b) ==
  LET place == CHOOSE i \in DOMAIN h.freeList[b] : h.freeList[b][i] = c
  IN  IF h.chunk[c].bin # b
      THEN Stop(h, "bin")     \* assert(chunk_getBinInx (chunk) == bininx)
      ELSE [h EXCEPT !.freeList[b] = RemoveAt(@, place), !.chunk[c].bin = Nowhere]

insertToFreeList(h, c, b) ==
  [h EXCEPT !.freeList[b] = <<c>> \o @, !.chunk[c].bin = b]

(* A coalesce that leaves lastChunk on the chunk that is gone. *)
coalesceLastStays(h, head, tail) ==
  LET s == Size(h, head) + Size(h, tail)
      tagged == SetPrevSize(h, NextInMem(h, tail), s)
  IN  IF NextInMem(h, head) # tail
      THEN Stop(h, "tag")
      ELSE [tagged EXCEPT
              !.chunk = Restrict([@ EXCEPT ![head].size = s], Chunks(h) \ {tail})]

coalesce(h, head, tail) ==
  LET s == Size(h, head) + Size(h, tail)
      tagged == SetPrevSize(h, NextInMem(h, tail), s)
  IN  IF NextInMem(h, head) # tail
      THEN Stop(h, "tag")     \* assert "head and tail is not connected"
      ELSE [tagged EXCEPT
              !.chunk = Restrict([@ EXCEPT ![head].size = s], Chunks(h) \ {tail}),
              !.lastChunk = IF tail = @ THEN head ELSE @]

(* removeFromFreeList and coalesce, for a neighbour that is free. *)
Join(h, free, head, tail, b) ==
  LET out == removeFromFreeList(h, free, b)
  IN  IF Runs(out) THEN coalesce(out, head, tail) ELSE out

(* The first chunk of the slab, or else the first fit in the residue. *)
findChunk(h, req) ==
  LET i == getBinIndex(h, req)
      residue == h.freeList[Residue]
      fit == {k \in DOMAIN residue : Size(h, residue[k]) >= req}
  IN  IF i # Residue /\ h.freeList[i] # << >>
      THEN [at |-> Head(h.freeList[i]), bin |-> i]
      ELSE [at |-> IF fit = {} THEN Null ELSE residue[MmapSet!Least(fit)], bin |-> Residue]

(* A useChunk that puts the rest into the bin of the whole. *)
useChunkSameBin(h, c, req, b) ==
  LET s == Size(h, c)
      rest == c + req
      out == removeFromFreeList(h, c, b)
      cut == WithChunk([out EXCEPT !.chunk[c].size = req], rest, Header(req, s - req))
      binned == insertToFreeList(SetPrevSize(cut, c + s, s - req), rest, getBinIndex(h, req))
      split == [binned EXCEPT !.lastChunk = IF rest > @ THEN rest ELSE @]
  IN  IF ~Runs(out) THEN out
      ELSE [(IF s >= req + MIN_CHUNK_SIZE THEN split ELSE out) EXCEPT !.chunk[c].used = TRUE]

(* What is over becomes a chunk when it is long enough for one. *)
useChunk(h, c, req, b) ==
  LET s == Size(h, c)
      rest == c + req
      out == removeFromFreeList(h, c, b)
      cut == WithChunk([out EXCEPT !.chunk[c].size = req], rest, Header(req, s - req))
      binned == insertToFreeList(SetPrevSize(cut, c + s, s - req), rest, getBinIndex(h, s - req))
      split == [binned EXCEPT !.lastChunk = IF rest > @ THEN rest ELSE @]
  IN  IF ~Runs(out) THEN out
      ELSE [(IF s >= req + MIN_CHUNK_SIZE THEN split ELSE out) EXCEPT !.chunk[c].used = TRUE]

(* A getMoreMemory that forgets the length of the chunk it extends. *)
getMoreMemoryShort(h, c, size) ==
  LET last == h.lastChunk
      near == last # Null /\ NextInMem(h, last) = c
      fresh(prev) == WithChunk(h, c, Header(prev, size))
      out == removeFromFreeList(h, last, getBinIndex(h, Size(h, last)))
  IN  IF near /\ h.chunk[last].used
      THEN [at |-> c, heap |-> insertToFreeList(fresh(Size(h, last)), c, Residue)]
      ELSE IF near
      THEN [at |-> last, heap |-> IF Runs(out)
                                  THEN insertToFreeList([out EXCEPT !.chunk[last].size = size],
                                                        last, Residue)
                                  ELSE out]
      ELSE [at |-> c,
            heap |-> insertToFreeList([fresh(0) EXCEPT !.lastChunk = c], c, Residue)]

(* The home has given size bytes from c on: they are a chunk of their own, *)
(* or the end of the last chunk when that is free.                         *)
getMoreMemory(h, c, size) ==
  LET last == h.lastChunk
      near == last # Null /\ NextInMem(h, last) = c
      fresh(prev) == WithChunk(h, c, Header(prev, size))
      out == removeFromFreeList(h, last, getBinIndex(h, Size(h, last)))
      grown == [out EXCEPT !.chunk[last].size = @ + size]
  IN  IF near /\ h.chunk[last].used
      THEN [at |-> c, heap |-> insertToFreeList(fresh(Size(h, last)), c, Residue)]
      ELSE IF near
      THEN [at |-> last,
            heap |-> IF Runs(out) THEN insertToFreeList(grown, last, Residue) ELSE out]
      ELSE [at |-> c,
            heap |-> insertToFreeList([fresh(0) EXCEPT !.lastChunk = c], c, Residue)]

-----------------------------------------------------------------------------
Aligned(n) == ((n - 1) \div UNIT_SIZE + 1) * UNIT_SIZE + UNIT_SIZE  \* with the header
Pages(req) == (req - 1) \div PAGE_SIZE + 1          \* getAlignedPage
Block(c, n) == [at |-> c + UNIT_SIZE, len |-> n]
ChunkOf(b) == b.at - UNIT_SIZE

(* allocate: the heap, the chunk and the pages asked from the home. *)
Allocated(h, n) ==
  LET req == Aligned(n)
      slabbed == registerSlab(h, req)
      found == findChunk(slabbed, req)
      more == getMoreMemory(slabbed, heapTop * PAGE_SIZE, Pages(req) * PAGE_SIZE)
  IN  IF found.at # Null
      THEN [heap |-> useChunk(slabbed, found.at, req, found.bin), at |-> found.at, pages |-> 0]
      ELSE [heap |-> IF Runs(more.heap) THEN useChunk(more.heap, more.at, req, Residue)
                                         ELSE more.heap,
            at |-> more.at, pages |-> Pages(req)]

(* free.  What is read as the header of a neighbour may lie in a page of   *)
(* another client, or inside a chunk when a tag is out of date, and say    *)
(* anything: looksUsed is whether it passes for a chunk in use.  Where it  *)
(* does not, free has gone astray: it unlinks the header from the list     *)
(* that its own words name (the assert on its bin compares them with       *)
(* themselves) and joins it, if the sizes agree, and from here on the      *)
(* program may be given blocks that overlap.                               *)
Freed(h, c, looksUsed) ==
  LET slabbed == registerSlab(h, Size(h, c))
      prev == PrevInMem(slabbed, c)
      joins == prev \in Chunks(slabbed) /\ ~slabbed.chunk[prev].used
      back == IF joins THEN Join(slabbed, prev, prev, c, slabbed.chunk[prev].bin)
              ELSE IF prev \in Chunks(slabbed) \/ looksUsed THEN slabbed
              ELSE Astray(slabbed)
      mid == IF joins THEN prev ELSE c
      next == NextInMem(back, mid)
      both == IF next > back.lastChunk THEN back
              ELSE IF next \notin Chunks(back)
              THEN IF looksUsed THEN back ELSE Astray(back)
              ELSE IF back.chunk[next].used THEN back
              ELSE Join(back, next, mid, next, back.chunk[next].bin)
      last == insertToFreeList(both, mid, getBinIndex(both, Size(both, mid)))
  IN  IF ~Runs(back) THEN back
      ELSE IF ~Runs(both) THEN both
      ELSE [last EXCEPT !.chunk[mid].used = FALSE]

-----------------------------------------------------------------------------
(* allocatePage: the home gives the pages at the top of the shared heap,   *)
(* the client maps them and enters them in MmapSet.                        *)
allocatePage(n) ==
  LET new == heapTop .. heapTop + n - 1
      Enter(s, i) == MmapSet!Insert(s, i)
  IN  /\ heapTop + n - 1 <= MaxPages
      /\ heapTop' = heapTop + n
      /\ owned' = owned \union new
      /\ mmapSet' = FoldLeft(Enter, mmapSet, [i \in 1 .. n |-> heapTop + i - 1])

allocate(n) ==
  LET a == Allocated(heap, n)
  IN  /\ Runs(heap)
      /\ allocatePage(a.pages)
      /\ heap' = a.heap
      /\ live' = IF Runs(a.heap) THEN live \union {Block(a.at, n)} ELSE live
      /\ UNCHANGED unmaps

(* A uva_realloc that does not count the header. *)
ReallocNoHeader(b, n) ==
  /\ Runs(heap)
  /\ b \in live
  /\ Size(heap, ChunkOf(b)) >= n
  /\ live' = (live \ {b}) \union {Block(ChunkOf(b), n)}
  /\ UNCHANGED <<heap, heapTop, owned, mmapSet, unmaps>>

(* uva_realloc of a block the program holds. *)
Realloc(b, n) ==
  LET c == ChunkOf(b)
      a == Allocated(heap, n)
      f == IF Runs(a.heap) THEN {Freed(a.heap, c, looksUsed) : looksUsed \in BOOLEAN} ELSE {a.heap}
  IN  /\ Runs(heap)
      /\ b \in live
      /\ IF Size(heap, c) >= Aligned(n)
         THEN /\ live' = (live \ {b}) \union {Block(c, n)}
              /\ UNCHANGED <<heap, heapTop, owned, mmapSet>>
         ELSE /\ allocatePage(a.pages)
              /\ heap' \in f
              /\ live' = IF Runs(heap') THEN (live \ {b}) \union {Block(a.at, n)} ELSE live
      /\ UNCHANGED unmaps

Free(b) ==
  /\ Runs(heap)
  /\ b \in live
  /\ \E looksUsed \in BOOLEAN : heap' = Freed(heap, ChunkOf(b), looksUsed)
  /\ live' = IF Runs(heap') THEN live \ {b} ELSE live
  /\ UNCHANGED <<heapTop, mmapSet, owned, unmaps>>

(* heapAllocHandler for another client. *)
Others ==
  /\ Runs(heap)
  /\ heapTop <= MaxPages
  /\ heapTop - (HEAP_START \div PAGE_SIZE) - Cardinality(owned) < MaxOthers
  /\ heapTop' = heapTop + 1
  /\ UNCHANGED <<heap, mmapSet, owned, unmaps, live>>

(* pageumap: deallocatePage only takes the page out of MmapSet. *)
pageumap(p) ==
  /\ unmaps < MaxUnmaps
  /\ MmapSet!Contains(mmapSet, p)
  /\ mmapSet' = MmapSet!Erase(mmapSet, p)
  /\ unmaps' = unmaps + 1
  /\ UNCHANGED <<heap, heapTop, owned, live>>

Next ==
  \/ \E n \in Lens : allocate(n)
  \/ \E b \in live : Free(b) \/ \E n \in Lens : Realloc(b, n)
  \/ Others
  \/ \E p \in owned : pageumap(p)

Spec == Init /\ [][Next]_vars

-----------------------------------------------------------------------------
(* Properties. *)

Span(h, c) == c .. NextInMem(h, c) - 1
OwnBytes == {a \in HEAP_START .. heapTop * PAGE_SIZE : a \div PAGE_SIZE \in owned}

(* Chunks begin in the client's own pages, lastChunk and the bins name     *)
(* chunks, unless free has gone astray.                                    *)
TypeOK ==
  /\ heap.fault \in {"none", "bin", "tag", "astray"}
  /\ heap.fault # "astray" =>
       /\ Chunks(heap) \subseteq OwnBytes
       /\ heap.lastChunk \in Chunks(heap) \union {Null}
       /\ \A c \in Chunks(heap) : heap.chunk[c].bin \in Bin \union {Nowhere}
       /\ \A b \in Bin : heap.freeList[b] \in Seq(Chunks(heap))

(* Until an assert fails or free goes astray, the chunks fill the pages    *)
(* the home has given to the client, each byte in one of them: none is     *)
(* lost, and none is in two chunks.                                        *)
Tiled ==
  Runs(heap) =>
    /\ UNION {Span(heap, c) : c \in Chunks(heap)} = OwnBytes
    /\ \A c, d \in Chunks(heap) : c # d => Span(heap, c) \intersect Span(heap, d) = {}

(* Until then, a chunk that is not in use is once in the bin its header    *)
(* names, a chunk in use is in none; a slab holds chunks of its one        *)
(* length.  The chunks in use are those of the blocks the program holds,   *)
(* and long enough.                                                        *)
Listed ==
  Runs(heap) =>
    /\ \A c \in Chunks(heap), b \in Bin :
         Cardinality({i \in DOMAIN heap.freeList[b] : heap.freeList[b][i] = c})
           = IF heap.chunk[c].bin = b THEN 1 ELSE 0
    /\ \A c \in Chunks(heap) : heap.chunk[c].used <=> heap.chunk[c].bin = Nowhere
    /\ \A b \in 0 .. Slabs - 1 : \A i \in DOMAIN heap.freeList[b] :
         Size(heap, heap.freeList[b][i]) = heap.freeSizeList[b]
    /\ {c \in Chunks(heap) : heap.chunk[c].used} = {ChunkOf(b) : b \in live}
    /\ \A b \in live : Aligned(b.len) <= Size(heap, ChunkOf(b))

(* The pages that a loop from begin to end visits, and how it ends. *)
Visits ==
  LET step[i \in Nat] ==
        IF i = 0 THEN mmapSet.minaddr
        ELSE IF step[i - 1] \in {MmapSet!End, MmapSet!Fails} THEN step[i - 1]
        ELSE MmapSet!After(mmapSet, step[i - 1])
  IN  [i \in 0 .. MaxPages |-> step[i]]

(* A loop over MmapSet visits mapped pages only, upwards, and ends.  It    *)
(* visits all of them as long as nothing has been erased: erase may clear  *)
(* the mark of a group of pages some of which are still mapped, and a loop *)
(* then skips those.                                                       *)
Iterates ==
  /\ \A i \in 0 .. MaxPages :
       Visits[i] # MmapSet!End => MmapSet!Contains(mmapSet, Visits[i])
  /\ \A i \in 1 .. MaxPages :
       Visits[i] # MmapSet!End => Visits[i] > Visits[i - 1]
  /\ Visits[MaxPages] = MmapSet!End
  /\ unmaps = 0 => mmapSet.tblL1 \subseteq {Visits[i] : i \in 0 .. MaxPages}

(* Until an assert fails or free goes astray, the program gets what it     *)
(* expects of malloc, realloc and free.                                    *)
H == INSTANCE Heap WITH mapped <- owned
ImplementsHeap == H!Init /\ [][H!Next \/ ~Runs(heap')]_<<live, owned>>

(* No assert of the allocator fails. *)
NoAssertFails == heap.fault \notin {"bin", "tag"}
=============================================================================
