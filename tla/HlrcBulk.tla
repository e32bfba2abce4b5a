------------------------------ MODULE HlrcBulk ------------------------------
(***************************************************************************)
(* memset and memcpy over the protocol of module Hlrc (uva_memset,         *)
(* uva_memcpy and their _sc forms: tools/uva/client.cpp, uva_manager.cpp,  *)
(* server.cpp).  The compiler puts the runtime's function in front of the  *)
(* memset or memcpy, which is then executed as it is.                      *)
(*                                                                         *)
(* A heavy client's memcpy into shared memory is a Store of module Hlrc:   *)
(* the words copied are logged and then written.  The other forms are not  *)
(* like any operation there.                                               *)
(***************************************************************************)
EXTENDS Hlrc

CONSTANTS Bulk,         \* the bulk operations programs use
          BulkExtent,   \* sets of words one of them writes
          SourceExtent  \* sets of words a memcpy out of shared memory reads

ASSUME BulkAssumption ==
  /\ Bulk \subseteq {"memset", "memcpyFrom", "memset_sc", "memcpy_sc", "memcpyFrom_sc"}
  /\ BulkExtent \union SourceExtent \subseteq (SUBSET Addr) \ {{}}

VARIABLE touched  \* history: <<client, page>> one of these may put out of step

bulkVars == <<vars, touched>>

BulkInit == Init /\ touched = {}

-----------------------------------------------------------------------------
(* Clients. *)

(* memsetHandler_hlrc logs the first bytes of an int and what follows it   *)
(* on the stack, not the byte over and over; memset writes the byte.  So   *)
(* the log and the copy agree only by chance.                              *)
Memset(c, E, logged) ==
  /\ Idle(c)
  /\ stores < MaxStores
  /\ PagesOf(E) \subseteq valid[c]
  /\ stores' = stores + 1
  /\ copy' = [copy EXCEPT ![c] =
                [a \in Addr |-> IF a \in E THEN stores + 1 ELSE @[a]]]
  /\ log' = [log EXCEPT ![c] = Logged(@, E, logged)]
  /\ touched' = touched \union ({c} \X PagesOf(E))
  /\ obs' = Nothing
  /\ UNCHANGED <<homeVars, valid, req, rep>>

(* The pages memcpyHandler_hlrc maps for a source of the words E: as many  *)
(* whole pages as the length holds, and one.  A source that straddles      *)
(* pages may have a last page beyond these.                                *)
MappedFor(E) ==
  FirstPage(E) .. FirstPage(E) + Cardinality(E) \div Cardinality(Word)

(* uva_memcpy, uva_memcpy_sc out of shared memory: fresh, zeroed pages take *)
(* the place of those of the source, whose words are asked for.            *)
MemcpyFrom(c, E) ==
  /\ PagesOf(E) \subseteq 1 .. heapTop
  /\ MappedFor(E) \subseteq Page
  /\ Send(c, [op |-> "memcpy", at |-> E])
  /\ valid' = [valid EXCEPT ![c] = @ \union MappedFor(E)]
  /\ copy' = [copy EXCEPT ![c] =
                [a \in Addr |-> IF a[1] \in MappedFor(E) THEN Zero ELSE @[a]]]
  /\ touched' = touched \union ({c} \X (MappedFor(E) \union Marked(E) \union PagesOf(E)))
  /\ UNCHANGED <<log, stores>>

(* Pages of the words on their way to c that c has not mapped. *)
Unmapped(c) == PagesOf(DOMAIN rep[c].data) \ valid[c]

(* takeRange(src, num), before the memcpy itself. *)
MemcpyFromReturn(c) ==
  /\ Receive(c, "range")
  /\ Unmapped(c) = {}
  /\ copy' = [copy EXCEPT ![c] = [a \in Addr |->
                IF a \in DOMAIN rep[c].data THEN rep[c].data[a] ELSE @[a]]]
  /\ obs' = Nothing
  /\ UNCHANGED <<valid, log, touched>>

(* ... which faults in the middle if the last page is not mapped.          *)
MemcpyFromFault(c) ==
  /\ rep[c].op = "range"
  /\ \E p \in Unmapped(c) :
       req' = [req EXCEPT ![c] = [op |-> "lastpage", page |-> p, words |-> rep[c].data]]
  /\ rep' = [rep EXCEPT ![c] = NoMsg]
  /\ obs' = Nothing
  /\ UNCHANGED <<homeVars, clientVars, stores, touched>>

(* The SIGSEGV handler takes the page through the same receive queue and   *)
(* leaves it zeroed (takeRange, initializeQueue).  Back in the interrupted *)
(* takeRange, the words memcpy had not yet read are zero.                  *)
LastPageReturn(c) ==
  /\ Receive(c, "lastpage")
  /\ valid' = [valid EXCEPT ![c] = @ \union {rep[c].page}]
  /\ \E lost \in SUBSET DOMAIN rep[c].words :
       copy' = [copy EXCEPT ![c] = [a \in Addr |->
                  CASE a \in lost -> Zero
                    [] a \in DOMAIN rep[c].words \ lost -> rep[c].words[a]
                    [] a \notin DOMAIN rep[c].words /\ a[1] = rep[c].page -> rep[c].data[a[2]]
                    [] OTHER -> @[a]]]
  /\ obs' = Nothing
  /\ UNCHANGED <<log, touched>>

(* uva_memset_sc asks the home to do it. *)
MemsetSC(c, E) ==
  /\ PagesOf(E) \subseteq 1 .. heapTop
  /\ stores < MaxStores
  /\ stores' = stores + 1
  /\ Send(c, [op |-> "memset", at |-> E, val |-> stores + 1])
  /\ touched' = touched \union (Heavy \X PagesOf(E))
  /\ UNCHANGED clientVars

(* uva_memcpy_sc into shared memory calls memcpyHandler_hlrc: the copy     *)
(* is logged until the next uva_sync_sc.                                   *)
MemcpySC(c, E) ==
  /\ Idle(c)
  /\ PagesOf(E) \subseteq 1 .. heapTop
  /\ stores < MaxStores
  /\ stores' = stores + 1
  /\ log' = [log EXCEPT ![c] = Logged(@, E, stores + 1)]
  /\ obs' = Nothing
  /\ UNCHANGED <<homeVars, valid, copy, req, rep, touched>>

-----------------------------------------------------------------------------
(* The home. *)

(* A memcpyHandlerForHLRC that serves only clients it does not list. *)
HandleMemcpyFromOfHolder(c) ==
  LET E == req[c].at IN
  /\ req[c].op = "memcpy"
  /\ Marked(E) \subseteq 1 .. heapTop
  /\ \E p \in Marked(E) : c \notin accessS[p]
  /\ accessS' = [p \in Page |-> IF p \in Marked(E) THEN accessS[p] \union {c}
                                                   ELSE accessS[p]]
  /\ seen' = Refreshed(c, E)
  /\ Answer(c, [op |-> "range", data |-> [a \in E |-> home[a]]])
  /\ UNCHANGED <<home, heapTop, touched>>

(* memcpyHandlerForHLRC, type 2: c is a holder from now on of the pages    *)
(* from the first one, as many as the length fills: like syncHandler it    *)
(* adds the length to the start of the page, see Marked.                   *)
HandleMemcpyFrom(c) ==
  LET E == req[c].at IN
  /\ req[c].op = "memcpy"
  /\ Marked(E) \subseteq 1 .. heapTop
  /\ accessS' = [p \in Page |-> IF p \in Marked(E) THEN accessS[p] \union {c}
                                                   ELSE accessS[p]]
  /\ seen' = Refreshed(c, E)
  /\ Answer(c, [op |-> "range", data |-> [a \in E |-> home[a]]])
  /\ UNCHANGED <<home, heapTop, touched>>

(* heapSegfaultHandler, for the last page of a source. *)
HandleLastPage(c) ==
  LET p == req[c].page IN
  /\ req[c].op = "lastpage"
  /\ p <= heapTop
  /\ accessS' = [accessS EXCEPT ![p] = @ \union {c}]
  /\ seen' = Refreshed(c, {p} \X Word)
  /\ Answer(c, [op |-> "lastpage", page |-> p, words |-> req[c].words,
                data |-> [w \in Word |-> home[<<p, w>>]]])
  /\ UNCHANGED <<home, heapTop, touched>>

(* memsetHandler; the directory is left as it is.  It reads a length of    *)
(* eight bytes where four were sent; the four behind the message are taken *)
(* to be zero.                                                             *)
HandleMemset(c) ==
  LET E == req[c].at
      new == [a \in Addr |-> IF a \in E THEN req[c].val ELSE home[a]]
  IN
  /\ req[c].op = "memset"
  /\ home' = new
  /\ seen' = [d \in Client |-> [a \in Addr |->
                IF d = c /\ a \in E THEN {new[a]}
                                    ELSE seen[d][a] \union {new[a]}]]
  /\ Answer(c, [op |-> "ack"])
  /\ UNCHANGED <<heapTop, accessS, touched>>

-----------------------------------------------------------------------------
(* The specification: the operations of Hlrc and those in Bulk.            *)

HeavyBulk(c) ==
  \/ "memset" \in Bulk /\ \E E \in BulkExtent, v \in Val : Memset(c, E, v)
  \/ "memcpyFrom" \in Bulk /\ \E E \in SourceExtent : MemcpyFrom(c, E)

LightBulk(c) ==
  \/ "memset_sc" \in Bulk /\ \E E \in BulkExtent : MemsetSC(c, E)
  \/ "memcpy_sc" \in Bulk /\ \E E \in BulkExtent : MemcpySC(c, E)
  \/ "memcpyFrom_sc" \in Bulk /\ \E E \in SourceExtent : MemcpyFrom(c, E)

HandleBulk(c) == HandleMemcpyFrom(c) \/ HandleLastPage(c) \/ HandleMemset(c)
ReturnBulk(c) == MemcpyFromReturn(c) \/ MemcpyFromFault(c) \/ LastPageReturn(c)

BulkNext ==
  \/ Next /\ UNCHANGED touched
  \/ \E c \in Heavy : HeavyBulk(c)
  \/ \E c \in Light : LightBulk(c)
  \/ \E c \in Client : HandleBulk(c) \/ ReturnBulk(c)

BulkFairness ==
  \A c \in Client :
    /\ WF_bulkVars((Handle(c) /\ UNCHANGED touched) \/ HandleBulk(c))
    /\ WF_bulkVars((Return(c) /\ UNCHANGED touched) \/ ReturnBulk(c))

BulkSpec == BulkInit /\ [][BulkNext]_bulkVars
BulkFairSpec == BulkSpec /\ BulkFairness

-----------------------------------------------------------------------------
(* Properties. *)

(* What memset and memcpy do wrong at a heavy client stays with it, and    *)
(* with the pages concerned: the directory and all other copies are right, *)
(* those of a page another client has copied or set words of included.     *)
Bystanders ==
  \A c \in Heavy : \A p \in valid[c] \ Dropping(c) :
    c \in accessS[p] /\ <<c, p>> \notin touched =>
      \A w \in Word : copy[c][<<p, w>>] = Current(c, <<p, w>>)

(* No store is booked under fewer pages than it covers, see Aligned, those *)
(* of memset and memcpy included.  What a memcpy reads may lie anywhere.   *)
BulkAligned ==
  /\ LightAligned
  /\ \A E \in Extent \union BulkExtent : Marked(E) = PagesOf(E)

(* Every request is answered, bulk requests included. *)
BulkAnswersArrive == \A c \in Client : (~Idle(c)) ~> Idle(c)
=============================================================================
