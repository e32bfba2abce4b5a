-------------------------------- MODULE Hlrc --------------------------------
(***************************************************************************)
(* The home-based lazy release consistency protocol of the UVA runtime:    *)
(* tools/uva/server.cpp is the home of every page, uva_manager.cpp and     *)
(* client.cpp are the clients, comm_manager.cpp carries their messages.    *)
(*                                                                         *)
(* A heavy client runs on page copies.  A store is logged (uva_store) and  *)
(* written to the copy; uva_sync ships the log to the home and gets back   *)
(* the pages it has to drop; a page it does not hold is fetched whole in   *)
(* the SIGSEGV handler.  A light client (uva_load_sc, uva_store_sc) asks   *)
(* the home for each word.  The home keeps, for every page of the heap,    *)
(* the set accessS of clients it believes to hold a current copy.          *)
(*                                                                         *)
(* A client sends one request and blocks in receiveQue until its answer    *)
(* arrives, so it has one request (req) or one reply (rep) under way.  The *)
(* home's handler thread takes requests in an order that depends on the    *)
(* network: any client's request may be next.  Each handler is one step,   *)
(* for all of them run in that one thread.                                 *)
(***************************************************************************)
EXTENDS StoreLogs, Integers, FiniteSets

CONSTANTS Heavy,      \* clients that cache pages
          Light,      \* clients compiled with is_lightweight
          NumPages,   \* pages of the heap (bound)
          Word,       \* words of a page
          Extent,     \* sets of words one store of a heavy client may cover
          LightExtent, \* sets of words one store of a light client may cover
          AllocSizes, \* pages one malloc may ask the home for
          MaxStores,  \* stores of a behaviour (bound)
          Nothing     \* no load in the last step

Client == Heavy \union Light
Page == 1 .. NumPages
Addr == Page \X Word
Val == 0 .. MaxStores
Zero == 0

ASSUME ClientsAssumption == Heavy \intersect Light = {}
ASSUME BoundsAssumption == NumPages \in Nat /\ MaxStores \in Nat
ASSUME ExtentAssumption == /\ Extent \subseteq (SUBSET Addr) \ {{}}
                           /\ LightExtent \subseteq (SUBSET Addr) \ {{}}
ASSUME AllocAssumption == AllocSizes \subseteq (Nat \ {0})

VARIABLES
  home,      \* memory of the home process
  heapTop,   \* pages 1..heapTop have a pageInfo in pageMap
  accessS,   \* accessS[p]: the home's directory entry for page p
  valid,     \* valid[c]: pages mapped readable and writable at c
  copy,      \* copy[c]: the words of those pages
  log,       \* log[c]: vecStoreLogs of c
  req,       \* req[c]: request of c the home has not handled
  rep,       \* rep[c]: answer c has not received
  stores,    \* stores so far; each writes a number of its own
  seen,      \* history: values home has held since c last asked for them
  obs        \* what the last step loaded: <<client, word, value>>

vars == <<home, heapTop, accessS, valid, copy, log, req, rep, stores, seen, obs>>
homeVars == <<home, heapTop, accessS, seen>>
clientVars == <<valid, copy, log>>

NoMsg == [op |-> "none"]
LogEntry == [at : Extent, val : Val]

Request ==
  {NoMsg}
    \union [op : {"sync"}, log : Seq(LogEntry)]
    \union [op : {"fault"}, page : Page]
    \union [op : {"malloc"}, size : AllocSizes]
    \union [op : {"load"}, addr : Addr]
    \union [op : {"store"}, at : LightExtent, val : Val]

Reply ==
  {NoMsg}
    \union [op : {"inval"}, pages : SUBSET Page]
    \union [op : {"page"}, page : Page, data : [Word -> Val]]
    \union [op : {"chunk"}, pages : SUBSET Page]
    \union [op : {"word"}, addr : Addr, val : Val]
    \union [op : {"ack"}]

Idle(c) == req[c].op = "none" /\ rep[c].op = "none"

Init ==
  /\ home = [a \in Addr |-> Zero]
  /\ heapTop = 0
  /\ accessS = [p \in Page |-> {}]
  /\ valid = [c \in Client |-> {}]
  /\ copy = [c \in Client |-> [a \in Addr |-> Zero]]
  /\ log = [c \in Client |-> << >>]
  /\ req = [c \in Client |-> NoMsg]
  /\ rep = [c \in Client |-> NoMsg]
  /\ stores = 0
  /\ seen = [c \in Client |-> [a \in Addr |-> {Zero}]]
  /\ obs = Nothing

-----------------------------------------------------------------------------
(* Clients. *)

(* push...; sendQue(tag): the message is in the job queue of the home. *)
Send(c, m) ==
  /\ Idle(c)
  /\ req' = [req EXCEPT ![c] = m]
  /\ obs' = Nothing
  /\ UNCHANGED <<homeVars, rep>>

(* receiveQue; take...: the answer has been read. *)
Receive(c, op) ==
  /\ rep[c].op = op
  /\ rep' = [rep EXCEPT ![c] = NoMsg]
  /\ UNCHANGED <<homeVars, req, stores>>

(* uva_store, which the compiler puts before every store instruction, and  *)
(* the instruction itself.  If a page is not mapped the instruction faults *)
(* first; fetching the page does not touch the log.                        *)
Store(c, E) ==
  /\ Idle(c)
  /\ stores < MaxStores
  /\ PagesOf(E) \subseteq valid[c]
  /\ stores' = stores + 1
  /\ copy' = [copy EXCEPT ![c] =
                [a \in Addr |-> IF a \in E THEN stores + 1 ELSE @[a]]]
  /\ log' = [log EXCEPT ![c] = Logged(@, E, stores + 1)]
  /\ obs' = Nothing
  /\ UNCHANGED <<homeVars, valid, req, rep>>

(* A load instruction of the program on a mapped page. *)
Load(c, a) ==
  /\ Idle(c)
  /\ a[1] \in valid[c]
  /\ obs' = <<c, a, copy[c][a]>>
  /\ UNCHANGED <<homeVars, clientVars, req, rep, stores>>

(* SIGSEGV on a page of the heap that is not mapped, or PROT_NONE. *)
Fault(c, p) ==
  /\ p \in (1 .. heapTop) \ valid[c]
  /\ Send(c, [op |-> "fault", page |-> p])
  /\ UNCHANGED <<clientVars, stores>>

(* takeRange copies the page, and the faulting instruction goes on. *)
FaultReturn(c) ==
  /\ Receive(c, "page")
  /\ valid' = [valid EXCEPT ![c] = @ \union {rep[c].page}]
  /\ copy' = [copy EXCEPT ![c] =
                [a \in Addr |-> IF a[1] = rep[c].page THEN rep[c].data[a[2]]
                                                      ELSE @[a]]]
  /\ obs' = Nothing
  /\ UNCHANGED log

(* A uva_sync without vecStoreLogs->clear(). *)
SyncKeepLog(c) ==
  /\ Send(c, [op |-> "sync", log |-> log[c]])
  /\ UNCHANGED <<valid, copy, log, stores>>

(* uva_sync: the log goes to the home and is cleared. *)
Sync(c) ==
  /\ Send(c, [op |-> "sync", log |-> log[c]])
  /\ log' = [log EXCEPT ![c] = << >>]
  /\ UNCHANGED <<valid, copy, stores>>

(* A uva_sync that reads the list and protects nothing. *)
SyncReturnKeepPages(c) ==
  /\ Receive(c, "inval")
  /\ obs' = Nothing
  /\ UNCHANGED clientVars

(* ... and its second half: mprotect(PROT_NONE) of the pages in the list. *)
SyncReturn(c) ==
  /\ Receive(c, "inval")
  /\ valid' = [valid EXCEPT ![c] = @ \ rep[c].pages]
  /\ obs' = Nothing
  /\ UNCHANGED <<copy, log>>

(* malloc that finds no chunk (getMoreMemory, askMoreMemory).  Requests    *)
(* the heap of the model has no room for are not made.                     *)
Malloc(c, n) ==
  /\ LET asking == {d \in Client : req[d].op = "malloc"}
         most == CHOOSE k \in AllocSizes : \A j \in AllocSizes : j <= k
     IN heapTop + most * Cardinality(asking) + n <= NumPages
  /\ Send(c, [op |-> "malloc", size |-> n])
  /\ UNCHANGED <<clientVars, stores>>

(* The client maps the range anonymously, that is zeroed. *)
MallocReturn(c) ==
  /\ Receive(c, "chunk")
  /\ valid' = [valid EXCEPT ![c] = @ \union rep[c].pages]
  /\ copy' = [copy EXCEPT ![c] =
                [a \in Addr |-> IF a[1] \in rep[c].pages THEN Zero ELSE @[a]]]
  /\ obs' = Nothing
  /\ UNCHANGED log

(* uva_load_sc before a load of a light client, and the load. *)
LoadSC(c, a) ==
  /\ a[1] <= heapTop
  /\ Send(c, [op |-> "load", addr |-> a])
  /\ UNCHANGED <<clientVars, stores>>

(* The word goes to its place in the copy of c, where the load reads it.   *)
(* If the page is not mapped, this faults and the page is fetched, and c   *)
(* is among its holders (the same after uva_store_sc).  c asks again       *)
(* before it loads again, so neither is kept.                              *)
LoadSCReturn(c) ==
  /\ Receive(c, "word")
  /\ obs' = <<c, rep[c].addr, rep[c].val>>
  /\ UNCHANGED clientVars

(* uva_store_sc before a store of a light client. *)
StoreSC(c, E) ==
  /\ PagesOf(E) \subseteq 1 .. heapTop
  /\ stores < MaxStores
  /\ stores' = stores + 1
  /\ Send(c, [op |-> "store", at |-> E, val |-> stores + 1])
  /\ UNCHANGED clientVars

StoreSCReturn(c) ==
  /\ Receive(c, "ack")
  /\ obs' = Nothing
  /\ UNCHANGED clientVars

-----------------------------------------------------------------------------
(* The home.  Every handler runs to its end in the handler thread. *)

(* sendAddrSet: the pages whose accessS does not hold srcid. *)
NotHeldBy(c) == {p \in 1 .. heapTop : c \notin accessS[p]}

(* The value a word had when the home last looked is out of date for c. *)
Refreshed(c, A) ==
  [seen EXCEPT ![c] = [a \in Addr |-> IF a \in A THEN {home[a]} ELSE @[a]]]

Answer(c, m) ==
  /\ req' = [req EXCEPT ![c] = NoMsg]
  /\ rep' = [rep EXCEPT ![c] = m]
  /\ obs' = Nothing
  /\ UNCHANGED <<clientVars, stores>>

(* truncToPageAddr of the address a store starts at. *)
FirstPage(E) == CHOOSE p \in PagesOf(E) : \A q \in PagesOf(E) : p <= q

(* The pages syncHandler books a store under: it adds the size to the      *)
(* start of the first page, not to the address, so the last page of a      *)
(* store that does not start on a page boundary may be left out.           *)
Marked(E) ==
  FirstPage(E) .. FirstPage(E) + (Cardinality(E) - 1) \div Cardinality(Word)

MarkedBy(entries) == UNION {Marked(entries[i].at) : i \in DOMAIN entries}

(* A syncHandler that adds the writer to accessS without clear(). *)
HandleSyncNoClear(c) ==
  LET new == Replay(home, req[c].log)
      marked == MarkedBy(req[c].log)
  IN
  /\ req[c].op = "sync"
  /\ marked \subseteq 1 .. heapTop
  /\ home' = new
  /\ accessS' = [p \in Page |-> IF p \in marked THEN accessS[p] \union {c}
                                                 ELSE accessS[p]]
  /\ seen' = [d \in Client |-> [a \in Addr |->
                IF d = c THEN {new[a]} ELSE seen[d][a] \union {new[a]}]]
  /\ Answer(c, [op |-> "inval", pages |-> NotHeldBy(c)])
  /\ UNCHANGED heapTop

(* A syncHandler that collects sendAddrSet after it has applied the log. *)
HandleSyncLate(c) ==
  LET new == Replay(home, req[c].log)
      marked == MarkedBy(req[c].log)
  IN
  /\ req[c].op = "sync"
  /\ marked \subseteq 1 .. heapTop
  /\ home' = new
  /\ accessS' = [p \in Page |-> IF p \in marked THEN {c} ELSE accessS[p]]
  /\ seen' = [d \in Client |-> [a \in Addr |->
                IF d = c THEN {new[a]} ELSE seen[d][a] \union {new[a]}]]
  /\ Answer(c, [op |-> "inval", pages |-> NotHeldBy(c) \ marked])
  /\ UNCHANGED heapTop

(* syncHandler: the pages c has to drop are collected first, so a page c   *)
(* wrote on a stale copy is among them although the log then makes c its   *)
(* only holder.  A log entry for a page without pageInfo is assert(0).     *)
HandleSync(c) ==
  LET new == Replay(home, req[c].log)
      marked == MarkedBy(req[c].log)
  IN
  /\ req[c].op = "sync"
  /\ marked \subseteq 1 .. heapTop
  /\ home' = new
  /\ accessS' = [p \in Page |-> IF p \in marked THEN {c} ELSE accessS[p]]
  /\ seen' = [d \in Client |-> [a \in Addr |->
                IF d = c THEN {new[a]} ELSE seen[d][a] \union {new[a]}]]
  /\ Answer(c, [op |-> "inval", pages |-> NotHeldBy(c)])
  /\ UNCHANGED heapTop

(* A heapSegfaultHandler that takes the page for sent already. *)
HandleFaultOfHolder(c) ==
  LET p == req[c].page IN
  /\ req[c].op = "fault"
  /\ p <= heapTop
  /\ c \notin accessS[p]
  /\ accessS' = [accessS EXCEPT ![p] = @ \union {c}]
  /\ seen' = Refreshed(c, {p} \X Word)
  /\ Answer(c, [op |-> "page", page |-> p,
                data |-> [w \in Word |-> home[<<p, w>>]]])
  /\ UNCHANGED <<home, heapTop>>

(* heapSegfaultHandler: the page, and c among its holders. *)
HandleFault(c) ==
  LET p == req[c].page IN
  /\ req[c].op = "fault"
  /\ p <= heapTop
  /\ accessS' = [accessS EXCEPT ![p] = @ \union {c}]
  /\ seen' = Refreshed(c, {p} \X Word)
  /\ Answer(c, [op |-> "page", page |-> p,
                data |-> [w \in Word |-> home[<<p, w>>]]])
  /\ UNCHANGED <<home, heapTop>>

(* A heapAllocHandler with lenbuf for lenbuf - 1 in the last page. *)
HandleMallocPastEnd(c) ==
  LET pages == heapTop + 1 .. heapTop + req[c].size IN
  /\ req[c].op = "malloc"
  /\ heapTop + req[c].size <= NumPages
  /\ heapTop' = heapTop + req[c].size + 1
  /\ accessS' = [p \in Page |-> IF p \in pages THEN {c} ELSE accessS[p]]
  /\ Answer(c, [op |-> "chunk", pages |-> pages])
  /\ UNCHANGED <<home, seen>>

(* heapAllocHandler: the pages at the top of the heap, held by c.  They    *)
(* are mapped for the first time, so they are zero.                        *)
HandleMalloc(c) ==
  LET pages == heapTop + 1 .. heapTop + req[c].size IN
  /\ req[c].op = "malloc"
  /\ heapTop + req[c].size <= NumPages
  /\ heapTop' = heapTop + req[c].size
  /\ accessS' = [p \in Page |-> IF p \in pages THEN {c} ELSE accessS[p]]
  /\ Answer(c, [op |-> "chunk", pages |-> pages])
  /\ UNCHANGED <<home, seen>>

(* loadHandler: the word; the directory is left as it is. *)
HandleLoad(c) ==
  /\ req[c].op = "load"
  /\ seen' = Refreshed(c, {req[c].addr})
  /\ Answer(c, [op |-> "word", addr |-> req[c].addr, val |-> home[req[c].addr]])
  /\ UNCHANGED <<home, heapTop, accessS>>

(* A storeHandler without accessS->clear(). *)
HandleStoreNoClear(c) ==
  LET E == req[c].at
      new == [a \in Addr |-> IF a \in E THEN req[c].val ELSE home[a]]
  IN
  /\ req[c].op = "store"
  /\ FirstPage(E) <= heapTop
  /\ home' = new
  /\ accessS' = [accessS EXCEPT ![FirstPage(E)] = @ \union {c}]
  /\ seen' = [d \in Client |-> [a \in Addr |->
                IF d = c /\ a \in E THEN {new[a]}
                                    ELSE seen[d][a] \union {new[a]}]]
  /\ Answer(c, [op |-> "ack"])
  /\ UNCHANGED heapTop

(* storeHandler: the store goes to memory, c becomes the only holder of    *)
(* the page it starts on.                                                  *)
HandleStore(c) ==
  LET E == req[c].at
      new == [a \in Addr |-> IF a \in E THEN req[c].val ELSE home[a]]
  IN
  /\ req[c].op = "store"
  /\ FirstPage(E) <= heapTop
  /\ home' = new
  /\ accessS' = [accessS EXCEPT ![FirstPage(E)] = {c}]
  /\ seen' = [d \in Client |-> [a \in Addr |->
                IF d = c /\ a \in E THEN {new[a]}
                                    ELSE seen[d][a] \union {new[a]}]]
  /\ Answer(c, [op |-> "ack"])
  /\ UNCHANGED heapTop

-----------------------------------------------------------------------------
(* The specification. *)

Handle(c) ==
  \/ HandleSync(c)
  \/ HandleFault(c)
  \/ HandleMalloc(c)
  \/ HandleLoad(c)
  \/ HandleStore(c)

Return(c) ==
  \/ SyncReturn(c)
  \/ FaultReturn(c)
  \/ MallocReturn(c)
  \/ LoadSCReturn(c)
  \/ StoreSCReturn(c)

Next ==
  \/ \E c \in Heavy :
       \/ \E E \in Extent : Store(c, E)
       \/ \E a \in Addr : Load(c, a)
       \/ \E p \in Page : Fault(c, p)
  \/ \E c \in Light :
       \/ \E E \in LightExtent : StoreSC(c, E)
       \/ \E a \in Addr : LoadSC(c, a)
  \/ \E c \in Client :
       \/ \E n \in AllocSizes : Malloc(c, n)
       \/ Sync(c)
       \/ Handle(c)
       \/ Return(c)

(* The handler thread of the home polls its queue and serves it in order;  *)
(* a client blocked in receiveQue reads until its answer is complete.      *)
Fairness == \A c \in Client : WF_vars(Handle(c)) /\ WF_vars(Return(c))

Spec == Init /\ [][Next]_vars
FairSpec == Spec /\ Fairness

-----------------------------------------------------------------------------
(* Properties. *)

TypeOK ==
  /\ home \in [Addr -> Val]
  /\ heapTop \in 0 .. NumPages
  /\ accessS \in [Page -> SUBSET Client]
  /\ valid \in [Client -> SUBSET Page]
  /\ copy \in [Client -> [Addr -> Val]]
  /\ log \in [Client -> Seq(LogEntry)]
  /\ req \in [Client -> Request]
  /\ rep \in [Client -> Reply]
  /\ stores \in Val
  /\ seen \in [Client -> [Addr -> SUBSET Val]]
  /\ obs \in {Nothing} \union (Client \X Addr \X Val)

(* Stores of c that the home has not applied. *)
Pending(c) == IF req[c].op = "sync" THEN req[c].log ELSE log[c]

(* Pages c will drop before it runs again. *)
Dropping(c) == IF rep[c].op = "inval" THEN rep[c].pages ELSE {}

(* What c should read at a if its copy were current. *)
Current(c, a) ==
  IF a \in Written(Pending(c)) THEN LastOf(Pending(c), a) ELSE home[a]

(* The directory of the home is right: a heavy client that accessS lists   *)
(* for a page and that has the page mapped has the home's words in it,     *)
(* changed only by its own stores not yet applied.  So the home may leave  *)
(* the page out of the client's next invalidation list.                    *)
Coherent ==
  \A c \in Heavy : \A p \in valid[c] \ Dropping(c) :
    c \in accessS[p] =>
      \A w \in Word : copy[c][<<p, w>>] = Current(c, <<p, w>>)

(* Lazy release consistency: a word of a page a heavy client has mapped is *)
(* its own last store, or a value the home has held since the home handled *)
(* the client's last synchronisation or its last fetch of that page.       *)
Fresh ==
  \A c \in Heavy : \A p \in valid[c] \ Dropping(c) : \A w \in Word :
    LET a == <<p, w>> IN
    IF a \in Written(Pending(c)) THEN copy[c][a] = LastOf(Pending(c), a)
                                 ELSE copy[c][a] \in seen[c][a]

(* Stores of a client not applied at the home are on pages it has mapped,  *)
(* so the fetch of a page never overwrites one.                            *)
PendingMapped ==
  \A c \in Heavy : PagesOf(Written(Pending(c))) \subseteq valid[c]

-----------------------------------------------------------------------------
(* Why Coherent and Fresh hold: the parts of an inductive invariant. *)

(* A client is waiting for one thing; only light clients ask for words,    *)
(* and they log nothing.                                                   *)
Exchange ==
  \A c \in Client :
    /\ req[c].op = "none" \/ rep[c].op = "none"
    /\ req[c].op = "sync" \/ rep[c].op = "inval" => log[c] = << >>
    /\ req[c].op \in {"load", "store"} \/ rep[c].op = "word" => c \in Light
    /\ c \in Light => Pending(c) = << >>

(* Each word a pending log covers has a last store in it. *)
WellLogged == \A c \in Client : Settled(Pending(c))

(* What the home holds now is among what it has held. *)
HomeSeen == \A c \in Client : \A a \in Addr : home[a] \in seen[c][a]

(* Beyond the top of the heap nothing has been written. *)
Untouched == \A a \in Addr : a[1] > heapTop => home[a] = Zero

(* Pages that are mapped, sent or stored to have a pageInfo. *)
KnownPages ==
  \A c \in Client :
    /\ valid[c] \subseteq 1 .. heapTop
    /\ rep[c].op = "page" => rep[c].page <= heapTop
    /\ rep[c].op = "chunk" => rep[c].pages \subseteq 1 .. heapTop
    /\ req[c].op = "store" => PagesOf(req[c].at) \subseteq 1 .. heapTop

(* A page that is asked for, or on its way, is not mapped. *)
Absent ==
  \A c \in Heavy :
    /\ req[c].op = "fault" => req[c].page \notin valid[c]
    /\ rep[c].op = "page" => rep[c].page \notin valid[c]
    /\ rep[c].op = "chunk" => rep[c].pages \intersect valid[c] = {}

(* A word on its way to a light client is one it may see.                  *)
WordSeen ==
  \A c \in Light :
    rep[c].op = "word" => rep[c].val \in seen[c][rep[c].addr]

(* What an arriving page will hold is as fresh as Coherent and Fresh say.  *)
Arriving ==
  \A c \in Heavy : \A a \in Addr :
    /\ rep[c].op = "page" /\ rep[c].page = a[1] =>
         /\ rep[c].data[a[2]] \in seen[c][a]
         /\ c \in accessS[a[1]] => rep[c].data[a[2]] = home[a]
    /\ rep[c].op = "chunk" /\ a[1] \in rep[c].pages =>
         /\ Zero \in seen[c][a]
         /\ c \in accessS[a[1]] => home[a] = Zero

(* Every store of a log is booked under all its pages: true of stores that *)
(* stay in one page or start on a page boundary.                           *)
LogsAligned == \A E \in Extent : Marked(E) = PagesOf(E)

(* storeHandler books a store under its first page only.  Stores of        *)
(* naturally aligned scalars, one at a time, have no other.                *)
LightAligned == \A E \in LightExtent : \E p \in Page : PagesOf(E) = {p}

Aligned == LogsAligned /\ LightAligned

Inductive ==
  /\ TypeOK /\ Exchange /\ WellLogged
  /\ HomeSeen /\ Untouched /\ KnownPages /\ Absent /\ WordSeen /\ Arriving
  /\ PendingMapped /\ Coherent /\ Fresh

-----------------------------------------------------------------------------
(* The protocol implements the shared memory of LazyMemory: the log of a   *)
(* client is its unpublished stores until the home applies it.             *)
Shared == INSTANCE LazyMemory WITH
  mem <- home, Extent <- Extent \union LightExtent,
  pend <- [c \in Client |-> Pending(c)]
ImplementsLazyMemory == Shared!Spec

(* A client that has asked for something gets to run again. *)
AnswersArrive == \A c \in Client : (~Idle(c)) ~> Idle(c)
=============================================================================
