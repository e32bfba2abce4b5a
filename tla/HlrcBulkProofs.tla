--------------------------- MODULE HlrcBulkProofs ---------------------------
(***************************************************************************)
(* Theorems about HlrcBulk, for any clients, pages, words, stores and bulk *)
(* operations: what memset and memcpy do wrong stays where it is.          *)
(***************************************************************************)
EXTENDS HlrcBulk, HlrcProofs

-----------------------------------------------------------------------------
(* The inductive invariant. *)

BulkEntry == [at : Extent \union BulkExtent, val : Val]
Words == UNION {[E -> Val] : E \in SourceExtent}  \* sources on their way
BulkRequest ==
  {NoMsg}
    \union [op : {"sync"}, log : Seq(BulkEntry)]
    \union [op : {"fault"}, page : Page]
    \union [op : {"malloc"}, size : AllocSizes]
    \union [op : {"load"}, addr : Addr]
    \union [op : {"store"}, at : LightExtent, val : Val]
    \union [op : {"memcpy"}, at : SourceExtent]
    \union [op : {"memset"}, at : BulkExtent, val : Val]
    \union [op : {"lastpage"}, page : Page, words : Words]
BulkReply ==
  Reply
    \union [op : {"range"}, data : Words]
    \union [op : {"lastpage"}, page : Page, words : Words, data : [Word -> Val]]

BulkTypes ==
  /\ home \in [Addr -> Val]
  /\ heapTop \in 0 .. NumPages
  /\ accessS \in [Page -> SUBSET Client]
  /\ valid \in [Client -> SUBSET Page]
  /\ copy \in [Client -> [Addr -> Val]]
  /\ log \in [Client -> Seq(BulkEntry)]
  /\ req \in [Client -> BulkRequest]
  /\ rep \in [Client -> BulkReply]
  /\ stores \in Val

(* A client waits for one thing, with an empty log if that is uva_sync, on *)
(* pages the home has; where it asks for words or to have them set, the    *)
(* pages concerned are touched.                                            *)
Asked(c) ==
  /\ req[c].op = "none" \/ rep[c].op = "none"
  /\ req[c].op = "sync" \/ rep[c].op = "inval" => log[c] = << >>
  /\ req[c].op = "store" => c \in Light /\ PagesOf(req[c].at) \subseteq 1 .. heapTop
  /\ req[c].op = "memset" => /\ PagesOf(req[c].at) \subseteq 1 .. heapTop
                             /\ Heavy \X PagesOf(req[c].at) \subseteq touched
  /\ req[c].op = "memcpy" => {c} \X (Marked(req[c].at) \union PagesOf(req[c].at)) \subseteq touched
  /\ rep[c].op = "range" => {c} \X PagesOf(DOMAIN rep[c].data) \subseteq touched
  /\ req[c].op = "lastpage" => {c} \X ({req[c].page} \union PagesOf(DOMAIN req[c].words)) \subseteq touched
  /\ rep[c].op = "lastpage" => {c} \X ({rep[c].page} \union PagesOf(DOMAIN rep[c].words)) \subseteq touched
  /\ rep[c].op = "page" => rep[c].page <= heapTop
  /\ rep[c].op = "chunk" => rep[c].pages \subseteq 1 .. heapTop

(* Only memcpy maps pages that the home does not have, or that are coming. *)
Mapped(c) ==
  /\ \A p \in valid[c] : p > heapTop => <<c, p>> \in touched
  /\ req[c].op = "fault" => req[c].page \notin valid[c]
  /\ rep[c].op = "page" => rep[c].page \notin valid[c]
  /\ rep[c].op = "chunk" => \A p \in rep[c].pages : p \in valid[c] => <<c, p>> \in touched

(* A copy that the directory lists and nothing has touched is right, and   *)
(* will be, if it is on its way.                                           *)
Right(c, p) ==
  c \in accessS[p] /\ <<c, p>> \notin touched =>
    \A w \in Word :
      /\ p \in valid[c] \ Dropping(c) => copy[c][<<p, w>>] = Current(c, <<p, w>>)
      /\ rep[c].op = "page" /\ rep[c].page = p => rep[c].data[w] = home[<<p, w>>]
      /\ rep[c].op = "chunk" /\ p \in rep[c].pages => home[<<p, w>>] = Zero

Sound(c) ==
  /\ Asked(c)
  /\ Settled(Pending(c))
  /\ c \in Heavy => /\ PagesOf(Written(Pending(c))) \subseteq valid[c]
                    /\ Mapped(c)
                    /\ \A p \in Page : Right(c, p)

BulkInductive ==
  /\ BulkTypes
  /\ Untouched
  /\ \A c \in Client : Sound(c)
-----------------------------------------------------------------------------
(* Messages and logs. *)

LEMMA BulkRequestFields ==
  ASSUME NEW m \in BulkRequest
  PROVE  /\ m.op = "sync" => m.log \in Seq(BulkEntry)
         /\ m.op = "fault" => m.page \in Page
         /\ m.op = "malloc" => m.size \in AllocSizes
         /\ m.op = "load" => m.addr \in Addr
         /\ m.op = "store" => m.at \in LightExtent /\ m.val \in Val
         /\ m.op = "memcpy" => m.at \in SourceExtent
         /\ m.op = "memset" => m.at \in BulkExtent /\ m.val \in Val
         /\ m.op = "lastpage" => m.page \in Page /\ m.words \in Words
BY DEF BulkRequest, NoMsg

LEMMA BulkReplyFields ==
  ASSUME NEW m \in BulkReply
  PROVE  /\ m.op \in {"inval", "chunk"} => m.pages \in SUBSET Page
         /\ m.op = "page" => m.page \in Page /\ m.data \in [Word -> Val]
         /\ m.op = "word" => m.addr \in Addr /\ m.val \in Val
         /\ m.op = "range" => m.data \in Words
         /\ m.op = "lastpage" => m.page \in Page /\ m.words \in Words /\ m.data \in [Word -> Val]
<1>1. CASE m \in Reply
  BY <1>1, ReplyFields DEF Reply, NoMsg
<1>2. CASE m \in [op : {"range"}, data : Words]
  BY <1>2
<1>3. CASE m \in [op : {"lastpage"}, page : Page, words : Words, data : [Word -> Val]]
  BY <1>3
<1> QED
  BY <1>1, <1>2, <1>3 DEF BulkReply

LEMMA WordsFacts ==
  ASSUME NEW f \in Words
  PROVE  DOMAIN f \subseteq Addr /\ \A a \in DOMAIN f : f[a] \in Val
BY BulkAssumption DEF Words

LEMMA BulkRequestMade ==
  /\ NoMsg \in BulkRequest
  /\ \A l \in Seq(BulkEntry) : [op |-> "sync", log |-> l] \in BulkRequest
  /\ \A p \in Page : [op |-> "fault", page |-> p] \in BulkRequest
  /\ \A n \in AllocSizes : [op |-> "malloc", size |-> n] \in BulkRequest
  /\ \A a \in Addr : [op |-> "load", addr |-> a] \in BulkRequest
  /\ \A E \in LightExtent, v \in Val :
       [op |-> "store", at |-> E, val |-> v] \in BulkRequest
  /\ \A E \in SourceExtent : [op |-> "memcpy", at |-> E] \in BulkRequest
  /\ \A E \in BulkExtent, v \in Val :
       [op |-> "memset", at |-> E, val |-> v] \in BulkRequest
  /\ \A p \in Page, f \in Words : [op |-> "lastpage", page |-> p, words |-> f] \in BulkRequest
BY DEF BulkRequest

LEMMA BulkReplyMade ==
  /\ \A m \in Reply : m \in BulkReply
  /\ \A E \in SourceExtent : \A f \in [E -> Val] : [op |-> "range", data |-> f] \in BulkReply
  /\ \A p \in Page, f \in Words, g \in [Word -> Val] :
       [op |-> "lastpage", page |-> p, words |-> f, data |-> g] \in BulkReply
BY DEF BulkReply, Words

(* What a store of any kind adds to a log. *)
LEMMA BulkLogged ==
  ASSUME NEW l \in Seq(BulkEntry), NEW E \in Extent \union BulkExtent, NEW v \in Val, Settled(l)
  PROVE  /\ Logged(l, E, v) \in Seq(BulkEntry)
         /\ Settled(Logged(l, E, v))
         /\ \A a : a \in Written(Logged(l, E, v)) <=> a \in Written(l) \/ a \in E
         /\ \A a \in E : LastOf(Logged(l, E, v), a) = v
         /\ \A a \in Written(l) : a \notin E =>
              LastOf(Logged(l, E, v), a) = LastOf(l, a)
<1> DEFINE e == [at |-> E, val |-> v]
           t == Append(l, e)
<1>1. e \in BulkEntry /\ e.at = E /\ e.val = v
  BY DEF BulkEntry
<1>2. t \in Seq(BulkEntry)
  BY <1>1
<1>3. Written(t) = Written(l) \union E
  BY <1>1, WrittenAppend
<1>4. \A a : LastIndex(t, a) = IF a \in E THEN {Len(l) + 1} ELSE LastIndex(l, a)
  BY <1>1, LastIndexAppend
<1>5. \A a : (LastIndex(l, a) # {} \/ a \in E)
               => LastOf(t, a) = IF a \in E THEN v ELSE LastOf(l, a)
  BY <1>1, LastOfAppend
<1>t. Logged(l, E, v) = t
  BY Zenon DEF Logged
<1> HIDE DEF e, t
<1>6. Settled(t)
  BY <1>3, <1>4 DEF Settled
<1>7. \A a : a \in Written(t) <=> a \in Written(l) \/ a \in E
  BY <1>3
<1>8. \A a \in Written(l) : a \notin E => LastOf(t, a) = LastOf(l, a)
  BY <1>5 DEF Settled
<1> QED
  BY <1>2, <1>5, <1>6, <1>7, <1>8, <1>t

(* A replay changes the words that are written, to values.                 *)
LEMMA BulkReplay ==
  ASSUME NEW m \in [Addr -> Val], NEW l \in Seq(BulkEntry), Settled(l)
  PROVE  /\ Replay(m, l) \in [Addr -> Val]
         /\ \A a \in Addr : Replay(m, l)[a] = IF a \in Written(l) THEN LastOf(l, a) ELSE m[a]
<1>1. ASSUME NEW a, LastIndex(l, a) # {} PROVE LastOf(l, a) \in Val
  <2> DEFINE k == CHOOSE i \in LastIndex(l, a) : TRUE
  <2>1. k \in LastIndex(l, a)
    BY <1>1
  <2>2. k \in DOMAIN l
    BY <2>1 DEF LastIndex
  <2>3. l[k] \in BulkEntry
    BY <2>2
  <2>4. LastOf(l, a) = l[k].val
    BY Zenon DEF LastOf
  <2> HIDE DEF k
  <2> QED
    BY <2>3, <2>4 DEF BulkEntry
<1> QED
  BY <1>1 DEF Replay, Settled

(* With aligned stores, a page with a word written has been booked.        *)
LEMMA BookedIsWritten ==
  ASSUME BulkAligned, NEW l \in Seq(BulkEntry)
  PROVE  PagesOf(Written(l)) \subseteq MarkedBy(l)
<1> SUFFICES ASSUME NEW a \in Written(l) PROVE a[1] \in MarkedBy(l)
  BY DEF PagesOf
<1>1. PICK i \in DOMAIN l : a \in l[i].at
  BY DEF Written
<1>2. l[i] \in BulkEntry
  BY <1>1
<1>3. l[i].at \in Extent \union BulkExtent
  BY <1>2 DEF BulkEntry
<1>4. a[1] \in Marked(l[i].at)
  BY <1>1, <1>3 DEF BulkAligned, PagesOf
<1> QED
  BY <1>1, <1>4 DEF MarkedBy

-----------------------------------------------------------------------------
(* Who a step does not concern. *)

LEMMA OthersSound ==
  ASSUME BulkTypes, BulkTypes', NEW d \in Client, Sound(d),
         heapTop <= heapTop', touched \subseteq touched',
         log'[d] = log[d], req'[d] = req[d], rep'[d] = rep[d],
         valid'[d] = valid[d], copy'[d] = copy[d],
         d \in Heavy => \A p \in Page :
           d \in accessS'[p] /\ <<d, p>> \notin touched' =>
             d \in accessS[p] /\ \A w \in Word : home'[<<p, w>>] = home[<<p, w>>]
  PROVE  Sound(d)'
<1>1. Pending(d)' = Pending(d) /\ Dropping(d)' = Dropping(d)
  BY DEF Pending, Dropping
<1>2. heapTop \in Int /\ heapTop' \in Int
  BY BoundsAssumption DEF BulkTypes
<1>3. Asked(d)'
  <2>1. \A P : P \subseteq 1 .. heapTop => P \subseteq 1 .. heapTop'
    BY <1>2
  <2>2. rep[d].op = "page" => rep[d].page \in Page
    BY BulkReplyFields DEF BulkTypes
  <2>3. rep[d].op = "page" => rep[d].page <= heapTop'
    BY <1>2, <2>2, BoundsAssumption DEF Sound, Asked, Page
  <2> QED
    BY <2>1, <2>3 DEF Sound, Asked
<1>4. Settled(Pending(d))' /\ (d \in Heavy => PagesOf(Written(Pending(d)))' \subseteq valid'[d])
  BY <1>1 DEF Sound
<1>5. ASSUME d \in Heavy PROVE Mapped(d)'
  <2>1. \A p \in valid[d] : p > heapTop' => <<d, p>> \in touched'
    <3>1. valid[d] \subseteq Page
      BY DEF BulkTypes
    <3> QED
      BY <1>2, <1>5, <3>1, BoundsAssumption DEF Sound, Mapped, Page
  <2> QED
    BY <1>5, <2>1 DEF Sound, Mapped
<1>6. ASSUME d \in Heavy, NEW p \in Page PROVE Right(d, p)'
  <2> SUFFICES ASSUME d \in accessS'[p], <<d, p>> \notin touched', NEW w \in Word
               PROVE  /\ p \in valid[d] \ Dropping(d) => copy[d][<<p, w>>] = Current(d, <<p, w>>)'
                      /\ rep[d].op = "page" /\ rep[d].page = p => rep[d].data[w] = home'[<<p, w>>]
                      /\ rep[d].op = "chunk" /\ p \in rep[d].pages => home'[<<p, w>>] = Zero
    BY <1>1 DEF Right
  <2>1. d \in accessS[p] /\ home'[<<p, w>>] = home[<<p, w>>] /\ <<d, p>> \notin touched
    BY <1>6
  <2>2. Current(d, <<p, w>>)' = Current(d, <<p, w>>)
    BY <1>1, <2>1 DEF Current
  <2> QED
    BY <1>6, <2>1, <2>2 DEF Sound, Right
<1> QED
  BY <1>3, <1>4, <1>5, <1>6 DEF Sound

(* A step of client c alone. *)
LEMMA ClientStep ==
  ASSUME BulkInductive, BulkTypes', NEW c \in Client,
         UNCHANGED <<home, heapTop, accessS>>, touched \subseteq touched',
         \A d \in Client : d # c => /\ log'[d] = log[d] /\ req'[d] = req[d] /\ rep'[d] = rep[d]
                                    /\ valid'[d] = valid[d] /\ copy'[d] = copy[d],
         Sound(c)'
  PROVE  BulkInductive'
<1>1. Untouched'
  BY DEF BulkInductive, Untouched
<1>2. heapTop <= heapTop'
  BY BoundsAssumption DEF BulkInductive, BulkTypes
<1>3. \A d \in Client : d # c => Sound(d)'
  <2> SUFFICES ASSUME NEW d \in Client, d # c PROVE Sound(d)'
    OBVIOUS
  <2>1. BulkTypes /\ Sound(d)
    BY DEF BulkInductive
  <2> QED
    BY <1>2, <2>1, OthersSound
<1> QED
  BY <1>1, <1>3 DEF BulkInductive

(* A request of client c handled by the home.                              *)
LEMMA HomeStep ==
  ASSUME BulkInductive, NEW c \in Client, NEW m \in BulkReply, Answer(c, m), touched' = touched,
         home' \in [Addr -> Val], heapTop' \in 0 .. NumPages, heapTop <= heapTop',
         accessS' \in [Page -> SUBSET Client],
         Untouched',
         \A d \in Heavy : \A p \in Page :
           d # c /\ d \in accessS'[p] /\ <<d, p>> \notin touched =>
             d \in accessS[p] /\ \A w \in Word : home'[<<p, w>>] = home[<<p, w>>],
         Sound(c)'
  PROVE  BulkInductive'
<1>1. UNCHANGED <<valid, copy, log, stores>>
  BY DEF Answer, clientVars
<1>2. \A d \in Client : d # c => req'[d] = req[d] /\ rep'[d] = rep[d]
  BY DEF Answer, BulkInductive, BulkTypes
<1>3. BulkTypes /\ BulkTypes'
  <2>1. req' \in [Client -> BulkRequest] /\ rep' \in [Client -> BulkReply]
    BY BulkRequestMade DEF Answer, BulkInductive, BulkTypes
  <2> QED
    BY <1>1, <2>1 DEF BulkInductive, BulkTypes
<1>4. \A d \in Client : d # c => Sound(d)'
  <2> SUFFICES ASSUME NEW d \in Client, d # c PROVE Sound(d)'
    OBVIOUS
  <2>1. Sound(d)
    BY DEF BulkInductive
  <2> QED
    BY <1>1, <1>2, <1>3, <2>1, OthersSound
<1> QED
  BY <1>3, <1>4 DEF BulkInductive

-----------------------------------------------------------------------------
(* Requests. *)

(* A request that takes nothing from the log.                              *)
LEMMA BulkAsk ==
  ASSUME BulkInductive, NEW c \in Client, NEW m \in BulkRequest, Send(c, m),
         UNCHANGED clientVars, stores' \in Val, touched \subseteq touched',
         m.op \in {"fault", "malloc", "load", "store", "memset"},
         m.op = "fault" => m.page \notin valid[c],
         m.op = "store" => c \in Light /\ PagesOf(m.at) \subseteq 1 .. heapTop,
         m.op = "memset" => /\ PagesOf(m.at) \subseteq 1 .. heapTop
                            /\ Heavy \X PagesOf(m.at) \subseteq touched'
  PROVE  BulkInductive'
<1>1. UNCHANGED <<home, heapTop, accessS, valid, copy, log, rep>>
  BY DEF Send, homeVars, clientVars
<1>2. req'[c] = m /\ \A d \in Client : d # c => req'[d] = req[d]
  BY DEF Send, BulkInductive, BulkTypes
<1>3. req[c].op = "none" /\ rep[c].op = "none"
  BY DEF Send, Idle
<1>4. Pending(c)' = Pending(c) /\ Dropping(c)' = Dropping(c)
  BY <1>1, <1>2, <1>3 DEF Pending, Dropping
<1>5. Sound(c)
  BY DEF BulkInductive
<1>6. BulkTypes'
  BY <1>1 DEF Send, BulkInductive, BulkTypes
<1>7. Asked(c)'
  BY <1>1, <1>2, <1>3, <1>5 DEF Sound, Asked
<1>8. c \in Heavy => Mapped(c)'
  BY <1>1, <1>2, <1>3, <1>5 DEF Sound, Mapped
<1>9. c \in Heavy => \A p \in Page : Right(c, p)'
  BY <1>1, <1>4, <1>5 DEF Sound, Right, Current
<1>10. Sound(c)'
  BY <1>1, <1>4, <1>5, <1>7, <1>8, <1>9 DEF Sound
<1> QED
  BY <1>1, <1>2, <1>6, <1>10, ClientStep

LEMMA FaultKeeps ==
  ASSUME BulkInductive, NEW c \in Client, NEW p \in Page, Fault(c, p), touched' = touched
  PROVE  BulkInductive'
<1> DEFINE m == [op |-> "fault", page |-> p]
<1>1. m \in BulkRequest
  BY BulkRequestMade
<1>2. stores' \in Val
  BY DEF BulkInductive, BulkTypes, Fault
<1> QED
  BY <1>1, <1>2, BulkAsk DEF Fault

LEMMA MallocKeeps ==
  ASSUME BulkInductive, NEW c \in Client, NEW n \in AllocSizes, Malloc(c, n), touched' = touched
  PROVE  BulkInductive'
<1> DEFINE m == [op |-> "malloc", size |-> n]
<1>1. m \in BulkRequest
  BY BulkRequestMade
<1>2. stores' \in Val
  BY DEF BulkInductive, BulkTypes, Malloc
<1> QED
  BY <1>1, <1>2, BulkAsk DEF Malloc

LEMMA LoadSCKeeps ==
  ASSUME BulkInductive, NEW c \in Light, NEW a \in Addr, LoadSC(c, a), touched' = touched
  PROVE  BulkInductive'
<1> DEFINE m == [op |-> "load", addr |-> a]
<1>1. m \in BulkRequest /\ c \in Client
  BY BulkRequestMade DEF Client
<1>2. stores' \in Val
  BY DEF BulkInductive, BulkTypes, LoadSC
<1> QED
  BY <1>1, <1>2, BulkAsk DEF LoadSC

LEMMA StoreSCKeeps ==
  ASSUME BulkInductive, NEW c \in Light, NEW E \in LightExtent, StoreSC(c, E), touched' = touched
  PROVE  BulkInductive'
<1> DEFINE m == [op |-> "store", at |-> E, val |-> stores + 1]
<1>1. stores + 1 \in Val /\ stores' = stores + 1
  BY BoundsAssumption DEF BulkInductive, BulkTypes, StoreSC, Val
<1>2. m \in BulkRequest /\ c \in Client
  BY <1>1, BulkRequestMade DEF Client
<1> QED
  BY <1>1, <1>2, BulkAsk DEF StoreSC

LEMMA MemsetSCKeeps ==
  ASSUME BulkInductive, NEW c \in Light, NEW E \in BulkExtent, MemsetSC(c, E)
  PROVE  BulkInductive'
<1> DEFINE m == [op |-> "memset", at |-> E, val |-> stores + 1]
<1>1. stores + 1 \in Val /\ stores' = stores + 1
  BY BoundsAssumption DEF BulkInductive, BulkTypes, MemsetSC, Val
<1>2. m \in BulkRequest /\ c \in Client
  BY <1>1, BulkRequestMade DEF Client
<1>3. touched \subseteq touched' /\ Heavy \X PagesOf(m.at) \subseteq touched'
  BY DEF MemsetSC
<1> QED
  BY <1>1, <1>2, <1>3, BulkAsk DEF MemsetSC

(* The log moves into the request. *)
LEMMA SyncKeeps ==
  ASSUME BulkInductive, NEW c \in Client, Sync(c), touched' = touched
  PROVE  BulkInductive'
<1>1. UNCHANGED <<home, heapTop, accessS, valid, copy, rep, stores>>
  BY DEF Sync, Send, homeVars
<1>2. /\ req'[c] = [op |-> "sync", log |-> log[c]] /\ log'[c] = << >>
      /\ \A d \in Client : d # c => req'[d] = req[d] /\ log'[d] = log[d]
  BY DEF Sync, Send, BulkInductive, BulkTypes
<1>3. req[c].op = "none" /\ rep[c].op = "none"
  BY DEF Sync, Send, Idle
<1>4. Pending(c)' = Pending(c) /\ Dropping(c)' = Dropping(c)
  BY <1>1, <1>2, <1>3 DEF Pending, Dropping
<1>5. Sound(c)
  BY DEF BulkInductive
<1>6. BulkTypes'
  <2>1. log[c] \in Seq(BulkEntry) /\ << >> \in Seq(BulkEntry)
    BY DEF BulkInductive, BulkTypes
  <2>2. [op |-> "sync", log |-> log[c]] \in BulkRequest
    BY <2>1, BulkRequestMade
  <2>3. req' \in [Client -> BulkRequest]
    BY <2>2 DEF BulkInductive, BulkTypes, Sync, Send
  <2>4. log' \in [Client -> Seq(BulkEntry)]
    BY <2>1 DEF BulkInductive, BulkTypes, Sync
  <2> QED
    BY <1>1, <2>3, <2>4 DEF BulkInductive, BulkTypes
<1>7. Asked(c)'
  BY <1>1, <1>2, <1>3, <1>5 DEF Sound, Asked
<1>8. c \in Heavy => Mapped(c)'
  BY <1>1, <1>2, <1>3, <1>5 DEF Sound, Mapped
<1>9. c \in Heavy => \A p \in Page : Right(c, p)'
  BY <1>1, <1>4, <1>5 DEF Sound, Right, Current
<1>10. Sound(c)'
  BY <1>1, <1>4, <1>5, <1>7, <1>8, <1>9 DEF Sound
<1> QED
  BY <1>1, <1>2, <1>6, <1>10, ClientStep

(* The pages of the source are mapped anew, and touched.                   *)
LEMMA MemcpyFromKeeps ==
  ASSUME BulkInductive, NEW c \in Client, NEW E \in SourceExtent, MemcpyFrom(c, E)
  PROVE  BulkInductive'
<1> DEFINE P == MappedFor(E)
<1>0. P \subseteq Page /\ E \subseteq Addr
  BY BulkAssumption DEF MemcpyFrom
<1>1. UNCHANGED <<home, heapTop, accessS, log, rep, stores>>
  BY DEF MemcpyFrom, Send, homeVars
<1>2. /\ req'[c] = [op |-> "memcpy", at |-> E] /\ valid'[c] = valid[c] \union P
      /\ \A a \in Addr : a[1] \notin P => copy'[c][a] = copy[c][a]
      /\ \A d \in Client : d # c => /\ req'[d] = req[d] /\ valid'[d] = valid[d]
                                    /\ copy'[d] = copy[d]
  BY <1>0 DEF MemcpyFrom, Send, BulkInductive, BulkTypes
<1>3. /\ req[c].op = "none" /\ rep[c].op = "none"
      /\ touched' = touched \union ({c} \X (P \union Marked(E) \union PagesOf(E)))
  BY DEF MemcpyFrom, Send, Idle
<1>4. Pending(c)' = Pending(c) /\ Dropping(c)' = Dropping(c)
  BY <1>1, <1>2, <1>3 DEF Pending, Dropping
<1>5. Sound(c)
  BY <1>0 DEF BulkInductive
<1>6. BulkTypes'
  <2>1. [op |-> "memcpy", at |-> E] \in BulkRequest
    BY BulkRequestMade
  <2>2. req' \in [Client -> BulkRequest]
    BY <2>1 DEF BulkInductive, BulkTypes, MemcpyFrom, Send
  <2>3. valid' \in [Client -> SUBSET Page]
    BY <1>0 DEF BulkInductive, BulkTypes, MemcpyFrom
  <2>4. copy' \in [Client -> [Addr -> Val]]
    <3>1. Zero \in Val
      BY BoundsAssumption DEF Zero, Val
    <3>2. [a \in Addr |-> IF a[1] \in MappedFor(E) THEN Zero ELSE copy[c][a]] \in [Addr -> Val]
      BY <1>0, <3>1 DEF BulkInductive, BulkTypes
    <3> QED
      BY <1>0, <3>2 DEF BulkInductive, BulkTypes, MemcpyFrom
  <2> QED
    BY <1>1, <2>2, <2>3, <2>4 DEF BulkInductive, BulkTypes
<1> HIDE DEF P
<1>7. Asked(c)'
  BY <1>1, <1>2, <1>3, <1>5 DEF Sound, Asked
<1>8. c \in Heavy => Mapped(c)'
  BY <1>1, <1>2, <1>3, <1>5 DEF Sound, Mapped
<1>9. ASSUME c \in Heavy, NEW p \in Page PROVE Right(c, p)'
  <2> SUFFICES ASSUME <<c, p>> \notin touched' PROVE Right(c, p)'
    BY DEF Right
  <2>1. p \notin P /\ <<c, p>> \notin touched
    BY <1>3
  <2>2. \A w \in Word : <<p, w>> \in Addr /\ copy'[c][<<p, w>>] = copy[c][<<p, w>>]
    BY <1>2, <2>1 DEF Addr
  <2> QED
    BY <1>1, <1>2, <1>4, <1>5, <1>9, <2>1, <2>2 DEF Sound, Right, Current
<1>10. Sound(c)'
  BY <1>1, <1>2, <1>4, <1>5, <1>7, <1>8, <1>9 DEF Sound
<1> QED
  BY <1>0, <1>1, <1>2, <1>3, <1>6, <1>10, ClientStep

-----------------------------------------------------------------------------
(* Stores. *)

(* A store of a heavy client, or its memset: what the log says it wrote is *)
(* v, what it wrote is u, and where they differ the pages are touched.     *)
LEMMA WriteKeeps ==
  ASSUME BulkInductive, NEW c \in Heavy, NEW E \in Extent \union BulkExtent,
         NEW u \in Val, NEW v \in Val,
         Idle(c), PagesOf(E) \subseteq valid[c], stores' \in Val,
         copy' = [copy EXCEPT ![c] = [a \in Addr |-> IF a \in E THEN u ELSE @[a]]],
         log' = [log EXCEPT ![c] = Logged(@, E, v)],
         touched \subseteq touched', u = v \/ {c} \X PagesOf(E) \subseteq touched',
         UNCHANGED <<homeVars, valid, req, rep>>
  PROVE  BulkInductive'
<1>0. c \in Client /\ E \subseteq Addr
  BY ExtentAssumption, BulkAssumption DEF Client
<1>1. UNCHANGED <<home, heapTop, accessS, valid, req, rep>>
  BY DEF homeVars
<1>2. /\ log'[c] = Logged(log[c], E, v)
      /\ \A a \in Addr : copy'[c][a] = IF a \in E THEN u ELSE copy[c][a]
      /\ \A d \in Client : d # c => log'[d] = log[d] /\ copy'[d] = copy[d]
  BY <1>0 DEF BulkInductive, BulkTypes
<1>3. req[c].op = "none" /\ rep[c].op = "none"
  BY DEF Idle
<1>4. Pending(c) = log[c] /\ Pending(c)' = log'[c] /\ Dropping(c) = {} /\ Dropping(c)' = {}
  BY <1>1, <1>3 DEF Pending, Dropping
<1>5. Sound(c)
  BY <1>0 DEF BulkInductive
<1>6. log[c] \in Seq(BulkEntry) /\ Settled(log[c])
  BY <1>0, <1>4, <1>5 DEF BulkInductive, BulkTypes, Sound
<1>7. /\ log'[c] \in Seq(BulkEntry)
      /\ Settled(log'[c])
      /\ \A a : a \in Written(log'[c]) <=> a \in Written(log[c]) \/ a \in E
      /\ \A a \in E : LastOf(log'[c], a) = v
      /\ \A a \in Written(log[c]) : a \notin E => LastOf(log'[c], a) = LastOf(log[c], a)
  <2> DEFINE l == log[c]
  <2>1. l \in Seq(BulkEntry) /\ Settled(l)
    BY <1>6
  <2> HIDE DEF l
  <2>2. /\ Logged(l, E, v) \in Seq(BulkEntry)
        /\ Settled(Logged(l, E, v))
        /\ \A a : a \in Written(Logged(l, E, v)) <=> a \in Written(l) \/ a \in E
        /\ \A a \in E : LastOf(Logged(l, E, v), a) = v
        /\ \A a \in Written(l) : a \notin E => LastOf(Logged(l, E, v), a) = LastOf(l, a)
    BY <2>1, BulkLogged
  <2>3. log'[c] = Logged(l, E, v)
    BY <1>2 DEF l
  <2> QED
    BY <2>2, <2>3 DEF l
<1>8. BulkTypes'
  <2>1. [a \in Addr |-> IF a \in E THEN u ELSE copy[c][a]] \in [Addr -> Val]
    BY <1>0 DEF BulkInductive, BulkTypes
  <2>2. copy' \in [Client -> [Addr -> Val]]
    BY <1>0, <2>1 DEF BulkInductive, BulkTypes
  <2>3. log' \in [Client -> Seq(BulkEntry)]
    BY <1>0, <1>2, <1>7 DEF BulkInductive, BulkTypes
  <2> QED
    BY <1>1, <2>2, <2>3 DEF BulkInductive, BulkTypes
<1>9. Asked(c)' /\ Mapped(c)'
  BY <1>1, <1>3, <1>5 DEF Sound, Asked, Mapped
<1>10. PagesOf(Written(log'[c])) \subseteq valid[c]
  BY <1>4, <1>5, <1>7 DEF Sound, PagesOf
<1>11. ASSUME NEW p \in Page PROVE Right(c, p)'
  <2> SUFFICES ASSUME c \in accessS[p], <<c, p>> \notin touched', NEW w \in Word, p \in valid[c]
               PROVE  copy'[c][<<p, w>>] = Current(c, <<p, w>>)'
    BY <1>1, <1>3, <1>4 DEF Right
  <2>1. <<p, w>> \in Addr /\ copy[c][<<p, w>>] = Current(c, <<p, w>>)
    BY <1>4, <1>5 DEF Sound, Right, Addr
  <2>2. CASE <<p, w>> \in E
    <3>1. p \in PagesOf(E)
      BY <2>2 DEF PagesOf
    <3>2. u = v
      BY <3>1
    <3>3. Current(c, <<p, w>>)' = v
      BY <1>4, <1>7, <2>2 DEF Current
    <3> QED
      BY <1>2, <2>1, <2>2, <3>2, <3>3
  <2>3. CASE <<p, w>> \notin E
    <3>1. Current(c, <<p, w>>)' = Current(c, <<p, w>>)
      BY <1>1, <1>4, <1>7, <2>3 DEF Current
    <3> QED
      BY <1>2, <2>1, <2>3, <3>1
  <2> QED
    BY <2>2, <2>3
<1>12. Sound(c)'
  BY <1>1, <1>4, <1>7, <1>9, <1>10, <1>11 DEF Sound
<1> QED
  BY <1>0, <1>1, <1>2, <1>8, <1>12, ClientStep

LEMMA StoreKeeps ==
  ASSUME BulkInductive, NEW c \in Heavy, NEW E \in Extent, Store(c, E), touched' = touched
  PROVE  BulkInductive'
<1>1. stores + 1 \in Val /\ stores' = stores + 1
  BY BoundsAssumption DEF BulkInductive, BulkTypes, Store, Val
<1> DEFINE v == stores + 1
<1>2. v \in Val
  BY <1>1
<1>3. /\ copy' = [copy EXCEPT ![c] = [a \in Addr |-> IF a \in E THEN v ELSE @[a]]]
      /\ log' = [log EXCEPT ![c] = Logged(@, E, v)]
      /\ Idle(c) /\ PagesOf(E) \subseteq valid[c] /\ UNCHANGED <<homeVars, valid, req, rep>>
  BY DEF Store
<1>4. stores' \in Val
  BY <1>1
<1> HIDE DEF v
<1> QED
  BY <1>2, <1>3, <1>4, WriteKeeps

LEMMA MemsetKeeps ==
  ASSUME BulkInductive, NEW c \in Heavy, NEW E \in BulkExtent, NEW v \in Val, Memset(c, E, v)
  PROVE  BulkInductive'
<1>1. stores + 1 \in Val /\ stores' = stores + 1
  BY BoundsAssumption DEF BulkInductive, BulkTypes, Memset, Val
<1> DEFINE u == stores + 1
<1>2. u \in Val
  BY <1>1
<1>3. /\ copy' = [copy EXCEPT ![c] = [a \in Addr |-> IF a \in E THEN u ELSE @[a]]]
      /\ log' = [log EXCEPT ![c] = Logged(@, E, v)]
      /\ Idle(c) /\ PagesOf(E) \subseteq valid[c] /\ UNCHANGED <<homeVars, valid, req, rep>>
  BY DEF Memset
<1>4. touched \subseteq touched' /\ {c} \X PagesOf(E) \subseteq touched' /\ stores' \in Val
  BY <1>1 DEF Memset
<1> HIDE DEF u
<1> QED
  BY <1>2, <1>3, <1>4, WriteKeeps

(* A light client logs what it copies into shared memory.                  *)
LEMMA MemcpySCKeeps ==
  ASSUME BulkInductive, NEW c \in Light, NEW E \in BulkExtent, MemcpySC(c, E)
  PROVE  BulkInductive'
<1> DEFINE v == stores + 1
<1>0. c \in Client /\ c \notin Heavy
  BY ClientsAssumption DEF Client
<1>1. v \in Val /\ stores' = v
  BY BoundsAssumption DEF BulkInductive, BulkTypes, MemcpySC, Val
<1>2. UNCHANGED <<home, heapTop, accessS, valid, copy, req, rep, touched>>
  BY DEF MemcpySC, homeVars
<1>3. /\ log'[c] = Logged(log[c], E, v)
      /\ \A d \in Client : d # c => log'[d] = log[d]
  BY <1>0 DEF MemcpySC, BulkInductive, BulkTypes
<1>4. req[c].op = "none" /\ rep[c].op = "none"
  BY DEF MemcpySC, Idle
<1>5. Pending(c) = log[c] /\ Pending(c)' = log'[c]
  BY <1>2, <1>4 DEF Pending
<1>6. Sound(c)
  BY <1>0 DEF BulkInductive
<1>7. log[c] \in Seq(BulkEntry) /\ Settled(log[c])
  BY <1>0, <1>5, <1>6 DEF BulkInductive, BulkTypes, Sound
<1> HIDE DEF v
<1>8. log'[c] \in Seq(BulkEntry) /\ Settled(log'[c])
  <2> DEFINE l == log[c]
  <2>1. l \in Seq(BulkEntry) /\ Settled(l)
    BY <1>7
  <2> HIDE DEF l
  <2>2. Logged(l, E, v) \in Seq(BulkEntry) /\ Settled(Logged(l, E, v))
    BY <1>1, <2>1, BulkLogged
  <2> QED
    BY <1>3, <2>2 DEF l
<1>9. BulkTypes'
  <2>1. log' \in [Client -> Seq(BulkEntry)]
    BY <1>0, <1>3, <1>8 DEF BulkInductive, BulkTypes, MemcpySC
  <2> QED
    BY <1>1, <1>2, <2>1 DEF BulkInductive, BulkTypes
<1>10. Asked(c)'
  BY <1>2, <1>4, <1>6 DEF Sound, Asked
<1>11. Sound(c)'
  BY <1>0, <1>5, <1>8, <1>10 DEF Sound
<1> QED
  BY <1>0, <1>2, <1>3, <1>9, <1>11, ClientStep

-----------------------------------------------------------------------------
(* Answers. *)

LEMMA ReceiveFacts ==
  ASSUME BulkInductive, NEW c \in Client, NEW op, Receive(c, op), op # "none"
  PROVE  /\ rep'[c].op = "none" /\ rep' \in [Client -> BulkReply] /\ rep[c].op = op
         /\ \A d \in Client : d # c => rep'[d] = rep[d]
         /\ req[c].op = "none"
         /\ UNCHANGED <<home, heapTop, accessS, req, stores>>
<1>1. NoMsg \in BulkReply
  BY ReplyMade, BulkReplyMade
<1>2. rep' \in [Client -> BulkReply]
  BY <1>1 DEF Receive, BulkInductive, BulkTypes
<1>3. Asked(c)
  BY DEF BulkInductive, Sound
<1> QED
  BY <1>2, <1>3 DEF Receive, BulkInductive, BulkTypes, NoMsg, homeVars, Asked

(* The pages in the list are dropped. *)
LEMMA SyncReturnKeeps ==
  ASSUME BulkInductive, NEW c \in Client, SyncReturn(c), touched' = touched
  PROVE  BulkInductive'
<1>1. /\ rep'[c].op = "none" /\ rep' \in [Client -> BulkReply] /\ rep[c].op = "inval"
      /\ req[c].op = "none"
      /\ \A d \in Client : d # c => rep'[d] = rep[d]
      /\ UNCHANGED <<home, heapTop, accessS, req, stores, copy, log>>
  BY ReceiveFacts DEF SyncReturn
<1>2. /\ valid'[c] = valid[c] \ rep[c].pages
      /\ \A d \in Client : d # c => valid'[d] = valid[d]
  BY DEF SyncReturn, BulkInductive, BulkTypes
<1>3. Sound(c)
  BY DEF BulkInductive
<1>4. /\ Pending(c) = << >> /\ Pending(c)' = << >>
      /\ valid'[c] \ Dropping(c)' = valid[c] \ Dropping(c)
  BY <1>1, <1>2, <1>3 DEF Pending, Dropping, Sound, Asked
<1>5. BulkTypes'
  BY <1>1 DEF BulkInductive, BulkTypes, SyncReturn
<1>6. Asked(c)' /\ (c \in Heavy => Mapped(c)')
  BY <1>1, <1>2, <1>3 DEF Sound, Asked, Mapped
<1>7. PagesOf(Written(Pending(c)))' = {}
  BY <1>4, WrittenEmpty DEF PagesOf
<1>8. c \in Heavy => \A p \in Page : Right(c, p)'
  BY <1>1, <1>3, <1>4 DEF Sound, Right, Current
<1>9. Sound(c)'
  BY <1>3, <1>4, <1>6, <1>7, <1>8 DEF Sound
<1> QED
  BY <1>1, <1>2, <1>5, <1>9, ClientStep

(* Pages are written and mapped. *)
LEMMA MapKeeps ==
  ASSUME BulkInductive, NEW c \in Client, NEW P \in SUBSET Page, NEW f \in [Addr -> Val],
         Receive(c, "page") \/ Receive(c, "chunk"), log' = log, touched' = touched,
         valid' = [valid EXCEPT ![c] = @ \union P],
         copy' = [copy EXCEPT ![c] =
                    [a \in Addr |-> IF a[1] \in P THEN f[a] ELSE @[a]]],
         P \subseteq 1 .. heapTop,
         c \in Heavy => \A p \in P : <<c, p>> \notin touched =>
           /\ p \notin valid[c]
           /\ c \in accessS[p] => \A w \in Word : f[<<p, w>>] = home[<<p, w>>]
  PROVE  BulkInductive'
<1>1. /\ rep'[c].op = "none" /\ rep' \in [Client -> BulkReply] /\ rep[c].op \in {"page", "chunk"}
      /\ req[c].op = "none"
      /\ \A d \in Client : d # c => rep'[d] = rep[d]
      /\ UNCHANGED <<home, heapTop, accessS, req, stores, log>>
  BY ReceiveFacts
<1>2. /\ valid'[c] = valid[c] \union P
      /\ \A a \in Addr : copy'[c][a] = IF a[1] \in P THEN f[a] ELSE copy[c][a]
      /\ \A d \in Client : d # c => valid'[d] = valid[d] /\ copy'[d] = copy[d]
  BY DEF BulkInductive, BulkTypes
<1>3. Sound(c)
  BY DEF BulkInductive
<1>4. Pending(c)' = Pending(c) /\ Dropping(c)' = {} /\ Dropping(c) = {}
  BY <1>1 DEF Pending, Dropping
<1>5. BulkTypes'
  <2>1. [a \in Addr |-> IF a[1] \in P THEN f[a] ELSE copy[c][a]] \in [Addr -> Val]
    BY DEF BulkInductive, BulkTypes
  <2>2. copy' \in [Client -> [Addr -> Val]]
    BY <2>1 DEF BulkInductive, BulkTypes
  <2>3. valid' \in [Client -> SUBSET Page]
    BY DEF BulkInductive, BulkTypes
  <2> QED
    BY <1>1, <2>2, <2>3 DEF BulkInductive, BulkTypes
<1>6. Asked(c)'
  BY <1>1, <1>3 DEF Sound, Asked
<1>7. c \in Heavy => Mapped(c)'
  <2> SUFFICES ASSUME c \in Heavy, NEW p \in valid'[c], p > heapTop PROVE <<c, p>> \in touched
    BY <1>1 DEF Mapped
  <2>1. p \notin P
    BY BoundsAssumption DEF BulkInductive, BulkTypes
  <2> QED
    BY <1>2, <1>3, <2>1 DEF Sound, Mapped
<1>8. c \in Heavy => \A p \in Page : Right(c, p)'
  <2> SUFFICES ASSUME c \in Heavy, NEW p \in valid'[c], NEW w \in Word,
                      c \in accessS[p], <<c, p>> \notin touched
               PROVE  copy'[c][<<p, w>>] = Current(c, <<p, w>>)
    <3>1. \A a : Current(c, a)' = Current(c, a)
      BY <1>1, <1>4 DEF Current
    <3> QED
      BY <1>1, <1>4, <3>1 DEF Right
  <2>1. <<p, w>> \in Addr /\ p \in Page
    BY <1>2 DEF BulkInductive, BulkTypes, Addr
  <2>2. CASE p \in P
    <3>1. <<p, w>> \notin Written(Pending(c))
      <4>1. p \notin valid[c]
        BY <2>2
      <4> QED
        BY <1>3, <4>1 DEF Sound, PagesOf
    <3> QED
      BY <1>2, <2>1, <2>2, <3>1 DEF Current
  <2>3. CASE p \notin P
    BY <1>2, <1>3, <1>4, <2>1, <2>3 DEF Sound, Right
  <2> QED
    BY <2>2, <2>3
<1>9. Sound(c)'
  BY <1>2, <1>3, <1>4, <1>6, <1>7, <1>8 DEF Sound
<1> QED
  BY <1>1, <1>2, <1>5, <1>9, ClientStep

LEMMA FaultReturnKeeps ==
  ASSUME BulkInductive, NEW c \in Client, FaultReturn(c), touched' = touched
  PROVE  BulkInductive'
<1> DEFINE P == {rep[c].page}
           f == [a \in Addr |-> IF a[1] \in P THEN rep[c].data[a[2]] ELSE Zero]
<1>1. rep[c] \in BulkReply /\ rep[c].op = "page" /\ Sound(c)
  BY DEF FaultReturn, Receive, BulkInductive, BulkTypes
<1>2. rep[c].page \in Page /\ rep[c].data \in [Word -> Val]
  BY <1>1, BulkReplyFields
<1>3. f \in [Addr -> Val]
  BY <1>2, BoundsAssumption DEF Addr, Zero, Val
<1>4. P \in SUBSET Page /\ P \subseteq 1 .. heapTop
  BY <1>1, <1>2, BoundsAssumption DEF Sound, Asked, Page, BulkInductive, BulkTypes
<1>5. c \in Heavy => \A p \in P :
        /\ p \notin valid[c]
        /\ c \in accessS[p] /\ <<c, p>> \notin touched => \A w \in Word : f[<<p, w>>] = home[<<p, w>>]
  <2> SUFFICES ASSUME c \in Heavy, NEW p \in P
               PROVE  /\ p \notin valid[c]
                      /\ c \in accessS[p] /\ <<c, p>> \notin touched =>
                           \A w \in Word : f[<<p, w>>] = home[<<p, w>>]
    OBVIOUS
  <2>1. p \in Page /\ p \notin valid[c] /\ Right(c, p)
    BY <1>1, <1>2 DEF Sound, Mapped
  <2>2. \A w \in Word : <<p, w>> \in Addr /\ f[<<p, w>>] = rep[c].data[w]
    BY <2>1 DEF Addr
  <2> QED
    BY <1>1, <2>1, <2>2 DEF Right
<1>6. copy' = [copy EXCEPT ![c] =
                 [a \in Addr |-> IF a[1] \in P THEN f[a] ELSE @[a]]]
  BY DEF FaultReturn
<1>7. Receive(c, "page") /\ log' = log /\ valid' = [valid EXCEPT ![c] = @ \union P]
  BY DEF FaultReturn
<1> HIDE DEF P, f
<1> QED
  BY <1>3, <1>4, <1>5, <1>6, <1>7, MapKeeps

LEMMA MallocReturnKeeps ==
  ASSUME BulkInductive, NEW c \in Client, MallocReturn(c), touched' = touched
  PROVE  BulkInductive'
<1> DEFINE P == rep[c].pages
           f == [a \in Addr |-> Zero]
<1>1. rep[c] \in BulkReply /\ rep[c].op = "chunk" /\ Sound(c)
  BY DEF MallocReturn, Receive, BulkInductive, BulkTypes
<1>2. P \in SUBSET Page
  BY <1>1, BulkReplyFields
<1>3. f \in [Addr -> Val]
  BY BoundsAssumption DEF Zero, Val
<1>4. P \subseteq 1 .. heapTop
  BY <1>1 DEF Sound, Asked
<1>5. c \in Heavy => \A p \in P : <<c, p>> \notin touched =>
        /\ p \notin valid[c]
        /\ c \in accessS[p] => \A w \in Word : f[<<p, w>>] = home[<<p, w>>]
  <2> SUFFICES ASSUME c \in Heavy, NEW p \in P, <<c, p>> \notin touched
               PROVE  /\ p \notin valid[c]
                      /\ c \in accessS[p] => \A w \in Word : f[<<p, w>>] = home[<<p, w>>]
    OBVIOUS
  <2>1. p \in Page /\ p \notin valid[c] /\ Right(c, p)
    BY <1>1, <1>2 DEF Sound, Mapped
  <2>2. \A w \in Word : f[<<p, w>>] = Zero
    BY <2>1 DEF Addr
  <2> QED
    BY <1>1, <2>1, <2>2 DEF Right
<1>6. copy' = [copy EXCEPT ![c] =
                 [a \in Addr |-> IF a[1] \in P THEN f[a] ELSE @[a]]]
  BY DEF MallocReturn
<1>7. Receive(c, "chunk") /\ log' = log /\ valid' = [valid EXCEPT ![c] = @ \union P]
  BY DEF MallocReturn
<1> HIDE DEF P, f
<1> QED
  BY <1>2, <1>3, <1>4, <1>5, <1>6, <1>7, MapKeeps

(* The words asked for go into pages that are touched.                     *)
LEMMA MemcpyFromReturnKeeps ==
  ASSUME BulkInductive, NEW c \in Client, MemcpyFromReturn(c)
  PROVE  BulkInductive'
<1> DEFINE D == DOMAIN rep[c].data
<1>1. /\ rep'[c].op = "none" /\ rep' \in [Client -> BulkReply] /\ rep[c].op = "range"
      /\ req[c].op = "none"
      /\ \A d \in Client : d # c => rep'[d] = rep[d]
      /\ UNCHANGED <<home, heapTop, accessS, req, stores, valid, log, touched>>
  BY ReceiveFacts DEF MemcpyFromReturn
<1>2. /\ \A a \in Addr : a \notin D => copy'[c][a] = copy[c][a]
      /\ \A d \in Client : d # c => copy'[d] = copy[d]
  BY DEF MemcpyFromReturn, BulkInductive, BulkTypes
<1>3. Sound(c)
  BY DEF BulkInductive
<1>4. Pending(c)' = Pending(c) /\ Dropping(c)' = Dropping(c)
  BY <1>1 DEF Pending, Dropping
<1>5. \A a \in D : rep[c].data[a] \in Val
  BY <1>1, BulkReplyFields, WordsFacts DEF BulkInductive, BulkTypes
<1>6. BulkTypes'
  <2>1. [a \in Addr |-> IF a \in D THEN rep[c].data[a] ELSE copy[c][a]] \in [Addr -> Val]
    BY <1>5 DEF BulkInductive, BulkTypes
  <2>2. copy' \in [Client -> [Addr -> Val]]
    BY <2>1 DEF BulkInductive, BulkTypes, MemcpyFromReturn
  <2> QED
    BY <1>1, <2>2 DEF BulkInductive, BulkTypes
<1>7. Asked(c)' /\ (c \in Heavy => Mapped(c)')
  BY <1>1, <1>3 DEF Sound, Asked, Mapped
<1>8. c \in Heavy => \A p \in Page : Right(c, p)'
  <2> SUFFICES ASSUME c \in Heavy, NEW p \in Page, <<c, p>> \notin touched PROVE Right(c, p)'
    BY <1>1 DEF Right
  <2>1. p \notin PagesOf(D)
    BY <1>1, <1>3 DEF Sound, Asked
  <2>2. \A w \in Word : <<p, w>> \notin D /\ <<p, w>> \in Addr
    BY <2>1 DEF PagesOf, Addr
  <2> QED
    BY <1>1, <1>2, <1>3, <1>4, <2>2 DEF Sound, Right, Current
<1>9. Sound(c)'
  BY <1>1, <1>3, <1>4, <1>7, <1>8 DEF Sound
<1> QED
  BY <1>1, <1>2, <1>6, <1>9, ClientStep

(* The last page of a source is asked for: it is touched.                  *)
LEMMA MemcpyFromFaultKeeps ==
  ASSUME BulkInductive, NEW c \in Client, MemcpyFromFault(c)
  PROVE  BulkInductive'
<1>1. PICK p \in Unmapped(c) :
        req' = [req EXCEPT ![c] = [op |-> "lastpage", page |-> p, words |-> rep[c].data]]
  BY DEF MemcpyFromFault
<1> DEFINE m == [op |-> "lastpage", page |-> p, words |-> rep[c].data]
<1>2. /\ rep[c].op = "range" /\ rep[c] \in BulkReply /\ Sound(c)
      /\ UNCHANGED <<home, heapTop, accessS, valid, copy, log, stores, touched>>
      /\ rep' = [rep EXCEPT ![c] = NoMsg]
  BY DEF MemcpyFromFault, homeVars, clientVars, BulkInductive, BulkTypes
<1>3. rep[c].data \in Words
  BY <1>2, BulkReplyFields
<1>4. p \in PagesOf(DOMAIN rep[c].data) /\ p \in Page
  <2>1. p \in PagesOf(DOMAIN rep[c].data)
    BY DEF Unmapped
  <2> QED
    BY <1>3, <2>1, WordsFacts DEF PagesOf, Addr
<1>5. m \in BulkRequest /\ m.op = "lastpage" /\ m.page = p /\ m.words = rep[c].data
  BY <1>3, <1>4, BulkRequestMade
<1>6. req[c].op = "none"
  BY <1>2 DEF Sound, Asked, BulkTypes
<1> HIDE DEF m
<1>7. /\ req'[c] = m /\ rep'[c].op = "none"
      /\ \A d \in Client : d # c => req'[d] = req[d] /\ rep'[d] = rep[d]
  BY <1>1, <1>2 DEF BulkInductive, BulkTypes, NoMsg, m
<1>8. BulkTypes'
  <2>1. NoMsg \in BulkReply
    BY ReplyMade, BulkReplyMade
  <2>2. req' \in [Client -> BulkRequest] /\ rep' \in [Client -> BulkReply]
    BY <1>1, <1>2, <1>5, <2>1 DEF BulkInductive, BulkTypes, m
  <2> QED
    BY <1>2, <2>2 DEF BulkInductive, BulkTypes
<1>9. Pending(c)' = Pending(c) /\ Dropping(c)' = Dropping(c)
  BY <1>2, <1>5, <1>6, <1>7 DEF Pending, Dropping
<1>10. Asked(c)'
  BY <1>2, <1>4, <1>5, <1>7 DEF Sound, Asked
<1>11. c \in Heavy => Mapped(c)'
  BY <1>2, <1>5, <1>7 DEF Sound, Mapped
<1>12. c \in Heavy => \A p_1 \in Page : Right(c, p_1)'
  BY <1>2, <1>7, <1>9 DEF Sound, Right, Current
<1>13. Sound(c)'
  BY <1>2, <1>9, <1>10, <1>11, <1>12 DEF Sound
<1> QED
  BY <1>2, <1>7, <1>8, <1>13, ClientStep

(* The last page, and what is left of the words: all on touched pages.     *)
LEMMA LastPageReturnKeeps ==
  ASSUME BulkInductive, NEW c \in Client, LastPageReturn(c)
  PROVE  BulkInductive'
<1> DEFINE D == DOMAIN rep[c].words
           q == rep[c].page
<1>1. /\ rep'[c].op = "none" /\ rep' \in [Client -> BulkReply] /\ rep[c].op = "lastpage"
      /\ req[c].op = "none"
      /\ \A d \in Client : d # c => rep'[d] = rep[d]
      /\ UNCHANGED <<home, heapTop, accessS, req, stores, log, touched>>
  BY ReceiveFacts DEF LastPageReturn
<1>2. PICK lost \in SUBSET D :
        copy' = [copy EXCEPT ![c] = [a \in Addr |->
                  CASE a \in lost -> Zero
                    [] a \in D \ lost -> rep[c].words[a]
                    [] a \notin D /\ a[1] = q -> rep[c].data[a[2]]
                    [] OTHER -> @[a]]]
  BY DEF LastPageReturn
<1>3. Sound(c) /\ rep[c] \in BulkReply
  BY DEF BulkInductive, BulkTypes
<1>4. /\ q \in Page /\ rep[c].data \in [Word -> Val]
      /\ \A a \in D : rep[c].words[a] \in Val
  BY <1>1, <1>3, BulkReplyFields, WordsFacts
<1>5. {c} \X ({q} \union PagesOf(D)) \subseteq touched
  BY <1>1, <1>3 DEF Sound, Asked
<1>6. /\ valid'[c] = valid[c] \union {q}
      /\ \A d \in Client : d # c => valid'[d] = valid[d] /\ copy'[d] = copy[d]
      /\ valid' \in [Client -> SUBSET Page]
  BY <1>2, <1>4 DEF LastPageReturn, BulkInductive, BulkTypes
<1>7. \A a \in Addr : a \notin D /\ a[1] # q => copy'[c][a] = copy[c][a]
  BY <1>2 DEF BulkInductive, BulkTypes
<1>8. copy' \in [Client -> [Addr -> Val]]
  <2> DEFINE g == [a \in Addr |->
                  CASE a \in lost -> Zero
                    [] a \in D \ lost -> rep[c].words[a]
                    [] a \notin D /\ a[1] = q -> rep[c].data[a[2]]
                    [] OTHER -> copy[c][a]]
  <2>1. Zero \in Val
    BY BoundsAssumption DEF Zero, Val
  <2>2. ASSUME NEW a \in Addr PROVE g[a] \in Val
    <3>1. a[2] \in Word /\ copy[c][a] \in Val
      BY DEF Addr, BulkInductive, BulkTypes
    <3> QED
      BY <1>4, <2>1, <3>1
  <2>3. g \in [Addr -> Val]
    BY <2>2
  <2>4. copy' = [copy EXCEPT ![c] = g]
    BY <1>2 DEF BulkInductive, BulkTypes
  <2> HIDE DEF g
  <2> QED
    BY <2>3, <2>4 DEF BulkInductive, BulkTypes
<1>9. BulkTypes'
  BY <1>1, <1>6, <1>8 DEF BulkInductive, BulkTypes
<1>10. Pending(c)' = Pending(c) /\ Dropping(c)' = Dropping(c)
  BY <1>1 DEF Pending, Dropping
<1> HIDE DEF D, q
<1>11. Asked(c)'
  BY <1>1, <1>3 DEF Sound, Asked
<1>12. c \in Heavy => Mapped(c)'
  BY <1>1, <1>3, <1>5, <1>6 DEF Sound, Mapped
<1>13. ASSUME c \in Heavy, NEW p \in Page PROVE Right(c, p)'
  <2> SUFFICES ASSUME <<c, p>> \notin touched PROVE Right(c, p)'
    BY <1>1 DEF Right
  <2>1. p \notin PagesOf(D) /\ p # q
    BY <1>5
  <2>2. \A w \in Word : <<p, w>> \in Addr /\ copy'[c][<<p, w>>] = copy[c][<<p, w>>]
    BY <1>7, <2>1 DEF PagesOf, Addr
  <2> QED
    BY <1>1, <1>3, <1>6, <1>10, <1>13, <2>1, <2>2 DEF Sound, Right, Current
<1>14. Sound(c)'
  BY <1>1, <1>3, <1>6, <1>10, <1>11, <1>12, <1>13 DEF Sound
<1> QED
  BY <1>1, <1>6, <1>9, <1>14, ClientStep

(* A word, or an acknowledgement. *)
LEMMA WordReturnKeeps ==
  ASSUME BulkInductive, NEW c \in Client, LoadSCReturn(c) \/ StoreSCReturn(c), touched' = touched
  PROVE  BulkInductive'
<1>1. /\ rep'[c].op = "none" /\ rep' \in [Client -> BulkReply] /\ rep[c].op \in {"word", "ack"}
      /\ req[c].op = "none"
      /\ \A d \in Client : d # c => rep'[d] = rep[d]
      /\ UNCHANGED <<home, heapTop, accessS, req, stores, valid, copy, log>>
  BY ReceiveFacts DEF LoadSCReturn, StoreSCReturn, clientVars
<1>2. Sound(c)
  BY DEF BulkInductive
<1>3. Pending(c)' = Pending(c) /\ Dropping(c)' = Dropping(c)
  BY <1>1 DEF Pending, Dropping
<1>4. BulkTypes'
  BY <1>1 DEF BulkInductive, BulkTypes
<1>5. Asked(c)' /\ (c \in Heavy => Mapped(c)')
  BY <1>1, <1>2 DEF Sound, Asked, Mapped
<1>6. c \in Heavy => \A p \in Page : Right(c, p)'
  BY <1>1, <1>2, <1>3 DEF Sound, Right, Current
<1>7. Sound(c)'
  BY <1>1, <1>2, <1>3, <1>5, <1>6 DEF Sound
<1> QED
  BY <1>1, <1>4, <1>7, ClientStep

(* A step that changes nothing here. *)
LEMMA NothingKeeps ==
  ASSUME BulkInductive, UNCHANGED <<homeVars, clientVars, req, rep, stores, touched>>
  PROVE  BulkInductive'
<1>1. BulkTypes' /\ Untouched'
  BY DEF BulkInductive, BulkTypes, Untouched, homeVars, clientVars
<1>2. \A d \in Client : Pending(d)' = Pending(d) /\ Dropping(d)' = Dropping(d)
  BY DEF Pending, Dropping, clientVars
<1>3. \A d \in Client : Asked(d)' /\ (d \in Heavy => Mapped(d)')
  BY DEF BulkInductive, Sound, Asked, Mapped, homeVars, clientVars
<1>4. \A d \in Heavy : \A p \in Page : Right(d, p)'
  <2> SUFFICES ASSUME NEW d \in Heavy, NEW p \in Page PROVE Right(d, p)'
    OBVIOUS
  <2>1. d \in Client /\ Right(d, p)
    BY DEF BulkInductive, Sound, Client
  <2>2. \A a : Current(d, a)' = Current(d, a)
    BY <1>2, <2>1 DEF Current, homeVars
  <2> QED
    BY <1>2, <2>1, <2>2 DEF Right, homeVars, clientVars
<1> QED
  BY <1>1, <1>2, <1>3, <1>4 DEF BulkInductive, Sound, clientVars

-----------------------------------------------------------------------------
(* The home. *)

LEMMA AnswerFacts ==
  ASSUME BulkInductive, NEW c \in Client, NEW m, Answer(c, m), req[c].op # "none"
  PROVE  /\ req'[c].op = "none" /\ rep'[c] = m /\ rep[c].op = "none"
         /\ UNCHANGED <<valid, copy, log, stores>>
         /\ Sound(c) /\ req[c] \in BulkRequest
         /\ Dropping(c) = {} /\ Pending(c)' = log[c]
         /\ req[c].op # "sync" => Pending(c) = log[c]
         /\ home \in [Addr -> Val] /\ heapTop \in 0 .. NumPages
         /\ accessS \in [Page -> SUBSET Client] /\ log[c] \in Seq(BulkEntry)
<1>1. Sound(c) /\ req[c] \in BulkRequest
  BY DEF BulkInductive, BulkTypes
<1>2. req'[c].op = "none" /\ rep'[c] = m
  BY DEF Answer, BulkInductive, BulkTypes, NoMsg
<1>3. rep[c].op = "none"
  BY <1>1 DEF Sound, Asked
<1> QED
  BY <1>1, <1>2, <1>3 DEF Answer, clientVars, Pending, Dropping, BulkInductive, BulkTypes

LEMMA HandleFaultKeeps ==
  ASSUME BulkInductive, NEW c \in Client, HandleFault(c), touched' = touched
  PROVE  BulkInductive'
<1> DEFINE q == req[c].page
           f == [w \in Word |-> home[<<q, w>>]]
           m == [op |-> "page", page |-> q, data |-> f]
<1>1. /\ req[c].op = "fault" /\ q <= heapTop /\ Answer(c, m) /\ home' = home /\ heapTop' = heapTop
      /\ accessS' = [accessS EXCEPT ![q] = @ \union {c}]
  BY DEF HandleFault
<1>2. /\ req'[c].op = "none" /\ rep'[c] = m /\ rep[c].op = "none"
      /\ UNCHANGED <<valid, copy, log, stores>>
      /\ Sound(c) /\ req[c] \in BulkRequest
      /\ Dropping(c) = {} /\ Pending(c)' = log[c] /\ Pending(c) = log[c]
      /\ home \in [Addr -> Val] /\ heapTop \in 0 .. NumPages
      /\ accessS \in [Page -> SUBSET Client]
  BY <1>1, AnswerFacts
<1>3. q \in Page /\ f \in [Word -> Val] /\ (c \in Heavy => q \notin valid[c])
  BY <1>1, <1>2, BulkRequestFields DEF Sound, Mapped, Addr
<1>4. m \in BulkReply /\ m.op = "page" /\ m.page = q /\ m.data = f
  <2>1. m \in Reply
    BY <1>3, ReplyMade
  <2> QED
    BY <2>1, BulkReplyMade
<1>5. accessS' \in [Page -> SUBSET Client] /\ heapTop <= heapTop'
  <2>1. accessS' \in [Page -> SUBSET Client]
    BY <1>1, <1>2
  <2> QED
    BY <1>1, <1>2, <2>1, BoundsAssumption
<1>6. \A p \in Page : accessS'[p] = IF p = q THEN accessS[p] \union {c} ELSE accessS[p]
  BY <1>1, <1>2
<1>7. Untouched'
  BY <1>1 DEF BulkInductive, Untouched
<1> HIDE DEF m, f, q
<1>8. Asked(c)'
  BY <1>1, <1>2, <1>4 DEF Sound, Asked
<1>9. c \in Heavy => Mapped(c)'
  BY <1>1, <1>2, <1>3, <1>4 DEF Sound, Mapped
<1>10. c \in Heavy => \A p \in Page : Right(c, p)'
  <2> SUFFICES ASSUME c \in Heavy, NEW p \in Page, <<c, p>> \notin touched, NEW w \in Word,
                      c \in accessS'[p]
               PROVE  /\ p \in valid[c] => copy[c][<<p, w>>] = Current(c, <<p, w>>)
                      /\ p = q => f[w] = home[<<p, w>>]
    <3>1. \A a : Current(c, a)' = Current(c, a)
      BY <1>1, <1>2 DEF Current
    <3> QED
      BY <1>1, <1>2, <1>4, <3>1 DEF Right
  <2>1. p \in valid[c] => c \in accessS[p]
    BY <1>3, <1>6
  <2> QED
    BY <1>2, <2>1 DEF Sound, Right, f
<1>11. Sound(c)'
  BY <1>2, <1>8, <1>9, <1>10 DEF Sound
<1>12. \A d \in Heavy : \A p \in Page : d # c /\ d \in accessS'[p] => d \in accessS[p]
  BY <1>6
<1> QED
  BY <1>1, <1>2, <1>4, <1>5, <1>7, <1>11, <1>12, HomeStep

LEMMA HandleLoadKeeps ==
  ASSUME BulkInductive, NEW c \in Client, HandleLoad(c), touched' = touched
  PROVE  BulkInductive'
<1> DEFINE m == [op |-> "word", addr |-> req[c].addr, val |-> home[req[c].addr]]
<1>1. /\ req[c].op = "load" /\ Answer(c, m) /\ home' = home /\ heapTop' = heapTop
      /\ accessS' = accessS
  BY DEF HandleLoad
<1>2. /\ req'[c].op = "none" /\ rep'[c] = m /\ rep[c].op = "none"
      /\ UNCHANGED <<valid, copy, log, stores>>
      /\ Sound(c) /\ req[c] \in BulkRequest
      /\ Dropping(c) = {} /\ Pending(c)' = log[c] /\ Pending(c) = log[c]
      /\ home \in [Addr -> Val] /\ heapTop \in 0 .. NumPages
      /\ accessS \in [Page -> SUBSET Client]
  BY <1>1, AnswerFacts
<1>3. req[c].addr \in Addr /\ home[req[c].addr] \in Val
  BY <1>1, <1>2, BulkRequestFields
<1>4. m \in BulkReply /\ m.op = "word"
  BY <1>3, ReplyMade, BulkReplyMade
<1>5. Untouched' /\ heapTop <= heapTop'
  BY <1>1, <1>2, BoundsAssumption DEF BulkInductive, Untouched
<1> HIDE DEF m
<1>6. Asked(c)'
  BY <1>1, <1>2, <1>4 DEF Sound, Asked
<1>7. c \in Heavy => Mapped(c)'
  BY <1>1, <1>2, <1>4 DEF Sound, Mapped
<1>8. c \in Heavy => \A p \in Page : Right(c, p)'
  <2>1. \A a : Current(c, a)' = Current(c, a)
    BY <1>1, <1>2 DEF Current
  <2>2. Dropping(c)' = {}
    BY <1>2, <1>4 DEF Dropping
  <2> QED
    BY <1>1, <1>2, <1>4, <2>1, <2>2 DEF Sound, Right
<1>9. Sound(c)'
  BY <1>2, <1>6, <1>7, <1>8 DEF Sound
<1> QED
  BY <1>1, <1>2, <1>4, <1>5, <1>9, HomeStep

(* The new pages are zero, and only c is told that it has them.            *)
LEMMA HandleMallocKeeps ==
  ASSUME BulkInductive, NEW c \in Client, HandleMalloc(c), touched' = touched
  PROVE  BulkInductive'
<1> DEFINE n == req[c].size
           P == heapTop + 1 .. heapTop + n
           m == [op |-> "chunk", pages |-> P]
<1>1. /\ req[c].op = "malloc" /\ Answer(c, m) /\ home' = home
      /\ heapTop + n <= NumPages /\ heapTop' = heapTop + n
      /\ accessS' = [p \in Page |-> IF p \in P THEN {c} ELSE accessS[p]]
  BY DEF HandleMalloc
<1>2. /\ req'[c].op = "none" /\ rep'[c] = m /\ rep[c].op = "none"
      /\ UNCHANGED <<valid, copy, log, stores>>
      /\ Sound(c) /\ req[c] \in BulkRequest
      /\ Dropping(c) = {} /\ Pending(c)' = log[c] /\ Pending(c) = log[c]
      /\ home \in [Addr -> Val] /\ heapTop \in 0 .. NumPages
      /\ accessS \in [Page -> SUBSET Client]
  BY <1>1, AnswerFacts
<1>3. n \in Nat /\ n > 0
  <2>1. n \in AllocSizes
    BY <1>1, <1>2, BulkRequestFields
  <2>2. \A k \in AllocSizes : k \in Nat /\ k > 0
    BY AllocAssumption
  <2> QED
    BY <2>1, <2>2
<1>4. /\ P \subseteq Page /\ P \subseteq 1 .. heapTop' /\ heapTop' \in 0 .. NumPages
      /\ heapTop <= heapTop' /\ \A p \in P : p \in Int /\ p > heapTop
  BY <1>1, <1>2, <1>3, BoundsAssumption DEF Page
<1>5. m \in BulkReply /\ m.op = "chunk" /\ m.pages = P
  BY <1>4, ReplyMade, BulkReplyMade
<1>6. accessS' \in [Page -> SUBSET Client]
  BY <1>1, <1>2
<1>7. \A p \in Page : accessS'[p] = IF p \in P THEN {c} ELSE accessS[p]
  BY <1>1
<1>8. Untouched'
  <2> SUFFICES ASSUME NEW a \in Addr, a[1] > heapTop' PROVE home[a] = Zero
    BY <1>1 DEF Untouched
  <2>1. a[1] \in Int /\ a[1] > heapTop
    BY <1>1, <1>2, <1>3, BoundsAssumption DEF Addr, Page
  <2> QED
    BY <2>1 DEF BulkInductive, Untouched
<1>9. ASSUME NEW p \in P, NEW w \in Word PROVE home[<<p, w>>] = Zero
  <2>1. <<p, w>> \in Addr /\ p > heapTop
    BY <1>4 DEF Addr
  <2> QED
    BY <2>1 DEF BulkInductive, Untouched
<1> HIDE DEF m, P, n
<1>10. Asked(c)'
  BY <1>1, <1>2, <1>4, <1>5 DEF Sound, Asked
<1>11. c \in Heavy => Mapped(c)'
  <2> SUFFICES ASSUME c \in Heavy PROVE Mapped(c)'
    OBVIOUS
  <2>1. \A p \in valid[c] : p \in Int /\ (p > heapTop => <<c, p>> \in touched)
    BY <1>2, BoundsAssumption DEF Sound, Mapped, BulkInductive, BulkTypes, Page
  <2>2. \A p \in valid[c] : p > heapTop' => <<c, p>> \in touched
    BY <1>2, <1>4, <2>1, BoundsAssumption
  <2> QED
    BY <1>2, <1>4, <1>5, <2>1, <2>2 DEF Mapped
<1>12. c \in Heavy => \A p \in Page : Right(c, p)'
  <2> SUFFICES ASSUME c \in Heavy, NEW p \in Page, <<c, p>> \notin touched, NEW w \in Word,
                      c \in accessS'[p]
               PROVE  /\ p \in valid[c] => copy[c][<<p, w>>] = Current(c, <<p, w>>)
                      /\ p \in P => home[<<p, w>>] = Zero
    <3>1. \A a : Current(c, a)' = Current(c, a)
      BY <1>1, <1>2 DEF Current
    <3> QED
      BY <1>1, <1>2, <1>5, <3>1 DEF Right
  <2>1. p \in valid[c] => p \notin P
    BY <1>2, <1>4 DEF Sound, Mapped
  <2> QED
    BY <1>2, <1>7, <1>9, <2>1 DEF Sound, Right
<1>13. Sound(c)'
  BY <1>2, <1>10, <1>11, <1>12 DEF Sound
<1>14. \A d \in Heavy : \A p \in Page : d # c /\ d \in accessS'[p] => d \in accessS[p]
  BY <1>7
<1> QED
  BY <1>1, <1>2, <1>4, <1>5, <1>6, <1>8, <1>13, <1>14, HomeStep

(* The log goes to memory, and c becomes the only holder of its pages.     *)
LEMMA HandleSyncKeeps ==
  ASSUME BulkAligned, BulkInductive, NEW c \in Client, HandleSync(c), touched' = touched
  PROVE  BulkInductive'
<1> DEFINE l == req[c].log
           marked == MarkedBy(l)
           drop == NotHeldBy(c)
           m == [op |-> "inval", pages |-> drop]
<1>1. /\ req[c].op = "sync" /\ Answer(c, m) /\ home' = Replay(home, l) /\ heapTop' = heapTop
      /\ marked \subseteq 1 .. heapTop
      /\ accessS' = [p \in Page |-> IF p \in marked THEN {c} ELSE accessS[p]]
  BY DEF HandleSync
<1>2. /\ req'[c].op = "none" /\ rep'[c] = m /\ rep[c].op = "none"
      /\ UNCHANGED <<valid, copy, log, stores>>
      /\ Sound(c) /\ req[c] \in BulkRequest
      /\ Dropping(c) = {} /\ Pending(c)' = log[c]
      /\ home \in [Addr -> Val] /\ heapTop \in 0 .. NumPages
      /\ accessS \in [Page -> SUBSET Client]
  BY <1>1, AnswerFacts
<1>3. l \in Seq(BulkEntry) /\ Pending(c) = l /\ log[c] = << >> /\ Settled(l)
  <2>1. l \in Seq(BulkEntry)
    BY <1>1, <1>2, BulkRequestFields
  <2>2. Pending(c) = l
    BY <1>1 DEF Pending
  <2> QED
    BY <1>1, <1>2, <2>1, <2>2 DEF Sound, Asked
<1>4. /\ home' \in [Addr -> Val]
      /\ \A a \in Addr : home'[a] = IF a \in Written(l) THEN LastOf(l, a) ELSE home[a]
  BY <1>1, <1>2, <1>3, BulkReplay
<1>5. PagesOf(Written(l)) \subseteq marked
  BY <1>3, BookedIsWritten
<1>6. \A p \in Page : \A w \in Word : p \notin marked =>
        <<p, w>> \in Addr /\ <<p, w>> \notin Written(l) /\ home'[<<p, w>>] = home[<<p, w>>]
  BY <1>4, <1>5 DEF Addr, PagesOf
<1>7. m \in BulkReply /\ m.op = "inval" /\ m.pages = drop
  <2>1. drop \subseteq Page
    BY <1>2, BoundsAssumption DEF NotHeldBy, Page
  <2>2. m \in Reply
    BY <2>1, ReplyMade
  <2> QED
    BY <2>2, BulkReplyMade
<1>8. drop = {p \in 1 .. heapTop : c \notin accessS[p]}
  BY DEF NotHeldBy
<1> HIDE DEF m, drop, marked, l
<1>9. /\ accessS' \in [Page -> SUBSET Client] /\ heapTop <= heapTop'
      /\ \A p \in Page : accessS'[p] = IF p \in marked THEN {c} ELSE accessS[p]
  <2>1. accessS' \in [Page -> SUBSET Client]
    BY <1>1, <1>2
  <2> QED
    BY <1>1, <1>2, <2>1, BoundsAssumption
<1>10. Untouched'
  <2> SUFFICES ASSUME NEW a \in Addr, a[1] > heapTop PROVE home'[a] = Zero
    BY <1>1 DEF Untouched
  <2>1. a[1] \notin 1 .. heapTop
    BY <1>2, BoundsAssumption DEF Addr, Page
  <2>2. a \notin Written(l)
    BY <1>1, <1>5, <2>1 DEF PagesOf
  <2> QED
    BY <1>4, <2>2 DEF BulkInductive, Untouched
<1>11. Asked(c)'
  BY <1>1, <1>2, <1>3, <1>7 DEF Sound, Asked
<1>12. Written(<< >>) = {} /\ Settled(<< >>) /\ PagesOf(Written(<< >>)) = {}
  BY WrittenEmpty DEF Settled, PagesOf
<1>13. c \in Heavy => Mapped(c)'
  BY <1>1, <1>2, <1>7 DEF Sound, Mapped
<1>14. c \in Heavy => \A p \in Page : Right(c, p)'
  <2> SUFFICES ASSUME c \in Heavy, NEW p \in valid[c], p \notin drop, <<c, p>> \notin touched, NEW w \in Word
               PROVE  copy[c][<<p, w>>] = home'[<<p, w>>]
    <3>1. \A a : Current(c, a)' = home'[a]
      BY <1>2, <1>3, <1>12 DEF Current
    <3>2. Dropping(c)' = drop
      BY <1>2, <1>7 DEF Dropping
    <3> QED
      BY <1>2, <1>7, <3>1, <3>2 DEF Right
  <2>1. p \in Page /\ p <= heapTop
    BY <1>2, BoundsAssumption DEF Sound, Mapped, BulkInductive, BulkTypes, Page
  <2>2. c \in accessS[p]
    BY <1>2, <1>8, <2>1, BoundsAssumption DEF Page
  <2>3. copy[c][<<p, w>>] = Current(c, <<p, w>>)
    BY <1>2, <2>1, <2>2 DEF Sound, Right
  <2>4. <<p, w>> \in Addr
    BY <2>1 DEF Addr
  <2> QED
    BY <1>3, <1>4, <2>3, <2>4 DEF Current
<1>15. Sound(c)'
  BY <1>2, <1>3, <1>11, <1>12, <1>13, <1>14 DEF Sound
<1>16. \A d \in Heavy : \A p \in Page : d # c /\ d \in accessS'[p] =>
         d \in accessS[p] /\ \A w \in Word : home'[<<p, w>>] = home[<<p, w>>]
  BY <1>6, <1>9
<1>17. heapTop' \in 0 .. NumPages
  BY <1>1, <1>2
<1> QED
  BY <1>1, <1>4, <1>7, <1>9, <1>10, <1>15, <1>16, <1>17, HomeStep

(* A handler that changes the words E and who holds their pages, where no  *)
(* heavy client, unless touched, is left among the holders.                *)
LEMMA WordsKeep ==
  ASSUME BulkInductive, NEW c \in Client, req[c].op \notin {"none", "sync"}, touched' = touched,
         NEW m \in BulkReply, Answer(c, m), m.op \in {"ack", "range", "lastpage"},
         m.op = "range" => {c} \X PagesOf(DOMAIN m.data) \subseteq touched,
         m.op = "lastpage" => {c} \X ({m.page} \union PagesOf(DOMAIN m.words)) \subseteq touched,
         NEW E \in SUBSET Addr, home' \in [Addr -> Val], heapTop' = heapTop,
         PagesOf(E) \subseteq 1 .. heapTop,
         \A a \in Addr : a \notin E => home'[a] = home[a],
         accessS' \in [Page -> SUBSET Client],
         \A d \in Heavy : \A p \in Page :
           <<d, p>> \notin touched /\ d \in accessS'[p] => d \in accessS[p] /\ p \notin PagesOf(E)
  PROVE  BulkInductive'
<1>1. /\ req'[c].op = "none" /\ rep'[c] = m /\ rep[c].op = "none"
      /\ UNCHANGED <<valid, copy, log, stores>>
      /\ Sound(c)
      /\ Dropping(c) = {} /\ Pending(c)' = log[c] /\ Pending(c) = log[c]
      /\ home \in [Addr -> Val] /\ heapTop \in 0 .. NumPages
  BY AnswerFacts
<1>2. \A p \in Page : \A w \in Word :
        p \notin PagesOf(E) => <<p, w>> \in Addr /\ home'[<<p, w>>] = home[<<p, w>>]
  BY DEF Addr, PagesOf
<1>3. Untouched'
  <2> SUFFICES ASSUME NEW a \in Addr, a[1] > heapTop PROVE home'[a] = Zero
    BY DEF Untouched
  <2>1. a[1] \notin 1 .. heapTop
    BY <1>1, BoundsAssumption DEF Addr, Page
  <2>2. a \notin E
    BY <2>1 DEF PagesOf
  <2> QED
    BY <2>2 DEF BulkInductive, Untouched
<1>4. Asked(c)'
  BY <1>1 DEF Sound, Asked
<1>5. c \in Heavy => Mapped(c)'
  BY <1>1 DEF Sound, Mapped
<1>6. c \in Heavy => \A p \in Page : Right(c, p)'
  <2> SUFFICES ASSUME c \in Heavy, NEW p \in valid[c], p \in Page, c \in accessS'[p],
                      <<c, p>> \notin touched, NEW w \in Word
               PROVE  copy[c][<<p, w>>] = Current(c, <<p, w>>)'
    BY <1>1 DEF Right
  <2>1. c \in accessS[p] /\ p \notin PagesOf(E)
    OBVIOUS
  <2>2. home'[<<p, w>>] = home[<<p, w>>]
    BY <1>2, <2>1
  <2>3. Current(c, <<p, w>>)' = Current(c, <<p, w>>)
    BY <1>1, <2>2 DEF Current
  <2> QED
    BY <1>1, <2>1, <2>3 DEF Sound, Right
<1>7. Sound(c)'
  BY <1>1, <1>4, <1>5, <1>6 DEF Sound
<1>8. \A d \in Heavy : \A p \in Page :
        d # c /\ d \in accessS'[p] /\ <<d, p>> \notin touched =>
          d \in accessS[p] /\ \A w \in Word : home'[<<p, w>>] = home[<<p, w>>]
  BY <1>2
<1>9. heapTop' \in 0 .. NumPages /\ heapTop <= heapTop'
  BY <1>1, BoundsAssumption
<1> QED
  BY <1>3, <1>7, <1>8, <1>9, HomeStep

(* A store of a light client, on one page. *)
LEMMA HandleStoreKeeps ==
  ASSUME BulkAligned, BulkInductive, NEW c \in Client, HandleStore(c), touched' = touched
  PROVE  BulkInductive'
<1> DEFINE E == req[c].at
           q == FirstPage(E)
           m == [op |-> "ack"]
<1>1. /\ req[c].op = "store" /\ Answer(c, m) /\ heapTop' = heapTop
      /\ home' = [a \in Addr |-> IF a \in E THEN req[c].val ELSE home[a]]
      /\ accessS' = [accessS EXCEPT ![q] = {c}]
  BY DEF HandleStore
<1>2. /\ Sound(c) /\ req[c] \in BulkRequest
      /\ home \in [Addr -> Val] /\ accessS \in [Page -> SUBSET Client]
  BY DEF BulkInductive, BulkTypes
<1>3. E \in LightExtent /\ req[c].val \in Val /\ E \in SUBSET Addr
  BY <1>1, <1>2, BulkRequestFields, ExtentAssumption
<1>4. c \in Light /\ c \notin Heavy /\ PagesOf(E) \subseteq 1 .. heapTop
  BY <1>1, <1>2, ClientsAssumption DEF Sound, Asked
<1>5. PagesOf(E) = {q} /\ q \in Page
  <2>1. PICK p \in Page : PagesOf(E) = {p}
    BY <1>3 DEF BulkAligned, LightAligned
  <2>2. p = q
    BY <2>1 DEF FirstPage, Page
  <2> QED
    BY <2>1, <2>2
<1>6. m \in BulkReply /\ m.op = "ack"
  BY ReplyMade, BulkReplyMade
<1>7. /\ home' \in [Addr -> Val]
      /\ \A a \in Addr : a \notin E => home'[a] = home[a]
  BY <1>1, <1>2, <1>3
<1> HIDE DEF m, q, E
<1>8. /\ accessS' \in [Page -> SUBSET Client]
      /\ \A p \in Page : accessS'[p] = IF p = q THEN {c} ELSE accessS[p]
  BY <1>1, <1>2, <1>5
<1>9. \A d \in Heavy : \A p \in Page : d \in accessS'[p] => d \in accessS[p] /\ p \notin PagesOf(E)
  BY <1>4, <1>5, <1>8
<1> QED
  BY <1>1, <1>3, <1>4, <1>6, <1>7, <1>8, <1>9, WordsKeep

(* A memset of a light client: the directory is left as it is, all copies  *)
(* of these pages are touched.                                             *)
LEMMA HandleMemsetKeeps ==
  ASSUME BulkInductive, NEW c \in Client, HandleMemset(c)
  PROVE  BulkInductive'
<1> DEFINE E == req[c].at
           m == [op |-> "ack"]
<1>1. /\ req[c].op = "memset" /\ Answer(c, m) /\ heapTop' = heapTop /\ touched' = touched
      /\ home' = [a \in Addr |-> IF a \in E THEN req[c].val ELSE home[a]]
      /\ accessS' = accessS
  BY DEF HandleMemset
<1>2. /\ Sound(c) /\ req[c] \in BulkRequest
      /\ home \in [Addr -> Val] /\ accessS \in [Page -> SUBSET Client]
  BY DEF BulkInductive, BulkTypes
<1>3. E \in BulkExtent /\ req[c].val \in Val /\ E \in SUBSET Addr
  BY <1>1, <1>2, BulkRequestFields, BulkAssumption
<1>4. PagesOf(E) \subseteq 1 .. heapTop /\ Heavy \X PagesOf(E) \subseteq touched
  BY <1>1, <1>2 DEF Sound, Asked
<1>5. m \in BulkReply /\ m.op = "ack"
  BY ReplyMade, BulkReplyMade
<1>6. /\ home' \in [Addr -> Val]
      /\ \A a \in Addr : a \notin E => home'[a] = home[a]
  BY <1>1, <1>2, <1>3
<1> HIDE DEF m, E
<1>7. \A d \in Heavy : \A p \in Page :
        <<d, p>> \notin touched /\ d \in accessS'[p] => d \in accessS[p] /\ p \notin PagesOf(E)
  BY <1>1, <1>4
<1> QED
  BY <1>1, <1>2, <1>3, <1>4, <1>5, <1>6, <1>7, WordsKeep

(* A memcpy out of shared memory: the home lists c for pages c may have    *)
(* only words of, but the page a source starts on is touched, and so are   *)
(* those its length fills.                                                 *)
LEMMA HandleMemcpyFromKeeps ==
  ASSUME BulkInductive, NEW c \in Client, HandleMemcpyFrom(c)
  PROVE  BulkInductive'
<1> DEFINE E == req[c].at
           f == [a \in E |-> home[a]]
           m == [op |-> "range", data |-> f]
<1>1. /\ req[c].op = "memcpy" /\ Answer(c, m) /\ heapTop' = heapTop /\ touched' = touched
      /\ home' = home
      /\ accessS' = [p \in Page |-> IF p \in Marked(E) THEN accessS[p] \union {c} ELSE accessS[p]]
  BY DEF HandleMemcpyFrom
<1>2. /\ Sound(c) /\ req[c] \in BulkRequest
      /\ home \in [Addr -> Val] /\ accessS \in [Page -> SUBSET Client]
  BY DEF BulkInductive, BulkTypes
<1>3. E \in SourceExtent /\ E \in SUBSET Addr
  BY <1>1, <1>2, BulkRequestFields, BulkAssumption
<1>4. {c} \X (Marked(E) \union PagesOf(E)) \subseteq touched
  BY <1>1, <1>2 DEF Sound, Asked
<1>5. f \in [E -> Val] /\ DOMAIN f = E
  BY <1>2, <1>3
<1>6. m \in BulkReply /\ m.op = "range" /\ m.data = f
  BY <1>3, <1>5, BulkReplyMade
<1>7. accessS' \in [Page -> SUBSET Client]
  BY <1>1, <1>2
<1> HIDE DEF m, f, E
<1>8. PagesOf({}) = {}
  BY DEF PagesOf
<1>9. \A d \in Heavy : \A p \in Page :
        <<d, p>> \notin touched /\ d \in accessS'[p] => d \in accessS[p]
  BY <1>1, <1>4
<1> QED
  BY <1>1, <1>2, <1>4, <1>5, <1>6, <1>7, <1>8, <1>9, WordsKeep

(* The fetch of the last page lists c for it; it is touched.               *)
LEMMA HandleLastPageKeeps ==
  ASSUME BulkInductive, NEW c \in Client, HandleLastPage(c)
  PROVE  BulkInductive'
<1> DEFINE p == req[c].page
           g == [w \in Word |-> home[<<p, w>>]]
           m == [op |-> "lastpage", page |-> p, words |-> req[c].words, data |-> g]
<1>1. /\ req[c].op = "lastpage" /\ Answer(c, m) /\ heapTop' = heapTop /\ touched' = touched
      /\ home' = home
      /\ accessS' = [accessS EXCEPT ![p] = @ \union {c}]
  BY DEF HandleLastPage
<1>2. /\ Sound(c) /\ req[c] \in BulkRequest
      /\ home \in [Addr -> Val] /\ accessS \in [Page -> SUBSET Client]
  BY DEF BulkInductive, BulkTypes
<1>3. p \in Page /\ req[c].words \in Words
  BY <1>1, <1>2, BulkRequestFields
<1>4. {c} \X ({p} \union PagesOf(DOMAIN req[c].words)) \subseteq touched
  BY <1>1, <1>2 DEF Sound, Asked
<1>5. g \in [Word -> Val]
  BY <1>2, <1>3 DEF Addr
<1>6. m \in BulkReply /\ m.op = "lastpage" /\ m.page = p /\ m.words = req[c].words
  BY <1>3, <1>5, BulkReplyMade
<1>7. accessS' \in [Page -> SUBSET Client]
  BY <1>1, <1>2
<1> HIDE DEF m, g, p
<1>8. PagesOf({}) = {}
  BY DEF PagesOf
<1>9. \A d \in Heavy : \A x \in Page :
        <<d, x>> \notin touched /\ d \in accessS'[x] => d \in accessS[x]
  BY <1>1, <1>2, <1>3, <1>4
<1> QED
  BY <1>1, <1>2, <1>4, <1>6, <1>7, <1>8, <1>9, WordsKeep

-----------------------------------------------------------------------------
(* The theorems. *)

LEMMA InitBulkInductive == BulkInit => BulkInductive
<1> SUFFICES ASSUME BulkInit PROVE BulkInductive
  OBVIOUS
<1>1. /\ home = [a \in Addr |-> Zero] /\ heapTop = 0 /\ accessS = [p \in Page |-> {}]
      /\ valid = [c \in Client |-> {}] /\ copy = [c \in Client |-> [a \in Addr |-> Zero]]
      /\ log = [c \in Client |-> << >>] /\ req = [c \in Client |-> NoMsg]
      /\ rep = [c \in Client |-> NoMsg] /\ stores = 0
  BY DEF BulkInit, Init
<1>2. Zero \in Val /\ 0 \in Val /\ 0 \in 0 .. NumPages
  BY BoundsAssumption DEF Zero, Val
<1>3. NoMsg \in BulkRequest /\ NoMsg \in BulkReply /\ << >> \in Seq(BulkEntry)
  BY BulkRequestMade, ReplyMade, BulkReplyMade
<1>4. BulkTypes
  BY <1>1, <1>2, <1>3 DEF BulkTypes
<1>5. Untouched
  BY <1>1 DEF Untouched
<1>6. ASSUME NEW c \in Client PROVE Sound(c)
  <2>1. /\ req[c].op = "none" /\ rep[c].op = "none" /\ valid[c] = {} /\ log[c] = << >>
        /\ \A p \in Page : accessS[p] = {}
    BY <1>1 DEF NoMsg
  <2>2. Pending(c) = << >>
    BY <2>1 DEF Pending
  <2>3. Settled(<< >>) /\ PagesOf(Written(<< >>)) = {}
    BY WrittenEmpty DEF Settled, PagesOf
  <2>4. Asked(c) /\ Mapped(c) /\ \A p \in Page : Right(c, p)
    BY <2>1 DEF Asked, Mapped, Right
  <2> QED
    BY <2>2, <2>3, <2>4 DEF Sound
<1> QED
  BY <1>4, <1>5, <1>6 DEF BulkInductive

LEMMA BulkStep == BulkAligned /\ BulkInductive /\ [BulkNext]_bulkVars => BulkInductive'
<1> SUFFICES ASSUME BulkAligned, BulkInductive, [BulkNext]_bulkVars PROVE BulkInductive'
  OBVIOUS
<1>0. Heavy \subseteq Client /\ Light \subseteq Client
  BY DEF Client
<1>1. ASSUME NEW c \in Heavy, NEW E \in Extent, Store(c, E), touched' = touched PROVE BulkInductive'
  BY <1>1, StoreKeeps
<1>2. ASSUME NEW c \in Heavy, NEW a \in Addr, Load(c, a), touched' = touched PROVE BulkInductive'
  BY <1>2, NothingKeeps DEF Load
<1>3. ASSUME NEW c \in Heavy, NEW p \in Page, Fault(c, p), touched' = touched PROVE BulkInductive'
  BY <1>0, <1>3, FaultKeeps
<1>4. ASSUME NEW c \in Light, NEW E \in LightExtent, StoreSC(c, E), touched' = touched PROVE BulkInductive'
  BY <1>4, StoreSCKeeps
<1>5. ASSUME NEW c \in Light, NEW a \in Addr, LoadSC(c, a), touched' = touched PROVE BulkInductive'
  BY <1>5, LoadSCKeeps
<1>6. ASSUME NEW c \in Client, NEW n \in AllocSizes, Malloc(c, n), touched' = touched PROVE BulkInductive'
  BY <1>6, MallocKeeps
<1>7. ASSUME NEW c \in Client, Sync(c), touched' = touched PROVE BulkInductive'
  BY <1>7, SyncKeeps
<1>8. ASSUME NEW c \in Client, Handle(c), touched' = touched PROVE BulkInductive'
  BY <1>8, HandleSyncKeeps, HandleFaultKeeps, HandleMallocKeeps, HandleLoadKeeps, HandleStoreKeeps
     DEF Handle
<1>9. ASSUME NEW c \in Client, Return(c), touched' = touched PROVE BulkInductive'
  BY <1>9, SyncReturnKeeps, FaultReturnKeeps, MallocReturnKeeps, WordReturnKeeps DEF Return
<1>10. CASE Next /\ UNCHANGED touched
  BY <1>1, <1>2, <1>3, <1>4, <1>5, <1>6, <1>7, <1>8, <1>9, <1>10 DEF Next
<1>11. ASSUME NEW c \in Heavy, HeavyBulk(c) PROVE BulkInductive'
  BY <1>0, <1>11, MemsetKeeps, MemcpyFromKeeps DEF HeavyBulk
<1>12. ASSUME NEW c \in Light, LightBulk(c) PROVE BulkInductive'
  BY <1>0, <1>12, MemsetSCKeeps, MemcpySCKeeps, MemcpyFromKeeps DEF LightBulk
<1>13. ASSUME NEW c \in Client, HandleBulk(c) \/ ReturnBulk(c) PROVE BulkInductive'
  BY <1>13, HandleMemcpyFromKeeps, HandleLastPageKeeps, HandleMemsetKeeps,
     MemcpyFromReturnKeeps, MemcpyFromFaultKeeps, LastPageReturnKeeps DEF HandleBulk, ReturnBulk
<1>14. CASE UNCHANGED bulkVars
  BY <1>14, NothingKeeps DEF bulkVars, vars, homeVars, clientVars
<1> QED
  BY <1>10, <1>11, <1>12, <1>13, <1>14 DEF BulkNext

(* The inductive invariant of the protocol with memset and memcpy, for     *)
(* stores booked under all their pages.                                    *)
THEOREM BulkInvariance == BulkAligned => (BulkSpec => []BulkInductive)
<1> SUFFICES ASSUME BulkAligned PROVE BulkSpec => []BulkInductive
  OBVIOUS
<1>1. BulkInit => BulkInductive
  BY InitBulkInductive
<1>2. BulkInductive /\ [BulkNext]_bulkVars => BulkInductive'
  BY BulkStep
<1> QED
  BY <1>1, <1>2, PTL DEF BulkSpec

(* Whatever memset and memcpy do, a page of a heavy client that none of    *)
(* them has touched there, and that the directory lists it for, is right.  *)
THEOREM BystandersHold == BulkAligned => (BulkSpec => []Bystanders)
<1> SUFFICES ASSUME BulkAligned PROVE BulkSpec => []Bystanders
  OBVIOUS
<1>1. BulkInductive => Bystanders
  <2> SUFFICES ASSUME BulkInductive, NEW c \in Heavy, NEW p \in valid[c] \ Dropping(c),
                      c \in accessS[p], <<c, p>> \notin touched, NEW w \in Word
               PROVE  copy[c][<<p, w>>] = Current(c, <<p, w>>)
    BY DEF Bystanders
  <2>1. c \in Client /\ p \in Page
    BY DEF Client, BulkInductive, BulkTypes
  <2> QED
    BY <2>1 DEF BulkInductive, Sound, Right
<1> QED
  BY <1>1, BulkInvariance, PTL

=============================================================================
