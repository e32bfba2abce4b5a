----------------------------- MODULE HlrcProofs -----------------------------
(***************************************************************************)
(* Proofs about Hlrc, for any number of clients, pages, words and stores.  *)
(***************************************************************************)
EXTENDS Hlrc, TLAPS

-----------------------------------------------------------------------------
(* Store logs. *)

(* Nothing has been written by an empty log. *)
LEMMA WrittenEmpty == Written(<< >>) = {}
BY DEF Written

(* A log that grows by an entry writes the words of that entry too. *)
LEMMA WrittenAppend ==
  ASSUME NEW S, NEW s \in Seq(S), NEW e
  PROVE  Written(Append(s, e)) = Written(s) \union e.at
<1> DEFINE t == Append(s, e)
<1>1. DOMAIN s = 1 .. Len(s) /\ Len(s) \in Nat
  OBVIOUS
<1>2. DOMAIN t = 1 .. (Len(s) + 1)
  OBVIOUS
<1>3. \A i \in 1 .. Len(s) : t[i] = s[i]
  OBVIOUS
<1>4. t[Len(s) + 1] = e
  OBVIOUS
<1>5. ASSUME NEW a PROVE a \in Written(t) <=> a \in Written(s) \/ a \in e.at
  <2>1. a \in Written(t) <=> \E i \in 1 .. (Len(s) + 1) : a \in t[i].at
    BY <1>2 DEF Written
  <2>2. a \in Written(s) <=> \E i \in 1 .. Len(s) : a \in s[i].at
    BY <1>1 DEF Written
  <2> HIDE DEF t
  <2> QED
    BY <2>1, <2>2, <1>1, <1>3, <1>4
<1> QED
  BY <1>5

(* The last store to a word is the appended one if it covers the word. *)
LEMMA LastIndexAppend ==
  ASSUME NEW S, NEW s \in Seq(S), NEW e, NEW a
  PROVE  LastIndex(Append(s, e), a) =
           IF a \in e.at THEN {Len(s) + 1} ELSE LastIndex(s, a)
<1> DEFINE t == Append(s, e)
<1>1. DOMAIN s = 1 .. Len(s) /\ Len(s) \in Nat
  OBVIOUS
<1>2. DOMAIN t = 1 .. (Len(s) + 1)
  OBVIOUS
<1>3. \A i \in 1 .. Len(s) : t[i] = s[i]
  OBVIOUS
<1>4. t[Len(s) + 1] = e
  OBVIOUS
<1>5. LastIndex(t, a) = {i \in 1 .. (Len(s) + 1) : a \in t[i].at
                /\ \A j \in 1 .. (Len(s) + 1) : j > i => a \notin t[j].at}
  BY <1>2 DEF LastIndex
<1>6. LastIndex(s, a) = {i \in 1 .. Len(s) : a \in s[i].at
                /\ \A j \in 1 .. Len(s) : j > i => a \notin s[j].at}
  BY <1>1 DEF LastIndex
<1>7. ASSUME a \in e.at PROVE LastIndex(t, a) = {Len(s) + 1}
  <2> HIDE DEF t
  <2> QED
    BY <1>1, <1>3, <1>4, <1>5, <1>7
<1>8. ASSUME a \notin e.at PROVE LastIndex(t, a) = LastIndex(s, a)
  <2> HIDE DEF t
  <2> QED
    BY <1>1, <1>3, <1>4, <1>5, <1>6, <1>8
<1> QED
  BY <1>7, <1>8

(* So it decides what a replay leaves in the word. *)
LEMMA LastOfAppend ==
  ASSUME NEW S, NEW s \in Seq(S), NEW e, NEW a, LastIndex(s, a) # {} \/ a \in e.at
  PROVE  LastOf(Append(s, e), a) = IF a \in e.at THEN e.val ELSE LastOf(s, a)
<1>1. CASE a \in e.at
  <2>1. LastIndex(Append(s, e), a) = {Len(s) + 1}
    BY <1>1, LastIndexAppend
  <2>2. (CHOOSE i \in LastIndex(Append(s, e), a) : TRUE) = Len(s) + 1
    BY <2>1
  <2>3. Append(s, e)[Len(s) + 1] = e
    OBVIOUS
  <2>4. LastOf(Append(s, e), a) = Append(s, e)[Len(s) + 1].val
    BY <2>2, Zenon DEF LastOf
  <2> QED
    BY <1>1, <2>3, <2>4
<1>2. CASE a \notin e.at
  <2> DEFINE k == CHOOSE i \in LastIndex(s, a) : TRUE
  <2>1. LastIndex(Append(s, e), a) = LastIndex(s, a)
    BY <1>2, LastIndexAppend
  <2>2. k \in LastIndex(s, a)
    BY <1>2
  <2>3. k \in 1 .. Len(s)
    BY <2>2 DEF LastIndex
  <2>4. Append(s, e)[k] = s[k]
    BY <2>3
  <2> QED
    BY <1>2, <2>1, <2>4 DEF LastOf
<1> QED
  BY <1>1, <1>2

-----------------------------------------------------------------------------
(* Messages. *)

(* What a request of each kind carries. *)
LEMMA RequestFields ==
  ASSUME NEW m \in Request
  PROVE  /\ m.op = "sync" => m.log \in Seq(LogEntry)
         /\ m.op = "fault" => m.page \in Page
         /\ m.op = "malloc" => m.size \in AllocSizes
         /\ m.op = "load" => m.addr \in Addr
         /\ m.op = "store" => m.at \in LightExtent /\ m.val \in Val
BY DEF Request, NoMsg

(* What a reply of each kind carries. *)
LEMMA ReplyFields ==
  ASSUME NEW m \in Reply
  PROVE  /\ m.op \in {"inval", "chunk"} => m.pages \in SUBSET Page
         /\ m.op = "page" => m.page \in Page /\ m.data \in [Word -> Val]
         /\ m.op = "word" => m.addr \in Addr /\ m.val \in Val
BY DEF Reply, NoMsg

(* Every message the clients and the home make is one of these. *)
LEMMA RequestMade ==
  /\ NoMsg \in Request
  /\ \A l \in Seq(LogEntry) : [op |-> "sync", log |-> l] \in Request
  /\ \A p \in Page : [op |-> "fault", page |-> p] \in Request
  /\ \A n \in AllocSizes : [op |-> "malloc", size |-> n] \in Request
  /\ \A a \in Addr : [op |-> "load", addr |-> a] \in Request
  /\ \A E \in LightExtent, v \in Val :
       [op |-> "store", at |-> E, val |-> v] \in Request
BY DEF Request

LEMMA ReplyMade ==
  /\ NoMsg \in Reply
  /\ \A P \in SUBSET Page : [op |-> "inval", pages |-> P] \in Reply
  /\ \A P \in SUBSET Page : [op |-> "chunk", pages |-> P] \in Reply
  /\ \A p \in Page, d \in [Word -> Val] :
       [op |-> "page", page |-> p, data |-> d] \in Reply
  /\ \A a \in Addr, v \in Val : [op |-> "word", addr |-> a, val |-> v] \in Reply
  /\ [op |-> "ack"] \in Reply
BY DEF Reply

-----------------------------------------------------------------------------
(* Logs. *)

(* The last store of a log to a word carries a value. *)
LEMMA LastOfType ==
  ASSUME NEW l \in Seq(LogEntry), NEW a, LastIndex(l, a) # {}
  PROVE  LastOf(l, a) \in Val
<1> DEFINE k == CHOOSE i \in LastIndex(l, a) : TRUE
<1>1. k \in LastIndex(l, a)
  OBVIOUS
<1>2. k \in DOMAIN l
  BY <1>1 DEF LastIndex
<1>3. l[k] \in LogEntry
  BY <1>2
<1>4. LastOf(l, a) = l[k].val
  BY Zenon DEF LastOf
<1> HIDE DEF k
<1> QED
  BY <1>3, <1>4 DEF LogEntry

(* The words a log covers are words of the heap. *)
LEMMA WrittenType ==
  ASSUME NEW l \in Seq(LogEntry)
  PROVE  Written(l) \subseteq Addr
<1>1. \A i \in DOMAIN l : l[i] \in LogEntry
  OBVIOUS
<1>2. \A i \in DOMAIN l : l[i].at \subseteq Addr
  BY <1>1, ExtentAssumption DEF LogEntry
<1> QED
  BY <1>2 DEF Written

(* Replaying a well formed log yields a memory. *)
LEMMA ReplayType ==
  ASSUME NEW m \in [Addr -> Val], NEW l \in Seq(LogEntry), Settled(l)
  PROVE  Replay(m, l) \in [Addr -> Val]
BY LastOfType DEF Replay, Settled

(* A store makes a log longer by an entry for it. *)
LEMMA StoreLogged ==
  ASSUME NEW l \in Seq(LogEntry), NEW E \in Extent, NEW v \in Val, Settled(l)
  PROVE  /\ Logged(l, E, v) \in Seq(LogEntry)
         /\ Settled(Logged(l, E, v))
         /\ \A a : a \in Written(Logged(l, E, v)) <=> a \in Written(l) \/ a \in E
         /\ \A a \in E : LastOf(Logged(l, E, v), a) = v
         /\ \A a \in Written(l) : a \notin E =>
              LastOf(Logged(l, E, v), a) = LastOf(l, a)
<1> DEFINE e == [at |-> E, val |-> v]
           t == Append(l, e)
<1>1. e \in LogEntry /\ e.at = E /\ e.val = v
  BY DEF LogEntry
<1>2. t \in Seq(LogEntry)
  BY <1>1
<1>3. Written(t) = Written(l) \union E
  BY <1>1, WrittenAppend
<1>4. \A a : LastIndex(t, a) = IF a \in E THEN {Len(l) + 1} ELSE LastIndex(l, a)
  BY <1>1, LastIndexAppend
<1>5. \A a : (LastIndex(l, a) # {} \/ a \in E)
               => LastOf(t, a) = IF a \in E THEN v ELSE LastOf(l, a)
  BY <1>1, LastOfAppend
<1>t. Logged(l, E, v) = t
  BY Zenon DEF Logged
<1> HIDE DEF e, t
<1>6. Settled(t)
  BY <1>3, <1>4 DEF Settled
<1>7. \A a : a \in Written(t) <=> a \in Written(l) \/ a \in E
  BY <1>3
<1>8. \A a \in Written(l) : a \notin E => LastOf(t, a) = LastOf(l, a)
  BY <1>5 DEF Settled
<1> QED
  BY <1>2, <1>5, <1>6, <1>7, <1>8, <1>t

-----------------------------------------------------------------------------
(* Steps of clients. *)

(* A store goes to the copy and to the end of the log.                     *)
LEMMA StoreStep ==
  ASSUME Inductive, NEW c \in Heavy, NEW E \in Extent, Store(c, E)
  PROVE  Inductive'
<1> USE ExtentAssumption, ClientsAssumption, BoundsAssumption
<1> DEFINE v == stores + 1
<1>0. c \in Client /\ c \notin Light /\ Heavy \subseteq Client
  BY DEF Client
<1>1. E \subseteq Addr /\ PagesOf(E) \subseteq valid[c] /\ v \in Val
  BY DEF Inductive, TypeOK, Store, Val
<1>2. /\ req' = req /\ rep' = rep /\ home' = home /\ heapTop' = heapTop
      /\ accessS' = accessS /\ seen' = seen /\ valid' = valid
      /\ stores' = v
  BY DEF Store, homeVars
<1>3. log[c] \in Seq(LogEntry) /\ Pending(c) = log[c] /\ rep[c].op = "none"
  BY <1>0 DEF Inductive, TypeOK, Store, Idle, Pending
<1>4. \A d \in Client : /\ log'[d] = IF d = c THEN Logged(log[c], E, v)
                                             ELSE log[d]
                        /\ copy'[d] = IF d = c THEN [a \in Addr |-> IF a \in E THEN v ELSE copy[c][a]]
                                              ELSE copy[d]
  BY <1>0 DEF Inductive, TypeOK, Store
<1>5. \A d \in Client : d # c => Pending(d)' = Pending(d)
  BY <1>2, <1>4 DEF Pending
<1>6. Pending(c)' = Logged(log[c], E, v)
  BY <1>0, <1>2, <1>4 DEF Pending, Store, Idle
<1>7. Settled(log[c])
  BY <1>0, <1>3 DEF Inductive, WellLogged
<1> HIDE DEF v
<1>8. /\ Pending(c)' \in Seq(LogEntry)
      /\ Settled(Pending(c)')
      /\ \A a : a \in Written(Pending(c)') <=> a \in Written(log[c]) \/ a \in E
      /\ \A a \in E : LastOf(Pending(c)', a) = v
      /\ \A a \in Written(log[c]) : a \notin E =>
           LastOf(Pending(c)', a) = LastOf(log[c], a)
  <2>1. v \in Val
    BY <1>1
  <2>2. ASSUME NEW l, l = log[c]
        PROVE  /\ Logged(l, E, v) \in Seq(LogEntry)
               /\ Settled(Logged(l, E, v))
               /\ \A a : a \in Written(Logged(l, E, v)) <=> a \in Written(l) \/ a \in E
               /\ \A a \in E : LastOf(Logged(l, E, v), a) = v
               /\ \A a \in Written(l) : a \notin E =>
                    LastOf(Logged(l, E, v), a) = LastOf(l, a)
    <3>1. l \in Seq(LogEntry) /\ Settled(l)
      BY <1>3, <1>7, <2>2
    <3> QED
      BY <2>1, <3>1, StoreLogged
  <2> QED
    BY <2>2, <1>6
<1> USE DEF v
<1>t. TypeOK'
  <2>1. log' \in [Client -> Seq(LogEntry)]
    BY <1>0, <1>4, <1>6, <1>8 DEF Inductive, TypeOK, Store
  <2>2. copy' \in [Client -> [Addr -> Val]]
    BY <1>0, <1>1 DEF Inductive, TypeOK, Store
  <2> QED
    BY <1>1, <1>2, <2>1, <2>2 DEF Inductive, TypeOK, Store
<1>a. Exchange'
  BY <1>0, <1>2, <1>3, <1>4, <1>5 DEF Inductive, Exchange, Store, Idle
<1>b. WellLogged'
  BY <1>5, <1>8 DEF Inductive, WellLogged
<1>c. HomeSeen' /\ Untouched' /\ KnownPages' /\ Absent' /\ WordSeen' /\ Arriving'
  BY <1>2 DEF Inductive, HomeSeen, Untouched, KnownPages, Absent, WordSeen, Arriving
<1>d. PendingMapped'
  BY <1>0, <1>1, <1>2, <1>3, <1>5, <1>8 DEF Inductive, PendingMapped, PagesOf
<1>9. \A d \in Client, a \in Addr :
        /\ ~(d = c /\ a \in E) => /\ copy'[d][a] = copy[d][a]
                                  /\ a \in Written(Pending(d)') <=> a \in Written(Pending(d))
                                  /\ a \in Written(Pending(d)) => LastOf(Pending(d)', a) = LastOf(Pending(d), a)
        /\ d = c /\ a \in E => /\ copy'[d][a] = v
                               /\ a \in Written(Pending(d)')
                               /\ LastOf(Pending(d)', a) = v
  <2> TAKE d \in Client, a \in Addr
  <2>1. CASE d = c
    <3>1. copy'[c] = [b \in Addr |-> IF b \in E THEN v ELSE copy[c][b]]
      BY <1>0, <1>4
    <3> QED
      BY <2>1, <3>1, <1>3, <1>8
  <2>2. CASE d # c
    BY <2>2, <1>4, <1>5
  <2> QED
    BY <2>1, <2>2
<1>10. Dropping(c)' = Dropping(c) /\ \A d \in Client : Dropping(d)' = Dropping(d)
  BY <1>2 DEF Dropping
<1>11. valid \in [Client -> SUBSET Page]
  BY DEF Inductive, TypeOK
<1>e. Coherent'
  <2> SUFFICES ASSUME NEW d \in Heavy, NEW p \in valid[d] \ Dropping(d), d \in accessS[p], NEW w \in Word
               PROVE  copy'[d][<<p, w>>] = Current(d, <<p, w>>)'
    BY <1>2, <1>10, <1>0 DEF Coherent
  <2>1. <<p, w>> \in Addr
    BY <1>0, <1>11 DEF Addr
  <2>2. copy[d][<<p, w>>] = Current(d, <<p, w>>)
    BY DEF Inductive, Coherent
  <2> QED
    BY <1>0, <1>2, <1>9, <2>1, <2>2 DEF Current
<1>f. Fresh'
  <2> SUFFICES ASSUME NEW d \in Heavy, NEW p \in valid[d] \ Dropping(d), NEW w \in Word
               PROVE  IF <<p, w>> \in Written(Pending(d)') THEN copy'[d][<<p, w>>] = LastOf(Pending(d)', <<p, w>>)
                                 ELSE copy'[d][<<p, w>>] \in seen[d][<<p, w>>]
    BY <1>2, <1>10, <1>0 DEF Fresh
  <2>1. <<p, w>> \in Addr
    BY <1>0, <1>11 DEF Addr
  <2> QED
    BY <1>0, <1>9, <2>1 DEF Inductive, Fresh
<1> QED
  BY <1>t, <1>a, <1>b, <1>c, <1>d, <1>e, <1>f DEF Inductive

(* A step that changes nothing but what was loaded.                        *)
LEMMA SilentStep ==
  ASSUME Inductive, NEW o \in {Nothing} \union (Client \X Addr \X Val), obs' = o,
         UNCHANGED <<homeVars, clientVars, req, rep, stores>>
  PROVE  Inductive'
<1> USE DEF homeVars, clientVars
<1>1. \A d \in Client : Pending(d)' = Pending(d) /\ Dropping(d)' = Dropping(d)
  BY DEF Pending, Dropping
<1>2. Heavy \subseteq Client
  BY DEF Client
<1>t. TypeOK'
  BY DEF Inductive, TypeOK
<1>a. Exchange' /\ WellLogged'
  BY <1>1 DEF Inductive, Exchange, WellLogged
<1>b. HomeSeen' /\ Untouched' /\ KnownPages' /\ Absent' /\ WordSeen' /\ Arriving'
  BY DEF Inductive, HomeSeen, Untouched, KnownPages, Absent, WordSeen, Arriving
<1>c. PendingMapped'
  BY <1>1, <1>2 DEF Inductive, PendingMapped
<1>d. Coherent'
  BY <1>1, <1>2 DEF Inductive, Coherent, Current
<1>e. Fresh'
  BY <1>1, <1>2 DEF Inductive, Fresh
<1> QED
  BY <1>t, <1>a, <1>b, <1>c, <1>d, <1>e DEF Inductive

(* A load finds a value in the copy.                                       *)
LEMMA LoadStep ==
  ASSUME Inductive, NEW c \in Heavy, NEW a \in Addr, Load(c, a)
  PROVE  Inductive'
<1>1. <<c, a, copy[c][a]>> \in Client \X Addr \X Val
  BY DEF Inductive, TypeOK, Client
<1> QED
  BY <1>1, SilentStep DEF Load

(* A request that takes nothing from the log of the client.                *)
LEMMA AskStep ==
  ASSUME Inductive, NEW c \in Client, NEW m \in Request, Send(c, m),
         UNCHANGED clientVars, stores' \in Val,
         m.op \in {"fault", "malloc", "load", "store"},
         m.op = "fault" => m.page \notin valid[c],
         m.op \in {"load", "store"} => c \in Light,
         m.op = "store" => PagesOf(m.at) \subseteq 1 .. heapTop
  PROVE  Inductive'
<1> USE DEF homeVars, clientVars
<1>0. Heavy \subseteq Client /\ Light \subseteq Client
  BY DEF Client
<1>1. /\ rep' = rep /\ home' = home /\ heapTop' = heapTop /\ accessS' = accessS
      /\ seen' = seen /\ valid' = valid /\ copy' = copy /\ log' = log
  BY DEF Send
<1>2. \A d \in Client : req'[d] = IF d = c THEN m ELSE req[d]
  BY DEF Send, Inductive, TypeOK
<1>3. req[c].op = "none" /\ rep[c].op = "none"
  BY DEF Send, Idle
<1>4. \A d \in Client : Pending(d)' = Pending(d) /\ Dropping(d)' = Dropping(d)
  BY <1>1, <1>2, <1>3 DEF Pending, Dropping
<1>t. TypeOK'
  BY <1>1 DEF Inductive, TypeOK, Send
<1>a. Exchange'
  BY <1>1, <1>2, <1>3, <1>4 DEF Inductive, Exchange
<1>b. WellLogged'
  BY <1>4 DEF Inductive, WellLogged
<1>c. HomeSeen' /\ Untouched' /\ WordSeen' /\ Arriving'
  BY <1>1 DEF Inductive, HomeSeen, Untouched, WordSeen, Arriving
<1>d. KnownPages'
  BY <1>1, <1>2 DEF Inductive, KnownPages
<1>e. Absent'
  BY <1>0, <1>1, <1>2 DEF Inductive, Absent
<1>f. PendingMapped'
  BY <1>0, <1>1, <1>4 DEF Inductive, PendingMapped
<1>g. Coherent'
  BY <1>0, <1>1, <1>4 DEF Inductive, Coherent, Current
<1>h. Fresh'
  BY <1>0, <1>1, <1>4 DEF Inductive, Fresh
<1> QED
  BY <1>t, <1>a, <1>b, <1>c, <1>d, <1>e, <1>f, <1>g, <1>h DEF Inductive

LEMMA FaultStep ==
  ASSUME Inductive, NEW c \in Client, NEW p \in Page, Fault(c, p)
  PROVE  Inductive'
<1> DEFINE m == [op |-> "fault", page |-> p]
<1>1. m \in Request
  BY RequestMade
<1>2. stores' \in Val
  BY DEF Inductive, TypeOK, Fault
<1> QED
  BY <1>1, <1>2, AskStep DEF Fault

LEMMA MallocStep ==
  ASSUME Inductive, NEW c \in Client, NEW n \in AllocSizes, Malloc(c, n)
  PROVE  Inductive'
<1> DEFINE m == [op |-> "malloc", size |-> n]
<1>1. m \in Request
  BY RequestMade
<1>2. stores' \in Val
  BY DEF Inductive, TypeOK, Malloc
<1> QED
  BY <1>1, <1>2, AskStep DEF Malloc

LEMMA LoadSCStep ==
  ASSUME Inductive, NEW c \in Light, NEW a \in Addr, LoadSC(c, a)
  PROVE  Inductive'
<1> DEFINE m == [op |-> "load", addr |-> a]
<1>1. m \in Request /\ c \in Client
  BY RequestMade DEF Client
<1>2. stores' \in Val
  BY DEF Inductive, TypeOK, LoadSC
<1> QED
  BY <1>1, <1>2, AskStep DEF LoadSC

LEMMA StoreSCStep ==
  ASSUME Inductive, NEW c \in Light, NEW E \in LightExtent, StoreSC(c, E)
  PROVE  Inductive'
<1> DEFINE m == [op |-> "store", at |-> E, val |-> stores + 1]
<1>1. stores + 1 \in Val /\ stores' = stores + 1
  BY BoundsAssumption DEF Inductive, TypeOK, StoreSC, Val
<1>2. m \in Request /\ c \in Client
  BY <1>1, RequestMade DEF Client
<1> QED
  BY <1>1, <1>2, AskStep DEF StoreSC

(* uva_sync moves the log into the request.                                *)
LEMMA SyncStep ==
  ASSUME Inductive, NEW c \in Client, Sync(c)
  PROVE  Inductive'
<1> USE DEF homeVars
<1>0. Heavy \subseteq Client /\ Light \subseteq Client
  BY DEF Client
<1>1. /\ rep' = rep /\ home' = home /\ heapTop' = heapTop /\ accessS' = accessS
      /\ seen' = seen /\ valid' = valid /\ copy' = copy /\ stores' = stores
      /\ obs' = Nothing
  BY DEF Sync, Send
<1>2. \A d \in Client :
        /\ req'[d] = IF d = c THEN [op |-> "sync", log |-> log[c]] ELSE req[d]
        /\ log'[d] = IF d = c THEN << >> ELSE log[d]
  BY DEF Sync, Send, Inductive, TypeOK
<1>3. req[c].op = "none" /\ rep[c].op = "none"
  BY DEF Sync, Send, Idle
<1>4. \A d \in Client : Pending(d)' = Pending(d) /\ Dropping(d)' = Dropping(d)
  BY <1>1, <1>2, <1>3 DEF Pending, Dropping
<1>t. TypeOK'
  <2>1. log[c] \in Seq(LogEntry) /\ << >> \in Seq(LogEntry)
    BY DEF Inductive, TypeOK
  <2>2. [op |-> "sync", log |-> log[c]] \in Request
    BY <2>1, RequestMade
  <2>3. req' \in [Client -> Request]
    BY <2>2 DEF Inductive, TypeOK, Sync, Send
  <2>4. log' \in [Client -> Seq(LogEntry)]
    BY <2>1 DEF Inductive, TypeOK, Sync
  <2> QED
    BY <1>1, <2>3, <2>4 DEF Inductive, TypeOK
<1>a. Exchange'
  BY <1>1, <1>2, <1>3, <1>4 DEF Inductive, Exchange
<1>b. WellLogged'
  BY <1>4 DEF Inductive, WellLogged
<1>c. HomeSeen' /\ Untouched' /\ WordSeen' /\ Arriving'
  BY <1>1 DEF Inductive, HomeSeen, Untouched, WordSeen, Arriving
<1>d. KnownPages'
  BY <1>1, <1>2 DEF Inductive, KnownPages
<1>e. Absent'
  BY <1>0, <1>1, <1>2 DEF Inductive, Absent
<1>f. PendingMapped'
  BY <1>0, <1>1, <1>4 DEF Inductive, PendingMapped
<1>g. Coherent'
  BY <1>0, <1>1, <1>4 DEF Inductive, Coherent, Current
<1>h. Fresh'
  BY <1>0, <1>1, <1>4 DEF Inductive, Fresh
<1> QED
  BY <1>t, <1>a, <1>b, <1>c, <1>d, <1>e, <1>f, <1>g, <1>h DEF Inductive

-----------------------------------------------------------------------------
(* Answers read by clients. *)

(* The pages of the invalidation list are dropped.                         *)
LEMMA SyncReturnStep ==
  ASSUME Inductive, NEW c \in Client, SyncReturn(c)
  PROVE  Inductive'
<1> USE DEF homeVars
<1>0. Heavy \subseteq Client /\ Light \subseteq Client
  BY DEF Client
<1>1. /\ req' = req /\ home' = home /\ heapTop' = heapTop /\ accessS' = accessS
      /\ seen' = seen /\ copy' = copy /\ log' = log /\ stores' = stores
      /\ obs' = Nothing /\ rep[c].op = "inval"
  BY DEF SyncReturn, Receive
<1>2. \A d \in Client :
        /\ d = c => rep'[d].op = "none"
        /\ d # c => rep'[d] = rep[d]
        /\ d = c => valid'[d] = valid[d] \ rep[c].pages
        /\ d # c => valid'[d] = valid[d]
  BY DEF SyncReturn, Receive, Inductive, TypeOK, NoMsg
<1>3. \A d \in Client :
        /\ Pending(d)' = Pending(d)
        /\ valid'[d] \ Dropping(d)' = valid[d] \ Dropping(d)
  BY <1>1, <1>2 DEF Pending, Dropping
<1>4. Pending(c) = << >>
  BY <1>1 DEF Inductive, Exchange, Pending
<1>t. TypeOK'
  <2>1. rep' \in [Client -> Reply]
    BY ReplyMade DEF Inductive, TypeOK, SyncReturn, Receive
  <2>2. valid' \in [Client -> SUBSET Page]
    BY DEF Inductive, TypeOK, SyncReturn
  <2> QED
    BY <1>1, <2>1, <2>2 DEF Inductive, TypeOK
<1>a. Exchange'
  BY <1>1, <1>2, <1>3 DEF Inductive, Exchange
<1>b. WellLogged'
  BY <1>3 DEF Inductive, WellLogged
<1>c. HomeSeen' /\ Untouched'
  BY <1>1 DEF Inductive, HomeSeen, Untouched
<1>d. KnownPages' /\ Absent' /\ WordSeen' /\ Arriving'
  BY <1>0, <1>1, <1>2 DEF Inductive, KnownPages, Absent, WordSeen, Arriving
<1>e. PendingMapped'
  <2>1. PagesOf(Written(<< >>)) = {}
    BY WrittenEmpty DEF PagesOf
  <2> QED
    BY <1>0, <1>1, <1>2, <1>3, <1>4, <2>1 DEF Inductive, PendingMapped
<1>f. Coherent'
  BY <1>0, <1>1, <1>3 DEF Inductive, Coherent, Current
<1>g. Fresh'
  BY <1>0, <1>1, <1>3 DEF Inductive, Fresh
<1> QED
  BY <1>t, <1>a, <1>b, <1>c, <1>d, <1>e, <1>f, <1>g DEF Inductive

(* A page that was not mapped before is written and mapped.                *)
LEMMA MapStep ==
  ASSUME Inductive, NEW c \in Client, NEW P \in SUBSET Page,
         NEW f \in [Addr -> Val],
         Receive(c, "page") \/ Receive(c, "chunk"),
         log' = log, obs' = Nothing,
         valid' = [valid EXCEPT ![c] = @ \union P],
         copy' = [copy EXCEPT ![c] =
                    [a \in Addr |-> IF a[1] \in P THEN f[a] ELSE @[a]]],
         P \subseteq 1 .. heapTop,
         c \in Heavy => P \intersect valid[c] = {},
         c \in Heavy => \A a \in Addr : a[1] \in P =>
                          /\ f[a] \in seen[c][a]
                          /\ c \in accessS[a[1]] => f[a] = home[a]
  PROVE  Inductive'
<1> USE DEF homeVars
<1>0. Heavy \subseteq Client /\ Light \subseteq Client
  BY DEF Client
<1>1. /\ req' = req /\ home' = home /\ heapTop' = heapTop /\ accessS' = accessS
      /\ seen' = seen /\ log' = log /\ stores' = stores
      /\ rep[c].op \in {"page", "chunk"}
  BY DEF Receive
<1>2. \A d \in Client :
        /\ d = c => rep'[d].op = "none"
        /\ d # c => rep'[d] = rep[d]
        /\ d = c => valid'[d] = valid[d] \union P
        /\ d # c => valid'[d] = valid[d]
  BY DEF Receive, Inductive, TypeOK, NoMsg
<1>3d. \A d \in Client : Dropping(d)' = Dropping(d) /\ (d = c => Dropping(d) = {})
  BY <1>1, <1>2 DEF Dropping
<1>3. \A d \in Client, a \in Addr :
        copy'[d][a] = IF d = c /\ a[1] \in P THEN f[a] ELSE copy[d][a]
  BY DEF Inductive, TypeOK
<1>4. \A d \in Client : Pending(d)' = Pending(d)
  BY <1>1 DEF Pending
<1>t. TypeOK'
  <2>1. rep' \in [Client -> Reply]
    BY ReplyMade DEF Inductive, TypeOK, Receive
  <2>2. valid' \in [Client -> SUBSET Page]
    BY DEF Inductive, TypeOK
  <2>3. copy' \in [Client -> [Addr -> Val]]
    BY DEF Inductive, TypeOK
  <2> QED
    BY <1>1, <2>1, <2>2, <2>3 DEF Inductive, TypeOK
<1>a. Exchange'
  BY <1>1, <1>2, <1>4 DEF Inductive, Exchange
<1>b. WellLogged'
  BY <1>4 DEF Inductive, WellLogged
<1>c. HomeSeen' /\ Untouched'
  BY <1>1 DEF Inductive, HomeSeen, Untouched
<1>d. KnownPages'
  BY <1>1, <1>2 DEF Inductive, KnownPages
<1>i. WordSeen' /\ Arriving'
  BY <1>0, <1>1, <1>2 DEF Inductive, WordSeen, Arriving
<1>e. Absent'
  <2>1. req[c].op = "none"
    BY <1>1 DEF Inductive, Exchange
  <2> QED
    BY <1>0, <1>1, <1>2, <2>1 DEF Inductive, Absent
<1>f. PendingMapped'
  BY <1>0, <1>2, <1>4 DEF Inductive, PendingMapped
<1>5. \A d \in Heavy : \A p \in valid'[d] \ Dropping(d)' : \A w \in Word :
        /\ <<p, w>> \in Addr
        /\ d = c /\ p \in P => <<p, w>> \notin Written(Pending(d))
        /\ ~(d = c /\ p \in P) => p \in valid[d] \ Dropping(d)
  <2> TAKE d \in Heavy
  <2> TAKE p \in valid'[d] \ Dropping(d)'
  <2> TAKE w \in Word
  <2>1. d \in Client /\ p \in valid'[d] /\ p \notin Dropping(d)
    BY <1>0, <1>3d
  <2>2. p \in Page
    BY <2>1, <1>2 DEF Inductive, TypeOK
  <2>3. d = c /\ p \in P => <<p, w>> \notin Written(Pending(d))
    <3>1. <<p, w>> \in Written(Pending(d)) => p \in PagesOf(Written(Pending(d)))
      BY DEF PagesOf
    <3> QED
      BY <3>1 DEF Inductive, PendingMapped
  <2> QED
    BY <1>2, <2>1, <2>2, <2>3 DEF Addr
<1>g. Coherent'
  BY <1>0, <1>1, <1>3, <1>4, <1>5 DEF Inductive, Coherent, Current
<1>h. Fresh'
  <2> SUFFICES ASSUME NEW d \in Heavy, NEW p \in valid'[d] \ Dropping(d)', NEW w \in Word
               PROVE  IF <<p, w>> \in Written(Pending(d))
                        THEN copy'[d][<<p, w>>] = LastOf(Pending(d), <<p, w>>)
                        ELSE copy'[d][<<p, w>>] \in seen[d][<<p, w>>]
    BY <1>0, <1>1, <1>4 DEF Fresh
  <2>1. CASE d = c /\ p \in P
    <3>1. copy'[d][<<p, w>>] = f[<<p, w>>]
      BY <1>0, <1>3, <1>5, <2>1
    <3> QED
      BY <1>5, <2>1, <3>1
  <2>2. CASE ~(d = c /\ p \in P)
    <3>1. copy'[d][<<p, w>>] = copy[d][<<p, w>>]
      BY <1>0, <1>3, <1>5, <2>2
    <3> QED
      BY <1>5, <2>2, <3>1 DEF Inductive, Fresh
  <2> QED
    BY <2>1, <2>2
<1> QED
  BY <1>t, <1>a, <1>b, <1>c, <1>d, <1>e, <1>f, <1>g, <1>h, <1>i DEF Inductive

LEMMA FaultReturnStep ==
  ASSUME Inductive, NEW c \in Client, FaultReturn(c)
  PROVE  Inductive'
<1> DEFINE P == {rep[c].page}
           f == [a \in Addr |-> IF a[1] \in P THEN rep[c].data[a[2]] ELSE Zero]
<1>1. rep[c] \in Reply /\ rep[c].op = "page"
  BY DEF FaultReturn, Receive, Inductive, TypeOK
<1>2. rep[c].page \in Page /\ rep[c].data \in [Word -> Val]
  BY <1>1, ReplyFields
<1>3. f \in [Addr -> Val]
  BY <1>2, BoundsAssumption DEF Addr, Zero, Val
<1>4. P \in SUBSET Page /\ P \subseteq 1 .. heapTop
  BY <1>1, <1>2 DEF Inductive, KnownPages, Page
<1>5. c \in Heavy => P \intersect valid[c] = {}
  BY <1>1 DEF Inductive, Absent
<1>6. c \in Heavy => \A a \in Addr : a[1] \in P =>
                       /\ f[a] \in seen[c][a]
                       /\ c \in accessS[a[1]] => f[a] = home[a]
  BY <1>1 DEF Inductive, Arriving
<1>7. copy' = [copy EXCEPT ![c] =
                 [a \in Addr |-> IF a[1] \in P THEN f[a] ELSE @[a]]]
  BY DEF FaultReturn
<1>8. /\ Receive(c, "page") /\ log' = log /\ obs' = Nothing
      /\ valid' = [valid EXCEPT ![c] = @ \union P]
  BY DEF FaultReturn
<1> HIDE DEF P, f
<1> QED
  BY <1>3, <1>4, <1>5, <1>6, <1>7, <1>8, MapStep

LEMMA MallocReturnStep ==
  ASSUME Inductive, NEW c \in Client, MallocReturn(c)
  PROVE  Inductive'
<1> DEFINE P == rep[c].pages
           f == [a \in Addr |-> Zero]
<1>1. rep[c] \in Reply /\ rep[c].op = "chunk"
  BY DEF MallocReturn, Receive, Inductive, TypeOK
<1>2. P \in SUBSET Page
  BY <1>1, ReplyFields
<1>3. f \in [Addr -> Val]
  BY BoundsAssumption DEF Zero, Val
<1>4. P \subseteq 1 .. heapTop
  BY <1>1 DEF Inductive, KnownPages
<1>5. c \in Heavy => P \intersect valid[c] = {}
  BY <1>1 DEF Inductive, Absent
<1>6. c \in Heavy => \A a \in Addr : a[1] \in P =>
                       /\ f[a] \in seen[c][a]
                       /\ c \in accessS[a[1]] => f[a] = home[a]
  BY <1>1 DEF Inductive, Arriving
<1>7. copy' = [copy EXCEPT ![c] =
                 [a \in Addr |-> IF a[1] \in P THEN f[a] ELSE @[a]]]
  BY DEF MallocReturn
<1> QED
  BY <1>2, <1>3, <1>4, <1>5, <1>6, <1>7, MapStep DEF MallocReturn

(* An answer to a light client changes nothing at the client.              *)
LEMMA WordReturnStep ==
  ASSUME Inductive, NEW c \in Client, LoadSCReturn(c) \/ StoreSCReturn(c)
  PROVE  Inductive'
<1> USE DEF homeVars, clientVars
<1>0. Heavy \subseteq Client /\ Light \subseteq Client
  BY DEF Client
<1>1. /\ req' = req /\ home' = home /\ heapTop' = heapTop /\ accessS' = accessS
      /\ seen' = seen /\ valid' = valid /\ copy' = copy /\ log' = log
      /\ stores' = stores /\ rep[c].op \in {"word", "ack"}
  BY DEF LoadSCReturn, StoreSCReturn, Receive
<1>2. \A d \in Client : /\ d = c => rep'[d].op = "none"
                        /\ d # c => rep'[d] = rep[d]
  BY DEF LoadSCReturn, StoreSCReturn, Receive, Inductive, TypeOK, NoMsg
<1>3. \A d \in Client : Pending(d)' = Pending(d) /\ Dropping(d)' = Dropping(d)
  BY <1>1, <1>2 DEF Pending, Dropping
<1>t. TypeOK'
  <2>1. rep' \in [Client -> Reply]
    BY ReplyMade DEF Inductive, TypeOK, LoadSCReturn, StoreSCReturn, Receive
  <2>2. obs' \in {Nothing} \union (Client \X Addr \X Val)
    <3>1. rep[c] \in Reply
      BY DEF Inductive, TypeOK
    <3> QED
      BY <3>1, ReplyFields DEF LoadSCReturn, StoreSCReturn, Receive
  <2> QED
    BY <1>1, <2>1, <2>2 DEF Inductive, TypeOK
<1>a. Exchange'
  BY <1>1, <1>2, <1>3 DEF Inductive, Exchange
<1>b. WellLogged'
  BY <1>3 DEF Inductive, WellLogged
<1>c. HomeSeen' /\ Untouched'
  BY <1>1 DEF Inductive, HomeSeen, Untouched
<1>d. KnownPages' /\ Absent' /\ WordSeen' /\ Arriving'
  BY <1>0, <1>1, <1>2 DEF Inductive, KnownPages, Absent, WordSeen, Arriving
<1>e. PendingMapped'
  BY <1>0, <1>1, <1>3 DEF Inductive, PendingMapped
<1>f. Coherent'
  BY <1>0, <1>1, <1>3 DEF Inductive, Coherent, Current
<1>g. Fresh'
  BY <1>0, <1>1, <1>3 DEF Inductive, Fresh
<1> QED
  BY <1>t, <1>a, <1>b, <1>c, <1>d, <1>e, <1>f, <1>g DEF Inductive

-----------------------------------------------------------------------------
(* Handlers of the home. *)

(* What every handler leaves behind.                                       *)
LEMMA AnswerFrame ==
  ASSUME Inductive, NEW c \in Client, NEW m \in Reply, Answer(c, m),
         req[c].op # "none",
         m.op = "inval" => req[c].op = "sync",
         m.op = "word" => c \in Light
  PROVE  /\ valid' = valid /\ copy' = copy /\ log' = log /\ stores' = stores
         /\ obs' = Nothing
         /\ req' \in [Client -> Request] /\ rep' \in [Client -> Reply]
         /\ req'[c].op = "none" /\ rep'[c] = m /\ rep[c].op = "none"
         /\ \A d \in Client : d # c =>
              /\ req'[d] = req[d] /\ rep'[d] = rep[d]
              /\ Pending(d)' = Pending(d) /\ Dropping(d)' = Dropping(d)
         /\ req[c].op # "sync" => Pending(c)' = Pending(c)
         /\ req[c].op = "sync" => Pending(c)' = << >> /\ Pending(c) = req[c].log
         /\ Dropping(c) = {}
         /\ m.op # "inval" => Dropping(c)' = {}
         /\ m.op = "inval" => Dropping(c)' = m.pages
         /\ Exchange' /\ WellLogged' /\ PendingMapped'
<1> USE DEF clientVars
<1>0. Heavy \subseteq Client /\ Light \subseteq Client
  BY DEF Client
<1>1. valid' = valid /\ copy' = copy /\ log' = log /\ stores' = stores /\ obs' = Nothing
  BY DEF Answer
<1>2. req' \in [Client -> Request] /\ rep' \in [Client -> Reply]
  BY RequestMade DEF Answer, Inductive, TypeOK
<1>3. req'[c].op = "none" /\ rep'[c] = m
  BY DEF Answer, Inductive, TypeOK, NoMsg
<1>4. rep[c].op = "none"
  BY DEF Inductive, Exchange
<1>5. \A d \in Client : d # c => req'[d] = req[d] /\ rep'[d] = rep[d]
  BY DEF Answer, Inductive, TypeOK
<1>6. \A d \in Client : d # c => Pending(d)' = Pending(d) /\ Dropping(d)' = Dropping(d)
  BY <1>1, <1>5 DEF Pending, Dropping
<1>7. req[c].op # "sync" => Pending(c)' = Pending(c)
  BY <1>1, <1>3 DEF Pending
<1>8. req[c].op = "sync" => Pending(c)' = << >> /\ Pending(c) = req[c].log
  BY <1>1, <1>3 DEF Pending, Inductive, Exchange
<1>9. /\ Dropping(c) = {}
      /\ m.op # "inval" => Dropping(c)' = {}
      /\ m.op = "inval" => Dropping(c)' = m.pages
  BY <1>3, <1>4 DEF Dropping
<1>10. Exchange'
  BY <1>1, <1>3, <1>5, <1>6, <1>7, <1>8 DEF Inductive, Exchange
<1>11. WellLogged'
  <2>1. Settled(<< >>)
    BY WrittenEmpty DEF Settled
  <2> QED
    BY <1>6, <1>7, <1>8, <2>1 DEF Inductive, WellLogged
<1>12. PendingMapped'
  <2>1. PagesOf(Written(<< >>)) = {}
    BY WrittenEmpty DEF PagesOf
  <2> QED
    BY <1>0, <1>1, <1>6, <1>7, <1>8, <2>1 DEF Inductive, PendingMapped
<1> QED
  BY <1>1, <1>2, <1>3, <1>4, <1>5, <1>6, <1>7, <1>8, <1>9, <1>10, <1>11, <1>12

(* heapSegfaultHandler: the page that leaves is the home's.                *)
LEMMA HandleFaultStep ==
  ASSUME Inductive, NEW c \in Client, HandleFault(c)
  PROVE  Inductive'
<1> DEFINE p == req[c].page
           m == [op |-> "page", page |-> p,
                 data |-> [w \in Word |-> home[<<p, w>>]]]
<1>0. Heavy \subseteq Client /\ Light \subseteq Client
  BY DEF Client
<1>1. req[c] \in Request /\ req[c].op = "fault"
  BY DEF HandleFault, Inductive, TypeOK
<1>2. p \in Page /\ p <= heapTop
  BY <1>1, RequestFields DEF HandleFault
<1>3. m \in Reply
  <2>1. [w \in Word |-> home[<<p, w>>]] \in [Word -> Val]
    BY <1>2 DEF Inductive, TypeOK, Addr
  <2> QED
    BY <1>2, <2>1, ReplyMade
<1>4. Answer(c, m) /\ m.op = "page" /\ m.page = p
  BY DEF HandleFault
<1>5. /\ valid' = valid /\ copy' = copy /\ log' = log /\ stores' = stores
      /\ obs' = Nothing
      /\ req' \in [Client -> Request] /\ rep' \in [Client -> Reply]
      /\ req'[c].op = "none" /\ rep'[c] = m
      /\ \A d \in Client : d # c => req'[d] = req[d] /\ rep'[d] = rep[d]
      /\ \A d \in Client : Pending(d)' = Pending(d) /\ Dropping(d)' = Dropping(d)
      /\ Exchange' /\ WellLogged' /\ PendingMapped'
  <2>1. req[c].op # "none" /\ req[c].op # "sync" /\ m.op # "inval" /\ m.op # "word"
    BY <1>1, <1>4
  <2> HIDE DEF m
  <2> QED
    BY <1>3, <1>4, <2>1, AnswerFrame
<1>6. home' = home /\ heapTop' = heapTop
  BY DEF HandleFault
<1>7. \A d \in Client, a \in Addr :
        seen'[d][a] = IF d = c /\ a[1] = p THEN {home[a]} ELSE seen[d][a]
  BY DEF HandleFault, Refreshed, Inductive, TypeOK, Addr
<1>8. /\ accessS' \in [Page -> SUBSET Client]
      /\ \A q \in Page, d \in Client :
           ~(q = p /\ d = c) => (d \in accessS'[q] <=> d \in accessS[q])
  BY DEF HandleFault, Inductive, TypeOK
<1>9. seen' \in [Client -> [Addr -> SUBSET Val]]
  BY DEF HandleFault, Refreshed, Inductive, TypeOK
<1>10. \A w \in Word : m.data[w] = home[<<p, w>>]
  OBVIOUS
<1> HIDE DEF m
<1>11. c \in Heavy => p \notin valid[c]
  BY <1>1 DEF Inductive, Absent
<1>12. \A d \in Client : d # c => seen'[d] = seen[d]
  BY DEF HandleFault, Refreshed, Inductive, TypeOK
<1>t. TypeOK'
  BY <1>5, <1>6, <1>8, <1>9 DEF Inductive, TypeOK
<1>a. HomeSeen' /\ Untouched'
  BY <1>6, <1>7 DEF Inductive, HomeSeen, Untouched
<1>b. KnownPages'
  BY <1>2, <1>4, <1>5, <1>6 DEF Inductive, KnownPages
<1>c. Absent'
  BY <1>0, <1>4, <1>5, <1>11 DEF Inductive, Absent
<1>d. WordSeen'
  BY <1>0, <1>4, <1>5, <1>12 DEF Inductive, WordSeen
<1>e. Arriving'
  <2> SUFFICES ASSUME NEW d \in Heavy, NEW a \in Addr
               PROVE  /\ rep'[d].op = "page" /\ rep'[d].page = a[1] =>
                           /\ rep'[d].data[a[2]] \in seen'[d][a]
                           /\ d \in accessS'[a[1]] => rep'[d].data[a[2]] = home[a]
                      /\ rep'[d].op = "chunk" /\ a[1] \in rep'[d].pages =>
                           /\ Zero \in seen'[d][a]
                           /\ d \in accessS'[a[1]] => home[a] = Zero
    BY <1>6 DEF Arriving
  <2>1. CASE d = c
    <3>1. a[1] = p => home[a] = m.data[a[2]]
      BY <1>10 DEF Addr
    <3> QED
      BY <2>1, <3>1, <1>0, <1>4, <1>5, <1>7
  <2>2. CASE d # c
    <3>1. a[1] \in Page
      BY DEF Addr
    <3> QED
      BY <2>2, <3>1, <1>0, <1>5, <1>8, <1>12 DEF Inductive, Arriving
  <2> QED
    BY <2>1, <2>2
<1>f. Coherent'
  <2> SUFFICES ASSUME NEW d \in Heavy, NEW q \in valid[d] \ Dropping(d), d \in accessS'[q], NEW w \in Word
               PROVE  copy[d][<<q, w>>] = Current(d, <<q, w>>)
    BY <1>0, <1>5, <1>6 DEF Coherent, Current
  <2>1. q \in Page /\ ~(d = c /\ q = p)
    BY <1>0, <1>11 DEF Inductive, TypeOK
  <2> QED
    BY <1>0, <1>8, <2>1 DEF Inductive, Coherent
<1>g. Fresh'
  <2> SUFFICES ASSUME NEW d \in Heavy, NEW q \in valid[d] \ Dropping(d), NEW w \in Word
               PROVE  IF <<q, w>> \in Written(Pending(d))
                        THEN copy[d][<<q, w>>] = LastOf(Pending(d), <<q, w>>)
                        ELSE copy[d][<<q, w>>] \in seen'[d][<<q, w>>]
    BY <1>0, <1>5 DEF Fresh
  <2>1. q \in Page /\ ~(d = c /\ q = p)
    BY <1>0, <1>11 DEF Inductive, TypeOK
  <2>2. seen'[d][<<q, w>>] = seen[d][<<q, w>>]
    BY <1>0, <1>7, <2>1 DEF Addr
  <2> QED
    BY <2>2 DEF Inductive, Fresh
<1> QED
  BY <1>5, <1>t, <1>a, <1>b, <1>c, <1>d, <1>e, <1>f, <1>g DEF Inductive

(* loadHandler: only the light client that asked is affected.              *)
LEMMA HandleLoadStep ==
  ASSUME Inductive, NEW c \in Client, HandleLoad(c)
  PROVE  Inductive'
<1> DEFINE b == req[c].addr
           m == [op |-> "word", addr |-> b, val |-> home[b]]
<1>0. Heavy \subseteq Client /\ Light \subseteq Client
  BY DEF Client
<1>1. req[c] \in Request /\ req[c].op = "load"
  BY DEF HandleLoad, Inductive, TypeOK
<1>2. b \in Addr /\ c \in Light /\ c \notin Heavy
  BY <1>1, RequestFields, ClientsAssumption DEF Inductive, Exchange
<1>3. m \in Reply
  BY <1>2, ReplyMade DEF Inductive, TypeOK
<1>4. Answer(c, m) /\ m.op = "word" /\ m.addr = b /\ m.val = home[b]
  BY DEF HandleLoad
<1> HIDE DEF m
<1>5. /\ valid' = valid /\ copy' = copy /\ log' = log /\ stores' = stores
      /\ obs' = Nothing
      /\ req' \in [Client -> Request] /\ rep' \in [Client -> Reply]
      /\ req'[c].op = "none" /\ rep'[c] = m
      /\ \A d \in Client : d # c => req'[d] = req[d] /\ rep'[d] = rep[d]
      /\ \A d \in Client : Pending(d)' = Pending(d) /\ Dropping(d)' = Dropping(d)
      /\ Exchange' /\ WellLogged' /\ PendingMapped'
  BY <1>1, <1>2, <1>3, <1>4, AnswerFrame
<1>6. home' = home /\ heapTop' = heapTop /\ accessS' = accessS
  BY DEF HandleLoad
<1>7. \A d \in Client, a \in Addr :
        seen'[d][a] = IF d = c /\ a = b THEN {home[a]} ELSE seen[d][a]
  BY DEF HandleLoad, Refreshed, Inductive, TypeOK
<1>8. \A d \in Client : d # c => seen'[d] = seen[d]
  BY DEF HandleLoad, Refreshed, Inductive, TypeOK
<1>9. seen' \in [Client -> [Addr -> SUBSET Val]]
  BY DEF HandleLoad, Refreshed, Inductive, TypeOK
<1>t. TypeOK'
  BY <1>5, <1>6, <1>9 DEF Inductive, TypeOK
<1>a. HomeSeen' /\ Untouched'
  BY <1>6, <1>7 DEF Inductive, HomeSeen, Untouched
<1>b. KnownPages'
  BY <1>4, <1>5, <1>6 DEF Inductive, KnownPages
<1>c. Absent'
  BY <1>0, <1>2, <1>5 DEF Inductive, Absent
<1>d. WordSeen'
  <2> SUFFICES ASSUME NEW d \in Light, rep'[d].op = "word"
               PROVE  rep'[d].val \in seen'[d][rep'[d].addr]
    BY DEF WordSeen
  <2>1. CASE d = c
    <3>1. home[b] \in seen'[c][b]
      BY <1>2, <1>7
    <3> QED
      BY <2>1, <3>1, <1>4, <1>5
  <2>2. CASE d # c
    BY <2>2, <1>0, <1>5, <1>8 DEF Inductive, WordSeen
  <2> QED
    BY <2>1, <2>2
<1>e. Arriving'
  BY <1>0, <1>2, <1>5, <1>6, <1>8 DEF Inductive, Arriving
<1>f. Coherent'
  BY <1>0, <1>5, <1>6 DEF Inductive, Coherent, Current
<1>g. Fresh'
  BY <1>0, <1>2, <1>5, <1>8 DEF Inductive, Fresh
<1> QED
  BY <1>5, <1>t, <1>a, <1>b, <1>c, <1>d, <1>e, <1>f, <1>g DEF Inductive

(* heapAllocHandler: the new pages are beyond the old top of the heap, so  *)
(* nobody has them and nothing has been written to them.                   *)
LEMMA HandleMallocStep ==
  ASSUME Inductive, NEW c \in Client, HandleMalloc(c)
  PROVE  Inductive'
<1> DEFINE n == req[c].size
           P == heapTop + 1 .. heapTop + n
           m == [op |-> "chunk", pages |-> P]
<1>0. Heavy \subseteq Client /\ Light \subseteq Client
  BY DEF Client
<1>1. req[c] \in Request /\ req[c].op = "malloc"
  BY DEF HandleMalloc, Inductive, TypeOK
<1>2. n \in Nat \ {0} /\ heapTop \in Nat /\ heapTop + n <= NumPages
  <2>1. n \in AllocSizes
    BY <1>1, RequestFields
  <2>2. heapTop \in Nat
    BY BoundsAssumption DEF Inductive, TypeOK
  <2>3. heapTop + n <= NumPages
    BY DEF HandleMalloc
  <2> QED
    BY <2>1, <2>2, <2>3, AllocAssumption
<1>3. P \in SUBSET Page
  BY <1>2, BoundsAssumption DEF Page
<1>4. m \in Reply
  BY <1>3, ReplyMade
<1>5. Answer(c, m) /\ m.op = "chunk" /\ m.pages = P
  BY DEF HandleMalloc
<1> HIDE DEF m
<1>6. /\ valid' = valid /\ copy' = copy /\ log' = log /\ stores' = stores
      /\ obs' = Nothing
      /\ req' \in [Client -> Request] /\ rep' \in [Client -> Reply]
      /\ req'[c].op = "none" /\ rep'[c] = m
      /\ \A d \in Client : d # c => req'[d] = req[d] /\ rep'[d] = rep[d]
      /\ \A d \in Client : Pending(d)' = Pending(d) /\ Dropping(d)' = Dropping(d)
      /\ Exchange' /\ WellLogged' /\ PendingMapped'
  BY <1>1, <1>4, <1>5, AnswerFrame
<1>7. home' = home /\ seen' = seen /\ heapTop' = heapTop + n
  BY DEF HandleMalloc
<1>8. /\ accessS' \in [Page -> SUBSET Client]
      /\ \A q \in Page : q <= heapTop => accessS'[q] = accessS[q]
  BY <1>2 DEF HandleMalloc, Inductive, TypeOK, Page
<1>9. \A d \in Client : \A q \in valid[d] : q \in Page /\ q <= heapTop
  BY DEF Inductive, KnownPages, TypeOK, Page
<1>t. TypeOK'
  BY <1>2, <1>6, <1>7, <1>8, BoundsAssumption DEF Inductive, TypeOK
<1>a. HomeSeen'
  BY <1>7 DEF Inductive, HomeSeen
<1>b. Untouched'
  BY <1>2, <1>7 DEF Inductive, Untouched, Addr, Page
<1>c. KnownPages'
  <2>1. 1 .. heapTop \subseteq 1 .. heapTop' /\ P \subseteq 1 .. heapTop'
    BY <1>2, <1>7
  <2>2. \A d \in Client : rep[d].op = "page" => rep[d].page <= heapTop'
    <3>1. \A d \in Client : rep[d].op = "page" => rep[d].page \in Page
      BY ReplyFields DEF Inductive, TypeOK
    <3> QED
      BY <3>1, <1>2, <1>7, BoundsAssumption DEF Inductive, KnownPages, Page
  <2> HIDE DEF P
  <2> QED
    BY <1>5, <1>6, <2>1, <2>2 DEF Inductive, KnownPages
<1>d. Absent'
  <2>1. \A d \in Client : P \intersect valid[d] = {}
    BY <1>2, <1>9 DEF Page
  <2> HIDE DEF P
  <2> QED
    BY <1>0, <1>5, <1>6, <2>1 DEF Inductive, Absent
<1>e. WordSeen'
  BY <1>0, <1>5, <1>6, <1>7 DEF Inductive, WordSeen
<1>f. Arriving'
  <2> SUFFICES ASSUME NEW d \in Heavy, NEW a \in Addr
               PROVE  /\ rep'[d].op = "page" /\ rep'[d].page = a[1] =>
                           /\ rep'[d].data[a[2]] \in seen[d][a]
                           /\ d \in accessS'[a[1]] => rep'[d].data[a[2]] = home[a]
                      /\ rep'[d].op = "chunk" /\ a[1] \in rep'[d].pages =>
                           /\ Zero \in seen[d][a]
                           /\ d \in accessS'[a[1]] => home[a] = Zero
    BY <1>7 DEF Arriving
  <2>1. a[1] \in Page
    BY DEF Addr
  <2>2. CASE d = c
    <3>1. a[1] \in P => home[a] = Zero /\ home[a] \in seen[c][a]
      BY <1>2, <2>1 DEF Inductive, Untouched, HomeSeen, Page
    <3> HIDE DEF P
    <3> QED
      BY <2>2, <3>1, <1>5, <1>6
  <2>3. CASE d # c
    <3>1. rep[d].op = "page" /\ rep[d].page = a[1] => a[1] <= heapTop
      BY <1>0 DEF Inductive, KnownPages
    <3>2. rep[d].op = "chunk" /\ a[1] \in rep[d].pages => a[1] <= heapTop
      BY <1>0, <1>2 DEF Inductive, KnownPages
    <3> QED
      BY <2>1, <2>3, <3>1, <3>2, <1>0, <1>6, <1>8 DEF Inductive, Arriving
  <2> QED
    BY <2>2, <2>3
<1>g. Coherent'
  BY <1>0, <1>6, <1>7, <1>8, <1>9 DEF Inductive, Coherent, Current
<1>h. Fresh'
  BY <1>0, <1>6, <1>7 DEF Inductive, Fresh
<1> QED
  BY <1>6, <1>t, <1>a, <1>b, <1>c, <1>d, <1>e, <1>f, <1>g, <1>h DEF Inductive

(* Coherent, Fresh and Arriving, for one client.                           *)
RightFor(d) ==
  /\ \A p \in valid[d] \ Dropping(d) : d \in accessS[p] =>
       \A w \in Word : copy[d][<<p, w>>] = Current(d, <<p, w>>)
  /\ \A p \in valid[d] \ Dropping(d) : \A w \in Word :
       IF <<p, w>> \in Written(Pending(d))
         THEN copy[d][<<p, w>>] = LastOf(Pending(d), <<p, w>>)
         ELSE copy[d][<<p, w>>] \in seen[d][<<p, w>>]
  /\ \A a \in Addr :
       /\ rep[d].op = "page" /\ rep[d].page = a[1] =>
            /\ rep[d].data[a[2]] \in seen[d][a]
            /\ d \in accessS[a[1]] => rep[d].data[a[2]] = home[a]
       /\ rep[d].op = "chunk" /\ a[1] \in rep[d].pages =>
            /\ Zero \in seen[d][a]
            /\ d \in accessS[a[1]] => home[a] = Zero

LEMMA RightForAll == Coherent /\ Fresh /\ Arriving <=> \A d \in Heavy : RightFor(d)
<1>1. Coherent <=> \A d \in Heavy : \A p \in valid[d] \ Dropping(d) : d \in accessS[p] =>
        \A w \in Word : copy[d][<<p, w>>] = Current(d, <<p, w>>)
  BY DEF Coherent
<1>2. Fresh <=> \A d \in Heavy : \A p \in valid[d] \ Dropping(d) : \A w \in Word :
        IF <<p, w>> \in Written(Pending(d))
          THEN copy[d][<<p, w>>] = LastOf(Pending(d), <<p, w>>)
          ELSE copy[d][<<p, w>>] \in seen[d][<<p, w>>]
  BY DEF Fresh
<1>3. Arriving <=> \A d \in Heavy : \A a \in Addr :
        /\ rep[d].op = "page" /\ rep[d].page = a[1] =>
             /\ rep[d].data[a[2]] \in seen[d][a]
             /\ d \in accessS[a[1]] => rep[d].data[a[2]] = home[a]
        /\ rep[d].op = "chunk" /\ a[1] \in rep[d].pages =>
             /\ Zero \in seen[d][a]
             /\ d \in accessS[a[1]] => home[a] = Zero
  BY DEF Arriving
<1> QED
  BY <1>1, <1>2, <1>3, Zenon DEF RightFor

(* A step that does nothing at client d.                                   *)
QuietAt(d) ==
  /\ valid'[d] = valid[d] /\ copy'[d] = copy[d] /\ rep'[d] = rep[d]
  /\ Pending(d)' = Pending(d) /\ Dropping(d)' = Dropping(d)
  /\ \A a \in Addr : seen[d][a] \subseteq seen'[d][a]

(* A write of c to memory, on the pages W.                                 *)
WriteBy(c, W) ==
  /\ W \in SUBSET Page
  /\ \A p \in Page \ W : \A w \in Word : home'[<<p, w>>] = home[<<p, w>>]
  /\ \A p \in W : accessS'[p] = {c}
  /\ \A p \in Page \ W : accessS'[p] = accessS[p]

(* A handler that writes to memory leaves the other clients right: they    *)
(* are no longer holders of a page that has changed.                       *)
LEMMA OthersUndisturbed ==
  ASSUME Inductive, NEW c \in Client, NEW d \in Heavy, d # c, NEW W,
         QuietAt(d), WriteBy(c, W)
  PROVE  RightFor(d)'
<1> USE DEF QuietAt, WriteBy
<1>1. \A p \in valid[d] : p \in Page
  BY DEF Inductive, TypeOK, Client
<1>2. \A p \in Page : d \in accessS'[p] =>
        /\ d \in accessS[p]
        /\ \A w \in Word : home'[<<p, w>>] = home[<<p, w>>]
  OBVIOUS
<1>3. \A p \in valid'[d] \ Dropping(d)' : d \in accessS'[p] =>
        \A w \in Word : copy'[d][<<p, w>>] = Current(d, <<p, w>>)'
  BY <1>1, <1>2 DEF Inductive, Coherent, Current
<1>4. \A p \in valid'[d] \ Dropping(d)' : \A w \in Word :
        IF <<p, w>> \in Written(Pending(d)')
          THEN copy'[d][<<p, w>>] = LastOf(Pending(d)', <<p, w>>)
          ELSE copy'[d][<<p, w>>] \in seen'[d][<<p, w>>]
  BY <1>1 DEF Inductive, Fresh, Addr
<1>5. \A a \in Addr : a[1] \in Page /\ a[2] \in Word /\ a = <<a[1], a[2]>>
  BY DEF Addr
<1>6. \A a \in Addr : d \in accessS'[a[1]] => d \in accessS[a[1]] /\ home'[a] = home[a]
  BY <1>2, <1>5
<1>7. \A a \in Addr :
        /\ rep[d].op = "page" /\ rep[d].page = a[1] =>
             /\ rep[d].data[a[2]] \in seen'[d][a]
             /\ d \in accessS'[a[1]] => rep[d].data[a[2]] = home'[a]
        /\ rep[d].op = "chunk" /\ a[1] \in rep[d].pages =>
             /\ Zero \in seen'[d][a]
             /\ d \in accessS'[a[1]] => home'[a] = Zero
  BY <1>6 DEF Inductive, Arriving
<1> QED
  BY <1>3, <1>4, <1>7 DEF RightFor

(* A log of aligned stores is booked under the pages it writes.            *)
LEMMA MarkedIsWritten ==
  ASSUME Aligned, NEW l \in Seq(LogEntry)
  PROVE  PagesOf(Written(l)) = MarkedBy(l)
<1>1. \A i \in DOMAIN l : l[i].at \in Extent
  <2> TAKE i \in DOMAIN l
  <2>1. l[i] \in LogEntry
    OBVIOUS
  <2> QED
    BY <2>1 DEF LogEntry
<1>2. \A i \in DOMAIN l : Marked(l[i].at) = PagesOf(l[i].at)
  BY <1>1 DEF Aligned, LogsAligned
<1>3. MarkedBy(l) = UNION {PagesOf(l[i].at) : i \in DOMAIN l}
  BY <1>2 DEF MarkedBy
<1>4. PagesOf(Written(l)) = UNION {PagesOf(l[i].at) : i \in DOMAIN l}
  BY DEF PagesOf, Written
<1> QED
  BY <1>3, <1>4

(* syncHandler: the pages the client keeps are those it was a holder of,   *)
(* and there its copy is the home's memory after the replay.               *)
LEMMA HandleSyncStep ==
  ASSUME Inductive, Aligned, NEW c \in Client, HandleSync(c)
  PROVE  Inductive'
<1> DEFINE l == req[c].log
           new == Replay(home, l)
           W == PagesOf(Written(l))
           m == [op |-> "inval", pages |-> NotHeldBy(c)]
<1>0. Heavy \subseteq Client /\ Light \subseteq Client
  BY DEF Client
<1>1. req[c] \in Request /\ req[c].op = "sync"
  BY DEF HandleSync, Inductive, TypeOK
<1>2. l \in Seq(LogEntry) /\ Pending(c) = l /\ Settled(l)
  BY <1>1, RequestFields DEF Pending, Inductive, WellLogged
<1>3. new \in [Addr -> Val]
  BY <1>2, ReplyMade, ReplayType DEF Inductive, TypeOK
<1>4. W \in SUBSET Page /\ W \subseteq 1 .. heapTop
  <2>1. W = MarkedBy(l)
    BY <1>2, MarkedIsWritten
  <2>2. MarkedBy(l) \subseteq 1 .. heapTop
    BY DEF HandleSync
  <2> QED
    BY <1>2, <2>1, <2>2, WrittenType DEF PagesOf, Addr
<1>5. m \in Reply
  <2>1. NotHeldBy(c) \in SUBSET Page
    BY BoundsAssumption DEF NotHeldBy, Inductive, TypeOK, Page
  <2> QED
    BY <2>1, ReplyMade
<1>6. Answer(c, m) /\ m.op = "inval" /\ m.pages = NotHeldBy(c)
  BY DEF HandleSync
<1> HIDE DEF m
<1>7. /\ valid' = valid /\ copy' = copy /\ log' = log /\ stores' = stores
      /\ obs' = Nothing
      /\ req' \in [Client -> Request] /\ rep' \in [Client -> Reply]
      /\ req'[c].op = "none" /\ rep'[c] = m
      /\ \A d \in Client : d # c =>
           /\ req'[d] = req[d] /\ rep'[d] = rep[d]
           /\ Pending(d)' = Pending(d) /\ Dropping(d)' = Dropping(d)
      /\ Pending(c)' = << >> /\ Dropping(c) = {} /\ Dropping(c)' = NotHeldBy(c)
      /\ Exchange' /\ WellLogged' /\ PendingMapped'
  BY <1>1, <1>5, <1>6, AnswerFrame
<1>8. home' = new /\ heapTop' = heapTop
  BY DEF HandleSync
<1>9. /\ accessS' \in [Page -> SUBSET Client]
      /\ \A p \in W : accessS'[p] = {c}
      /\ \A p \in Page \ W : accessS'[p] = accessS[p]
  <2>1. accessS' = [p \in Page |-> IF p \in W THEN {c} ELSE accessS[p]]
    BY <1>2, MarkedIsWritten DEF HandleSync
  <2> HIDE DEF W
  <2> QED
    BY <1>4, <2>1 DEF Inductive, TypeOK
<1>10. /\ seen' \in [Client -> [Addr -> SUBSET Val]]
       /\ \A a \in Addr : seen'[c][a] = {new[a]}
       /\ \A d \in Client : d # c => \A a \in Addr : seen'[d][a] = seen[d][a] \union {new[a]}
  <2>1. seen' = [d \in Client |-> [a \in Addr |->
                   IF d = c THEN {new[a]} ELSE seen[d][a] \union {new[a]}]]
    BY DEF HandleSync
  <2> HIDE DEF new
  <2> QED
    BY <1>3, <2>1 DEF Inductive, TypeOK
<1>11. \A a \in Addr :
         /\ a \in Written(l) => new[a] = LastOf(l, a)
         /\ a \notin Written(l) => new[a] = home[a]
  BY DEF Inductive, TypeOK, Replay
<1>12. \A p \in Page \ W : \A w \in Word : new[<<p, w>>] = home[<<p, w>>]
  BY <1>11 DEF PagesOf, Addr
<1> HIDE DEF new, W, l
<1>13. \A d \in Heavy : d # c => RightFor(d)'
  <2> TAKE d \in Heavy
  <2> HAVE d # c
  <2>1. QuietAt(d)
    BY <1>0, <1>7, <1>10 DEF QuietAt
  <2>2. WriteBy(c, W)
    BY <1>4, <1>8, <1>9, <1>12 DEF WriteBy
  <2> QED
    BY <2>1, <2>2, OthersUndisturbed
<1>14. \A p \in valid'[c] \ Dropping(c)' : c \in Heavy => \A w \in Word :
         /\ <<p, w>> \in Addr
         /\ copy'[c][<<p, w>>] = new[<<p, w>>]
  <2> SUFFICES ASSUME NEW p \in valid[c] \ NotHeldBy(c), c \in Heavy, NEW w \in Word
               PROVE  <<p, w>> \in Addr /\ copy[c][<<p, w>>] = new[<<p, w>>]
    BY <1>7
  <2>1. p \in Page /\ p \in 1 .. heapTop /\ <<p, w>> \in Addr
    BY DEF Inductive, TypeOK, KnownPages, Addr
  <2>2. c \in accessS[p]
    BY <2>1 DEF NotHeldBy
  <2>3. copy[c][<<p, w>>] = Current(c, <<p, w>>)
    BY <2>2, <1>7 DEF Inductive, Coherent
  <2> QED
    BY <1>2, <1>11, <2>1, <2>3 DEF Current
<1>t. TypeOK'
  BY <1>3, <1>7, <1>8, <1>9, <1>10 DEF Inductive, TypeOK
<1>a. HomeSeen'
  BY <1>8, <1>10 DEF HomeSeen
<1>b. Untouched'
  <2> SUFFICES ASSUME NEW a \in Addr, a[1] > heapTop PROVE new[a] = Zero
    BY <1>8 DEF Untouched
  <2>1. a \notin Written(l)
    <3>1. a \in Written(l) => a[1] \in 1 .. heapTop
      BY <1>4 DEF PagesOf, W
    <3> QED
      BY <3>1, BoundsAssumption DEF Inductive, TypeOK
  <2> QED
    BY <2>1, <1>11 DEF Inductive, Untouched
<1>c. KnownPages' /\ Absent'
  BY <1>0, <1>6, <1>7, <1>8 DEF Inductive, KnownPages, Absent
<1>d. WordSeen'
  <2> SUFFICES ASSUME NEW d \in Light, rep'[d].op = "word"
               PROVE  rep'[d].val \in seen'[d][rep'[d].addr]
    BY DEF WordSeen
  <2>1. d # c /\ rep'[d] = rep[d]
    BY <1>0, <1>6, <1>7
  <2>2. rep[d].addr \in Addr
    BY <1>0, <2>1, ReplyFields DEF Inductive, TypeOK
  <2> QED
    BY <2>1, <2>2, <1>0, <1>10 DEF Inductive, WordSeen
<1>e. RightFor(c)' \/ c \notin Heavy
  <2>1. Written(<< >>) = {}
    BY WrittenEmpty
  <2> SUFFICES ASSUME c \in Heavy PROVE RightFor(c)'
    OBVIOUS
  <2>2. \A p \in valid'[c] \ Dropping(c)' : \A w \in Word :
          copy'[c][<<p, w>>] = Current(c, <<p, w>>)'
    BY <2>1, <1>7, <1>8, <1>14 DEF Current
  <2>3. \A p \in valid'[c] \ Dropping(c)' : \A w \in Word :
          copy'[c][<<p, w>>] \in seen'[c][<<p, w>>]
    BY <1>10, <1>14
  <2> QED
    BY <2>1, <2>2, <2>3, <1>6, <1>7 DEF RightFor
<1>f. Coherent' /\ Fresh' /\ Arriving'
  <2>1. (Coherent /\ Fresh /\ Arriving <=> \A d \in Heavy : RightFor(d))'
    BY RightForAll, PTL
  <2> QED
    BY <1>13, <1>e, <2>1
<1> QED
  BY <1>7, <1>t, <1>a, <1>b, <1>c, <1>d, <1>f DEF Inductive

(* storeHandler: the store is within the one page the directory entry is   *)
(* changed for.                                                            *)
LEMMA HandleStoreStep ==
  ASSUME Inductive, Aligned, NEW c \in Client, HandleStore(c)
  PROVE  Inductive'
<1> DEFINE E == req[c].at
           new == [a \in Addr |-> IF a \in E THEN req[c].val ELSE home[a]]
           p == FirstPage(E)
           m == [op |-> "ack"]
<1>0. Heavy \subseteq Client /\ Light \subseteq Client
  BY DEF Client
<1>1. req[c] \in Request /\ req[c].op = "store"
  BY DEF HandleStore, Inductive, TypeOK
<1>2. E \in LightExtent /\ req[c].val \in Val /\ c \in Light /\ c \notin Heavy
  BY <1>1, RequestFields, ClientsAssumption DEF Inductive, Exchange
<1>3. p \in Page /\ PagesOf(E) = {p} /\ p <= heapTop
  <2>1. PICK q \in Page : PagesOf(E) = {q}
    BY <1>2 DEF Aligned, LightAligned
  <2>2. q = p
    BY <2>1 DEF FirstPage, Page
  <2> QED
    BY <2>1, <2>2 DEF HandleStore
<1>4. Answer(c, m) /\ m \in Reply /\ m.op = "ack"
  BY ReplyMade DEF HandleStore
<1> HIDE DEF m
<1>5. /\ valid' = valid /\ copy' = copy /\ log' = log /\ stores' = stores
      /\ obs' = Nothing
      /\ req' \in [Client -> Request] /\ rep' \in [Client -> Reply]
      /\ req'[c].op = "none" /\ rep'[c] = m
      /\ \A d \in Client : d # c => req'[d] = req[d] /\ rep'[d] = rep[d]
      /\ \A d \in Client : Pending(d)' = Pending(d) /\ Dropping(d)' = Dropping(d)
      /\ Exchange' /\ WellLogged' /\ PendingMapped'
  BY <1>1, <1>4, AnswerFrame
<1>6. home' = new /\ heapTop' = heapTop /\ new \in [Addr -> Val]
  BY <1>2 DEF HandleStore, Inductive, TypeOK
<1>7. /\ accessS' \in [Page -> SUBSET Client]
      /\ accessS'[p] = {c}
      /\ \A q \in Page : q # p => accessS'[q] = accessS[q]
  BY <1>3 DEF HandleStore, Inductive, TypeOK
<1>8. \A a \in Addr : a[1] # p => new[a] = home[a]
  BY <1>3 DEF PagesOf
<1>9. /\ seen' \in [Client -> [Addr -> SUBSET Val]]
      /\ \A d \in Client, a \in Addr : new[a] \in seen'[d][a]
      /\ \A d \in Client : d # c => \A a \in Addr : seen[d][a] \subseteq seen'[d][a]
  <2>1. seen' = [d \in Client |-> [a \in Addr |->
                   IF d = c /\ a \in E THEN {new[a]} ELSE seen[d][a] \union {new[a]}]]
    BY DEF HandleStore
  <2> HIDE DEF new, E
  <2> QED
    BY <1>6, <2>1 DEF Inductive, TypeOK
<1> HIDE DEF new, E, p
<1>10. \A d \in Heavy : RightFor(d)'
  <2> TAKE d \in Heavy
  <2>1. d # c /\ QuietAt(d)
    BY <1>0, <1>2, <1>5, <1>9 DEF QuietAt
  <2>2. WriteBy(c, {p})
    BY <1>3, <1>6, <1>7, <1>8 DEF WriteBy, Addr
  <2> QED
    BY <2>1, <2>2, OthersUndisturbed
<1>t. TypeOK'
  BY <1>5, <1>6, <1>7, <1>9 DEF Inductive, TypeOK
<1>a. HomeSeen'
  BY <1>6, <1>9 DEF HomeSeen
<1>b. Untouched'
  BY <1>3, <1>6, <1>8, BoundsAssumption DEF Inductive, Untouched, TypeOK, Page
<1>c. KnownPages' /\ Absent'
  BY <1>0, <1>2, <1>4, <1>5, <1>6 DEF Inductive, KnownPages, Absent
<1>d. WordSeen'
  <2> SUFFICES ASSUME NEW d \in Light, rep'[d].op = "word"
               PROVE  rep'[d].val \in seen'[d][rep'[d].addr]
    BY DEF WordSeen
  <2>1. d # c /\ rep'[d] = rep[d]
    BY <1>0, <1>4, <1>5
  <2>2. rep[d].addr \in Addr
    BY <1>0, <2>1, ReplyFields DEF Inductive, TypeOK
  <2> QED
    BY <2>1, <2>2, <1>0, <1>9 DEF Inductive, WordSeen
<1>e. Coherent' /\ Fresh' /\ Arriving'
  <2>1. (Coherent /\ Fresh /\ Arriving <=> \A d \in Heavy : RightFor(d))'
    BY RightForAll, PTL
  <2> QED
    BY <1>10, <2>1
<1> QED
  BY <1>5, <1>t, <1>a, <1>b, <1>c, <1>d, <1>e DEF Inductive

-----------------------------------------------------------------------------
(* The specification. *)

(* At the start there is no page, no log and no message.                   *)
LEMMA InductiveInit == Init => Inductive
<1> SUFFICES ASSUME Init PROVE Inductive
  OBVIOUS
<1> USE BoundsAssumption DEF Init
<1>0. Heavy \subseteq Client /\ Light \subseteq Client
  BY DEF Client
<1>1. \A c \in Client : Pending(c) = << >> /\ Dropping(c) = {} /\ valid[c] = {}
  BY DEF Pending, Dropping, NoMsg
<1>2. Written(<< >>) = {} /\ PagesOf(Written(<< >>)) = {} /\ Settled(<< >>)
  BY WrittenEmpty DEF PagesOf, Settled
<1>3. TypeOK
  BY RequestMade, ReplyMade DEF TypeOK, Val, Zero
<1>4. Exchange /\ WellLogged
  BY <1>1, <1>2 DEF Exchange, WellLogged, NoMsg
<1>5. HomeSeen /\ Untouched /\ KnownPages /\ Absent /\ WordSeen /\ Arriving
  BY <1>0 DEF HomeSeen, Untouched, KnownPages, Absent, WordSeen, Arriving, NoMsg
<1>6. PendingMapped /\ Coherent /\ Fresh
  BY <1>0, <1>1, <1>2 DEF PendingMapped, Coherent, Fresh
<1> QED
  BY <1>3, <1>4, <1>5, <1>6 DEF Inductive

(* Every step keeps the invariant.                                         *)
LEMMA InductiveStep ==
  ASSUME Aligned
  PROVE  Inductive /\ [Next]_vars => Inductive'
<1> SUFFICES ASSUME Inductive, [Next]_vars PROVE Inductive'
  OBVIOUS
<1>0. Heavy \subseteq Client
  BY DEF Client
<1>1. ASSUME NEW c \in Heavy, NEW E \in Extent, Store(c, E) PROVE Inductive'
  BY <1>1, StoreStep
<1>2. ASSUME NEW c \in Heavy, NEW a \in Addr, Load(c, a) PROVE Inductive'
  BY <1>2, LoadStep
<1>3. ASSUME NEW c \in Heavy, NEW p \in Page, Fault(c, p) PROVE Inductive'
  BY <1>0, <1>3, FaultStep
<1>4. ASSUME NEW c \in Light, NEW E \in LightExtent, StoreSC(c, E) PROVE Inductive'
  BY <1>4, StoreSCStep
<1>5. ASSUME NEW c \in Light, NEW a \in Addr, LoadSC(c, a) PROVE Inductive'
  BY <1>5, LoadSCStep
<1>6. ASSUME NEW c \in Client, NEW n \in AllocSizes, Malloc(c, n) PROVE Inductive'
  BY <1>6, MallocStep
<1>7. ASSUME NEW c \in Client, Sync(c) PROVE Inductive'
  BY <1>7, SyncStep
<1>8. ASSUME NEW c \in Client, Handle(c) PROVE Inductive'
  BY <1>8, HandleSyncStep, HandleFaultStep, HandleMallocStep, HandleLoadStep,
     HandleStoreStep DEF Handle
<1>9. ASSUME NEW c \in Client, Return(c) PROVE Inductive'
  BY <1>9, SyncReturnStep, FaultReturnStep, MallocReturnStep, WordReturnStep
     DEF Return
<1>10. CASE UNCHANGED vars
  BY <1>10, SilentStep DEF vars, homeVars, clientVars, Inductive, TypeOK
<1> QED
  BY <1>1, <1>2, <1>3, <1>4, <1>5, <1>6, <1>7, <1>8, <1>9, <1>10 DEF Next

(* For any number of clients, pages, words and stores: every variable has  *)
(* its type, the directory of the home is right about the copies the       *)
(* clients keep across a synchronisation, and a client reads nothing older *)
(* than its last synchronisation.  Aligned is what syncHandler and         *)
(* storeHandler need in order to book a store under all its pages.         *)
THEOREM Invariance == Aligned => (Spec => []Inductive)
<1> SUFFICES ASSUME Aligned PROVE Spec => []Inductive
  OBVIOUS
<1>1. Init => Inductive
  BY InductiveInit
<1>2. Inductive /\ [Next]_vars => Inductive'
  BY InductiveStep
<1> QED
  BY <1>1, <1>2, PTL DEF Spec

THEOREM TypeCorrect == Aligned => (Spec => []TypeOK)
<1>1. Inductive => TypeOK
  BY DEF Inductive
<1> QED
  BY <1>1, Invariance, PTL

(* The home leaves a page out of an invalidation list only if the copy is  *)
(* current (NotHeldBy in syncHandler).                                     *)
THEOREM DirectoryCoherent == Aligned => (Spec => []Coherent)
<1>1. Inductive => Coherent
  BY DEF Inductive
<1> QED
  BY <1>1, Invariance, PTL

(* Lazy release consistency of what a heavy client has mapped.             *)
THEOREM CopiesFresh == Aligned => (Spec => []Fresh)
<1>1. Inductive => Fresh
  BY DEF Inductive
<1> QED
  BY <1>1, Invariance, PTL

(* No page fetch in segfaultHandlerForHLRC overwrites a store of its own   *)
(* client that the home has not applied.                                   *)
THEOREM StoresKept == Aligned => (Spec => []PendingMapped)
<1>1. Inductive => PendingMapped
  BY DEF Inductive
<1> QED
  BY <1>1, Invariance, PTL

-----------------------------------------------------------------------------
(* Refinement. *)

(* The shared memory has copies of the operators of StoreLogs.             *)
LEMMA SharedLogs ==
  /\ \A l, E, v : Shared!Logged(l, E, v) = Logged(l, E, v)
  /\ \A l : Shared!Written(l) = Written(l)
  /\ \A l, a : Shared!LastOf(l, a) = LastOf(l, a)
  /\ \A m, l : Shared!Replay(m, l) = Replay(m, l)
<1>1. \A l, E, v : Shared!Logged(l, E, v) = Logged(l, E, v)
  BY Zenon DEF Logged, Shared!Logged
<1>2. \A l : Shared!Written(l) = Written(l)
  BY Zenon DEF Written, Shared!Written
<1>3. \A l, a : Shared!LastIndex(l, a) = LastIndex(l, a)
  BY Zenon DEF LastIndex, Shared!LastIndex
<1>4. \A l, a : Shared!LastOf(l, a) = LastOf(l, a)
  BY <1>3, Zenon DEF LastOf, Shared!LastOf
<1>5. \A m, l : Shared!Replay(m, l) = Replay(m, l)
  BY <1>2, <1>4 DEF Replay, Shared!Replay
<1> QED
  BY <1>1, <1>2, <1>4, <1>5

(* The protocol starts as the shared memory does.                          *)
LEMMA RefinementInit == Init => Shared!Init
<1> SUFFICES ASSUME Init PROVE Shared!Init
  OBVIOUS
<1>1. \A c \in Client : Pending(c) = << >>
  BY DEF Init, Pending, NoMsg
<1> QED
  BY <1>1 DEF Init, Shared!Init

(* A step that changes no value, no pending store and forgets the load.    *)
LEMMA ForgetStep ==
  ASSUME home' = home, seen' = seen, obs' = Nothing,
         \A c \in Client : Pending(c)' = Pending(c)
  PROVE  Shared!Next
<1>1. [c \in Client |-> Pending(c)]' = [c \in Client |-> Pending(c)]
  OBVIOUS
<1> QED
  BY <1>1 DEF Shared!Next, Shared!Forget

(* Requests and most answers are not visible in the shared memory.         *)
LEMMA HiddenStep ==
  ASSUME Inductive, NEW c \in Client,
         \/ \E p \in Page : Fault(c, p)
         \/ \E n \in AllocSizes : Malloc(c, n)
         \/ \E a \in Addr : LoadSC(c, a)
         \/ \E E \in LightExtent : StoreSC(c, E)
         \/ Sync(c) \/ HandleMalloc(c)
         \/ SyncReturn(c) \/ FaultReturn(c) \/ MallocReturn(c) \/ StoreSCReturn(c)
  PROVE  Shared!Next
<1> USE DEF homeVars, clientVars
<1>1. home' = home /\ seen' = seen /\ obs' = Nothing
  BY DEF Fault, Malloc, LoadSC, StoreSC, Sync, HandleMalloc, SyncReturn,
         FaultReturn, MallocReturn, StoreSCReturn, Send, Receive, Answer
<1>2. CASE \/ \E p \in Page : Fault(c, p)
           \/ \E n \in AllocSizes : Malloc(c, n)
           \/ \E a \in Addr : LoadSC(c, a)
           \/ \E E \in LightExtent : StoreSC(c, E)
  <2>1. log' = log /\ req[c].op = "none" /\ req'[c].op # "sync"
        /\ \A d \in Client : d # c => req'[d] = req[d]
    <3>1. PICK m \in Request : Send(c, m) /\ m.op # "sync"
      <4>1. ASSUME NEW p \in Page, Fault(c, p)
            PROVE  \E m \in Request : Send(c, m) /\ m.op # "sync"
        BY <4>1, RequestMade DEF Fault
      <4>2. ASSUME NEW n \in AllocSizes, Malloc(c, n)
            PROVE  \E m \in Request : Send(c, m) /\ m.op # "sync"
        BY <4>2, RequestMade DEF Malloc
      <4>3. ASSUME NEW a \in Addr, LoadSC(c, a)
            PROVE  \E m \in Request : Send(c, m) /\ m.op # "sync"
        BY <4>3, RequestMade DEF LoadSC
      <4>4. ASSUME NEW E \in LightExtent, StoreSC(c, E)
            PROVE  \E m \in Request : Send(c, m) /\ m.op # "sync"
        <5>1. stores + 1 \in Val
          BY <4>4, BoundsAssumption DEF StoreSC, Inductive, TypeOK, Val
        <5> QED
          BY <4>4, <5>1, RequestMade DEF StoreSC
      <4> QED
        BY <1>2, <4>1, <4>2, <4>3, <4>4
    <3>2. log' = log
      BY <1>2 DEF Fault, Malloc, LoadSC, StoreSC
    <3> QED
      BY <3>1, <3>2 DEF Send, Idle, Inductive, TypeOK
  <2>2. \A d \in Client : Pending(d)' = Pending(d)
    BY <2>1 DEF Pending
  <2> QED
    BY <1>1, <2>2, ForgetStep
<1>3. CASE Sync(c)
  <2>1. /\ req[c].op = "none" /\ req'[c].op = "sync" /\ req'[c].log = log[c]
        /\ \A d \in Client : d # c => req'[d] = req[d] /\ log'[d] = log[d]
    BY <1>3 DEF Sync, Send, Idle, Inductive, TypeOK
  <2>2. \A d \in Client : Pending(d)' = Pending(d)
    BY <2>1 DEF Pending
  <2> QED
    BY <1>1, <2>2, ForgetStep
<1>4. CASE HandleMalloc(c)
  <2>1. log' = log /\ req[c].op = "malloc" /\ req'[c].op = "none"
        /\ \A d \in Client : d # c => req'[d] = req[d]
    BY <1>4 DEF HandleMalloc, Answer, Inductive, TypeOK, NoMsg
  <2>2. \A d \in Client : Pending(d)' = Pending(d)
    BY <2>1 DEF Pending
  <2> QED
    BY <1>1, <2>2, ForgetStep
<1>5. CASE SyncReturn(c) \/ FaultReturn(c) \/ MallocReturn(c) \/ StoreSCReturn(c)
  <2>1. log' = log /\ req' = req
    BY <1>5 DEF SyncReturn, FaultReturn, MallocReturn, StoreSCReturn, Receive
  <2>2. \A d \in Client : Pending(d)' = Pending(d)
    BY <2>1 DEF Pending
  <2> QED
    BY <1>1, <2>2, ForgetStep
<1> QED
  BY <1>2, <1>3, <1>4, <1>5

(* A load finds a value the shared memory allows.                          *)
LEMMA LoadRefines ==
  ASSUME Inductive, NEW c \in Heavy, NEW a \in Addr, Load(c, a)
  PROVE  Shared!Next
<1> DEFINE pend == [d \in Client |-> Pending(d)]
<1>0. c \in Client
  BY DEF Client
<1>1. /\ home' = home /\ seen' = seen /\ log' = log /\ req' = req
      /\ obs' = <<c, a, copy[c][a]>>
  BY DEF Load, homeVars, clientVars
<1>2. pend' = pend
  BY <1>1 DEF Pending
<1>3. a[1] \in valid[c] \ Dropping(c) /\ a = <<a[1], a[2]>> /\ a[2] \in Word
  BY DEF Load, Idle, Dropping, Addr
<1>4. IF a \in Written(Pending(c)) THEN copy[c][a] = LastOf(Pending(c), a)
                                   ELSE copy[c][a] \in seen[c][a]
  BY <1>3 DEF Inductive, Fresh
<1>5. copy[c][a] \in Val
  BY <1>0 DEF Inductive, TypeOK
<1>6. pend[c] = Pending(c)
  BY <1>0
<1>7. Shared!Load(c, a)
  BY <1>0, <1>1, <1>2, <1>4, <1>5, <1>6, SharedLogs DEF Shared!Load, pend
<1> QED
  BY <1>0, <1>7 DEF Shared!Next

(* A store is the client's own until it synchronises.                      *)
LEMMA StoreRefines ==
  ASSUME Inductive, NEW c \in Heavy, NEW E \in Extent, Store(c, E)
  PROVE  Shared!Next
<1> DEFINE v == stores + 1
<1>0. c \in Client
  BY DEF Client
<1>1. home' = home /\ seen' = seen /\ obs' = Nothing /\ req' = req
  BY DEF Store, homeVars
<1>2. v \in Val
  BY BoundsAssumption DEF Store, Inductive, TypeOK, Val
<1>3. req[c].op = "none" /\ log'[c] = Logged(log[c], E, v)
      /\ \A d \in Client : d # c => log'[d] = log[d]
  BY <1>0 DEF Store, Idle, Inductive, TypeOK
<1> HIDE DEF v
<1>4. /\ Pending(c) = log[c] /\ Pending(c)' = log'[c]
      /\ \A d \in Client : d # c => Pending(d)' = Pending(d)
  BY <1>1, <1>3 DEF Pending
<1>5. [d \in Client |-> Pending(d)]'
        = [[d \in Client |-> Pending(d)] EXCEPT ![c] = Logged(@, E, v)]
  BY <1>0, <1>3, <1>4
<1>6. Shared!Store(c, E, v)
  BY <1>1, <1>5, SharedLogs DEF Shared!Store
<1> QED
  BY <1>0, <1>2, <1>6 DEF Shared!Next

(* A fetched page, or a fetched word, is a look at the memory.             *)
LEMMA RefreshRefines ==
  ASSUME Inductive, NEW c \in Client, NEW A \in SUBSET Addr,
         home' = home, seen' = Refreshed(c, A), obs' = Nothing, log' = log,
         req[c].op # "sync", req' = [req EXCEPT ![c] = NoMsg]
  PROVE  Shared!Next
<1>1. req'[c].op = "none" /\ \A d \in Client : d # c => req'[d] = req[d]
  BY DEF Inductive, TypeOK, NoMsg
<1>2. \A d \in Client : Pending(d)' = Pending(d)
  BY <1>1 DEF Pending
<1>3. [d \in Client |-> Pending(d)]' = [d \in Client |-> Pending(d)]
  BY <1>2
<1>4. seen' = [seen EXCEPT ![c] = [a \in Addr |-> IF a \in A THEN {home[a]}
                                                    ELSE seen[c][a]]]
  BY DEF Refreshed
<1>5. Shared!Refresh(c, A)
  BY <1>3, <1>4 DEF Shared!Refresh
<1> QED
  BY <1>5 DEF Shared!Next

LEMMA HandleFaultRefines ==
  ASSUME Inductive, NEW c \in Client, HandleFault(c)
  PROVE  Shared!Next
<1> DEFINE A == {req[c].page} \X Word
<1>1. req[c] \in Request /\ req[c].op = "fault"
  BY DEF HandleFault, Inductive, TypeOK
<1>2. A \in SUBSET Addr
  <2>1. req[c].page \in Page
    BY <1>1, RequestFields
  <2> QED
    BY <2>1 DEF Addr
<1>3. /\ home' = home /\ seen' = Refreshed(c, A) /\ obs' = Nothing /\ log' = log
      /\ req' = [req EXCEPT ![c] = NoMsg]
  BY DEF HandleFault, Answer, clientVars
<1> HIDE DEF A
<1> QED
  BY <1>1, <1>2, <1>3, RefreshRefines

LEMMA HandleLoadRefines ==
  ASSUME Inductive, NEW c \in Client, HandleLoad(c)
  PROVE  Shared!Next
<1> DEFINE A == {req[c].addr}
<1>1. req[c] \in Request /\ req[c].op = "load"
  BY DEF HandleLoad, Inductive, TypeOK
<1>2. A \in SUBSET Addr
  BY <1>1, RequestFields
<1>3. /\ home' = home /\ seen' = Refreshed(c, A) /\ obs' = Nothing /\ log' = log
      /\ req' = [req EXCEPT ![c] = NoMsg]
  BY DEF HandleLoad, Answer, clientVars
<1> HIDE DEF A
<1> QED
  BY <1>1, <1>2, <1>3, RefreshRefines

(* The light client then returns from its load.                            *)
LEMMA LoadSCRefines ==
  ASSUME Inductive, NEW c \in Client, LoadSCReturn(c)
  PROVE  Shared!Next
<1> DEFINE a == rep[c].addr
           v == rep[c].val
<1>1. rep[c] \in Reply /\ rep[c].op = "word"
  BY DEF LoadSCReturn, Receive, Inductive, TypeOK
<1>2. a \in Addr /\ v \in Val
  BY <1>1, ReplyFields
<1>3. c \in Light /\ Pending(c) = << >>
  BY <1>1 DEF Inductive, Exchange
<1>4. v \in seen[c][a] /\ a \notin Written(Pending(c))
  BY <1>1, <1>3, WrittenEmpty DEF Inductive, WordSeen
<1>5. /\ home' = home /\ seen' = seen /\ log' = log /\ req' = req
      /\ obs' = <<c, a, v>>
  BY DEF LoadSCReturn, Receive, homeVars, clientVars
<1>6. \A d \in Client : Pending(d)' = Pending(d)
  BY <1>5 DEF Pending
<1>7. [d \in Client |-> Pending(d)]' = [d \in Client |-> Pending(d)]
  BY <1>6
<1> HIDE DEF a, v
<1>8. Shared!Load(c, a)
  BY <1>2, <1>4, <1>5, <1>7, SharedLogs DEF Shared!Load
<1> QED
  BY <1>2, <1>8 DEF Shared!Next

(* syncHandler publishes the log.                                          *)
LEMMA HandleSyncRefines ==
  ASSUME Inductive, NEW c \in Client, HandleSync(c)
  PROVE  Shared!Next
<1> DEFINE new == Replay(home, req[c].log)
<1>1. req[c].op = "sync" /\ Pending(c) = req[c].log
  BY DEF HandleSync, Pending
<1>2. /\ home' = new /\ obs' = Nothing /\ log' = log
      /\ seen' = [d \in Client |-> [a \in Addr |->
                    IF d = c THEN {new[a]} ELSE seen[d][a] \union {new[a]}]]
  BY DEF HandleSync, Answer, clientVars
<1>3. req'[c].op = "none" /\ \A d \in Client : d # c => req'[d] = req[d]
  BY DEF HandleSync, Answer, Inductive, TypeOK, NoMsg
<1>4. log[c] = << >>
  BY <1>1 DEF Inductive, Exchange
<1>5. Pending(c)' = << >> /\ \A d \in Client : d # c => Pending(d)' = Pending(d)
  BY <1>2, <1>3, <1>4 DEF Pending
<1>6. [d \in Client |-> Pending(d)]'
        = [[d \in Client |-> Pending(d)] EXCEPT ![c] = << >>]
  BY <1>5
<1>7. [d \in Client |-> Pending(d)][c] = req[c].log
  BY <1>1
<1>8. new = Shared!Replay(home, [d \in Client |-> Pending(d)][c])
  BY <1>7, SharedLogs
<1> HIDE DEF new
<1>9. Shared!Publish(c)
  BY <1>2, <1>6, <1>8, Zenon DEF Shared!Publish
<1> QED
  BY <1>9 DEF Shared!Next

(* storeHandler lets a store through.                                      *)
LEMMA HandleStoreRefines ==
  ASSUME Inductive, NEW c \in Client, HandleStore(c)
  PROVE  Shared!Next
<1> DEFINE E == req[c].at
           v == req[c].val
           new == [a \in Addr |-> IF a \in E THEN v ELSE home[a]]
<1>1. req[c] \in Request /\ req[c].op = "store"
  BY DEF HandleStore, Inductive, TypeOK
<1>2. E \in LightExtent /\ v \in Val
  BY <1>1, RequestFields
<1>3. /\ home' = new /\ obs' = Nothing /\ log' = log
      /\ seen' = [d \in Client |-> [a \in Addr |->
                    IF d = c /\ a \in E THEN {new[a]}
                                        ELSE seen[d][a] \union {new[a]}]]
  BY DEF HandleStore, Answer, clientVars
<1>4. req'[c].op = "none" /\ \A d \in Client : d # c => req'[d] = req[d]
  BY DEF HandleStore, Answer, Inductive, TypeOK, NoMsg
<1>5. \A d \in Client : Pending(d)' = Pending(d)
  BY <1>1, <1>3, <1>4 DEF Pending
<1>6. [d \in Client |-> Pending(d)]' = [d \in Client |-> Pending(d)]
  BY <1>5
<1>7. \A a \in Addr : a \in E => new[a] = v
  OBVIOUS
<1>8. seen' = [d \in Client |-> [a \in Addr |->
                 IF d = c /\ a \in E THEN {v} ELSE seen[d][a] \union {new[a]}]]
  BY <1>3, <1>7
<1>9. Shared!WriteThrough(c, E, v)
  BY <1>3, <1>6, <1>8 DEF Shared!WriteThrough
<1> QED
  BY <1>2, <1>9 DEF Shared!Next

(* Every step of the protocol is one of the shared memory, or none.        *)
LEMMA RefinementStep == Inductive /\ [Next]_vars => [Shared!Next]_(Shared!vars)
<1> SUFFICES ASSUME Inductive, [Next]_vars
             PROVE  Shared!Next \/ UNCHANGED Shared!vars
  OBVIOUS
<1>0. Heavy \subseteq Client /\ Light \subseteq Client
  BY DEF Client
<1>1. ASSUME NEW c \in Heavy, NEW E \in Extent, Store(c, E) PROVE Shared!Next
  BY <1>1, StoreRefines
<1>2. ASSUME NEW c \in Heavy, NEW a \in Addr, Load(c, a) PROVE Shared!Next
  BY <1>2, LoadRefines
<1>3. ASSUME NEW c \in Heavy, NEW p \in Page, Fault(c, p) PROVE Shared!Next
  BY <1>0, <1>3, HiddenStep
<1>4. ASSUME NEW c \in Light, NEW E \in LightExtent, StoreSC(c, E) PROVE Shared!Next
  BY <1>0, <1>4, HiddenStep
<1>5. ASSUME NEW c \in Light, NEW a \in Addr, LoadSC(c, a) PROVE Shared!Next
  BY <1>0, <1>5, HiddenStep
<1>6. ASSUME NEW c \in Client, NEW n \in AllocSizes, Malloc(c, n) PROVE Shared!Next
  BY <1>6, HiddenStep
<1>7. ASSUME NEW c \in Client, Sync(c) PROVE Shared!Next
  BY <1>7, HiddenStep
<1>8. ASSUME NEW c \in Client, Handle(c) PROVE Shared!Next
  BY <1>8, HandleSyncRefines, HandleFaultRefines, HandleLoadRefines,
     HandleStoreRefines, HiddenStep DEF Handle
<1>9. ASSUME NEW c \in Client, Return(c) PROVE Shared!Next
  BY <1>9, LoadSCRefines, HiddenStep DEF Return
<1>10. CASE UNCHANGED vars
  <2>1. \A d \in Client : Pending(d)' = Pending(d)
    BY <1>10 DEF vars, Pending
  <2>2. [d \in Client |-> Pending(d)]' = [d \in Client |-> Pending(d)]
    BY <2>1
  <2> QED
    BY <1>10, <2>2 DEF vars, Shared!vars
<1> QED
  BY <1>1, <1>2, <1>3, <1>4, <1>5, <1>6, <1>7, <1>8, <1>9, <1>10 DEF Next

(* The protocol of server.cpp, uva_manager.cpp and client.cpp implements   *)
(* the lazy shared memory, whatever the clients do and in whatever order   *)
(* the home takes their requests.                                          *)
THEOREM Implementation == Aligned => (Spec => ImplementsLazyMemory)
<1> SUFFICES ASSUME Aligned PROVE Spec => ImplementsLazyMemory
  OBVIOUS
<1>1. Init => Shared!Init
  BY RefinementInit
<1>2. Inductive /\ [Next]_vars => [Shared!Next]_(Shared!vars)
  BY RefinementStep
<1>3. Spec => []Inductive
  BY Invariance
<1> QED
  BY <1>1, <1>2, <1>3, PTL DEF Spec, ImplementsLazyMemory, Shared!Spec
=============================================================================
