------------------------- MODULE CommManagerProofs -------------------------
(***************************************************************************)
(* Theorems about JobQueue and CommManager for any number of clients,      *)
(* requests and slots: the ring is a bounded queue, what the server does   *)
(* to its ring is what JobQueue describes, no callback finds the queue of  *)
(* its client missing, and each client gets the answers to its own         *)
(* requests.                                                               *)
(***************************************************************************)
EXTENDS CommManager, TLAPS, FiniteSetTheorems

-----------------------------------------------------------------------------
(* The ring: Ring is inductive, and under it each access of a thread is a  *)
(* step of BoundedFifo or invisible to it.                                 *)

(* Succ steps from slot to slot.                                           *)
LEMMA SuccSlot ==
  ASSUME NEW i \in Slot
  PROVE  Succ(i) \in Slot /\ Succ(i) = IF i + 1 < Size THEN i + 1 ELSE 0
BY SizeAssumption DEF Succ, Slot, q_max

(* Slots count from First on, from 0 to q_max, each once.                  *)
LEMMA AheadSlot ==
  ASSUME TypeOK, NEW i \in Slot
  PROVE  /\ First \in Slot
         /\ Ahead(i) \in Nat /\ Ahead(i) < Size
         /\ Ahead(i) = 0 <=> i = First
<1>1. First \in Slot
  BY SuccSlot DEF First, TypeOK
<1> QED
  BY <1>1, SizeAssumption DEF Ahead, Slot, q_max

(* No two slots are equally far ahead, and Last is Len(queue) ahead of     *)
(* First unless the ring is full.                                          *)
LEMMA LastSlot ==
  ASSUME Ring, NEW i \in Slot
  PROVE  /\ Last \in Slot
         /\ Len(queue) < Size => (Ahead(i) = Len(queue) <=> i = Last)
         /\ Len(queue) = Size => First = Last
<1>1. First \in Slot
  BY AheadSlot DEF Ring
<1>2. Last \in Slot
  BY SuccSlot DEF Last, Ring, TypeOK
<1>3. Len(queue) \in Nat /\ Len(queue) <= Size
  BY DEF Ring, TypeOK
<1>4. Last = IF First + Len(queue) < Size THEN First + Len(queue)
                                          ELSE First + Len(queue) - Size
  BY DEF Ring
<1> QED
  BY <1>1, <1>2, <1>3, <1>4, SizeAssumption DEF Ahead, Slot, q_max

LEMMA RingInit == Init => Ring
<1> SUFFICES ASSUME Init PROVE Ring
  OBVIOUS
<1>1. TypeOK
  BY SizeAssumption DEF Init, TypeOK, Slot, q_max
<1>2. queue = << >> /\ Len(queue) = 0 /\ First = 0 /\ Last = 0
  BY DEF Init, First, Last
<1>3. \A i \in Slot : Ahead(i) \in Nat
  BY <1>1, AheadSlot, SizeAssumption DEF Slot, q_max
<1>4. \A i \in Slot :
        data[i] = IF Ahead(i) < Len(queue) THEN queue[Ahead(i) + 1] ELSE None
  BY <1>2, <1>3 DEF Init
<1> QED
  BY <1>1, <1>2, <1>4, SizeAssumption DEF Init, Ring

(* What an action that leaves the slots and the queue alone must show.     *)
LEMMA RingKept ==
  ASSUME Ring, TypeOK',
         data' = data, queue' = queue, First' = First, Last' = Last,
         ipc' = "store" => job' # None /\ Len(queue) < Size,
         ipc' = "advance" => job' = None,
         gpc' = "clear" => Len(queue) > 0 /\ ret' = queue[1],
         gpc' = "test" <=> ret' = None
  PROVE  Ring'
<1>1. \A i \in Slot : Ahead(i)' = Ahead(i)
  BY DEF Ahead
<1> QED
  BY <1>1 DEF Ring

LEMMA ReceiveStep ==
  ASSUME Ring, NEW j \in Job, Receive(j)
  PROVE  Ring'
<1>1. TypeOK'
  BY DEF Receive, Ring, TypeOK, getVars
<1> QED
  BY <1>1, RingKept DEF Receive, Ring, getVars, First, Last

(* Only the test of insertJob looks at a slot of the handler; a slot found *)
(* free stays free, for only the receiver stores.                          *)
LEMMA InsertStep ==
  ASSUME Ring, Insert
  PROVE  Ring'
<1>1. CASE InsertFull
  <2>1. TypeOK'
    BY <1>1 DEF InsertFull, Ring, TypeOK, getVars
  <2> QED
    BY <1>1, <2>1, RingKept DEF InsertFull, Ring, getVars, First, Last
<1>2. CASE InsertTest
  <2>1. TypeOK'
    BY <1>2 DEF InsertTest, Ring, TypeOK, getVars
  <2>2. Last = tail /\ tail \in Slot /\ data[tail] = None /\ First \in Slot
    BY <1>2, AheadSlot DEF InsertTest, Last, Ring, TypeOK
  <2>3. Len(queue) < Size
    <3>1. SUFFICES ASSUME Len(queue) = Size PROVE FALSE
      BY SizeAssumption DEF Ring, TypeOK
    <3>2. First = tail /\ Ahead(tail) = 0
      BY <2>2, <3>1, LastSlot, AheadSlot DEF Ring
    <3>3. data[tail] = queue[1] /\ queue[1] \in Job
      BY <2>2, <3>1, <3>2, SizeAssumption DEF Ring, TypeOK
    <3> QED
      BY <2>2, <3>3, NoneAssumption
  <2> QED
    BY <1>2, <2>1, <2>3, RingKept DEF InsertTest, Ring, getVars, First, Last
<1>3. CASE InsertStore
  <2>1. job \in Job /\ tail \in Slot /\ Last = tail /\ Len(queue) < Size
    BY <1>3 DEF InsertStore, Ring, TypeOK, Last
  <2>2. TypeOK'
    BY <1>3, <2>1 DEF InsertStore, Ring, TypeOK, getVars
  <2>3. Len(queue') = Len(queue) + 1 /\ Len(queue) \in Nat
    BY <1>3, <2>1 DEF InsertStore, Ring, TypeOK
  <2>4. /\ \A k \in 1 .. Len(queue) : queue'[k] = queue[k]
        /\ queue'[Len(queue) + 1] = job
    BY <1>3, <2>1 DEF InsertStore, Ring, TypeOK
  <2>5. First' = First /\ First \in Slot /\ \A i \in Slot : Ahead(i)' = Ahead(i)
    BY <1>3, <2>1, AheadSlot DEF InsertStore, getVars, First, Ahead, Ring
  <2>6. \A i \in Slot :
          data'[i] = IF Ahead(i)' < Len(queue') THEN queue'[Ahead(i)' + 1] ELSE None
    <3> TAKE i \in Slot
    <3>0. TypeOK
      BY DEF Ring
    <3>1. /\ Ahead(i) \in Nat /\ Ahead(i)' = Ahead(i)
          /\ Ahead(i) = Len(queue) <=> i = tail
      BY <2>1, <2>5, <3>0, LastSlot, AheadSlot
    <3>2. data[i] = IF Ahead(i) < Len(queue) THEN queue[Ahead(i) + 1] ELSE None
      BY DEF Ring
    <3>3. data'[i] = IF i = tail THEN job ELSE data[i]
      BY <1>3, <2>1 DEF InsertStore, Ring, TypeOK
    <3>4. CASE i = tail
      BY <2>3, <2>4, <3>1, <3>3, <3>4
    <3>5. CASE i # tail
      BY <2>3, <2>4, <3>1, <3>2, <3>3, <3>5
    <3> QED
      BY <3>4, <3>5
  <2>7. Last' = IF First' + Len(queue') < Size THEN First' + Len(queue')
                                              ELSE First' + Len(queue') - Size
    <3>1. Last' = Succ(tail)
      BY <1>3 DEF InsertStore, Last
    <3>2. tail = IF First + Len(queue) < Size THEN First + Len(queue)
                                              ELSE First + Len(queue) - Size
      BY <2>1 DEF Ring
    <3>3. Last' = IF tail + 1 < Size THEN tail + 1 ELSE 0
      BY <2>1, <3>1, SuccSlot
    <3>4. First \in Nat /\ First < Size
      BY <2>5, SizeAssumption DEF Slot, q_max
    <3> QED
      BY <2>1, <2>3, <2>5, <3>2, <3>3, <3>4, SizeAssumption
  <2>8. gpc' = "clear" => Len(queue') > 0 /\ ret' = queue'[1]
    BY <1>3, <2>3, <2>4 DEF InsertStore, getVars, Ring
  <2> QED
    <3>1. Len(queue') <= Size
      BY <2>1, <2>3, SizeAssumption
    <3>2. job' = None /\ ipc' = "advance" /\ gpc' = gpc /\ ret' = ret
      BY <1>3 DEF InsertStore, getVars
    <3>3. gpc = "test" <=> ret = None
      BY DEF Ring
    <3> QED
      BY <2>2, <2>6, <2>7, <2>8, <3>1, <3>2, <3>3 DEF Ring
<1>4. CASE InsertAdvance
  <2>1. TypeOK'
    BY <1>4, SuccSlot DEF InsertAdvance, Ring, TypeOK, getVars
  <2>2. Last' = Last /\ First' = First
    BY <1>4 DEF InsertAdvance, Last, First, getVars
  <2> QED
    BY <1>4, <2>1, <2>2, RingKept DEF InsertAdvance, Ring, getVars
<1> QED
  BY <1>1, <1>2, <1>3, <1>4 DEF Insert

LEMMA GetStep ==
  ASSUME Ring, Get
  PROVE  Ring'
<1>1. CASE GetTest
  <2>1. head \in Slot /\ First = head /\ Ahead(head) = 0 /\ data[head] # None
    BY <1>1, AheadSlot DEF GetTest, First, Ring, TypeOK
  <2>2. Len(queue) > 0 /\ data[head] = queue[1]
    BY <2>1 DEF Ring, TypeOK
  <2>3. TypeOK'
    BY <1>1 DEF GetTest, Ring, TypeOK, insertVars
  <2> QED
    BY <1>1, <2>1, <2>2, <2>3, RingKept DEF GetTest, Ring, insertVars, First, Last
<1>2. CASE GetClear
  <2>1. head \in Slot /\ First = head /\ Len(queue) > 0 /\ Len(queue) <= Size
    BY <1>2 DEF GetClear, First, Ring, TypeOK
  <2>2. TypeOK'
    BY <1>2, <2>1 DEF GetClear, Ring, TypeOK, insertVars
  <2>3. Len(queue') = Len(queue) - 1 /\ Len(queue) \in Nat
    BY <1>2, <2>1 DEF GetClear, Ring, TypeOK
  <2>4. \A k \in 1 .. Len(queue) - 1 : queue'[k] = queue[k + 1]
    BY <1>2, <2>1 DEF GetClear, Ring, TypeOK
  <2>5. /\ First' = IF head + 1 < Size THEN head + 1 ELSE 0
        /\ Last' = Last
    BY <1>2, <2>1, SuccSlot DEF GetClear, insertVars, First, Last
  <2>6. \A i \in Slot :
          data'[i] = IF Ahead(i)' < Len(queue') THEN queue'[Ahead(i)' + 1] ELSE None
    <3> TAKE i \in Slot
    <3>1. Ahead(i)' = IF i = head THEN q_max ELSE Ahead(i) - 1
      BY <2>1, <2>5, SizeAssumption DEF Ahead, Slot, q_max
    <3>2. Ahead(i) \in Nat /\ (Ahead(i) = 0 <=> i = head) /\ Ahead(i) < Size
      BY <2>1, AheadSlot DEF Ring
    <3>3. data[i] = IF Ahead(i) < Len(queue) THEN queue[Ahead(i) + 1] ELSE None
      BY DEF Ring
    <3>4. data'[i] = IF i = head THEN None ELSE data[i]
      BY <1>2, <2>1 DEF GetClear, Ring, TypeOK
    <3>5. CASE i = head
      BY <2>1, <2>3, <3>1, <3>4, <3>5, SizeAssumption DEF q_max
    <3>6. CASE i # head
      BY <2>3, <2>4, <3>1, <3>2, <3>3, <3>4, <3>6
    <3> QED
      BY <3>5, <3>6
  <2>7. Last' = IF First' + Len(queue') < Size THEN First' + Len(queue')
                                              ELSE First' + Len(queue') - Size
    <3>1. Last = IF head + Len(queue) < Size THEN head + Len(queue)
                                             ELSE head + Len(queue) - Size
      BY <2>1 DEF Ring
    <3>2. head \in Nat /\ head < Size
      BY <2>1, SizeAssumption DEF Slot, q_max
    <3> QED
      BY <2>1, <2>3, <2>5, <3>1, <3>2, SizeAssumption
  <2> QED
    <3>1. Len(queue') <= Size
      BY <2>1, <2>3, SizeAssumption
    <3>2. /\ job' = job /\ ipc' = ipc /\ gpc' = "advance" /\ ret' = ret
          /\ gpc = "clear"
      BY <1>2 DEF GetClear, insertVars
    <3>3. /\ ipc = "store" => job # None /\ Len(queue') < Size
          /\ ipc = "advance" => job = None
          /\ ret # None
      BY <2>1, <2>3, <3>2, SizeAssumption DEF Ring
    <3> QED
      BY <2>2, <2>6, <2>7, <3>1, <3>2, <3>3 DEF Ring
<1>3. CASE GetAdvance
  <2>1. TypeOK'
    BY <1>3, SuccSlot DEF GetAdvance, Ring, TypeOK, insertVars
  <2>2. Last' = Last /\ First' = First
    BY <1>3 DEF GetAdvance, Last, First, insertVars
  <2> QED
    BY <1>3, <2>1, <2>2, RingKept DEF GetAdvance, Ring, insertVars
<1>4. CASE Run
  <2>1. TypeOK'
    BY <1>4 DEF Run, Ring, TypeOK, insertVars
  <2> QED
    BY <1>4, <2>1, RingKept DEF Run, Ring, insertVars, First, Last
<1> QED
  BY <1>1, <1>2, <1>3, <1>4 DEF Get

(* Whatever the two threads have done so far, the occupied slots of the    *)
(* ring are the queue, in order, and neither thread holds a slot of the    *)
(* other (insertJob, getJob).                                              *)
THEOREM Invariance == Spec => []Ring
<1>1. Init => Ring
  BY RingInit
<1>2. Ring /\ [Next]_vars => Ring'
  <2> SUFFICES ASSUME Ring, [Next]_vars PROVE Ring'
    OBVIOUS
  <2>1. CASE \E j \in Job : Receive(j)
    BY <2>1, ReceiveStep
  <2>2. CASE Insert
    BY <2>2, InsertStep
  <2>3. CASE Get
    BY <2>3, GetStep
  <2>4. CASE UNCHANGED vars
    <3>1. TypeOK'
      BY <2>4 DEF vars, Ring, TypeOK
    <3> QED
      BY <2>4, <3>1, RingKept DEF vars, Ring, First, Last
  <2> QED
    BY <2>1, <2>2, <2>3, <2>4 DEF Next
<1> QED
  BY <1>1, <1>2, PTL DEF Spec

-----------------------------------------------------------------------------
(* Refinement. *)

(* A slot is found taken at the tail only when all of them are.            *)
LEMMA FullSlot ==
  ASSUME Ring, InsertFull
  PROVE  Len(queue) = Size
<1>1. Last = tail /\ tail \in Slot /\ data[tail] # None
  BY DEF InsertFull, Last, Ring, TypeOK
<1>2. SUFFICES ASSUME Len(queue) < Size PROVE FALSE
  BY SizeAssumption DEF Ring, TypeOK
<1>3. Ahead(tail) = Len(queue)
  BY <1>1, <1>2, LastSlot
<1> QED
  BY <1>1, <1>3 DEF Ring, TypeOK

LEMMA RefinementStep == Ring /\ [Next]_vars => [Fifo!Next]_(Fifo!vars)
<1> SUFFICES ASSUME Ring, [Next]_vars PROVE [Fifo!Next]_(Fifo!vars)
  OBVIOUS
<1> USE DEF Fifo!vars
<1>1. ASSUME NEW j \in Job, Receive(j) PROVE Fifo!Offer(j)
  BY <1>1 DEF Receive, getVars, Fifo!Offer
<1>2. CASE InsertFull
  <2>1. Fifo!Refuse
    BY <1>2, FullSlot DEF InsertFull, getVars, Fifo!Refuse
  <2> QED
    BY <2>1 DEF Fifo!Next
<1>3. CASE InsertTest
  BY <1>3 DEF InsertTest, getVars
<1>4. CASE InsertStore
  <2>1. Fifo!Accept
    BY <1>4 DEF InsertStore, getVars, Ring, Fifo!Accept
  <2> QED
    BY <2>1 DEF Fifo!Next
<1>5. CASE InsertAdvance
  BY <1>5 DEF InsertAdvance, getVars
<1>6. CASE GetTest
  BY <1>6 DEF GetTest, insertVars
<1>7. CASE GetClear
  <2>1. queue # << >> /\ ret = Head(queue)
    BY <1>7 DEF GetClear, Ring, TypeOK
  <2>2. Fifo!Take
    BY <1>7, <2>1 DEF GetClear, insertVars, Fifo!Take
  <2> QED
    BY <2>2 DEF Fifo!Next
<1>8. CASE GetAdvance
  BY <1>8 DEF GetAdvance, insertVars
<1>9. CASE Run
  <2>1. Fifo!Done
    BY <1>9 DEF Run, insertVars, Ring, Fifo!Done
  <2> QED
    BY <2>1 DEF Fifo!Next
<1>10. CASE UNCHANGED vars
  BY <1>10 DEF vars
<1> QED
  BY <1>1, <1>2, <1>3, <1>4, <1>5, <1>6, <1>7, <1>8, <1>9, <1>10
     DEF Next, Insert, Get, Fifo!Next

(* Jobs reach requestHandler in the order requestReceiver inserted them,   *)
(* each once; insertJob returns false only for a full ring.                *)
THEOREM Implementation == Spec => ImplementsBoundedFifo
<1>1. Init => Fifo!Init
  BY DEF Init, Fifo!Init
<1>2. Ring /\ [Next]_vars => [Fifo!Next]_(Fifo!vars)
  BY RefinementStep
<1> QED
  BY <1>1, <1>2, Invariance, PTL DEF Spec, ImplementsBoundedFifo, Fifo!Spec

-----------------------------------------------------------------------------
(* The numbers of the clients are those from one to the count of the       *)
(* clients accepted so far: no number is given beyond ID, and what the     *)
(* network hands to insertJob is a request of a client that has one.       *)

Accepted == {c \in Client : cpc[c] \in {"named", "ready", "waiting"}}

CommType ==
  /\ opc \in {"accept", "accepted", "entered", "queued", "listening"}
  /\ cpc \in [Client -> {"out", "connected", "named", "ready", "waiting"}]
  /\ localID \in [Client -> Nat]
  /\ asked \in [Client -> Nat]
  /\ up \in [Client -> Seq(Job)]
  /\ socketMap \in [ID -> Client \union {None}]
  /\ peer \in Client \union {None}
  /\ opc # "accept" => peer # None

Counted ==
  /\ clntID \in Nat
  /\ clntID = Cardinality(Accepted) + IF opc = "accept" THEN 1 ELSE 0
  /\ \A c \in Accepted : localID[c] \in ID

Numbered == CommType /\ Counted

LEMMA AcceptedFinite ==
  /\ IsFiniteSet(Accepted)
  /\ Cardinality(Accepted) \in Nat
  /\ Cardinality(Client) \in Nat
  /\ Cardinality(Accepted) <= Cardinality(Client)
<1>1. Accepted \subseteq Client
  BY DEF Accepted
<1> QED
  BY <1>1, ClientAssumption, FS_Subset, FS_CardinalityType

LEMMA NumberedInit == CommInit => Numbered
<1> SUFFICES ASSUME CommInit PROVE Numbered
  OBVIOUS
<1>1. CommType
  BY DEF CommInit, CommType
<1>2. Accepted = {}
  BY DEF CommInit, Accepted
<1>3. Cardinality(Accepted) = 0
  BY <1>2, FS_EmptySet
<1>4. Counted
  BY <1>2, <1>3 DEF CommInit, Counted
<1> QED
  BY <1>1, <1>4 DEF Numbered

(* A step that accepts nobody keeps the count if open stays past accept.   *)
LEMMA CountedKept ==
  ASSUME Counted, Accepted' = Accepted, clntID' = clntID, localID' = localID,
         opc' = "accept" <=> opc = "accept"
  PROVE  Counted'
BY DEF Counted

LEMMA AcceptNumbered ==
  ASSUME Numbered, NEW c \in Client, Accept(c)
  PROVE  Numbered'
<1> USE DEF Numbered
<1>1. CommType'
  BY ClientAssumption DEF CommType, Counted, Accept, Goto, OpenStep, OpenFrame
<1>2. c \notin Accepted /\ Accepted' = Accepted \union {c}
  BY DEF CommType, Accept, Goto, Accepted
<1>3. Cardinality(Accepted') = Cardinality(Accepted) + 1
  BY <1>2, AcceptedFinite, FS_AddElement
<1>4. clntID = Cardinality(Accepted')
  BY <1>3 DEF Counted, Accept, OpenStep
<1>5. Accepted' \subseteq Client
  BY DEF Accepted
<1>6. clntID \in ID
  <2>1. Cardinality(Accepted') <= Cardinality(Client)
    BY <1>5, ClientAssumption, FS_Subset
  <2>2. clntID >= 1
    BY <1>3, <1>4, AcceptedFinite
  <2> QED
    BY <1>4, <2>1, <2>2, AcceptedFinite DEF Counted, ID
<1>7. \A d \in Accepted' : localID'[d] \in ID
  BY <1>2, <1>6 DEF Accept, CommType, Counted, Accepted
<1>8. clntID' = clntID /\ opc' = "accepted"
  BY DEF Accept, OpenStep
<1>9. clntID' = Cardinality(Accepted')
  BY <1>4, <1>8
<1>10. Counted'
  BY <1>7, <1>8, <1>9 DEF Counted
<1> QED
  BY <1>1, <1>10

LEMMA OpenNumbered ==
  ASSUME Numbered, EnterSocket \/ EnterQueues \/ Listen \/ AcceptBlocking
  PROVE  Numbered'
<1> USE DEF Numbered
<1>1. cpc' = cpc /\ localID' = localID /\ Accepted' = Accepted
  BY DEF EnterSocket, EnterQueues, Listen, AcceptBlocking, Accepted
<1>2. CASE EnterSocket
  <2>1. CommType'
    BY <1>2 DEF EnterSocket, CommType, OpenStep, OpenFrame
  <2> QED
    BY <1>1, <1>2, <2>1, CountedKept DEF EnterSocket, OpenStep
<1>3. CASE EnterQueues
  <2>1. CommType'
    BY <1>3 DEF EnterQueues, CommType, OpenStep, OpenFrame
  <2> QED
    BY <1>1, <1>3, <2>1, CountedKept DEF EnterQueues, OpenStep
<1>4. CASE Listen
  <2>1. CommType'
    BY <1>4 DEF Listen, CommType, OpenStep, OpenFrame
  <2> QED
    BY <1>1, <1>4, <2>1, CountedKept DEF Listen, OpenStep
<1>5. CASE AcceptBlocking
  <2>1. CommType'
    BY <1>5 DEF AcceptBlocking, CommType, OpenStep, OpenFrame
  <2>2. clntID' = clntID + 1 /\ opc = "listening" /\ opc' = "accept"
    BY <1>5 DEF AcceptBlocking, OpenStep
  <2>3. Counted'
    BY <1>1, <2>2, AcceptedFinite DEF Counted
  <2> QED
    BY <2>1, <2>3
<1> QED
  BY <1>2, <1>3, <1>4, <1>5

LEMMA ClientNumbered ==
  ASSUME Numbered, NEW c \in Client,
         Connect(c) \/ ConnectBlocking(c) \/ Ask(c) \/ Answered(c)
  PROVE  Numbered'
<1> USE DEF Numbered
<1>1. UNCHANGED serverVars /\ localID' = localID
  BY DEF Connect, ConnectBlocking, Ask, Answered
<1>2. Accepted' = Accepted
  BY DEF Connect, ConnectBlocking, Ask, Answered, Goto, Accepted, CommType
<1>3. Counted'
  BY <1>1, <1>2, CountedKept DEF serverVars
<1>4. CASE Connect(c)
  <2>1. CommType'
    BY <1>4 DEF Connect, CommType, Goto, serverVars
  <2> QED
    BY <1>3, <2>1
<1>5. CASE ConnectBlocking(c)
  <2>1. CommType'
    BY <1>5 DEF ConnectBlocking, CommType, Goto, serverVars
  <2> QED
    BY <1>3, <2>1
<1>6. CASE Ask(c)
  <2>1. [src |-> localID[c], n |-> asked[c] + 1] \in Job
    <3>1. localID[c] \in ID
      BY <1>6 DEF Ask, Counted, Accepted
    <3>2. asked[c] + 1 \in 1 .. MaxAsk
      BY <1>6, ClientAssumption DEF Ask, CommType
    <3> QED
      BY <3>1, <3>2, JobAssumption
  <2>2. up' \in [Client -> Seq(Job)]
    BY <1>6, <2>1 DEF Ask, CommType
  <2>3. CommType'
    BY <1>6, <2>2 DEF Ask, CommType, Goto, serverVars
  <2> QED
    BY <1>3, <2>3
<1>7. CASE Answered(c)
  <2>1. CommType'
    BY <1>7 DEF Answered, CommType, Goto, serverVars
  <2> QED
    BY <1>3, <2>1
<1> QED
  BY <1>4, <1>5, <1>6, <1>7

LEMMA ReceiveFromNumbered ==
  ASSUME Numbered, NEW id \in ID, ReceiveFrom(id)
  PROVE  Numbered'
<1> USE DEF Numbered
<1>1. socketMap[id] \in Client
  BY DEF ReceiveFrom, CommType
<1>2. up' \in [Client -> Seq(Job)]
  BY <1>1 DEF ReceiveFrom, CommType
<1>3. CommType'
  BY <1>2 DEF ReceiveFrom, CommType, serverVars, clientVars
<1>4. Accepted' = Accepted
  BY DEF ReceiveFrom, clientVars, Accepted
<1> QED
  BY <1>3, <1>4, CountedKept DEF ReceiveFrom, serverVars, clientVars

LEMMA OtherNumbered ==
  ASSUME Numbered, UNCHANGED <<serverVars, clientVars, up>>
  PROVE  Numbered'
<1> USE DEF Numbered
<1>1. CommType'
  BY DEF CommType, serverVars, clientVars
<1>2. Accepted' = Accepted
  BY DEF clientVars, Accepted
<1> QED
  BY <1>1, <1>2, CountedKept DEF serverVars, clientVars

LEMMA NumberedStep == Numbered /\ [CommNext]_commVars => Numbered'
<1> SUFFICES ASSUME Numbered, [CommNext]_commVars PROVE Numbered'
  OBVIOUS
<1>1. ASSUME NEW c \in Client,
             Connect(c) \/ ConnectBlocking(c) \/ Ask(c) \/ Answered(c)
      PROVE  Numbered'
  BY <1>1, ClientNumbered
<1>2. CASE Open
  BY <1>2, AcceptNumbered, OpenNumbered DEF Open
<1>3. CASE Start
  BY <1>3, OtherNumbered DEF Start
<1>4. ASSUME NEW id \in ID, ReceiveFrom(id) PROVE Numbered'
  BY <1>4, ReceiveFromNumbered
<1>5. CASE InsertJob \/ GetJob \/ Callback
  BY <1>5, OtherNumbered DEF InsertJob, GetJob, Callback
<1>6. CASE UNCHANGED commVars
  BY <1>6, OtherNumbered DEF commVars
<1> QED
  BY <1>1, <1>2, <1>3, <1>4, <1>5, <1>6 DEF CommNext

THEOREM Numbering == CommSpec => []Numbered
BY NumberedInit, NumberedStep, PTL DEF CommSpec

-----------------------------------------------------------------------------
(* The server uses its ring as JobQueue says.                              *)

LEMMA RingStep == Numbered /\ [CommNext]_commVars => [Next]_vars
<1> SUFFICES ASSUME Numbered, [CommNext]_commVars PROVE [Next]_vars
  OBVIOUS
<1>1. ASSUME NEW id \in ID, ReceiveFrom(id) PROVE Next
  <2>1. socketMap[id] \in Client /\ up[socketMap[id]] # << >>
    BY <1>1 DEF ReceiveFrom, Numbered, CommType
  <2>2. Head(up[socketMap[id]]) \in Job
    BY <2>1 DEF Numbered, CommType
  <2> QED
    BY <1>1, <2>2 DEF ReceiveFrom, Next
<1>2. CASE InsertJob \/ GetJob \/ Callback
  BY <1>2 DEF InsertJob, GetJob, Callback, Next, Insert, Get
<1>3. ASSUME NEW c \in Client,
             Connect(c) \/ ConnectBlocking(c) \/ Ask(c) \/ Answered(c)
      PROVE  UNCHANGED vars
  BY <1>3 DEF Connect, ConnectBlocking, Ask, Answered
<1>4. CASE Open
  BY <1>4 DEF Open, Accept, EnterSocket, EnterQueues, Listen, AcceptBlocking, OpenFrame
<1>5. CASE Start
  BY <1>5 DEF Start
<1>6. CASE UNCHANGED commVars
  BY <1>6 DEF commVars
<1> QED
  BY <1>1, <1>2, <1>3, <1>4, <1>5, <1>6 DEF CommNext

(* Whatever clients connect and ask, the receiver offers the ring nothing  *)
(* but requests, and it and the handler do to the ring what JobQueue says: *)
(* every theorem about the ring holds in the server.                       *)
THEOREM RingOfServer == CommSpec => Spec
<1>1. CommInit => Init
  BY DEF CommInit
<1> QED
  BY <1>1, RingStep, Numbering, PTL DEF CommSpec, Spec

(* Slots of the ring of the server are the queue of requests, in order.    *)
THEOREM ServerRing == CommSpec => []Ring
BY RingOfServer, Invariance, PTL

(* Requests reach their callbacks in the order they were read, each once.  *)
THEOREM ServerFifo == CommSpec => ImplementsBoundedFifo
BY RingOfServer, Implementation, PTL

-----------------------------------------------------------------------------
(* No callback misses its queue.                                           *)

(* A client that could connect twice has its queues, and so has the one    *)
(* open serves once it listens; so every request under way names queues    *)
(* that are there.                                                         *)
Known(m) == m # None => m.src \in sendQues

InFlight ==
  /\ \A c \in Client : \A i \in DOMAIN up[c] : Known(up[c][i])
  /\ \A i \in DOMAIN queue : Known(queue[i])
  /\ Known(job)
  /\ Known(ret)

Ready ==
  /\ \A c \in Client : cpc[c] \in {"ready", "waiting"} => localID[c] \in sendQues
  /\ opc \in {"queued", "listening"} => clntID \in sendQues
  /\ opc # "accept" => localID[peer] = clntID

Queued == Ready /\ InFlight

LEMMA QueuedInit == CommInit => Queued
BY DEF CommInit, Init, Queued, Ready, InFlight, Known

LEMMA OpenQueued ==
  ASSUME Numbered, Queued, Open
  PROVE  Queued'
<1> USE DEF Numbered, Queued, OpenStep, OpenFrame, vars
<1>1. ASSUME NEW c \in Client, Accept(c) PROVE Queued'
  BY <1>1 DEF Accept, Goto, CommType, Ready, InFlight, Known
<1>2. CASE EnterSocket
  BY <1>2 DEF EnterSocket, Ready, InFlight, Known
<1>3. CASE EnterQueues
  BY <1>3 DEF EnterQueues, Ready, InFlight, Known
<1>4. CASE Listen
  BY <1>4 DEF Listen, Ready, InFlight, Known
<1>5. CASE AcceptBlocking
  BY <1>5 DEF AcceptBlocking, Ready, InFlight, Known
<1> QED
  BY <1>1, <1>2, <1>3, <1>4, <1>5 DEF Open

LEMMA ClientQueued ==
  ASSUME Numbered, Queued, NEW c \in Client,
         Connect(c) \/ ConnectBlocking(c) \/ Ask(c) \/ Answered(c)
  PROVE  Queued'
<1> USE DEF Numbered, Queued, vars, serverVars, Goto, CommType
<1>1. CASE Connect(c)
  BY <1>1 DEF Connect, Ready, InFlight, Known
<1>2. CASE ConnectBlocking(c)
  BY <1>2 DEF ConnectBlocking, Ready, InFlight, Known
<1>3. CASE Ask(c)
  <2>1. Ready'
    BY <1>3 DEF Ask, Ready
  <2>2. ASSUME NEW d \in Client, NEW i \in DOMAIN up'[d] PROVE Known(up'[d][i])
    <3>1. CASE d # c
      BY <1>3, <2>2, <3>1 DEF Ask, InFlight
    <3>2. CASE d = c
      <4> DEFINE m == [src |-> localID[c], n |-> asked[c] + 1]
      <4>1. up'[d] = Append(up[c], m) /\ up[c] \in Seq(Job)
        BY <1>3, <3>2 DEF Ask
      <4>2. CASE i \in DOMAIN up[c]
        <5>1. up'[d][i] = up[c][i]
          BY <4>1, <4>2
        <5> QED
          BY <4>2, <5>1 DEF InFlight
      <4>3. CASE i \notin DOMAIN up[c]
        <5>1. up'[d][i] = m
          BY <2>2, <4>1, <4>3
        <5>2. m.src \in sendQues
          BY <1>3 DEF Ask, Ready
        <5> QED
          BY <5>1, <5>2 DEF Known
      <4> QED
        BY <4>2, <4>3
    <3> QED
      BY <3>1, <3>2
  <2> QED
    BY <1>3, <2>1, <2>2 DEF Ask, InFlight, Known
<1>4. CASE Answered(c)
  BY <1>4 DEF Answered, Ready, InFlight, Known
<1> QED
  BY <1>1, <1>2, <1>3, <1>4

LEMMA ReceiveFromQueued ==
  ASSUME Numbered, Queued, NEW id \in ID, ReceiveFrom(id)
  PROVE  Queued'
<1> USE DEF Numbered, CommType, Queued
<1> DEFINE c == socketMap[id]
<1>1. c \in Client /\ up[c] \in Seq(Job) /\ up[c] # << >>
  BY DEF ReceiveFrom
<1>2. Head(up[c]) = up[c][1] /\ 1 \in DOMAIN up[c]
  BY <1>1
<1>3. Known(Head(up[c]))
  BY <1>1, <1>2 DEF InFlight
<1>4. up' = [up EXCEPT ![c] = Tail(@)]
  BY DEF ReceiveFrom
<1>5. ASSUME NEW d \in Client, NEW i \in DOMAIN up'[d] PROVE Known(up'[d][i])
  <2>1. CASE d # c
    BY <1>4, <1>5, <2>1 DEF InFlight
  <2>2. CASE d = c
    <3>1. up'[d] = Tail(up[c])
      BY <1>1, <1>4, <2>2
    <3>2. i + 1 \in DOMAIN up[c] /\ up'[d][i] = up[c][i + 1]
      BY <1>1, <1>5, <3>1
    <3> QED
      BY <1>1, <3>2 DEF InFlight
  <2> QED
    BY <2>1, <2>2
<1>6. Ready'
  BY DEF Ready, ReceiveFrom, serverVars, clientVars
<1>7. Known(job')
  BY <1>3 DEF ReceiveFrom, Receive
<1> QED
  BY <1>5, <1>6, <1>7
     DEF InFlight, Known, ReceiveFrom, Receive, getVars, serverVars

(* Insert and get move requests from job to queue to ret.                  *)
LEMMA RingQueued ==
  ASSUME Ring, Queued, Insert \/ Get, UNCHANGED <<serverVars, clientVars, up>>
  PROVE  Queued'
<1> USE DEF Queued
<1>1. Ready' /\ sendQues' = sendQues
  BY DEF Ready, serverVars, clientVars
<1>2. \A c \in Client : \A i \in DOMAIN up'[c] : Known(up'[c][i])
  BY DEF InFlight
<1>3. CASE InsertFull \/ InsertTest \/ InsertAdvance
  BY <1>1, <1>2, <1>3
     DEF InsertFull, InsertTest, InsertAdvance, getVars, InFlight, Known
<1>4. CASE InsertStore
  <2>1. queue \in Seq(Job) /\ job \in Job /\ queue' = Append(queue, job)
    BY <1>4 DEF InsertStore, Ring, TypeOK
  <2>2. \A i \in DOMAIN queue' : queue'[i] = job \/ (i \in DOMAIN queue /\ queue'[i] = queue[i])
    BY <2>1
  <2>3. \A i \in DOMAIN queue' : Known(queue'[i])
    BY <2>2 DEF InFlight
  <2> QED
    BY <1>1, <1>2, <1>4, <2>3 DEF InsertStore, getVars, InFlight, Known
<1>5. CASE GetTest
  <2>1. gpc = "test" /\ First = head /\ head \in Slot /\ data[head] # None
    BY <1>5 DEF GetTest, First, Ring, TypeOK
  <2>2. Ahead(head) = 0
    BY <2>1, AheadSlot DEF Ring
  <2>3. data[head] = IF Ahead(head) < Len(queue) THEN queue[Ahead(head) + 1] ELSE None
    BY <2>1 DEF Ring
  <2>4. 0 < Len(queue) /\ data[head] = queue[1]
    BY <2>1, <2>2, <2>3
  <2>5. 1 \in DOMAIN queue
    BY <2>4 DEF Ring, TypeOK
  <2>6. Known(ret')
    BY <1>5, <2>4, <2>5 DEF GetTest, InFlight
  <2> QED
    BY <1>1, <1>2, <1>5, <2>6 DEF GetTest, insertVars, InFlight, Known
<1>6. CASE GetClear
  <2>1. queue \in Seq(Job) /\ Len(queue) > 0 /\ queue' = Tail(queue)
    BY <1>6 DEF GetClear, Ring, TypeOK
  <2>2. \A i \in DOMAIN queue' : i + 1 \in DOMAIN queue /\ queue'[i] = queue[i + 1]
    BY <2>1
  <2>3. \A i \in DOMAIN queue' : Known(queue'[i])
    BY <2>2 DEF InFlight
  <2> QED
    BY <1>1, <1>2, <1>6, <2>3 DEF GetClear, insertVars, InFlight, Known
<1>7. CASE GetAdvance \/ Run
  BY <1>1, <1>2, <1>7 DEF GetAdvance, Run, insertVars, InFlight, Known
<1> QED
  BY <1>3, <1>4, <1>5, <1>6, <1>7 DEF Insert, Get

LEMMA QueuedStep == Numbered /\ Ring /\ Queued /\ [CommNext]_commVars => Queued'
<1> SUFFICES ASSUME Numbered, Ring, Queued, [CommNext]_commVars PROVE Queued'
  OBVIOUS
<1>1. ASSUME NEW c \in Client,
             Connect(c) \/ ConnectBlocking(c) \/ Ask(c) \/ Answered(c)
      PROVE  Queued'
  BY <1>1, ClientQueued
<1>2. CASE Open
  BY <1>2, OpenQueued
<1>3. CASE Start
  BY <1>3 DEF Start, Queued, Ready, InFlight, Known, vars, serverVars, clientVars
<1>4. ASSUME NEW id \in ID, ReceiveFrom(id) PROVE Queued'
  BY <1>4, ReceiveFromQueued
<1>5. CASE InsertJob \/ GetJob \/ Callback
  <2>1. (Insert \/ Get) /\ UNCHANGED <<serverVars, clientVars, up>>
    BY <1>5 DEF InsertJob, GetJob, Callback, Insert, Get
  <2> QED
    BY <2>1, RingQueued
<1>6. CASE UNCHANGED commVars
  BY <1>6 DEF commVars, Queued, Ready, InFlight, Known, vars, serverVars, clientVars
<1> QED
  BY <1>1, <1>2, <1>3, <1>4, <1>5, <1>6 DEF CommNext

LEMMA QueuedThere == Numbered /\ Ring /\ Queued => QueuesThere
<1> SUFFICES ASSUME Numbered, Ring, Queued, NEW m \in UnderWay PROVE m.src \in sendQues
  BY DEF QueuesThere
<1>1. CASE \E c \in Client : m \in {up[c][i] : i \in DOMAIN up[c]}
  <2>1. PICK c \in Client : \E i \in DOMAIN up[c] : m = up[c][i]
    BY <1>1
  <2>2. PICK i \in DOMAIN up[c] : m = up[c][i]
    BY <2>1
  <2>3. m # None
    BY <2>2, NoneAssumption DEF Numbered, CommType
  <2> QED
    BY <2>2, <2>3 DEF Queued, InFlight, Known
<1>2. CASE m \in {queue[i] : i \in DOMAIN queue}
  <2>1. m # None
    BY <1>2, NoneAssumption DEF Ring, TypeOK
  <2> QED
    BY <1>2, <2>1 DEF Queued, InFlight, Known
<1>3. CASE m \in {job, ret} \ {None}
  BY <1>3 DEF Queued, InFlight, Known
<1> DEFINE Of(c) == {up[c][i] : i \in DOMAIN up[c]}
           Upward == UNION {Of(c) : c \in Client}
           Waiting == {queue[i] : i \in DOMAIN queue}
<1>4. UnderWay = (Upward \union Waiting) \union ({job, ret} \ {None})
  BY DEF UnderWay
<1>5. m \in Upward => \E c \in Client : m \in Of(c)
  OBVIOUS
<1> HIDE DEF Upward, Of, Waiting
<1>6. m \in Upward \/ m \in Waiting \/ m \in {job, ret} \ {None}
  BY <1>4
<1> USE DEF Of, Waiting
<1> QED
  BY <1>1, <1>2, <1>3, <1>5, <1>6

(* open enters the socket the receiver polls before the queues of the      *)
(* client; still no request, wherever it is, is of a client without        *)
(* queues.                                                                 *)
THEOREM CallbacksFindQueues == CommSpec => []QueuesThere
<1>1. CommInit => Queued
  BY QueuedInit
<1>2. Numbered /\ Ring /\ Queued /\ [CommNext]_commVars => Queued'
  BY QueuedStep
<1>3. Numbered /\ Ring /\ Queued => QueuesThere
  BY QueuedThere
<1> QED
  BY <1>1, <1>2, <1>3, Numbering, ServerRing, PTL DEF CommSpec

-----------------------------------------------------------------------------
(* Each client gets the answers to its own requests: a request is in one   *)
(* place at a time, on its way, in the ring, lost or answered.             *)

(* Numbers of accepted clients differ, and those not given out yet are     *)
(* larger; a socket under a number is that of the client it was given to.  *)
SocketOf(map) ==
  \A id \in ID : map[id] # None => map[id] \in Accepted /\ localID[map[id]] = id

Names ==
  /\ \A c \in Accepted : localID[c] <= clntID /\ (opc = "accept" => localID[c] < clntID)
  /\ \A c, d \in Accepted : localID[c] = localID[d] => c = d
  /\ opc # "accept" => peer \in Accepted /\ localID[peer] = clntID
  /\ blockingSocketMap \in [ID -> Client \union {None}]
  /\ SocketOf(socketMap)
  /\ SocketOf(blockingSocketMap)

(* The requests in the ring, each in one place.                            *)
Taken == gpc \in {"advance", "run"}
Line == {queue[i] : i \in DOMAIN queue}
Held == {m \in Job : m = job \/ m \in Line \/ (Taken /\ m = ret)}

Once ==
  /\ \A i, j \in DOMAIN queue : queue[i] = queue[j] => i = j
  /\ job \notin Line
  /\ Taken => ret \notin Line /\ ret # job

(* The request a client waits for, or would if it waited.                  *)
Mine(c) == [src |-> localID[c], n |-> asked[c]]
Waits(m) == \E c \in Client : cpc[c] = "waiting" /\ m = Mine(c)

(* A client that waits has its request in one place: on its way, in the    *)
(* ring, lost, or answered.                                                *)
Place(c) ==
  /\ up[c] \in {<< >>, <<Mine(c)>>}
  /\ down[c] \in {<< >>, <<Mine(c)>>}
  /\ cpc[c] # "waiting" => up[c] = << >> /\ down[c] = << >>
  /\ cpc[c] = "waiting" =>
       up[c] # << >> \/ down[c] # << >> \/ Mine(c) \in Held \union lost
  /\ up[c] # << >> => down[c] = << >> /\ Mine(c) \notin Held \union lost
  /\ down[c] # << >> => Mine(c) \notin Held \union lost

Exchange ==
  /\ up \in [Client -> Seq(Job)]
  /\ DOMAIN down = Client
  /\ \A m \in Held \union lost : Waits(m)
  /\ Held \intersect lost = {}
  /\ \A c \in Client : Place(c)

-----------------------------------------------------------------------------
(* Names.                                                                  *)

LEMMA NamesInit == CommInit => Names
BY DEF CommInit, Names, Accepted, SocketOf

(* Steps that give no number and enter no socket.                          *)
LEMMA NamesKept ==
  ASSUME Names, UNCHANGED serverVars, localID' = localID, Accepted' = Accepted
  PROVE  Names'
BY DEF Names, serverVars, SocketOf

LEMMA AcceptNames ==
  ASSUME Numbered, Names, NEW c \in Client, Accept(c)
  PROVE  Names'
<1>1. c \notin Accepted /\ Accepted' = Accepted \union {c}
  BY DEF Accept, Goto, Accepted, Numbered, CommType
<1>2. localID'[c] = clntID /\ clntID' = clntID /\ opc = "accept" /\ opc' = "accepted"
  BY DEF Accept, OpenStep, Numbered, CommType
<1>3. \A d \in Accepted : localID'[d] = localID[d] /\ localID[d] < clntID
                          /\ localID[d] \in Nat
  BY <1>1, <1>2 DEF Accept, Names, Accepted, Numbered, Counted, CommType
<1>4. clntID \in Nat
  BY DEF Numbered, Counted
<1>5. ASSUME NEW d \in Accepted' PROVE localID'[d] <= clntID'
  <2>1. CASE d = c
    BY <1>2, <1>4, <2>1
  <2>2. CASE d \in Accepted
    <3>1. localID'[d] = localID[d] /\ localID[d] < clntID /\ localID[d] \in Nat
      BY <1>3, <2>2
    <3> QED
      BY <1>2, <1>4, <3>1
  <2> QED
    BY <1>1, <2>1, <2>2
<1>6. ASSUME NEW d \in Accepted', NEW e \in Accepted', localID'[d] = localID'[e] PROVE d = e
  <2>1. ASSUME NEW x \in Accepted PROVE localID'[x] # localID'[c]
    <3>1. localID'[x] = localID[x] /\ localID[x] < clntID /\ localID[x] \in Nat
      BY <1>3
    <3> QED
      BY <1>2, <1>4, <3>1
  <2>2. CASE d = c \/ e = c
    BY <1>1, <1>6, <2>1, <2>2
  <2>3. CASE d # c /\ e # c
    <3>1. d \in Accepted /\ e \in Accepted
      BY <1>1, <2>3
    <3>2. localID[d] = localID[e]
      BY <1>3, <1>6, <3>1
    <3> QED
      BY <3>1, <3>2 DEF Names
  <2> QED
    BY <2>2, <2>3
<1>7. peer' \in Accepted' /\ localID'[peer'] = clntID'
  BY <1>1, <1>2 DEF Accept
<1>8. socketMap' = socketMap /\ blockingSocketMap' = blockingSocketMap
  BY DEF Accept
<1>9. SocketOf(socketMap)' /\ SocketOf(blockingSocketMap)'
  BY <1>1, <1>3, <1>8 DEF Names, SocketOf
<1> QED
  BY <1>2, <1>5, <1>6, <1>7, <1>8, <1>9 DEF Names

LEMMA OpenNames ==
  ASSUME Numbered, Names, EnterSocket \/ EnterQueues \/ Listen \/ AcceptBlocking
  PROVE  Names'
<1> USE DEF Numbered, CommType
<1>1. cpc' = cpc /\ localID' = localID /\ Accepted' = Accepted /\ peer' = peer
  BY DEF EnterSocket, EnterQueues, Listen, AcceptBlocking, Accepted
<1>2. opc # "accept" /\ peer \in Accepted /\ localID[peer] = clntID
  BY DEF Names, EnterSocket, EnterQueues, Listen, AcceptBlocking, OpenStep
<1>3. clntID \in Nat /\ \A c \in Accepted : localID[c] \in Nat
  BY DEF Counted, Accepted
<1>4. CASE EnterSocket
  <2>1. /\ socketMap' = [socketMap EXCEPT ![clntID] = peer]
        /\ blockingSocketMap' = blockingSocketMap /\ clntID' = clntID /\ opc' = "entered"
    BY <1>4 DEF EnterSocket, OpenStep
  <2>2. SocketOf(socketMap)'
    BY <1>1, <1>2, <2>1 DEF Names, SocketOf
  <2> QED
    BY <1>1, <1>2, <2>1, <2>2 DEF Names, SocketOf
<1>5. CASE EnterQueues \/ Listen
  BY <1>1, <1>2, <1>5 DEF Names, EnterQueues, Listen, OpenStep, SocketOf
<1>6. CASE AcceptBlocking
  <2>1. /\ blockingSocketMap' = [blockingSocketMap EXCEPT ![clntID] = peer]
        /\ socketMap' = socketMap /\ clntID' = clntID + 1 /\ opc' = "accept"
    BY <1>6 DEF AcceptBlocking, OpenStep
  <2>2. SocketOf(blockingSocketMap)'
    BY <1>1, <1>2, <2>1 DEF Names, SocketOf
  <2>3. blockingSocketMap' \in [ID -> Client \union {None}]
    BY <1>2, <2>1 DEF Names, Accepted
  <2>4. \A c \in Accepted : localID[c] < clntID + 1
    BY <1>3 DEF Names
  <2>5. SocketOf(socketMap)'
    BY <1>1, <2>1 DEF Names, SocketOf
  <2> QED
    BY <1>1, <1>3, <2>1, <2>2, <2>3, <2>4, <2>5 DEF Names
<1> QED
  BY <1>4, <1>5, <1>6

LEMMA NamesStep == Numbered /\ Names /\ [CommNext]_commVars => Names'
<1> SUFFICES ASSUME Numbered, Names, [CommNext]_commVars PROVE Names'
  OBVIOUS
<1>1. ASSUME NEW c \in Client,
             Connect(c) \/ ConnectBlocking(c) \/ Ask(c) \/ Answered(c)
      PROVE  Names'
  <2>1. Accepted' = Accepted
    BY <1>1 DEF Connect, ConnectBlocking, Ask, Answered, Goto, Accepted, Numbered, CommType
  <2>2. localID' = localID /\ UNCHANGED serverVars
    BY <1>1 DEF Connect, ConnectBlocking, Ask, Answered
  <2> QED
    BY <2>1, <2>2, NamesKept
<1>2. CASE Open
  BY <1>2, AcceptNames, OpenNames DEF Open
<1>3. CASE Start \/ (\E id \in ID : ReceiveFrom(id)) \/ InsertJob \/ GetJob \/ Callback
  <2>1. UNCHANGED <<serverVars, clientVars>>
    BY <1>3 DEF Start, ReceiveFrom, InsertJob, GetJob, Callback
  <2>2. Accepted' = Accepted
    BY <2>1 DEF Accepted, clientVars
  <2> QED
    BY <2>1, <2>2, NamesKept DEF clientVars
<1>4. CASE UNCHANGED commVars
  BY <1>4, NamesKept DEF commVars, clientVars, Accepted
<1> QED
  BY <1>1, <1>2, <1>3, <1>4 DEF CommNext

THEOREM NamesHold == CommSpec => []Names
BY NamesInit, NamesStep, Numbering, PTL DEF CommSpec

-----------------------------------------------------------------------------
(* The ring: which requests a step adds and takes away.                    *)

LEMMA OnceInit == Init => Once /\ Held = {}
BY NoneAssumption DEF Init, Once, Held, Line, Taken

LEMMA ReceiveHeld ==
  ASSUME Once, NEW m \in Job, m \notin Held, Receive(m)
  PROVE  Once' /\ Held' = Held \union {m}
<1>1. job = None /\ job' = m /\ Line' = Line /\ Taken' = Taken /\ ret' = ret
  BY DEF Receive, Line, Taken, getVars
<1>2. queue' = queue
  BY DEF Receive
<1>3. Held' = Held \union {m}
  BY <1>1, NoneAssumption DEF Held
<1>4. m \notin Line /\ (Taken => ret # m)
  BY DEF Held
<1> QED
  BY <1>1, <1>2, <1>3, <1>4 DEF Once

LEMMA FullHeld ==
  ASSUME Ring, Once, InsertFull
  PROVE  Once' /\ Held' = Held \ {job} /\ job \in Held
<1>1. job \in Job /\ job' = None /\ Line' = Line /\ Taken' = Taken /\ ret' = ret
  BY DEF InsertFull, Line, Taken, getVars, Ring, TypeOK
<1>2. queue' = queue
  BY DEF InsertFull
<1>3. Held' = Held \ {job} /\ job \in Held
  BY <1>1, NoneAssumption DEF Held, Once
<1>4. None \notin Line
  BY NoneAssumption DEF Line, Ring, TypeOK
<1>5. Taken => ret # None
  BY DEF Taken, Ring
<1> QED
  BY <1>1, <1>2, <1>3, <1>4, <1>5 DEF Once

LEMMA RunHeld ==
  ASSUME Ring, Once, Run
  PROVE  Once' /\ Held' = Held \ {ret} /\ ret \in Held
<1>1. /\ ret \in Job /\ Taken /\ ~Taken'
      /\ job' = job /\ queue' = queue /\ Line' = Line
  BY DEF Run, Line, Taken, insertVars, Ring, TypeOK
<1>2. Held' = Held \ {ret} /\ ret \in Held
  BY <1>1 DEF Held, Once
<1> QED
  BY <1>1, <1>2 DEF Once

(* What stays in the ring moves from job to the queue and on to ret.       *)
LEMMA MovedHeld ==
  ASSUME Ring, Once, InsertTest \/ InsertStore \/ InsertAdvance
                       \/ GetTest \/ GetClear \/ GetAdvance
  PROVE  Once' /\ Held' = Held
<1>0. queue \in Seq(Job) /\ None \notin Line
  BY NoneAssumption DEF Ring, TypeOK, Line
<1>1. CASE InsertTest \/ InsertAdvance
  BY <1>1 DEF InsertTest, InsertAdvance, getVars, Once, Held, Line, Taken
<1>2. CASE InsertStore
  <2>1. job \in Job /\ queue' = Append(queue, job) /\ job' = None /\ ret' = ret /\ Taken' = Taken
    BY <1>2 DEF InsertStore, Ring, TypeOK, Taken, getVars
  <2>2. \A i \in DOMAIN queue' : \/ i = Len(queue) + 1 /\ queue'[i] = job
                                 \/ i \in DOMAIN queue /\ queue'[i] = queue[i]
    BY <1>0, <2>1
  <2>3. \A i \in DOMAIN queue : i \in DOMAIN queue' /\ queue'[i] = queue[i]
    BY <1>0, <2>1
  <2>4. Len(queue) + 1 \in DOMAIN queue' /\ queue'[Len(queue) + 1] = job
    BY <1>0, <2>1
  <2>5. Line' = Line \union {job}
    BY <2>2, <2>3, <2>4 DEF Line
  <2>6. \A i \in DOMAIN queue : queue[i] # job
    BY DEF Once, Line
  <2>7. \A i, j \in DOMAIN queue' : queue'[i] = queue'[j] => i = j
    BY <2>2, <2>6 DEF Once
  <2>8. Taken => ret # None
    BY DEF Taken, Ring
  <2>9. Held' = Held
    BY <2>1, <2>5, NoneAssumption DEF Held
  <2>10. job' \notin Line' /\ (Taken' => ret' \notin Line' /\ ret' # job')
    BY <1>0, <2>1, <2>5, <2>8, NoneAssumption DEF Once
  <2> QED
    BY <2>7, <2>9, <2>10 DEF Once
<1>3. CASE GetTest
  BY <1>3 DEF GetTest, insertVars, Once, Held, Line, Taken
<1>4. CASE GetClear
  <2>1. /\ Len(queue) > 0 /\ ret = queue[1] /\ queue' = Tail(queue)
        /\ job' = job /\ ret' = ret /\ ~Taken /\ Taken'
    BY <1>4 DEF GetClear, Ring, TypeOK, Taken, insertVars
  <2>2. \A i \in DOMAIN queue' : i + 1 \in DOMAIN queue /\ queue'[i] = queue[i + 1] /\ i # 0
    BY <1>0, <2>1
  <2>3. \A i \in DOMAIN queue : i # 1 => i - 1 \in DOMAIN queue' /\ queue'[i - 1] = queue[i]
    BY <1>0, <2>1
  <2>4. 1 \in DOMAIN queue /\ ret \in Job
    BY <1>0, <2>1
  <2>5. Line' \subseteq Line
    BY <2>2 DEF Line
  <2>6. ret \notin Line'
    <3>1. SUFFICES ASSUME NEW i \in DOMAIN queue', queue'[i] = ret PROVE FALSE
      BY DEF Line
    <3>2. i + 1 \in DOMAIN queue /\ queue[i + 1] = queue[1] /\ i \in Nat
      BY <1>0, <2>1, <2>2, <3>1
    <3>3. i + 1 = 1
      BY <2>4, <3>2 DEF Once
    <3> QED
      BY <2>2, <3>1, <3>2, <3>3
  <2>7. Line = Line' \union {ret}
    <3>1. ASSUME NEW x \in Line PROVE x \in Line' \/ x = ret
      <4>1. PICK i \in DOMAIN queue : x = queue[i]
        BY DEF Line
      <4>2. CASE i = 1
        BY <2>1, <4>1, <4>2
      <4>3. CASE i # 1
        <5>1. i - 1 \in DOMAIN queue' /\ queue'[i - 1] = x
          BY <2>3, <4>1, <4>3
        <5> QED
          BY <5>1 DEF Line
      <4> QED
        BY <4>2, <4>3
    <3>2. ret \in Line
      BY <2>1, <2>4 DEF Line
    <3> QED
      BY <2>5, <3>1, <3>2
  <2>8. Held' = Held
    BY <2>1, <2>4, <2>7 DEF Held
  <2>9. \A i, j \in DOMAIN queue' : queue'[i] = queue'[j] => i = j
    <3> SUFFICES ASSUME NEW i \in DOMAIN queue', NEW j \in DOMAIN queue',
                        queue'[i] = queue'[j]
                 PROVE  i = j
      OBVIOUS
    <3>1. i + 1 = j + 1
      BY <2>2 DEF Once
    <3>2. i \in Nat /\ j \in Nat
      BY <1>0, <2>1
    <3> QED
      BY <3>1, <3>2
  <2>10. ret # job
    BY <2>7 DEF Once
  <2> QED
    BY <2>1, <2>5, <2>6, <2>8, <2>9, <2>10 DEF Once
<1>5. CASE GetAdvance
  BY <1>5 DEF GetAdvance, insertVars, Once, Held, Line, Taken
<1> QED
  BY <1>1, <1>2, <1>3, <1>4, <1>5

-----------------------------------------------------------------------------
(* The exchange of requests and answers.                                   *)

LEMMA ExchangeInit == CommInit => Once /\ Exchange
<1> SUFFICES ASSUME CommInit PROVE Once /\ Exchange
  OBVIOUS
<1>1. Once /\ Held = {}
  BY OnceInit DEF CommInit
<1> QED
  BY <1>1 DEF CommInit, Exchange, Place

(* Steps that leave the exchange alone.                                    *)
LEMMA ExchangeKept ==
  ASSUME Exchange, up' = up, down' = down, lost' = lost, Held' = Held,
         \A c \in Client : cpc'[c] = "waiting" <=> cpc[c] = "waiting",
         \A c \in Client : cpc[c] = "waiting" => Mine(c)' = Mine(c)
  PROVE  Exchange'
<1>1. \A m \in Held' \union lost' : Waits(m)'
  BY DEF Exchange, Waits
<1>2. ASSUME NEW c \in Client PROVE Place(c)'
  <2>1. Place(c)
    BY DEF Exchange
  <2>2. CASE cpc[c] = "waiting"
    BY <2>1, <2>2 DEF Place
  <2>3. CASE cpc[c] # "waiting"
    BY <2>1, <2>3 DEF Place
  <2> QED
    BY <2>2, <2>3
<1> QED
  BY <1>1, <1>2 DEF Exchange

(* No two clients wait for the same request.                               *)
LEMMA MineDiffers ==
  ASSUME Names, NEW c \in Client, NEW d \in Client, c \in Accepted, d \in Accepted,
         localID[c] = localID[d]
  PROVE  c = d
BY DEF Names

LEMMA AskExchange ==
  ASSUME Numbered, Names, Exchange, NEW c \in Client, Ask(c)
  PROVE  Exchange'
<1> DEFINE m == [src |-> localID[c], n |-> asked[c] + 1]
<1>1. /\ cpc[c] = "ready" /\ cpc' = [cpc EXCEPT ![c] = "waiting"]
      /\ localID' = localID /\ asked' = [asked EXCEPT ![c] = @ + 1]
      /\ up' = [up EXCEPT ![c] = Append(@, m)]
      /\ down' = down /\ lost' = lost /\ UNCHANGED vars
  BY DEF Ask, Goto
<1>2. Held' = Held
  BY <1>1 DEF vars, Held, Line, Taken
<1>3. Mine(c)' = m
  BY <1>1 DEF Mine, Numbered, CommType
<1>4. \A d \in Client : d # c => Mine(d)' = Mine(d) /\ cpc'[d] = cpc[d] /\ up'[d] = up[d]
  BY <1>1 DEF Mine, Numbered, CommType
<1>5. cpc'[c] = "waiting" /\ up'[c] = <<m>> /\ down'[c] = << >>
  <2>1. up[c] = << >> /\ down[c] = << >>
    BY <1>1 DEF Exchange, Place
  <2>2. up'[c] = Append(up[c], m) /\ cpc'[c] = "waiting"
    BY <1>1 DEF Exchange, Numbered, CommType
  <2> QED
    BY <1>1, <2>1, <2>2
<1>6. m \in Job
  <2>1. c \in Accepted
    BY <1>1 DEF Accepted
  <2>2. localID[c] \in ID /\ asked[c] \in Nat /\ asked[c] < MaxAsk
    BY <2>1 DEF Ask, Numbered, Counted, CommType
  <2> QED
    BY <2>2, JobAssumption, ClientAssumption
<1>7. m \notin Held \union lost
  <2> SUFFICES ASSUME m \in Held \union lost PROVE FALSE
    OBVIOUS
  <2>1. PICK d \in Client : cpc[d] = "waiting" /\ m = Mine(d)
    BY DEF Exchange, Waits
  <2>2. localID[c] = localID[d]
    BY <2>1 DEF Mine
  <2>3. c \in Accepted /\ d \in Accepted
    BY <1>1, <2>1 DEF Accepted
  <2>4. c = d
    BY <2>2, <2>3 DEF Names
  <2> QED
    BY <1>1, <2>1, <2>4
<1>8. \A x \in Held' \union lost' : Waits(x)'
  BY <1>1, <1>2, <1>4 DEF Exchange, Waits
<1>9. ASSUME NEW d \in Client PROVE Place(d)'
  <2>1. CASE d = c
    <3>1. Mine(d)' = m /\ m \notin Held' \union lost'
      BY <1>1, <1>2, <1>3, <1>7, <2>1
    <3>2. up'[d] = <<m>> /\ down'[d] = << >> /\ cpc'[d] = "waiting"
      BY <1>5, <2>1
    <3> HIDE DEF m
    <3> QED
      BY <3>1, <3>2 DEF Place
  <2>2. CASE d # c
    BY <1>1, <1>2, <1>4, <2>2 DEF Exchange, Place
  <2> QED
    BY <2>1, <2>2
<1>10. up' \in [Client -> Seq(Job)]
  BY <1>1, <1>6 DEF Exchange
<1> QED
  BY <1>1, <1>2, <1>8, <1>9, <1>10 DEF Exchange

LEMMA AnsweredExchange ==
  ASSUME Numbered, Names, Exchange, NEW c \in Client, Answered(c)
  PROVE  Exchange'
<1>1. /\ cpc[c] = "waiting" /\ cpc' = [cpc EXCEPT ![c] = "ready"]
      /\ localID' = localID /\ asked' = asked /\ up' = up /\ lost' = lost
      /\ down[c] # << >> /\ down' = [down EXCEPT ![c] = Tail(@)] /\ UNCHANGED vars
  BY DEF Answered, Goto
<1>2. Held' = Held
  BY <1>1 DEF vars, Held, Line, Taken
<1>3. \A d \in Client : Mine(d)' = Mine(d)
  BY <1>1 DEF Mine
<1>4. Place(c)
  BY DEF Exchange
<1>5. down[c] = <<Mine(c)>> /\ up[c] = << >> /\ Mine(c) \notin Held \union lost
  BY <1>1, <1>4 DEF Place
<1>6. cpc'[c] = "ready" /\ down'[c] = << >> /\ up'[c] = << >>
  BY <1>1, <1>5 DEF Numbered, CommType, Exchange
<1>7. \A d \in Client : d # c => cpc'[d] = cpc[d] /\ down'[d] = down[d]
  BY <1>1 DEF Numbered, CommType, Exchange
<1>8. ASSUME NEW x \in Held \union lost PROVE Waits(x)'
  <2>1. PICK d \in Client : cpc[d] = "waiting" /\ x = Mine(d)
    BY DEF Exchange, Waits
  <2>2. d # c
    BY <1>5, <2>1
  <2> QED
    BY <1>3, <1>7, <2>1, <2>2 DEF Waits
<1>9. ASSUME NEW d \in Client PROVE Place(d)'
  <2>1. CASE d = c
    BY <1>6, <2>1 DEF Place
  <2>2. CASE d # c
    BY <1>1, <1>2, <1>3, <1>7, <2>2 DEF Exchange, Place
  <2> QED
    BY <2>1, <2>2
<1> QED
  BY <1>1, <1>2, <1>8, <1>9 DEF Exchange

LEMMA ReceiveFromExchange ==
  ASSUME Numbered, Names, Ring, Once, Exchange, NEW id \in ID, ReceiveFrom(id)
  PROVE  Once' /\ Exchange'
<1> DEFINE c == socketMap[id]
<1>1. c \in Client /\ up[c] # << >> /\ up' = [up EXCEPT ![c] = Tail(@)]
  BY DEF ReceiveFrom, Numbered, CommType
<1>2. UNCHANGED <<cpc, localID, asked, down, lost>>
  BY DEF ReceiveFrom, clientVars
<1> HIDE DEF c
<1>3. Place(c)
  BY <1>1 DEF Exchange
<1>4. up[c] = <<Mine(c)>> /\ cpc[c] = "waiting" /\ down[c] = << >>
      /\ Mine(c) \notin Held \union lost
  BY <1>1, <1>3 DEF Place
<1>5. up[c] \in Seq(Job)
  BY <1>1 DEF Exchange
<1>6. Mine(c) \in Job /\ Head(up[c]) = Mine(c) /\ Tail(up[c]) = << >>
  BY <1>4, <1>5
<1>7. Receive(Mine(c))
  BY <1>6 DEF ReceiveFrom, c
<1>8. Once' /\ Held' = Held \union {Mine(c)}
  BY <1>4, <1>6, <1>7, ReceiveHeld
<1>9. \A d \in Client : Mine(d)' = Mine(d)
  BY <1>2 DEF Mine
<1>10. up'[c] = << >> /\ \A d \in Client : d # c => up'[d] = up[d]
  BY <1>1, <1>6 DEF Exchange
<1>11. \A x \in Held' \union lost' : Waits(x)'
  BY <1>1, <1>2, <1>4, <1>8, <1>9 DEF Exchange, Waits
<1>12. ASSUME NEW d \in Client PROVE Place(d)'
  <2>1. CASE d = c
    BY <1>2, <1>4, <1>8, <1>9, <1>10, <2>1 DEF Place
  <2>2. CASE d # c
    <3>1. Place(d)
      BY DEF Exchange
    <3>2. CASE cpc[d] # "waiting"
      BY <1>2, <1>9, <1>10, <2>2, <3>1, <3>2 DEF Place
    <3>3. CASE cpc[d] = "waiting"
      <4>1. Mine(d) # Mine(c)
        <5>1. c \in Accepted /\ d \in Accepted
          BY <1>1, <1>4, <3>3 DEF Accepted
        <5> QED
          BY <2>2, <5>1 DEF Names, Mine
      <4> QED
        BY <1>2, <1>8, <1>9, <1>10, <2>2, <3>1, <3>3, <4>1 DEF Place
    <3> QED
      BY <3>2, <3>3
  <2> QED
    BY <2>1, <2>2
<1>13. up' \in [Client -> Seq(Job)]
  BY <1>1, <1>6 DEF Exchange
<1>14. Held' \intersect lost' = {}
  BY <1>2, <1>4, <1>8 DEF Exchange
<1> QED
  BY <1>2, <1>8, <1>11, <1>12, <1>13, <1>14 DEF Exchange

(* A request that leaves the ring without an answer.                       *)
LEMMA LostExchange ==
  ASSUME Exchange, NEW m \in Held, Held' = Held \ {m}, lost' = lost \union {m},
         UNCHANGED <<up, down, clientVars>>
  PROVE  Exchange'
<1>1. \A d \in Client : Mine(d)' = Mine(d)
  BY DEF Mine, clientVars
<1>2. Held' \union lost' = Held \union lost
  OBVIOUS
<1>3. \A x \in Held' \union lost' : Waits(x)'
  BY <1>1, <1>2 DEF Exchange, Waits, clientVars
<1>4. \A d \in Client : Place(d)'
  BY <1>1, <1>2 DEF Exchange, Place, clientVars
<1>5. Held' \intersect lost' = {}
  BY DEF Exchange
<1> QED
  BY <1>3, <1>4, <1>5 DEF Exchange

LEMMA CallbackExchange ==
  ASSUME Numbered, Names, Ring, Once, Exchange, Callback
  PROVE  Once' /\ Exchange'
<1>1. Run /\ UNCHANGED <<clientVars, up>>
  BY DEF Callback
<1>2. Once' /\ Held' = Held \ {ret} /\ ret \in Held
  BY <1>1, RunHeld
<1>3. CASE blockingSocketMap[ret.src] = None
  <2>1. lost' = lost \union {ret} /\ down' = down
    BY <1>3 DEF Callback
  <2> QED
    BY <1>1, <1>2, <2>1, LostExchange
<1>4. CASE blockingSocketMap[ret.src] # None
  <2> DEFINE c == blockingSocketMap[ret.src]
  <2>1. down' = [down EXCEPT ![c] = Append(@, ret)] /\ lost' = lost
    BY <1>4 DEF Callback
  <2>2. PICK d \in Client : cpc[d] = "waiting" /\ ret = Mine(d)
    BY <1>2 DEF Exchange, Waits
  <2>3. d \in Accepted /\ ret.src = localID[d]
    BY <2>2 DEF Accepted, Mine
  <2>4. localID[d] \in ID
    BY <2>3 DEF Numbered, Counted
  <2>5. c \in Accepted /\ localID[c] = localID[d]
    BY <1>4, <2>3, <2>4 DEF Names, SocketOf
  <2>6. c = d
    BY <2>3, <2>5 DEF Names
  <2> HIDE DEF c
  <2>7. Place(d)
    BY DEF Exchange
  <2>8. up[d] = << >> /\ down[d] = << >> /\ Mine(d) \in Held /\ Mine(d) \notin lost
    BY <1>2, <2>2, <2>7 DEF Place, Exchange
  <2>9. \A e \in Client : Mine(e)' = Mine(e) /\ cpc'[e] = cpc[e]
    BY <1>1 DEF Mine, clientVars
  <2>10. down'[d] = <<Mine(d)>> /\ \A e \in Client : e # d => down'[e] = down[e]
    BY <2>1, <2>2, <2>6, <2>8 DEF Exchange
  <2>11. ASSUME NEW e \in Client, e # d, cpc[e] = "waiting" PROVE Mine(e) # ret
    <3>1. e \in Accepted
      BY <2>11 DEF Accepted
    <3> QED
      BY <2>2, <2>3, <2>11, <3>1 DEF Names, Mine
  <2>12. \A x \in Held' \union lost' : Waits(x)'
    BY <1>2, <2>1, <2>9 DEF Exchange, Waits
  <2>13. ASSUME NEW e \in Client PROVE Place(e)'
    <3>1. CASE e = d
      BY <1>1, <1>2, <2>1, <2>2, <2>8, <2>9, <2>10, <3>1 DEF Place
    <3>2. CASE e # d
      <4>1. Place(e)
        BY DEF Exchange
      <4>2. CASE cpc[e] # "waiting"
        BY <1>1, <2>9, <2>10, <3>2, <4>1, <4>2 DEF Place
      <4>3. CASE cpc[e] = "waiting"
        BY <1>1, <1>2, <2>1, <2>9, <2>10, <2>11, <3>2, <4>1, <4>3 DEF Place
      <4> QED
        BY <4>2, <4>3
    <3> QED
      BY <3>1, <3>2
  <2>14. DOMAIN down' = Client
    BY <2>1 DEF Exchange
  <2> QED
    BY <1>1, <1>2, <2>1, <2>12, <2>13, <2>14 DEF Exchange
<1> QED
  BY <1>3, <1>4

LEMMA ExchangeStep ==
  Numbered /\ Names /\ Ring /\ Once /\ Exchange /\ [CommNext]_commVars => Once' /\ Exchange'
<1> SUFFICES ASSUME Numbered, Names, Ring, Once, Exchange, [CommNext]_commVars
             PROVE  Once' /\ Exchange'
  OBVIOUS
<1>0. UNCHANGED vars => Once' /\ Held' = Held
  BY DEF vars, Once, Held, Line, Taken
<1>1. ASSUME NEW c \in Client, Connect(c) \/ ConnectBlocking(c)
      PROVE  Once' /\ Exchange'
  <2>1. /\ UNCHANGED <<vars, up, down, lost, localID, asked>>
        /\ cpc[c] # "waiting" /\ \E to \in {"connected", "ready"} : cpc' = [cpc EXCEPT ![c] = to]
    BY <1>1 DEF Connect, ConnectBlocking, Goto
  <2>2. \A d \in Client : cpc'[d] = "waiting" <=> cpc[d] = "waiting"
    BY <2>1 DEF Numbered, CommType
  <2>3. \A d \in Client : Mine(d)' = Mine(d)
    BY <2>1 DEF Mine
  <2> QED
    BY <1>0, <2>1, <2>2, <2>3, ExchangeKept
<1>2. ASSUME NEW c \in Client, Ask(c) \/ Answered(c)
      PROVE  Once' /\ Exchange'
  BY <1>0, <1>2, AskExchange, AnsweredExchange DEF Ask, Answered
<1>3. ASSUME NEW c \in Client, Accept(c) PROVE Once' /\ Exchange'
  <2>1. /\ UNCHANGED <<vars, up, down, lost, asked>> /\ cpc[c] = "connected"
        /\ cpc' = [cpc EXCEPT ![c] = "named"]
        /\ localID' = [localID EXCEPT ![c] = clntID]
    BY <1>3 DEF Accept, Goto, OpenFrame
  <2>2. \A d \in Client : cpc'[d] = "waiting" <=> cpc[d] = "waiting"
    BY <2>1 DEF Numbered, CommType
  <2>3. \A d \in Client : cpc[d] = "waiting" => Mine(d)' = Mine(d)
    BY <2>1 DEF Mine, Numbered, CommType
  <2> QED
    BY <1>0, <2>1, <2>2, <2>3, ExchangeKept
<1>4. CASE EnterSocket \/ EnterQueues \/ Listen \/ AcceptBlocking \/ Start \/ UNCHANGED commVars
  <2>1. UNCHANGED <<vars, up, down, lost, cpc, localID, asked>>
    BY <1>4 DEF EnterSocket, EnterQueues, Listen, AcceptBlocking, Start, OpenFrame,
                commVars, clientVars
  <2>2. \A d \in Client : Mine(d)' = Mine(d)
    BY <2>1 DEF Mine
  <2> QED
    BY <1>0, <2>1, <2>2, ExchangeKept
<1>5. ASSUME NEW id \in ID, ReceiveFrom(id) PROVE Once' /\ Exchange'
  BY <1>5, ReceiveFromExchange
<1>6. CASE InsertJob \/ GetJob
  <2>1. UNCHANGED <<up, down, clientVars>>
    BY <1>6 DEF InsertJob, GetJob
  <2>2. CASE InsertFull /\ lost' = lost \union {job}
    <3>1. Once' /\ Held' = Held \ {job} /\ job \in Held
      BY <2>2, FullHeld
    <3> QED
      BY <2>1, <2>2, <3>1, LostExchange
  <2>3. CASE ~(InsertFull /\ lost' = lost \union {job})
    <3>1. lost' = lost /\ (InsertTest \/ InsertStore \/ InsertAdvance
                             \/ GetTest \/ GetClear \/ GetAdvance)
      BY <1>6, <2>3 DEF InsertJob, GetJob
    <3>2. Once' /\ Held' = Held
      BY <3>1, MovedHeld
    <3>3. \A d \in Client : Mine(d)' = Mine(d) /\ cpc'[d] = cpc[d]
      BY <2>1 DEF Mine, clientVars
    <3> QED
      BY <2>1, <3>1, <3>2, <3>3, ExchangeKept
  <2> QED
    BY <2>2, <2>3
<1>7. CASE Callback
  BY <1>7, CallbackExchange
<1> QED
  BY <1>1, <1>2, <1>3, <1>4, <1>5, <1>6, <1>7 DEF CommNext, Open

LEMMA ExchangeOwn == Exchange => OwnAnswers
<1> SUFFICES ASSUME Exchange, NEW c \in Client
             PROVE  /\ \A i \in DOMAIN down[c] : down[c][i] = Mine(c)
                    /\ Len(down[c]) + Len(up[c]) <= 1
                    /\ down[c] # << >> => cpc[c] = "waiting" /\ Mine(c) \notin lost
                    /\ cpc[c] = "waiting" => Mine(c) \in UnderWay \union lost \/ down[c] # << >>
  BY DEF OwnAnswers, Mine
<1>1. Place(c)
  BY DEF Exchange
<1>2. \A i \in DOMAIN down[c] : down[c][i] = Mine(c)
  BY <1>1 DEF Place
<1>3. Len(down[c]) + Len(up[c]) <= 1
  <2>1. CASE up[c] = << >> /\ down[c] = << >>
    BY <2>1
  <2>2. CASE up[c] = << >> /\ down[c] = <<Mine(c)>>
    BY <2>2
  <2>3. CASE up[c] = <<Mine(c)>> /\ down[c] = << >>
    BY <2>3
  <2> QED
    BY <1>1, <2>1, <2>2, <2>3 DEF Place
<1>4. Held \subseteq UnderWay
  BY NoneAssumption DEF Held, UnderWay, Line
<1>5. up[c] # << >> => Mine(c) \in UnderWay
  <2>1. SUFFICES ASSUME up[c] # << >> PROVE Mine(c) \in UnderWay
    OBVIOUS
  <2>2. up[c] = <<Mine(c)>>
    BY <1>1, <2>1 DEF Place
  <2>3. Mine(c) \in {up[c][i] : i \in DOMAIN up[c]}
    BY <2>2
  <2>4. Mine(c) \in UNION {{up[d][i] : i \in DOMAIN up[d]} : d \in Client}
    BY <2>3
  <2> QED
    BY <2>4 DEF UnderWay
<1> QED
  BY <1>1, <1>2, <1>3, <1>4, <1>5 DEF Place

(* However clients connect and ask while others are served, each gets the  *)
(* answer to the request it waits for and no other.                        *)
THEOREM ClientsGetTheirAnswers == CommSpec => []OwnAnswers
<1>1. CommInit => Once /\ Exchange
  BY ExchangeInit
<1>2. Numbered /\ Names /\ Ring /\ (Once /\ Exchange) /\ [CommNext]_commVars
        => (Once /\ Exchange)'
  BY ExchangeStep
<1>3. Once /\ Exchange => OwnAnswers
  BY ExchangeOwn
<1> QED
  BY <1>1, <1>2, <1>3, Numbering, NamesHold, ServerRing, PTL DEF CommSpec
=============================================================================
