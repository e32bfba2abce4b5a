--------------------------- MODULE UvaStartProofs ---------------------------
(***************************************************************************)
(* Proofs about UvaStart, for any number of devices and any initialiser:   *)
(* permission is given once and in time, initial values overwrite no       *)
(* object, nobody leaves the waiter early.                                 *)
(***************************************************************************)
EXTENDS UvaStart, TLAPS

Past == {"look", "again", "sync", "test", "run"}    \* the object is visible
Started == {"construct", "waiter"} \union Past      \* the device may go on
InitialiserOnly == {"initialise", "publish", "complete", "ack"}

(* The devices on the list of the home.                                    *)
Known == {RuntimeClientConnTb[i] : i \in DOMAIN RuntimeClientConnTb}

(* The initialiser alone initialises, and the others start after it.       *)
Phases ==
  /\ pc[Initialiser] \in InitialiserOnly \union Started
  /\ \A d \in Device : d # Initialiser => pc[d] \notin InitialiserOnly
  /\ \A d \in Device : pc[d] \in Started => isInitEnd
  /\ isInitEnd => pc[Initialiser] \in {"ack"} \union Started

(* A device has one request in the queue, and only while it waits for the  *)
(* answer and the home has not put it on its list.                         *)
Requests ==
  /\ \A i, j \in DOMAIN jobQue : jobQue[i][1] = jobQue[j][1] => i = j
  /\ \A i \in DOMAIN jobQue : \A d \in Device : jobQue[i][1] = d =>
       /\ answers[d] = << >>
       /\ d \notin Known
       /\ d = Initialiser => jobQue[i][2] = "complete" /\ pc[d] = "ack" /\ ~isInitEnd
       /\ d # Initialiser => jobQue[i][2] = "newface" /\ pc[d] = "permission"

(* Nobody has permission before the home knows that the globals are there. *)
Permissions ==
  \A d \in Device :
    /\ answers[d] \in {<< >>, <<1>>}
    /\ answers[d] # << >> =>
         isInitEnd /\ pc[d] = IF d = Initialiser THEN "ack" ELSE "permission"
    /\ d \in Known => pc[d] # "newface"
    /\ d \in Known /\ ~isInitEnd => d # Initialiser /\ pc[d] = "permission"

(* What a device has stored and not made visible yet. *)
Unpublished(d) ==
  IF pc[d] = "publish" THEN <<[at |-> Device, val |-> Null]>>
  ELSE IF pc[d] = "waiter" THEN <<[at |-> {d}, val |-> Object]>>
  ELSE << >>

(* The objects in the memory are those of the devices that have come past  *)
(* the first uva_sync of the waiter, and nobody can see others.            *)
Objects ==
  /\ mem \in [Device -> {Null, Object}]
  /\ pend = [d \in Device |-> Unpublished(d)]
  /\ seen \in [Device -> [Device -> SUBSET {Null, Object}]]
  /\ \A d \in Device : mem[d] = Object <=> pc[d] \in Past
  /\ \A d, e \in Device : Object \in seen[d][e] => mem[e] = Object

(* A device in the waiter has seen the object of every global behind it.   *)
Waited ==
  \A d \in Device :
    /\ pc[d] \notin Past => next[d] = 1
    /\ \A e \in Device : e < next[d] => mem[e] = Object
    /\ pc[d] \in {"sync", "test"} /\ gv[d] # Null => mem[next[d]] = Object
    /\ pc[d] = "run" => \A e \in Device : mem[e] = Object

Inductive == TypeOK /\ Phases /\ Requests /\ Permissions /\ Objects /\ Waited

-----------------------------------------------------------------------------
(* Sequences: what Append, Head and Tail do to the elements.               *)

LEMMA AppendElements ==
  ASSUME NEW S, NEW s \in Seq(S), NEW x \in S
  PROVE  /\ Append(s, x) \in Seq(S)
         /\ DOMAIN Append(s, x) = DOMAIN s \union {Len(s) + 1}
         /\ Len(s) + 1 \notin DOMAIN s
         /\ Append(s, x)[Len(s) + 1] = x
         /\ \A i \in DOMAIN s : Append(s, x)[i] = s[i]
<1>1. Len(s) \in Nat /\ DOMAIN s = 1 .. Len(s)
  OBVIOUS
<1>2. DOMAIN Append(s, x) = 1 .. Len(s) + 1
  OBVIOUS
<1> QED
  BY <1>1, <1>2

LEMMA TailElements ==
  ASSUME NEW S, NEW s \in Seq(S), s # << >>
  PROVE  /\ 1 \in DOMAIN s
         /\ Head(s) = s[1]
         /\ Tail(s) \in Seq(S)
         /\ \A i \in DOMAIN Tail(s) :
              i + 1 \in DOMAIN s /\ i \in Nat /\ i + 1 # 1 /\ Tail(s)[i] = s[i + 1]
<1>1. Len(s) \in Nat \ {0} /\ DOMAIN s = 1 .. Len(s)
  OBVIOUS
<1>2. DOMAIN Tail(s) = 1 .. Len(s) - 1
  BY <1>1
<1> QED
  BY <1>1, <1>2

-----------------------------------------------------------------------------
(* Logs of at most one store.                                              *)

LEMMA ReplayNone ==
  ASSUME NEW m \in [Device -> {Null, Object}]
  PROVE  Globals!Replay(m, << >>) = m
BY DEF Globals!Replay, Globals!Written

LEMMA WrittenOne ==
  ASSUME NEW E, NEW v
  PROVE  Globals!Written(<<[at |-> E, val |-> v]>>) = E
BY DEF Globals!Written

LEMMA LastOfOne ==
  ASSUME NEW E, NEW v, NEW a \in E
  PROVE  Globals!LastOf(<<[at |-> E, val |-> v]>>, a) = v
<1> DEFINE l == <<[at |-> E, val |-> v]>>
<1>1. Globals!LastIndex(l, a) = {1}
  BY DEF Globals!LastIndex
<1> QED
  BY <1>1 DEF Globals!LastOf

LEMMA ReplayOne ==
  ASSUME NEW m \in [Device -> {Null, Object}], NEW E, NEW v
  PROVE  Globals!Replay(m, <<[at |-> E, val |-> v]>>) =
           [a \in Device |-> IF a \in E THEN v ELSE m[a]]
BY WrittenOne, LastOfOne DEF Globals!Replay

-----------------------------------------------------------------------------
(* The initial state.                                                      *)

LEMMA InductiveInit == Init => Inductive
<1> SUFFICES ASSUME Init PROVE Inductive
  OBVIOUS
<1> USE DeviceAssumption DEF Init, Globals!Init
<1>0. Device \subseteq Nat /\ 1 \in Device
  BY DEF Device
<1>1. TypeOK
  <2>1. RuntimeClientConnTb \in Seq(Device)
    OBVIOUS
  <2>2. jobQue \in Seq(Device \X {"newface", "complete"})
    OBVIOUS
  <2>3. answers \in [Device -> Seq({1})]
    OBVIOUS
  <2>4. next \in [Device -> Device] /\ gv \in [Device -> {Null, Object}]
    BY <1>0
  <2> QED
    BY <2>1, <2>2, <2>3, <2>4 DEF TypeOK
<1>2. Phases /\ Requests /\ Permissions
  BY DEF Phases, Requests, Permissions, Known, InitialiserOnly, Started, Past
<1>3. Objects
  BY DEF Objects, Unpublished, Past, Null, Object
<1>4. Waited
  BY DEF Waited, Past, Device
<1> QED
  BY <1>1, <1>2, <1>3, <1>4 DEF Inductive

-----------------------------------------------------------------------------
(* Requests and answers.  The memory and the waiters stay as they are.     *)

(* A step between two points of the start before the waiter.               *)
LEMMA MemoryKept ==
  ASSUME Inductive, UNCHANGED <<memory, waiterVars>>, NEW d \in Device, NEW to,
         pc' = [pc EXCEPT ![d] = to], pc[d] \notin Past \union {"publish", "waiter"},
         to \notin Past \union {"publish", "waiter"}
  PROVE  Objects' /\ Waited'
<1> USE DEF Inductive, TypeOK, memory, waiterVars
<1>1. \A e \in Device : pc'[e] = IF e = d THEN to ELSE pc[e]
  OBVIOUS
<1>2. \A e \in Device : (pc'[e] \in Past <=> pc[e] \in Past)
                      /\ Unpublished(e)' = Unpublished(e)
  BY <1>1 DEF Unpublished
<1>3. Objects'
  BY <1>2 DEF Objects
<1>4. Waited'
  BY <1>1, <1>2 DEF Waited, Past
<1> QED
  BY <1>3, <1>4

(* The home changes nothing of that either.                                *)
LEMMA MemoryUntouched ==
  ASSUME Inductive, UNCHANGED <<memory, pc, waiterVars>>
  PROVE  Objects' /\ Waited'
BY DEF Inductive, memory, waiterVars, Objects, Waited, Unpublished

LEMMA NewfaceStep ==
  ASSUME Inductive, NEW d \in Device, Newface(d)
  PROVE  Inductive'
<1> USE DeviceAssumption DEF Inductive
<1>1. /\ pc[d] = "newface" /\ pc' = [pc EXCEPT ![d] = "permission"]
      /\ jobQue' = Append(jobQue, <<d, "newface">>)
      /\ UNCHANGED <<memory, isInitEnd, RuntimeClientConnTb, answers, waiterVars>>
  BY DEF Newface, Goto, Request
<1>2. d # Initialiser /\ d \notin Known /\ answers[d] = << >>
  BY <1>1 DEF Phases, Permissions, InitialiserOnly, Started, Past
<1>3. \A i \in DOMAIN jobQue : jobQue[i][1] # d
  BY <1>1, <1>2 DEF Requests
<1> DEFINE q == Append(jobQue, <<d, "newface">>)
           n == Len(jobQue) + 1
<1>4. /\ q \in Seq(Device \X {"newface", "complete"})
      /\ DOMAIN q = DOMAIN jobQue \union {n} /\ n \notin DOMAIN jobQue
      /\ q[n] = <<d, "newface">> /\ \A i \in DOMAIN jobQue : q[i] = jobQue[i]
  BY AppendElements DEF TypeOK
<1>5. \A e \in Device : pc'[e] = IF e = d THEN "permission" ELSE pc[e]
  BY <1>1 DEF TypeOK
<1>6. TypeOK'
  BY <1>1, <1>4 DEF TypeOK, waiterVars
<1>7. Phases'
  BY <1>1, <1>2, <1>5 DEF Phases, InitialiserOnly, Started, Past
<1>8. Requests'
  <2>1. \A i, j \in DOMAIN q : q[i][1] = q[j][1] => i = j
    BY <1>3, <1>4 DEF Requests
  <2>2. ASSUME NEW i \in DOMAIN q, NEW e \in Device, q[i][1] = e
        PROVE  /\ answers[e] = << >>
               /\ e \notin Known
               /\ e = Initialiser => q[i][2] = "complete" /\ pc'[e] = "ack" /\ ~isInitEnd
               /\ e # Initialiser => q[i][2] = "newface" /\ pc'[e] = "permission"
    <3>1. CASE i = n
      BY <1>2, <1>4, <1>5, <2>2, <3>1
    <3>2. CASE i \in DOMAIN jobQue
      BY <1>3, <1>4, <1>5, <2>2, <3>2 DEF Requests
    <3> QED
      BY <1>4, <2>2, <3>1, <3>2
  <2> QED
    BY <1>1, <2>1, <2>2 DEF Requests, Known
<1>9. Permissions'
  BY <1>1, <1>2, <1>5 DEF Permissions, Known
<1>10. Objects' /\ Waited'
  BY <1>1, MemoryKept DEF Past
<1> QED
  BY <1>6, <1>7, <1>8, <1>9, <1>10

LEMMA InitCompleteStep ==
  ASSUME Inductive, NEW d \in Device, InitComplete(d)
  PROVE  Inductive'
<1> USE DeviceAssumption DEF Inductive
<1>1. /\ pc[d] = "complete" /\ pc' = [pc EXCEPT ![d] = "ack"]
      /\ jobQue' = Append(jobQue, <<d, "complete">>)
      /\ UNCHANGED <<memory, isInitEnd, RuntimeClientConnTb, answers, waiterVars>>
  BY DEF InitComplete, Goto, Request
<1>2. d = Initialiser /\ ~isInitEnd /\ d \notin Known /\ answers[d] = << >>
  BY <1>1 DEF Phases, Permissions, InitialiserOnly, Started, Past
<1>3. \A i \in DOMAIN jobQue : jobQue[i][1] # d
  BY <1>1, <1>2 DEF Requests
<1> DEFINE q == Append(jobQue, <<d, "complete">>)
           n == Len(jobQue) + 1
<1>4. /\ q \in Seq(Device \X {"newface", "complete"})
      /\ DOMAIN q = DOMAIN jobQue \union {n} /\ n \notin DOMAIN jobQue
      /\ q[n] = <<d, "complete">> /\ \A i \in DOMAIN jobQue : q[i] = jobQue[i]
  BY AppendElements DEF TypeOK
<1>5. \A e \in Device : pc'[e] = IF e = d THEN "ack" ELSE pc[e]
  BY <1>1 DEF TypeOK
<1>6. TypeOK'
  BY <1>1, <1>4 DEF TypeOK, waiterVars
<1>7. Phases'
  BY <1>1, <1>2, <1>5 DEF Phases, InitialiserOnly, Started, Past
<1>8. Requests'
  <2>1. \A i, j \in DOMAIN q : q[i][1] = q[j][1] => i = j
    BY <1>3, <1>4 DEF Requests
  <2>2. ASSUME NEW i \in DOMAIN q, NEW e \in Device, q[i][1] = e
        PROVE  /\ answers[e] = << >>
               /\ e \notin Known
               /\ e = Initialiser => q[i][2] = "complete" /\ pc'[e] = "ack" /\ ~isInitEnd
               /\ e # Initialiser => q[i][2] = "newface" /\ pc'[e] = "permission"
    <3>1. CASE i = n
      BY <1>2, <1>4, <1>5, <2>2, <3>1
    <3>2. CASE i \in DOMAIN jobQue
      BY <1>3, <1>4, <1>5, <2>2, <3>2 DEF Requests
    <3> QED
      BY <1>4, <2>2, <3>1, <3>2
  <2> QED
    BY <1>1, <2>1, <2>2 DEF Requests, Known
<1>9. Permissions'
  BY <1>1, <1>2, <1>5 DEF Permissions, Known
<1>10. Objects' /\ Waited'
  BY <1>1, MemoryKept DEF Past
<1> QED
  BY <1>6, <1>7, <1>8, <1>9, <1>10

(* The answer is taken: the device goes on.                                *)
LEMMA AnswerStep ==
  ASSUME Inductive, NEW d \in Device, Permission(d) \/ CompleteAck(d)
  PROVE  Inductive'
<1> USE DeviceAssumption DEF Inductive
<1>1. /\ pc[d] \in {"permission", "ack"} /\ pc' = [pc EXCEPT ![d] = "construct"]
      /\ answers[d] # << >> /\ answers' = [answers EXCEPT ![d] = Tail(@)]
      /\ UNCHANGED <<memory, homeVars, waiterVars>>
  BY DEF Permission, CompleteAck, Goto, TakeWord
<1>2. answers[d] = <<1>> /\ isInitEnd
  BY <1>1 DEF Permissions
<1>3. Tail(answers[d]) = << >>
  BY <1>2
<1>4. \A e \in Device : /\ answers'[e] = IF e = d THEN << >> ELSE answers[e]
                        /\ pc'[e] = IF e = d THEN "construct" ELSE pc[e]
  BY <1>1, <1>3 DEF TypeOK
<1>5. TypeOK'
  BY <1>1, <1>3 DEF TypeOK, waiterVars, homeVars
<1>6. Phases'
  BY <1>1, <1>2, <1>4 DEF Phases, InitialiserOnly, Started, Past, homeVars
<1>7. \A i \in DOMAIN jobQue : jobQue[i][1] # d
  BY <1>1 DEF Requests
<1>8. Requests'
  BY <1>1, <1>4, <1>7 DEF Requests, Known, homeVars
<1>9. Permissions'
  BY <1>1, <1>2, <1>4 DEF Permissions, Known, homeVars
<1>10. Objects' /\ Waited'
  BY <1>1, MemoryKept DEF Past
<1> QED
  BY <1>5, <1>6, <1>8, <1>9, <1>10

-----------------------------------------------------------------------------
(* The home.                                                               *)

LEMMA KnownAppend ==
  ASSUME RuntimeClientConnTb \in Seq(Device), NEW d \in Device,
         RuntimeClientConnTb' = Append(RuntimeClientConnTb, d)
  PROVE  RuntimeClientConnTb' \in Seq(Device) /\ Known' = Known \union {d}
BY AppendElements DEF Known

(* The device at the head of the queue is in it once, and waits.           *)
LEMMA TakeStep ==
  ASSUME Inductive, NEW d \in Device, NEW op, Take(d, op)
  PROVE  /\ jobQue' \in Seq(Device \X {"newface", "complete"})
         /\ \A i \in DOMAIN jobQue' :
              jobQue'[i][1] # d /\ \E j \in DOMAIN jobQue : jobQue'[i] = jobQue[j]
         /\ \A i, j \in DOMAIN jobQue' : jobQue'[i][1] = jobQue'[j][1] => i = j
         /\ answers[d] = << >> /\ d \notin Known
         /\ d = Initialiser => op = "complete" /\ pc[d] = "ack" /\ ~isInitEnd
         /\ d # Initialiser => op = "newface" /\ pc[d] = "permission"
<1> USE DEF Inductive
<1>1. /\ 1 \in DOMAIN jobQue
      /\ jobQue[1] = <<d, op>>
      /\ jobQue' \in Seq(Device \X {"newface", "complete"})
      /\ \A i \in DOMAIN jobQue' :
           i + 1 \in DOMAIN jobQue /\ i \in Nat /\ i + 1 # 1 /\ jobQue'[i] = jobQue[i + 1]
  BY TailElements DEF Take, TypeOK
<1>2. ASSUME NEW i \in DOMAIN jobQue'
      PROVE  jobQue'[i][1] # d /\ \E j \in DOMAIN jobQue : jobQue'[i] = jobQue[j]
  BY <1>1 DEF Requests
<1>3. ASSUME NEW i \in DOMAIN jobQue', NEW j \in DOMAIN jobQue',
             jobQue'[i][1] = jobQue'[j][1]
      PROVE  i = j
  <2>1. i + 1 = j + 1
    BY <1>1, <1>3 DEF Requests
  <2> QED
    BY <1>1, <2>1
<1>4. /\ answers[d] = << >> /\ d \notin Known
      /\ d = Initialiser => op = "complete" /\ pc[d] = "ack" /\ ~isInitEnd
      /\ d # Initialiser => op = "newface" /\ pc[d] = "permission"
  BY <1>1 DEF Requests
<1> QED
  BY <1>1, <1>2, <1>3, <1>4

LEMMA NewfaceHandlerStep ==
  ASSUME Inductive, NEW d \in Device, NewfaceHandler(d)
  PROVE  Inductive'
<1> USE DeviceAssumption DEF Inductive
<1>1. /\ Take(d, "newface")
      /\ RuntimeClientConnTb' = Append(RuntimeClientConnTb, d)
      /\ answers' = [answers EXCEPT ![d] = IF isInitEnd THEN Append(@, 1) ELSE @]
      /\ UNCHANGED <<memory, pc, waiterVars, isInitEnd>>
  BY DEF NewfaceHandler, Take
<1>2. d # Initialiser /\ pc[d] = "permission" /\ answers[d] = << >> /\ d \notin Known
  BY <1>1, TakeStep
<1>3. /\ RuntimeClientConnTb' \in Seq(Device)
      /\ Known' = Known \union {d}
  BY <1>1, KnownAppend DEF TypeOK
<1>4. Append(answers[d], 1) = <<1>>
  BY <1>2
<1>5. \A e \in Device : answers'[e] = IF e = d /\ isInitEnd THEN <<1>> ELSE answers[e]
  BY <1>1, <1>4 DEF TypeOK
<1>6. TypeOK'
  <2>1. answers' \in [Device -> Seq({1})]
    BY <1>1, <1>4 DEF TypeOK
  <2> QED
    BY <1>1, <1>3, <2>1, TakeStep DEF TypeOK, waiterVars
<1>7. Phases'
  BY <1>1 DEF Phases
<1>8. Requests'
  BY <1>1, <1>3, <1>5, TakeStep DEF Requests
<1>9. Permissions'
  BY <1>1, <1>2, <1>3, <1>5 DEF Permissions
<1>10. Objects' /\ Waited'
  BY <1>1, MemoryUntouched
<1> QED
  BY <1>6, <1>7, <1>8, <1>9, <1>10

LEMMA GlobalInitCompleteHandlerStep ==
  ASSUME Inductive, NEW d \in Device, GlobalInitCompleteHandler(d)
  PROVE  Inductive'
<1> USE DeviceAssumption DEF Inductive
<1>1. /\ Take(d, "complete") /\ ~isInitEnd /\ isInitEnd' = TRUE
      /\ RuntimeClientConnTb' = Append(RuntimeClientConnTb, d)
      /\ answers' = [e \in Device |->
           IF \E i \in DOMAIN RuntimeClientConnTb' : RuntimeClientConnTb'[i] = e
           THEN Append(answers[e], 1) ELSE answers[e]]
      /\ UNCHANGED <<memory, pc, waiterVars>>
  BY DEF GlobalInitCompleteHandler, Take
<1>2. d = Initialiser /\ pc[d] = "ack" /\ answers[d] = << >> /\ d \notin Known
  BY <1>1, TakeStep
<1>3. /\ RuntimeClientConnTb' \in Seq(Device)
      /\ Known' = Known \union {d}
  BY <1>1, KnownAppend DEF TypeOK
<1>4. \A e \in Device : answers[e] = << >>
  BY <1>1 DEF Permissions
<1>5. \A e \in Device : answers'[e] = IF e \in Known \/ e = d THEN <<1>> ELSE << >>
  <2>1. Append(<< >>, 1) = <<1>>
    OBVIOUS
  <2>2. \A e \in Device : (\E i \in DOMAIN RuntimeClientConnTb' : RuntimeClientConnTb'[i] = e)
                          <=> e \in Known'
    BY DEF Known
  <2> QED
    BY <1>1, <1>3, <1>4, <2>1, <2>2
<1>6. TypeOK'
  <2>1. answers' \in [Device -> Seq({1})]
    BY <1>1, <1>4 DEF TypeOK
  <2> QED
    BY <1>1, <1>3, <2>1, TakeStep DEF TypeOK, waiterVars
<1>7. Phases'
  BY <1>1, <1>2 DEF Phases, Started, Past
<1>8. Requests'
  <2>1. ASSUME NEW i \in DOMAIN jobQue', NEW e \in Device, jobQue'[i][1] = e
        PROVE  /\ e # Initialiser /\ e \notin Known
               /\ jobQue'[i][2] = "newface" /\ pc[e] = "permission"
    BY <1>1, <1>2, <2>1, TakeStep DEF Requests
  <2> QED
    BY <1>1, <1>2, <1>3, <1>5, <2>1, TakeStep DEF Requests
<1>9. Permissions'
  BY <1>1, <1>2, <1>3, <1>5 DEF Permissions
<1>10. Objects' /\ Waited'
  BY <1>1, MemoryUntouched
<1> QED
  BY <1>6, <1>7, <1>8, <1>9, <1>10

-----------------------------------------------------------------------------
(* The program of a device.  Requests, answers and the home stay as they   *)
(* are.                                                                    *)

LEMMA TalkKept ==
  ASSUME Inductive, UNCHANGED <<homeVars, answers>>, NEW d \in Device,
         NEW to \in (InitialiserOnly \union Started) \ {"ack"},
         pc' = [pc EXCEPT ![d] = to], pc[d] \notin {"newface", "permission", "ack"},
         to \in InitialiserOnly => d = Initialiser /\ ~isInitEnd,
         to \in Started => isInitEnd
  PROVE  Phases' /\ Requests' /\ Permissions'
<1> USE DeviceAssumption DEF Inductive, homeVars
<1>1. \A e \in Device : pc'[e] = IF e = d THEN to ELSE pc[e]
  BY DEF TypeOK
<1>2. Known' = Known
  BY DEF Known
<1>3. Phases'
  BY <1>1 DEF Phases, InitialiserOnly, Started, Past
<1>4. Requests'
  BY <1>1, <1>2 DEF Requests
<1>5. Permissions'
  BY <1>1, <1>2 DEF Permissions, InitialiserOnly, Started, Past
<1> QED
  BY <1>3, <1>4, <1>5

(* Types: only one device moves, and it moves to a point of its program.   *)
LEMMA TypeKept ==
  ASSUME Inductive, UNCHANGED <<homeVars, answers>>, NEW d \in Device,
         NEW to \in (InitialiserOnly \union Started) \ {"ack"},
         pc' = [pc EXCEPT ![d] = to],
         next' \in [Device -> Device], gv' \in [Device -> {Null, Object}]
  PROVE  TypeOK'
BY DEF Inductive, TypeOK, homeVars, InitialiserOnly, Started, Past

(* A store goes into the log of the device, which is empty.                *)
LEMMA StoreStep ==
  ASSUME Inductive, NEW d \in Device, Initialise(d) \/ Construct(d)
  PROVE  Inductive'
<1> USE DeviceAssumption DEF Inductive
<1> DEFINE E == IF pc[d] = "initialise" THEN Device ELSE {d}
           v == IF pc[d] = "initialise" THEN Null ELSE Object
           to == IF pc[d] = "initialise" THEN "publish" ELSE "waiter"
<1>1. /\ pc[d] \in {"initialise", "construct"} /\ pc' = [pc EXCEPT ![d] = to]
      /\ pend' = [pend EXCEPT ![d] = Append(@, [at |-> E, val |-> v])]
      /\ UNCHANGED <<mem, seen, homeVars, answers, waiterVars>>
  BY DEF Initialise, Construct, Goto, Globals!Store, Globals!Logged
<1>2. pc[d] = "initialise" => d = Initialiser /\ ~isInitEnd
  BY DEF Phases, InitialiserOnly, Started, Past
<1>3. pc[d] = "construct" => isInitEnd
  BY DEF Phases, Started
<1>4. \A e \in Device : pc'[e] = IF e = d THEN to ELSE pc[e]
  BY <1>1 DEF TypeOK
<1>5. Append(pend[d], [at |-> E, val |-> v]) = <<[at |-> E, val |-> v]>>
  <2>1. pend[d] = << >>
    BY <1>1 DEF Objects, Unpublished
  <2>2. \A x : Append(<< >>, x) = <<x>>
    OBVIOUS
  <2> QED
    BY <2>1, <2>2
<1>6. to \in (InitialiserOnly \union Started) \ {"ack"}
  BY DEF InitialiserOnly, Started
<1>7. TypeOK'
  BY <1>1, <1>6, TypeKept DEF TypeOK, waiterVars
<1>8. Phases' /\ Requests' /\ Permissions'
  <2>1. /\ to \in InitialiserOnly => pc[d] = "initialise"
        /\ to \in Started => pc[d] = "construct"
    BY <1>1 DEF InitialiserOnly, Started, Past
  <2> HIDE DEF to
  <2> QED
    BY <1>1, <1>2, <1>3, <1>6, <2>1, TalkKept
<1>9. Objects'
  <2>1. pend' = [e \in Device |-> Unpublished(e)']
    <3>1. Unpublished(d)' = <<[at |-> E, val |-> v]>>
      <4>1. CASE pc[d] = "initialise"
        BY <1>4, <4>1 DEF Unpublished
      <4>2. CASE pc[d] = "construct"
        BY <1>4, <4>2 DEF Unpublished
      <4> QED
        BY <1>1, <4>1, <4>2
    <3>2. \A e \in Device : e # d => Unpublished(e)' = Unpublished(e)
      BY <1>4 DEF Unpublished
    <3> HIDE DEF E, v
    <3> QED
      BY <1>1, <1>5, <3>1, <3>2 DEF Objects
  <2>2. \A e \in Device : pc'[e] \in Past <=> pc[e] \in Past
    BY <1>1, <1>4 DEF Past
  <2> QED
    BY <1>1, <2>1, <2>2 DEF Objects
<1>10. Waited'
  BY <1>1, <1>4 DEF Waited, Past, waiterVars
<1> QED
  BY <1>7, <1>8, <1>9, <1>10

(* uva_sync: the initial values, the object of the device, or nothing.     *)
LEMMA PublishStep ==
  ASSUME Inductive, NEW d \in Device,
         PublishGlobals(d) \/ EnterWaiter(d) \/ SyncAgain(d)
  PROVE  Inductive'
<1> USE DeviceAssumption DEF Inductive
<1> DEFINE to == IF pc[d] = "publish" THEN "complete"
                 ELSE IF pc[d] = "waiter" THEN "look" ELSE "test"
<1>1. /\ pc[d] \in {"publish", "waiter", "sync"} /\ pc' = [pc EXCEPT ![d] = to]
      /\ Globals!Publish(d)
      /\ UNCHANGED <<homeVars, answers, waiterVars>>
  BY DEF PublishGlobals, EnterWaiter, SyncAgain, Goto
<1>2. pc[d] = "publish" => d = Initialiser /\ ~isInitEnd
  BY DEF Phases, InitialiserOnly, Started, Past
<1>3. pc[d] # "publish" => isInitEnd
  BY <1>1 DEF Phases, Started, Past
<1>4. \A e \in Device : pc'[e] = IF e = d THEN to ELSE pc[e]
  BY <1>1 DEF TypeOK
<1> DEFINE m == [e \in Device |-> IF e = d /\ pc[d] = "waiter" THEN Object ELSE mem[e]]
<1>5. Globals!Replay(mem, pend[d]) = m
  <2>0. mem \in [Device -> {Null, Object}] /\ pend[d] = Unpublished(d)
    BY DEF Objects
  <2>1. CASE pc[d] = "publish"
    <3>1. \A e \in Device : mem[e] = Null
      BY <1>2, <2>1 DEF Objects, Phases, Started
    <3>2. Globals!Replay(mem, pend[d]) = [a \in Device |-> IF a \in Device THEN Null ELSE mem[a]]
      BY <2>0, <2>1, ReplayOne DEF Unpublished
    <3> QED
      BY <2>1, <3>1, <3>2
  <2>2. CASE pc[d] = "waiter"
    <3>1. Globals!Replay(mem, pend[d]) = [a \in Device |-> IF a \in {d} THEN Object ELSE mem[a]]
      BY <2>0, <2>2, ReplayOne DEF Unpublished
    <3> QED
      BY <2>2, <3>1
  <2>3. CASE pc[d] = "sync"
    <3>1. Globals!Replay(mem, pend[d]) = mem
      BY <2>0, <2>3, ReplayNone DEF Unpublished
    <3> QED
      BY <2>0, <2>3, <3>1
  <2> QED
    BY <1>1, <2>1, <2>2, <2>3
<1>6. /\ mem' = m
      /\ pend' = [pend EXCEPT ![d] = << >>]
      /\ seen' = [c \in Device |-> [a \in Device |->
                    IF c = d THEN {m[a]} ELSE seen[c][a] \union {m[a]}]]
  BY <1>1, <1>5 DEF Globals!Publish
<1>7. to \in (InitialiserOnly \union Started) \ {"ack"}
  BY DEF InitialiserOnly, Started, Past
<1>8. TypeOK'
  BY <1>1, <1>7, TypeKept DEF TypeOK, waiterVars
<1>9. Phases' /\ Requests' /\ Permissions'
  <2>1. /\ to \in InitialiserOnly => pc[d] = "publish"
        /\ to \in Started => pc[d] # "publish"
    BY <1>1 DEF InitialiserOnly, Started, Past
  <2> HIDE DEF to
  <2> QED
    BY <1>1, <1>2, <1>3, <1>7, <2>1, TalkKept
<1>10. Objects'
  <2>1. mem' \in [Device -> {Null, Object}]
    BY <1>6 DEF Objects
  <2>2. pend' = [e \in Device |-> Unpublished(e)']
    <3>1. Unpublished(d)' = << >>
      BY <1>1, <1>4 DEF Unpublished
    <3>2. \A e \in Device : e # d => Unpublished(e)' = Unpublished(e)
      BY <1>4 DEF Unpublished
    <3> QED
      BY <1>6, <3>1, <3>2 DEF Objects
  <2>3. seen' \in [Device -> [Device -> SUBSET {Null, Object}]]
    BY <1>6, <2>1 DEF Objects
  <2>4. \A e \in Device : mem'[e] = Object <=> pc'[e] \in Past
    BY <1>1, <1>4, <1>6 DEF Objects, Past
  <2>5. \A c, e \in Device : Object \in seen'[c][e] => mem'[e] = Object
    BY <1>6 DEF Objects
  <2> QED
    BY <2>1, <2>2, <2>3, <2>4, <2>5 DEF Objects
<1>11. Waited'
  <2>1. \A e \in Device : mem[e] = Object => mem'[e] = Object
    BY <1>6
  <2>2. /\ pc'[d] # "run"
        /\ pc'[d] \notin Past => pc[d] \notin Past
        /\ pc'[d] \in {"sync", "test"} => pc[d] \in {"sync", "test"}
    BY <1>1, <1>4 DEF Past
  <2> QED
    BY <1>1, <1>4, <2>1, <2>2 DEF Waited, waiterVars, TypeOK
<1> QED
  BY <1>8, <1>9, <1>10, <1>11

(* A load of the waiter: what it reads is in the memory.                   *)
LEMMA LookStep ==
  ASSUME Inductive, NEW d \in Device, Look(d)
  PROVE  Inductive'
<1> USE DeviceAssumption DEF Inductive
<1> DEFINE to == IF pc[d] = "again" THEN "sync" ELSE "test"
<1>1. /\ pc[d] \in {"look", "again"} /\ pc' = [pc EXCEPT ![d] = to]
      /\ Globals!Load(d, next[d])
      /\ gv' = [gv EXCEPT ![d] = obs'[3]]
      /\ UNCHANGED <<mem, pend, seen, homeVars, answers, next>>
  <2>1. pc' = [pc EXCEPT ![d] = to]
    BY DEF Look, TypeOK
  <2> QED
    BY <2>1 DEF Look, Globals!Load
<1>2. pend[d] = << >> /\ next[d] \in Device
  BY <1>1 DEF Objects, Unpublished, TypeOK
<1>3. PICK v \in {Null, Object} : v \in seen[d][next[d]] /\ obs' = <<d, next[d], v>>
  <2>1. next[d] \notin Globals!Written(pend[d])
    BY <1>2 DEF Globals!Written
  <2> QED
    BY <1>1, <2>1 DEF Globals!Load
<1>4. gv' = [gv EXCEPT ![d] = v]
  BY <1>1, <1>3
<1>5. v # Null => mem[next[d]] = Object
  BY <1>2, <1>3 DEF Objects
<1>6. \A e \in Device : pc'[e] = IF e = d THEN to ELSE pc[e]
  BY <1>1 DEF TypeOK
<1>7. to \in (InitialiserOnly \union Started) \ {"ack"} /\ to \notin InitialiserOnly
  BY DEF InitialiserOnly, Started, Past
<1>8. TypeOK'
  <2>1. next' \in [Device -> Device] /\ gv' \in [Device -> {Null, Object}]
    BY <1>1, <1>4 DEF TypeOK
  <2> HIDE DEF to
  <2> QED
    BY <1>1, <1>7, <2>1, TypeKept
<1>9. Phases' /\ Requests' /\ Permissions'
  <2>1. isInitEnd
    BY <1>1 DEF Phases, Started, Past
  <2> HIDE DEF to
  <2> QED
    BY <1>1, <1>7, <2>1, TalkKept
<1>10. Objects'
  <2>1. \A e \in Device : Unpublished(e)' = Unpublished(e)
    BY <1>1, <1>6 DEF Unpublished
  <2>2. \A e \in Device : pc'[e] \in Past <=> pc[e] \in Past
    BY <1>1, <1>6 DEF Past
  <2> QED
    BY <1>1, <2>1, <2>2 DEF Objects
<1>11. Waited'
  BY <1>1, <1>4, <1>5, <1>6 DEF Waited, Past, TypeOK
<1> QED
  BY <1>8, <1>9, <1>10, <1>11

(* The waiter looks again, at the next global, or is done.                 *)
LEMMA TestStep ==
  ASSUME Inductive, NEW d \in Device, TestNull(d) \/ TestSet(d)
  PROVE  Inductive'
<1> USE DeviceAssumption DEF Inductive
<1> DEFINE done == gv[d] # Null /\ next[d] = NumDevices
           to == IF gv[d] = Null THEN "again" ELSE IF done THEN "run" ELSE "look"
           ahead == IF gv[d] = Null \/ done THEN next[d] ELSE next[d] + 1
<1>1. /\ pc[d] = "test" /\ pc' = [pc EXCEPT ![d] = to]
      /\ next' = [next EXCEPT ![d] = ahead]
      /\ UNCHANGED <<memory, homeVars, answers, gv>>
  BY DEF TestNull, TestSet, Goto, waiterVars, TypeOK
<1>2. Device \subseteq Nat /\ next[d] \in Device /\ ahead \in Device
  <2>1. next[d] \in Device
    BY DEF TypeOK
  <2>2. next[d] # NumDevices => next[d] + 1 \in Device
    BY <2>1 DEF Device
  <2> QED
    BY <2>1, <2>2 DEF Device
<1>3. \A e \in Device : /\ pc'[e] = IF e = d THEN to ELSE pc[e]
                        /\ next'[e] = IF e = d THEN ahead ELSE next[e]
  BY <1>1 DEF TypeOK
<1>4. to \in (InitialiserOnly \union Started) \ {"ack"} /\ to \notin InitialiserOnly
  BY DEF InitialiserOnly, Started, Past
<1>5. TypeOK'
  BY <1>1, <1>2, <1>4, TypeKept DEF TypeOK
<1>6. Phases' /\ Requests' /\ Permissions'
  <2>1. isInitEnd
    BY <1>1 DEF Phases, Started, Past
  <2> HIDE DEF to
  <2> QED
    BY <1>1, <1>4, <2>1, TalkKept
<1>7. Objects'
  <2>1. \A e \in Device : Unpublished(e)' = Unpublished(e)
    BY <1>1, <1>3 DEF Unpublished
  <2>2. \A e \in Device : pc'[e] \in Past <=> pc[e] \in Past
    BY <1>1, <1>3 DEF Past
  <2> QED
    BY <1>1, <2>1, <2>2 DEF Objects, memory
<1>8. Waited'
  <2>1. gv[d] # Null => mem[next[d]] = Object
    BY <1>1 DEF Waited
  <2>2. \A e \in Device : e < ahead => mem[e] = Object
    <3>1. \A e \in Device : e < next[d] => mem[e] = Object
      BY DEF Waited
    <3>2. \A e, n \in Nat : e < n + 1 => e < n \/ e = n
      OBVIOUS
    <3>3. \A e \in Device : e < next[d] + 1 => e < next[d] \/ e = next[d]
      <4> HIDE DEF Inductive, to, done, ahead
      <4> QED
        BY <1>2, <3>2
    <3> QED
      BY <2>1, <3>1, <3>3
  <2>3. done => \A e \in Device : mem[e] = Object
    BY <2>1 DEF Waited, Device
  <2>4. to = "run" => done
    OBVIOUS
  <2>5. to \in Past /\ to \notin {"sync", "test"}
    BY DEF Past
  <2> HIDE DEF to, done, ahead
  <2> QED
    BY <1>1, <1>3, <2>2, <2>3, <2>4, <2>5 DEF Waited, memory
<1> QED
  BY <1>5, <1>6, <1>7, <1>8

(* A page of globals comes: what it shows is in the memory.                *)
LEMMA FetchStep ==
  ASSUME Inductive, NEW d \in Device, Fetch(d)
  PROVE  Inductive'
<1> USE DEF Inductive
<1>1. UNCHANGED <<mem, pend, homeVars, answers, pc, waiterVars>>
  BY DEF Fetch, Globals!Refresh
<1>2. seen' = [seen EXCEPT ![d] = [a \in Device |-> {mem[a]}]]
  BY DEF Fetch, Globals!Refresh
<1>3. TypeOK' /\ Phases' /\ Requests' /\ Permissions' /\ Waited'
  BY <1>1 DEF TypeOK, Phases, Requests, Permissions, Known, Waited, homeVars, waiterVars
<1>4. Objects'
  BY <1>1, <1>2 DEF Objects, Unpublished
<1> QED
  BY <1>3, <1>4

-----------------------------------------------------------------------------
(* Every step, and the theorems.                                           *)

LEMMA RunStep ==
  ASSUME Inductive, NEW d \in Device, Run(d)
  PROVE  Inductive'
<1>1. CASE Newface(d)
  BY <1>1, NewfaceStep
<1>2. CASE InitComplete(d)
  BY <1>2, InitCompleteStep
<1>3. CASE Permission(d) \/ CompleteAck(d)
  BY <1>3, AnswerStep
<1>4. CASE Initialise(d) \/ Construct(d)
  BY <1>4, StoreStep
<1>5. CASE PublishGlobals(d) \/ EnterWaiter(d) \/ SyncAgain(d)
  BY <1>5, PublishStep
<1>6. CASE Look(d)
  BY <1>6, LookStep
<1>7. CASE TestNull(d) \/ TestSet(d)
  BY <1>7, TestStep
<1> QED
  BY <1>1, <1>2, <1>3, <1>4, <1>5, <1>6, <1>7 DEF Run

LEMMA InductiveStep == Inductive /\ [Next]_vars => Inductive'
<1> SUFFICES ASSUME Inductive, [Next]_vars PROVE Inductive'
  OBVIOUS
<1>1. CASE Home
  <2>1. PICK d \in Device : NewfaceHandler(d) \/ GlobalInitCompleteHandler(d)
    BY <1>1 DEF Home
  <2> QED
    BY <2>1, NewfaceHandlerStep, GlobalInitCompleteHandlerStep
<1>2. CASE \E d \in Device : Run(d) \/ Fetch(d)
  BY <1>2, RunStep, FetchStep
<1>3. CASE UNCHANGED vars
  BY <1>3 DEF Inductive, TypeOK, Phases, Requests, Permissions, Known, Objects,
              Unpublished, Waited, vars
<1> QED
  BY <1>1, <1>2, <1>3 DEF Next

LEMMA Invariance == Spec => []Inductive
BY InductiveInit, InductiveStep, PTL DEF Spec

(* The variables of the start keep their types; waiter() never looks past  *)
(* the last global.                                                        *)
THEOREM TypeCorrect == Spec => []TypeOK
<1>1. Inductive => TypeOK
  BY DEF Inductive
<1> QED
  BY <1>1, Invariance, PTL

(* However the requests arrive, newfaceHandler and                         *)
(* globalInitCompleteHandler answer a device once between them, and only   *)
(* while it waits: no word is left on its socket.                          *)
THEOREM AnsweredOnce == Spec => []OneAnswer
<1>1. Inductive => OneAnswer
  <2> SUFFICES ASSUME Inductive, NEW d \in Device
               PROVE  /\ Len(answers[d]) <= 1
                      /\ answers[d] # << >> => pc[d] \in {"permission", "ack"}
    BY DEF OneAnswer
  <2>1. CASE answers[d] = << >>
    BY <2>1
  <2>2. CASE answers[d] = <<1>>
    BY <2>2 DEF Inductive, Permissions
  <2> QED
    BY <2>1, <2>2 DEF Inductive, Permissions
<1> QED
  BY <1>1, Invariance, PTL

(* A device leaves waiter() only after every device has constructed its    *)
(* object and made it visible with a uva_sync.                             *)
THEOREM WaiterIsABarrier == Spec => []Barrier
<1>1. Inductive => Barrier
  BY DEF Inductive, Barrier, Waited, Objects, Past
<1> QED
  BY <1>1, Invariance, PTL

(* The initial values the initialiser writes reach the home before any     *)
(* object does: once an object is visible it stays.                        *)
THEOREM ObjectsStay == Spec => KeepsObjects
<1> DEFINE Stay == \A d \in Device : mem[d] = Object => mem'[d] = Object
<1>1. Inductive /\ Inductive' /\ [Next]_vars => [Stay]_vars
  <2> SUFFICES ASSUME Inductive, Inductive', Next, NEW d \in Device, mem[d] = Object
               PROVE  mem'[d] = Object
    OBVIOUS
  <2>1. pc[d] \in Past /\ (mem'[d] = Object <=> pc'[d] \in Past)
    BY DEF Inductive, Objects
  <2>2. pc'[d] \in Past
    <3>1. CASE Home
      BY <2>1, <3>1 DEF Home, NewfaceHandler, GlobalInitCompleteHandler, Take
    <3>2. ASSUME NEW e \in Device, Fetch(e) PROVE pc'[d] \in Past
      BY <2>1, <3>2 DEF Fetch
    <3>3. ASSUME NEW e \in Device, Run(e), e # d PROVE pc'[d] = pc[d]
      BY <3>3 DEF Run, Goto, Newface, Permission, Initialise, PublishGlobals,
        InitComplete, CompleteAck, Construct, EnterWaiter, Look, SyncAgain,
        TestNull, TestSet, Inductive, TypeOK
    <3>4. ASSUME Run(d) PROVE pc'[d] \in Past
      BY <2>1, <3>4 DEF Run, Goto, Newface, Permission, Initialise, PublishGlobals,
        InitComplete, CompleteAck, Construct, EnterWaiter, Look, SyncAgain,
        TestNull, TestSet, Inductive, TypeOK, Past
    <3> QED
      BY <2>1, <3>1, <3>2, <3>3, <3>4 DEF Next
  <2> QED
    BY <2>1, <2>2
<1>2. [][Stay]_vars <=> KeepsObjects
  BY DEF KeepsObjects
<1> QED
  BY <1>1, <1>2, Invariance, PTL DEF Spec
=============================================================================
