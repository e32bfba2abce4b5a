------------------------- MODULE RemoteAnswersProofs -------------------------
(***************************************************************************)
(* What a remote call gets back, for any devices, programs and functions:  *)
(* where one thread of a device calls at a time, each call gets the result *)
(* of the function it called, computed for it, whole, until threads of a   *)
(* device cross on the socket to the gateway.                              *)
(***************************************************************************)
EXTENDS RemoteCallProofs

-----------------------------------------------------------------------------
(* A device has one send queue for each tag; what follows is about         *)
(* programs of which no two threads fill one at a time.                    *)
Filling == {"pushFunction", "pushArgs", "sendQue"}
Alone ==
  \A t, u \in Thread :
    /\ t[1] = u[1] /\ pc[t] \in Filling /\ pc[u] \in Filling
    /\ call[t].tag = call[u].tag
    => t = u

(* The queue a thread fills begins with its call, and others are empty.    *)
Queue(t) == sendQue[t[1]][call[t].tag]
Opens(words, j, fn) ==
  Len(words) >= 2 /\ words[1] = Word("job", j) /\ words[2] = Word("function", fn)
Filled ==
  /\ \A d \in Device, tag \in Tag : sendQue[d][tag] # << >> =>
       \E t \in Thread : t[1] = d /\ pc[t] \in Filling /\ call[t].tag = tag
  /\ \A t \in Thread :
       /\ pc[t] = "pushFunction" => Queue(t) = <<Word("job", call[t].job)>>
       /\ pc[t] \in {"pushArgs", "sendQue"} => Opens(Queue(t), call[t].job, call[t].fn)

(* Who waits for number j of device d called fn, and gets its result.      *)
Wants(d, j, fn) ==
  /\ j < jobID[d]
  /\ \A t \in Thread : t[1] = d /\ Caller(t) /\ call[t].job = j =>
       call[t].fn = fn /\ pc[t] \in Since
Gives(value, d, j) ==
  \E fn \in Function : value = Returned(fn.on, fn, <<d, j>>) /\ Wants(d, j, fn)

RightUp(d, m) ==
  /\ m.tag \in Tag => \E fn \in Function :
       LET j == m.words[1].value
       IN  Opens(m.words, j, fn) /\ (m.tag = "call" => Wants(d, j, fn))
  /\ m.tag = "return" => Gives(m.value, route[m.job][1], route[m.job][2])
RightCall(d, m) ==
  m.tag = "call" => m.fn.on = d /\ Wants(route[m.job][1], route[m.job][2], m.fn)
RightDown(d, m) ==
  RightCall(d, m) /\ (m.tag = "return" => Gives(m.value, d, m.job))
RightServing(d) ==
  serving[d] # None /\ serving[d].job # Async =>
    LET r == jobIDMap[d][serving[d].job]
    IN  serving[d].fn.on = d /\ Wants(route[r][1], route[r][2], serving[d].fn)

Stored ==
  \A d \in Device :
    /\ \A j \in DOMAIN returnValueTable[d] : Gives(returnValueTable[d][j], d, j)
    /\ storing[d] # None => storing[d].job \in DOMAIN returnValueTable[d]
    /\ \A t \in Thread : t[1] = d /\ Caller(t) =>
         LET j == call[t].job
         IN  j \in DOMAIN consumeTable[d] /\ consumeTable[d][j] => j \in DOMAIN returnValueTable[d]

Contents ==
  /\ Filled /\ Stored
  /\ \A d \in Device : RightServing(d)
  /\ \A d \in Device : \A m \in Range(up[d]) : RightUp(d, m)
  /\ \A d \in Device : \A m \in Range(down[d]) : RightDown(d, m)
  /\ \A d \in Device : \A m \in Range(jobQue[d]) : RightCall(d, m)

LEMMA Members ==
  ASSUME NEW S, NEW s \in Seq(S), NEW m \in S
  PROVE  /\ Range(Append(s, m)) = Range(s) \union {m}
         /\ s # << >> => Range(Tail(s)) \subseteq Range(s) /\ Head(s) \in Range(s)
<1>1. Range(Append(s, m)) = Range(s) \union {m}
  <2> DEFINE a == Append(s, m)
  <2>1. /\ Len(s) \in Nat /\ DOMAIN s = 1 .. Len(s) /\ DOMAIN a = 1 .. Len(s) + 1
        /\ \A i \in 1 .. Len(s) : a[i] = s[i]
        /\ a[Len(s) + 1] = m
    OBVIOUS
  <2> HIDE DEF a
  <2>2. ASSUME NEW x PROVE x \in Range(a) <=> x \in Range(s) \/ x = m
    BY <2>1 DEF Range
  <2> QED
    BY <2>2 DEF a
<1>2. ASSUME s # << >> PROVE Range(Tail(s)) \subseteq Range(s) /\ Head(s) \in Range(s)
  <2>1. /\ Len(Tail(s)) = Len(s) - 1 /\ Len(s) \in Nat /\ Len(s) > 0 /\ DOMAIN s = 1 .. Len(s)
        /\ DOMAIN Tail(s) = 1 .. Len(s) - 1 /\ Head(s) = s[1]
        /\ \A i \in 1 .. Len(s) - 1 : Tail(s)[i] = s[i + 1]
    BY <1>2
  <2>2. \A i \in 1 .. Len(s) - 1 : i + 1 \in DOMAIN s
    BY <2>1
  <2> QED
    BY <2>1, <2>2 DEF Range
<1> QED
  BY <1>1, <1>2

(* What is known of the program that waits stays known.                    *)
Grows ==
  /\ \A d \in Device : \A j \in Int : \A fn \in Function : Wants(d, j, fn) => Wants(d, j, fn)'
  /\ \A r \in DOMAIN route : route'[r] = route[r]

LEMMA WantsTurn ==
  ASSUME Inductive, NEW t \in Thread, NEW there, Turn(t, there), jobID' \in [Device -> Nat],
         \A e \in Device : jobID'[e] >= jobID[e],
         Caller(t)' =>
           \/ /\ Caller(t) /\ call'[t].job = call[t].job
              /\ pc[t] \in Since => call'[t].fn = call[t].fn /\ there \in Since
           \/ call'[t].job >= jobID[t[1]],
         NEW d \in Device, NEW j \in Int, NEW fn \in Function, Wants(d, j, fn)
  PROVE  Wants(d, j, fn)'
<1>1. j < jobID'[d]
  <2>1. jobID[d] \in Nat /\ jobID'[d] \in Nat /\ jobID'[d] >= jobID[d] /\ j < jobID[d]
    BY DEF Inductive, Types, Wants
  <2> QED
    BY <2>1
<1>2. ASSUME NEW u \in Thread, u[1] = d, Caller(u)', call'[u].job = j
      PROVE  call'[u].fn = fn /\ pc'[u] \in Since
  <2>0. Types /\ pc'[t] = there /\ \A v \in Thread \ {t} : pc'[v] = pc[v] /\ call'[v] = call[v]
    BY Turned DEF Inductive
  <2>1. CASE u # t
    BY <1>2, <2>0, <2>1 DEF Wants, Caller
  <2>2. CASE u = t
    <3>1. jobID[d] \in Nat /\ j < jobID[d]
      BY <2>0 DEF Types, Wants
    <3>2. ~ (call'[t].job >= jobID[t[1]])
      BY <1>2, <2>2, <3>1
    <3>3. /\ Caller(t) /\ call'[t].job = call[t].job
          /\ pc[t] \in Since => call'[t].fn = call[t].fn /\ there \in Since
      BY <1>2, <2>2, <3>2
    <3>4. call[t].fn = fn /\ pc[t] \in Since
      BY <1>2, <2>2, <3>3 DEF Wants
    <3> QED
      BY <2>0, <2>2, <3>3, <3>4
  <2> QED
    BY <2>1, <2>2
<1> QED
  BY <1>1, <1>2 DEF Wants

LEMMA WantsKept ==
  ASSUME Inductive, UNCHANGED call, \A u \in Thread : Caller(u) => pc'[u] = pc[u],
         jobID' \in [Device -> Nat], \A e \in Device : jobID'[e] >= jobID[e],
         NEW d \in Device, NEW j \in Int, NEW fn \in Function, Wants(d, j, fn)
  PROVE  Wants(d, j, fn)'
<1>1. j < jobID'[d]
  <2>1. jobID[d] \in Nat /\ jobID'[d] \in Nat /\ jobID'[d] >= jobID[d] /\ j < jobID[d]
    BY DEF Inductive, Types, Wants
  <2> QED
    BY <2>1
<1>2. \A u \in Thread : (Caller(u)' <=> Caller(u))
  BY DEF Caller
<1> QED
  BY <1>1, <1>2 DEF Wants

LEMMA GivesGrows ==
  ASSUME Grows, NEW value, NEW d \in Device, NEW j \in Int, Gives(value, d, j)
  PROVE  Gives(value, d, j)'
BY DEF Grows, Gives, Returned, AllocSize

(* A number of the gateway stands for a call of a device.                  *)
LEMMA Routed ==
  ASSUME Inductive, NEW r \in Out
  PROVE  /\ r \in DOMAIN route /\ route[r] \in Device \X Int
         /\ route[r][1] \in Device /\ route[r][2] \in Int
<1>1. r \in DOMAIN route /\ route \in Seq(Device \X Int)
  BY DEF Inductive, Passing, Types
<1>2. route[r] \in Device \X Int
  BY <1>1
<1> QED
  BY <1>1, <1>2

LEMMA UpFacts ==
  ASSUME Inductive, NEW d \in Device, NEW m \in Range(up[d])
  PROVE  /\ m \in Asked \union Answered
         /\ m.tag = "return" => m \in Answered /\ m.job \in Out
<1>1. PICK i \in DOMAIN up[d] : m = up[d][i]
  BY DEF Range
<1>2. up[d] \in Seq(Asked \union Answered)
  BY DEF Inductive, Types
<1>3. m \in Asked \union Answered
  BY <1>1, <1>2
<1>4. ASSUME m.tag = "return" PROVE m \in Answered /\ m.job \in Out
  <2>1. m \in Answered
    BY <1>3, <1>4 DEF Asked, Tag
  <2>2. m.job \in All(Answers(up[d]))
    BY <1>1, <1>4 DEF All, Answers, AnswerKey
  <2>3. OutAt[<<"up", d>>] = All(Answers(up[d])) /\ <<"up", d>> \in DOMAIN OutAt
    BY OutPlaces DEF OutAt, OutPlace
  <2>4. m.job \in Out
    BY <2>2, <2>3 DEF Out, All
  <2> QED
    BY <2>1, <2>4
<1> QED
  BY <1>3, <1>4

LEMMA DownFacts ==
  ASSUME Inductive, NEW d \in Device, NEW m \in Range(down[d])
  PROVE  /\ m \in Passed \union Answered
         /\ m.tag = "return" => m \in Answered /\ m.job \in Int
         /\ m.tag \in Tag => m \in Passed
         /\ m.tag = "call" => m.job \in Out
<1>1. PICK i \in DOMAIN down[d] : m = down[d][i]
  BY DEF Range
<1>2. down[d] \in Seq(Passed \union Answered)
  BY DEF Inductive, Types
<1>3. m \in Passed \union Answered
  BY <1>1, <1>2
<1>4. m.tag = "return" => m \in Answered /\ m.job \in Int
  BY <1>3 DEF Passed, Answered, Tag
<1>5. m.tag \in Tag => m \in Passed
  BY <1>3 DEF Answered, Tag
<1>6. ASSUME m.tag = "call" PROVE m.job \in Out
  <2>1. m.job \in All(Calls(down[d]))
    BY <1>1, <1>6 DEF All, Calls, CallKey
  <2>2. OutAt[<<"down", d>>] = All(Calls(down[d])) /\ <<"down", d>> \in DOMAIN OutAt
    BY OutPlaces DEF OutAt, OutPlace
  <2> QED
    BY <2>1, <2>2 DEF Out, All
<1> QED
  BY <1>3, <1>4, <1>5, <1>6

LEMMA QueFacts ==
  ASSUME Inductive, NEW d \in Device, NEW m \in Range(jobQue[d])
  PROVE  m \in Passed /\ (m.tag = "call" => m.job \in Out)
<1>1. PICK i \in DOMAIN jobQue[d] : m = jobQue[d][i]
  BY DEF Range
<1>2. jobQue[d] \in Seq(Passed)
  BY DEF Inductive, Types
<1>3. m \in Passed
  BY <1>1, <1>2
<1>4. ASSUME m.tag = "call" PROVE m.job \in Out
  <2>1. m.job \in All(Calls(jobQue[d]))
    BY <1>1, <1>4 DEF All, Calls, CallKey
  <2>2. OutAt[<<"jobQue", d>>] = All(Calls(jobQue[d])) /\ <<"jobQue", d>> \in DOMAIN OutAt
    BY OutPlaces DEF OutAt, OutPlace
  <2> QED
    BY <2>1, <2>2 DEF Out, All
<1> QED
  BY <1>3, <1>4

LEMMA ServingFacts ==
  ASSUME Inductive, NEW d \in Device, serving[d] # None
  PROVE  /\ serving[d] \in Executing /\ serving[d].fn \in Function
         /\ serving[d].job # Async => /\ serving[d].job \in DOMAIN jobIDMap[d]
                                      /\ jobIDMap[d][serving[d].job] \in Out
<1>1. serving[d] \in Executing /\ serving[d].fn \in Function
  BY DEF Inductive, Types, Executing
<1>2. ASSUME serving[d].job # Async
      PROVE  serving[d].job \in DOMAIN jobIDMap[d] /\ jobIDMap[d][serving[d].job] \in Out
  <2>1. Served(d) = {serving[d].job}
    BY DEF Served
  <2>2. serving[d].job \in DOMAIN jobIDMap[d]
    BY <1>2, <2>1 DEF Inductive, Executes
  <2>3. OutAt[<<"serving", d>>] = {jobIDMap[d][serving[d].job]} /\ <<"serving", d>> \in DOMAIN OutAt
    BY <1>2, <2>1, OutPlaces DEF OutAt, OutPlace
  <2> QED
    BY <2>2, <2>3 DEF Out, All
<1> QED
  BY <1>1, <1>2

(* What was right in its place is right in a step that leaves it there.    *)
LEMMA CallStays ==
  ASSUME Inductive, Grows, NEW d \in Device, NEW m, RightCall(d, m),
         m.tag = "call" => m \in Passed /\ m.job \in Out
  PROVE  RightCall(d, m)'
<1>1. SUFFICES ASSUME m.tag = "call"
               PROVE  m.fn.on = d /\ Wants(route[m.job][1], route[m.job][2], m.fn)'
  BY DEF RightCall
<1>2. m.fn \in Function
  BY <1>1 DEF Passed
<1>3. PICK o \in Device, j \in Int : route[m.job][1] = o /\ route[m.job][2] = j
  BY <1>1, Routed
<1>4. route'[m.job] = route[m.job]
  BY <1>1, Routed DEF Grows
<1>5. m.fn.on = d /\ Wants(o, j, m.fn)
  BY <1>1, <1>3 DEF RightCall
<1>6. Wants(o, j, m.fn)'
  BY <1>2, <1>5 DEF Grows
<1> QED
  BY <1>3, <1>4, <1>5, <1>6

LEMMA UpStays ==
  ASSUME Inductive, Grows, NEW d \in Device, NEW m \in Range(up[d]), RightUp(d, m)
  PROVE  RightUp(d, m)'
<1>1. ASSUME m.tag \in Tag
      PROVE  \E fn \in Function :
               LET j == m.words[1].value
               IN  Opens(m.words, j, fn) /\ (m.tag = "call" => Wants(d, j, fn)')
  <2>1. PICK fn \in Function : /\ Opens(m.words, m.words[1].value, fn)
                               /\ m.tag = "call" => Wants(d, m.words[1].value, fn)
    BY <1>1 DEF RightUp
  <2>2. m.words[1].value \in Int
    <3>1. m.words \in Seq(CallWord)
      BY <1>1, UpFacts DEF Asked, Answered, Tag
    <3>2. m.words[1] \in CallWord /\ m.words[1].kind = "job"
      BY <2>1, <3>1 DEF Opens, Word
    <3> QED
      BY <3>2 DEF CallWord, Argument
  <2>3. m.tag = "call" => Wants(d, m.words[1].value, fn)'
    BY <2>1, <2>2 DEF Grows
  <2> QED
    BY <2>1, <2>3
<1>2. ASSUME m.tag = "return" PROVE Gives(m.value, route[m.job][1], route[m.job][2])'
  <2>1. m.job \in Out
    BY <1>2, UpFacts
  <2>2. PICK o \in Device, j \in Int : route[m.job][1] = o /\ route[m.job][2] = j
    BY <2>1, Routed
  <2>3. route'[m.job] = route[m.job]
    BY <2>1, Routed DEF Grows
  <2>4. Gives(m.value, o, j)
    BY <1>2, <2>2 DEF RightUp
  <2>5. Gives(m.value, o, j)'
    BY <2>4, GivesGrows
  <2> QED
    BY <2>2, <2>3, <2>5
<1> QED
  BY <1>1, <1>2 DEF RightUp, Opens

LEMMA DownStays ==
  ASSUME Inductive, Grows, NEW d \in Device, NEW m \in Range(down[d]), RightDown(d, m)
  PROVE  RightDown(d, m)'
<1>1. RightCall(d, m)'
  <2>1. RightCall(d, m) /\ (m.tag = "call" => m \in Passed /\ m.job \in Out)
    BY DownFacts DEF RightDown, Tag
  <2> QED
    BY <2>1, CallStays
<1>2. ASSUME m.tag = "return" PROVE Gives(m.value, d, m.job)'
  <2>1. PICK j \in Int : j = m.job
    BY <1>2, DownFacts
  <2>2. Gives(m.value, d, j)
    BY <1>2, <2>1 DEF RightDown
  <2>3. Gives(m.value, d, j)'
    BY <2>2, GivesGrows
  <2> QED
    BY <2>1, <2>3
<1> QED
  BY <1>1, <1>2 DEF RightDown

LEMMA ServingStays ==
  ASSUME Inductive, Grows, NEW d \in Device, RightServing(d),
         serving'[d] = None <=> serving[d] = None,
         serving'[d].job = serving[d].job, serving'[d].fn = serving[d].fn,
         jobIDMap'[d] = jobIDMap[d]
  PROVE  RightServing(d)'
<1>1. SUFFICES ASSUME serving[d] # None, serving[d].job # Async, NEW r, r = jobIDMap[d][serving[d].job]
               PROVE  serving[d].fn.on = d /\ Wants(route[r][1], route[r][2], serving[d].fn)'
  BY DEF RightServing
<1>2. PICK fn \in Function : fn = serving[d].fn
  BY <1>1, ServingFacts
<1>3. r \in Out
  BY <1>1, ServingFacts
<1>4. PICK o \in Device, j \in Int : route[r][1] = o /\ route[r][2] = j
  BY <1>3, Routed
<1>5. route'[r] = route[r]
  BY <1>3, Routed DEF Grows
<1>6. fn.on = d /\ Wants(o, j, fn)
  BY <1>1, <1>2, <1>4 DEF RightServing
<1>7. Wants(o, j, fn)'
  BY <1>6 DEF Grows
<1> QED
  BY <1>2, <1>4, <1>5, <1>6, <1>7

LEMMA ContentsFrom ==
  ASSUME Inductive, Contents, Grows, Filled', Stored', \A d \in Device : RightServing(d)',
         \A d \in Device : \A m \in Range(up'[d]) : m \in Range(up[d]) \/ RightUp(d, m)',
         \A d \in Device : \A m \in Range(down'[d]) : m \in Range(down[d]) \/ RightDown(d, m)',
         \A d \in Device : \A m \in Range(jobQue'[d]) : m \in Range(jobQue[d]) \/ RightCall(d, m)'
  PROVE  Contents'
<1>1. ASSUME NEW d \in Device, NEW m \in Range(up'[d]) PROVE RightUp(d, m)'
  BY UpStays DEF Contents
<1>2. ASSUME NEW d \in Device, NEW m \in Range(down'[d]) PROVE RightDown(d, m)'
  BY DownStays DEF Contents
<1>3. ASSUME NEW d \in Device, NEW m \in Range(jobQue'[d]) PROVE RightCall(d, m)'
  BY CallStays, QueFacts DEF Contents
<1> QED
  BY <1>1, <1>2, <1>3 DEF Contents

LEMMA ServingAll ==
  ASSUME Inductive, Contents, Grows, UNCHANGED <<serving, jobIDMap>>
  PROVE  \A d \in Device : RightServing(d)'
BY ServingStays DEF Contents

LEMMA FilledKept ==
  ASSUME Inductive, Filled, UNCHANGED sendQue, NEW t \in Thread, NEW there, Turn(t, there),
         pc[t] \notin Filling, there \notin Filling
  PROVE  Filled'
<1>1. pc'[t] = there /\ \A u \in Thread \ {t} : pc'[u] = pc[u] /\ call'[u] = call[u]
  BY Turned DEF Inductive
<1>2. \A u \in Thread : /\ pc'[u] \in Filling <=> pc[u] \in Filling
                        /\ pc[u] \in Filling => pc'[u] = pc[u] /\ call'[u] = call[u]
  BY <1>1
<1>3. ASSUME NEW d \in Device, NEW tag \in Tag, sendQue'[d][tag] # << >>
      PROVE  \E u \in Thread : u[1] = d /\ pc'[u] \in Filling /\ call'[u].tag = tag
  BY <1>2, <1>3 DEF Filled
<1>4. ASSUME NEW u \in Thread, pc'[u] \in Filling
      PROVE  /\ pc'[u] = "pushFunction" => Queue(u)' = <<Word("job", call'[u].job)>>
             /\ pc'[u] \in {"pushArgs", "sendQue"} => Opens(Queue(u)', call'[u].job, call'[u].fn)
  <2>1. Queue(u)' = Queue(u) /\ pc'[u] = pc[u] /\ call'[u] = call[u]
    BY <1>2, <1>4 DEF Queue
  <2> QED
    BY <2>1 DEF Filled
<1> QED
  BY <1>3, <1>4 DEF Filled, Filling, Opens, Queue

LEMMA FilledSame == ASSUME Filled, UNCHANGED <<sendQue, pc, call>> PROVE Filled'
BY DEF Filled, Queue, Opens

LEMMA StoredKept ==
  ASSUME Inductive, Stored, Grows, UNCHANGED <<returnValueTable, storing, consumeTable>>,
         \A u \in Thread : Caller(u)' =>
           \/ Caller(u) /\ call'[u].job = call[u].job
           \/ call'[u].job \notin DOMAIN consumeTable[u[1]]
  PROVE  Stored'
<1>1. ASSUME NEW d \in Device, NEW j \in DOMAIN returnValueTable[d]
      PROVE  Gives(returnValueTable[d][j], d, j)'
  <2>1. j \in Int /\ returnValueTable' = returnValueTable
    BY DEF Inductive, Types, IsTable
  <2>2. PICK value : value = returnValueTable[d][j]
    OBVIOUS
  <2>3. Gives(value, d, j)
    BY <2>2 DEF Stored
  <2>4. Gives(value, d, j)'
    BY <2>1, <2>3, GivesGrows
  <2> QED
    BY <2>1, <2>2, <2>4
<1>2. ASSUME NEW t \in Thread, Caller(t)', call'[t].job \in DOMAIN consumeTable[t[1]]
      PROVE  Caller(t) /\ call'[t].job = call[t].job
  BY <1>2
<1> QED
  BY <1>1, <1>2 DEF Stored

(* A step of a caller that is not at the send queue.                       *)
LEMMA ThreadGrows ==
  ASSUME Inductive, NEW t \in Thread, NEW there, Turn(t, there), jobID' \in [Device -> Nat],
         \A e \in Device : jobID'[e] >= jobID[e], UNCHANGED route,
         Caller(t)' =>
           \/ /\ Caller(t) /\ call'[t].job = call[t].job
              /\ pc[t] \in Since => call'[t].fn = call[t].fn /\ there \in Since
           \/ call'[t].job >= jobID[t[1]]
  PROVE  Grows
BY WantsTurn DEF Grows

LEMMA AloneContents ==
  ASSUME Inductive, Contents, NEW t \in Thread, NEW there, Turn(t, there),
         pc[t] \notin Filling, there \notin Filling, jobID' \in [Device -> Nat],
         \A e \in Device : jobID'[e] >= jobID[e],
         UNCHANGED <<consumeTable, returnValueTable, jobIDMap, sendQue, up, down, jobQue, route,
                     serving, storing>>,
         Caller(t)' =>
           \/ /\ Caller(t) /\ call'[t].job = call[t].job
              /\ pc[t] \in Since => call'[t].fn = call[t].fn /\ there \in Since
           \/ call'[t].job >= jobID[t[1]] /\ call'[t].job \in Int
  PROVE  Contents'
<1>1. Grows
  BY ThreadGrows
<1>2. Filled'
  BY FilledKept DEF Contents
<1>3. ASSUME NEW u \in Thread, Caller(u)'
      PROVE  \/ Caller(u) /\ call'[u].job = call[u].job
             \/ call'[u].job \notin DOMAIN consumeTable[u[1]]
  <2>1. CASE u # t
    BY <1>3, <2>1, Turned DEF Inductive, Caller
  <2>2. CASE u = t /\ call'[t].job >= jobID[t[1]] /\ call'[t].job \in Int
    <3>1. t[1] \in Device
      BY DEF Thread
    <3>2. \A j \in DOMAIN consumeTable[t[1]] : j < jobID[t[1]] /\ j \in Int
      BY <3>1 DEF Inductive, Tables, Types, IsTable
    <3>3. jobID[t[1]] \in Nat
      BY <3>1 DEF Inductive, Types
    <3> QED
      BY <2>2, <3>2, <3>3
  <2> QED
    BY <1>3, <2>1, <2>2
<1>4. Stored'
  BY <1>1, <1>3, StoredKept DEF Contents
<1>5. \A d \in Device : RightServing(d)'
  BY <1>1, ServingAll
<1> QED
  BY <1>1, <1>2, <1>4, <1>5, ContentsFrom

LEMMA BeginContents ==
  ASSUME Inductive, Contents, NEW t \in Thread, NEW site \in Site, NEW fn \in Function,
         GenerateJobId(t, fn, site) \/ AsyncCall(t, fn, site)
  PROVE  Contents'
<1>0. Types
  BY DEF Inductive
<1>1. t[1] \in Device /\ jobID[t[1]] \in Nat
  BY <1>0 DEF Thread, Types
<1>2. PICK there \in {"getArgsOfRC", "pushArgument"} :
        there = IF Params[fn] = << >> THEN "getArgsOfRC" ELSE "pushArgument"
  OBVIOUS
<1>3. pc[t] = "run" /\ pc' = [pc EXCEPT ![t] = there]
  BY <1>2 DEF GenerateJobId, AsyncCall, Goto
<1>4. Turn(t, there)
  BY <1>0, <1>3 DEF Turn, GenerateJobId, AsyncCall, Types
<1>5. UNCHANGED <<consumeTable, returnValueTable, jobIDMap, sendQue, up, down, jobQue, route,
                  serving, storing>>
  BY DEF GenerateJobId, AsyncCall, tables, network
<1>6. jobID' \in [Device -> Nat] /\ \A e \in Device : jobID'[e] >= jobID[e]
  <2>1. CASE GenerateJobId(t, fn, site)
    BY <1>0, <1>1, <2>1 DEF GenerateJobId, Types
  <2>2. CASE AsyncCall(t, fn, site)
    <3>1. jobID' = jobID /\ \A e \in Device : jobID[e] \in Nat
      BY <1>0, <2>2 DEF AsyncCall, tables, Types
    <3> QED
      BY <1>0, <3>1 DEF Types
  <2> QED
    BY <2>1, <2>2
<1>7. Caller(t)' => call'[t].job >= jobID[t[1]] /\ call'[t].job \in Int
  <2>1. CASE GenerateJobId(t, fn, site)
    <3>1. call'[t].job = jobID[t[1]]
      BY <1>0, <2>1 DEF GenerateJobId, Types
    <3> QED
      BY <1>1, <3>1
  <2>2. CASE AsyncCall(t, fn, site)
    <3>1. call'[t].tag = "async"
      BY <1>0, <2>2 DEF AsyncCall, Types
    <3> QED
      BY <3>1 DEF Caller
  <2> QED
    BY <2>1, <2>2
<1>8. pc[t] \notin Filling /\ there \notin Filling
  BY <1>2, <1>3 DEF Filling
<1> QED
  BY <1>4, <1>5, <1>6, <1>7, <1>8, AloneContents

LEMMA PushArgumentContents ==
  ASSUME Inductive, Contents, NEW t \in Thread, PushArgument(t) \/ GetArgsOfRC(t)
  PROVE  Contents'
<1>0. Types
  BY DEF Inductive
<1>1. pc[t] \in {"pushArgument", "getArgsOfRC"} /\ call[t] # None /\ call[t] \in Making
  <2>1. pc[t] \in {"pushArgument", "getArgsOfRC"}
    BY DEF PushArgument, GetArgsOfRC, Goto
  <2>2. call[t] # None
    BY <2>1 DEF Inductive, Phases, Calling, Before
  <2> QED
    BY <1>0, <2>1, <2>2 DEF Types
<1>2. PICK there \in {"pushArgument", "getArgsOfRC", "insertConsumeWait", "pushJob"} :
        pc' = [pc EXCEPT ![t] = there]
  BY DEF PushArgument, GetArgsOfRC, Goto
<1>3. Turn(t, there) /\ call'[t].job = call[t].job /\ call'[t].tag = call[t].tag
  <2>1. t \in DOMAIN call
    BY <1>0 DEF Types
  <2>2. \/ \E i : call' = [call EXCEPT ![t].pushed = i]
        \/ \E words : call' = [call EXCEPT ![t].args = words]
    BY DEF PushArgument, GetArgsOfRC
  <2>3. call'[t].job = call[t].job /\ call'[t].tag = call[t].tag
    BY <1>1, <2>1, <2>2 DEF Making
  <2>4. \A u \in Thread \ {t} : call'[u] = call[u]
    BY <1>0, <2>2 DEF Types
  <2> QED
    BY <1>2, <2>3, <2>4 DEF Turn
<1>4. UNCHANGED <<jobID, consumeTable, returnValueTable, jobIDMap, sendQue, up, down, jobQue, route,
                  serving, storing>>
  BY DEF PushArgument, GetArgsOfRC, network
<1>5. jobID' \in [Device -> Nat] /\ \A e \in Device : jobID'[e] >= jobID[e]
  <2>1. \A e \in Device : jobID[e] \in Nat
    BY <1>0 DEF Types
  <2> QED
    BY <1>0, <1>4, <2>1 DEF Types
<1>6. pc[t] \notin Filling /\ there \notin Filling /\ pc[t] \notin Since
  BY <1>1, <1>2 DEF Filling, Since
<1>7. Caller(t)' => Caller(t)
  BY <1>1, <1>3 DEF Caller
<1> QED
  BY <1>3, <1>4, <1>5, <1>6, <1>7, AloneContents

LEMMA ReturnsStay ==
  ASSUME Inductive, Stored, Grows, NEW d \in Device, NEW j \in DOMAIN returnValueTable[d],
         NEW value, value = returnValueTable[d][j]
  PROVE  Gives(value, d, j)'
<1>1. j \in Int
  BY DEF Inductive, Types, IsTable
<1>2. Gives(value, d, j)
  BY DEF Stored
<1> QED
  BY <1>1, <1>2, GivesGrows

LEMMA InsertConsumeWaitContents ==
  ASSUME Inductive, Contents, NEW t \in Thread, InsertConsumeWait(t)
  PROVE  Contents'
<1> DEFINE d == t[1]
           job == call[t].job
<1>0. Types
  BY DEF Inductive
<1>1. /\ pc[t] = "insertConsumeWait" /\ pc' = [pc EXCEPT ![t] = "pushJob"]
      /\ call' = [call EXCEPT ![t].fn = runningJobs[d][job]]
      /\ consumeTable' = Insert(consumeTable, d, job, FALSE)
      /\ UNCHANGED <<jobID, runningJobs, returnValueTable, jobIDMap, argsTable, args_list,
                     sendQue, up, down, jobQue, route, serving, storing>>
  BY DEF InsertConsumeWait, Goto, network
<1>2. call[t] \in Making /\ d \in Device /\ call[t] # None /\ job \in Int
  <2>1. call[t] # None
    BY <1>1 DEF Inductive, Phases, Calling, Before
  <2> QED
    BY <1>0, <2>1 DEF Types, Thread, Making
<1>3. call'[t].job = job /\ call'[t].tag = call[t].tag /\ call'[t] # None
  <2>1. call'[t] = [call[t] EXCEPT !.fn = runningJobs[d][job]]
    BY <1>0, <1>1 DEF Types
  <2>2. call'[t].job = job /\ call'[t].tag = call[t].tag
    BY <1>2, <2>1 DEF Making
  <2>3. Inductive'
    BY InsertConsumeWaitInductive
  <2>4. pc'[t] \in Calling
    BY <1>0, <1>1 DEF Types, Calling
  <2>5. call'[t] # None
    BY <2>3, <2>4 DEF Inductive, Phases
  <2> QED
    BY <2>2, <2>5
<1>4. /\ consumeTable'[d][job] = FALSE
      /\ \A k \in DOMAIN consumeTable[d] : k # job => consumeTable'[d][k] = consumeTable[d][k]
      /\ DOMAIN consumeTable'[d] = DOMAIN consumeTable[d] \union {job}
      /\ \A e \in Device \ {d} : consumeTable'[e] = consumeTable[e]
  <2> DEFINE no == FALSE
  <2>1. consumeTable' = Insert(consumeTable, d, job, no) /\ no \in BOOLEAN /\ no = FALSE
    BY <1>1
  <2>2. IsTable(consumeTable, BOOLEAN) /\ job \in Int /\ d \in Device
    BY <1>0, <1>2 DEF Types
  <2> HIDE DEF job, d, no
  <2>3. /\ consumeTable'[d][job] = no
        /\ \A k \in DOMAIN consumeTable[d] : k # job => consumeTable'[d][k] = consumeTable[d][k]
        /\ DOMAIN consumeTable'[d] = DOMAIN consumeTable[d] \union {job}
        /\ \A e \in Device \ {d} : consumeTable'[e] = consumeTable[e]
    BY <2>1, <2>2, Inserted
  <2> QED
    BY <2>1, <2>3
<1>5. Turn(t, "pushJob")
  BY <1>0, <1>1 DEF Turn, Types
<1>6. Grows
  <2>1. jobID' \in [Device -> Nat] /\ \A e \in Device : jobID'[e] >= jobID[e]
    <3>1. \A e \in Device : jobID[e] \in Nat
      BY <1>0 DEF Types
    <3> QED
      BY <1>0, <1>1, <3>1 DEF Types
  <2>2. Caller(t)' => /\ Caller(t) /\ call'[t].job = call[t].job
                      /\ pc[t] \in Since => call'[t].fn = call[t].fn /\ "pushJob" \in Since
    BY <1>1, <1>2, <1>3 DEF Caller, Since
  <2> QED
    BY <1>1, <1>5, <2>1, <2>2, ThreadGrows
<1>7. Filled'
  <2>1. Filled /\ pc[t] \notin Filling /\ "pushJob" \notin Filling /\ UNCHANGED sendQue
    BY <1>1 DEF Contents, Filling
  <2> QED
    BY <1>5, <2>1, FilledKept
<1>8. Stored'
  <2>0. returnValueTable' = returnValueTable /\ storing' = storing /\ Stored
    BY <1>1 DEF Contents
  <2>1. ASSUME NEW e \in Device, NEW j \in DOMAIN returnValueTable'[e]
        PROVE  Gives(returnValueTable[e][j], e, j)'
    <3>1. PICK value : value = returnValueTable[e][j]
      OBVIOUS
    <3>2. Gives(value, e, j)'
      BY <1>6, <2>0, <3>1, ReturnsStay
    <3> QED
      BY <2>0, <3>1, <3>2
  <2>2. ASSUME NEW u \in Thread, Caller(u)', NEW j, j = call'[u].job,
               j \in DOMAIN consumeTable'[u[1]], consumeTable'[u[1]][j]
        PROVE  j \in DOMAIN returnValueTable[u[1]]
    <3>1. Caller(u) /\ call[u].job = j
      BY <1>2, <1>3, <1>5, <2>2, Turned DEF Caller, Inductive
    <3>2. u[1] \in Device
      BY DEF Thread
    <3>3. ~ (u[1] = d /\ j = job)
      BY <1>4, <2>2
    <3>4. j \in DOMAIN consumeTable[u[1]] /\ consumeTable[u[1]][j]
      BY <1>4, <2>2, <3>2, <3>3
    <3> QED
      BY <2>0, <3>1, <3>2, <3>4 DEF Stored
  <2> QED
    BY <2>0, <2>1, <2>2 DEF Stored
<1>9. \A e \in Device : RightServing(e)'
  <2>1. UNCHANGED <<serving, jobIDMap>>
    BY <1>1
  <2> QED
    BY <1>6, <2>1, ServingAll
<1> QED
  BY <1>1, <1>6, <1>7, <1>8, <1>9, ContentsFrom

LEMMA FilledPush ==
  ASSUME Inductive, Filled, Alone', NEW t \in Thread, NEW words, Push(t, words),
         pc[t] \in {"pushJob"} \union Filling, NEW there \in Filling,
         pc' = [pc EXCEPT ![t] = there],
         there = "pushFunction" => Queue(t) \o words = <<Word("job", call[t].job)>>,
         there \in {"pushArgs", "sendQue"} => Opens(Queue(t) \o words, call[t].job, call[t].fn)
  PROVE  Filled'
<1> DEFINE d == t[1]
           tag == call[t].tag
<1>1. call[t] # None /\ call[t] \in Making /\ d \in Device /\ tag \in Tag
  <2>1. call[t] # None
    BY DEF Inductive, Phases, Calling, Since, Filling
  <2> QED
    BY <2>1 DEF Inductive, Types, Making, Thread
<1>2. /\ call' = call /\ pc'[t] = there /\ \A u \in Thread \ {t} : pc'[u] = pc[u]
      /\ sendQue' = [sendQue EXCEPT ![d][tag] = @ \o words]
  BY DEF Push, Inductive, Types
<1>3. /\ sendQue'[d][tag] = Queue(t) \o words
      /\ \A e \in Device : \A g \in Tag : e # d \/ g # tag => sendQue'[e][g] = sendQue[e][g]
  BY <1>1, <1>2 DEF Queue, Inductive, Types
<1>4. ASSUME NEW e \in Device, NEW g \in Tag, sendQue'[e][g] # << >>
      PROVE  \E u \in Thread : u[1] = e /\ pc'[u] \in Filling /\ call'[u].tag = g
  <2>1. CASE e = d /\ g = tag
    BY <1>2, <2>1
  <2>2. CASE e # d \/ g # tag
    <3>1. PICK u \in Thread : u[1] = e /\ pc[u] \in Filling /\ call[u].tag = g
      BY <1>3, <1>4, <2>2 DEF Filled
    <3> QED
      BY <1>2, <2>2, <3>1
  <2> QED
    BY <2>1, <2>2
<1>5. ASSUME NEW u \in Thread, pc'[u] \in Filling
      PROVE  /\ pc'[u] = "pushFunction" => Queue(u)' = <<Word("job", call'[u].job)>>
             /\ pc'[u] \in {"pushArgs", "sendQue"} => Opens(Queue(u)', call'[u].job, call'[u].fn)
  <2>1. CASE u = t
    <3>1. Queue(u)' = Queue(t) \o words /\ call'[u] = call[t] /\ pc'[u] = there
      BY <1>2, <1>3, <2>1 DEF Queue
    <3> QED
      BY <3>1
  <2>2. CASE u # t
    <3>1. u[1] # d \/ call[u].tag # tag
      BY <1>2, <1>5, <2>2 DEF Alone
    <3>2. u[1] \in Device /\ call[u].tag \in Tag
      <4>1. call[u] # None
        BY <1>2, <1>5, <2>2 DEF Inductive, Phases, Calling, Since, Filling
      <4> QED
        BY <4>1 DEF Inductive, Types, Making, Thread
    <3>3. Queue(u)' = Queue(u) /\ call'[u] = call[u] /\ pc'[u] = pc[u]
      <4>1. sendQue'[u[1]][call[u].tag] = sendQue[u[1]][call[u].tag]
        BY <1>3, <3>1, <3>2
      <4> QED
        BY <1>2, <2>2, <4>1 DEF Queue
    <3> QED
      BY <3>3 DEF Filled
  <2> QED
    BY <2>1, <2>2
<1> QED
  BY <1>4, <1>5 DEF Filled, Filling, Opens, Queue

LEMMA PushContents ==
  ASSUME Inductive, Contents, Alone', NEW t \in Thread, PushJob(t) \/ PushFunction(t) \/ PushArgs(t)
  PROVE  Contents'
<1>0. Types
  BY DEF Inductive
<1> DEFINE words == IF pc[t] = "pushJob" THEN <<Word("job", call[t].job)>>
                    ELSE IF pc[t] = "pushFunction" THEN <<Word("function", call[t].fn)>>
                    ELSE call[t].args
           there == IF pc[t] = "pushJob" THEN "pushFunction"
                    ELSE IF pc[t] = "pushFunction" THEN "pushArgs" ELSE "sendQue"
<1>1. /\ Push(t, words) /\ pc' = [pc EXCEPT ![t] = there] /\ there \in Filling
      /\ \/ /\ pc[t] = "pushJob" /\ there = "pushFunction"
            /\ words = <<Word("job", call[t].job)>>
         \/ /\ pc[t] = "pushFunction" /\ there = "pushArgs"
            /\ words = <<Word("function", call[t].fn)>>
         \/ pc[t] = "pushArgs" /\ there = "sendQue" /\ words = call[t].args
  <2>2. CASE PushJob(t)
    BY <2>2 DEF PushJob, Goto, Filling
  <2>3. CASE PushFunction(t)
    BY <2>3 DEF PushFunction, Goto, Filling
  <2>4. CASE PushArgs(t)
    BY <2>4 DEF PushArgs, Goto, Filling
  <2> QED
    BY <2>2, <2>3, <2>4
<1> HIDE DEF words, there
<1>2. call[t] # None /\ call[t] \in Making /\ t[1] \in Device /\ call[t].tag \in Tag
  <2>1. call[t] # None
    BY <1>1 DEF Inductive, Phases, Calling, Since
  <2> QED
    BY <1>0, <2>1 DEF Types, Making, Thread
<1>3. Queue(t) \in Seq(CallWord)
  BY <1>0, <1>2 DEF Types, Queue
<1>4. UNCHANGED <<jobID, consumeTable, returnValueTable, jobIDMap, up, down, jobQue, route, call,
                  serving, storing>>
  BY <1>1 DEF Push, tables, network
<1>5. Turn(t, there)
  BY <1>1, <1>4 DEF Turn
<1>6. /\ there = "pushFunction" => Queue(t) \o words = <<Word("job", call[t].job)>>
      /\ there \in {"pushArgs", "sendQue"} => Opens(Queue(t) \o words, call[t].job, call[t].fn)
  <2>1. CASE there = "pushFunction"
    <3>1. pc[t] = "pushJob" /\ words = <<Word("job", call[t].job)>>
      BY <1>1, <2>1
    <3>2. ASSUME Queue(t) # << >> PROVE FALSE
      <4>1. PICK u \in Thread : u[1] = t[1] /\ pc[u] \in Filling /\ call[u].tag = call[t].tag
        BY <1>2, <3>2 DEF Contents, Filled, Queue
      <4>2. u # t
        BY <3>1, <4>1 DEF Filling
      <4>3. pc'[u] = pc[u] /\ pc'[t] = there /\ call' = call
        BY <1>4, <1>5, <4>2, Turned DEF Inductive
      <4> QED
        BY <1>1, <4>1, <4>2, <4>3 DEF Alone
    <3> DEFINE w == Word("job", call[t].job)
    <3> HIDE DEF w
    <3>3. << >> \o <<w>> = <<w>>
      OBVIOUS
    <3> QED
      BY <2>1, <3>1, <3>2, <3>3 DEF w
  <2>2. CASE there = "pushArgs"
    <3>1. Queue(t) = <<Word("job", call[t].job)>> /\ words = <<Word("function", call[t].fn)>>
      BY <1>1, <2>2 DEF Contents, Filled
    <3> DEFINE w == Word("job", call[t].job)
               x == Word("function", call[t].fn)
    <3> HIDE DEF w, x
    <3>2. Len(<<w>> \o <<x>>) = 2 /\ (<<w>> \o <<x>>)[1] = w /\ (<<w>> \o <<x>>)[2] = x
      OBVIOUS
    <3> QED
      BY <2>2, <3>1, <3>2 DEF Opens, w, x
  <2>3. CASE there = "sendQue"
    <3>1. Opens(Queue(t), call[t].job, call[t].fn) /\ words \in Seq(CallWord)
      <4>1. call[t].args \in Seq(CallWord)
        <5>1. call[t].args \in Seq(Argument) /\ Argument \subseteq CallWord
          BY <1>2 DEF Making, CallWord
        <5> QED
          BY <5>1
      <4> QED
        BY <1>1, <2>3, <4>1 DEF Contents, Filled
    <3> DEFINE q == Queue(t)
    <3>2. q \in Seq(CallWord) /\ Len(q) >= 2
      BY <1>3, <3>1 DEF Opens
    <3> HIDE DEF q
    <3>3. Len(q \o words) >= 2 /\ (q \o words)[1] = q[1] /\ (q \o words)[2] = q[2]
      BY <3>1, <3>2
    <3> QED
      BY <2>3, <3>1, <3>3 DEF Opens, q
  <2> QED
    BY <1>1, <2>1, <2>2, <2>3
<1>7. Filled'
  <2>1. pc[t] \in {"pushJob"} \union Filling /\ Filled
    BY <1>1 DEF Filling, Contents
  <2> QED
    BY <1>1, <1>6, <2>1, FilledPush
<1>8. Grows
  <2>1. jobID' \in [Device -> Nat] /\ \A e \in Device : jobID'[e] >= jobID[e]
    <3>1. \A e \in Device : jobID[e] \in Nat
      BY <1>0 DEF Types
    <3> QED
      BY <1>0, <1>4, <3>1 DEF Types
  <2>2. Caller(t)' => /\ Caller(t) /\ call'[t].job = call[t].job
                      /\ pc[t] \in Since => call'[t].fn = call[t].fn /\ there \in Since
    BY <1>1, <1>4 DEF Caller, Since, Filling
  <2> QED
    BY <1>4, <1>5, <2>1, <2>2, ThreadGrows
<1>9. Stored'
  <2>1. \A u \in Thread : Caller(u)' => Caller(u) /\ call'[u].job = call[u].job
    BY <1>4 DEF Caller
  <2> QED
    BY <1>4, <1>8, <2>1, StoredKept DEF Contents
<1>10. \A e \in Device : RightServing(e)'
  <2>1. UNCHANGED <<serving, jobIDMap>>
    BY <1>4
  <2> QED
    BY <1>8, <2>1, ServingAll
<1> QED
  BY <1>4, <1>7, <1>8, <1>9, <1>10, ContentsFrom

LEMMA SendQueContents ==
  ASSUME Inductive, Contents, Alone, NEW t \in Thread, SendQue(t)
  PROVE  Contents'
<1> DEFINE d == t[1]
           tag == call[t].tag
           there == IF tag = "call" THEN "consumeReturn" ELSE "run"
<1>m. PICK m : m = [tag |-> tag, words |-> Queue(t)]
  OBVIOUS
<1>0. Types /\ Inductive'
  BY SendQueInductive DEF Inductive
<1>1. /\ pc[t] = "sendQue" /\ pc' = [pc EXCEPT ![t] = there]
      /\ up' = [up EXCEPT ![d] = Append(@, m)]
      /\ sendQue' = [sendQue EXCEPT ![d][tag] = << >>]
      /\ call' = [call EXCEPT ![t] = IF tag = "call" THEN @ ELSE None]
      /\ UNCHANGED <<jobID, consumeTable, returnValueTable, jobIDMap, down, jobQue, route,
                     serving, storing>>
  BY <1>m DEF SendQue, Goto, tables, Queue
<1>2. call[t] # None /\ call[t] \in Making /\ d \in Device /\ tag \in Tag
  <2>1. call[t] # None
    BY <1>1 DEF Inductive, Phases, Calling, Since
  <2> QED
    BY <1>0, <2>1 DEF Types, Making, Thread
<1>3. /\ Turn(t, there) /\ pc'[t] = there
      /\ \A u \in Thread \ {t} : pc'[u] = pc[u] /\ call'[u] = call[u]
      /\ call'[t] = IF tag = "call" THEN call[t] ELSE None
  <2>1. Turn(t, there) /\ call'[t] = IF tag = "call" THEN call[t] ELSE None
    BY <1>0, <1>1 DEF Turn, Types
  <2> QED
    BY <1>0, <2>1, Turned
<1>4. Grows
  <2>1. jobID' \in [Device -> Nat] /\ \A e \in Device : jobID'[e] >= jobID[e]
    <3>1. \A e \in Device : jobID[e] \in Nat
      BY <1>0 DEF Types
    <3> QED
      BY <1>0, <1>1, <3>1 DEF Types
  <2>2. Caller(t)' => /\ Caller(t) /\ call'[t].job = call[t].job
                      /\ pc[t] \in Since => call'[t].fn = call[t].fn /\ there \in Since
    BY <1>1, <1>3 DEF Caller, Since
  <2> QED
    BY <1>1, <1>3, <2>1, <2>2, ThreadGrows
<1>5. there \notin Filling
  BY DEF Filling
<1>6. Filled'
  <2>0. /\ sendQue'[d][tag] = << >>
        /\ \A e \in Device : \A g \in Tag : e # d \/ g # tag => sendQue'[e][g] = sendQue[e][g]
    BY <1>0, <1>1, <1>2 DEF Types
  <2>1. ASSUME NEW e \in Device, NEW g \in Tag, sendQue'[e][g] # << >>
        PROVE  \E u \in Thread : u[1] = e /\ pc'[u] \in Filling /\ call'[u].tag = g
    <3>1. sendQue[e][g] # << >> /\ (e # d \/ g # tag)
      BY <2>0, <2>1
    <3>2. PICK u \in Thread : u[1] = e /\ pc[u] \in Filling /\ call[u].tag = g
      BY <3>1 DEF Contents, Filled
    <3> QED
      BY <1>3, <3>1, <3>2
  <2>2. ASSUME NEW u \in Thread, pc'[u] \in Filling
        PROVE  /\ pc'[u] = "pushFunction" => Queue(u)' = <<Word("job", call'[u].job)>>
               /\ pc'[u] \in {"pushArgs", "sendQue"} => Opens(Queue(u)', call'[u].job, call'[u].fn)
    <3>1. u # t
      BY <1>3, <1>5, <2>2
    <3>2. u[1] # d \/ call[u].tag # tag
      BY <1>1, <1>3, <2>2, <3>1 DEF Alone, Filling
    <3>3. u[1] \in Device /\ call[u].tag \in Tag
      <4>1. call[u] # None
        BY <1>3, <2>2, <3>1 DEF Inductive, Phases, Calling, Since, Filling
      <4> QED
        BY <1>0, <4>1 DEF Types, Making, Thread
    <3>4. sendQue'[u[1]][call[u].tag] = sendQue[u[1]][call[u].tag]
      BY <2>0, <3>2, <3>3
    <3>5. Queue(u)' = Queue(u) /\ call'[u] = call[u] /\ pc'[u] = pc[u]
      BY <1>3, <3>1, <3>4 DEF Queue
    <3> QED
      BY <3>5 DEF Contents, Filled
  <2> QED
    BY <2>1, <2>2 DEF Filled, Filling, Opens, Queue
<1>7. Stored'
  <2>1. \A u \in Thread : Caller(u)' => Caller(u) /\ call'[u].job = call[u].job
    BY <1>3 DEF Caller
  <2> QED
    BY <1>1, <1>4, <2>1, StoredKept DEF Contents
<1>8. \A e \in Device : RightServing(e)'
  <2>1. UNCHANGED <<serving, jobIDMap>>
    BY <1>1
  <2> QED
    BY <1>4, <2>1, ServingAll
<1>9. RightUp(d, m)'
  <2>0. PICK j, fn : j = call[t].job /\ fn = call[t].fn
    OBVIOUS
  <2>1. Opens(Queue(t), j, fn) /\ Queue(t) # << >>
    BY <1>1, <2>0 DEF Contents, Filled, Opens
  <2>2. m.tag = tag /\ m.words = Queue(t) /\ m.words[1].value = j
    BY <1>m, <2>1 DEF Opens, Word
  <2>3. ASSUME tag = "call" PROVE Wants(d, j, fn)'
    <3>1. call'[t] = call[t] /\ Caller(t)' /\ pc'[t] \in Since
      BY <1>2, <1>3, <2>3 DEF Caller, Since
    <3>2. call[t].job < jobID'[d]
      BY <1>1, <1>2, <2>3 DEF Inductive, Phases
    <3>3. \A u \in Thread : u[1] = d /\ Caller(u)' /\ call'[u].job = call[t].job => u = t
      BY <1>0, <3>1 DEF Inductive, Phases
    <3> QED
      BY <2>0, <3>1, <3>2, <3>3 DEF Wants
  <2>4. fn \in Function /\ tag # "return"
    BY <1>2, <2>0 DEF Making, Tag
  <2> QED
    BY <1>m, <2>1, <2>2, <2>3, <2>4 DEF RightUp, Opens
<1>10. \A e \in Device : \A n \in Range(up'[e]) : n \in Range(up[e]) \/ RightUp(e, n)'
  <2>1. ASSUME NEW e \in Device, NEW n \in Range(up'[e]), n \notin Range(up[e])
        PROVE  e = d /\ n = m
    <3>1. up[e] \in Seq(Asked \union Answered) /\ (e # d => up'[e] = up[e])
      BY <1>0, <1>1, <1>2 DEF Types
    <3>2. e = d
      BY <2>1, <3>1
    <3>3. up'[d] = Append(up[d], m)
      BY <1>0, <1>1, <1>2 DEF Types
    <3>4. m \in Asked
      <4>1. Queue(t) \in Seq(CallWord)
        BY <1>0, <1>2 DEF Types, Queue
      <4> QED
        BY <1>m, <1>2, <4>1 DEF Asked
    <3> DEFINE s == up[d]
               S == Asked \union Answered
    <3>5. s \in Seq(S) /\ m \in S
      BY <3>1, <3>2, <3>4
    <3> HIDE DEF s, S
    <3>6. Range(Append(s, m)) = Range(s) \union {m}
      BY <3>5, Members
    <3> QED
      BY <2>1, <3>2, <3>3, <3>6 DEF s
  <2> QED
    BY <1>9, <2>1
<1> QED
  BY <1>1, <1>4, <1>6, <1>7, <1>8, <1>10, ContentsFrom

LEMMA ConsumeReturnContents ==
  ASSUME Inductive, Contents, NEW t \in Thread, ConsumeReturn(t)
  PROVE  Contents'
<1> DEFINE d == t[1]
           job == call[t].job
<1>0. Types
  BY DEF Inductive
<1>1. /\ pc[t] = "consumeReturn" /\ pc' = [pc EXCEPT ![t] = "run"]
      /\ At(consumeTable, d, job) = TRUE
      /\ returnValueTable' = Erase(returnValueTable, d, job)
      /\ call' = [call EXCEPT ![t] = None]
      /\ UNCHANGED <<jobID, consumeTable, jobIDMap, sendQue, up, down, jobQue, route,
                     serving, storing>>
  BY DEF ConsumeReturn, Goto, network
<1>2. /\ d \in Device /\ Caller(t) /\ job \in DOMAIN consumeTable[d] /\ pc[t] \in Calling
  <2>1. call[t] # None /\ pc[t] \notin Before /\ pc[t] \in Calling
    BY <1>1 DEF Inductive, Phases, Calling, Since, Before
  <2>2. Caller(t)
    BY <1>0, <1>1, <2>1 DEF Inductive, Phases, Caller, Types, Making, Tag
  <2> QED
    BY <2>1, <2>2 DEF Inductive, Tables, Thread
<1>3. consumeTable[d][job]
  BY <1>1, <1>2 DEF At
<1>4. /\ DOMAIN returnValueTable'[d] = DOMAIN returnValueTable[d] \ {job}
      /\ \A k \in DOMAIN returnValueTable[d] : k # job =>
           returnValueTable'[d][k] = returnValueTable[d][k]
      /\ \A e \in Device \ {d} : returnValueTable'[e] = returnValueTable[e]
  BY <1>0, <1>1, <1>2, Erased DEF Types
<1>5. /\ Turn(t, "run") /\ call'[t] = None
      /\ \A u \in Thread \ {t} : pc'[u] = pc[u] /\ call'[u] = call[u]
  <2>1. Turn(t, "run") /\ call'[t] = None
    BY <1>0, <1>1 DEF Turn, Types
  <2> QED
    BY <1>0, <2>1, Turned
<1>6. Grows
  <2>1. jobID' \in [Device -> Nat] /\ \A e \in Device : jobID'[e] >= jobID[e]
    <3>1. \A e \in Device : jobID[e] \in Nat
      BY <1>0 DEF Types
    <3> QED
      BY <1>0, <1>1, <3>1 DEF Types
  <2>2. ~ Caller(t)'
    BY <1>5 DEF Caller
  <2> QED
    BY <1>1, <1>5, <2>1, <2>2, ThreadGrows
<1>7. Filled'
  <2>1. Filled /\ pc[t] \notin Filling /\ "run" \notin Filling /\ UNCHANGED sendQue
    BY <1>1 DEF Contents, Filling
  <2> QED
    BY <1>5, <2>1, FilledKept
<1>8. Stored'
  <2>1. ASSUME NEW e \in Device, NEW j \in DOMAIN returnValueTable'[e]
        PROVE  Gives(returnValueTable[e][j], e, j)'
    <3>1. j \in DOMAIN returnValueTable[e] /\ returnValueTable'[e][j] = returnValueTable[e][j]
      BY <1>4, <2>1
    <3>2. PICK value : value = returnValueTable[e][j]
      OBVIOUS
    <3>3. Gives(value, e, j)'
      BY <1>6, <3>1, <3>2, ReturnsStay DEF Contents
    <3> QED
      BY <3>1, <3>2, <3>3
  <2>2. ASSUME NEW e \in Device, storing'[e] # None
        PROVE  storing'[e].job \in DOMAIN returnValueTable'[e]
    <3>1. storing[e] # None /\ storing'[e] = storing[e]
      BY <1>1, <2>2
    <3>2. storing[e].job \in DOMAIN returnValueTable[e]
      BY <3>1 DEF Contents, Stored
    <3>3. CASE e = d
      <4>1. storing[d].job \in Live(d)
        BY <1>2, <3>1, <3>3, LivePlaces DEF Live, All, LiveAt, LivePlace
      <4>2. ~ consumeTable[d][storing[d].job]
        BY <1>2, <4>1 DEF Inductive, Waiting, Awaited
      <4> QED
        BY <1>3, <1>4, <3>1, <3>2, <3>3, <4>2
    <3> QED
      BY <1>4, <3>1, <3>2, <3>3
  <2>3. ASSUME NEW u \in Thread, Caller(u)', NEW j, j = call'[u].job,
               j \in DOMAIN consumeTable'[u[1]], consumeTable'[u[1]][j]
        PROVE  j \in DOMAIN returnValueTable'[u[1]]
    <3>1. u # t
      BY <1>5, <2>3 DEF Caller
    <3>2. Caller(u) /\ call[u].job = j /\ u[1] \in Device
      BY <1>5, <2>3, <3>1 DEF Caller, Thread
    <3>3. ~ (u[1] = d /\ j = job)
      BY <1>2, <3>1, <3>2 DEF Inductive, Phases
    <3>4. j \in DOMAIN returnValueTable[u[1]]
      BY <1>1, <2>3, <3>2 DEF Contents, Stored
    <3> QED
      BY <1>4, <3>2, <3>3, <3>4
  <2> QED
    BY <2>1, <2>2, <2>3 DEF Stored
<1>9. \A e \in Device : RightServing(e)'
  <2>1. UNCHANGED <<serving, jobIDMap>>
    BY <1>1
  <2> QED
    BY <1>6, <2>1, ServingAll
<1> QED
  BY <1>1, <1>6, <1>7, <1>8, <1>9, ContentsFrom

-----------------------------------------------------------------------------
(* Steps of the network and of the handler.                                *)
LEMMA StillGrows ==
  ASSUME Inductive, UNCHANGED call, \A u \in Thread : Caller(u) => pc'[u] = pc[u],
         jobID' \in [Device -> Nat], \A e \in Device : jobID'[e] >= jobID[e],
         \A r \in DOMAIN route : route'[r] = route[r]
  PROVE  Grows
BY WantsKept DEF Grows

LEMMA NetworkGrows ==
  ASSUME Inductive, Contents, UNCHANGED <<jobID, sendQue, pc, call, serving, jobIDMap>>,
         \A r \in DOMAIN route : route'[r] = route[r]
  PROVE  Grows /\ Filled' /\ \A d \in Device : RightServing(d)'
<1>1. Grows
  <2>1. jobID' \in [Device -> Nat] /\ \A e \in Device : jobID'[e] >= jobID[e]
    <3>1. jobID' = jobID /\ jobID \in [Device -> Nat]
      BY DEF Inductive, Types
    <3>2. \A e \in Device : jobID[e] \in Nat
      BY <3>1
    <3> QED
      BY <3>1, <3>2
  <2> QED
    BY <2>1, StillGrows
<1>2. Filled'
  BY FilledSame DEF Contents
<1>3. \A d \in Device : RightServing(d)'
  BY <1>1, ServingAll
<1> QED
  BY <1>1, <1>2, <1>3

LEMMA NetworkContents ==
  ASSUME Inductive, Contents, UNCHANGED <<jobID, returnValueTable, consumeTable, storing,
           sendQue, pc, call, serving, jobIDMap>>,
         \A r \in DOMAIN route : route'[r] = route[r]
  PROVE  Grows /\ Filled' /\ Stored' /\ \A d \in Device : RightServing(d)'
<1>1. Grows /\ Filled' /\ \A d \in Device : RightServing(d)'
  <2>1. UNCHANGED <<jobID, sendQue, pc, call, serving, jobIDMap>>
    OBVIOUS
  <2> QED
    BY <2>1, NetworkGrows
<1>2. \A u \in Thread : Caller(u)' => Caller(u) /\ call'[u].job = call[u].job
  BY DEF Caller
<1>3. Stored'
  BY <1>1, <1>2, StoredKept DEF Contents
<1> QED
  BY <1>1, <1>3

LEMMA RangeTail ==
  ASSUME NEW S, NEW q, q \in [Device -> Seq(S)], NEW d \in Device, q[d] # << >>,
         NEW r, r = [q EXCEPT ![d] = Tail(@)], NEW e \in Device
  PROVE  Range(r[e]) \subseteq Range(q[e]) /\ Head(q[d]) \in Range(q[d])
<1>1. Range(Tail(q[d])) \subseteq Range(q[d]) /\ Head(q[d]) \in Range(q[d])
  <2> DEFINE s == q[d]
  <2>1. s \in Seq(S) /\ s # << >> /\ Head(s) \in S
    OBVIOUS
  <2> HIDE DEF s
  <2>2. Range(Tail(s)) \subseteq Range(s) /\ Head(s) \in Range(s)
    BY <2>1, Members
  <2> QED
    BY <2>2 DEF s
<1> QED
  BY <1>1

LEMMA ForwardCallContents ==
  ASSUME Inductive, Contents, NEW d \in Device, ForwardCall(d)
  PROVE  Contents'
<1>0. Types
  BY DEF Inductive
<1>a. PICK m : m = Head(up[d])
  OBVIOUS
<1>1. /\ up[d] # << >> /\ m.tag \in Tag /\ up' = [up EXCEPT ![d] = Tail(@)]
      /\ m.words[2].kind = "function"
      /\ UNCHANGED <<jobID, returnValueTable, consumeTable, storing, sendQue, pc, call, serving,
                     jobIDMap, jobQue>>
  BY <1>a DEF ForwardCall, tables
<1>2. /\ m \in Range(up[d]) /\ \A e \in Device : Range(up'[e]) \subseteq Range(up[e])
  BY <1>0, <1>1, <1>a, RangeTail DEF Types
<1>3. m \in Asked /\ m.tag # "return"
  BY <1>1, <1>2, UpFacts DEF Answered, Tag
<1>j. PICK j : j = m.words[1].value
  OBVIOUS
<1>4. PICK fn \in Function : /\ j = m.words[1].value /\ Opens(m.words, j, fn)
                             /\ m.tag = "call" => Wants(d, j, fn)
  BY <1>1, <1>2, <1>j DEF Contents, RightUp
<1>5. m.words[2].value = fn /\ fn.on \in Device /\ j \in Int /\ m.words \in Seq(CallWord)
  <2>1. m.words \in Seq(CallWord)
    BY <1>3 DEF Asked
  <2>2. m.words[1] \in CallWord /\ m.words[1].kind = "job"
    <3> DEFINE w == m.words
    <3>1. w \in Seq(CallWord) /\ Len(w) >= 2 /\ w[1] = Word("job", j)
      BY <1>4, <2>1 DEF Opens
    <3> HIDE DEF w
    <3>2. w[1] \in CallWord
      BY <3>1
    <3> QED
      BY <3>1, <3>2 DEF Word, w
  <2>3. j \in Int
    BY <1>4, <2>2 DEF CallWord, Argument
  <2>4. m.words[2].value = fn
    BY <1>4 DEF Opens, Word
  <2>5. fn.on \in Device
    BY FunctionAssumption
  <2> QED
    BY <2>1, <2>3, <2>4, <2>5
<1>6. PICK n : n = [tag |-> m.tag, job |-> Len(route) + 1, fn |-> fn,
                    args |-> SubSeq(m.words, 3, Len(m.words))]
  OBVIOUS
<1>7. /\ route' = Append(route, <<d, j>>)
      /\ down' = [down EXCEPT ![fn.on] = Append(@, n)]
  BY <1>a, <1>4, <1>5, <1>6 DEF ForwardCall
<1>8. /\ \A r \in DOMAIN route : route'[r] = route[r]
      /\ route'[n.job] = <<d, j>>
  <2>1. route \in Seq(Device \X Int) /\ n.job = Len(route) + 1 /\ <<d, j>> \in Device \X Int
    BY <1>0, <1>5, <1>6 DEF Types
  <2> DEFINE x == <<d, j>>
  <2>2. x \in Device \X Int /\ route' = Append(route, x)
    BY <1>7, <2>1
  <2> HIDE DEF x
  <2>3. /\ \A r \in DOMAIN route : route'[r] = route[r]
        /\ route'[n.job] = x
    BY <2>1, <2>2
  <2> QED
    BY <2>3 DEF x
<1>9. Grows /\ Filled' /\ Stored' /\ \A e \in Device : RightServing(e)'
  <2>1. UNCHANGED <<jobID, returnValueTable, consumeTable, storing,
           sendQue, pc, call, serving, jobIDMap>>
    BY <1>1
  <2>2. \A r \in DOMAIN route : route'[r] = route[r]
    BY <1>8
  <2> QED
    BY <2>1, <2>2, NetworkContents
<1>10. RightDown(fn.on, n)'
  <2>1. n.tag = m.tag /\ n.fn = fn
    BY <1>6
  <2>2. m.tag = "call" => Wants(d, j, fn)'
    BY <1>4, <1>5, <1>9 DEF Grows
  <2>3. route'[n.job][1] = d /\ route'[n.job][2] = j
    BY <1>8
  <2>4. n.tag = "call" => n.fn.on = fn.on /\ Wants(route[n.job][1], route[n.job][2], n.fn)'
    BY <2>1, <2>2, <2>3
  <2> QED
    BY <1>3, <2>1, <2>4 DEF RightDown, RightCall
<1>11. \A e \in Device : \A x \in Range(down'[e]) : x \in Range(down[e]) \/ RightDown(e, x)'
  <2>1. n \in Passed
    <3>1. SubSeq(m.words, 3, Len(m.words)) \in Seq(CallWord)
      <4>1. m.words \in Seq(CallWord) /\ Len(m.words) \in Nat /\ Len(m.words) >= 2
        BY <1>4, <1>5 DEF Opens
      <4> QED
        BY <4>1
    <3>2. Len(route) + 1 \in Int
      BY <1>0 DEF Types
    <3> QED
      BY <1>1, <1>6, <3>1, <3>2 DEF Passed
  <2>2. n \in Passed \union Answered /\ down \in [Device -> Seq(Passed \union Answered)]
    BY <1>0, <2>1 DEF Types
  <2>3. \A e \in Device : \A x \in Range(down'[e]) :
          x \in Range(down[e]) \/ (e = fn.on /\ x = n)
    <3> DEFINE S == Passed \union Answered
               s == down[fn.on]
    <3>1. s \in Seq(S) /\ n \in S
      BY <1>5, <2>2
    <3> HIDE DEF S, s
    <3>2. Range(Append(s, n)) = Range(s) \union {n}
      BY <3>1, Members
    <3>3. /\ down'[fn.on] = Append(s, n)
          /\ \A e \in Device : e # fn.on => down'[e] = down[e]
      BY <1>5, <1>7, <2>2 DEF s
    <3> QED
      BY <3>2, <3>3 DEF s
  <2> QED
    BY <1>10, <2>3
<1> QED
  BY <1>1, <1>2, <1>9, <1>11, ContentsFrom

LEMMA ForwardReturnContents ==
  ASSUME Inductive, Contents, NEW d \in Device, ForwardReturn(d)
  PROVE  Contents'
<1>0. Types
  BY DEF Inductive
<1>a. PICK m : m = Head(up[d])
  OBVIOUS
<1>1. /\ up[d] # << >> /\ m.tag = "return" /\ up' = [up EXCEPT ![d] = Tail(@)]
      /\ UNCHANGED <<jobID, returnValueTable, consumeTable, storing, sendQue, pc, call, serving,
                     jobIDMap, jobQue, route>>
  BY <1>a DEF ForwardReturn, tables
<1>2. /\ m \in Range(up[d]) /\ \A e \in Device : Range(up'[e]) \subseteq Range(up[e])
  BY <1>0, <1>1, <1>a, RangeTail DEF Types
<1>3. m \in Answered /\ m.job \in Out
  BY <1>1, <1>2, UpFacts
<1>4. PICK o \in Device, j \in Int : route[m.job][1] = o /\ route[m.job][2] = j
  BY <1>3, Routed
<1>5. PICK n : n = [m EXCEPT !.job = j]
  OBVIOUS
<1>6. n \in Answered /\ n.tag = "return" /\ n.job = j /\ n.value = m.value
  BY <1>1, <1>3, <1>5 DEF Answered
<1>7. down' = [down EXCEPT ![o] = Append(@, n)]
  BY <1>a, <1>4, <1>5 DEF ForwardReturn
<1>8. Grows /\ Filled' /\ Stored' /\ \A e \in Device : RightServing(e)'
  <2>1. UNCHANGED <<jobID, returnValueTable, consumeTable, storing,
           sendQue, pc, call, serving, jobIDMap>>
    BY <1>1
  <2>2. \A r \in DOMAIN route : route'[r] = route[r]
    BY <1>1
  <2> QED
    BY <2>1, <2>2, NetworkContents
<1>9. RightDown(o, n)'
  <2>1. Gives(m.value, o, j)
    BY <1>1, <1>2, <1>4 DEF Contents, RightUp
  <2>2. Gives(m.value, o, j)'
    BY <1>8, <2>1, GivesGrows
  <2> QED
    BY <1>6, <2>2 DEF RightDown, RightCall
<1>10. \A e \in Device : \A x \in Range(down'[e]) : x \in Range(down[e]) \/ RightDown(e, x)'
  <2> DEFINE S == Passed \union Answered
             s == down[o]
  <2>1. down \in [Device -> Seq(S)]
    BY <1>0 DEF Types
  <2>2. s \in Seq(S) /\ n \in S
    BY <1>6, <2>1
  <2> HIDE DEF S, s
  <2>3. Range(Append(s, n)) = Range(s) \union {n}
    BY <2>2, Members
  <2>4. down'[o] = Append(s, n) /\ \A e \in Device : e # o => down'[e] = down[e]
    BY <1>7, <2>1 DEF s
  <2> QED
    BY <1>9, <2>3, <2>4 DEF s
<1> QED
  BY <1>1, <1>2, <1>8, <1>10, ContentsFrom

LEMMA ReceiveCallContents ==
  ASSUME Inductive, Contents, NEW d \in Device, ReceiveCall(d)
  PROVE  Contents'
<1>0. Types
  BY DEF Inductive
<1>a. PICK m : m = Head(down[d])
  OBVIOUS
<1>1. /\ down[d] # << >> /\ m.tag \in Tag /\ down' = [down EXCEPT ![d] = Tail(@)]
      /\ jobQue' = [jobQue EXCEPT ![d] = Append(@, m)]
      /\ UNCHANGED <<jobID, returnValueTable, consumeTable, storing, sendQue, pc, call, serving,
                     jobIDMap, up, route>>
  BY <1>a DEF ReceiveCall, tables
<1>2. /\ m \in Range(down[d]) /\ \A e \in Device : Range(down'[e]) \subseteq Range(down[e])
  BY <1>0, <1>1, <1>a, RangeTail DEF Types
<1>3. m \in Passed /\ (m.tag = "call" => m.job \in Out)
  BY <1>1, <1>2, DownFacts
<1>4. Grows /\ Filled' /\ Stored' /\ \A e \in Device : RightServing(e)'
  <2>1. UNCHANGED <<jobID, returnValueTable, consumeTable, storing,
           sendQue, pc, call, serving, jobIDMap>>
    BY <1>1
  <2>2. \A r \in DOMAIN route : route'[r] = route[r]
    BY <1>1
  <2> QED
    BY <2>1, <2>2, NetworkContents
<1>5. RightCall(d, m)'
  <2>1. RightCall(d, m) /\ (m.tag = "call" => m \in Passed /\ m.job \in Out)
    BY <1>2, <1>3 DEF Contents, RightDown
  <2> QED
    BY <1>4, <2>1, CallStays
<1>6. \A e \in Device : \A x \in Range(jobQue'[e]) : x \in Range(jobQue[e]) \/ RightCall(e, x)'
  <2> DEFINE s == jobQue[d]
  <2>1. jobQue \in [Device -> Seq(Passed)]
    BY <1>0 DEF Types
  <2>2. s \in Seq(Passed)
    BY <2>1
  <2> HIDE DEF s
  <2>3. Range(Append(s, m)) = Range(s) \union {m}
    BY <1>3, <2>2, Members
  <2>4. jobQue'[d] = Append(s, m) /\ \A e \in Device : e # d => jobQue'[e] = jobQue[e]
    BY <1>1, <2>1 DEF s
  <2> QED
    BY <1>5, <2>3, <2>4 DEF s
<1> QED
  BY <1>1, <1>2, <1>4, <1>6, ContentsFrom

LEMMA ReceiveReturnContents ==
  ASSUME Inductive, Contents, NEW d \in Device, ReceiveReturn(d)
  PROVE  Contents'
<1>0. Types
  BY DEF Inductive
<1>a. PICK m : m = Head(down[d])
  OBVIOUS
<1>1. /\ down[d] # << >> /\ m.tag = "return" /\ down' = [down EXCEPT ![d] = Tail(@)]
      /\ storing' = [storing EXCEPT ![d] = m]
      /\ returnValueTable' = Insert(returnValueTable, d, m.job, m.value)
      /\ UNCHANGED <<jobID, consumeTable, sendQue, pc, call, serving, jobIDMap, up, jobQue, route>>
  BY <1>a DEF ReceiveReturn, network
<1>2. /\ m \in Range(down[d]) /\ \A e \in Device : Range(down'[e]) \subseteq Range(down[e])
  BY <1>0, <1>1, <1>a, RangeTail DEF Types
<1>3. m \in Answered /\ m.job \in Int /\ m.value \in Seq(ResultWord)
  BY <1>1, <1>2, DownFacts DEF Answered
<1>4. /\ DOMAIN returnValueTable'[d] = DOMAIN returnValueTable[d] \union {m.job}
      /\ returnValueTable'[d][m.job] = m.value
      /\ \A k \in DOMAIN returnValueTable[d] : k # m.job =>
           returnValueTable'[d][k] = returnValueTable[d][k]
      /\ \A e \in Device \ {d} : returnValueTable'[e] = returnValueTable[e]
  BY <1>0, <1>1, <1>3, Inserted DEF Types
<1>5. Grows /\ Filled' /\ \A e \in Device : RightServing(e)'
  <2>1. UNCHANGED <<jobID, sendQue, pc, call, serving, jobIDMap>>
    BY <1>1
  <2>2. \A r \in DOMAIN route : route'[r] = route[r]
    BY <1>1
  <2> QED
    BY <2>1, <2>2, NetworkGrows
<1>6. Stored'
  <2>1. ASSUME NEW e \in Device, NEW j \in DOMAIN returnValueTable'[e]
        PROVE  Gives(returnValueTable[e][j], e, j)'
    <3>1. CASE e = d /\ j = m.job
      <4>1. PICK value : value = m.value
        OBVIOUS
      <4>2. Gives(value, e, j)
        BY <1>1, <1>2, <3>1, <4>1 DEF Contents, RightDown
      <4>3. Gives(value, e, j)'
        BY <1>3, <1>5, <3>1, <4>2, GivesGrows
      <4> QED
        BY <1>4, <3>1, <4>1, <4>3
    <3>2. CASE ~ (e = d /\ j = m.job)
      <4>1. j \in DOMAIN returnValueTable[e] /\ returnValueTable'[e][j] = returnValueTable[e][j]
        BY <1>4, <2>1, <3>2
      <4>2. PICK value : value = returnValueTable[e][j]
        OBVIOUS
      <4>3. Gives(value, e, j)'
        BY <1>5, <4>1, <4>2, ReturnsStay DEF Contents
      <4> QED
        BY <4>1, <4>2, <4>3
    <3> QED
      BY <3>1, <3>2
  <2>2. \A e \in Device : DOMAIN returnValueTable[e] \subseteq DOMAIN returnValueTable'[e]
    BY <1>4
  <2>3. ASSUME NEW e \in Device, storing'[e] # None
        PROVE  storing'[e].job \in DOMAIN returnValueTable'[e]
    <3>1. storing'[d] = m /\ (e # d => storing'[e] = storing[e])
      BY <1>0, <1>1 DEF Types
    <3> QED
      BY <1>4, <2>2, <2>3, <3>1 DEF Contents, Stored
  <2>4. ASSUME NEW u \in Thread, Caller(u)', NEW j, j = call'[u].job,
               j \in DOMAIN consumeTable'[u[1]], consumeTable'[u[1]][j]
        PROVE  j \in DOMAIN returnValueTable'[u[1]]
    <3>1. Caller(u) /\ call[u].job = j /\ u[1] \in Device
      BY <1>1, <2>4 DEF Caller, Thread
    <3> QED
      BY <1>1, <2>2, <2>4, <3>1 DEF Contents, Stored
  <2> QED
    BY <2>1, <2>3, <2>4 DEF Stored
<1> QED
  BY <1>1, <1>2, <1>5, <1>6, ContentsFrom

LEMMA AnnounceReturnContents ==
  ASSUME Inductive, Contents, NEW d \in Device, AnnounceReturn(d)
  PROVE  Contents'
<1>0. Types
  BY DEF Inductive
<1>a. PICK job : job = storing[d].job
  OBVIOUS
<1>1. /\ storing[d] # None /\ storing' = [storing EXCEPT ![d] = None]
      /\ consumeTable' = Insert(consumeTable, d, job, TRUE)
      /\ UNCHANGED <<jobID, returnValueTable, sendQue, pc, call, serving, jobIDMap, up, down,
                     jobQue, route>>
  BY <1>a DEF AnnounceReturn, network
<1>2. job \in Int /\ job \in DOMAIN returnValueTable[d]
  BY <1>0, <1>1, <1>a DEF Types, Answered, Contents, Stored
<1>3. /\ \A k \in DOMAIN consumeTable'[d] : k = job \/ /\ k \in DOMAIN consumeTable[d]
                                                       /\ consumeTable'[d][k] = consumeTable[d][k]
      /\ \A e \in Device \ {d} : consumeTable'[e] = consumeTable[e]
  <2> DEFINE yes == TRUE
  <2>1. consumeTable' = Insert(consumeTable, d, job, yes) /\ yes \in BOOLEAN
        /\ IsTable(consumeTable, BOOLEAN) /\ job \in Int
    BY <1>0, <1>1, <1>2 DEF Types
  <2> HIDE DEF yes
  <2>2. /\ \A k \in DOMAIN consumeTable[d] : k # job => consumeTable'[d][k] = consumeTable[d][k]
        /\ DOMAIN consumeTable'[d] = DOMAIN consumeTable[d] \union {job}
        /\ \A e \in Device \ {d} : consumeTable'[e] = consumeTable[e]
    BY <2>1, Inserted
  <2> QED
    BY <2>2
<1>4. Grows /\ Filled' /\ \A e \in Device : RightServing(e)'
  <2>1. UNCHANGED <<jobID, sendQue, pc, call, serving, jobIDMap>>
    BY <1>1
  <2>2. \A r \in DOMAIN route : route'[r] = route[r]
    BY <1>1
  <2> QED
    BY <2>1, <2>2, NetworkGrows
<1>5. Stored'
  <2>1. ASSUME NEW e \in Device, NEW j \in DOMAIN returnValueTable'[e]
        PROVE  Gives(returnValueTable[e][j], e, j)'
    <3>1. j \in DOMAIN returnValueTable[e] /\ returnValueTable'[e][j] = returnValueTable[e][j]
      BY <1>1, <2>1
    <3>2. PICK value : value = returnValueTable[e][j]
      OBVIOUS
    <3>3. Gives(value, e, j)'
      BY <1>4, <3>1, <3>2, ReturnsStay DEF Contents
    <3> QED
      BY <3>1, <3>2, <3>3
  <2>2. ASSUME NEW e \in Device, storing'[e] # None
        PROVE  storing'[e].job \in DOMAIN returnValueTable'[e]
    <3>1. storing'[d] = None /\ (e # d => storing'[e] = storing[e])
      BY <1>0, <1>1 DEF Types
    <3> QED
      BY <1>1, <2>2, <3>1 DEF Contents, Stored
  <2>3. ASSUME NEW u \in Thread, Caller(u)', NEW j, j = call'[u].job,
               j \in DOMAIN consumeTable'[u[1]], consumeTable'[u[1]][j]
        PROVE  j \in DOMAIN returnValueTable'[u[1]]
    <3>1. Caller(u) /\ call[u].job = j /\ u[1] \in Device
      BY <1>1, <2>3 DEF Caller, Thread
    <3>2. CASE u[1] = d /\ j = job
      BY <1>1, <1>2, <3>2
    <3>3. CASE ~ (u[1] = d /\ j = job)
      <4>1. j \in DOMAIN consumeTable[u[1]] /\ consumeTable[u[1]][j]
        BY <1>3, <2>3, <3>1, <3>3
      <4> QED
        BY <1>1, <3>1, <4>1 DEF Contents, Stored
    <3> QED
      BY <3>2, <3>3
  <2> QED
    BY <2>1, <2>2, <2>3 DEF Stored
<1> QED
  BY <1>1, <1>4, <1>5, ContentsFrom

LEMMA HandlerContents ==
  ASSUME Inductive, Contents, NEW d \in Device, NEW there, there \notin Filling,
         pc[<<d, "handler">>] \in {"idle", "consumeFunctionArgs", "run"},
         pc' = [pc EXCEPT ![<<d, "handler">>] = there],
         jobID' \in [Device -> Nat], \A e \in Device : jobID'[e] >= jobID[e],
         UNCHANGED <<call, sendQue, returnValueTable, consumeTable, storing, route>>
  PROVE  Grows /\ Filled' /\ Stored'
<1> DEFINE h == <<d, "handler">>
<1>1. /\ h \in Thread /\ Turn(h, there) /\ pc[h] \notin Calling /\ pc[h] \notin Filling
      /\ \A u \in Thread : u # h => pc'[u] = pc[u]
  BY DEF Thread, Turn, Calling, Before, Since, Filling, Inductive, Types
<1>2. Grows
  <2>1. \A u \in Thread : Caller(u) => pc'[u] = pc[u]
    BY <1>1 DEF Inductive, Phases, Caller
  <2> QED
    BY <2>1, StillGrows
<1>3. Filled'
  <2> HIDE DEF h
  <2> QED
    BY <1>1, FilledKept DEF Contents
<1>4. Stored'
  <2>1. \A u \in Thread : Caller(u)' => Caller(u) /\ call'[u].job = call[u].job
    BY DEF Caller
  <2> QED
    BY <1>2, <2>1, StoredKept DEF Contents
<1> QED
  BY <1>2, <1>3, <1>4

LEMMA RemoteCallCallbackContents ==
  ASSUME Inductive, Contents, NEW d \in Device, RemoteCallCallback(d)
  PROVE  Contents'
<1>0. Types
  BY DEF Inductive
<1>a. PICK m, local : m = Head(jobQue[d]) /\ local = IF m.tag = "call" THEN jobID[d] ELSE Async
  OBVIOUS
<1>1. /\ jobQue[d] # << >> /\ jobQue' = [jobQue EXCEPT ![d] = Tail(@)]
      /\ pc[<<d, "handler">>] = "idle"
      /\ pc' = [pc EXCEPT ![<<d, "handler">>] = "consumeFunctionArgs"]
      /\ jobID' = [jobID EXCEPT ![d] = IF m.tag = "call" THEN @ + 1 ELSE @]
      /\ jobIDMap' = Insert(jobIDMap, d, local, m.job)
      /\ serving' = [serving EXCEPT ![d] = [job |-> local, fn |-> m.fn, args |-> None]]
      /\ UNCHANGED <<consumeTable, returnValueTable, sendQue, up, down, route, call, storing>>
  BY <1>a DEF RemoteCallCallback, Goto
<1>2. /\ m \in Range(jobQue[d]) /\ \A e \in Device : Range(jobQue'[e]) \subseteq Range(jobQue[e])
  BY <1>0, <1>1, <1>a, RangeTail DEF Types
<1>3. /\ m \in Passed /\ (m.tag = "call" => m.job \in Out) /\ m.job \in Int
      /\ jobID[d] \in Nat /\ local \in Int
  BY <1>0, <1>2, <1>a, QueFacts DEF Passed, Types, Async
<1>4. Grows /\ Filled' /\ Stored'
  <2>1. jobID' \in [Device -> Nat] /\ \A e \in Device : jobID'[e] >= jobID[e]
    <3>1. jobID \in [Device -> Nat] /\ \A e \in Device : jobID[e] \in Nat
      BY <1>0 DEF Types
    <3> QED
      BY <1>1, <3>1
  <2>2. "consumeFunctionArgs" \notin Filling
    BY DEF Filling
  <2>3. pc[<<d, "handler">>] \in {"idle", "consumeFunctionArgs", "run"}
    BY <1>1
  <2> QED
    BY <1>1, <2>1, <2>2, <2>3, HandlerContents
<1>5. /\ jobIDMap'[d][local] = m.job /\ \A e \in Device \ {d} : jobIDMap'[e] = jobIDMap[e]
  <2>1. IsTable(jobIDMap, Int)
    BY <1>0 DEF Types
  <2> QED
    BY <1>1, <1>3, <2>1, Inserted
<1>6. ASSUME NEW e \in Device PROVE RightServing(e)'
  <2>1. CASE e = d
    <3>1. serving'[d].job = local /\ serving'[d].fn = m.fn
      BY <1>0, <1>1 DEF Types
    <3>2. ASSUME local # Async
          PROVE  m.fn.on = d /\ Wants(route[m.job][1], route[m.job][2], m.fn)'
      <4>1. m.tag = "call"
        BY <1>a, <3>2
      <4>2. RightCall(d, m) /\ (m.tag = "call" => m \in Passed /\ m.job \in Out)
        BY <1>2, <1>3 DEF Contents
      <4>3. RightCall(d, m)'
        BY <1>4, <4>2, CallStays
      <4> QED
        BY <4>1, <4>3 DEF RightCall
    <3>3. jobIDMap'[d][serving'[d].job] = m.job
      BY <1>5, <3>1
    <3> QED
      BY <2>1, <3>1, <3>2, <3>3 DEF RightServing
  <2>2. CASE e # d
    <3>1. serving'[e] = serving[e] /\ jobIDMap'[e] = jobIDMap[e]
      BY <1>0, <1>1, <1>5, <2>2 DEF Types
    <3>2. RightServing(e)
      BY DEF Contents
    <3> QED
      BY <1>4, <3>1, <3>2, ServingStays
  <2> QED
    BY <2>1, <2>2
<1> QED
  BY <1>1, <1>2, <1>4, <1>6, ContentsFrom

LEMMA ConsumeFunctionArgsContents ==
  ASSUME Inductive, Contents, NEW d \in Device, ConsumeFunctionArgs(d)
  PROVE  Contents'
<1>0. Types /\ Inductive'
  BY ConsumeFunctionArgsInductive DEF Inductive
<1>1. PICK args : serving' = [serving EXCEPT ![d].args = args]
  BY DEF ConsumeFunctionArgs
<1>2. /\ pc[<<d, "handler">>] = "consumeFunctionArgs"
      /\ pc' = [pc EXCEPT ![<<d, "handler">>] = "run"]
      /\ UNCHANGED <<jobID, consumeTable, returnValueTable, jobIDMap, sendQue, up, down, jobQue,
                     route, call, storing>>
  BY DEF ConsumeFunctionArgs, Goto, network
<1>3. Grows /\ Filled' /\ Stored'
  <2>1. jobID' \in [Device -> Nat] /\ \A e \in Device : jobID'[e] >= jobID[e]
    <3>1. jobID \in [Device -> Nat] /\ \A e \in Device : jobID[e] \in Nat
      BY <1>0 DEF Types
    <3> QED
      BY <1>2, <3>1
  <2>2. "run" \notin Filling
    BY DEF Filling
  <2>3. pc[<<d, "handler">>] \in {"idle", "consumeFunctionArgs", "run"}
    BY <1>2
  <2> QED
    BY <1>2, <2>1, <2>2, <2>3, HandlerContents
<1>4. serving[d] # None /\ serving'[d] # None
  <2>1. <<d, "handler">> \in Thread
    BY DEF Thread
  <2>2. pc[<<d, "handler">>] # "idle" /\ pc'[<<d, "handler">>] # "idle"
    BY <1>0, <1>2, <2>1 DEF Types
  <2> QED
    BY <1>0, <2>2 DEF Inductive, Phases
<1>5. ASSUME NEW e \in Device PROVE RightServing(e)'
  <2>1. /\ serving'[e] = None <=> serving[e] = None
        /\ serving'[e].job = serving[e].job /\ serving'[e].fn = serving[e].fn
    <3>1. serving[d] \in Executing
      BY <1>4, ServingFacts
    <3>2. /\ serving'[d].job = serving[d].job /\ serving'[d].fn = serving[d].fn
          /\ e # d => serving'[e] = serving[e]
      BY <1>0, <1>1, <3>1 DEF Types, Executing
    <3> QED
      BY <1>4, <3>2
  <2>2. jobIDMap'[e] = jobIDMap[e] /\ RightServing(e)
    BY <1>2 DEF Contents
  <2> QED
    BY <1>3, <2>1, <2>2, ServingStays
<1> QED
  BY <1>2, <1>3, <1>5, ContentsFrom

LEMMA ProduceReturnContents ==
  ASSUME Inductive, Sending, Contents, NEW d \in Device, ProduceReturn(d)
  PROVE  Contents'
<1>0. Types
  BY DEF Inductive
<1>a. PICK local, source, fn : local = serving[d].job /\ source = At(jobIDMap, d, local)
                               /\ fn = serving[d].fn
  OBVIOUS
<1>b. PICK m : m = [tag |-> "return", job |-> source, value |-> Returned(d, fn, route[source])]
  OBVIOUS
<1>1. /\ pc[<<d, "handler">>] = "run" /\ local # Async
      /\ pc' = [pc EXCEPT ![<<d, "handler">>] = "idle"]
      /\ up' = [up EXCEPT ![d] = Append(@, m)]
      /\ jobIDMap' = Erase(jobIDMap, d, local)
      /\ serving' = [serving EXCEPT ![d] = None]
      /\ UNCHANGED <<jobID, consumeTable, returnValueTable, sendQue, down, jobQue, route, call,
                     storing>>
  <2>1. /\ pc[<<d, "handler">>] = "run" /\ line[<<d, "handler">>] = "message"
        /\ <<d, "handler">> \in Thread
    BY DEF ProduceReturn, Goto, Move, Thread
  <2>2. local # Async
    BY <1>a, <2>1 DEF Sending, Replying
  <2> QED
    BY <1>a, <1>b, <2>2 DEF ProduceReturn, Goto
<1>2. /\ serving[d] # None /\ fn \in Function /\ source = jobIDMap[d][local] /\ source \in Out
  <2>1. serving[d] # None
    BY <1>1 DEF Inductive, Phases
  <2> QED
    BY <1>1, <1>a, <2>1, ServingFacts DEF At
<1>3. PICK o \in Device, j \in Int : /\ route[source] = <<o, j>>
                                     /\ route[source][1] = o /\ route[source][2] = j
  BY <1>2, Routed
<1>4. Grows /\ Filled' /\ Stored'
  <2>1. jobID' \in [Device -> Nat] /\ \A e \in Device : jobID'[e] >= jobID[e]
    <3>1. jobID \in [Device -> Nat] /\ \A e \in Device : jobID[e] \in Nat
      BY <1>0 DEF Types
    <3> QED
      BY <1>1, <3>1
  <2>2. "idle" \notin Filling
    BY DEF Filling
  <2>3. pc[<<d, "handler">>] \in {"idle", "consumeFunctionArgs", "run"}
    BY <1>1
  <2> QED
    BY <1>1, <2>1, <2>2, <2>3, HandlerContents
<1>5. RightUp(d, m)'
  <2>1. fn.on = d /\ Wants(o, j, fn)
    BY <1>1, <1>2, <1>3, <1>a DEF Contents, RightServing
  <2>2. Gives(m.value, o, j)
    <3>1. m.value = Returned(fn.on, fn, <<o, j>>)
      BY <1>3, <1>b, <2>1
    <3> QED
      BY <1>2, <2>1, <3>1 DEF Gives
  <2>3. Gives(m.value, o, j)'
    BY <1>4, <2>2, GivesGrows
  <2>4. m.tag = "return" /\ m.job = source /\ m.tag \notin Tag
    BY <1>b DEF Tag
  <2>5. route'[source][1] = o /\ route'[source][2] = j
    BY <1>1, <1>3
  <2> QED
    BY <2>3, <2>4, <2>5 DEF RightUp
<1>6. ASSUME NEW e \in Device PROVE RightServing(e)'
  <2>1. CASE e = d
    BY <1>0, <1>1, <2>1 DEF Types, RightServing
  <2>2. CASE e # d
    <3>1. serving'[e] = serving[e] /\ jobIDMap'[e] = jobIDMap[e]
      <4>1. IsTable(jobIDMap, Int)
        BY <1>0 DEF Types
      <4>2. jobIDMap'[e] = jobIDMap[e]
        BY <1>1, <2>2, <4>1, Erased
      <4> QED
        BY <1>0, <1>1, <2>2, <4>2 DEF Types
    <3>2. RightServing(e)
      BY DEF Contents
    <3> QED
      BY <1>4, <3>1, <3>2, ServingStays
  <2> QED
    BY <2>1, <2>2
<1>7. \A e \in Device : \A x \in Range(up'[e]) : x \in Range(up[e]) \/ RightUp(e, x)'
  <2> DEFINE S == Asked \union Answered
             s == up[d]
  <2>1. up \in [Device -> Seq(S)]
    BY <1>0 DEF Types
  <2>2. s \in Seq(S) /\ m \in S
    <3>1. Returned(d, fn, route[source]) \in Seq(ResultWord)
      BY <1>2, <1>3, ReturnedType
    <3>2. source \in Int
      <4>1. route \in Seq(Device \X Int) /\ source \in DOMAIN route
        BY <1>0, <1>2, Routed DEF Types
      <4> QED
        BY <4>1
    <3> QED
      BY <1>b, <2>1, <3>1, <3>2 DEF Answered
  <2> HIDE DEF S, s
  <2>3. Range(Append(s, m)) = Range(s) \union {m}
    BY <2>2, Members
  <2>4. up'[d] = Append(s, m) /\ \A e \in Device : e # d => up'[e] = up[e]
    BY <1>1, <2>1 DEF s
  <2> QED
    BY <1>5, <2>3, <2>4 DEF s
<1> QED
  BY <1>1, <1>4, <1>6, <1>7, ContentsFrom

LEMMA AsyncReturnContents ==
  ASSUME Inductive, Contents, NEW d \in Device, AsyncReturn(d)
  PROVE  Contents'
<1>0. Types
  BY DEF Inductive
<1>1. /\ pc[<<d, "handler">>] = "run" /\ pc' = [pc EXCEPT ![<<d, "handler">>] = "idle"]
      /\ serving' = [serving EXCEPT ![d] = None]
      /\ UNCHANGED <<jobID, consumeTable, returnValueTable, jobIDMap, sendQue, up, down, jobQue,
                     route, call, storing>>
  BY DEF AsyncReturn, Goto, tables, network
<1>2. Grows /\ Filled' /\ Stored'
  <2>1. jobID' \in [Device -> Nat] /\ \A e \in Device : jobID'[e] >= jobID[e]
    <3>1. jobID \in [Device -> Nat] /\ \A e \in Device : jobID[e] \in Nat
      BY <1>0 DEF Types
    <3> QED
      BY <1>1, <3>1
  <2>2. "idle" \notin Filling
    BY DEF Filling
  <2>3. pc[<<d, "handler">>] \in {"idle", "consumeFunctionArgs", "run"}
    BY <1>1
  <2> QED
    BY <1>1, <2>1, <2>2, <2>3, HandlerContents
<1>3. ASSUME NEW e \in Device PROVE RightServing(e)'
  <2>1. CASE e = d
    BY <1>0, <1>1, <2>1 DEF Types, RightServing
  <2>2. CASE e # d
    <3>1. serving'[e] = serving[e] /\ jobIDMap'[e] = jobIDMap[e]
      BY <1>0, <1>1, <2>2 DEF Types
    <3>2. RightServing(e)
      BY DEF Contents
    <3> QED
      BY <1>2, <3>1, <3>2, ServingStays
  <2> QED
    BY <2>1, <2>2
<1> QED
  BY <1>1, <1>2, <1>3, ContentsFrom

LEMMA StillContents == ASSUME Inductive, Contents, Still PROVE Contents'
<1>1. UNCHANGED <<jobID, returnValueTable, consumeTable, storing, sendQue, pc, call, serving,
                  jobIDMap, up, down, jobQue, route>>
  BY DEF Still, tables, network
<1>2. Grows /\ Filled' /\ Stored' /\ \A d \in Device : RightServing(d)'
  <2>1. UNCHANGED <<jobID, returnValueTable, consumeTable, storing,
           sendQue, pc, call, serving, jobIDMap>>
    BY <1>1
  <2>2. \A r \in DOMAIN route : route'[r] = route[r]
    BY <1>1
  <2> QED
    BY <2>1, <2>2, NetworkContents
<1> QED
  BY <1>1, <1>2, ContentsFrom

LEMMA InitContents == Init => Contents
<1> SUFFICES ASSUME Init PROVE Contents
  OBVIOUS
<1>1. \A t \in Thread : call[t] = None /\ pc[t] \notin Filling
  BY DEF Init, Filling
<1>2. Filled
  BY <1>1 DEF Filled, Filling, Init
<1>3. Stored
  BY <1>1 DEF Stored, Init, Caller
<1>4. \A d \in Device : RightServing(d)
  BY DEF RightServing, Init
<1>5. Range(<< >>) = {}
  BY DEF Range
<1> QED
  BY <1>2, <1>3, <1>4, <1>5 DEF Contents, Init

LEMMA ContentsStep ==
  ASSUME Inductive, Sending, Contents, Alone, Alone', [Next]_vars
  PROVE  Contents'
<1>1. ASSUME NEW t \in Thread, NEW site \in Site, NEW fn \in Function,
             GenerateJobId(t, fn, site) \/ AsyncCall(t, fn, site)
      PROVE  Contents'
  BY <1>1, BeginContents
<1>2. ASSUME NEW t \in Thread, Call(t) PROVE Contents'
  BY <1>2, PushArgumentContents, InsertConsumeWaitContents, PushContents, SendQueContents,
     ConsumeReturnContents, StillSteps, StillContents DEF Call
<1>3. ASSUME NEW d \in Device, Gateway(d) PROVE Contents'
  BY <1>3, ForwardCallContents, ForwardReturnContents DEF Gateway
<1>4. ASSUME NEW d \in Device, Receiver(d) PROVE Contents'
  BY <1>4, ReceiveCallContents, ReceiveReturnContents, AnnounceReturnContents DEF Receiver
<1>5. ASSUME NEW d \in Device, Handler(d) PROVE Contents'
  BY <1>5, RemoteCallCallbackContents, ConsumeFunctionArgsContents, ProduceReturnContents DEF Handler
<1>6. ASSUME NEW d \in Device, Ends(d) PROVE Contents'
  BY <1>6, AsyncReturnContents, StillSteps, StillContents DEF Ends
<1> QED
  BY <1>1, <1>2, <1>3, <1>4, <1>5, <1>6, StillSteps, StillContents DEF Next, Step

-----------------------------------------------------------------------------
(* What a thread got.                                                      *)
(* A result is not shorter where it was computed than where it is loaded.  *)
Fits ==
  \A d \in Device : \A fn \in Function :
    AllocSize(d, Result[fn]) <= AllocSize(fn.on, Result[fn])

Right ==
  /\ DOMAIN got = Thread
  /\ \A t \in Thread : got[t] # None =>
       got[t].value = Returned(t[1], got[t].fn, got[t].call)

LEMMA LoadedWhole ==
  ASSUME NEW d \in Device, NEW o \in Device, NEW fn \in Function, NEW which,
         AllocSize(d, Result[fn]) <= AllocSize(o, Result[fn])
  PROVE  Loaded(Returned(o, fn, which), 0, AllocSize(d, Result[fn])) = Returned(d, fn, which)
<1> DEFINE n == AllocSize(d, Result[fn])
           s == AllocSize(o, Result[fn])
<1>1. n \in Nat /\ s \in Nat /\ n <= s
  BY FunctionAssumption, Sizes
<1> HIDE DEF n, s
<1>2. \A k \in 1 .. n : 0 + k \in 1 .. s /\ 0 + k = k
  BY <1>1
<1>3. Returned(o, fn, which) = [k \in 1 .. s |-> Word("result", <<which, k>>)]
  BY DEF Returned, s
<1>4. Returned(d, fn, which) = [k \in 1 .. n |-> Word("result", <<which, k>>)]
  BY DEF Returned, n
<1>5. Loaded(Returned(o, fn, which), 0, n)
        = [k \in 1 .. n |-> Word("result", <<which, k>>)]
  BY <1>2, <1>3 DEF Loaded
<1> QED
  BY <1>4, <1>5 DEF n

LEMMA ConsumeReturnRight ==
  ASSUME Fits, Inductive, Contents, Right, NEW t \in Thread, ConsumeReturn(t)
  PROVE  Right'
<1>0. Types
  BY DEF Inductive
<1>a. PICK d, job, fn, stored :
        /\ d = t[1] /\ job = call[t].job /\ fn = call[t].fn
        /\ stored = At(returnValueTable, d, job)
  OBVIOUS
<1>1. /\ pc[t] = "consumeReturn" /\ At(consumeTable, d, job) = TRUE
      /\ got' = [got EXCEPT ![t] =
           [call |-> <<d, job>>, fn |-> fn,
            value |-> IF stored = None THEN None
                      ELSE Loaded(stored, 0, AllocSize(d, Result[fn]))]]
  BY <1>a DEF ConsumeReturn, Goto
<1>2. d \in Device /\ Caller(t) /\ job \in DOMAIN consumeTable[d] /\ job \in Int
  <2>1. call[t] # None /\ pc[t] \notin Before
    BY <1>1 DEF Inductive, Phases, Calling, Since, Before
  <2>2. call[t].tag \in Tag /\ call[t].tag # "async" /\ call[t].job \in Int
    BY <1>0, <1>1, <2>1 DEF Inductive, Phases, Types, Making
  <2>3. Caller(t)
    BY <2>1, <2>2 DEF Caller, Tag
  <2> QED
    BY <1>a, <2>1, <2>2, <2>3 DEF Inductive, Tables, Thread
<1>3. job \in DOMAIN returnValueTable[d] /\ stored = returnValueTable[d][job]
  <2>1. consumeTable[d][job]
    BY <1>1, <1>2 DEF At
  <2>2. job \in DOMAIN returnValueTable[d]
    BY <1>2, <1>a, <2>1 DEF Contents, Stored
  <2> QED
    BY <1>a, <2>2 DEF At
<1>4. stored # None
  <2>1. stored \in Seq(ResultWord)
    BY <1>0, <1>2, <1>3 DEF Types, IsTable
  <2> QED
    BY <2>1, NoneAssumption
<1>5. fn \in Function /\ stored = Returned(fn.on, fn, <<d, job>>)
  <2>1. Gives(stored, d, job)
    BY <1>2, <1>3 DEF Contents, Stored
  <2>2. PICK f \in Function : stored = Returned(f.on, f, <<d, job>>) /\ Wants(d, job, f)
    BY <2>1 DEF Gives
  <2>3. f = fn
    BY <1>2, <1>a, <2>2 DEF Wants
  <2> QED
    BY <2>2, <2>3
<1>6. got'[t].call = <<d, job>> /\ got'[t].fn = fn
      /\ got'[t].value = Returned(d, fn, <<d, job>>)
  <2>1. Loaded(stored, 0, AllocSize(d, Result[fn])) = Returned(d, fn, <<d, job>>)
    <3>1. AllocSize(d, Result[fn]) <= AllocSize(fn.on, Result[fn]) /\ fn.on \in Device
      BY <1>2, <1>5, FunctionAssumption DEF Fits
    <3> DEFINE which == <<d, job>>
    <3> HIDE DEF which
    <3>2. Loaded(Returned(fn.on, fn, which), 0, AllocSize(d, Result[fn])) = Returned(d, fn, which)
      BY <1>2, <1>5, <3>1, LoadedWhole
    <3> QED
      BY <1>5, <3>2 DEF which
  <2> QED
    BY <1>1, <1>4, <2>1 DEF Right
<1>7. DOMAIN got' = Thread /\ \A u \in Thread \ {t} : got'[u] = got[u]
  BY <1>1 DEF Right
<1>8. ASSUME NEW u \in Thread, got'[u] # None
      PROVE  got'[u].value = Returned(u[1], got'[u].fn, got'[u].call)
  <2>1. CASE u = t
    BY <1>6, <1>a, <2>1
  <2>2. CASE u # t
    BY <1>7, <1>8, <2>2 DEF Right
  <2> QED
    BY <2>1, <2>2
<1> QED
  BY <1>7, <1>8 DEF Right, Returned, AllocSize

LEMMA RightStep ==
  ASSUME Fits, Inductive, Contents, Right, [Next]_vars
  PROVE  Right'
<1>1. ASSUME NEW t \in Thread, ConsumeReturn(t) PROVE Right'
  BY <1>1, ConsumeReturnRight
<1>2. ASSUME UNCHANGED got PROVE Right'
  BY <1>2 DEF Right, Returned, AllocSize
<1>3. ASSUME NEW t \in Thread, NEW site \in Site, NEW fn \in Function,
             GenerateJobId(t, fn, site) \/ AsyncCall(t, fn, site)
      PROVE  UNCHANGED got
  BY <1>3 DEF GenerateJobId, AsyncCall
<1>4. ASSUME NEW t \in Thread, Call(t) \/ AskHome(t) \/ Home(t)
      PROVE  ConsumeReturn(t) \/ UNCHANGED got
  BY <1>4, StillSteps DEF Call, PushArgument, GetArgsOfRC, InsertConsumeWait, PushJob,
     PushFunction, PushArgs, Push, SendQue, Still
<1>5. ASSUME NEW d \in Device, Gateway(d) \/ Receiver(d) \/ Handler(d) \/ Ends(d)
      PROVE  UNCHANGED got
  BY <1>5, StillSteps DEF Gateway, ForwardCall, ForwardReturn, Receiver, ReceiveCall,
     ReceiveReturn, AnnounceReturn, Handler, RemoteCallCallback, ConsumeFunctionArgs,
     ProduceReturn, Ends, AsyncReturn, Still
<1>6. UNCHANGED vars => UNCHANGED got
  BY DEF vars
<1> QED
  BY <1>1, <1>2, <1>3, <1>4, <1>5, <1>6 DEF Next, Step

(* Programs of which only one thread of a device calls: what a device with *)
(* a program of its own executes for others calls nobody.                  *)
OneCaller == \A f, g \in Function : f.on \in Main => g.depth # f.depth + 1

Quiet ==
  /\ \A d \in Device :
       /\ \A m \in Range(down[d]) : m.tag \in Tag => m.fn.on = d
       /\ \A m \in Range(jobQue[d]) : m.fn.on = d
       /\ serving[d] # None => serving[d].fn.on = d
       /\ d \in Main => pc[<<d, "handler">>] \notin Calling
       /\ d \notin Main => pc[<<d, "main">>] = "none"

LEMMA QuietAlone == ASSUME Inductive, Quiet PROVE Alone
<1>1. ASSUME NEW t \in Thread, NEW u \in Thread, t[1] = u[1], pc[t] \in Filling, pc[u] \in Filling
      PROVE  t = u
  <2>1. PICK d \in Device : t[1] = d /\ u[1] = d
    BY <1>1 DEF Thread
  <2>2. t \in {<<d, "main">>, <<d, "handler">>} /\ u \in {<<d, "main">>, <<d, "handler">>}
    BY <2>1 DEF Thread
  <2>3. Filling \subseteq Calling /\ "none" \notin Filling
    BY DEF Filling, Calling, Since
  <2>4. CASE d \in Main
    BY <1>1, <2>2, <2>3, <2>4 DEF Quiet
  <2>5. CASE d \notin Main
    BY <1>1, <2>2, <2>3, <2>5 DEF Quiet
  <2> QED
    BY <2>4, <2>5
<1> QED
  BY <1>1 DEF Alone

(* A step of a thread that is not quiet, or of a handler to its own code.  *)
LEMMA QuietTurn ==
  ASSUME Inductive, Quiet, UNCHANGED <<down, jobQue, serving>>, NEW t \in Thread, NEW there,
         pc' = [pc EXCEPT ![t] = there],
         pc[t] \in Calling \union {"run"},
         t[2] = "handler" /\ t[1] \in Main => there \notin Calling
  PROVE  Quiet'
<1>1. ASSUME NEW d \in Device
      PROVE  /\ d \in Main => pc'[<<d, "handler">>] \notin Calling
             /\ d \notin Main => pc'[<<d, "main">>] = "none"
  <2>1. <<d, "handler">> \in Thread /\ <<d, "main">> \in Thread
    BY DEF Thread
  <2>2. pc'[t] = there /\ \A u \in Thread : u # t => pc'[u] = pc[u]
    BY DEF Inductive, Types
  <2>3. pc[t] # "none"
    BY DEF Calling, Before, Since
  <2> QED
    BY <2>1, <2>2, <2>3 DEF Quiet
<1> QED
  BY <1>1 DEF Quiet

LEMMA QuietFrom ==
  ASSUME Quiet,
         \A e \in Device : \A m \in Range(down'[e]) :
           m \in Range(down[e]) \/ (m.tag \in Tag => m.fn.on = e),
         \A e \in Device : \A m \in Range(jobQue'[e]) : m \in Range(jobQue[e]) \/ m.fn.on = e,
         \A e \in Device : serving'[e] # None => serving'[e].fn.on = e,
         \A e \in Device :
           /\ pc'[<<e, "handler">>] \in Calling => pc[<<e, "handler">>] \in Calling
           /\ pc'[<<e, "main">>] = pc[<<e, "main">>]
  PROVE  Quiet'
BY DEF Quiet

LEMMA QuietGateway ==
  ASSUME Inductive, Quiet, NEW d \in Device, Gateway(d)
  PROVE  Quiet'
<1>0. Types
  BY DEF Inductive
<1>a. PICK m : m = Head(up[d])
  OBVIOUS
<1>1. /\ up[d] # << >> /\ UNCHANGED <<jobQue, serving, pc>>
  BY DEF Gateway, ForwardCall, ForwardReturn
<1>2. m \in Range(up[d])
  <2>1. up \in [Device -> Seq(Asked \union Answered)] /\ up[d] # << >>
    BY <1>0, <1>1 DEF Types
  <2> DEFINE s == up[d]
  <2>2. s \in Seq(Asked \union Answered) /\ s # << >> /\ Head(s) \in Asked \union Answered
    BY <2>1
  <2> HIDE DEF s
  <2>3. Head(s) \in Range(s)
    BY <2>2, Members
  <2> QED
    BY <1>a, <2>3 DEF s
<1>3. PICK o, n : /\ down' = [down EXCEPT ![o] = Append(@, n)]
                  /\ n.tag \in Tag => n.fn.on = o
  <2>1. CASE ForwardCall(d)
    <3> DEFINE o == m.words[2].value.on
               n == [tag |-> m.tag, job |-> Len(route) + 1, fn |-> m.words[2].value,
                     args |-> SubSeq(m.words, 3, Len(m.words))]
    <3>1. down' = [down EXCEPT ![o] = Append(@, n)] /\ n.fn.on = o
      BY <1>a, <2>1 DEF ForwardCall
    <3> HIDE DEF o, n
    <3> QED
      BY <3>1
  <2>2. CASE ForwardReturn(d)
    <3> DEFINE o == route[m.job][1]
               n == [m EXCEPT !.job = route[m.job][2]]
    <3>1. m.tag = "return" /\ m \in Answered
      BY <1>2, <1>a, <2>2, UpFacts DEF ForwardReturn
    <3>2. down' = [down EXCEPT ![o] = Append(@, n)] /\ n.tag \notin Tag
      BY <1>a, <2>2, <3>1 DEF ForwardReturn, Answered, Tag
    <3> HIDE DEF o, n
    <3> QED
      BY <3>2
  <2> QED
    BY <2>1, <2>2 DEF Gateway
<1>4. ASSUME NEW e \in Device, NEW x \in Range(down'[e])
      PROVE  x \in Range(down[e]) \/ (x.tag \in Tag => x.fn.on = e)
  <2>1. down \in [Device -> Seq(Passed \union Answered)]
    BY <1>0 DEF Types
  <2>2. CASE e = o
    <3> DEFINE S == Passed \union Answered \union {n}
               s == down[e]
    <3>1. s \in Seq(S) /\ n \in S
      BY <2>1
    <3> HIDE DEF S, s
    <3>2. Range(Append(s, n)) = Range(s) \union {n}
      BY <3>1, Members
    <3>3. down'[e] = Append(s, n)
      BY <1>3, <2>1, <2>2 DEF s
    <3> QED
      BY <1>3, <1>4, <2>2, <3>2, <3>3 DEF s
  <2>3. CASE e # o
    BY <1>3, <1>4, <2>1, <2>3
  <2> QED
    BY <2>2, <2>3
<1>5. /\ \A e \in Device : \A x \in Range(jobQue'[e]) : x \in Range(jobQue[e])
      /\ \A e \in Device : serving'[e] # None => serving'[e].fn.on = e
      /\ pc' = pc
  BY <1>1 DEF Quiet
<1> QED
  BY <1>4, <1>5, QuietFrom

LEMMA QuietReceiver ==
  ASSUME Inductive, Quiet, NEW d \in Device, Receiver(d)
  PROVE  Quiet'
<1>0. Types
  BY DEF Inductive
<1>1. UNCHANGED <<serving, pc>>
  BY DEF Receiver, ReceiveCall, ReceiveReturn, AnnounceReturn
<1>2. /\ \A e \in Device : Range(down'[e]) \subseteq Range(down[e])
      /\ \A e \in Device : \A x \in Range(jobQue'[e]) : x \in Range(jobQue[e]) \/ x.fn.on = e
  <2>1. CASE ReceiveCall(d)
    <3>a. PICK m : m = Head(down[d])
      OBVIOUS
    <3>1. /\ down[d] # << >> /\ m.tag \in Tag /\ down' = [down EXCEPT ![d] = Tail(@)]
          /\ jobQue' = [jobQue EXCEPT ![d] = Append(@, m)]
      BY <2>1, <3>a DEF ReceiveCall
    <3>2. /\ m \in Range(down[d])
          /\ \A e \in Device : Range(down'[e]) \subseteq Range(down[e])
      BY <1>0, <3>1, <3>a, RangeTail DEF Types
    <3>3. m \in Passed /\ m.fn.on = d
      BY <3>1, <3>2, DownFacts DEF Quiet
    <3> DEFINE s == jobQue[d]
    <3>4. jobQue \in [Device -> Seq(Passed)]
      BY <1>0 DEF Types
    <3>5. s \in Seq(Passed)
      BY <3>4
    <3> HIDE DEF s
    <3>6. Range(Append(s, m)) = Range(s) \union {m}
      BY <3>3, <3>5, Members
    <3>7. jobQue'[d] = Append(s, m) /\ \A e \in Device : e # d => jobQue'[e] = jobQue[e]
      BY <3>1, <3>4 DEF s
    <3> QED
      BY <3>2, <3>3, <3>6, <3>7 DEF s
  <2>2. CASE ReceiveReturn(d)
    <3>1. /\ down[d] # << >> /\ down' = [down EXCEPT ![d] = Tail(@)] /\ jobQue' = jobQue
      BY <2>2 DEF ReceiveReturn
    <3>2. \A e \in Device : Range(down'[e]) \subseteq Range(down[e])
      BY <1>0, <3>1, RangeTail DEF Types
    <3> QED
      BY <3>1, <3>2
  <2>3. CASE AnnounceReturn(d)
    BY <2>3 DEF AnnounceReturn, network
  <2> QED
    BY <2>1, <2>2, <2>3 DEF Receiver
<1>3. /\ \A e \in Device : serving'[e] # None => serving'[e].fn.on = e
      /\ pc' = pc
  BY <1>1 DEF Quiet
<1> QED
  BY <1>2, <1>3, QuietFrom

LEMMA QuietHandler ==
  ASSUME Inductive, Quiet, NEW d \in Device, Handler(d) \/ AsyncReturn(d)
  PROVE  Quiet'
<1>0. Types
  BY DEF Inductive
<1>1. PICK there \in {"consumeFunctionArgs", "run", "idle"} :
        pc' = [pc EXCEPT ![<<d, "handler">>] = there] /\ UNCHANGED down
  <2>1. \/ pc' = [pc EXCEPT ![<<d, "handler">>] = "consumeFunctionArgs"]
        \/ pc' = [pc EXCEPT ![<<d, "handler">>] = "run"]
        \/ pc' = [pc EXCEPT ![<<d, "handler">>] = "idle"]
    BY DEF Handler, RemoteCallCallback, ConsumeFunctionArgs, ProduceReturn, AsyncReturn, Goto
  <2>2. UNCHANGED down
    BY DEF Handler, RemoteCallCallback, ConsumeFunctionArgs, ProduceReturn, AsyncReturn, network
  <2> QED
    BY <2>1, <2>2
<1>2. ASSUME NEW e \in Device
      PROVE  /\ pc'[<<e, "handler">>] \in Calling => pc[<<e, "handler">>] \in Calling
             /\ pc'[<<e, "main">>] = pc[<<e, "main">>]
  <2>1. <<e, "handler">> \in Thread /\ <<e, "main">> \in Thread
    BY DEF Thread
  <2>2. there \notin Calling
    BY DEF Calling, Before, Since
  <2> QED
    BY <1>0, <1>1, <2>1, <2>2 DEF Types
<1>3. ASSUME NEW e \in Device
      PROVE  /\ Range(jobQue'[e]) \subseteq Range(jobQue[e])
             /\ serving'[e] # None => serving'[e].fn.on = e
  <2>1. CASE RemoteCallCallback(d)
    <3>a. PICK m : m = Head(jobQue[d])
      OBVIOUS
    <3>b. PICK s : /\ serving' = [serving EXCEPT ![d] = s] /\ s.fn = m.fn
      <4> DEFINE s == [job |-> IF m.tag = "call" THEN jobID[d] ELSE Async, fn |-> m.fn,
                       args |-> None]
      <4>1. serving' = [serving EXCEPT ![d] = s] /\ s.fn = m.fn
        BY <2>1, <3>a DEF RemoteCallCallback
      <4> HIDE DEF s
      <4> QED
        BY <4>1
    <3>1. jobQue[d] # << >> /\ jobQue' = [jobQue EXCEPT ![d] = Tail(@)]
      BY <2>1 DEF RemoteCallCallback
    <3>2. m \in Range(jobQue[d]) /\ Range(jobQue'[e]) \subseteq Range(jobQue[e])
      BY <1>0, <3>1, <3>a, RangeTail DEF Types
    <3>3. m.fn.on = d
      BY <3>2 DEF Quiet
    <3> QED
      BY <1>0, <3>2, <3>3, <3>b DEF Types, Quiet
  <2>2. CASE ConsumeFunctionArgs(d)
    <3>1. jobQue' = jobQue /\ pc[<<d, "handler">>] # "idle"
      BY <2>2 DEF ConsumeFunctionArgs, network, Goto
    <3>2. PICK args : serving' = [serving EXCEPT ![d].args = args]
      BY <2>2 DEF ConsumeFunctionArgs
    <3>3. serving[d] # None
      BY <3>1 DEF Inductive, Phases
    <3>4. serving[d] \in Executing
      BY <3>3, ServingFacts
    <3>5. serving'[d].fn = serving[d].fn /\ (e # d => serving'[e] = serving[e])
      BY <1>0, <3>2, <3>4 DEF Types, Executing
    <3> QED
      BY <3>1, <3>3, <3>5 DEF Quiet
  <2>3. CASE ProduceReturn(d) \/ AsyncReturn(d)
    <3>1. jobQue' = jobQue /\ serving' = [serving EXCEPT ![d] = None]
      BY <2>3 DEF ProduceReturn, AsyncReturn, network
    <3> QED
      BY <1>0, <3>1 DEF Types, Quiet
  <2> QED
    BY <2>1, <2>2, <2>3 DEF Handler
<1>4. \A e \in Device : \A x \in Range(down'[e]) : x \in Range(down[e])
  BY <1>1
<1> QED
  BY <1>2, <1>3, <1>4, QuietFrom

LEMMA QuietStep ==
  ASSUME OneCaller, Inductive, Quiet, [Next]_vars
  PROVE  Quiet'
<1>0. Types
  BY DEF Inductive
<1>1. ASSUME NEW t \in Thread, NEW site \in Site, NEW fn \in Function,
             GenerateJobId(t, fn, site) \/ AsyncCall(t, fn, site)
      PROVE  Quiet'
  <2>1. PICK there : pc' = [pc EXCEPT ![t] = there]
    BY <1>1 DEF GenerateJobId, AsyncCall, Goto
  <2>2. pc[t] = "run" /\ fn.depth = Depth(t) + 1 /\ UNCHANGED <<down, jobQue, serving>>
    BY <1>1 DEF GenerateJobId, AsyncCall, Goto, network
  <2>3. ASSUME t[2] = "handler", t[1] \in Main PROVE FALSE
    <3>1. t = <<t[1], "handler">> /\ t[1] \in Device
      BY <2>3 DEF Thread
    <3>2. serving[t[1]] # None
      BY <2>2, <3>1 DEF Inductive, Phases
    <3>3. serving[t[1]].fn \in Function /\ serving[t[1]].fn.on = t[1]
      BY <3>1, <3>2, ServingFacts DEF Quiet
    <3>4. fn.depth = serving[t[1]].fn.depth + 1
      BY <2>2, <2>3 DEF Depth
    <3> QED
      BY <2>3, <3>3, <3>4 DEF OneCaller
  <2> QED
    BY <2>1, <2>2, <2>3, QuietTurn
<1>2. ASSUME NEW t \in Thread, Call(t), ~ WriteHeader(t) PROVE Quiet'
  <2>1. pc[t] \in Calling
    BY <1>2 DEF Call, PushArgument, GetArgsOfRC, InsertConsumeWait, PushJob, PushFunction,
       PushArgs, SendQue, ConsumeReturn, Goto, Calling, Before, Since
  <2>2. PICK there : pc' = [pc EXCEPT ![t] = there]
    BY <1>2 DEF Call, PushArgument, GetArgsOfRC, InsertConsumeWait, PushJob, PushFunction,
       PushArgs, SendQue, ConsumeReturn, Goto
  <2>3. UNCHANGED <<down, jobQue, serving>>
    BY <1>2 DEF Call, PushArgument, GetArgsOfRC, InsertConsumeWait, PushJob, PushFunction,
       PushArgs, SendQue, ConsumeReturn, Push, network
  <2>4. ~ (t[2] = "handler" /\ t[1] \in Main)
    <3>1. t[2] = "handler" => t = <<t[1], "handler">> /\ t[1] \in Device
      BY DEF Thread
    <3> QED
      BY <2>1, <3>1 DEF Quiet
  <2> QED
    BY <2>1, <2>2, <2>3, <2>4, QuietTurn
<1>3. CASE Still
  <2>1. UNCHANGED <<down, jobQue, serving, pc>>
    BY <1>3 DEF Still, network
  <2> QED
    BY <2>1 DEF Quiet
<1> QED
  BY <1>1, <1>2, <1>3, StillSteps, QuietGateway, QuietReceiver, QuietHandler
     DEF Next, Step, Ends

LEMMA InitRight == Init => Quiet /\ Right
<1> SUFFICES ASSUME Init PROVE Quiet /\ Right
  OBVIOUS
<1>1. Range(<< >>) = {}
  BY DEF Range
<1>2. ASSUME NEW d \in Device
      PROVE  /\ pc[<<d, "handler">>] \notin Calling
             /\ d \notin Main => pc[<<d, "main">>] = "none"
  <2>1. <<d, "handler">> \in Thread /\ <<d, "main">> \in Thread
    BY DEF Thread
  <2> QED
    BY <2>1 DEF Init, Calling, Before, Since
<1>3. Quiet
  BY <1>1, <1>2 DEF Quiet, Init
<1>4. Right
  BY DEF Right, Init
<1> QED
  BY <1>3, <1>4

(* Where one thread of a device calls, what is sent, executed and sent     *)
(* back for a call is that call's.                                         *)
THEOREM OneCallerContents == ASSUME OneCaller PROVE Spec => [](Inductive /\ Quiet /\ Contents)
<1>1. Init => Quiet /\ Contents
  BY InitRight, InitContents
<1>2. Inductive /\ Quiet => Alone
  BY QuietAlone
<1>3. Inductive /\ Quiet /\ [Next]_vars => Quiet'
  BY QuietStep
<1>4. Inductive /\ Sending /\ Contents /\ Alone /\ Alone' /\ [Next]_vars => Contents'
  BY ContentsStep
<1> QED
  BY <1>1, <1>2, <1>3, <1>4, Invariance, PTL DEF Spec

(* What consumeReturn loads is the result of the call the thread made,     *)
(* whole: no answer is stored for another call, or loaded before it is     *)
(* there.                                                                  *)
THEOREM MatchedHolds == ASSUME OneCaller, Fits PROVE Spec => []Matched
<1>1. Inductive /\ Contents /\ Right /\ [Next]_vars => Right'
  BY RightStep
<1>2. Init => Right
  BY InitRight
<1>3. Right => Matched
  BY DEF Right, Matched
<1> QED
  BY <1>1, <1>2, <1>3, OneCallerContents, PTL DEF Spec

(* The gateway is sent no message without a job and a function.            *)
THEOREM EightBytesHold == ASSUME OneCaller PROVE Spec => []EightBytes
<1>1. Contents => EightBytes
  <2> SUFFICES ASSUME Contents, NEW d \in Device, NEW i \in DOMAIN up[d], up[d][i].tag \in Tag
               PROVE  Len(up[d][i].words) >= 2
    BY DEF EightBytes
  <2>1. RightUp(d, up[d][i])
    BY DEF Contents, Range
  <2> QED
    BY <2>1 DEF RightUp, Opens
<1> QED
  BY <1>1, OneCallerContents, PTL
=============================================================================
