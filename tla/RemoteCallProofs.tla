--------------------------- MODULE RemoteCallProofs ---------------------------
(***************************************************************************)
(* Theorems about RemoteCall for any devices, programs and functions: the  *)
(* tables of the runtime hold the calls under way and nothing else, until  *)
(* threads of a device cross on the socket to the gateway.                 *)
(***************************************************************************)
EXTENDS RemoteCall, SequenceTheorems, TLAPS

-----------------------------------------------------------------------------
(* What a thread does before its call has a place in consumeTable, before  *)
(* it sends anything, and from then on.                                    *)
Before == {"pushArgument", "getArgsOfRC", "insertConsumeWait"}
Since == {"pushFunction", "pushArgs", "sendQue", "consumeReturn"}
Calling == Before \union {"pushJob"} \union Since

IsTable(T, S) ==
  /\ T = [d \in Device |-> T[d]]
  /\ \A d \in Device : DOMAIN T[d] \subseteq Int /\ T[d] \in [DOMAIN T[d] -> S]

Types ==
  /\ jobID \in [Device -> Nat]
  /\ IsTable(runningJobs, Function) /\ IsTable(consumeTable, BOOLEAN)
  /\ IsTable(returnValueTable, Seq(ResultWord))
  /\ IsTable(jobIDMap, Int) /\ IsTable(argsTable, Seq(CallWord))
  /\ args_list \in [Device -> [Site -> Seq(Argument)]]
  /\ sendQue \in [Device -> [Tag -> Seq(CallWord)]]
  /\ up \in [Device -> Seq(Asked \union Answered)]
  /\ down \in [Device -> Seq(Passed \union Answered)]
  /\ jobQue \in [Device -> Seq(Passed)]
  /\ route \in Seq(Device \X Int)
  /\ pc \in [Thread -> Calling \union {"none", "run", "idle", "consumeFunctionArgs"}]
  /\ call \in [Thread -> Making \union {None}]
  /\ serving \in [Device -> Executing \union {None}]
  /\ storing \in [Device -> Answered \union {None}]

(* The threads that make a call with an answer. *)
Caller(t) == call[t] # None /\ call[t].tag = "call"
Jobs(d) == {call[t].job : t \in {u \in Thread : u[1] = d /\ Caller(u)}}

Phases ==
  /\ \A t \in Thread : pc[t] \in Calling <=> call[t] # None
  /\ \A d \in Device : pc[<<d, "handler">>] = "idle" <=> serving[d] = None
  /\ \A t \in Thread : call[t] # None =>
       /\ call[t].tag = "call" => call[t].job < jobID[t[1]] /\ call[t].job \in Nat
       /\ call[t].tag = "async" => pc[t] \notin {"insertConsumeWait", "consumeReturn"}
       /\ pc[t] = "pushArgument" => call[t].pushed < Len(Params[call[t].fn])
  /\ \A t, u \in Thread :
       Caller(t) /\ Caller(u) /\ t[1] = u[1] /\ call[t].job = call[u].job => t = u

Tables ==
  /\ \A d \in Device :
       /\ DOMAIN runningJobs[d] \subseteq Jobs(d)
       /\ DOMAIN returnValueTable[d] \subseteq Jobs(d)
       /\ \A j \in DOMAIN consumeTable[d] :
            j < jobID[d] /\ (consumeTable[d][j] => j \notin DOMAIN runningJobs[d])
  /\ \A t \in Thread : Caller(t) =>
       /\ pc[t] \in Before => call[t].job \in DOMAIN runningJobs[t[1]]
       /\ pc[t] \notin Before => call[t].job \in DOMAIN consumeTable[t[1]]
       /\ pc[t] = "pushJob" => ~ consumeTable[t[1]][call[t].job]

Served(d) == IF serving[d] = None THEN {} ELSE {serving[d].job}
Executes ==
  \A d \in Device :
    /\ DOMAIN jobIDMap[d] \ {Async} = Served(d) \ {Async}
    /\ DOMAIN argsTable[d] =
         IF pc[<<d, "handler">>] = "consumeFunctionArgs" THEN Served(d) ELSE {}

(* Between header and data of a message a thread makes a call, or it       *)
(* answers one that waits for the answer.                                  *)
Replying(t) == t[2] = "handler" /\ pc[t] = "run" /\ serving[t[1]].job # Async
Sending ==
  /\ line \in [Thread -> {"off", "message"} \union Request]
  /\ \A t \in Thread : line[t] = "message" => pc[t] = "sendQue" \/ Replying(t)

-----------------------------------------------------------------------------
(* Where the calls are: a sequence of messages gives a sequence of sets    *)
(* with the number of each message of a kind.                              *)

All(k) == UNION {k[i] : i \in DOMAIN k}
Once(k) == \A i, j \in DOMAIN k : i # j => k[i] \intersect k[j] = {}
Apart(F) == \A x, y \in DOMAIN F : x # y => F[x] \intersect F[y] = {}

AskKey(m) ==
  IF m.tag = "call" /\ m.words # << >> /\ m.words[1].kind = "job"
  THEN {m.words[1].value} ELSE {}
CallKey(m) == IF m.tag = "call" THEN {m.job} ELSE {}
AnswerKey(m) == IF m.tag = "return" THEN {m.job} ELSE {}

Asks(s) == [i \in DOMAIN s |-> AskKey(s[i])]
Calls(s) == [i \in DOMAIN s |-> CallKey(s[i])]
Answers(s) == [i \in DOMAIN s |-> AnswerKey(s[i])]

(* The numbers of the gateway that are with the callees, and where.        *)
OutPlace == {"down", "jobQue", "serving", "up"} \X Device
OutAt == [x \in OutPlace |->
  CASE x[1] = "down"    -> All(Calls(down[x[2]]))
    [] x[1] = "jobQue"  -> All(Calls(jobQue[x[2]]))
    [] x[1] = "serving" -> IF Served(x[2]) \subseteq {Async} THEN {}
                           ELSE {jobIDMap[x[2]][serving[x[2]].job]}
    [] x[1] = "up"      -> All(Answers(up[x[2]]))]
Out == All(OutAt)

(* The numbers of device d that will still be answered, and where.         *)
First(d) == AskKey([tag |-> "call", words |-> sendQue[d]["call"]])
LivePlace == {"sendQue", "up", "route", "down", "storing"}
Coming(d) == {route[r][2] : r \in {q \in Out : route[q][1] = d}}
LiveAt(d) == [x \in LivePlace |->
  CASE x = "sendQue" -> First(d)
    [] x = "up"      -> All(Asks(up[d]))
    [] x = "route"   -> Coming(d)
    [] x = "down"    -> All(Answers(down[d]))
    [] x = "storing" -> IF storing[d] = None THEN {} ELSE {storing[d].job}]
Live(d) == All(LiveAt(d))

(* Every number is in one place, and different numbers of the gateway      *)
(* stand for different calls.                                              *)
Passing ==
  /\ Apart(OutAt) /\ Out \subseteq DOMAIN route
  /\ \A d \in Device :
       Once(Calls(down[d])) /\ Once(Calls(jobQue[d])) /\ Once(Answers(up[d]))
  /\ \A r, s \in Out : route[r] = route[s] => r = s

(* A call that will still be answered is one that a thread waits for.      *)
Awaited(d, j) ==
  \E t \in Thread : /\ t[1] = d /\ Caller(t) /\ call[t].job = j /\ pc[t] \in Since
                    /\ ~ consumeTable[d][j]
Waiting ==
  \A d \in Device :
    /\ Apart(LiveAt(d)) /\ Once(Asks(up[d])) /\ Once(Answers(down[d]))
    /\ \A j \in Live(d) : Awaited(d, j)

Inductive == Types /\ Phases /\ Tables /\ Executes /\ Passing /\ Waiting

-----------------------------------------------------------------------------
(* Facts about sequences, families of sets and tables.                     *)

LEMMA Pops ==
  ASSUME NEW S, NEW k \in Seq(S), k # << >>, Once(k)
  PROVE  Once(Tail(k)) /\ All(Tail(k)) = All(k) \ k[1] /\ k[1] \subseteq All(k)
<1>1. /\ Tail(k) \in Seq(S) /\ Len(Tail(k)) = Len(k) - 1 /\ Len(k) \in Nat /\ Len(k) > 0
      /\ \A i \in 1 .. Len(k) - 1 : Tail(k)[i] = k[i + 1]
      /\ DOMAIN Tail(k) = 1 .. Len(k) - 1 /\ DOMAIN k = 1 .. Len(k)
  OBVIOUS
<1>2. Once(Tail(k))
  BY <1>1 DEF Once
<1>3. k[1] \subseteq All(k)
  BY <1>1 DEF All
<1>4. ASSUME NEW x PROVE x \in All(Tail(k)) => x \in All(k) /\ x \notin k[1]
  <2>1. SUFFICES ASSUME NEW i \in 1 .. Len(k) - 1, x \in k[i + 1]
                 PROVE  x \in All(k) /\ x \notin k[1]
    BY <1>1 DEF All
  <2>2. i + 1 \in DOMAIN k /\ 1 \in DOMAIN k /\ i + 1 # 1
    BY <1>1
  <2> QED
    BY <2>1, <2>2 DEF All, Once
<1>5. ASSUME NEW x \in All(k), x \notin k[1] PROVE x \in All(Tail(k))
  <2>1. PICK i \in 1 .. Len(k) : x \in k[i]
    BY <1>1 DEF All
  <2>2. i # 1 /\ i - 1 \in 1 .. Len(k) - 1 /\ (i - 1) + 1 = i
    BY <1>1, <1>5, <2>1
  <2>3. x \in Tail(k)[i - 1] /\ i - 1 \in DOMAIN Tail(k)
    BY <1>1, <2>1, <2>2
  <2> QED
    BY <2>3 DEF All
<1> QED
  BY <1>2, <1>3, <1>4, <1>5

LEMMA Pushes ==
  ASSUME NEW S, NEW k \in Seq(S), NEW x \in S, Once(k), x \intersect All(k) = {}
  PROVE  Once(Append(k, x)) /\ All(Append(k, x)) = All(k) \union x
<1> DEFINE a == Append(k, x)
<1>1. /\ Len(k) \in Nat /\ DOMAIN k = 1 .. Len(k) /\ DOMAIN a = 1 .. Len(k) + 1
      /\ \A i \in 1 .. Len(k) : a[i] = k[i]
      /\ a[Len(k) + 1] = x
  OBVIOUS
<1> HIDE DEF a
<1>2. ASSUME NEW i \in DOMAIN k PROVE a[i] \intersect x = {}
  BY <1>1 DEF All
<1>3. ASSUME NEW i \in DOMAIN a, NEW j \in DOMAIN a, i # j PROVE a[i] \intersect a[j] = {}
  <2>1. CASE i \in DOMAIN k /\ j \in DOMAIN k
    BY <1>1, <1>3, <2>1 DEF Once
  <2>2. CASE i = Len(k) + 1 /\ j \in DOMAIN k
    BY <1>1, <1>2, <2>2
  <2>3. CASE j = Len(k) + 1 /\ i \in DOMAIN k
    BY <1>1, <1>2, <2>3
  <2> QED
    BY <1>1, <1>3, <2>1, <2>2, <2>3
<1>4. All(a) = All(k) \union x
  BY <1>1 DEF All
<1> QED
  BY <1>3, <1>4 DEF Once, a

(* Sets of a family that change their members. *)
LEMMA Fewer ==
  ASSUME NEW F, NEW G, DOMAIN G = DOMAIN F, Apart(F),
         \A x \in DOMAIN F : G[x] \subseteq F[x]
  PROVE  Apart(G) /\ All(G) \subseteq All(F)
BY DEF Apart, All

LEMMA Drops ==
  ASSUME NEW F, NEW G, NEW y \in DOMAIN F, NEW K, DOMAIN G = DOMAIN F, Apart(F),
         K \subseteq F[y], G[y] = F[y] \ K,
         \A x \in DOMAIN F \ {y} : G[x] = F[x]
  PROVE  Apart(G) /\ All(G) = All(F) \ K
<1>1. Apart(G) /\ All(G) \subseteq All(F)
  BY Fewer
<1>2. ASSUME NEW e \in All(G) PROVE e \notin K
  <2>1. PICK x \in DOMAIN F : e \in G[x]
    BY DEF All
  <2> QED
    BY <2>1 DEF Apart
<1>3. ASSUME NEW e \in All(F), e \notin K PROVE e \in All(G)
  <2>1. PICK x \in DOMAIN F : e \in F[x]
    BY DEF All
  <2>2. e \in G[x]
    BY <1>3, <2>1
  <2> QED
    BY <2>2 DEF All
<1> QED
  BY <1>1, <1>2, <1>3

LEMMA Adds ==
  ASSUME NEW F, NEW G, NEW y \in DOMAIN F, NEW K, DOMAIN G = DOMAIN F, Apart(F),
         K \intersect All(F) = {}, G[y] = F[y] \union K,
         \A x \in DOMAIN F \ {y} : G[x] = F[x]
  PROVE  Apart(G) /\ All(G) = All(F) \union K
<1>1. \A x \in DOMAIN F : F[x] \intersect K = {}
  BY DEF All
<1>2. ASSUME NEW x \in DOMAIN F, NEW z \in DOMAIN F, x # z PROVE G[x] \intersect G[z] = {}
  <2>1. F[x] \intersect F[z] = {} /\ F[x] \intersect K = {} /\ F[z] \intersect K = {}
    BY <1>1, <1>2 DEF Apart
  <2>2. (x = y => G[x] = F[x] \union K) /\ (x # y => G[x] = F[x])
    OBVIOUS
  <2>3. (z = y => G[z] = F[z] \union K) /\ (z # y => G[z] = F[z])
    OBVIOUS
  <2> QED
    BY <1>2, <2>1, <2>2, <2>3
<1>3. ASSUME NEW e PROVE e \in All(G) <=> e \in All(F) \union K
  <2>1. ASSUME e \in All(G) PROVE e \in All(F) \union K
    BY <2>1 DEF All
  <2>2. ASSUME e \in K PROVE e \in All(G)
    BY <2>2 DEF All
  <2>3. ASSUME e \in All(F) PROVE e \in All(G)
    <3>1. PICK x \in DOMAIN F : e \in F[x]
      BY <2>3 DEF All
    <3>2. e \in G[x]
      BY <3>1
    <3> QED
      BY <3>2 DEF All
  <2> QED
    BY <2>1, <2>2, <2>3
<1> QED
  BY <1>2, <1>3 DEF Apart

LEMMA Moves ==
  ASSUME NEW F, NEW G, NEW y \in DOMAIN F, NEW z \in DOMAIN F, NEW K, y # z,
         DOMAIN G = DOMAIN F, Apart(F), K \subseteq F[y],
         G[y] = F[y] \ K, G[z] = F[z] \union K,
         \A x \in DOMAIN F \ {y, z} : G[x] = F[x]
  PROVE  Apart(G) /\ All(G) = All(F)
<1> DEFINE M == [x \in DOMAIN F |-> IF x = y THEN F[y] \ K ELSE F[x]]
<1>1. /\ DOMAIN M = DOMAIN F /\ M[y] = F[y] \ K
      /\ \A x \in DOMAIN F \ {y} : M[x] = F[x]
  OBVIOUS
<1> HIDE DEF M
<1>2. Apart(M) /\ All(M) = All(F) \ K
  <2>1. DOMAIN M = DOMAIN F
    BY <1>1
  <2>2. M[y] = F[y] \ K
    BY <1>1
  <2>3. \A x \in DOMAIN F \ {y} : M[x] = F[x]
    BY <1>1
  <2>4. Apart(F) /\ K \subseteq F[y]
    OBVIOUS
  <2> QED
    BY <2>1, <2>2, <2>3, <2>4, Drops
<1>3. DOMAIN G = DOMAIN M /\ z \in DOMAIN M /\ G[z] = M[z] \union K
      /\ \A x \in DOMAIN M \ {z} : G[x] = M[x]
  BY <1>1
<1>4. K \intersect All(M) = {}
  BY <1>2
<1>5. Apart(G) /\ All(G) = All(M) \union K
  BY <1>2, <1>3, <1>4, Adds
<1>6. K \subseteq All(F)
  BY DEF All
<1> QED
  BY <1>2, <1>5, <1>6


LEMMA AsksPop ==
  ASSUME NEW S, NEW s \in Seq(S), s # << >>, Once(Asks(s))
  PROVE  /\ Once(Asks(Tail(s))) /\ AskKey(Head(s)) \subseteq All(Asks(s))
         /\ All(Asks(Tail(s))) = All(Asks(s)) \ AskKey(Head(s))
<1> DEFINE T == {AskKey(s[i]) : i \in DOMAIN s}
<1>1. /\ Asks(s) \in Seq(T) /\ Len(Asks(s)) = Len(s) /\ Asks(s) # << >>
      /\ Asks(s)[1] = AskKey(Head(s))
  BY DEF Asks
<1>2. Asks(Tail(s)) = Tail(Asks(s))
  <2>1. /\ DOMAIN Tail(s) = 1 .. Len(s) - 1 /\ DOMAIN Tail(Asks(s)) = 1 .. Len(s) - 1
        /\ \A i \in 1 .. Len(s) - 1 : Tail(s)[i] = s[i + 1]
        /\ \A i \in 1 .. Len(s) - 1 : Tail(Asks(s))[i] = Asks(s)[i + 1]
        /\ Len(s) \in Nat /\ DOMAIN s = 1 .. Len(s)
    BY <1>1
  <2>2. \A i \in 1 .. Len(s) - 1 : Asks(s)[i + 1] = AskKey(s[i + 1])
    BY <2>1 DEF Asks
  <2>3. Asks(Tail(s)) \in Seq(T) /\ Tail(Asks(s)) \in Seq(T)
    <3>1. \A i \in 1 .. Len(s) - 1 : i + 1 \in DOMAIN s
      BY <2>1
    <3>2. Asks(Tail(s)) = [i \in 1 .. Len(s) - 1 |-> AskKey(s[i + 1])]
      BY <2>1 DEF Asks
    <3>3. [i \in 1 .. Len(s) - 1 |-> AskKey(s[i + 1])] \in [1 .. Len(s) - 1 -> T]
      BY <3>1
    <3>4. Len(s) - 1 \in Nat
      BY <2>1, <1>1
    <3>5. Tail(Asks(s)) \in Seq(T)
      BY <1>1
    <3> HIDE DEF T
    <3>6. [1 .. Len(s) - 1 -> T] \subseteq Seq(T)
      BY <3>4, SeqDef
    <3> QED
      BY <3>2, <3>3, <3>5, <3>6
  <2>4. /\ Len(Asks(Tail(s))) = Len(s) - 1 /\ Len(Tail(Asks(s))) = Len(s) - 1
        /\ \A i \in 1 .. Len(s) - 1 : Asks(Tail(s))[i] = Tail(Asks(s))[i]
    BY <1>1, <2>1, <2>2 DEF Asks
  <2> HIDE DEF T
  <2> QED
    BY <2>3, <2>4, SeqEqual
<1> HIDE DEF T
<1> QED
  BY <1>1, <1>2, Pops

LEMMA AsksPush ==
  ASSUME NEW S, NEW s \in Seq(S), NEW m \in S, Once(Asks(s)),
         AskKey(m) \intersect All(Asks(s)) = {}
  PROVE  /\ Once(Asks(Append(s, m)))
         /\ All(Asks(Append(s, m))) = All(Asks(s)) \union AskKey(m)
<1> DEFINE T == {AskKey(s[i]) : i \in DOMAIN s} \union {AskKey(m)}
<1>1. Asks(s) \in Seq(T) /\ AskKey(m) \in T /\ Len(Asks(s)) = Len(s)
  BY DEF Asks
<1>2. Asks(Append(s, m)) = Append(Asks(s), AskKey(m))
  <2>1. /\ DOMAIN Append(s, m) = 1 .. Len(s) + 1
        /\ DOMAIN Append(Asks(s), AskKey(m)) = 1 .. Len(s) + 1
        /\ \A i \in 1 .. Len(s) : Append(s, m)[i] = s[i]
        /\ \A i \in 1 .. Len(s) : Append(Asks(s), AskKey(m))[i] = Asks(s)[i]
        /\ Append(s, m)[Len(s) + 1] = m
        /\ Append(Asks(s), AskKey(m))[Len(s) + 1] = AskKey(m)
        /\ Len(s) \in Nat /\ DOMAIN s = 1 .. Len(s)
    BY <1>1
  <2>2. \A i \in 1 .. Len(s) : Asks(s)[i] = AskKey(s[i])
    BY <2>1 DEF Asks
  <2>3. \A i \in 1 .. Len(s) + 1 : Append(Asks(s), AskKey(m))[i] = AskKey(Append(s, m)[i])
    BY <2>1, <2>2
  <2>4. Asks(Append(s, m)) \in Seq(T) /\ Append(Asks(s), AskKey(m)) \in Seq(T)
    BY <1>1, <2>1, <2>2 DEF Asks
  <2>5. /\ Len(Asks(Append(s, m))) = Len(s) + 1 /\ Len(Append(Asks(s), AskKey(m))) = Len(s) + 1
        /\ \A i \in 1 .. Len(s) + 1 :
             Asks(Append(s, m))[i] = Append(Asks(s), AskKey(m))[i]
    BY <1>1, <2>1, <2>3 DEF Asks
  <2> HIDE DEF T
  <2> QED
    BY <2>4, <2>5, SeqEqual
<1> HIDE DEF T
<1> QED
  BY <1>1, <1>2, Pushes

LEMMA CallsPop ==
  ASSUME NEW S, NEW s \in Seq(S), s # << >>, Once(Calls(s))
  PROVE  /\ Once(Calls(Tail(s))) /\ CallKey(Head(s)) \subseteq All(Calls(s))
         /\ All(Calls(Tail(s))) = All(Calls(s)) \ CallKey(Head(s))
<1> DEFINE T == {CallKey(s[i]) : i \in DOMAIN s}
<1>1. /\ Calls(s) \in Seq(T) /\ Len(Calls(s)) = Len(s) /\ Calls(s) # << >>
      /\ Calls(s)[1] = CallKey(Head(s))
  BY DEF Calls
<1>2. Calls(Tail(s)) = Tail(Calls(s))
  <2>1. /\ DOMAIN Tail(s) = 1 .. Len(s) - 1 /\ DOMAIN Tail(Calls(s)) = 1 .. Len(s) - 1
        /\ \A i \in 1 .. Len(s) - 1 : Tail(s)[i] = s[i + 1]
        /\ \A i \in 1 .. Len(s) - 1 : Tail(Calls(s))[i] = Calls(s)[i + 1]
        /\ Len(s) \in Nat /\ DOMAIN s = 1 .. Len(s)
    BY <1>1
  <2>2. \A i \in 1 .. Len(s) - 1 : Calls(s)[i + 1] = CallKey(s[i + 1])
    BY <2>1 DEF Calls
  <2>3. Calls(Tail(s)) \in Seq(T) /\ Tail(Calls(s)) \in Seq(T)
    <3>1. \A i \in 1 .. Len(s) - 1 : i + 1 \in DOMAIN s
      BY <2>1
    <3>2. Calls(Tail(s)) = [i \in 1 .. Len(s) - 1 |-> CallKey(s[i + 1])]
      BY <2>1 DEF Calls
    <3>3. [i \in 1 .. Len(s) - 1 |-> CallKey(s[i + 1])] \in [1 .. Len(s) - 1 -> T]
      BY <3>1
    <3>4. Len(s) - 1 \in Nat
      BY <2>1, <1>1
    <3>5. Tail(Calls(s)) \in Seq(T)
      BY <1>1
    <3> HIDE DEF T
    <3>6. [1 .. Len(s) - 1 -> T] \subseteq Seq(T)
      BY <3>4, SeqDef
    <3> QED
      BY <3>2, <3>3, <3>5, <3>6
  <2>4. /\ Len(Calls(Tail(s))) = Len(s) - 1 /\ Len(Tail(Calls(s))) = Len(s) - 1
        /\ \A i \in 1 .. Len(s) - 1 : Calls(Tail(s))[i] = Tail(Calls(s))[i]
    BY <1>1, <2>1, <2>2 DEF Calls
  <2> HIDE DEF T
  <2> QED
    BY <2>3, <2>4, SeqEqual
<1> HIDE DEF T
<1> QED
  BY <1>1, <1>2, Pops

LEMMA CallsPush ==
  ASSUME NEW S, NEW s \in Seq(S), NEW m \in S, Once(Calls(s)),
         CallKey(m) \intersect All(Calls(s)) = {}
  PROVE  /\ Once(Calls(Append(s, m)))
         /\ All(Calls(Append(s, m))) = All(Calls(s)) \union CallKey(m)
<1> DEFINE T == {CallKey(s[i]) : i \in DOMAIN s} \union {CallKey(m)}
<1>1. Calls(s) \in Seq(T) /\ CallKey(m) \in T /\ Len(Calls(s)) = Len(s)
  BY DEF Calls
<1>2. Calls(Append(s, m)) = Append(Calls(s), CallKey(m))
  <2>1. /\ DOMAIN Append(s, m) = 1 .. Len(s) + 1
        /\ DOMAIN Append(Calls(s), CallKey(m)) = 1 .. Len(s) + 1
        /\ \A i \in 1 .. Len(s) : Append(s, m)[i] = s[i]
        /\ \A i \in 1 .. Len(s) : Append(Calls(s), CallKey(m))[i] = Calls(s)[i]
        /\ Append(s, m)[Len(s) + 1] = m
        /\ Append(Calls(s), CallKey(m))[Len(s) + 1] = CallKey(m)
        /\ Len(s) \in Nat /\ DOMAIN s = 1 .. Len(s)
    BY <1>1
  <2>2. \A i \in 1 .. Len(s) : Calls(s)[i] = CallKey(s[i])
    BY <2>1 DEF Calls
  <2>3. \A i \in 1 .. Len(s) + 1 : Append(Calls(s), CallKey(m))[i] = CallKey(Append(s, m)[i])
    BY <2>1, <2>2
  <2>4. Calls(Append(s, m)) \in Seq(T) /\ Append(Calls(s), CallKey(m)) \in Seq(T)
    BY <1>1, <2>1, <2>2 DEF Calls
  <2>5. /\ Len(Calls(Append(s, m))) = Len(s) + 1 /\ Len(Append(Calls(s), CallKey(m))) = Len(s) + 1
        /\ \A i \in 1 .. Len(s) + 1 :
             Calls(Append(s, m))[i] = Append(Calls(s), CallKey(m))[i]
    BY <1>1, <2>1, <2>3 DEF Calls
  <2> HIDE DEF T
  <2> QED
    BY <2>4, <2>5, SeqEqual
<1> HIDE DEF T
<1> QED
  BY <1>1, <1>2, Pushes

LEMMA AnswersPop ==
  ASSUME NEW S, NEW s \in Seq(S), s # << >>, Once(Answers(s))
  PROVE  /\ Once(Answers(Tail(s))) /\ AnswerKey(Head(s)) \subseteq All(Answers(s))
         /\ All(Answers(Tail(s))) = All(Answers(s)) \ AnswerKey(Head(s))
<1> DEFINE T == {AnswerKey(s[i]) : i \in DOMAIN s}
<1>1. /\ Answers(s) \in Seq(T) /\ Len(Answers(s)) = Len(s) /\ Answers(s) # << >>
      /\ Answers(s)[1] = AnswerKey(Head(s))
  BY DEF Answers
<1>2. Answers(Tail(s)) = Tail(Answers(s))
  <2>1. /\ DOMAIN Tail(s) = 1 .. Len(s) - 1 /\ DOMAIN Tail(Answers(s)) = 1 .. Len(s) - 1
        /\ \A i \in 1 .. Len(s) - 1 : Tail(s)[i] = s[i + 1]
        /\ \A i \in 1 .. Len(s) - 1 : Tail(Answers(s))[i] = Answers(s)[i + 1]
        /\ Len(s) \in Nat /\ DOMAIN s = 1 .. Len(s)
    BY <1>1
  <2>2. \A i \in 1 .. Len(s) - 1 : Answers(s)[i + 1] = AnswerKey(s[i + 1])
    BY <2>1 DEF Answers
  <2>3. Answers(Tail(s)) \in Seq(T) /\ Tail(Answers(s)) \in Seq(T)
    <3>1. \A i \in 1 .. Len(s) - 1 : i + 1 \in DOMAIN s
      BY <2>1
    <3>2. Answers(Tail(s)) = [i \in 1 .. Len(s) - 1 |-> AnswerKey(s[i + 1])]
      BY <2>1 DEF Answers
    <3>3. [i \in 1 .. Len(s) - 1 |-> AnswerKey(s[i + 1])] \in [1 .. Len(s) - 1 -> T]
      BY <3>1
    <3>4. Len(s) - 1 \in Nat
      BY <2>1, <1>1
    <3>5. Tail(Answers(s)) \in Seq(T)
      BY <1>1
    <3> HIDE DEF T
    <3>6. [1 .. Len(s) - 1 -> T] \subseteq Seq(T)
      BY <3>4, SeqDef
    <3> QED
      BY <3>2, <3>3, <3>5, <3>6
  <2>4. /\ Len(Answers(Tail(s))) = Len(s) - 1 /\ Len(Tail(Answers(s))) = Len(s) - 1
        /\ \A i \in 1 .. Len(s) - 1 : Answers(Tail(s))[i] = Tail(Answers(s))[i]
    BY <1>1, <2>1, <2>2 DEF Answers
  <2> HIDE DEF T
  <2> QED
    BY <2>3, <2>4, SeqEqual
<1> HIDE DEF T
<1> QED
  BY <1>1, <1>2, Pops

LEMMA AnswersPush ==
  ASSUME NEW S, NEW s \in Seq(S), NEW m \in S, Once(Answers(s)),
         AnswerKey(m) \intersect All(Answers(s)) = {}
  PROVE  /\ Once(Answers(Append(s, m)))
         /\ All(Answers(Append(s, m))) = All(Answers(s)) \union AnswerKey(m)
<1> DEFINE T == {AnswerKey(s[i]) : i \in DOMAIN s} \union {AnswerKey(m)}
<1>1. Answers(s) \in Seq(T) /\ AnswerKey(m) \in T /\ Len(Answers(s)) = Len(s)
  BY DEF Answers
<1>2. Answers(Append(s, m)) = Append(Answers(s), AnswerKey(m))
  <2>1. /\ DOMAIN Append(s, m) = 1 .. Len(s) + 1
        /\ DOMAIN Append(Answers(s), AnswerKey(m)) = 1 .. Len(s) + 1
        /\ \A i \in 1 .. Len(s) : Append(s, m)[i] = s[i]
        /\ \A i \in 1 .. Len(s) : Append(Answers(s), AnswerKey(m))[i] = Answers(s)[i]
        /\ Append(s, m)[Len(s) + 1] = m
        /\ Append(Answers(s), AnswerKey(m))[Len(s) + 1] = AnswerKey(m)
        /\ Len(s) \in Nat /\ DOMAIN s = 1 .. Len(s)
    BY <1>1
  <2>2. \A i \in 1 .. Len(s) : Answers(s)[i] = AnswerKey(s[i])
    BY <2>1 DEF Answers
  <2>3. \A i \in 1 .. Len(s) + 1 : Append(Answers(s), AnswerKey(m))[i] = AnswerKey(Append(s, m)[i])
    BY <2>1, <2>2
  <2>4. Answers(Append(s, m)) \in Seq(T) /\ Append(Answers(s), AnswerKey(m)) \in Seq(T)
    BY <1>1, <2>1, <2>2 DEF Answers
  <2>5. /\ Len(Answers(Append(s, m))) = Len(s) + 1 /\ Len(Append(Answers(s), AnswerKey(m))) = Len(s) + 1
        /\ \A i \in 1 .. Len(s) + 1 :
             Answers(Append(s, m))[i] = Append(Answers(s), AnswerKey(m))[i]
    BY <1>1, <2>1, <2>3 DEF Answers
  <2> HIDE DEF T
  <2> QED
    BY <2>4, <2>5, SeqEqual
<1> HIDE DEF T
<1> QED
  BY <1>1, <1>2, Pushes

(* A sequence without messages is without numbers. *)
LEMMA NoKeys ==
  /\ Once(Asks(<< >>)) /\ Once(Calls(<< >>)) /\ Once(Answers(<< >>))
  /\ All(Asks(<< >>)) = {} /\ All(Calls(<< >>)) = {} /\ All(Answers(<< >>)) = {}
BY DEF Asks, Calls, Answers, Once, All

LEMMA Inserted ==
  ASSUME NEW T, NEW S, IsTable(T, S), NEW d \in Device, NEW key \in Int, NEW value \in S
  PROVE  /\ IsTable(Insert(T, d, key, value), S)
         /\ DOMAIN Insert(T, d, key, value)[d] = DOMAIN T[d] \union {key}
         /\ Insert(T, d, key, value)[d][key] = value
         /\ \A k \in DOMAIN T[d] : k # key => Insert(T, d, key, value)[d][k] = T[d][k]
         /\ \A e \in Device \ {d} : Insert(T, d, key, value)[e] = T[e]
<1> DEFINE new == [k \in DOMAIN T[d] \union {key} |-> IF k = key THEN value ELSE T[d][k]]
           I == Insert(T, d, key, value)
<1>1. DOMAIN T = Device
  BY DEF IsTable
<1>2. I[d] = new /\ I = [e \in Device |-> I[e]] /\ \A e \in Device \ {d} : I[e] = T[e]
  BY <1>1 DEF Insert
<1>3. DOMAIN T[d] \subseteq Int /\ T[d] \in [DOMAIN T[d] -> S]
  BY DEF IsTable
<1>4. /\ DOMAIN new = DOMAIN T[d] \union {key} /\ new[key] = value
      /\ \A k \in DOMAIN T[d] : k # key => new[k] = T[d][k]
  OBVIOUS
<1>5. new \in [DOMAIN new -> S]
  BY <1>3
<1>6. DOMAIN new \subseteq Int
  BY <1>3, <1>4
<1> HIDE DEF new, I
<1>7. ASSUME NEW e \in Device PROVE DOMAIN I[e] \subseteq Int /\ I[e] \in [DOMAIN I[e] -> S]
  <2>1. CASE e = d
    BY <1>2, <1>5, <1>6, <2>1
  <2>2. CASE e # d
    BY <1>2, <2>2 DEF IsTable
  <2> QED
    BY <2>1, <2>2
<1>8. IsTable(I, S)
  BY <1>2, <1>7 DEF IsTable
<1> QED
  BY <1>2, <1>4, <1>8 DEF I

LEMMA Erased ==
  ASSUME NEW T, NEW S, IsTable(T, S), NEW d \in Device, NEW key
  PROVE  /\ IsTable(Erase(T, d, key), S)
         /\ DOMAIN Erase(T, d, key)[d] = DOMAIN T[d] \ {key}
         /\ \A k \in DOMAIN T[d] : k # key => Erase(T, d, key)[d][k] = T[d][k]
         /\ \A e \in Device \ {d} : Erase(T, d, key)[e] = T[e]
<1> DEFINE new == [k \in DOMAIN T[d] \ {key} |-> T[d][k]]
           I == Erase(T, d, key)
<1>1. DOMAIN T = Device
  BY DEF IsTable
<1>2. I[d] = new /\ I = [e \in Device |-> I[e]] /\ \A e \in Device \ {d} : I[e] = T[e]
  BY <1>1 DEF Erase
<1>3. DOMAIN T[d] \subseteq Int /\ T[d] \in [DOMAIN T[d] -> S]
  BY DEF IsTable
<1>4. /\ DOMAIN new = DOMAIN T[d] \ {key}
      /\ \A k \in DOMAIN T[d] : k # key => new[k] = T[d][k]
  OBVIOUS
<1>5. new \in [DOMAIN new -> S]
  BY <1>3
<1>6. DOMAIN new \subseteq Int
  BY <1>3, <1>4
<1> HIDE DEF new, I
<1>7. ASSUME NEW e \in Device PROVE DOMAIN I[e] \subseteq Int /\ I[e] \in [DOMAIN I[e] -> S]
  <2>1. CASE e = d
    BY <1>2, <1>5, <1>6, <2>1
  <2>2. CASE e # d
    BY <1>2, <2>2 DEF IsTable
  <2> QED
    BY <2>1, <2>2
<1>8. IsTable(I, S)
  BY <1>2, <1>7 DEF IsTable
<1> QED
  BY <1>2, <1>4, <1>8 DEF I

-----------------------------------------------------------------------------
(* What steps leave as it is.                                              *)

LEMMA OutKept ==
  ASSUME Passing, UNCHANGED <<up, down, jobQue, route, serving, jobIDMap>>
  PROVE  Passing' /\ OutAt' = OutAt /\ Out' = Out
<1>1. OutAt' = OutAt
  BY DEF OutAt, Served
<1>2. Out' = Out
  BY <1>1 DEF Out, All
<1>3. up' = up /\ down' = down /\ jobQue' = jobQue /\ route' = route
  OBVIOUS
<1>4. Apart(OutAt)'
  BY <1>1 DEF Passing, Apart
<1> QED
  BY <1>1, <1>2, <1>3, <1>4 DEF Passing

LEMMA LiveKept ==
  ASSUME Waiting, Out' = Out, UNCHANGED <<route, storing, up, down>>,
         \A d \in Device : First(d)' = First(d),
         \A d \in Device : \A j \in Live(d) : Awaited(d, j) => Awaited(d, j)'
  PROVE  Waiting'
<1>0. up' = up /\ down' = down /\ storing' = storing /\ route' = route
  OBVIOUS
<1>1. ASSUME NEW d \in Device PROVE LiveAt(d)' = LiveAt(d)
  <2>1. First(d)' = First(d)
    OBVIOUS
  <2> QED
    BY <1>0, <2>1 DEF LiveAt, Coming
<1>2. ASSUME NEW d \in Device PROVE Live(d)' = Live(d)
  BY <1>1 DEF Live, All
<1>3. ASSUME NEW d \in Device PROVE Apart(LiveAt(d))'
  BY <1>1 DEF Waiting, Apart
<1>4. ASSUME NEW d \in Device PROVE Once(Asks(up[d]))' /\ Once(Answers(down[d]))'
  BY <1>0 DEF Waiting
<1>5. ASSUME NEW d \in Device, NEW j \in Live(d)' PROVE Awaited(d, j)'
  BY <1>2 DEF Waiting
<1> QED
  BY <1>3, <1>4, <1>5 DEF Waiting

(* A step of thread t to another place, its call changed. *)
Turn(t, there) ==
  /\ pc' = [pc EXCEPT ![t] = there]
  /\ \A u \in Thread \ {t} : call'[u] = call[u]

LEMMA Turned ==
  ASSUME Types, NEW t \in Thread, NEW there, Turn(t, there)
  PROVE  pc'[t] = there /\ \A u \in Thread \ {t} : pc'[u] = pc[u] /\ call'[u] = call[u]
BY DEF Types, Turn

LEMMA ExecutesKept ==
  ASSUME Types, Executes, NEW t \in Thread, NEW there, Turn(t, there),
         UNCHANGED <<serving, jobIDMap, argsTable>>,
         pc[t] # "consumeFunctionArgs", there # "consumeFunctionArgs"
  PROVE  Executes'
<1>1. ASSUME NEW d \in Device
      PROVE  pc'[<<d, "handler">>] = "consumeFunctionArgs"
               <=> pc[<<d, "handler">>] = "consumeFunctionArgs"
  <2>1. <<d, "handler">> \in Thread
    BY DEF Thread
  <2> QED
    BY <2>1, Turned
<1> QED
  BY <1>1 DEF Executes, Served

(* While other threads step a call is awaited as before. *)
LEMMA AwaitedKept ==
  ASSUME Types, NEW t \in Thread, NEW there, Turn(t, there), pc[t] \notin Since,
         NEW d \in Device, NEW j, Awaited(d, j), consumeTable'[d][j] = consumeTable[d][j]
  PROVE  Awaited(d, j)'
<1>1. PICK u \in Thread : /\ u[1] = d /\ Caller(u) /\ call[u].job = j /\ pc[u] \in Since
                          /\ ~ consumeTable[d][j]
  BY DEF Awaited
<1>2. u # t
  BY <1>1
<1> QED
  BY <1>1, <1>2, Turned DEF Awaited, Caller

-----------------------------------------------------------------------------
(* The steps of a caller before it sends anything.                         *)

LEMMA InitInductive == Init => Inductive
<1> SUFFICES ASSUME Init PROVE Inductive
  OBVIOUS
<1>1. << >> \in Seq(CallWord) /\ << >> \in Seq(Argument) /\ << >> \in Seq(Asked \union Answered)
      /\ << >> \in Seq(Passed \union Answered) /\ << >> \in Seq(Passed)
      /\ << >> \in Seq(Device \X Int)
  OBVIOUS
<1>2. ASSUME NEW S PROVE IsTable([d \in Device |-> << >>], S)
  <2>1. DOMAIN << >> = {} /\ << >> \in [{} -> S]
    OBVIOUS
  <2> QED
    BY <2>1 DEF IsTable
<1>3. pc \in [Thread -> Calling \union {"none", "run", "idle", "consumeFunctionArgs"}]
  BY DEF Init
<1>4. Types
  BY <1>1, <1>2, <1>3 DEF Init, Types
<1>5. \A t \in Thread : pc[t] \notin Calling /\ call[t] = None
  BY DEF Init, Calling, Before, Since
<1>6. ASSUME NEW d \in Device
      PROVE  pc[<<d, "handler">>] = "idle" /\ serving[d] = None
  BY DEF Init, Thread
<1>7. Phases
  BY <1>5, <1>6 DEF Phases, Caller
<1>8. ASSUME NEW d \in Device
      PROVE  /\ DOMAIN runningJobs[d] = {} /\ DOMAIN returnValueTable[d] = {}
             /\ DOMAIN consumeTable[d] = {} /\ DOMAIN jobIDMap[d] = {}
             /\ DOMAIN argsTable[d] = {}
  BY DEF Init
<1>9. Tables
  BY <1>5, <1>8 DEF Tables, Caller
<1>10. Executes
  BY <1>6, <1>8 DEF Executes, Served
<1>11. ASSUME NEW d \in Device
       PROVE  /\ up[d] = << >> /\ down[d] = << >> /\ jobQue[d] = << >>
              /\ sendQue[d]["call"] = << >> /\ storing[d] = None
  BY DEF Init, Tag
<1>12. \A x \in DOMAIN OutAt : OutAt[x] = {}
  <2>1. ASSUME NEW x \in OutPlace PROVE OutAt[x] = {}
    <3>1. /\ x[2] \in Device /\ x[1] \in {"down", "jobQue", "serving", "up"}
          /\ Served(x[2]) \subseteq {Async}
      BY <1>6 DEF OutPlace, Served
    <3> QED
      BY <1>11, <3>1, NoKeys DEF OutAt
  <2> QED
    BY <2>1 DEF OutAt
<1>13. Out = {} /\ Apart(OutAt)
  BY <1>12 DEF Out, All, Apart
<1>14. Passing
  BY <1>11, <1>13, NoKeys DEF Passing
<1>15. ASSUME NEW d \in Device PROVE \A x \in DOMAIN LiveAt(d) : LiveAt(d)[x] = {}
  <2>1. First(d) = {}
    BY <1>11 DEF AskKey, First
  <2> QED
    BY <1>11, <1>13, <2>1, NoKeys DEF LiveAt, LivePlace, Coming
<1>16. ASSUME NEW d \in Device PROVE Live(d) = {} /\ Apart(LiveAt(d))
  BY <1>15 DEF Live, All, Apart
<1>17. Waiting
  BY <1>11, <1>16, NoKeys DEF Waiting
<1> QED
  BY <1>4, <1>7, <1>9, <1>10, <1>14, <1>17 DEF Inductive

(* The threads that wait for an answer stay, and new ones may come.        *)
LEMMA JobsKept ==
  ASSUME Types, NEW t \in Thread, NEW there, Turn(t, there), ~ Caller(t), NEW d \in Device
  PROVE  Jobs(d) \subseteq Jobs(d)'
<1> SUFFICES ASSUME NEW u \in Thread, u[1] = d, Caller(u) PROVE call[u].job \in Jobs(d)'
  BY DEF Jobs
<1>1. call'[u] = call[u]
  BY Turned
<1> QED
  BY <1>1 DEF Jobs, Caller

(* A new call of a thread that makes none.                                 *)
LEMMA Begins ==
  ASSUME Types, Phases, NEW t \in Thread, pc[t] = "run",
         NEW c \in Making, call' = [call EXCEPT ![t] = c],
         c.pushed = 0,
         NEW there, there = (IF Params[c.fn] = << >> THEN "getArgsOfRC" ELSE "pushArgument"),
         pc' = [pc EXCEPT ![t] = there],
         UNCHANGED serving, \A d \in Device : jobID'[d] \in Nat /\ jobID[d] <= jobID'[d],
         c.tag = "call" => c.job = jobID[t[1]] /\ c.job < jobID'[t[1]]
  PROVE  /\ Turn(t, there) /\ call'[t] = c /\ ~ Caller(t)
         /\ there \in {"getArgsOfRC", "pushArgument"}
         /\ call' \in [Thread -> Making \union {None}]
         /\ pc' \in [Thread -> Calling \union {"none", "run", "idle", "consumeFunctionArgs"}]
         /\ Phases'
<1>1. t[1] \in Device /\ c # None
  BY NoneAssumption DEF Thread
<1>2. /\ call'[t] = c /\ Turn(t, there) /\ call' \in [Thread -> Making \union {None}]
  BY DEF Types, Turn
<1>3. there \in {"getArgsOfRC", "pushArgument"} /\ there \in Calling
  BY DEF Calling, Before
<1>4. /\ pc' \in [Thread -> Calling \union {"none", "run", "idle", "consumeFunctionArgs"}]
      /\ pc'[t] = there /\ \A u \in Thread \ {t} : pc'[u] = pc[u] /\ call'[u] = call[u]
  BY <1>2, <1>3, Turned DEF Types
<1>5. call[t] = None /\ ~ Caller(t)
  BY DEF Phases, Calling, Before, Since, Caller
<1>6. \A u \in Thread : pc'[u] \in Calling <=> call'[u] # None
  BY <1>1, <1>2, <1>3, <1>4 DEF Phases
<1>7. \A d \in Device : pc'[<<d, "handler">>] = "idle" <=> serving'[d] = None
  <2> SUFFICES ASSUME NEW d \in Device
               PROVE  pc'[<<d, "handler">>] = "idle" <=> pc[<<d, "handler">>] = "idle"
    BY DEF Phases
  <2>1. <<d, "handler">> \in Thread
    BY DEF Thread
  <2> QED
    BY <1>3, <1>4, <2>1
<1>8. Params[c.fn] # << >> => 0 < Len(Params[c.fn])
  <2>1. Params[c.fn] \in Seq(Type)
    BY FunctionAssumption DEF Making
  <2> QED
    BY <2>1
<1>9. ASSUME NEW u \in Thread, call'[u] # None
      PROVE  /\ call'[u].tag = "call" => call'[u].job < jobID'[u[1]] /\ call'[u].job \in Nat
             /\ call'[u].tag = "async" => pc'[u] \notin {"insertConsumeWait", "consumeReturn"}
             /\ pc'[u] = "pushArgument" => call'[u].pushed < Len(Params[call'[u].fn])
  <2>1. CASE u = t
    BY <1>1, <1>2, <1>3, <1>4, <1>8, <2>1 DEF Types
  <2>2. CASE u # t
    <3>1. u[1] \in Device /\ jobID[u[1]] \in Nat /\ jobID'[u[1]] \in Nat
          /\ jobID[u[1]] <= jobID'[u[1]]
      BY DEF Thread, Types
    <3>2. call'[u] = call[u] /\ pc'[u] = pc[u] /\ call[u] # None
      BY <1>4, <1>9, <2>2
    <3> QED
      BY <3>1, <3>2 DEF Phases
  <2> QED
    BY <2>1, <2>2
<1>10. ASSUME NEW u \in Thread, Caller(u)', u # t, u[1] = t[1], Caller(t)'
       PROVE  call'[u].job # call'[t].job
  <2>1. call'[u] = call[u] /\ call[u] # None /\ call[u].tag = "call"
    BY <1>4, <1>10 DEF Caller
  <2>2. call[u].job < jobID[t[1]] /\ call[u].job \in Nat /\ jobID[t[1]] \in Nat
    BY <1>1, <1>10, <2>1 DEF Phases, Types
  <2>3. call'[t].job = jobID[t[1]]
    BY <1>2, <1>10 DEF Caller
  <2> QED
    BY <2>1, <2>2, <2>3
<1>11. ASSUME NEW u \in Thread, NEW v \in Thread, Caller(u)', Caller(v)', u[1] = v[1],
              call'[u].job = call'[v].job
       PROVE  u = v
  <2>1. CASE u = t
    BY <1>10, <1>11, <2>1
  <2>2. CASE v = t
    BY <1>10, <1>11, <2>2
  <2>3. CASE u # t /\ v # t
    <3>1. Caller(u) /\ Caller(v) /\ call'[u] = call[u] /\ call'[v] = call[v]
      BY <1>4, <1>11, <2>3 DEF Caller
    <3> QED
      BY <1>11, <3>1 DEF Phases
  <2> QED
    BY <2>1, <2>2, <2>3
<1>12. Phases'
  BY <1>6, <1>7, <1>9, <1>11 DEF Phases
<1> QED
  BY <1>2, <1>3, <1>4, <1>5, <1>12

LEMMA GenerateJobIdInductive ==
  ASSUME Inductive, NEW t \in Thread, NEW site \in Site, NEW fn \in Function,
         GenerateJobId(t, fn, site)
  PROVE  Inductive'
<1> DEFINE d == t[1]
           there == IF Params[fn] = << >> THEN "getArgsOfRC" ELSE "pushArgument"
           c == [tag |-> "call", job |-> jobID[d], fn |-> fn, site |-> site, pushed |-> 0,
                 args |-> << >>]
<1>0. Types /\ Phases /\ Tables /\ Executes /\ Passing /\ Waiting
  BY DEF Inductive
<1>1. /\ pc[t] = "run" /\ pc' = [pc EXCEPT ![t] = there]
      /\ jobID' = [jobID EXCEPT ![d] = @ + 1]
      /\ runningJobs' = Insert(runningJobs, d, jobID[d], fn)
      /\ call' = [call EXCEPT ![t] = c]
      /\ UNCHANGED <<consumeTable, returnValueTable, jobIDMap, argsTable, args_list,
                     sendQue, network, serving, storing>>
  BY DEF GenerateJobId, Goto
<1>2. d \in Device /\ jobID[d] \in Nat /\ c \in Making /\ c.pushed = 0 /\ c.tag = "call"
      /\ c.fn = fn /\ c.job = jobID[d]
  BY <1>0 DEF Thread, Types, Making, Tag
<1>3. /\ jobID' \in [Device -> Nat] /\ jobID'[d] = jobID[d] + 1
      /\ \A e \in Device : jobID'[e] \in Nat /\ jobID[e] <= jobID'[e]
  BY <1>0, <1>1, <1>2 DEF Types
<1> HIDE DEF there, c
<1>4. /\ Turn(t, there) /\ call'[t] = c /\ ~ Caller(t)
      /\ there \in {"getArgsOfRC", "pushArgument"}
      /\ call' \in [Thread -> Making \union {None}]
      /\ pc' \in [Thread -> Calling \union {"none", "run", "idle", "consumeFunctionArgs"}]
      /\ Phases'
  <2>1. there = (IF Params[c.fn] = << >> THEN "getArgsOfRC" ELSE "pushArgument")
    BY <1>2 DEF there
  <2>2. c.tag = "call" => c.job = jobID[t[1]] /\ c.job < jobID'[t[1]]
    BY <1>2, <1>3
  <2>3. UNCHANGED serving
    BY <1>1
  <2> QED
    BY <1>0, <1>1, <1>2, <1>3, <2>1, <2>2, <2>3, Begins
<1>5. /\ IsTable(runningJobs', Function)
      /\ DOMAIN runningJobs'[d] = DOMAIN runningJobs[d] \union {jobID[d]}
      /\ \A e \in Device \ {d} : runningJobs'[e] = runningJobs[e]
  BY <1>0, <1>1, <1>2, Inserted DEF Types
<1>6. Types'
  BY <1>0, <1>1, <1>3, <1>4, <1>5 DEF Types, network
<1>7. \A e \in Device : Jobs(e) \subseteq Jobs(e)'
  BY <1>0, <1>4, JobsKept
<1>8. jobID[d] \in Jobs(d)'
  <2>1. call'[t] # None /\ call'[t].tag = "call" /\ call'[t].job = jobID[d]
    BY <1>2, <1>4, NoneAssumption
  <2> QED
    BY <2>1 DEF Jobs, Caller
<1>9. Tables'
  <2>1. ASSUME NEW e \in Device PROVE DOMAIN runningJobs'[e] \subseteq Jobs(e)'
    <3>1. CASE e = d
      BY <1>0, <1>2, <1>5, <1>7, <1>8, <3>1 DEF Tables
    <3>2. CASE e # d
      BY <1>0, <1>5, <1>7, <3>2 DEF Tables
    <3> QED
      BY <3>1, <3>2
  <2>2. ASSUME NEW e \in Device PROVE DOMAIN returnValueTable'[e] \subseteq Jobs(e)'
    BY <1>0, <1>1, <1>7 DEF Tables
  <2>3. ASSUME NEW e \in Device, NEW j \in DOMAIN consumeTable'[e]
        PROVE  j < jobID'[e] /\ (consumeTable'[e][j] => j \notin DOMAIN runningJobs'[e])
    <3>1. j \in DOMAIN consumeTable[e] /\ consumeTable'[e][j] = consumeTable[e][j]
      BY <1>1, <2>3
    <3>2. j < jobID[e] /\ (consumeTable[e][j] => j \notin DOMAIN runningJobs[e])
          /\ j \in Int /\ jobID[e] \in Nat
      BY <1>0, <3>1 DEF Tables, Types, IsTable
    <3>3. CASE e = d
      BY <1>3, <1>5, <3>1, <3>2, <3>3
    <3>4. CASE e # d
      <4>1. runningJobs'[e] = runningJobs[e]
        BY <1>5, <3>4
      <4> QED
        BY <1>3, <3>1, <3>2, <4>1
    <3> QED
      BY <3>3, <3>4
  <2>4. ASSUME NEW u \in Thread, Caller(u)'
        PROVE  /\ pc'[u] \in Before => call'[u].job \in DOMAIN runningJobs'[u[1]]
               /\ pc'[u] \notin Before => call'[u].job \in DOMAIN consumeTable'[u[1]]
               /\ pc'[u] = "pushJob" => ~ consumeTable'[u[1]][call'[u].job]
    <3>1. CASE u = t
      BY <1>0, <1>2, <1>4, <1>5, <3>1, Turned DEF Before
    <3>2. CASE u # t
      <4>1. pc'[u] = pc[u] /\ call'[u] = call[u] /\ Caller(u) /\ u[1] \in Device
        BY <1>0, <1>4, <2>4, <3>2, Turned DEF Caller, Thread
      <4>2. DOMAIN runningJobs[u[1]] \subseteq DOMAIN runningJobs'[u[1]]
        BY <1>5, <4>1
      <4> QED
        BY <1>0, <1>1, <4>1, <4>2 DEF Tables
    <3> QED
      BY <3>1, <3>2
  <2> QED
    BY <2>1, <2>2, <2>3, <2>4 DEF Tables
<1>10. UNCHANGED <<up, down, jobQue, route, serving, jobIDMap>>
  BY <1>1 DEF network
<1>11. Passing' /\ Out' = Out
  BY <1>0, <1>10, OutKept
<1>12. Executes'
  BY <1>0, <1>1, <1>4, ExecutesKept
<1>13. Waiting'
  <2>1. ASSUME NEW e \in Device, NEW j \in Live(e), Awaited(e, j) PROVE Awaited(e, j)'
    BY <1>0, <1>1, <1>4, <2>1, AwaitedKept DEF Since
  <2> QED
    BY <1>0, <1>1, <1>10, <1>11, <2>1, LiveKept DEF First
<1> QED
  BY <1>4, <1>6, <1>9, <1>11, <1>12, <1>13 DEF Inductive

LEMMA AsyncCallInductive ==
  ASSUME Inductive, NEW t \in Thread, NEW site \in Site, NEW fn \in Function,
         AsyncCall(t, fn, site)
  PROVE  Inductive'
<1> DEFINE there == IF Params[fn] = << >> THEN "getArgsOfRC" ELSE "pushArgument"
           c == [tag |-> "async", job |-> Async, fn |-> fn, site |-> site, pushed |-> 0,
                 args |-> << >>]
<1>0. Types /\ Phases /\ Tables /\ Executes /\ Passing /\ Waiting
  BY DEF Inductive
<1>1. /\ pc[t] = "run" /\ pc' = [pc EXCEPT ![t] = there]
      /\ call' = [call EXCEPT ![t] = c]
      /\ UNCHANGED <<jobID, runningJobs, consumeTable, returnValueTable, jobIDMap, argsTable,
                     args_list, sendQue, up, down, jobQue, route, serving, storing>>
  BY DEF AsyncCall, Goto, tables, network
<1>2. c \in Making /\ c.pushed = 0 /\ c.tag = "async" /\ c.fn = fn
  BY <1>0 DEF Thread, Types, Making, Tag, Async
<1>3. \A e \in Device : jobID'[e] \in Nat /\ jobID[e] <= jobID'[e]
  BY <1>0, <1>1 DEF Types
<1> HIDE DEF there, c
<1>4. /\ Turn(t, there) /\ call'[t] = c /\ ~ Caller(t)
      /\ there \in {"getArgsOfRC", "pushArgument"}
      /\ call' \in [Thread -> Making \union {None}]
      /\ pc' \in [Thread -> Calling \union {"none", "run", "idle", "consumeFunctionArgs"}]
      /\ Phases'
  <2>1. there = (IF Params[c.fn] = << >> THEN "getArgsOfRC" ELSE "pushArgument")
    BY <1>2 DEF there
  <2>2. c.tag = "call" => c.job = jobID[t[1]] /\ c.job < jobID'[t[1]]
    BY <1>2
  <2>3. UNCHANGED serving
    BY <1>1
  <2> QED
    BY <1>0, <1>1, <1>2, <1>3, <2>1, <2>2, <2>3, Begins
<1>5. Types'
  BY <1>0, <1>1, <1>4 DEF Types
<1>6. \A e \in Device : Jobs(e) \subseteq Jobs(e)'
  BY <1>0, <1>4, JobsKept
<1>7. Tables'
  <2>1. ASSUME NEW u \in Thread, Caller(u)'
        PROVE  pc'[u] = pc[u] /\ call'[u] = call[u] /\ Caller(u)
    <3>1. u # t
      BY <1>2, <1>4, <2>1 DEF Caller
    <3> QED
      BY <1>0, <1>4, <2>1, <3>1, Turned DEF Caller
  <2> QED
    BY <1>0, <1>1, <1>6, <2>1 DEF Tables
<1>8. Passing' /\ Out' = Out
  BY <1>0, <1>1, OutKept
<1>9. Executes'
  BY <1>0, <1>1, <1>4, ExecutesKept
<1>10. Waiting'
  <2>1. ASSUME NEW e \in Device, NEW j \in Live(e), Awaited(e, j) PROVE Awaited(e, j)'
    BY <1>0, <1>1, <1>4, <2>1, AwaitedKept DEF Since
  <2> QED
    BY <1>0, <1>1, <1>8, <2>1, LiveKept DEF First
<1> QED
  BY <1>4, <1>5, <1>7, <1>8, <1>9, <1>10 DEF Inductive

(* A thread goes on with its call, which keeps its kind and number.        *)
Going(t, there, c) ==
  /\ Turn(t, there) /\ call'[t] = c /\ c # None /\ call[t] # None
  /\ c.tag = call[t].tag /\ c.job = call[t].job

LEMMA CallersKept ==
  ASSUME Types, NEW t \in Thread, NEW there, NEW c, Going(t, there, c)
  PROVE  /\ \A u \in Thread : /\ Caller(u)' <=> Caller(u)
                              /\ Caller(u) => call'[u].job = call[u].job
         /\ \A d \in Device : Jobs(d)' = Jobs(d)
<1>1. ASSUME NEW u \in Thread
      PROVE  (Caller(u)' <=> Caller(u)) /\ (Caller(u) => call'[u].job = call[u].job)
  <2>1. CASE u = t
    BY <2>1 DEF Going, Caller
  <2>2. CASE u # t
    BY <2>2, Turned DEF Going, Caller
  <2> QED
    BY <2>1, <2>2
<1>2. ASSUME NEW d \in Device PROVE Jobs(d)' = Jobs(d)
  BY <1>1 DEF Jobs
<1> QED
  BY <1>1, <1>2

LEMMA Continues ==
  ASSUME Types, Phases, NEW t \in Thread, pc[t] \in Calling, NEW there \in Calling,
         pc' = [pc EXCEPT ![t] = there], NEW c \in Making,
         call' = [call EXCEPT ![t] = c], c.tag = call[t].tag, c.job = call[t].job,
         UNCHANGED <<serving, jobID>>,
         c.tag = "async" => there \notin {"insertConsumeWait", "consumeReturn"},
         there = "pushArgument" => c.pushed < Len(Params[c.fn])
  PROVE  /\ Going(t, there, c)
         /\ call' \in [Thread -> Making \union {None}]
         /\ pc' \in [Thread -> Calling \union {"none", "run", "idle", "consumeFunctionArgs"}]
         /\ Phases'
<1>1. call[t] # None /\ c # None
  BY NoneAssumption DEF Phases
<1>2. /\ call'[t] = c /\ Turn(t, there) /\ call' \in [Thread -> Making \union {None}]
      /\ pc' \in [Thread -> Calling \union {"none", "run", "idle", "consumeFunctionArgs"}]
  BY DEF Types, Turn
<1>3. Going(t, there, c)
  BY <1>1, <1>2 DEF Going
<1>4. pc'[t] = there /\ \A u \in Thread \ {t} : pc'[u] = pc[u] /\ call'[u] = call[u]
  BY <1>2, Turned
<1>5. \A u \in Thread : pc'[u] \in Calling <=> call'[u] # None
  BY <1>1, <1>2, <1>4 DEF Phases
<1>6. \A d \in Device : pc'[<<d, "handler">>] = "idle" <=> serving'[d] = None
  <2> SUFFICES ASSUME NEW d \in Device
               PROVE  pc'[<<d, "handler">>] = "idle" <=> pc[<<d, "handler">>] = "idle"
    BY DEF Phases
  <2>1. <<d, "handler">> \in Thread
    BY DEF Thread
  <2>2. pc[t] # "idle" /\ there # "idle"
    BY DEF Calling, Before, Since
  <2> QED
    BY <1>4, <2>1, <2>2
<1>7. ASSUME NEW u \in Thread, call'[u] # None
      PROVE  /\ call'[u].tag = "call" => call'[u].job < jobID'[u[1]] /\ call'[u].job \in Nat
             /\ call'[u].tag = "async" => pc'[u] \notin {"insertConsumeWait", "consumeReturn"}
             /\ pc'[u] = "pushArgument" => call'[u].pushed < Len(Params[call'[u].fn])
  <2>1. CASE u = t
    BY <1>1, <1>2, <1>4, <2>1 DEF Phases
  <2>2. CASE u # t
    BY <1>4, <1>7, <2>2 DEF Phases
  <2> QED
    BY <2>1, <2>2
<1>8. ASSUME NEW u \in Thread, NEW v \in Thread, Caller(u)', Caller(v)', u[1] = v[1],
              call'[u].job = call'[v].job
       PROVE  u = v
  <2>1. /\ Caller(u) /\ call'[u].job = call[u].job
        /\ Caller(v) /\ call'[v].job = call[v].job
    BY <1>3, <1>8, CallersKept
  <2> QED
    BY <1>8, <2>1 DEF Phases
<1>9. Phases'
  BY <1>5, <1>6, <1>7, <1>8 DEF Phases
<1> QED
  BY <1>2, <1>3, <1>9

(* As long as the tables stay and the thread is not past what it needs.    *)
LEMMA TablesKept ==
  ASSUME Types, Tables, NEW t \in Thread, NEW there, NEW c, Going(t, there, c),
         UNCHANGED <<jobID, runningJobs, consumeTable, returnValueTable>>,
         Caller(t) => (pc[t] \in Before <=> there \in Before) /\ there # "pushJob"
  PROVE  Tables'
<1>1. ASSUME NEW u \in Thread, Caller(u)'
      PROVE  /\ pc'[u] \in Before => call'[u].job \in DOMAIN runningJobs'[u[1]]
             /\ pc'[u] \notin Before => call'[u].job \in DOMAIN consumeTable'[u[1]]
             /\ pc'[u] = "pushJob" => ~ consumeTable'[u[1]][call'[u].job]
  <2>1. Caller(u) /\ call'[u].job = call[u].job
    BY <1>1, CallersKept
  <2>2. CASE u = t
    BY <2>1, <2>2, Turned DEF Tables, Going
  <2>3. CASE u # t
    BY <2>1, <2>3, Turned DEF Tables, Going
  <2> QED
    BY <2>2, <2>3
<1>2. \A d \in Device : Jobs(d)' = Jobs(d)
  BY CallersKept
<1> QED
  BY <1>1, <1>2 DEF Tables

(* A call is awaited as before also when the thread that waits goes on.    *)
LEMMA AwaitedStill ==
  ASSUME Types, NEW t \in Thread, NEW there, NEW c, Going(t, there, c),
         pc[t] \in Since => there \in Since,
         NEW d \in Device, NEW j, Awaited(d, j), consumeTable'[d][j] = consumeTable[d][j]
  PROVE  Awaited(d, j)'
<1>1. PICK u \in Thread : /\ u[1] = d /\ Caller(u) /\ call[u].job = j /\ pc[u] \in Since
                          /\ ~ consumeTable[d][j]
  BY DEF Awaited
<1>2. Caller(u)' /\ call'[u].job = j
  BY <1>1, CallersKept
<1>3. pc'[u] \in Since
  <2>1. CASE u = t
    BY <1>1, <2>1, Turned DEF Going
  <2>2. CASE u # t
    BY <1>1, <2>2, Turned DEF Going
  <2> QED
    BY <2>1, <2>2
<1> QED
  BY <1>1, <1>2, <1>3 DEF Awaited

LEMMA Sizes ==
  ASSUME NEW d \in Device, NEW type \in Type \union {"void"}
  PROVE  AllocSize(d, type) \in Nat
BY FunctionAssumption DEF AllocSize, Type

LEMMA PackedType ==
  ASSUME NEW d \in Device, NEW j \in Int, NEW type \in Type, NEW i \in Nat
  PROVE  Packed(d, <<d, j>>, type, i) \in Seq(Argument)
<1> DEFINE n == IF type = "pointer" THEN 1 ELSE AllocSize(d, type)
<1>1. n \in Nat
  BY Sizes
<1> HIDE DEF n
<1>2. \A k \in 1 .. n : Word("argument", <<<<d, j>>, i, k>>) \in Argument
  BY <1>1 DEF Word, Argument
<1>3. Packed(d, <<d, j>>, type, i) = [k \in 1 .. n |-> Word("argument", <<<<d, j>>, i, k>>)]
  BY DEF Packed, n
<1>4. Packed(d, <<d, j>>, type, i) \in [1 .. n -> Argument]
  BY <1>2, <1>3
<1> QED
  BY <1>1, <1>4, SeqDef

LEMMA PushArgumentInductive ==
  ASSUME Inductive, NEW t \in Thread, PushArgument(t) PROVE Inductive'
<1> DEFINE d == t[1]
           types == Params[call[t].fn]
           i == call[t].pushed + 1
           there == IF i = Len(types) THEN "getArgsOfRC" ELSE "pushArgument"
           c == [call[t] EXCEPT !.pushed = i]
           more == Packed(d, <<d, call[t].job>>, types[i], i)
<1>0. Types /\ Phases /\ Tables /\ Executes /\ Passing /\ Waiting
  BY DEF Inductive
<1>1. /\ pc[t] = "pushArgument" /\ pc' = [pc EXCEPT ![t] = there]
      /\ call' = [call EXCEPT ![t].pushed = i]
      /\ args_list' = [args_list EXCEPT ![d][call[t].site] = @ \o more]
      /\ UNCHANGED <<jobID, runningJobs, consumeTable, returnValueTable, jobIDMap, argsTable,
                     sendQue, up, down, jobQue, route, serving, storing>>
  BY DEF PushArgument, Goto, network
<1>2. /\ call[t] \in Making /\ call[t].pushed < Len(types) /\ d \in Device
      /\ call[t].pushed \in Nat /\ call[t].job \in Int /\ call[t].site \in Site
      /\ types \in Seq(Type)
  <2>1. call[t] # None
    BY <1>0, <1>1 DEF Phases, Calling, Before
  <2>2. call[t] \in Making
    BY <1>0, <2>1 DEF Types
  <2>3. types \in Seq(Type)
    BY <2>2, FunctionAssumption DEF Making
  <2> QED
    BY <1>0, <1>1, <2>1, <2>2, <2>3 DEF Phases, Making, Thread
<1>3. /\ c \in Making /\ c.tag = call[t].tag /\ c.job = call[t].job /\ c.pushed = i
      /\ c.fn = call[t].fn
  BY <1>2 DEF Making
<1>4. call' = [call EXCEPT ![t] = c]
  BY <1>0, <1>1 DEF Types
<1>5. more \in Seq(Argument)
  <2>1. i \in Nat /\ types[i] \in Type
    BY <1>2
  <2> QED
    BY <1>2, <2>1, PackedType
<1>6. args_list' \in [Device -> [Site -> Seq(Argument)]]
  <2>1. args_list[d][call[t].site] \o more \in Seq(Argument)
    BY <1>0, <1>2, <1>5 DEF Types
  <2> HIDE DEF more
  <2> QED
    BY <1>0, <1>1, <1>2, <2>1 DEF Types
<1>7. there \in Before /\ (there = "pushArgument" => c.pushed < Len(Params[c.fn]))
  BY <1>2, <1>3 DEF Before
<1> HIDE DEF there, c, more
<1>8. /\ Going(t, there, c)
      /\ call' \in [Thread -> Making \union {None}]
      /\ pc' \in [Thread -> Calling \union {"none", "run", "idle", "consumeFunctionArgs"}]
      /\ Phases'
  <2>1. pc[t] \in Calling /\ there \in Calling /\ UNCHANGED <<serving, jobID>>
    BY <1>1, <1>7 DEF Calling, Before
  <2>2. c.tag = "async" => there \notin {"insertConsumeWait", "consumeReturn"}
    BY DEF there
  <2> QED
    BY <1>0, <1>1, <1>3, <1>4, <1>7, <2>1, <2>2, Continues
<1>9. Types'
  BY <1>0, <1>1, <1>6, <1>8 DEF Types
<1>10. Tables'
  BY <1>0, <1>1, <1>7, <1>8, TablesKept DEF Before
<1>11. Passing' /\ Out' = Out
  BY <1>0, <1>1, OutKept
<1>12. Executes'
  BY <1>0, <1>1, <1>7, <1>8, ExecutesKept DEF Going, Before
<1>13. Waiting'
  <2>1. ASSUME NEW e \in Device, NEW j \in Live(e), Awaited(e, j) PROVE Awaited(e, j)'
    <3>1. pc[t] \notin Since
      BY <1>1 DEF Since
    <3> QED
      BY <1>0, <1>1, <1>8, <2>1, <3>1, AwaitedKept DEF Going
  <2> QED
    BY <1>0, <1>1, <1>11, <2>1, LiveKept DEF First
<1> QED
  BY <1>8, <1>9, <1>10, <1>11, <1>12, <1>13 DEF Inductive

LEMMA GetArgsOfRCInductive ==
  ASSUME Inductive, NEW t \in Thread, GetArgsOfRC(t) PROVE Inductive'
<1> DEFINE d == t[1]
           there == IF call[t].tag = "call" THEN "insertConsumeWait" ELSE "pushJob"
           c == [call[t] EXCEPT !.args = args_list[d][call[t].site]]
<1>0. Types /\ Phases /\ Tables /\ Executes /\ Passing /\ Waiting
  BY DEF Inductive
<1>1. /\ pc[t] = "getArgsOfRC" /\ pc' = [pc EXCEPT ![t] = there]
      /\ call' = [call EXCEPT ![t].args = args_list[d][call[t].site]]
      /\ args_list' = [args_list EXCEPT ![d][call[t].site] = << >>]
      /\ UNCHANGED <<jobID, runningJobs, consumeTable, returnValueTable, jobIDMap, argsTable,
                     sendQue, up, down, jobQue, route, serving, storing>>
  BY DEF GetArgsOfRC, Goto, network
<1>2. call[t] \in Making /\ d \in Device /\ call[t].site \in Site /\ call[t] # None
  <2>1. call[t] # None
    BY <1>0, <1>1 DEF Phases, Calling, Before
  <2> QED
    BY <1>0, <2>1 DEF Types, Making, Thread
<1>3. c \in Making /\ c.tag = call[t].tag /\ c.job = call[t].job
  <2>1. args_list[d][call[t].site] \in Seq(Argument)
    BY <1>0, <1>2 DEF Types
  <2> QED
    BY <1>2, <2>1 DEF Making
<1>4. call' = [call EXCEPT ![t] = c]
  BY <1>0, <1>1 DEF Types
<1>5. args_list' \in [Device -> [Site -> Seq(Argument)]]
  <2>1. << >> \in Seq(Argument)
    OBVIOUS
  <2> QED
    BY <1>0, <1>1, <1>2, <2>1 DEF Types
<1>6. /\ there \in Calling \ Since /\ there # "consumeFunctionArgs"
      /\ Caller(t) => there \in Before /\ there # "pushJob"
  BY DEF Calling, Before, Since, Caller
<1> HIDE DEF c
<1>7. /\ Going(t, there, c)
      /\ call' \in [Thread -> Making \union {None}]
      /\ pc' \in [Thread -> Calling \union {"none", "run", "idle", "consumeFunctionArgs"}]
      /\ Phases'
  <2>1. pc[t] \in Calling /\ UNCHANGED <<serving, jobID>>
    BY <1>1 DEF Calling, Before
  <2>2. /\ c.tag = "async" => there \notin {"insertConsumeWait", "consumeReturn"}
        /\ there # "pushArgument"
    BY <1>3
  <2> HIDE DEF there
  <2> QED
    BY <1>0, <1>1, <1>3, <1>4, <1>6, <2>1, <2>2, Continues
<1> HIDE DEF there
<1>8. Types'
  BY <1>0, <1>1, <1>5, <1>7 DEF Types
<1>9. Tables'
  BY <1>0, <1>1, <1>6, <1>7, TablesKept DEF Before
<1>10. Passing' /\ Out' = Out
  BY <1>0, <1>1, OutKept
<1>11. Executes'
  BY <1>0, <1>1, <1>6, <1>7, ExecutesKept DEF Going
<1>12. Waiting'
  <2>1. ASSUME NEW e \in Device, NEW j \in Live(e), Awaited(e, j) PROVE Awaited(e, j)'
    <3>1. pc[t] \notin Since
      BY <1>1 DEF Since
    <3> QED
      BY <1>0, <1>1, <1>7, <2>1, <3>1, AwaitedKept DEF Going
  <2> QED
    BY <1>0, <1>1, <1>10, <2>1, LiveKept DEF First
<1> QED
  BY <1>7, <1>8, <1>9, <1>10, <1>11, <1>12 DEF Inductive

LEMMA InsertConsumeWaitInductive ==
  ASSUME Inductive, NEW t \in Thread, InsertConsumeWait(t) PROVE Inductive'
<1> DEFINE d == t[1]
           job == call[t].job
           c == [call[t] EXCEPT !.fn = runningJobs[d][job]]
<1>0. Types /\ Phases /\ Tables /\ Executes /\ Passing /\ Waiting
  BY DEF Inductive
<1>1. /\ pc[t] = "insertConsumeWait" /\ pc' = [pc EXCEPT ![t] = "pushJob"]
      /\ call' = [call EXCEPT ![t].fn = runningJobs[d][job]]
      /\ consumeTable' = Insert(consumeTable, d, job, FALSE)
      /\ UNCHANGED <<jobID, runningJobs, returnValueTable, jobIDMap, argsTable, args_list,
                     sendQue, up, down, jobQue, route, serving, storing>>
  BY DEF InsertConsumeWait, Goto, network
<1>2. /\ call[t] \in Making /\ d \in Device /\ call[t] # None /\ Caller(t) /\ job \in Nat
      /\ job < jobID[d] /\ job \in DOMAIN runningJobs[d]
  <2>1. call[t] # None
    BY <1>0, <1>1 DEF Phases, Calling, Before
  <2>2. call[t] \in Making /\ d \in Device
    BY <1>0, <2>1 DEF Types, Thread
  <2>3. Caller(t)
    BY <1>0, <1>1, <2>1, <2>2 DEF Phases, Caller, Making, Tag
  <2> QED
    BY <1>0, <1>1, <2>1, <2>2, <2>3 DEF Phases, Tables, Caller, Before
<1>3. c \in Making /\ c.tag = call[t].tag /\ c.job = call[t].job
  <2>1. runningJobs[d][job] \in Function
    BY <1>0, <1>2 DEF Types, IsTable
  <2> QED
    BY <1>2, <2>1 DEF Making
<1>4. call' = [call EXCEPT ![t] = c]
  BY <1>0, <1>1 DEF Types
<1>5. /\ IsTable(consumeTable', BOOLEAN)
      /\ DOMAIN consumeTable'[d] = DOMAIN consumeTable[d] \union {job}
      /\ consumeTable'[d][job] = FALSE
      /\ \A k \in DOMAIN consumeTable[d] : k # job => consumeTable'[d][k] = consumeTable[d][k]
      /\ \A e \in Device \ {d} : consumeTable'[e] = consumeTable[e]
  <2> DEFINE no == FALSE
  <2>1. consumeTable' = Insert(consumeTable, d, job, no) /\ no \in BOOLEAN /\ no = FALSE
    BY <1>1
  <2>2. IsTable(consumeTable, BOOLEAN) /\ job \in Int /\ d \in Device
    BY <1>0, <1>2 DEF Types
  <2> HIDE DEF job, d, no
  <2>3. /\ IsTable(consumeTable', BOOLEAN)
        /\ DOMAIN consumeTable'[d] = DOMAIN consumeTable[d] \union {job}
        /\ consumeTable'[d][job] = no
        /\ \A k \in DOMAIN consumeTable[d] : k # job => consumeTable'[d][k] = consumeTable[d][k]
        /\ \A e \in Device \ {d} : consumeTable'[e] = consumeTable[e]
    BY <2>1, <2>2, Inserted
  <2> QED
    BY <2>1, <2>3
<1> HIDE DEF c
<1>6. /\ Going(t, "pushJob", c)
      /\ call' \in [Thread -> Making \union {None}]
      /\ pc' \in [Thread -> Calling \union {"none", "run", "idle", "consumeFunctionArgs"}]
      /\ Phases'
  <2>1. pc[t] \in Calling /\ UNCHANGED <<serving, jobID>> /\ "pushJob" \in Calling
    BY <1>1 DEF Calling, Before
  <2>2. "pushJob" \notin {"insertConsumeWait", "consumeReturn"} /\ "pushJob" # "pushArgument"
    OBVIOUS
  <2> QED
    BY <1>0, <1>1, <1>3, <1>4, <2>1, <2>2, Continues
<1>7. Types'
  BY <1>0, <1>1, <1>5, <1>6 DEF Types
<1>8. \A u \in Thread : Caller(u)' => Caller(u) /\ call'[u].job = call[u].job
  BY <1>0, <1>6, CallersKept
<1>9. \A e \in Device : Jobs(e)' = Jobs(e)
  BY <1>0, <1>6, CallersKept
<1>10. Tables'
  <2>1. ASSUME NEW e \in Device, NEW j \in DOMAIN consumeTable'[e]
        PROVE  j < jobID'[e] /\ (consumeTable'[e][j] => j \notin DOMAIN runningJobs'[e])
    <3>1. CASE e = d /\ j = job
      BY <1>1, <1>2, <1>5, <3>1
    <3>2. CASE ~ (e = d /\ j = job)
      <4>1. j \in DOMAIN consumeTable[e] /\ consumeTable'[e][j] = consumeTable[e][j]
        BY <1>5, <2>1, <3>2
      <4> QED
        BY <1>0, <1>1, <4>1 DEF Tables
    <3> QED
      BY <3>1, <3>2
  <2>2. ASSUME NEW u \in Thread, Caller(u)'
        PROVE  /\ pc'[u] \in Before => call'[u].job \in DOMAIN runningJobs'[u[1]]
               /\ pc'[u] \notin Before => call'[u].job \in DOMAIN consumeTable'[u[1]]
               /\ pc'[u] = "pushJob" => ~ consumeTable'[u[1]][call'[u].job]
    <3>1. Caller(u) /\ call'[u].job = call[u].job /\ u[1] \in Device
      BY <1>8, <2>2 DEF Thread
    <3>2. CASE u = t
      <4>1. pc'[t] = "pushJob" /\ "pushJob" \notin Before
        BY <1>0, <1>6, Turned DEF Going, Before
      <4> QED
        BY <1>5, <3>1, <3>2, <4>1
    <3>3. CASE u # t
      <4>1. pc'[u] = pc[u]
        BY <1>0, <1>6, <3>3, Turned DEF Going
      <4>2. u[1] = d => call[u].job # job
        BY <1>0, <1>2, <3>1, <3>3 DEF Phases
      <4>3. /\ DOMAIN consumeTable[u[1]] \subseteq DOMAIN consumeTable'[u[1]]
            /\ call[u].job \in DOMAIN consumeTable[u[1]] =>
                 consumeTable'[u[1]][call[u].job] = consumeTable[u[1]][call[u].job]
        BY <1>5, <3>1, <4>2
      <4>4. "pushJob" \notin Before
        BY DEF Before
      <4> QED
        BY <1>0, <1>1, <3>1, <4>1, <4>3, <4>4 DEF Tables
    <3> QED
      BY <3>2, <3>3
  <2> QED
    BY <1>0, <1>1, <1>9, <2>1, <2>2 DEF Tables
<1>11. Passing' /\ Out' = Out
  BY <1>0, <1>1, OutKept
<1>12. Executes'
  BY <1>0, <1>1, <1>6, ExecutesKept DEF Going
<1>13. Waiting'
  <2>1. ASSUME NEW e \in Device, NEW j \in Live(e), Awaited(e, j) PROVE Awaited(e, j)'
    <3>1. pc[t] \notin Since
      BY <1>1 DEF Since
    <3>2. PICK u \in Thread : u[1] = e /\ Caller(u) /\ call[u].job = j /\ pc[u] \in Since
      BY <2>1 DEF Awaited
    <3>3. ~ (e = d /\ j = job)
      BY <1>0, <1>2, <3>1, <3>2 DEF Phases
    <3>4. j \in DOMAIN consumeTable[e]
      <4>1. pc[u] \notin Before
        BY <3>2 DEF Since, Before
      <4> QED
        BY <1>0, <3>2, <4>1 DEF Tables
    <3>5. consumeTable'[e][j] = consumeTable[e][j]
      BY <1>5, <3>3, <3>4
    <3> QED
      BY <1>0, <1>6, <2>1, <3>1, <3>5, AwaitedKept DEF Going
  <2> QED
    BY <1>0, <1>1, <1>11, <2>1, LiveKept DEF First
<1> QED
  BY <1>6, <1>7, <1>10, <1>11, <1>12, <1>13 DEF Inductive

-----------------------------------------------------------------------------
(* The message of a call.                                                  *)

(* Every word of a message fits its queue, and other queues stay.          *)
LEMMA Pushed ==
  ASSUME Inductive, NEW t \in Thread, NEW words \in Seq(CallWord), Push(t, words),
         pc[t] \in Calling, NEW there \in Since, there # "consumeReturn",
         pc' = [pc EXCEPT ![t] = there], pc[t] \notin Before
  PROVE  /\ Types' /\ Phases' /\ Tables' /\ Executes' /\ Passing' /\ Out' = Out
         /\ Going(t, there, call[t])
         /\ \A d \in Device : sendQue'[d]["call"] =
              IF d = t[1] /\ call[t].tag = "call" THEN sendQue[d]["call"] \o words
                                                  ELSE sendQue[d]["call"]
<1> DEFINE d == t[1]
           tag == call[t].tag
<1>0. Types /\ Phases /\ Tables /\ Executes /\ Passing /\ Waiting
  BY DEF Inductive
<1>1. /\ sendQue' = [sendQue EXCEPT ![d][tag] = @ \o words]
      /\ UNCHANGED <<jobID, runningJobs, consumeTable, returnValueTable, jobIDMap, argsTable,
                     args_list, up, down, jobQue, route, serving, storing>> /\ call' = call
  BY DEF Push, tables, network
<1>2. call[t] \in Making /\ call[t] # None /\ d \in Device /\ tag \in Tag
  <2>1. call[t] # None
    BY <1>0 DEF Phases
  <2> QED
    BY <1>0, <2>1 DEF Types, Making, Thread
<1>3. call' = [call EXCEPT ![t] = call[t]]
  BY <1>0, <1>1 DEF Types
<1>4. /\ Going(t, there, call[t])
      /\ call' \in [Thread -> Making \union {None}]
      /\ pc' \in [Thread -> Calling \union {"none", "run", "idle", "consumeFunctionArgs"}]
      /\ Phases'
  <2>1. /\ there \in Calling /\ there # "pushArgument"
        /\ there \notin {"insertConsumeWait", "consumeReturn"} /\ UNCHANGED <<serving, jobID>>
    BY <1>1 DEF Calling, Since
  <2> QED
    BY <1>0, <1>2, <1>3, <2>1, Continues
<1>5. sendQue[d][tag] \o words \in Seq(CallWord)
  BY <1>0, <1>2 DEF Types
<1>6. sendQue' \in [Device -> [Tag -> Seq(CallWord)]]
  BY <1>0, <1>1, <1>2, <1>5 DEF Types
<1>7. Types'
  BY <1>0, <1>1, <1>4, <1>6 DEF Types
<1>8. Tables'
  <2>1. there \notin Before /\ there # "pushJob"
    BY DEF Since, Before
  <2> QED
    BY <1>0, <1>1, <1>4, <2>1, TablesKept
<1>9. Executes'
  <2>1. there # "consumeFunctionArgs" /\ pc[t] # "consumeFunctionArgs"
    BY DEF Since, Before, Calling
  <2> QED
    BY <1>0, <1>1, <1>4, <2>1, ExecutesKept DEF Going
<1>10. Passing' /\ Out' = Out
  BY <1>0, <1>1, OutKept
<1>11. ASSUME NEW e \in Device
       PROVE  sendQue'[e]["call"] =
                IF e = d /\ tag = "call" THEN sendQue[e]["call"] \o words
                                         ELSE sendQue[e]["call"]
  <2>1. "call" \in Tag
    BY DEF Tag
  <2> QED
    BY <1>0, <1>1, <1>2, <2>1 DEF Types
<1> QED
  BY <1>4, <1>7, <1>8, <1>9, <1>10, <1>11

(* A word that is no number does not change what the queue begins with.    *)
LEMMA PushedNoJob ==
  ASSUME Inductive, NEW t \in Thread, NEW words \in Seq(CallWord), Push(t, words),
         pc[t] \in Since, NEW there \in Since, there # "consumeReturn",
         pc' = [pc EXCEPT ![t] = there],
         words # << >> => words[1].kind # "job"
  PROVE  Inductive'
<1>0. Types /\ Waiting
  BY DEF Inductive
<1>1. pc[t] \in Calling /\ pc[t] \notin Before
  BY DEF Calling, Since, Before
<1>2. /\ Types' /\ Phases' /\ Tables' /\ Executes' /\ Passing' /\ Out' = Out
      /\ Going(t, there, call[t])
  BY <1>1, Pushed
<1>3. \A d \in Device : sendQue'[d]["call"] =
              IF d = t[1] /\ call[t].tag = "call" THEN sendQue[d]["call"] \o words
                                                  ELSE sendQue[d]["call"]
  BY <1>1, Pushed
<1>4. ASSUME NEW d \in Device PROVE First(d)' = First(d)
  <2>1. sendQue[d]["call"] \in Seq(CallWord)
    BY <1>0 DEF Types, Tag
  <2>2. First(d)' = AskKey([tag |-> "call", words |-> sendQue'[d]["call"]])
    BY DEF First
  <2>3. CASE sendQue'[d]["call"] = sendQue[d]["call"]
    BY <2>2, <2>3 DEF First
  <2>4. CASE sendQue'[d]["call"] = sendQue[d]["call"] \o words
    <3> DEFINE q == sendQue[d]["call"]
               n == sendQue'[d]["call"]
    <3>1. q # << >> => n # << >> /\ n[1] = q[1]
      BY <2>1, <2>4
    <3>2. q = << >> => n = words
      BY <2>4
    <3> HIDE DEF q, n
    <3>3. AskKey([tag |-> "call", words |-> n]) = AskKey([tag |-> "call", words |-> q])
      BY <3>1, <3>2 DEF AskKey
    <3> QED
      BY <2>2, <3>3 DEF First, q, n
  <2> QED
    BY <1>3, <2>3, <2>4
<1>5. UNCHANGED <<route, storing, up, down, consumeTable>>
  BY DEF Push, network, tables
<1>6. Waiting'
  <2>1. ASSUME NEW e \in Device, NEW j \in Live(e), Awaited(e, j) PROVE Awaited(e, j)'
    BY <1>0, <1>2, <1>5, <2>1, AwaitedStill
  <2> QED
    BY <1>0, <1>2, <1>4, <1>5, <2>1, LiveKept
<1> QED
  BY <1>2, <1>6 DEF Inductive

LEMMA PushFunctionInductive ==
  ASSUME Inductive, NEW t \in Thread, PushFunction(t) PROVE Inductive'
<1>1. /\ pc[t] = "pushFunction" /\ pc' = [pc EXCEPT ![t] = "pushArgs"]
      /\ Push(t, <<Word("function", call[t].fn)>>)
  BY DEF PushFunction, Goto
<1>2. call[t].fn \in Function
  <2>1. call[t] # None
    BY <1>1 DEF Inductive, Phases, Calling, Since
  <2> QED
    BY <2>1 DEF Inductive, Types, Making
<1>3. Word("function", call[t].fn) \in CallWord /\ Word("function", call[t].fn).kind = "function"
  BY <1>2 DEF Word, CallWord
<1> DEFINE words == <<Word("function", call[t].fn)>>
<1>4. words \in Seq(CallWord) /\ words[1].kind # "job" /\ Push(t, words)
  BY <1>1, <1>3
<1>5. pc[t] \in Since /\ "pushArgs" \in Since
  BY <1>1 DEF Since
<1> HIDE DEF words
<1> QED
  BY <1>1, <1>4, <1>5, PushedNoJob

LEMMA PushArgsInductive ==
  ASSUME Inductive, NEW t \in Thread, PushArgs(t) PROVE Inductive'
<1>1. /\ pc[t] = "pushArgs" /\ pc' = [pc EXCEPT ![t] = "sendQue"]
      /\ Push(t, call[t].args)
  BY DEF PushArgs, Goto
<1>2. call[t].args \in Seq(Argument)
  <2>1. call[t] # None
    BY <1>1 DEF Inductive, Phases, Calling, Since
  <2> QED
    BY <2>1 DEF Inductive, Types, Making
<1>3. call[t].args \in Seq(CallWord)
  BY <1>2 DEF CallWord
<1>4. call[t].args # << >> => call[t].args[1].kind # "job"
  <2>1. call[t].args # << >> => call[t].args[1] \in Argument
    BY <1>2
  <2> QED
    BY <2>1 DEF Argument
<1>5. pc[t] \in Since /\ "sendQue" \in Since
  BY <1>1 DEF Since
<1> QED
  BY <1>1, <1>3, <1>4, <1>5, PushedNoJob

LEMMA PushJobInductive ==
  ASSUME Inductive, NEW t \in Thread, PushJob(t) PROVE Inductive'
<1> DEFINE d == t[1]
           job == call[t].job
           words == <<Word("job", job)>>
<1>0. Types /\ Phases /\ Tables /\ Waiting
  BY DEF Inductive
<1>1. /\ pc[t] = "pushJob" /\ pc' = [pc EXCEPT ![t] = "pushFunction"]
      /\ Push(t, words)
  BY DEF PushJob, Goto
<1>2. call[t] # None /\ d \in Device /\ job \in Int
  <2>1. call[t] # None
    BY <1>0, <1>1 DEF Phases, Calling
  <2> QED
    BY <1>0, <2>1 DEF Types, Making, Thread
<1>3. words \in Seq(CallWord) /\ words # << >> /\ words[1].kind = "job" /\ words[1].value = job
  BY <1>2 DEF Word, CallWord
<1> HIDE DEF words
<1>4. /\ pc[t] \in Calling /\ pc[t] \notin Before /\ pc[t] \notin Since
      /\ "pushFunction" \in Since
  BY <1>1 DEF Calling, Before, Since
<1>5. /\ Types' /\ Phases' /\ Tables' /\ Executes' /\ Passing' /\ Out' = Out
      /\ Going(t, "pushFunction", call[t])
  BY <1>1, <1>3, <1>4, Pushed
<1>6. \A e \in Device : sendQue'[e]["call"] =
              IF e = d /\ call[t].tag = "call" THEN sendQue[e]["call"] \o words
                                               ELSE sendQue[e]["call"]
  BY <1>1, <1>3, <1>4, Pushed
<1>7. route' = route /\ storing' = storing /\ up' = up /\ down' = down
      /\ consumeTable' = consumeTable
  BY <1>1 DEF Push, network, tables
<1>8. ASSUME NEW e \in Device
      PROVE  \/ First(e)' = First(e)
             \/ e = d /\ Caller(t) /\ First(e) = {} /\ First(e)' = {job}
  <2>1. sendQue[e]["call"] \in Seq(CallWord)
    BY <1>0 DEF Types, Tag
  <2>2. First(e)' = AskKey([tag |-> "call", words |-> sendQue'[e]["call"]])
    BY DEF First
  <2>3. CASE ~ (e = d /\ call[t].tag = "call")
    BY <1>6, <2>2, <2>3 DEF First
  <2>4. CASE e = d /\ call[t].tag = "call"
    <3> DEFINE q == sendQue[e]["call"]
               n == sendQue'[e]["call"]
    <3>0. n = q \o words /\ q \in Seq(CallWord)
      BY <1>6, <2>1, <2>4
    <3>1. q # << >> => n # << >> /\ n[1] = q[1]
      BY <1>3, <3>0
    <3>2. q = << >> => n = words
      BY <1>3, <3>0
    <3> HIDE DEF q, n
    <3>3. CASE q # << >>
      <4>1. AskKey([tag |-> "call", words |-> n]) = AskKey([tag |-> "call", words |-> q])
        BY <3>1, <3>3 DEF AskKey
      <4> QED
        BY <2>2, <4>1 DEF First, q, n
    <3>4. CASE q = << >>
      <4>1. AskKey([tag |-> "call", words |-> n]) = {job}
        BY <1>3, <3>2, <3>4 DEF AskKey
      <4>2. AskKey([tag |-> "call", words |-> q]) = {}
        BY <3>4 DEF AskKey
      <4> QED
        BY <1>2, <2>2, <2>4, <4>1, <4>2 DEF First, q, n, Caller
    <3> QED
      BY <3>3, <3>4
  <2> QED
    BY <2>3, <2>4
<1>9. ASSUME NEW e \in Device, NEW j, Awaited(e, j) PROVE Awaited(e, j)'
  BY <1>0, <1>4, <1>5, <1>7, <1>9, AwaitedStill
<1>10. CASE \A e \in Device : First(e)' = First(e)
  BY <1>0, <1>5, <1>7, <1>9, <1>10, LiveKept DEF Inductive
<1>11. CASE Caller(t) /\ First(d) = {} /\ First(d)' = {job} /\
            \A e \in Device \ {d} : First(e)' = First(e)
  <2>1. job \notin Live(d)
    <3>1. SUFFICES ASSUME Awaited(d, job) PROVE FALSE
      BY <1>0, <1>2 DEF Waiting
    <3>2. PICK u \in Thread : u[1] = d /\ Caller(u) /\ call[u].job = job /\ pc[u] \in Since
      BY <3>1 DEF Awaited
    <3> QED
      BY <1>0, <1>4, <1>11, <3>2 DEF Phases
  <2>2. ASSUME NEW e \in Device, e # d PROVE LiveAt(e)' = LiveAt(e)
    <3>1. First(e)' = First(e)
      BY <1>11, <2>2
    <3> QED
      BY <1>5, <1>7, <3>1 DEF LiveAt, Coming
  <2>3. /\ DOMAIN LiveAt(d)' = DOMAIN LiveAt(d) /\ "sendQue" \in DOMAIN LiveAt(d)
        /\ LiveAt(d)'["sendQue"] = LiveAt(d)["sendQue"] \union {job}
        /\ \A x \in DOMAIN LiveAt(d) \ {"sendQue"} : LiveAt(d)'[x] = LiveAt(d)[x]
    BY <1>5, <1>7, <1>11 DEF LiveAt, LivePlace, Coming
  <2>4. Apart(LiveAt(d)') /\ All(LiveAt(d)') = All(LiveAt(d)) \union {job}
    <3>1. Apart(LiveAt(d)) /\ {job} \intersect All(LiveAt(d)) = {}
      BY <1>0, <1>2, <2>1 DEF Waiting, Live
    <3> DEFINE F == LiveAt(d)
               G == LiveAt(d)'
               y == "sendQue"
               K == {job}
    <3>2. /\ y \in DOMAIN F /\ DOMAIN G = DOMAIN F /\ Apart(F)
          /\ K \intersect All(F) = {} /\ G[y] = F[y] \union K
          /\ \A x \in DOMAIN F \ {y} : G[x] = F[x]
      BY <2>3, <3>1
    <3> HIDE DEF F, G, y, K
    <3>3. Apart(G) /\ All(G) = All(F) \union K
      BY <3>2, Adds
    <3> QED
      BY <3>3 DEF F, G, K
  <2>5. ASSUME NEW j, j = job PROVE Awaited(d, j)'
    <3>1. Caller(t)' /\ call'[t].job = j
      BY <1>0, <1>5, <1>11, <2>5, CallersKept
    <3>2. pc'[t] = "pushFunction"
      BY <1>0, <1>5, Turned DEF Going
    <3>3. ~ consumeTable[d][j]
      BY <1>0, <1>1, <1>11, <2>5 DEF Tables
    <3> QED
      BY <1>4, <1>7, <3>1, <3>2, <3>3 DEF Awaited
  <2>6. ASSUME NEW e \in Device
        PROVE  /\ Apart(LiveAt(e))' /\ Once(Asks(up[e]))' /\ Once(Answers(down[e]))'
               /\ \A j \in Live(e)' : Awaited(e, j)'
    <3>1. Once(Asks(up[e]))' /\ Once(Answers(down[e]))'
      BY <1>0, <1>7 DEF Waiting
    <3>2. CASE e = d
      <4>1. \A j \in Live(d)' : j \in Live(d) \/ j = job
        BY <2>4 DEF Live
      <4>2. ASSUME NEW j \in Live(d)' PROVE Awaited(d, j)'
        <5>1. CASE j \in Live(d)
          <6>1. Awaited(d, j)
            BY <1>0, <1>2, <5>1 DEF Waiting
          <6> QED
            BY <1>2, <1>9, <6>1
        <5>2. CASE j = job
          BY <2>5, <5>2
        <5> QED
          BY <4>1, <4>2, <5>1, <5>2
      <4> QED
        BY <2>4, <3>1, <3>2, <4>2
    <3>3. CASE e # d
      <4>1. LiveAt(e)' = LiveAt(e)
        BY <2>2, <3>3
      <4>2. Live(e)' = Live(e) /\ Apart(LiveAt(e))'
        BY <1>0, <4>1 DEF Live, Waiting
      <4> QED
        BY <1>0, <1>9, <3>1, <4>2 DEF Waiting
    <3> QED
      BY <3>2, <3>3
  <2>7. Waiting'
    BY <2>6 DEF Waiting
  <2> QED
    BY <1>5, <2>7 DEF Inductive
<1> QED
  BY <1>2, <1>8, <1>10, <1>11

(* Steps that change the places of the calls. *)
LEMMA OutSame ==
  ASSUME Passing, UNCHANGED route, \A x \in OutPlace : OutAt'[x] = OutAt[x],
         \A d \in Device :
           Once(Calls(down'[d])) /\ Once(Calls(jobQue'[d])) /\ Once(Answers(up'[d]))
  PROVE  Passing' /\ Out' = Out
<1>1. DOMAIN OutAt = OutPlace /\ DOMAIN OutAt' = OutPlace
  BY DEF OutAt
<1>2. Apart(OutAt)' /\ Out' = Out
  BY <1>1 DEF Passing, Apart, Out, All
<1> QED
  BY <1>2 DEF Passing

LEMMA LiveSame ==
  ASSUME Waiting, NEW d \in Device, \A x \in LivePlace : LiveAt(d)'[x] = LiveAt(d)[x]
  PROVE  Apart(LiveAt(d))' /\ Live(d)' = Live(d)
<1>1. DOMAIN LiveAt(d) = LivePlace /\ DOMAIN LiveAt(d)' = LivePlace
  BY DEF LiveAt, Coming
<1> QED
  BY <1>1 DEF Waiting, Apart, Live, All

LEMMA LiveMoves ==
  ASSUME Waiting, NEW d \in Device, NEW y \in LivePlace, NEW z \in LivePlace, y # z, NEW K,
         K \subseteq LiveAt(d)[y], LiveAt(d)'[y] = LiveAt(d)[y] \ K,
         LiveAt(d)'[z] = LiveAt(d)[z] \union K,
         \A x \in LivePlace \ {y, z} : LiveAt(d)'[x] = LiveAt(d)[x]
  PROVE  Apart(LiveAt(d))' /\ Live(d)' = Live(d)
<1> DEFINE F == LiveAt(d)
           G == LiveAt(d)'
<1>1. DOMAIN F = LivePlace /\ DOMAIN G = LivePlace /\ Apart(F)
  BY DEF LiveAt, Waiting
<1>2. /\ y \in DOMAIN F /\ z \in DOMAIN F /\ DOMAIN G = DOMAIN F
      /\ K \subseteq F[y] /\ G[y] = F[y] \ K /\ G[z] = F[z] \union K
      /\ \A x \in DOMAIN F \ {y, z} : G[x] = F[x]
  BY <1>1
<1> HIDE DEF F, G
<1>3. Apart(G) /\ All(G) = All(F)
  BY <1>1, <1>2, Moves
<1> QED
  BY <1>3 DEF F, G, Live

(* What remains when one that was live no longer is. *)
LEMMA LiveDrops ==
  ASSUME Waiting, NEW d \in Device, NEW y \in LivePlace, NEW K,
         K \subseteq LiveAt(d)[y], LiveAt(d)'[y] = LiveAt(d)[y] \ K,
         \A x \in LivePlace \ {y} : LiveAt(d)'[x] = LiveAt(d)[x]
  PROVE  Apart(LiveAt(d))' /\ Live(d)' = Live(d) \ K
<1> DEFINE F == LiveAt(d)
           G == LiveAt(d)'
<1>1. DOMAIN F = LivePlace /\ DOMAIN G = LivePlace /\ Apart(F)
  BY DEF LiveAt, Waiting
<1>2. /\ y \in DOMAIN F /\ DOMAIN G = DOMAIN F
      /\ K \subseteq F[y] /\ G[y] = F[y] \ K
      /\ \A x \in DOMAIN F \ {y} : G[x] = F[x]
  BY <1>1
<1> HIDE DEF F, G
<1>3. Apart(G) /\ All(G) = All(F) \ K
  BY <1>1, <1>2, Drops
<1> QED
  BY <1>3 DEF F, G, Live

LEMMA LivePlaces ==
  ASSUME NEW d \in Device
  PROVE  /\ LiveAt(d)["sendQue"] = First(d) /\ LiveAt(d)["up"] = All(Asks(up[d]))
         /\ LiveAt(d)["route"] = Coming(d)
         /\ LiveAt(d)["down"] = All(Answers(down[d]))
         /\ LiveAt(d)["storing"] = IF storing[d] = None THEN {} ELSE {storing[d].job}
         /\ LiveAt(d)'["sendQue"] = First(d)' /\ LiveAt(d)'["up"] = All(Asks(up'[d]))
         /\ LiveAt(d)'["route"] = Coming(d)'
         /\ LiveAt(d)'["down"] = All(Answers(down'[d]))
         /\ LiveAt(d)'["storing"] = IF storing'[d] = None THEN {} ELSE {storing'[d].job}
BY DEF LiveAt, LivePlace, Coming

LEMMA OutPlaces ==
  ASSUME NEW d \in Device
  PROVE  /\ OutAt[<<"down", d>>] = All(Calls(down[d]))
         /\ OutAt[<<"jobQue", d>>] = All(Calls(jobQue[d]))
         /\ OutAt[<<"up", d>>] = All(Answers(up[d]))
         /\ OutAt[<<"serving", d>>] = IF Served(d) \subseteq {Async} THEN {}
                                      ELSE {jobIDMap[d][serving[d].job]}
         /\ OutAt'[<<"down", d>>] = All(Calls(down'[d]))
         /\ OutAt'[<<"jobQue", d>>] = All(Calls(jobQue'[d]))
         /\ OutAt'[<<"up", d>>] = All(Answers(up'[d]))
         /\ OutAt'[<<"serving", d>>] = IF Served(d)' \subseteq {Async} THEN {}
                                       ELSE {jobIDMap'[d][serving'[d].job]}
BY DEF OutAt, OutPlace

(* A device whose queues keep their numbers. *)
LEMMA LiveLeft ==
  ASSUME Waiting, NEW d \in Device, First(d)' = First(d), Coming(d)' = Coming(d),
         All(Asks(up'[d])) = All(Asks(up[d])),
         All(Answers(down'[d])) = All(Answers(down[d])),
         storing'[d] = storing[d]
  PROVE  Apart(LiveAt(d))' /\ Live(d)' = Live(d)
<1>1. ASSUME NEW x \in LivePlace PROVE LiveAt(d)'[x] = LiveAt(d)[x]
  <2>1. x = "sendQue" \/ x = "up" \/ x = "route" \/ x = "down" \/ x = "storing"
    BY DEF LivePlace
  <2> QED
    BY <2>1, LivePlaces
<1> QED
  BY <1>1, LiveSame

LEMMA OutLeft ==
  ASSUME NEW x \in OutPlace,
         x[1] = "down" => All(Calls(down'[x[2]])) = All(Calls(down[x[2]])),
         x[1] = "jobQue" => jobQue'[x[2]] = jobQue[x[2]],
         x[1] = "serving" =>
           /\ jobIDMap'[x[2]] = jobIDMap[x[2]] /\ serving'[x[2]].job = serving[x[2]].job
           /\ serving'[x[2]] = None <=> serving[x[2]] = None,
         x[1] = "up" => All(Answers(up'[x[2]])) = All(Answers(up[x[2]]))
  PROVE  OutAt'[x] = OutAt[x]
<1>1. PICK d \in Device : x[2] = d
  BY DEF OutPlace
<1>2. \/ x = <<"down", d>> \/ x = <<"jobQue", d>>
      \/ x = <<"serving", d>> \/ x = <<"up", d>>
  BY <1>1 DEF OutPlace
<1>3. ASSUME x = <<"down", d>> PROVE OutAt'[x] = OutAt[x]
  <2>1. x[1] = "down" /\ x[2] = d
    BY <1>3
  <2>2. OutAt'[<<"down", d>>] = OutAt[<<"down", d>>]
    BY <2>1, OutPlaces
  <2> QED
    BY <1>3, <2>2
<1>4. ASSUME x = <<"jobQue", d>> PROVE OutAt'[x] = OutAt[x]
  <2>1. x[1] = "jobQue" /\ x[2] = d
    BY <1>4
  <2>2. OutAt'[<<"jobQue", d>>] = OutAt[<<"jobQue", d>>]
    BY <2>1, OutPlaces
  <2> QED
    BY <1>4, <2>2
<1>5. ASSUME x = <<"serving", d>> PROVE OutAt'[x] = OutAt[x]
  <2>1. x[1] = "serving" /\ x[2] = d
    BY <1>5
  <2>2. OutAt'[<<"serving", d>>] = OutAt[<<"serving", d>>]
    BY <2>1, OutPlaces DEF Served
  <2> QED
    BY <1>5, <2>2
<1>6. ASSUME x = <<"up", d>> PROVE OutAt'[x] = OutAt[x]
  <2>1. x[1] = "up" /\ x[2] = d
    BY <1>6
  <2>2. OutAt'[<<"up", d>>] = OutAt[<<"up", d>>]
    BY <2>1, OutPlaces
  <2> QED
    BY <1>6, <2>2
<1> QED
  BY <1>2, <1>3, <1>4, <1>5, <1>6

(* A call ends. *)
LEMMA CallEnds ==
  ASSUME Types, Phases, NEW t \in Thread, pc[t] \in Calling,
         pc' = [pc EXCEPT ![t] = "run"], call' = [call EXCEPT ![t] = None],
         UNCHANGED <<serving, jobID>>
  PROVE  /\ Turn(t, "run") /\ call'[t] = None
         /\ call' \in [Thread -> Making \union {None}]
         /\ pc' \in [Thread -> Calling \union {"none", "run", "idle", "consumeFunctionArgs"}]
         /\ Phases'
<1>1. /\ call'[t] = None /\ Turn(t, "run") /\ call' \in [Thread -> Making \union {None}]
      /\ pc' \in [Thread -> Calling \union {"none", "run", "idle", "consumeFunctionArgs"}]
  BY DEF Types, Turn
<1>2. pc'[t] = "run" /\ \A u \in Thread \ {t} : pc'[u] = pc[u] /\ call'[u] = call[u]
  BY <1>1, Turned
<1>3. "run" \notin Calling /\ pc[t] # "idle"
  BY DEF Calling, Before, Since
<1>4. \A u \in Thread : pc'[u] \in Calling <=> call'[u] # None
  BY <1>1, <1>2, <1>3 DEF Phases
<1>5. \A d \in Device : pc'[<<d, "handler">>] = "idle" <=> serving'[d] = None
  <2> SUFFICES ASSUME NEW d \in Device
               PROVE  pc'[<<d, "handler">>] = "idle" <=> pc[<<d, "handler">>] = "idle"
    BY DEF Phases
  <2>1. <<d, "handler">> \in Thread
    BY DEF Thread
  <2> QED
    BY <1>2, <1>3, <2>1
<1>6. \A u \in Thread : call'[u] # None => call'[u] = call[u] /\ pc'[u] = pc[u]
  BY <1>1, <1>2
<1>7. Phases'
  BY <1>4, <1>5, <1>6 DEF Phases, Caller
<1> QED
  BY <1>1, <1>7

LEMMA SendQueInductive ==
  ASSUME Inductive, NEW t \in Thread, SendQue(t) PROVE Inductive'
<1> DEFINE d == t[1]
           tag == call[t].tag
           m == [tag |-> tag, words |-> sendQue[d][tag]]
<1>0. Types /\ Phases /\ Tables /\ Executes /\ Passing /\ Waiting
  BY DEF Inductive
<1>1. /\ pc[t] = "sendQue"
      /\ pc' = [pc EXCEPT ![t] = IF tag = "call" THEN "consumeReturn" ELSE "run"]
      /\ up' = [up EXCEPT ![d] = Append(@, m)]
      /\ sendQue' = [sendQue EXCEPT ![d][tag] = << >>]
      /\ call' = [call EXCEPT ![t] = IF tag = "call" THEN @ ELSE None]
      /\ UNCHANGED <<jobID, runningJobs, consumeTable, returnValueTable, jobIDMap, argsTable,
                     args_list, down, jobQue, route, serving, storing>>
  BY DEF SendQue, Goto, tables
<1>2. /\ call[t] \in Making /\ call[t] # None /\ d \in Device /\ tag \in Tag
      /\ pc[t] \in Calling /\ pc[t] \in Since /\ pc[t] \notin Before
  <2>1. call[t] # None /\ pc[t] \in Calling /\ pc[t] \in Since /\ pc[t] \notin Before
    BY <1>0, <1>1 DEF Phases, Calling, Since, Before
  <2> QED
    BY <1>0, <2>1 DEF Types, Making, Thread
<1>3. m \in Asked /\ m.tag = tag /\ m.words = sendQue[d][tag] /\ up[d] \in Seq(Asked \union Answered)
  BY <1>0, <1>2 DEF Types, Asked
<1>4. up' \in [Device -> Seq(Asked \union Answered)]
  BY <1>0, <1>1, <1>2, <1>3 DEF Types
<1>5. sendQue' \in [Device -> [Tag -> Seq(CallWord)]]
  <2>1. << >> \in Seq(CallWord)
    OBVIOUS
  <2> QED
    BY <1>0, <1>1, <1>2, <2>1 DEF Types
<1>6. up'[d] = Append(up[d], m) /\ \A e \in Device \ {d} : up'[e] = up[e]
  BY <1>0, <1>1, <1>2 DEF Types
<1> HIDE DEF m
<1>7. AnswerKey(m) = {} /\ AskKey(m) = IF tag = "call" THEN First(d) ELSE {}
  <2>1. AnswerKey(m) = {}
    BY <1>2, <1>3 DEF AnswerKey, Tag
  <2>2. tag # "call" => AskKey(m) = {}
    BY <1>3 DEF AskKey
  <2>3. CASE tag = "call"
    <3>1. m.words = sendQue[d]["call"] /\ m.tag = "call"
      BY <1>3, <2>3
    <3>2. AskKey(m) = First(d)
      BY <3>1 DEF AskKey, First
    <3> QED
      BY <2>1, <2>3, <3>2
  <2> QED
    BY <2>1, <2>2, <2>3
<1>8. Passing' /\ Out' = Out
  <2>1. Once(Answers(up'[d])) /\ All(Answers(up'[d])) = All(Answers(up[d]))
    <3>1. Once(Answers(up[d])) /\ AnswerKey(m) \intersect All(Answers(up[d])) = {}
      BY <1>0, <1>2, <1>7 DEF Passing
    <3>2. m \in Asked \union Answered
      BY <1>3
    <3>3. /\ Once(Answers(Append(up[d], m)))
          /\ All(Answers(Append(up[d], m))) = All(Answers(up[d])) \union AnswerKey(m)
      BY <1>3, <3>1, <3>2, AnswersPush
    <3> QED
      BY <1>6, <1>7, <3>3
  <2>2. \A e \in Device : Once(Answers(up'[e])) /\ All(Answers(up'[e])) = All(Answers(up[e]))
    BY <1>0, <1>6, <2>1 DEF Passing
  <2>3. ASSUME NEW x \in OutPlace PROVE OutAt'[x] = OutAt[x]
    <3>1. x[2] \in Device
      BY DEF OutPlace
    <3>2. All(Answers(up'[x[2]])) = All(Answers(up[x[2]]))
      BY <2>2, <3>1
    <3> QED
      BY <1>1, <3>2 DEF OutAt, Served
  <2>4. \A e \in Device :
          Once(Calls(down'[e])) /\ Once(Calls(jobQue'[e])) /\ Once(Answers(up'[e]))
    BY <1>0, <1>1, <2>2 DEF Passing
  <2> QED
    BY <1>0, <1>1, <2>3, <2>4, OutSame
<1>9. Once(Asks(up'[d])) /\ All(Asks(up'[d])) = All(Asks(up[d])) \union AskKey(m)
  <2>1. Once(Asks(up[d])) /\ Apart(LiveAt(d))
    BY <1>0, <1>2 DEF Waiting
  <2>2. First(d) \intersect All(Asks(up[d])) = {}
    <3>1. LiveAt(d)["sendQue"] \intersect LiveAt(d)["up"] = {}
      BY <2>1 DEF Apart, LiveAt, LivePlace
    <3> QED
      BY <1>2, <3>1, LivePlaces
  <2>3. AskKey(m) \intersect All(Asks(up[d])) = {} /\ m \in Asked \union Answered
    BY <1>3, <1>7, <2>2
  <2>4. /\ Once(Asks(Append(up[d], m)))
        /\ All(Asks(Append(up[d], m))) = All(Asks(up[d])) \union AskKey(m)
    BY <1>3, <2>1, <2>3, AsksPush
  <2> QED
    BY <1>6, <2>4
<1>10. ASSUME NEW e \in Device, e # d
       PROVE  /\ Apart(LiveAt(e))' /\ Live(e)' = Live(e)
              /\ Once(Asks(up'[e])) /\ Once(Answers(down'[e]))
  <2>1. up'[e] = up[e] /\ sendQue'[e] = sendQue[e]
    BY <1>0, <1>1, <1>2, <1>10 DEF Types
  <2>2. \A x \in LivePlace : LiveAt(e)'[x] = LiveAt(e)[x]
    <3>1. First(e)' = First(e)
      BY <2>1 DEF First
    <3> QED
      BY <1>1, <1>8, <2>1, <3>1 DEF LiveAt, Coming
  <2>3. Apart(LiveAt(e))' /\ Live(e)' = Live(e)
    BY <1>0, <2>2, LiveSame
  <2> QED
    BY <1>0, <1>1, <2>1, <2>3 DEF Waiting
<1>11. CASE tag = "call"
  <2>1. call' = [call EXCEPT ![t] = call[t]] /\ pc' = [pc EXCEPT ![t] = "consumeReturn"]
    BY <1>1, <1>11
  <2>2. /\ Going(t, "consumeReturn", call[t])
        /\ call' \in [Thread -> Making \union {None}]
        /\ pc' \in [Thread -> Calling \union {"none", "run", "idle", "consumeFunctionArgs"}]
        /\ Phases'
    <3>1. /\ "consumeReturn" \in Calling /\ "consumeReturn" # "pushArgument"
          /\ call[t].tag # "async" /\ UNCHANGED <<serving, jobID>>
      BY <1>1, <1>11 DEF Calling, Since
    <3> QED
      BY <1>0, <1>2, <2>1, <3>1, Continues
  <2>3. Types'
    BY <1>0, <1>1, <1>4, <1>5, <2>2 DEF Types
  <2>4. Tables'
    <3>1. "consumeReturn" \notin Before /\ "consumeReturn" # "pushJob"
      BY DEF Before
    <3> QED
      BY <1>0, <1>1, <1>2, <2>2, <3>1, TablesKept
  <2>5. Executes'
    BY <1>0, <1>1, <2>2, ExecutesKept DEF Going
  <2>6. First(d)' = {}
    <3>1. sendQue'[d]["call"] = << >>
      BY <1>0, <1>1, <1>2, <1>11 DEF Types
    <3> QED
      BY <3>1 DEF First, AskKey
  <2>7. Apart(LiveAt(d))' /\ Live(d)' = Live(d)
    <3> DEFINE K == First(d)
    <3>1. /\ LiveAt(d)["sendQue"] = K /\ LiveAt(d)'["sendQue"] = {}
          /\ LiveAt(d)'["up"] = LiveAt(d)["up"] \union K
      BY <1>2, <1>7, <1>9, <1>11, <2>6, LivePlaces
    <3>2. ASSUME NEW x \in LivePlace \ {"sendQue", "up"} PROVE LiveAt(d)'[x] = LiveAt(d)[x]
      <4>1. x = "route" \/ x = "down" \/ x = "storing"
        BY DEF LivePlace
      <4>2. d \in Device /\ route' = route /\ down' = down /\ storing' = storing /\ Out' = Out
        BY <1>1, <1>2, <1>8
      <4>3. Coming(d)' = Coming(d)
        BY <4>2 DEF Coming
      <4>4. LiveAt(d)'["down"] = LiveAt(d)["down"]
        BY <4>2, LivePlaces
      <4>5. LiveAt(d)'["storing"] = LiveAt(d)["storing"]
        BY <4>2, LivePlaces
      <4> QED
        BY <4>1, <4>2, <4>3, <4>4, <4>5, LivePlaces
    <3>3. "sendQue" \in LivePlace /\ "up" \in LivePlace /\ "sendQue" # "up"
      BY DEF LivePlace
    <3> HIDE DEF K
    <3>4. K \subseteq LiveAt(d)["sendQue"] /\ LiveAt(d)'["sendQue"] = LiveAt(d)["sendQue"] \ K
      BY <3>1
    <3> QED
      BY <1>0, <1>2, <3>1, <3>2, <3>3, <3>4, LiveMoves
  <2>8. ASSUME NEW e \in Device, NEW j, Awaited(e, j) PROVE Awaited(e, j)'
    <3>1. "consumeReturn" \in Since
      BY DEF Since
    <3> QED
      BY <1>0, <1>1, <2>2, <2>8, <3>1, AwaitedStill
  <2>9. ASSUME NEW e \in Device
        PROVE  /\ Apart(LiveAt(e))' /\ Live(e)' = Live(e)
               /\ Once(Asks(up'[e])) /\ Once(Answers(down'[e]))
    <3>1. Once(Answers(down'[e]))
      BY <1>0, <1>1 DEF Waiting
    <3> QED
      BY <1>9, <1>10, <2>7, <3>1
  <2>10. Waiting'
    BY <1>0, <2>8, <2>9 DEF Waiting
  <2> QED
    BY <1>8, <2>2, <2>3, <2>4, <2>5, <2>10 DEF Inductive
<1>12. CASE tag = "async"
  <2>1. call' = [call EXCEPT ![t] = None] /\ pc' = [pc EXCEPT ![t] = "run"] /\ ~ Caller(t)
    BY <1>1, <1>12 DEF Caller
  <2>2. /\ Turn(t, "run") /\ call'[t] = None
        /\ call' \in [Thread -> Making \union {None}]
        /\ pc' \in [Thread -> Calling \union {"none", "run", "idle", "consumeFunctionArgs"}]
        /\ Phases'
    BY <1>0, <1>1, <1>2, <2>1, CallEnds
  <2>3. Types'
    BY <1>0, <1>1, <1>4, <1>5, <2>2 DEF Types
  <2>4. \A e \in Device : Jobs(e) \subseteq Jobs(e)'
    BY <1>0, <2>1, <2>2, JobsKept
  <2>5. Tables'
    <3>1. ASSUME NEW u \in Thread, Caller(u)'
          PROVE  pc'[u] = pc[u] /\ call'[u] = call[u] /\ Caller(u)
      BY <1>0, <2>2, <3>1, Turned DEF Caller
    <3> QED
      BY <1>0, <1>1, <2>4, <3>1 DEF Tables
  <2>6. Executes'
    BY <1>0, <1>1, <2>2, ExecutesKept
  <2>7. First(d)' = First(d)
    <3>1. sendQue'[d]["call"] = sendQue[d]["call"]
      BY <1>0, <1>1, <1>2, <1>12 DEF Types, Tag
    <3> QED
      BY <3>1 DEF First
  <2>8. Apart(LiveAt(d))' /\ Live(d)' = Live(d)
    <3>1. All(Asks(up'[d])) = All(Asks(up[d]))
      BY <1>7, <1>9, <1>12
    <3>2. \A x \in LivePlace : LiveAt(d)'[x] = LiveAt(d)[x]
      BY <1>1, <1>8, <2>7, <3>1 DEF LiveAt, Coming
    <3> QED
      BY <1>0, <1>2, <3>2, LiveSame
  <2>9. ASSUME NEW e \in Device, NEW j, Awaited(e, j) PROVE Awaited(e, j)'
    <3>1. PICK u \in Thread : /\ u[1] = e /\ Caller(u) /\ call[u].job = j /\ pc[u] \in Since
                              /\ ~ consumeTable[e][j]
      BY <2>9 DEF Awaited
    <3>2. u # t
      BY <2>1, <3>1
    <3> QED
      BY <1>0, <1>1, <2>2, <3>1, <3>2, Turned DEF Awaited, Caller
  <2>10. ASSUME NEW e \in Device
        PROVE  /\ Apart(LiveAt(e))' /\ Live(e)' = Live(e)
               /\ Once(Asks(up'[e])) /\ Once(Answers(down'[e]))
    <3>1. Once(Answers(down'[e]))
      BY <1>0, <1>1 DEF Waiting
    <3> QED
      BY <1>9, <1>10, <2>8, <3>1
  <2>11. Waiting'
    BY <1>0, <2>9, <2>10 DEF Waiting
  <2> QED
    BY <1>8, <2>2, <2>3, <2>5, <2>6, <2>11 DEF Inductive
<1> QED
  BY <1>2, <1>11, <1>12 DEF Tag

LEMMA ConsumeReturnInductive ==
  ASSUME Inductive, NEW t \in Thread, ConsumeReturn(t) PROVE Inductive'
<1> DEFINE d == t[1]
           job == call[t].job
<1>0. Types /\ Phases /\ Tables /\ Executes /\ Passing /\ Waiting
  BY DEF Inductive
<1>1. /\ pc[t] = "consumeReturn" /\ pc' = [pc EXCEPT ![t] = "run"]
      /\ At(consumeTable, d, job) = TRUE
      /\ returnValueTable' = Erase(returnValueTable, d, job)
      /\ call' = [call EXCEPT ![t] = None]
      /\ UNCHANGED <<jobID, runningJobs, consumeTable, jobIDMap, argsTable, args_list,
                     sendQue, up, down, jobQue, route, serving, storing>>
  BY DEF ConsumeReturn, Goto, network
<1>2. /\ call[t] # None /\ d \in Device /\ Caller(t) /\ pc[t] \in Calling
      /\ job \in DOMAIN consumeTable[d]
  <2>1. call[t] # None /\ pc[t] \in Calling /\ pc[t] \notin Before
    BY <1>0, <1>1 DEF Phases, Calling, Since, Before
  <2>2. Caller(t)
    BY <1>0, <1>1, <2>1 DEF Phases, Caller, Types, Making, Tag
  <2> QED
    BY <1>0, <2>1, <2>2 DEF Tables, Thread
<1>3. consumeTable[d][job]
  BY <1>1, <1>2 DEF At
<1>4. job \notin DOMAIN runningJobs[d]
  BY <1>0, <1>2, <1>3 DEF Tables
<1>5. /\ IsTable(returnValueTable', Seq(ResultWord))
      /\ DOMAIN returnValueTable'[d] = DOMAIN returnValueTable[d] \ {job}
      /\ \A e \in Device \ {d} : returnValueTable'[e] = returnValueTable[e]
  BY <1>0, <1>1, <1>2, Erased DEF Types
<1>6. /\ Turn(t, "run") /\ call'[t] = None
      /\ call' \in [Thread -> Making \union {None}]
      /\ pc' \in [Thread -> Calling \union {"none", "run", "idle", "consumeFunctionArgs"}]
      /\ Phases'
  BY <1>0, <1>1, <1>2, CallEnds
<1>7. Types'
  BY <1>0, <1>1, <1>5, <1>6 DEF Types
<1>8. ASSUME NEW e \in Device, NEW j \in Jobs(e), ~ (e = d /\ j = job)
      PROVE  j \in Jobs(e)'
  <2>1. PICK u \in Thread : u[1] = e /\ Caller(u) /\ call[u].job = j
    BY <1>8 DEF Jobs
  <2>2. u # t
    BY <1>8, <2>1
  <2>3. call'[u] = call[u]
    BY <1>0, <1>6, <2>2, Turned
  <2> QED
    BY <2>1, <2>3 DEF Jobs, Caller
<1>9. Tables'
  <2>1. ASSUME NEW e \in Device
        PROVE  /\ DOMAIN runningJobs'[e] \subseteq Jobs(e)'
               /\ DOMAIN returnValueTable'[e] \subseteq Jobs(e)'
    <3>1. CASE e = d
      BY <1>0, <1>1, <1>4, <1>5, <1>8, <3>1 DEF Tables
    <3>2. CASE e # d
      BY <1>0, <1>1, <1>5, <1>8, <3>2 DEF Tables
    <3> QED
      BY <3>1, <3>2
  <2>2. ASSUME NEW u \in Thread, Caller(u)'
        PROVE  pc'[u] = pc[u] /\ call'[u] = call[u] /\ Caller(u)
    BY <1>0, <1>6, <2>2, Turned DEF Caller
  <2> QED
    BY <1>0, <1>1, <2>1, <2>2 DEF Tables
<1>10. Passing' /\ Out' = Out
  BY <1>0, <1>1, OutKept
<1>11. Executes'
  BY <1>0, <1>1, <1>6, ExecutesKept
<1>12. Waiting'
  <2>1. ASSUME NEW e \in Device, NEW j \in Live(e), Awaited(e, j) PROVE Awaited(e, j)'
    <3>1. PICK u \in Thread : /\ u[1] = e /\ Caller(u) /\ call[u].job = j /\ pc[u] \in Since
                              /\ ~ consumeTable[e][j]
      BY <2>1 DEF Awaited
    <3>2. u # t
      BY <1>3, <3>1
    <3> QED
      BY <1>0, <1>1, <1>6, <3>1, <3>2, Turned DEF Awaited, Caller
  <2> QED
    BY <1>0, <1>1, <1>10, <2>1, LiveKept DEF First
<1> QED
  BY <1>6, <1>7, <1>9, <1>10, <1>11, <1>12 DEF Inductive

-----------------------------------------------------------------------------
(* The receiver.                                                           *)

(* Nothing but the network and the tables changes.                         *)
LEMMA PhasesKept ==
  ASSUME Phases, UNCHANGED <<pc, call, serving, jobID>>
  PROVE  /\ Phases' /\ \A u \in Thread : Caller(u)' <=> Caller(u)
         /\ \A d \in Device : Jobs(d)' = Jobs(d)
<1>1. \A u \in Thread : Caller(u)' <=> Caller(u)
  BY DEF Caller
<1>2. \A d \in Device : Jobs(d)' = Jobs(d)
  BY <1>1 DEF Jobs
<1> QED
  BY <1>1, <1>2 DEF Phases

(* Who waits for a live number is past the point where it sent it.         *)
LEMMA LiveSince ==
  ASSUME Inductive, NEW d \in Device, NEW j \in Live(d)
  PROVE  /\ j \in Jobs(d) /\ j < jobID[d] /\ j \in Int /\ j \in DOMAIN consumeTable[d]
         /\ \A u \in Thread : Caller(u) /\ u[1] = d /\ call[u].job = j => pc[u] \in Since
<1>1. PICK t \in Thread : /\ t[1] = d /\ Caller(t) /\ call[t].job = j /\ pc[t] \in Since
                          /\ ~ consumeTable[d][j]
  BY DEF Inductive, Waiting, Awaited
<1>2. j \in Jobs(d)
  BY <1>1 DEF Jobs
<1>3. j < jobID[d] /\ j \in Int
  BY <1>1 DEF Inductive, Phases, Caller
<1>4. pc[t] \notin Before
  BY <1>1 DEF Since, Before
<1>5. j \in DOMAIN consumeTable[d]
  BY <1>1, <1>4 DEF Inductive, Tables
<1>6. ASSUME NEW u \in Thread, Caller(u), u[1] = d, call[u].job = j PROVE pc[u] \in Since
  BY <1>1, <1>6 DEF Inductive, Phases
<1> QED
  BY <1>2, <1>3, <1>5, <1>6

LEMMA AnnounceReturnInductive ==
  ASSUME Inductive, NEW d \in Device, AnnounceReturn(d) PROVE Inductive'
<1> DEFINE job == storing[d].job
<1>0. Types /\ Phases /\ Tables /\ Executes /\ Passing /\ Waiting
  BY DEF Inductive
<1>1. /\ storing[d] # None
      /\ runningJobs' = Erase(runningJobs, d, job)
      /\ consumeTable' = Insert(consumeTable, d, job, TRUE)
      /\ storing' = [storing EXCEPT ![d] = None]
      /\ UNCHANGED <<jobID, returnValueTable, jobIDMap, argsTable, args_list,
                     sendQue, up, down, jobQue, route, pc, call, serving>>
  BY DEF AnnounceReturn, network
<1>2. job \in Live(d)
  <2>1. LiveAt(d)["storing"] = {job} /\ "storing" \in DOMAIN LiveAt(d)
    BY <1>1 DEF LiveAt, LivePlace
  <2> QED
    BY <2>1 DEF Live, All
<1>3. /\ job \in Jobs(d) /\ job < jobID[d] /\ job \in Int
      /\ \A u \in Thread : Caller(u) /\ u[1] = d /\ call[u].job = job => pc[u] \in Since
  BY <1>2, LiveSince
<1>4. /\ IsTable(runningJobs', Function)
      /\ DOMAIN runningJobs'[d] = DOMAIN runningJobs[d] \ {job}
      /\ \A e \in Device \ {d} : runningJobs'[e] = runningJobs[e]
  BY <1>0, <1>1, Erased DEF Types
<1>5. /\ IsTable(consumeTable', BOOLEAN)
      /\ DOMAIN consumeTable'[d] = DOMAIN consumeTable[d] \union {job}
      /\ \A k \in DOMAIN consumeTable[d] : k # job => consumeTable'[d][k] = consumeTable[d][k]
      /\ \A e \in Device \ {d} : consumeTable'[e] = consumeTable[e]
  <2> DEFINE yes == TRUE
  <2>1. consumeTable' = Insert(consumeTable, d, job, yes) /\ yes \in BOOLEAN
    BY <1>1
  <2>2. IsTable(consumeTable, BOOLEAN) /\ job \in Int /\ d \in Device
    BY <1>0, <1>3 DEF Types
  <2> HIDE DEF job, yes
  <2>3. /\ IsTable(consumeTable', BOOLEAN)
        /\ DOMAIN consumeTable'[d] = DOMAIN consumeTable[d] \union {job}
        /\ consumeTable'[d][job] = yes
        /\ \A k \in DOMAIN consumeTable[d] : k # job => consumeTable'[d][k] = consumeTable[d][k]
        /\ \A e \in Device \ {d} : consumeTable'[e] = consumeTable[e]
    BY <2>1, <2>2, Inserted, SMTT(60)
  <2> QED
    BY <2>3
<1>6. storing' \in [Device -> Answered \union {None}] /\ storing'[d] = None
      /\ \A e \in Device \ {d} : storing'[e] = storing[e]
  BY <1>0, <1>1 DEF Types
<1>7. Types'
  BY <1>0, <1>1, <1>4, <1>5, <1>6 DEF Types
<1>8. /\ Phases' /\ \A u \in Thread : Caller(u)' <=> Caller(u)
      /\ \A e \in Device : Jobs(e)' = Jobs(e)
  BY <1>0, <1>1, PhasesKept
<1>9. Tables'
  <2>1. ASSUME NEW e \in Device
        PROVE  /\ DOMAIN runningJobs'[e] \subseteq Jobs(e)'
               /\ DOMAIN returnValueTable'[e] \subseteq Jobs(e)'
    <3>1. DOMAIN runningJobs'[e] \subseteq DOMAIN runningJobs[e]
      BY <1>4
    <3> QED
      BY <1>0, <1>1, <1>8, <3>1 DEF Tables
  <2>2. ASSUME NEW e \in Device, NEW j \in DOMAIN consumeTable'[e]
        PROVE  j < jobID'[e] /\ (consumeTable'[e][j] => j \notin DOMAIN runningJobs'[e])
    <3>1. CASE e = d /\ j = job
      BY <1>1, <1>3, <1>4, <3>1
    <3>2. CASE ~ (e = d /\ j = job)
      <4>1. j \in DOMAIN consumeTable[e] /\ consumeTable'[e][j] = consumeTable[e][j]
        BY <1>5, <2>2, <3>2
      <4>2. DOMAIN runningJobs'[e] \subseteq DOMAIN runningJobs[e]
        BY <1>4
      <4> QED
        BY <1>0, <1>1, <4>1, <4>2 DEF Tables
    <3> QED
      BY <3>1, <3>2
  <2>3. ASSUME NEW u \in Thread, Caller(u)'
        PROVE  /\ pc'[u] \in Before => call'[u].job \in DOMAIN runningJobs'[u[1]]
               /\ pc'[u] \notin Before => call'[u].job \in DOMAIN consumeTable'[u[1]]
               /\ pc'[u] = "pushJob" => ~ consumeTable'[u[1]][call'[u].job]
    <3>1. Caller(u) /\ call'[u] = call[u] /\ pc'[u] = pc[u] /\ u[1] \in Device
      BY <1>1, <1>8, <2>3 DEF Thread
    <3>2. CASE u[1] = d /\ call[u].job = job
      <4>1. pc[u] \in Since /\ pc[u] \notin Before /\ pc[u] # "pushJob"
        BY <1>3, <3>1, <3>2 DEF Since, Before
      <4> QED
        BY <1>5, <3>1, <3>2, <4>1
    <3>3. CASE ~ (u[1] = d /\ call[u].job = job)
      <4>1. call[u].job \in DOMAIN runningJobs[u[1]] => call[u].job \in DOMAIN runningJobs'[u[1]]
        BY <1>4, <3>1, <3>3
      <4>2. call[u].job \in DOMAIN consumeTable[u[1]] =>
              /\ call[u].job \in DOMAIN consumeTable'[u[1]]
              /\ consumeTable'[u[1]][call[u].job] = consumeTable[u[1]][call[u].job]
        BY <1>5, <3>1, <3>3
      <4>3. "pushJob" \notin Before
        BY DEF Before
      <4> QED
        BY <1>0, <3>1, <4>1, <4>2, <4>3 DEF Tables
    <3> QED
      BY <3>2, <3>3
  <2> QED
    BY <2>1, <2>2, <2>3 DEF Tables
<1>10. Passing' /\ Out' = Out
  BY <1>0, <1>1, OutKept
<1>11. Executes'
  BY <1>0, <1>1 DEF Executes, Served
<1>12. Waiting'
  <2>1. \A e \in Device : First(e)' = First(e) /\ Coming(e)' = Coming(e)
    BY <1>1, <1>10 DEF First, Coming
  <2>2. Apart(LiveAt(d))' /\ Live(d)' = Live(d) \ {job}
    <3>1. LiveAt(d)["storing"] = {job} /\ LiveAt(d)'["storing"] = {} /\ "storing" \in LivePlace
      BY <1>1, <1>6, LivePlaces DEF LivePlace
    <3>2. ASSUME NEW x \in LivePlace \ {"storing"} PROVE LiveAt(d)'[x] = LiveAt(d)[x]
      <4>1. x = "sendQue" \/ x = "up" \/ x = "route" \/ x = "down"
        BY DEF LivePlace
      <4> QED
        BY <1>1, <2>1, <4>1, LivePlaces
    <3> DEFINE K == {job}
    <3>3. K \subseteq LiveAt(d)["storing"] /\ LiveAt(d)'["storing"] = LiveAt(d)["storing"] \ K
      BY <3>1
    <3> HIDE DEF K
    <3>4. Apart(LiveAt(d))' /\ Live(d)' = Live(d) \ K
      BY <1>0, <3>1, <3>2, <3>3, LiveDrops
    <3> QED
      BY <3>4 DEF K
  <2>3. ASSUME NEW e \in Device, e # d PROVE Apart(LiveAt(e))' /\ Live(e)' = Live(e)
    <3>1. storing'[e] = storing[e] /\ up'[e] = up[e] /\ down'[e] = down[e]
      BY <1>1, <1>6, <2>3
    <3> QED
      BY <1>0, <2>1, <3>1, LiveLeft
  <2>4. ASSUME NEW e \in Device, NEW j \in Live(e), ~ (e = d /\ j = job) PROVE Awaited(e, j)'
    <3>1. Awaited(e, j)
      BY <1>0 DEF Waiting
    <3>2. consumeTable'[e][j] = consumeTable[e][j]
      <4>1. j \in DOMAIN consumeTable[e]
        BY LiveSince
      <4> QED
        BY <1>5, <2>4, <4>1
    <3> QED
      BY <1>1, <1>8, <3>1, <3>2 DEF Awaited
  <2>5. ASSUME NEW e \in Device
        PROVE  /\ Apart(LiveAt(e))' /\ Once(Asks(up[e]))' /\ Once(Answers(down[e]))'
               /\ \A j \in Live(e)' : Awaited(e, j)'
    <3>1. Once(Asks(up[e]))' /\ Once(Answers(down[e]))'
      BY <1>0, <1>1 DEF Waiting
    <3>2. ASSUME NEW j \in Live(e)' PROVE Awaited(e, j)'
      <4>1. j \in Live(e) /\ ~ (e = d /\ j = job)
        BY <2>2, <2>3, <3>2
      <4> QED
        BY <2>4, <4>1
    <3> QED
      BY <2>2, <2>3, <3>1, <3>2
  <2> QED
    BY <2>5 DEF Waiting
<1> QED
  BY <1>7, <1>8, <1>9, <1>10, <1>11, <1>12 DEF Inductive

LEMMA ReceiveReturnInductive ==
  ASSUME Inductive, NEW d \in Device, ReceiveReturn(d) PROVE Inductive'
<1> DEFINE m == Head(down[d])
           job == m.job
<1>0. Types /\ Phases /\ Tables /\ Executes /\ Passing /\ Waiting
  BY DEF Inductive
<1>1. /\ storing[d] = None /\ down[d] # << >> /\ m.tag = "return"
      /\ down' = [down EXCEPT ![d] = Tail(@)]
      /\ storing' = [storing EXCEPT ![d] = m]
      /\ returnValueTable' = Insert(returnValueTable, d, job, m.value)
      /\ UNCHANGED <<jobID, runningJobs, consumeTable, jobIDMap, argsTable, args_list,
                     sendQue, up, jobQue, route, pc, call, serving>>
  BY DEF ReceiveReturn
<1>2. /\ down[d] \in Seq(Passed \union Answered) /\ m \in Answered /\ job \in Int
      /\ m.value \in Seq(ResultWord) /\ m # None
  <2>1. down[d] \in Seq(Passed \union Answered)
    BY <1>0 DEF Types
  <2>2. m \in Passed \union Answered
    BY <1>1, <2>1
  <2>3. m \in Answered
    BY <1>1, <2>2 DEF Passed, Tag
  <2> QED
    BY <2>1, <2>3, NoneAssumption DEF Answered
<1>3. /\ down' \in [Device -> Seq(Passed \union Answered)]
      /\ storing' \in [Device -> Answered \union {None}]
      /\ down'[d] = Tail(down[d]) /\ storing'[d] = m
      /\ \A e \in Device \ {d} : down'[e] = down[e] /\ storing'[e] = storing[e]
  <2>1. Tail(down[d]) \in Seq(Passed \union Answered)
    BY <1>1, <1>2
  <2> HIDE DEF m
  <2> QED
    BY <1>0, <1>1, <1>2, <2>1 DEF Types
<1> HIDE DEF m
<1>4. CallKey(m) = {} /\ AnswerKey(m) = {job}
  BY <1>1 DEF CallKey, AnswerKey
<1>5. /\ Once(Answers(down'[d])) /\ All(Answers(down'[d])) = All(Answers(down[d])) \ {job}
      /\ job \in All(Answers(down[d]))
  <2>1. Once(Answers(down[d]))
    BY <1>0 DEF Waiting
  <2>2. /\ Once(Answers(Tail(down[d]))) /\ AnswerKey(m) \subseteq All(Answers(down[d]))
        /\ All(Answers(Tail(down[d]))) = All(Answers(down[d])) \ AnswerKey(m)
    BY <1>1, <1>2, <2>1, AnswersPop DEF m
  <2> QED
    BY <1>3, <1>4, <2>2
<1>6. Once(Calls(down'[d])) /\ All(Calls(down'[d])) = All(Calls(down[d]))
  <2>1. Once(Calls(down[d]))
    BY <1>0 DEF Passing
  <2>2. /\ Once(Calls(Tail(down[d])))
        /\ All(Calls(Tail(down[d]))) = All(Calls(down[d])) \ CallKey(m)
    BY <1>1, <1>2, <2>1, CallsPop DEF m
  <2> QED
    BY <1>3, <1>4, <2>2
<1>7. Passing' /\ Out' = Out
  <2>1. \A e \in Device : Once(Calls(down'[e])) /\ All(Calls(down'[e])) = All(Calls(down[e]))
    BY <1>0, <1>3, <1>6 DEF Passing
  <2>2. ASSUME NEW x \in OutPlace PROVE OutAt'[x] = OutAt[x]
    <3>1. x[2] \in Device
      BY DEF OutPlace
    <3>2. All(Calls(down'[x[2]])) = All(Calls(down[x[2]]))
      BY <2>1, <3>1
    <3>3. jobQue' = jobQue /\ serving' = serving /\ jobIDMap' = jobIDMap /\ up' = up
      BY <1>1
    <3> QED
      BY <3>2, <3>3, OutLeft
  <2>3. \A e \in Device :
          Once(Calls(down'[e])) /\ Once(Calls(jobQue'[e])) /\ Once(Answers(up'[e]))
    BY <1>0, <1>1, <2>1 DEF Passing
  <2> QED
    BY <1>0, <1>1, <2>2, <2>3, OutSame
<1>8. job \in Live(d)
  <2>1. LiveAt(d)["down"] = All(Answers(down[d])) /\ "down" \in DOMAIN LiveAt(d)
    BY DEF LiveAt, LivePlace
  <2> QED
    BY <1>5, <2>1 DEF Live, All
<1>9. job \in Jobs(d)
  BY <1>8, LiveSince
<1>10. /\ IsTable(returnValueTable', Seq(ResultWord))
       /\ DOMAIN returnValueTable'[d] = DOMAIN returnValueTable[d] \union {job}
       /\ \A e \in Device \ {d} : returnValueTable'[e] = returnValueTable[e]
  <2>1. IsTable(returnValueTable, Seq(ResultWord))
    BY <1>0 DEF Types
  <2> QED
    BY <1>1, <1>2, <2>1, Inserted
<1>11. Types'
  BY <1>0, <1>1, <1>3, <1>10 DEF Types
<1>12. /\ Phases' /\ \A u \in Thread : Caller(u)' <=> Caller(u)
       /\ \A e \in Device : Jobs(e)' = Jobs(e)
  BY <1>0, <1>1, PhasesKept
<1>13. Tables'
  <2>1. ASSUME NEW e \in Device PROVE DOMAIN returnValueTable'[e] \subseteq Jobs(e)'
    BY <1>0, <1>9, <1>10, <1>12 DEF Tables
  <2> QED
    BY <1>0, <1>1, <1>12, <2>1 DEF Tables
<1>14. Executes'
  BY <1>0, <1>1 DEF Executes, Served
<1>15. Waiting'
  <2>1. \A e \in Device : First(e)' = First(e) /\ Coming(e)' = Coming(e)
    BY <1>1, <1>7 DEF First, Coming
  <2>2. Apart(LiveAt(d))' /\ Live(d)' = Live(d)
    <3> DEFINE K == {job}
    <3>1. /\ LiveAt(d)["storing"] = {} /\ LiveAt(d)'["storing"] = K
          /\ K \subseteq LiveAt(d)["down"] /\ LiveAt(d)'["down"] = LiveAt(d)["down"] \ K
          /\ "down" \in LivePlace /\ "storing" \in LivePlace /\ "down" # "storing"
      BY <1>1, <1>2, <1>3, <1>5, LivePlaces DEF LivePlace
    <3>2. ASSUME NEW x \in LivePlace \ {"down", "storing"} PROVE LiveAt(d)'[x] = LiveAt(d)[x]
      <4>1. x = "sendQue" \/ x = "up" \/ x = "route"
        BY DEF LivePlace
      <4> QED
        BY <1>1, <2>1, <4>1, LivePlaces
    <3>3. LiveAt(d)'["storing"] = LiveAt(d)["storing"] \union K
      BY <3>1
    <3> HIDE DEF K
    <3> QED
      BY <1>0, <3>1, <3>2, <3>3, LiveMoves
  <2>3. ASSUME NEW e \in Device, e # d PROVE Apart(LiveAt(e))' /\ Live(e)' = Live(e)
    <3>1. storing'[e] = storing[e] /\ down'[e] = down[e] /\ up'[e] = up[e]
      BY <1>1, <1>3, <2>3
    <3> QED
      BY <1>0, <2>1, <3>1, LiveLeft
  <2>4. ASSUME NEW e \in Device, NEW j, Awaited(e, j) PROVE Awaited(e, j)'
    BY <1>1, <1>12, <2>4 DEF Awaited
  <2>5. ASSUME NEW e \in Device
        PROVE  /\ Apart(LiveAt(e))' /\ Once(Asks(up[e]))' /\ Once(Answers(down[e]))'
               /\ Live(e)' = Live(e)
    <3>1. Once(Asks(up[e]))'
      BY <1>0, <1>1 DEF Waiting
    <3>2. Once(Answers(down[e]))'
      BY <1>0, <1>3, <1>5 DEF Waiting
    <3> QED
      BY <2>2, <2>3, <3>1, <3>2
  <2> QED
    BY <1>0, <2>4, <2>5 DEF Waiting
<1> QED
  BY <1>7, <1>11, <1>12, <1>13, <1>14, <1>15 DEF Inductive

LEMMA OutMoves ==
  ASSUME Passing, NEW y \in OutPlace, NEW z \in OutPlace, y # z, NEW K,
         K \subseteq OutAt[y], OutAt'[y] = OutAt[y] \ K, OutAt'[z] = OutAt[z] \union K,
         \A x \in OutPlace \ {y, z} : OutAt'[x] = OutAt[x]
  PROVE  Apart(OutAt)' /\ Out' = Out
<1> DEFINE F == OutAt
           G == OutAt'
<1>1. DOMAIN F = OutPlace /\ DOMAIN G = OutPlace /\ Apart(F)
  BY DEF OutAt, Passing
<1>2. /\ y \in DOMAIN F /\ z \in DOMAIN F /\ DOMAIN G = DOMAIN F
      /\ K \subseteq F[y] /\ G[y] = F[y] \ K /\ G[z] = F[z] \union K
      /\ \A x \in DOMAIN F \ {y, z} : G[x] = F[x]
  BY <1>1
<1> HIDE DEF F, G
<1>3. Apart(G) /\ All(G) = All(F)
  BY <1>1, <1>2, Moves
<1> QED
  BY <1>3 DEF F, G, Out

LEMMA OutAdds ==
  ASSUME Passing, NEW y \in OutPlace, NEW K,
         K \intersect Out = {}, OutAt'[y] = OutAt[y] \union K,
         \A x \in OutPlace \ {y} : OutAt'[x] = OutAt[x]
  PROVE  Apart(OutAt)' /\ Out' = Out \union K
<1> DEFINE F == OutAt
           G == OutAt'
<1>1. DOMAIN F = OutPlace /\ DOMAIN G = OutPlace /\ Apart(F)
  BY DEF OutAt, Passing
<1>2. /\ y \in DOMAIN F /\ DOMAIN G = DOMAIN F
      /\ K \intersect All(F) = {} /\ G[y] = F[y] \union K
      /\ \A x \in DOMAIN F \ {y} : G[x] = F[x]
  BY <1>1 DEF Out
<1> HIDE DEF F, G
<1>3. Apart(G) /\ All(G) = All(F) \union K
  BY <1>1, <1>2, Adds
<1> QED
  BY <1>3 DEF F, G, Out

LEMMA OutDrops ==
  ASSUME Passing, NEW y \in OutPlace, NEW K,
         K \subseteq OutAt[y], OutAt'[y] = OutAt[y] \ K,
         \A x \in OutPlace \ {y} : OutAt'[x] = OutAt[x]
  PROVE  Apart(OutAt)' /\ Out' = Out \ K
<1> DEFINE F == OutAt
           G == OutAt'
<1>1. DOMAIN F = OutPlace /\ DOMAIN G = OutPlace /\ Apart(F)
  BY DEF OutAt, Passing
<1>2. /\ y \in DOMAIN F /\ DOMAIN G = DOMAIN F
      /\ K \subseteq F[y] /\ G[y] = F[y] \ K
      /\ \A x \in DOMAIN F \ {y} : G[x] = F[x]
  BY <1>1
<1> HIDE DEF F, G
<1>3. Apart(G) /\ All(G) = All(F) \ K
  BY <1>1, <1>2, Drops, SMTT(60)
<1> QED
  BY <1>3 DEF F, G, Out

(* A step of the gateway or the receiver that touches no table. *)
LEMMA CallersStay ==
  ASSUME Inductive, UNCHANGED <<tables, pc, call, serving>>
  PROVE  /\ Phases' /\ Tables' /\ Executes'
         /\ \A d \in Device : \A j : Awaited(d, j) => Awaited(d, j)'
<1>1. /\ jobID' = jobID /\ runningJobs' = runningJobs /\ consumeTable' = consumeTable
      /\ returnValueTable' = returnValueTable /\ jobIDMap' = jobIDMap
      /\ argsTable' = argsTable /\ pc' = pc /\ call' = call /\ serving' = serving
  BY DEF tables
<1>2. /\ Phases' /\ \A u \in Thread : Caller(u)' <=> Caller(u)
      /\ \A d \in Device : Jobs(d)' = Jobs(d)
  BY <1>1, PhasesKept DEF Inductive
<1>3. Tables'
  BY <1>1, <1>2 DEF Inductive, Tables
<1>4. Executes'
  BY <1>1 DEF Inductive, Executes, Served
<1>5. ASSUME NEW d \in Device, NEW j, Awaited(d, j) PROVE Awaited(d, j)'
  BY <1>1, <1>2, <1>5 DEF Awaited
<1> QED
  BY <1>2, <1>3, <1>4, <1>5

LEMMA WaitingStill ==
  ASSUME Waiting,
         \A d \in Device : /\ Apart(LiveAt(d))' /\ Live(d)' = Live(d)
                           /\ Once(Asks(up'[d])) /\ Once(Answers(down'[d])),
         \A d \in Device : \A j : Awaited(d, j) => Awaited(d, j)'
  PROVE  Waiting'
BY DEF Waiting

LEMMA ReceiveCallInductive ==
  ASSUME Inductive, NEW d \in Device, ReceiveCall(d) PROVE Inductive'
<1> DEFINE m == Head(down[d])
           K == CallKey(m)
<1>0. Types /\ Passing /\ Waiting
  BY DEF Inductive
<1>1. /\ down[d] # << >> /\ m.tag \in Tag
      /\ down' = [down EXCEPT ![d] = Tail(@)]
      /\ jobQue' = [jobQue EXCEPT ![d] = Append(@, m)]
      /\ UNCHANGED <<tables, sendQue, up, route, pc, call, serving, storing>>
  BY DEF ReceiveCall
<1>2. /\ down[d] \in Seq(Passed \union Answered) /\ m \in Passed /\ m \in Passed \union Answered
      /\ jobQue[d] \in Seq(Passed)
  <2>1. down[d] \in Seq(Passed \union Answered) /\ jobQue[d] \in Seq(Passed)
    BY <1>0 DEF Types
  <2>2. m \in Passed \union Answered
    BY <1>1, <2>1
  <2> QED
    BY <1>1, <2>1, <2>2 DEF Answered, Tag
<1>3. /\ down' \in [Device -> Seq(Passed \union Answered)]
      /\ jobQue' \in [Device -> Seq(Passed)]
      /\ down'[d] = Tail(down[d]) /\ jobQue'[d] = Append(jobQue[d], m)
      /\ \A e \in Device \ {d} : down'[e] = down[e] /\ jobQue'[e] = jobQue[e]
  <2>1. Tail(down[d]) \in Seq(Passed \union Answered) /\ Append(jobQue[d], m) \in Seq(Passed)
    BY <1>1, <1>2
  <2> HIDE DEF m
  <2> QED
    BY <1>0, <1>1, <2>1 DEF Types
<1> HIDE DEF m, K
<1>4. AnswerKey(m) = {}
  BY <1>1 DEF AnswerKey, Tag
<1>5. /\ Once(Calls(down'[d])) /\ K \subseteq All(Calls(down[d]))
      /\ All(Calls(down'[d])) = All(Calls(down[d])) \ K
  <2>1. Once(Calls(down[d]))
    BY <1>0 DEF Passing
  <2> QED
    BY <1>1, <1>2, <1>3, <2>1, CallsPop DEF m, K
<1>6. Once(Answers(down'[d])) /\ All(Answers(down'[d])) = All(Answers(down[d]))
  <2>1. Once(Answers(down[d]))
    BY <1>0 DEF Waiting
  <2>2. /\ Once(Answers(Tail(down[d])))
        /\ All(Answers(Tail(down[d]))) = All(Answers(down[d])) \ AnswerKey(m)
    BY <1>1, <1>2, <2>1, AnswersPop DEF m
  <2> QED
    BY <1>3, <1>4, <2>2
<1>7. <<"down", d>> \in OutPlace /\ <<"jobQue", d>> \in OutPlace /\ <<"down", d>> # <<"jobQue", d>>
  BY DEF OutPlace
<1>8. Once(Calls(jobQue'[d])) /\ All(Calls(jobQue'[d])) = All(Calls(jobQue[d])) \union K
  <2>1. Once(Calls(jobQue[d])) /\ Apart(OutAt) /\ DOMAIN OutAt = OutPlace
    BY <1>0 DEF Passing, OutAt
  <2>2. OutAt[<<"down", d>>] \intersect OutAt[<<"jobQue", d>>] = {}
    BY <1>7, <2>1 DEF Apart
  <2>3. CallKey(m) \intersect All(Calls(jobQue[d])) = {}
    BY <1>5, <2>2, OutPlaces DEF K
  <2> QED
    BY <1>2, <1>3, <2>1, <2>3, CallsPush DEF K
<1>9. Apart(OutAt)' /\ Out' = Out
  <2>1. ASSUME NEW x \in OutPlace \ {<<"down", d>>, <<"jobQue", d>>} PROVE OutAt'[x] = OutAt[x]
    <3>1. x[2] \in Device /\ (x[1] \in {"down", "jobQue"} => x[2] # d)
      BY DEF OutPlace
    <3>2. jobIDMap' = jobIDMap /\ serving' = serving /\ up' = up
      BY <1>1 DEF tables
    <3> QED
      BY <1>3, <3>1, <3>2, OutLeft
  <2>2. /\ K \subseteq OutAt[<<"down", d>>] /\ OutAt'[<<"down", d>>] = OutAt[<<"down", d>>] \ K
        /\ OutAt'[<<"jobQue", d>>] = OutAt[<<"jobQue", d>>] \union K
    BY <1>5, <1>8, OutPlaces
  <2> QED
    BY <1>0, <1>7, <2>1, <2>2, OutMoves
<1>10. Passing'
  <2>1. \A e \in Device :
          Once(Calls(down'[e])) /\ Once(Calls(jobQue'[e])) /\ Once(Answers(up'[e]))
    BY <1>0, <1>1, <1>3, <1>5, <1>8 DEF Passing
  <2> QED
    BY <1>0, <1>1, <1>9, <2>1 DEF Passing
<1>11. /\ Phases' /\ Tables' /\ Executes'
       /\ \A e \in Device : \A j : Awaited(e, j) => Awaited(e, j)'
  BY <1>1, CallersStay
<1>12. Waiting'
  <2>1. ASSUME NEW e \in Device
        PROVE  /\ Apart(LiveAt(e))' /\ Live(e)' = Live(e)
               /\ Once(Asks(up'[e])) /\ Once(Answers(down'[e]))
    <3>1. First(e)' = First(e) /\ Coming(e)' = Coming(e)
      BY <1>1, <1>9 DEF First, Coming
    <3>2. /\ All(Asks(up'[e])) = All(Asks(up[e])) /\ storing'[e] = storing[e]
          /\ Once(Answers(down'[e])) /\ All(Answers(down'[e])) = All(Answers(down[e]))
          /\ Once(Asks(up'[e]))
      BY <1>0, <1>1, <1>3, <1>6 DEF Waiting
    <3> QED
      BY <1>0, <3>1, <3>2, LiveLeft
  <2> QED
    BY <1>0, <1>11, <2>1, WaitingStill
<1>13. Types'
  BY <1>0, <1>1, <1>3 DEF Types, tables
<1> QED
  BY <1>10, <1>11, <1>12, <1>13 DEF Inductive

-----------------------------------------------------------------------------
(* The gateway.                                                            *)

LEMMA ForwardReturnInductive ==
  ASSUME Inductive, NEW d \in Device, ForwardReturn(d) PROVE Inductive'
<1> DEFINE m == Head(up[d])
           r == m.job
           n == [m EXCEPT !.job = route[r][2]]
<1>0. Types /\ Passing /\ Waiting
  BY DEF Inductive
<1>1. /\ up[d] # << >> /\ m.tag = "return"
      /\ up' = [up EXCEPT ![d] = Tail(@)]
      /\ down' = [down EXCEPT ![route[r][1]] = Append(@, n)]
      /\ UNCHANGED <<tables, sendQue, jobQue, route, pc, call, serving, storing>>
  BY DEF ForwardReturn
<1>2. /\ up[d] \in Seq(Asked \union Answered) /\ m \in Answered /\ m \in Asked \union Answered
      /\ r \in Int
  <2>1. up[d] \in Seq(Asked \union Answered)
    BY <1>0 DEF Types
  <2>2. m \in Asked \union Answered
    BY <1>1, <2>1
  <2>3. m \in Answered
    BY <1>1, <2>2 DEF Asked, Tag
  <2> QED
    BY <2>1, <2>3 DEF Answered
<1>3. Tail(up[d]) \in Seq(Asked \union Answered)
  BY <1>1, <1>2
<1> HIDE DEF m
<1>4. AnswerKey(m) = {r} /\ AskKey(m) = {}
  BY <1>1 DEF AnswerKey, AskKey
<1>5. up' \in [Device -> Seq(Asked \union Answered)] /\ up'[d] = Tail(up[d])
      /\ \A e \in Device \ {d} : up'[e] = up[e]
  BY <1>0, <1>1, <1>3 DEF Types
<1>6. /\ Once(Answers(up'[d])) /\ All(Answers(up'[d])) = All(Answers(up[d])) \ {r}
      /\ r \in All(Answers(up[d]))
  <2>1. Once(Answers(up[d]))
    BY <1>0 DEF Passing
  <2>2. /\ Once(Answers(Tail(up[d]))) /\ AnswerKey(m) \subseteq All(Answers(up[d]))
        /\ All(Answers(Tail(up[d]))) = All(Answers(up[d])) \ AnswerKey(m)
    BY <1>1, <1>2, <2>1, AnswersPop DEF m
  <2> QED
    BY <1>4, <1>5, <2>2
<1>7. Once(Asks(up'[d])) /\ All(Asks(up'[d])) = All(Asks(up[d]))
  <2>1. Once(Asks(up[d]))
    BY <1>0 DEF Waiting
  <2>2. /\ Once(Asks(Tail(up[d])))
        /\ All(Asks(Tail(up[d]))) = All(Asks(up[d])) \ AskKey(m)
    BY <1>1, <1>2, <2>1, AsksPop DEF m
  <2> QED
    BY <1>4, <1>5, <2>2
<1>8. r \in Out /\ r \in DOMAIN route /\ route[r] \in Device \X Int /\ <<"up", d>> \in OutPlace
  <2>1. <<"up", d>> \in OutPlace /\ DOMAIN OutAt = OutPlace
    BY DEF OutPlace, OutAt
  <2>2. r \in OutAt[<<"up", d>>]
    BY <1>6, OutPlaces
  <2>3. r \in Out
    BY <2>1, <2>2 DEF Out, All
  <2>4. r \in DOMAIN route /\ route \in Seq(Device \X Int)
    BY <1>0, <2>3 DEF Passing, Types
  <2>5. route[r] \in Device \X Int
    BY <2>4
  <2> QED
    BY <2>1, <2>3, <2>4, <2>5
<1>9. PICK o \in Device, j \in Int : route[r] = <<o, j>> /\ route[r][1] = o /\ route[r][2] = j
  BY <1>8
<1>10. n \in Answered /\ n.tag = "return" /\ n.job = j
  BY <1>1, <1>2, <1>9 DEF Answered
<1> HIDE DEF n, r
<1>11. AnswerKey(n) = {j} /\ CallKey(n) = {} /\ n \in Passed \union Answered
  BY <1>10 DEF AnswerKey, CallKey
<1>12. /\ down[o] \in Seq(Passed \union Answered)
       /\ down' \in [Device -> Seq(Passed \union Answered)]
       /\ down'[o] = Append(down[o], n)
       /\ \A e \in Device \ {o} : down'[e] = down[e]
  <2>0. down' = [down EXCEPT ![o] = Append(@, n)]
    BY <1>1, <1>9
  <2>1. down[o] \in Seq(Passed \union Answered)
    BY <1>0, <1>9 DEF Types
  <2>2. Append(down[o], n) \in Seq(Passed \union Answered)
    BY <1>11, <2>1
  <2> QED
    BY <1>0, <2>0, <2>1, <2>2 DEF Types
<1>13. Once(Calls(down'[o])) /\ All(Calls(down'[o])) = All(Calls(down[o]))
  <2>1. /\ Once(Calls(down[o])) /\ CallKey(n) \intersect All(Calls(down[o])) = {}
        /\ down[o] \in Seq(Passed \union Answered) /\ n \in Passed \union Answered
    BY <1>0, <1>11, <1>12 DEF Passing
  <2>2. /\ Once(Calls(Append(down[o], n)))
        /\ All(Calls(Append(down[o], n))) = All(Calls(down[o])) \union CallKey(n)
    BY <2>1, CallsPush
  <2> QED
    BY <1>11, <1>12, <2>2
<1>14. Apart(OutAt)' /\ Out' = Out \ {r}
  <2>1. ASSUME NEW x \in OutPlace \ {<<"up", d>>} PROVE OutAt'[x] = OutAt[x]
    <3>1. x[2] \in Device /\ (x[1] = "up" => x[2] # d)
      BY DEF OutPlace
    <3>2. jobIDMap' = jobIDMap /\ serving' = serving /\ jobQue' = jobQue
      BY <1>1 DEF tables
    <3>3. All(Calls(down'[x[2]])) = All(Calls(down[x[2]]))
      BY <1>12, <1>13, <3>1
    <3>4. x[1] = "up" => All(Answers(up'[x[2]])) = All(Answers(up[x[2]]))
      BY <1>5, <3>1
    <3> QED
      BY <3>2, <3>3, <3>4, OutLeft
  <2> DEFINE K == {r}
  <2>2. K \subseteq OutAt[<<"up", d>>] /\ OutAt'[<<"up", d>>] = OutAt[<<"up", d>>] \ K
    BY <1>6, OutPlaces
  <2> HIDE DEF K
  <2>3. Apart(OutAt)' /\ Out' = Out \ K
    BY <1>0, <1>8, <2>1, <2>2, OutDrops
  <2> QED
    BY <2>3 DEF K
<1>15. Passing'
  <2>1. \A e \in Device :
          Once(Calls(down'[e])) /\ Once(Calls(jobQue'[e])) /\ Once(Answers(up'[e]))
    BY <1>0, <1>1, <1>5, <1>6, <1>12, <1>13 DEF Passing
  <2>2. Out' \subseteq DOMAIN route' /\ \A p, s \in Out' : route'[p] = route'[s] => p = s
    BY <1>0, <1>1, <1>14 DEF Passing
  <2> QED
    BY <1>14, <2>1, <2>2 DEF Passing
<1>16. /\ j \in Coming(o) /\ Coming(o)' = Coming(o) \ {j}
       /\ \A e \in Device \ {o} : Coming(e)' = Coming(e)
  <2>1. j \in Coming(o)
    BY <1>8, <1>9 DEF Coming
  <2>2. ASSUME NEW q \in Out, q # r PROVE route[q] # <<o, j>> /\ route[q] = <<route[q][1], route[q][2]>>
    <3>1. q \in DOMAIN route /\ route \in Seq(Device \X Int)
      BY <1>0 DEF Passing, Types
    <3>2. route[q] \in Device \X Int
      BY <3>1
    <3>3. route[q] # route[r]
      BY <1>0, <1>8, <2>2 DEF Passing
    <3> QED
      BY <1>9, <3>2, <3>3
  <2>3. ASSUME NEW e \in Device, NEW x
        PROVE  x \in Coming(e)' <=> \E q \in Out : q # r /\ route[q][1] = e /\ route[q][2] = x
    BY <1>1, <1>14 DEF Coming
  <2>4. ASSUME NEW e \in Device, NEW x
        PROVE  x \in Coming(e) <=> \E q \in Out : route[q][1] = e /\ route[q][2] = x
    BY DEF Coming
  <2>5. ASSUME NEW x PROVE x \in Coming(o)' <=> x \in Coming(o) /\ x # j
    <3>1. ASSUME x \in Coming(o)' PROVE x \in Coming(o) /\ x # j
      <4>1. PICK q \in Out : q # r /\ route[q][1] = o /\ route[q][2] = x
        BY <1>9, <2>3, <3>1
      <4> QED
        BY <1>9, <2>2, <2>4, <4>1
    <3>2. ASSUME x \in Coming(o), x # j PROVE x \in Coming(o)'
      <4>1. PICK q \in Out : route[q][1] = o /\ route[q][2] = x
        BY <1>9, <2>4, <3>2
      <4>2. q # r
        BY <1>9, <3>2, <4>1
      <4> QED
        BY <1>9, <2>3, <4>1, <4>2
    <3> QED
      BY <3>1, <3>2
  <2>6. ASSUME NEW e \in Device \ {o} PROVE Coming(e)' = Coming(e)
    <3>1. route[r][1] # e
      BY <1>9, <2>6
    <3>2. \A x : x \in Coming(e)' <=> x \in Coming(e)
      BY <2>3, <2>4, <3>1
    <3> QED
      BY <3>2
  <2> QED
    BY <2>1, <2>5, <2>6
<1>17. /\ Once(Answers(down'[o]))
       /\ All(Answers(down'[o])) = All(Answers(down[o])) \union {j}
  <2>1. Once(Answers(down[o])) /\ Apart(LiveAt(o)) /\ DOMAIN LiveAt(o) = LivePlace
    BY <1>0, <1>9 DEF Waiting, LiveAt
  <2>2. LiveAt(o)["route"] \intersect LiveAt(o)["down"] = {}
    BY <2>1 DEF Apart, LivePlace
  <2>3. LiveAt(o)["route"] = Coming(o) /\ LiveAt(o)["down"] = All(Answers(down[o]))
    BY LivePlaces
  <2>4. /\ AnswerKey(n) \intersect All(Answers(down[o])) = {}
        /\ down[o] \in Seq(Passed \union Answered) /\ n \in Passed \union Answered
    BY <1>11, <1>12, <1>16, <2>2, <2>3
  <2>5. /\ Once(Answers(Append(down[o], n)))
        /\ All(Answers(Append(down[o], n))) = All(Answers(down[o])) \union AnswerKey(n)
    BY <2>1, <2>4, AnswersPush
  <2> QED
    BY <1>11, <1>12, <2>5
<1>18. /\ Phases' /\ Tables' /\ Executes'
       /\ \A e \in Device : \A i : Awaited(e, i) => Awaited(e, i)'
  BY <1>1, CallersStay
<1>19. \A e \in Device : /\ First(e)' = First(e) /\ storing'[e] = storing[e]
                         /\ Once(Asks(up'[e])) /\ All(Asks(up'[e])) = All(Asks(up[e]))
  BY <1>0, <1>1, <1>5, <1>7 DEF First, Waiting
<1>20. Apart(LiveAt(o))' /\ Live(o)' = Live(o)
  <2> DEFINE K == {j}
  <2>1. /\ K \subseteq LiveAt(o)["route"] /\ LiveAt(o)'["route"] = LiveAt(o)["route"] \ K
        /\ LiveAt(o)'["down"] = LiveAt(o)["down"] \union K
    BY <1>9, <1>16, <1>17, LivePlaces
  <2>2. "route" \in LivePlace /\ "down" \in LivePlace /\ "route" # "down"
    BY DEF LivePlace
  <2>3. ASSUME NEW x \in LivePlace \ {"route", "down"} PROVE LiveAt(o)'[x] = LiveAt(o)[x]
    <3>1. x = "sendQue" \/ x = "up" \/ x = "storing"
      BY DEF LivePlace
    <3>2. First(o)' = First(o) /\ storing'[o] = storing[o] /\ All(Asks(up'[o])) = All(Asks(up[o]))
      BY <1>19
    <3> QED
      BY <3>1, <3>2, LivePlaces
  <2> HIDE DEF K
  <2> QED
    BY <1>0, <1>9, <2>1, <2>2, <2>3, LiveMoves
<1>21. Waiting'
  <2>1. ASSUME NEW e \in Device
        PROVE  /\ Apart(LiveAt(e))' /\ Live(e)' = Live(e)
               /\ Once(Asks(up'[e])) /\ Once(Answers(down'[e]))
    <3>1. CASE e = o
      BY <1>17, <1>19, <1>20, <3>1
    <3>2. CASE e # o
      <4>1. down'[e] = down[e] /\ Coming(e)' = Coming(e)
        BY <1>12, <1>16, <3>2
      <4>2. Apart(LiveAt(e))' /\ Live(e)' = Live(e)
        BY <1>0, <1>19, <4>1, LiveLeft
      <4> QED
        BY <1>0, <1>19, <4>1, <4>2 DEF Waiting
    <3> QED
      BY <3>1, <3>2
  <2> QED
    BY <1>0, <1>18, <2>1, WaitingStill
<1>22. Types'
  BY <1>0, <1>1, <1>5, <1>12 DEF Types, tables
<1> QED
  BY <1>15, <1>18, <1>21, <1>22 DEF Inductive

(* A call is passed on under a number not used before. *)
LEMMA ForwardCallInductive ==
  ASSUME Inductive, NEW d \in Device, ForwardCall(d) PROVE Inductive'
<1> DEFINE m == Head(up[d])
           n == [tag |-> m.tag, job |-> Len(route) + 1, fn |-> m.words[2].value,
                 args |-> SubSeq(m.words, 3, Len(m.words))]
<1>0. Types /\ Passing /\ Waiting
  BY DEF Inductive
<1>1. /\ up[d] # << >> /\ m.tag \in Tag
      /\ Len(m.words) >= 2 /\ m.words[1].kind = "job" /\ m.words[2].kind = "function"
      /\ up' = [up EXCEPT ![d] = Tail(@)]
      /\ route' = Append(route, <<d, m.words[1].value>>)
      /\ down' = [down EXCEPT ![m.words[2].value.on] = Append(@, n)]
      /\ UNCHANGED <<tables, sendQue, jobQue, pc, call, serving, storing>>
  BY DEF ForwardCall
<1>2. /\ up[d] \in Seq(Asked \union Answered) /\ m \in Asked /\ m \in Asked \union Answered
  <2>1. up[d] \in Seq(Asked \union Answered) /\ up[d] # << >> /\ m.tag \in Tag
    BY <1>0, <1>1 DEF Types
  <2>2. m \in Asked \union Answered
    BY <2>1
  <2> HIDE DEF m, n
  <2> QED
    BY <2>1, <2>2 DEF Answered, Tag
<1>3. Tail(up[d]) \in Seq(Asked \union Answered)
  <2>1. up[d] # << >> /\ up[d] \in Seq(Asked \union Answered)
    BY <1>1, <1>2
  <2> QED
    BY <2>1
<1> HIDE DEF m
<1>4. /\ m.words \in Seq(CallWord) /\ m.words # << >>
      /\ m.words[1] \in CallWord /\ m.words[2] \in CallWord /\ Len(m.words) \in Nat
  <2>1. m.words \in Seq(CallWord)
    BY <1>2 DEF Asked
  <2> QED
    BY <1>1, <2>1
<1>5. PICK j \in Int : m.words[1].value = j
  <2>1. m.words[1].value \in Int
    BY <1>1, <1>4 DEF CallWord, Argument
  <2> QED
    BY <2>1
<1>6. PICK o \in Device : m.words[2].value.on = o /\ m.words[2].value \in Function
  <2>1. m.words[2].value \in Function
    BY <1>1, <1>4 DEF CallWord, Argument
  <2>2. m.words[2].value.on \in Device
    BY <2>1, FunctionAssumption
  <2> QED
    BY <2>1, <2>2
<1>7. PICK r \in Nat : r = Len(route) + 1
  BY <1>0 DEF Types
<1>8. /\ n \in Passed /\ n \in Passed \union Answered /\ n.tag = m.tag /\ n.job = r
  <2>1. SubSeq(m.words, 3, Len(m.words)) \in Seq(CallWord)
    <3>1. \A i \in 3 .. Len(m.words) : i \in 1 .. Len(m.words)
      BY <1>4
    <3> QED
      BY <1>4, <3>1, SubSeqProperties
  <2> QED
    BY <1>1, <1>6, <1>7, <2>1 DEF Passed
<1> HIDE DEF n
<1>9. CallKey(n) = (IF m.tag = "call" THEN {r} ELSE {}) /\ AnswerKey(n) = {}
  BY <1>1, <1>8 DEF CallKey, AnswerKey, Tag
<1>10. AskKey(m) = (IF m.tag = "call" THEN {j} ELSE {}) /\ AnswerKey(m) = {}
  BY <1>1, <1>4, <1>5 DEF AskKey, AnswerKey, Tag
<1>11. /\ route' \in Seq(Device \X Int) /\ route \in Seq(Device \X Int)
       /\ DOMAIN route' = DOMAIN route \union {r} /\ r \notin DOMAIN route
       /\ route'[r] = <<d, j>> /\ \A q \in DOMAIN route : route'[q] = route[q]
  <2>1. route \in Seq(Device \X Int) /\ <<d, j>> \in Device \X Int /\ route' = Append(route, <<d, j>>)
    BY <1>0, <1>1, <1>5 DEF Types
  <2> QED
    BY <1>7, <2>1
<1>12. up' \in [Device -> Seq(Asked \union Answered)] /\ up'[d] = Tail(up[d])
      /\ \A e \in Device \ {d} : up'[e] = up[e]
  BY <1>0, <1>1, <1>3 DEF Types
<1>13. Once(Answers(up'[d])) /\ All(Answers(up'[d])) = All(Answers(up[d]))
  <2>1. Once(Answers(up[d]))
    BY <1>0 DEF Passing
  <2>2. /\ Once(Answers(Tail(up[d])))
        /\ All(Answers(Tail(up[d]))) = All(Answers(up[d])) \ AnswerKey(m)
    BY <1>1, <1>2, <2>1, AnswersPop DEF m
  <2> QED
    BY <1>10, <1>12, <2>2
<1>14. /\ Once(Asks(up'[d])) /\ All(Asks(up'[d])) = All(Asks(up[d])) \ AskKey(m)
       /\ AskKey(m) \subseteq All(Asks(up[d]))
  <2>1. Once(Asks(up[d]))
    BY <1>0 DEF Waiting
  <2> QED
    BY <1>1, <1>2, <1>12, <2>1, AsksPop DEF m
<1>15. /\ down[o] \in Seq(Passed \union Answered)
       /\ down' \in [Device -> Seq(Passed \union Answered)]
       /\ down'[o] = Append(down[o], n)
       /\ \A e \in Device \ {o} : down'[e] = down[e]
  <2>1. down[o] \in Seq(Passed \union Answered) /\ down' = [down EXCEPT ![o] = Append(@, n)]
    BY <1>0, <1>1, <1>6 DEF Types
  <2>2. Append(down[o], n) \in Seq(Passed \union Answered)
    BY <1>8, <2>1
  <2> QED
    BY <1>0, <2>1, <2>2 DEF Types
<1>16. CallKey(n) \intersect Out = {}
  BY <1>0, <1>9, <1>11 DEF Passing
<1>17. <<"down", o>> \in OutPlace /\ OutAt[<<"down", o>>] \subseteq Out
  <2>1. <<"down", o>> \in OutPlace /\ DOMAIN OutAt = OutPlace
    BY DEF OutPlace, OutAt
  <2> QED
    BY <2>1 DEF Out, All
<1>18. Once(Calls(down'[o])) /\ All(Calls(down'[o])) = All(Calls(down[o])) \union CallKey(n)
  <2>1. OutAt[<<"down", o>>] = All(Calls(down[o]))
    BY OutPlaces
  <2>2. /\ Once(Calls(down[o])) /\ CallKey(n) \intersect All(Calls(down[o])) = {}
        /\ down[o] \in Seq(Passed \union Answered) /\ n \in Passed \union Answered
    BY <1>0, <1>8, <1>15, <1>16, <1>17, <2>1 DEF Passing
  <2>3. /\ Once(Calls(Append(down[o], n)))
        /\ All(Calls(Append(down[o], n))) = All(Calls(down[o])) \union CallKey(n)
    BY <2>2, CallsPush
  <2> QED
    BY <1>15, <2>3
<1>19. Once(Answers(down'[o])) /\ All(Answers(down'[o])) = All(Answers(down[o]))
  <2>1. /\ Once(Answers(down[o])) /\ AnswerKey(n) \intersect All(Answers(down[o])) = {}
        /\ down[o] \in Seq(Passed \union Answered) /\ n \in Passed \union Answered
    BY <1>0, <1>8, <1>9, <1>15 DEF Waiting
  <2>2. /\ Once(Answers(Append(down[o], n)))
        /\ All(Answers(Append(down[o], n))) = All(Answers(down[o])) \union AnswerKey(n)
    BY <2>1, AnswersPush
  <2> QED
    BY <1>9, <1>15, <2>2
<1>20. Apart(OutAt)' /\ Out' = Out \union CallKey(n)
  <2>1. ASSUME NEW x \in OutPlace \ {<<"down", o>>} PROVE OutAt'[x] = OutAt[x]
    <3>1. x[2] \in Device /\ (x[1] = "down" => x[2] # o)
      BY DEF OutPlace
    <3>2. jobIDMap' = jobIDMap /\ serving' = serving /\ jobQue' = jobQue
      BY <1>1 DEF tables
    <3>3. All(Answers(up'[x[2]])) = All(Answers(up[x[2]]))
      BY <1>12, <1>13, <3>1
    <3>4. x[1] = "down" => All(Calls(down'[x[2]])) = All(Calls(down[x[2]]))
      BY <1>15, <3>1
    <3> QED
      BY <3>2, <3>3, <3>4, OutLeft
  <2>2. OutAt'[<<"down", o>>] = OutAt[<<"down", o>>] \union CallKey(n)
    BY <1>18, OutPlaces
  <2> QED
    BY <1>0, <1>16, <1>17, <2>1, <2>2, OutAdds
<1>21. m.tag = "call" => j \notin Coming(d)
  <2>1. Apart(LiveAt(d)) /\ DOMAIN LiveAt(d) = LivePlace
    BY <1>0 DEF Waiting, LiveAt
  <2>2. LiveAt(d)["up"] \intersect LiveAt(d)["route"] = {}
    BY <2>1 DEF Apart, LivePlace
  <2>3. LiveAt(d)["route"] = Coming(d) /\ LiveAt(d)["up"] = All(Asks(up[d]))
    BY LivePlaces
  <2> QED
    BY <1>10, <1>14, <2>2, <2>3
<1>22. \A q \in Out : q \in DOMAIN route /\ route'[q] = route[q]
  BY <1>0, <1>11 DEF Passing
<1>23. Passing'
  <2>1. \A e \in Device :
          Once(Calls(down'[e])) /\ Once(Calls(jobQue'[e])) /\ Once(Answers(up'[e]))
    BY <1>0, <1>1, <1>12, <1>13, <1>15, <1>18 DEF Passing
  <2>2. Out' \subseteq DOMAIN route'
    BY <1>0, <1>9, <1>11, <1>20 DEF Passing
  <2>3. ASSUME NEW q \in Out, m.tag = "call" PROVE route'[q] # route'[r]
    <3>1. route'[q] = route'[r] => route[q][1] = d /\ route[q][2] = j
      BY <1>11, <1>22
    <3> QED
      BY <1>21, <2>3, <3>1 DEF Coming
  <2>4. ASSUME NEW p \in Out', NEW s \in Out', route'[p] = route'[s] PROVE p = s
    <3>1. CASE p \in Out /\ s \in Out
      BY <1>0, <1>22, <2>4, <3>1 DEF Passing
    <3>2. CASE ~ (p \in Out /\ s \in Out)
      <4>1. /\ m.tag = "call" /\ (p \in Out \/ p = r) /\ (s \in Out \/ s = r)
        BY <1>9, <1>20, <3>2
      <4> QED
        BY <2>3, <2>4, <3>2, <4>1
    <3> QED
      BY <3>1, <3>2
  <2> QED
    BY <1>20, <2>1, <2>2, <2>4 DEF Passing
<1>24. /\ Coming(d)' = Coming(d) \union AskKey(m)
       /\ \A e \in Device \ {d} : Coming(e)' = Coming(e)
  <2>1. ASSUME NEW e \in Device, NEW x
        PROVE  x \in Coming(e)' <=>
                 \/ \E q \in Out : route[q][1] = e /\ route[q][2] = x
                 \/ m.tag = "call" /\ d = e /\ j = x
    <3>1. x \in Coming(e)' <=> \E q \in Out' : route'[q][1] = e /\ route'[q][2] = x
      BY DEF Coming
    <3>2. route'[r][1] = d /\ route'[r][2] = j
      BY <1>11
    <3>3. \A q : q \in Out' <=> q \in Out \/ (m.tag = "call" /\ q = r)
      BY <1>9, <1>20
    <3> QED
      BY <1>22, <3>1, <3>2, <3>3
  <2>2. ASSUME NEW e \in Device, NEW x
        PROVE  x \in Coming(e) <=> \E q \in Out : route[q][1] = e /\ route[q][2] = x
    BY DEF Coming
  <2>3. ASSUME NEW x PROVE x \in Coming(d)' <=> x \in Coming(d) \union AskKey(m)
    BY <1>10, <2>1, <2>2
  <2>4. ASSUME NEW e \in Device \ {d} PROVE Coming(e)' = Coming(e)
    <3>1. \A x : x \in Coming(e)' <=> x \in Coming(e)
      BY <2>1, <2>2, <2>4
    <3> QED
      BY <3>1
  <2> QED
    BY <2>3, <2>4
<1>25. /\ Phases' /\ Tables' /\ Executes'
       /\ \A e \in Device : \A i : Awaited(e, i) => Awaited(e, i)'
  BY <1>1, CallersStay
<1>26. \A e \in Device :
         /\ First(e)' = First(e) /\ storing'[e] = storing[e]
         /\ Once(Answers(down'[e])) /\ All(Answers(down'[e])) = All(Answers(down[e]))
  BY <1>0, <1>1, <1>15, <1>19 DEF First, Waiting
<1>27. Apart(LiveAt(d))' /\ Live(d)' = Live(d)
  <2>1. PICK K : K = AskKey(m)
    OBVIOUS
  <2>2. /\ K \subseteq LiveAt(d)["up"] /\ LiveAt(d)'["up"] = LiveAt(d)["up"] \ K
        /\ LiveAt(d)'["route"] = LiveAt(d)["route"] \union K
    BY <1>14, <1>24, <2>1, LivePlaces
  <2>3. "route" \in LivePlace /\ "up" \in LivePlace /\ "up" # "route"
    BY DEF LivePlace
  <2>4. ASSUME NEW x \in LivePlace \ {"up", "route"} PROVE LiveAt(d)'[x] = LiveAt(d)[x]
    <3>1. x = "sendQue" \/ x = "down" \/ x = "storing"
      BY DEF LivePlace
    <3>2. /\ First(d)' = First(d) /\ storing'[d] = storing[d]
          /\ All(Answers(down'[d])) = All(Answers(down[d]))
      BY <1>26
    <3>3. CASE x = "sendQue"
      BY <3>2, <3>3, LivePlaces
    <3>4. CASE x = "down"
      BY <3>2, <3>4, LivePlaces
    <3>5. CASE x = "storing"
      BY <3>2, <3>5, LivePlaces
    <3> QED
      BY <3>1, <3>3, <3>4, <3>5
  <2> QED
    BY <1>0, <2>2, <2>3, <2>4, LiveMoves
<1>28. Waiting'
  <2>1. ASSUME NEW e \in Device
        PROVE  /\ Apart(LiveAt(e))' /\ Live(e)' = Live(e)
               /\ Once(Asks(up'[e])) /\ Once(Answers(down'[e]))
    <3>1. CASE e = d
      BY <1>14, <1>26, <1>27, <3>1
    <3>2. CASE e # d
      <4>1. up'[e] = up[e] /\ Coming(e)' = Coming(e)
        BY <1>12, <1>24, <3>2
      <4>2. Apart(LiveAt(e))' /\ Live(e)' = Live(e)
        BY <1>0, <1>26, <4>1, LiveLeft
      <4> QED
        BY <1>0, <1>26, <4>1, <4>2 DEF Waiting
    <3> QED
      BY <3>1, <3>2
  <2> QED
    BY <1>0, <1>25, <2>1, WaitingStill
<1>29. Types'
  BY <1>0, <1>1, <1>11, <1>12, <1>15 DEF Types, tables
<1> QED
  BY <1>23, <1>25, <1>28, <1>29 DEF Inductive

-----------------------------------------------------------------------------
(* The handler thread.                                                     *)

(* Between calls of its own it touches nothing of a caller.                *)
LEMMA Handles ==
  ASSUME Inductive, NEW d \in Device, NEW there \in {"consumeFunctionArgs", "run", "idle"},
         pc[<<d, "handler">>] \notin Calling,
         pc' = [pc EXCEPT ![<<d, "handler">>] = there],
         jobID' \in [Device -> Nat], \A e \in Device : jobID'[e] >= jobID[e],
         \A e \in Device \ {d} : serving'[e] = serving[e],
         there = "idle" <=> serving'[d] = None,
         UNCHANGED <<runningJobs, consumeTable, returnValueTable, call>>
  PROVE  /\ Phases' /\ Tables' /\ pc'[<<d, "handler">>] = there
         /\ \A e \in Device \ {d} : pc'[<<e, "handler">>] = pc[<<e, "handler">>]
         /\ pc' \in [Thread -> Calling \union {"none", "run", "idle", "consumeFunctionArgs"}]
         /\ \A e \in Device : \A j : Awaited(e, j) => Awaited(e, j)'
<1>0. Types /\ Phases /\ Tables
  BY DEF Inductive
<1> DEFINE t == <<d, "handler">>
<1>1. t \in Thread /\ \A e \in Device : <<e, "handler">> \in Thread
  BY DEF Thread
<1>2. /\ pc' \in [Thread -> Calling \union {"none", "run", "idle", "consumeFunctionArgs"}]
      /\ pc'[t] = there /\ \A u \in Thread \ {t} : pc'[u] = pc[u]
  BY <1>0, <1>1 DEF Types
<1>3. there \notin Calling /\ call[t] = None
  BY <1>0, <1>1 DEF Phases, Calling, Before, Since
<1>4. /\ \A e \in Device \ {d} : pc'[<<e, "handler">>] = pc[<<e, "handler">>]
      /\ pc'[<<d, "handler">>] = there
  <2>1. \A e \in Device \ {d} : <<e, "handler">> \in Thread \ {t}
    BY <1>1
  <2> QED
    BY <1>2, <2>1
<1> HIDE DEF t
<1>5. \A u \in Thread : (Caller(u)' <=> Caller(u)) /\ (call[u] # None => u # t)
  BY <1>3 DEF Caller
<1>6. \A e \in Device : Jobs(e)' = Jobs(e)
  BY <1>5 DEF Jobs
<1>7. ASSUME NEW u \in Thread, call[u] # None, call[u].tag = "call"
      PROVE  call[u].job < jobID'[u[1]] /\ call[u].job \in Nat
  <2>1. u[1] \in Device
    BY DEF Thread
  <2>2. call[u].job < jobID[u[1]] /\ call[u].job \in Nat /\ jobID[u[1]] \in Nat
    BY <1>0, <1>7, <2>1 DEF Phases, Types
  <2>3. jobID'[u[1]] \in Nat /\ jobID'[u[1]] >= jobID[u[1]]
    BY <2>1
  <2> QED
    BY <2>2, <2>3
<1>8. Phases'
  <2>1. \A u \in Thread : pc'[u] \in Calling <=> call'[u] # None
    BY <1>0, <1>2, <1>3 DEF Phases
  <2>2. \A e \in Device : pc'[<<e, "handler">>] = "idle" <=> serving'[e] = None
    BY <1>0, <1>4 DEF Phases
  <2>3. ASSUME NEW u \in Thread, call'[u] # None
        PROVE  /\ call'[u].tag = "call" => call'[u].job < jobID'[u[1]] /\ call'[u].job \in Nat
               /\ call'[u].tag = "async" => pc'[u] \notin {"insertConsumeWait", "consumeReturn"}
               /\ pc'[u] = "pushArgument" => call'[u].pushed < Len(Params[call'[u].fn])
    <3>1. call'[u] = call[u] /\ call[u] # None /\ pc'[u] = pc[u]
      BY <1>2, <1>5, <2>3
    <3> QED
      BY <1>0, <1>7, <3>1 DEF Phases
  <2>4. \A u, v \in Thread :
          Caller(u)' /\ Caller(v)' /\ u[1] = v[1] /\ call'[u].job = call'[v].job => u = v
    BY <1>0, <1>5 DEF Phases
  <2> QED
    BY <2>1, <2>2, <2>3, <2>4 DEF Phases
<1>9. Tables'
  <2>1. ASSUME NEW e \in Device, NEW j \in DOMAIN consumeTable[e] PROVE j < jobID'[e]
    <3>1. j < jobID[e] /\ j \in Int /\ jobID[e] \in Nat
      BY <1>0 DEF Tables, Types, IsTable
    <3>2. jobID'[e] \in Nat /\ jobID'[e] >= jobID[e]
      OBVIOUS
    <3> QED
      BY <3>1, <3>2
  <2>2. ASSUME NEW u \in Thread, Caller(u)' PROVE Caller(u) /\ pc'[u] = pc[u]
    BY <1>2, <1>5, <2>2 DEF Caller
  <2> QED
    BY <1>0, <1>6, <2>1, <2>2 DEF Tables
<1>10. ASSUME NEW e \in Device, NEW j, Awaited(e, j) PROVE Awaited(e, j)'
  <2>1. PICK u \in Thread : /\ u[1] = e /\ Caller(u) /\ call[u].job = j /\ pc[u] \in Since
                            /\ ~ consumeTable[e][j]
    BY <1>10 DEF Awaited
  <2>2. pc'[u] = pc[u] /\ Caller(u)'
    BY <1>2, <1>5, <2>1 DEF Caller
  <2> QED
    BY <2>1, <2>2 DEF Awaited
<1> QED
  BY <1>2, <1>4, <1>8, <1>9, <1>10

LEMMA RemoteCallCallbackInductive ==
  ASSUME Inductive, NEW d \in Device, RemoteCallCallback(d) PROVE Inductive'
<1> DEFINE m == Head(jobQue[d])
           K == CallKey(m)
<1>0. Types /\ Phases /\ Executes /\ Passing /\ Waiting
  BY DEF Inductive
<1>1. PICK local : local = IF m.tag = "call" THEN jobID[d] ELSE Async
  OBVIOUS
<1>2. /\ jobQue[d] # << >> /\ pc[<<d, "handler">>] = "idle"
      /\ pc' = [pc EXCEPT ![<<d, "handler">>] = "consumeFunctionArgs"]
      /\ jobQue' = [jobQue EXCEPT ![d] = Tail(@)]
      /\ jobID' = [jobID EXCEPT ![d] = IF m.tag = "call" THEN @ + 1 ELSE @]
      /\ jobIDMap' = Insert(jobIDMap, d, local, m.job)
      /\ argsTable' = Insert(argsTable, d, local, m.args)
      /\ serving' = [serving EXCEPT ![d] = [job |-> local, fn |-> m.fn, args |-> None]]
      /\ UNCHANGED <<runningJobs, consumeTable, returnValueTable, args_list, sendQue,
                     up, down, route, call, storing>>
  BY <1>1 DEF RemoteCallCallback, Goto
<1>3. /\ jobQue[d] \in Seq(Passed) /\ m \in Passed /\ Tail(jobQue[d]) \in Seq(Passed)
      /\ jobQue' \in [Device -> Seq(Passed)] /\ jobQue'[d] = Tail(jobQue[d])
      /\ \A e \in Device \ {d} : jobQue'[e] = jobQue[e]
  <2>1. jobQue[d] \in Seq(Passed) /\ jobQue[d] # << >>
    BY <1>0, <1>2 DEF Types
  <2>2. m \in Passed /\ Tail(jobQue[d]) \in Seq(Passed)
    BY <2>1
  <2> HIDE DEF m
  <2> QED
    BY <1>0, <1>2, <2>1, <2>2 DEF Types
<1> HIDE DEF m, K
<1>4. /\ m.job \in Int /\ m.args \in Seq(CallWord) /\ m.fn \in Function /\ m.tag \in Tag
      /\ local \in Int /\ (m.tag = "call" <=> local # Async) /\ Async \in Int
  <2>1. m.job \in Int /\ m.args \in Seq(CallWord) /\ m.fn \in Function /\ m.tag \in Tag
    BY <1>3 DEF Passed
  <2>2. jobID[d] \in Nat
    BY <1>0 DEF Types
  <2> QED
    BY <1>1, <2>1, <2>2 DEF Async
<1>5. jobID' \in [Device -> Nat] /\ \A e \in Device : jobID'[e] >= jobID[e]
  <2>1. jobID \in [Device -> Nat] /\ jobID[d] \in Nat
    BY <1>0 DEF Types
  <2>2. \A e \in Device : jobID'[e] = IF e = d /\ m.tag = "call" THEN jobID[e] + 1 ELSE jobID[e]
    BY <1>2, <2>1
  <2>3. jobID' = [e \in Device |-> jobID'[e]]
    BY <1>2, <2>1
  <2>4. \A e \in Device : jobID[e] \in Nat
    BY <2>1
  <2>5. \A e \in Device : jobID'[e] \in Nat /\ jobID'[e] >= jobID[e]
    BY <2>2, <2>4
  <2> QED
    BY <2>3, <2>5
<1>6. /\ IsTable(jobIDMap', Int) /\ jobIDMap'[d][local] = m.job
      /\ DOMAIN jobIDMap'[d] = DOMAIN jobIDMap[d] \union {local}
      /\ \A e \in Device \ {d} : jobIDMap'[e] = jobIDMap[e]
  <2>1. PICK x \in Int : x = m.job
    BY <1>4
  <2>2. IsTable(jobIDMap, Int) /\ jobIDMap' = Insert(jobIDMap, d, local, x) /\ local \in Int
    BY <1>0, <1>2, <1>4, <2>1 DEF Types
  <2>3. /\ IsTable(jobIDMap', Int) /\ jobIDMap'[d][local] = x
        /\ DOMAIN jobIDMap'[d] = DOMAIN jobIDMap[d] \union {local}
        /\ \A e \in Device \ {d} : jobIDMap'[e] = jobIDMap[e]
    BY <2>2, Inserted
  <2> QED
    BY <2>1, <2>3
<1>7. /\ IsTable(argsTable', Seq(CallWord))
      /\ DOMAIN argsTable'[d] = DOMAIN argsTable[d] \union {local}
      /\ \A e \in Device \ {d} : argsTable'[e] = argsTable[e]
  <2>1. PICK x \in Seq(CallWord) : x = m.args
    BY <1>4
  <2>2. /\ IsTable(argsTable, Seq(CallWord)) /\ local \in Int
        /\ argsTable' = Insert(argsTable, d, local, x)
    BY <1>0, <1>2, <1>4, <2>1 DEF Types
  <2> QED
    BY <2>2, Inserted
<1>8. /\ serving' \in [Device -> Executing \union {None}]
      /\ serving'[d] # None /\ serving'[d].job = local
      /\ \A e \in Device \ {d} : serving'[e] = serving[e]
  <2>1. PICK x : x = [job |-> local, fn |-> m.fn, args |-> None]
    OBVIOUS
  <2>2. x \in Executing /\ x.job = local
    BY <1>4, <2>1 DEF Executing
  <2>3. x # None
    BY <2>2, NoneAssumption
  <2> QED
    BY <1>0, <1>2, <2>1, <2>2, <2>3 DEF Types
<1>9. /\ Phases' /\ Tables' /\ pc'[<<d, "handler">>] = "consumeFunctionArgs"
      /\ \A e \in Device \ {d} : pc'[<<e, "handler">>] = pc[<<e, "handler">>]
      /\ pc' \in [Thread -> Calling \union {"none", "run", "idle", "consumeFunctionArgs"}]
      /\ \A e \in Device : \A j : Awaited(e, j) => Awaited(e, j)'
  <2>1. pc[<<d, "handler">>] \notin Calling
    BY <1>2 DEF Calling, Before, Since
  <2> QED
    BY <1>2, <1>5, <1>8, <2>1, Handles
<1>10. Served(d) = {} /\ serving[d] = None /\ Served(d)' = {local}
       /\ \A e \in Device \ {d} : Served(e)' = Served(e)
  BY <1>0, <1>2, <1>8 DEF Phases, Served
<1>11. Executes'
  <2>1. ASSUME NEW e \in Device
        PROVE  /\ DOMAIN jobIDMap'[e] \ {Async} = Served(e)' \ {Async}
               /\ DOMAIN argsTable'[e] =
                    IF pc'[<<e, "handler">>] = "consumeFunctionArgs" THEN Served(e)' ELSE {}
    <3>1. CASE e = d
      <4>1. DOMAIN jobIDMap[d] \ {Async} = {} /\ DOMAIN argsTable[d] = {}
        BY <1>0, <1>2, <1>10 DEF Executes
      <4> QED
        BY <1>6, <1>7, <1>9, <1>10, <3>1, <4>1
    <3>2. CASE e # d
      BY <1>0, <1>6, <1>7, <1>9, <1>10, <3>2 DEF Executes
    <3> QED
      BY <3>1, <3>2
  <2> QED
    BY <2>1 DEF Executes
<1>12. /\ Once(Calls(jobQue'[d])) /\ K \subseteq All(Calls(jobQue[d]))
       /\ All(Calls(jobQue'[d])) = All(Calls(jobQue[d])) \ K
  <2>1. Once(Calls(jobQue[d]))
    BY <1>0 DEF Passing
  <2> QED
    BY <1>2, <1>3, <2>1, CallsPop DEF m, K
<1>13. Apart(OutAt)' /\ Out' = Out
  <2>1. /\ <<"jobQue", d>> \in OutPlace /\ <<"serving", d>> \in OutPlace
        /\ <<"jobQue", d>> # <<"serving", d>>
    BY DEF OutPlace
  <2>2. ASSUME NEW x \in OutPlace \ {<<"jobQue", d>>, <<"serving", d>>} PROVE OutAt'[x] = OutAt[x]
    <3>1. x[2] \in Device /\ (x[1] \in {"jobQue", "serving"} => x[2] # d)
      BY DEF OutPlace
    <3>2. down' = down /\ up' = up
      BY <1>2
    <3> QED
      BY <1>3, <1>6, <1>8, <3>1, <3>2, OutLeft
  <2>3. OutAt[<<"serving", d>>] = {} /\ OutAt'[<<"serving", d>>] = K
    <3>1. OutAt[<<"serving", d>>] = {}
      BY <1>10, OutPlaces
    <3>2. OutAt'[<<"serving", d>>] = IF {local} \subseteq {Async} THEN {} ELSE {m.job}
      BY <1>6, <1>8, <1>10, OutPlaces
    <3> QED
      BY <1>4, <3>1, <3>2 DEF K, CallKey
  <2>4. /\ K \subseteq OutAt[<<"jobQue", d>>]
        /\ OutAt'[<<"jobQue", d>>] = OutAt[<<"jobQue", d>>] \ K
        /\ OutAt'[<<"serving", d>>] = OutAt[<<"serving", d>>] \union K
    BY <1>12, <2>3, OutPlaces
  <2> QED
    BY <1>0, <2>1, <2>2, <2>4, OutMoves
<1>14. Passing'
  <2>1. \A e \in Device :
          Once(Calls(down'[e])) /\ Once(Calls(jobQue'[e])) /\ Once(Answers(up'[e]))
    BY <1>0, <1>2, <1>3, <1>12 DEF Passing
  <2> QED
    BY <1>0, <1>2, <1>13, <2>1 DEF Passing
<1>15. Waiting'
  <2>1. ASSUME NEW e \in Device
        PROVE  /\ Apart(LiveAt(e))' /\ Live(e)' = Live(e)
               /\ Once(Asks(up'[e])) /\ Once(Answers(down'[e]))
    <3>1. First(e)' = First(e) /\ Coming(e)' = Coming(e)
      BY <1>2, <1>13 DEF First, Coming
    <3>2. up' = up /\ down' = down /\ storing' = storing
      BY <1>2
    <3> QED
      BY <1>0, <3>1, <3>2, LiveLeft DEF Waiting
  <2> QED
    BY <1>0, <1>9, <2>1, WaitingStill
<1>16. Types'
  BY <1>0, <1>2, <1>3, <1>5, <1>6, <1>7, <1>8, <1>9 DEF Types
<1> QED
  BY <1>9, <1>11, <1>14, <1>15, <1>16 DEF Inductive

LEMMA LoadedType ==
  ASSUME NEW words \in Seq(CallWord), NEW offset, NEW n \in Nat
  PROVE  Loaded(words, offset, n) \in Seq(CallWord \union {None})
<1>1. \A x \in DOMAIN words : words[x] \in CallWord
  OBVIOUS
<1>2. Loaded(words, offset, n) \in [1 .. n -> CallWord \union {None}]
  BY <1>1 DEF Loaded
<1> QED
  BY <1>2, SeqDef

LEMMA UnpackedType ==
  ASSUME NEW d \in Device, NEW types \in Seq(Type), NEW words \in Seq(CallWord)
  PROVE  Unpacked(d, types, words) \in Seq(Seq(CallWord \union {None}))
<1> DEFINE S == Seq(CallWord \union {None})
<1>1. ASSUME NEW i \in DOMAIN types, NEW offset
      PROVE  Loaded(words, offset, Taken(d, types[i])) \in S
  <2>1. types[i] \in Type
    OBVIOUS
  <2>2. Taken(d, types[i]) \in Nat
    BY <2>1, Sizes DEF Taken
  <2> QED
    BY <2>2, LoadedType
<1> HIDE DEF S
<1>2. Unpacked(d, types, words) \in [DOMAIN types -> S]
  BY <1>1 DEF Unpacked
<1>3. DOMAIN types = 1 .. Len(types) /\ Len(types) \in Nat
  OBVIOUS
<1> QED
  BY <1>2, <1>3, SeqDef DEF S

LEMMA ConsumeFunctionArgsInductive ==
  ASSUME Inductive, NEW d \in Device, ConsumeFunctionArgs(d) PROVE Inductive'
<1>0. Types /\ Phases /\ Executes /\ Passing /\ Waiting
  BY DEF Inductive
<1>1. PICK local : local = serving[d].job
  OBVIOUS
<1>2. PICK args : args = Unpacked(d, Params[serving[d].fn], At(argsTable, d, local))
  OBVIOUS
<1>3. /\ pc[<<d, "handler">>] = "consumeFunctionArgs"
      /\ pc' = [pc EXCEPT ![<<d, "handler">>] = "run"]
      /\ serving' = [serving EXCEPT ![d].args = args]
      /\ argsTable' = Erase(argsTable, d, local)
      /\ UNCHANGED <<jobID, runningJobs, consumeTable, returnValueTable, jobIDMap,
                     args_list, sendQue, up, down, jobQue, route, call, storing>>
  BY <1>1, <1>2 DEF ConsumeFunctionArgs, Goto, network
<1>4. serving[d] # None /\ serving[d] \in Executing
  BY <1>0, <1>3 DEF Phases, Types
<1>5. Served(d) = {local} /\ local \in DOMAIN argsTable[d] /\ DOMAIN argsTable[d] = {local}
  BY <1>0, <1>1, <1>3, <1>4 DEF Executes, Served
<1>6. args \in Seq(Seq(CallWord \union {None}))
  <2>1. Params[serving[d].fn] \in Seq(Type)
    BY <1>4, FunctionAssumption DEF Executing
  <2>2. At(argsTable, d, local) \in Seq(CallWord)
    BY <1>0, <1>5 DEF At, Types, IsTable
  <2> QED
    BY <1>2, <2>1, <2>2, UnpackedType
<1>7. /\ serving' \in [Device -> Executing \union {None}]
      /\ serving'[d] # None /\ serving'[d].job = local
      /\ \A e \in Device \ {d} : serving'[e] = serving[e]
  <2>1. PICK x : x = [serving[d] EXCEPT !.args = args]
    OBVIOUS
  <2>2. x \in Executing /\ x.job = local
    BY <1>1, <1>4, <1>6, <2>1 DEF Executing
  <2>3. x # None
    BY <2>2, NoneAssumption
  <2>4. serving' = [serving EXCEPT ![d] = x]
    BY <1>0, <1>3, <2>1 DEF Types
  <2> QED
    BY <1>0, <2>2, <2>3, <2>4 DEF Types
<1>8. /\ IsTable(argsTable', Seq(CallWord))
      /\ DOMAIN argsTable'[d] = DOMAIN argsTable[d] \ {local}
      /\ \A e \in Device \ {d} : argsTable'[e] = argsTable[e]
  <2>1. IsTable(argsTable, Seq(CallWord)) /\ argsTable' = Erase(argsTable, d, local)
    BY <1>0, <1>3 DEF Types
  <2> QED
    BY <2>1, Erased
<1>9. /\ Phases' /\ Tables' /\ pc'[<<d, "handler">>] = "run"
      /\ \A e \in Device \ {d} : pc'[<<e, "handler">>] = pc[<<e, "handler">>]
      /\ pc' \in [Thread -> Calling \union {"none", "run", "idle", "consumeFunctionArgs"}]
      /\ \A e \in Device : \A j : Awaited(e, j) => Awaited(e, j)'
  <2>1. pc[<<d, "handler">>] \notin Calling
    BY <1>3 DEF Calling, Before, Since
  <2>2. jobID' = jobID /\ \A e \in Device : jobID[e] \in Nat /\ jobID[e] >= jobID[e]
    BY <1>0, <1>3 DEF Types
  <2>3. jobID' \in [Device -> Nat] /\ \A e \in Device : jobID'[e] >= jobID[e]
    BY <1>0, <2>2 DEF Types
  <2> QED
    BY <1>3, <1>7, <2>1, <2>3, Handles
<1>10. \A e \in Device : Served(e)' = Served(e)
  BY <1>1, <1>4, <1>7 DEF Served
<1>11. Executes'
  <2>1. ASSUME NEW e \in Device
        PROVE  /\ DOMAIN jobIDMap'[e] \ {Async} = Served(e)' \ {Async}
               /\ DOMAIN argsTable'[e] =
                    IF pc'[<<e, "handler">>] = "consumeFunctionArgs" THEN Served(e)' ELSE {}
    <3>1. CASE e = d
      BY <1>0, <1>3, <1>5, <1>8, <1>9, <1>10, <3>1 DEF Executes
    <3>2. CASE e # d
      BY <1>0, <1>3, <1>8, <1>9, <1>10, <3>2 DEF Executes
    <3> QED
      BY <3>1, <3>2
  <2> QED
    BY <2>1 DEF Executes
<1>12. Passing' /\ Out' = Out
  <2>1. ASSUME NEW x \in OutPlace PROVE OutAt'[x] = OutAt[x]
    <3>1. x[2] \in Device
      BY DEF OutPlace
    <3>2. down' = down /\ up' = up /\ jobQue' = jobQue /\ jobIDMap' = jobIDMap
      BY <1>3
    <3>3. /\ serving'[x[2]].job = serving[x[2]].job
          /\ serving'[x[2]] = None <=> serving[x[2]] = None
      BY <1>1, <1>4, <1>7, <3>1
    <3> QED
      BY <3>2, <3>3, OutLeft
  <2>2. route' = route /\ \A e \in Device :
          Once(Calls(down'[e])) /\ Once(Calls(jobQue'[e])) /\ Once(Answers(up'[e]))
    BY <1>0, <1>3 DEF Passing
  <2> QED
    BY <1>0, <2>1, <2>2, OutSame
<1>13. Waiting'
  <2>1. ASSUME NEW e \in Device
        PROVE  /\ Apart(LiveAt(e))' /\ Live(e)' = Live(e)
               /\ Once(Asks(up'[e])) /\ Once(Answers(down'[e]))
    <3>1. First(e)' = First(e) /\ Coming(e)' = Coming(e)
      BY <1>3, <1>12 DEF First, Coming
    <3>2. up' = up /\ down' = down /\ storing' = storing
      BY <1>3
    <3> QED
      BY <1>0, <3>1, <3>2, LiveLeft DEF Waiting
  <2> QED
    BY <1>0, <1>9, <2>1, WaitingStill
<1>14. Types'
  BY <1>0, <1>3, <1>7, <1>8, <1>9 DEF Types
<1> QED
  BY <1>9, <1>11, <1>12, <1>13, <1>14 DEF Inductive

LEMMA ReturnedType ==
  ASSUME NEW d \in Device, NEW fn \in Function, NEW which \in Device \X Int
  PROVE  Returned(d, fn, which) \in Seq(ResultWord)
<1>1. PICK n \in Nat : n = AllocSize(d, Result[fn])
  <2>1. Result[fn] \in Type \union {"void"}
    BY FunctionAssumption
  <2> QED
    BY <2>1, Sizes
<1>2. \A k \in 1 .. n : Word("result", <<which, k>>) \in ResultWord
  BY DEF Word, ResultWord
<1>3. Returned(d, fn, which) \in [1 .. n -> ResultWord]
  BY <1>1, <1>2 DEF Returned
<1> QED
  BY <1>3, SeqDef

LEMMA ProduceReturnInductive ==
  ASSUME Inductive, Sending, NEW d \in Device, ProduceReturn(d) PROVE Inductive'
<1>0. Types /\ Phases /\ Executes /\ Passing /\ Waiting
  BY DEF Inductive
<1>1. PICK local : local = serving[d].job
  OBVIOUS
<1>2. PICK source : source = At(jobIDMap, d, local)
  OBVIOUS
<1>3. PICK m : m = [tag |-> "return", job |-> source,
                    value |-> Returned(d, serving[d].fn, route[source])]
  OBVIOUS
<1>4. /\ pc[<<d, "handler">>] = "run" /\ local # Async
      /\ pc' = [pc EXCEPT ![<<d, "handler">>] = "idle"]
      /\ up' = [up EXCEPT ![d] = Append(@, m)]
      /\ jobIDMap' = Erase(jobIDMap, d, local)
      /\ serving' = [serving EXCEPT ![d] = None]
      /\ UNCHANGED <<jobID, runningJobs, consumeTable, returnValueTable, argsTable,
                     args_list, sendQue, down, jobQue, route, call, storing>>
  <2>1. /\ pc[<<d, "handler">>] = "run" /\ line[<<d, "handler">>] = "message"
        /\ <<d, "handler">> \in Thread
    BY DEF ProduceReturn, Goto, Move, Thread
  <2>2. local # Async
    BY <1>1, <2>1 DEF Sending, Replying
  <2> QED
    BY <1>1, <1>2, <1>3, <2>2 DEF ProduceReturn, Goto
<1>5. serving[d] # None /\ serving[d] \in Executing /\ serving[d].fn \in Function
  BY <1>0, <1>4 DEF Phases, Types, Executing
<1>6. /\ Served(d) = {local} /\ DOMAIN jobIDMap[d] \ {Async} = {local}
      /\ DOMAIN argsTable[d] = {}
  BY <1>0, <1>1, <1>4, <1>5 DEF Executes, Served
<1>7. /\ source = jobIDMap[d][local] /\ source \in Int
      /\ OutAt[<<"serving", d>>] = {source} /\ <<"serving", d>> \in OutPlace
      /\ <<"up", d>> \in OutPlace /\ <<"serving", d>> # <<"up", d>>
  <2>1. source = jobIDMap[d][local] /\ source \in Int
    BY <1>0, <1>2, <1>6 DEF At, Types, IsTable
  <2>2. OutAt[<<"serving", d>>] = {source}
    BY <1>1, <1>4, <1>6, <2>1, OutPlaces
  <2> QED
    BY <2>1, <2>2 DEF OutPlace
<1>8. route[source] \in Device \X Int
  <2>1. source \in Out
    BY <1>7 DEF Out, All, OutAt
  <2>2. source \in DOMAIN route /\ route \in Seq(Device \X Int)
    BY <1>0, <2>1 DEF Passing, Types
  <2> QED
    BY <2>2
<1>9. m \in Answered /\ m \in Asked \union Answered /\ AnswerKey(m) = {source} /\ AskKey(m) = {}
  <2>1. Returned(d, serving[d].fn, route[source]) \in Seq(ResultWord)
    BY <1>5, <1>8, ReturnedType
  <2>2. m \in Answered /\ m.tag = "return" /\ m.job = source
    BY <1>3, <1>7, <2>1 DEF Answered
  <2> QED
    BY <2>2 DEF AnswerKey, AskKey
<1>10. /\ up[d] \in Seq(Asked \union Answered)
       /\ up' \in [Device -> Seq(Asked \union Answered)] /\ up'[d] = Append(up[d], m)
       /\ \A e \in Device \ {d} : up'[e] = up[e]
  <2>1. up[d] \in Seq(Asked \union Answered)
    BY <1>0 DEF Types
  <2>2. Append(up[d], m) \in Seq(Asked \union Answered)
    BY <1>9, <2>1
  <2> QED
    BY <1>0, <1>4, <2>1, <2>2 DEF Types
<1>11. /\ IsTable(jobIDMap', Int) /\ DOMAIN jobIDMap'[d] = DOMAIN jobIDMap[d] \ {local}
       /\ \A e \in Device \ {d} : jobIDMap'[e] = jobIDMap[e]
  <2>1. IsTable(jobIDMap, Int) /\ jobIDMap' = Erase(jobIDMap, d, local)
    BY <1>0, <1>4 DEF Types
  <2> QED
    BY <2>1, Erased
<1>12. /\ serving' \in [Device -> Executing \union {None}] /\ serving'[d] = None
       /\ \A e \in Device \ {d} : serving'[e] = serving[e]
  BY <1>0, <1>4 DEF Types
<1>13. /\ Phases' /\ Tables' /\ pc'[<<d, "handler">>] = "idle"
       /\ \A e \in Device \ {d} : pc'[<<e, "handler">>] = pc[<<e, "handler">>]
       /\ pc' \in [Thread -> Calling \union {"none", "run", "idle", "consumeFunctionArgs"}]
       /\ \A e \in Device : \A j : Awaited(e, j) => Awaited(e, j)'
  <2>1. pc[<<d, "handler">>] \notin Calling
    BY <1>4 DEF Calling, Before, Since
  <2>2. jobID' = jobID /\ \A e \in Device : jobID[e] \in Nat /\ jobID[e] >= jobID[e]
    BY <1>0, <1>4 DEF Types
  <2>3. jobID' \in [Device -> Nat] /\ \A e \in Device : jobID'[e] >= jobID[e]
    BY <1>0, <2>2 DEF Types
  <2> QED
    BY <1>4, <1>12, <2>1, <2>3, Handles
<1>14. Served(d)' = {} /\ \A e \in Device \ {d} : Served(e)' = Served(e)
  BY <1>12 DEF Served
<1>15. Executes'
  <2>1. ASSUME NEW e \in Device
        PROVE  /\ DOMAIN jobIDMap'[e] \ {Async} = Served(e)' \ {Async}
               /\ DOMAIN argsTable'[e] =
                    IF pc'[<<e, "handler">>] = "consumeFunctionArgs" THEN Served(e)' ELSE {}
    <3>1. CASE e = d
      BY <1>4, <1>6, <1>11, <1>13, <1>14, <3>1
    <3>2. CASE e # d
      BY <1>0, <1>4, <1>11, <1>13, <1>14, <3>2 DEF Executes
    <3> QED
      BY <3>1, <3>2
  <2> QED
    BY <2>1 DEF Executes
<1>16. /\ Once(Answers(up'[d]))
       /\ All(Answers(up'[d])) = All(Answers(up[d])) \union {source}
  <2>1. Once(Answers(up[d])) /\ Apart(OutAt) /\ DOMAIN OutAt = OutPlace
    BY <1>0 DEF Passing, OutAt
  <2>2. OutAt[<<"serving", d>>] \intersect OutAt[<<"up", d>>] = {}
    BY <1>7, <2>1 DEF Apart
  <2>3. OutAt[<<"up", d>>] = All(Answers(up[d]))
    BY OutPlaces
  <2>4. AnswerKey(m) \intersect All(Answers(up[d])) = {}
    BY <1>7, <1>9, <2>2, <2>3
  <2>5. /\ Once(Answers(Append(up[d], m)))
        /\ All(Answers(Append(up[d], m))) = All(Answers(up[d])) \union AnswerKey(m)
    BY <1>9, <1>10, <2>1, <2>4, AnswersPush
  <2> QED
    BY <1>9, <1>10, <2>5
<1>17. Once(Asks(up'[d])) /\ All(Asks(up'[d])) = All(Asks(up[d]))
  <2>1. /\ Once(Asks(up[d])) /\ AskKey(m) \intersect All(Asks(up[d])) = {}
        /\ up[d] \in Seq(Asked \union Answered) /\ m \in Asked \union Answered
    BY <1>0, <1>9, <1>10 DEF Waiting
  <2>2. /\ Once(Asks(Append(up[d], m)))
        /\ All(Asks(Append(up[d], m))) = All(Asks(up[d])) \union AskKey(m)
    BY <2>1, AsksPush
  <2> QED
    BY <1>9, <1>10, <2>2
<1>18. Apart(OutAt)' /\ Out' = Out
  <2>1. ASSUME NEW x \in OutPlace \ {<<"serving", d>>, <<"up", d>>} PROVE OutAt'[x] = OutAt[x]
    <3>1. x[2] \in Device /\ (x[1] \in {"serving", "up"} => x[2] # d)
      BY DEF OutPlace
    <3>2. down' = down /\ jobQue' = jobQue
      BY <1>4
    <3> QED
      BY <1>10, <1>11, <1>12, <3>1, <3>2, OutLeft
  <2>2. PICK K : K = {source}
    OBVIOUS
  <2>3. /\ K \subseteq OutAt[<<"serving", d>>]
        /\ OutAt'[<<"serving", d>>] = OutAt[<<"serving", d>>] \ K
        /\ OutAt'[<<"up", d>>] = OutAt[<<"up", d>>] \union K
    BY <1>7, <1>14, <1>16, <2>2, OutPlaces
  <2> QED
    BY <1>0, <1>7, <2>1, <2>3, OutMoves
<1>19. Passing'
  <2>1. \A e \in Device :
          Once(Calls(down'[e])) /\ Once(Calls(jobQue'[e])) /\ Once(Answers(up'[e]))
    BY <1>0, <1>4, <1>10, <1>16 DEF Passing
  <2> QED
    BY <1>0, <1>4, <1>18, <2>1 DEF Passing
<1>20. Waiting'
  <2>1. ASSUME NEW e \in Device
        PROVE  /\ Apart(LiveAt(e))' /\ Live(e)' = Live(e)
               /\ Once(Asks(up'[e])) /\ Once(Answers(down'[e]))
    <3>1. First(e)' = First(e) /\ Coming(e)' = Coming(e)
      BY <1>4, <1>18 DEF First, Coming
    <3>2. /\ down' = down /\ storing' = storing
          /\ Once(Asks(up'[e])) /\ All(Asks(up'[e])) = All(Asks(up[e]))
      BY <1>0, <1>4, <1>10, <1>17 DEF Waiting
    <3> QED
      BY <1>0, <3>1, <3>2, LiveLeft DEF Waiting
  <2> QED
    BY <1>0, <1>13, <2>1, WaitingStill
<1>21. Types'
  BY <1>0, <1>4, <1>10, <1>11, <1>12, <1>13 DEF Types
<1> QED
  BY <1>13, <1>15, <1>19, <1>20, <1>21 DEF Inductive

LEMMA AsyncReturnInductive ==
  ASSUME Inductive, NEW d \in Device, AsyncReturn(d) PROVE Inductive'
<1>0. Types /\ Phases /\ Executes /\ Passing /\ Waiting
  BY DEF Inductive
<1>1. /\ serving[d] # None /\ serving[d].job = Async /\ pc[<<d, "handler">>] = "run"
      /\ pc' = [pc EXCEPT ![<<d, "handler">>] = "idle"]
      /\ serving' = [serving EXCEPT ![d] = None]
      /\ UNCHANGED <<jobID, runningJobs, consumeTable, returnValueTable, jobIDMap, argsTable,
                     args_list, sendQue, up, down, jobQue, route, call, storing>>
  BY DEF AsyncReturn, Goto, tables, network
<1>2. /\ serving' \in [Device -> Executing \union {None}] /\ serving'[d] = None
      /\ \A e \in Device \ {d} : serving'[e] = serving[e]
  BY <1>0, <1>1 DEF Types
<1>3. /\ Phases' /\ Tables' /\ pc'[<<d, "handler">>] = "idle"
      /\ \A e \in Device \ {d} : pc'[<<e, "handler">>] = pc[<<e, "handler">>]
      /\ pc' \in [Thread -> Calling \union {"none", "run", "idle", "consumeFunctionArgs"}]
      /\ \A e \in Device : \A j : Awaited(e, j) => Awaited(e, j)'
  <2>1. pc[<<d, "handler">>] \notin Calling
    BY <1>1 DEF Calling, Before, Since
  <2>2. jobID' = jobID /\ \A e \in Device : jobID[e] \in Nat /\ jobID[e] >= jobID[e]
    BY <1>0, <1>1 DEF Types
  <2>3. jobID' \in [Device -> Nat] /\ \A e \in Device : jobID'[e] >= jobID[e]
    BY <1>0, <2>2 DEF Types
  <2> QED
    BY <1>1, <1>2, <2>1, <2>3, Handles
<1>4. /\ Served(d) = {Async} /\ Served(d)' = {}
      /\ \A e \in Device \ {d} : Served(e)' = Served(e)
  BY <1>1, <1>2 DEF Served
<1>5. Executes'
  <2>1. ASSUME NEW e \in Device
        PROVE  /\ DOMAIN jobIDMap'[e] \ {Async} = Served(e)' \ {Async}
               /\ DOMAIN argsTable'[e] =
                    IF pc'[<<e, "handler">>] = "consumeFunctionArgs" THEN Served(e)' ELSE {}
    <3>1. CASE e = d
      BY <1>0, <1>1, <1>3, <1>4, <3>1 DEF Executes
    <3>2. CASE e # d
      BY <1>0, <1>1, <1>3, <1>4, <3>2 DEF Executes
    <3> QED
      BY <3>1, <3>2
  <2> QED
    BY <2>1 DEF Executes
<1>6. Passing' /\ Out' = Out
  <2>1. ASSUME NEW x \in OutPlace PROVE OutAt'[x] = OutAt[x]
    <3>1. CASE x = <<"serving", d>>
      BY <1>4, <3>1, OutPlaces
    <3>2. CASE x # <<"serving", d>>
      <4>1. x[2] \in Device /\ (x[1] = "serving" => x[2] # d)
        BY <3>2 DEF OutPlace
      <4>2. down' = down /\ up' = up /\ jobQue' = jobQue /\ jobIDMap' = jobIDMap
        BY <1>1
      <4> QED
        BY <1>2, <4>1, <4>2, OutLeft
    <3> QED
      BY <3>1, <3>2
  <2>2. route' = route /\ \A e \in Device :
          Once(Calls(down'[e])) /\ Once(Calls(jobQue'[e])) /\ Once(Answers(up'[e]))
    BY <1>0, <1>1 DEF Passing
  <2> QED
    BY <1>0, <2>1, <2>2, OutSame
<1>7. Waiting'
  <2>1. ASSUME NEW e \in Device
        PROVE  /\ Apart(LiveAt(e))' /\ Live(e)' = Live(e)
               /\ Once(Asks(up'[e])) /\ Once(Answers(down'[e]))
    <3>1. First(e)' = First(e) /\ Coming(e)' = Coming(e)
      BY <1>1, <1>6 DEF First, Coming
    <3>2. up' = up /\ down' = down /\ storing' = storing
      BY <1>1
    <3> QED
      BY <1>0, <3>1, <3>2, LiveLeft DEF Waiting
  <2> QED
    BY <1>0, <1>3, <2>1, WaitingStill
<1>8. Types'
  BY <1>0, <1>1, <1>2, <1>3 DEF Types
<1> QED
  BY <1>3, <1>5, <1>6, <1>7, <1>8 DEF Inductive

-----------------------------------------------------------------------------
(* The theorem.                                                            *)

(* Steps that only change what a thread has under way on the socket.       *)
Still == UNCHANGED <<tables, sendQue, network, pc, call, serving, storing, asyncs, got>>

LEMMA StillSteps ==
  /\ \A t \in Thread : AskHome(t) \/ Home(t) \/ WriteHeader(t) => Still
  /\ \A d \in Device : WriteReturnHeader(d) => Still
  /\ UNCHANGED vars => Still
BY DEF AskHome, Home, RequestSent, HomeAnswers, WriteHeader, WriteReturnHeader, Still, vars,
   tables, network

LEMMA StillInductive == ASSUME Inductive, Still PROVE Inductive'
<1>1. /\ UNCHANGED <<tables, pc, call, serving>>
      /\ UNCHANGED <<jobID, runningJobs, consumeTable, returnValueTable, jobIDMap, argsTable,
                     args_list, sendQue, up, down, jobQue, route, pc, call, serving, storing>>
  BY DEF Still, network, tables
<1>2. Phases' /\ Tables' /\ Executes'
  BY <1>1, CallersStay
<1>3. Passing' /\ Out' = Out
  BY <1>1, OutKept DEF Inductive
<1>4. \A d \in Device : \A j : Awaited(d, j) => Awaited(d, j)'
  BY <1>1, CallersStay
<1>5. Waiting'
  BY <1>1, <1>3, <1>4, LiveKept DEF First, Inductive
<1>6. Types'
  BY <1>1 DEF Types, Inductive
<1> QED
  BY <1>2, <1>3, <1>5, <1>6 DEF Inductive

(* A thread at another place than the one where it answers or sends.       *)
LEMMA Elsewhere ==
  ASSUME Types, Sending, NEW t \in Thread, NEW there, pc' = [pc EXCEPT ![t] = there],
         line' = line, line[t] = "off" \/ pc[t] \notin {"sendQue", "run"},
         \A u \in Thread \ {t} : u[2] = "handler" => serving'[u[1]] = serving[u[1]]
  PROVE  Sending'
<1>1. line[t] # "message"
  BY DEF Sending, Replying
<1>2. \A u \in Thread \ {t} : pc'[u] = pc[u]
  BY DEF Types
<1>3. ASSUME NEW u \in Thread, line'[u] = "message"
      PROVE  pc'[u] = "sendQue" \/ Replying(u)'
  BY <1>1, <1>2, <1>3 DEF Sending, Replying
<1> QED
  BY <1>3 DEF Sending

(* A thread that ends a message, or begins or ends a request.              *)
LEMMA LineChanges ==
  ASSUME Types, Sending, NEW t \in Thread, NEW phase \in {"off"} \union Request,
         line' = [line EXCEPT ![t] = phase],
         \A u \in Thread \ {t} : /\ pc'[u] = pc[u]
                                 /\ u[2] = "handler" => serving'[u[1]] = serving[u[1]]
  PROVE  Sending'
<1>1. /\ line' \in [Thread -> {"off", "message"} \union Request]
      /\ line'[t] # "message" /\ \A u \in Thread \ {t} : line'[u] = line[u]
  BY DEF Sending, Request
<1>2. ASSUME NEW u \in Thread, line'[u] = "message"
      PROVE  pc'[u] = "sendQue" \/ Replying(u)'
  BY <1>1, <1>2 DEF Sending, Replying
<1> QED
  BY <1>1, <1>2 DEF Sending

(* The steps of a caller, of its requests, and of the handler of a device. *)
LEMMA CallSending ==
  ASSUME Types, Sending, NEW t \in Thread, Call(t) PROVE Sending'
<1>1. CASE WriteHeader(t)
  <2>1. /\ pc' = pc /\ serving' = serving /\ pc[t] = "sendQue"
        /\ line' = [line EXCEPT ![t] = "message"]
    BY <1>1 DEF WriteHeader, Enter
  <2>2. /\ line' \in [Thread -> {"off", "message"} \union Request]
        /\ \A u \in Thread \ {t} : line'[u] = line[u]
    BY <2>1 DEF Sending
  <2> QED
    BY <2>1, <2>2 DEF Sending, Replying
<1>2. CASE SendQue(t)
  <2>1. /\ line' = [line EXCEPT ![t] = "off"] /\ serving' = serving
        /\ \A u \in Thread \ {t} : pc'[u] = pc[u]
    BY <1>2 DEF SendQue, Move, Goto, Types
  <2> QED
    BY <2>1, LineChanges
<1>3. CASE ~ WriteHeader(t) /\ ~ SendQue(t)
  <2>1. PICK there : pc' = [pc EXCEPT ![t] = there]
    BY <1>3 DEF Call, PushArgument, GetArgsOfRC, InsertConsumeWait, PushJob, PushFunction,
       PushArgs, ConsumeReturn, Goto
  <2>2. line' = line /\ serving' = serving /\ pc[t] \notin {"sendQue", "run"}
    BY <1>3 DEF Call, PushArgument, GetArgsOfRC, InsertConsumeWait, PushJob, PushFunction,
       PushArgs, ConsumeReturn, Goto, Push, wire
  <2> QED
    BY <2>1, <2>2, Elsewhere
<1> QED
  BY <1>1, <1>2, <1>3

LEMMA HandlerSending ==
  ASSUME Types, Sending, NEW d \in Device, Handler(d) \/ Ends(d) PROVE Sending'
<1> DEFINE h == <<d, "handler">>
<1>1. h \in Thread /\ \A u \in Thread \ {h} : u[2] = "handler" => u[1] # d
  BY DEF Thread
<1>2. ASSUME NEW there, pc' = [pc EXCEPT ![h] = there]
      PROVE  \A u \in Thread \ {h} : pc'[u] = pc[u]
  BY <1>2 DEF Types
<1>3. CASE RemoteCallCallback(d)
  <2>1. /\ line' = [line EXCEPT ![h] = "asking"] /\ pc' = [pc EXCEPT ![h] = "consumeFunctionArgs"]
        /\ \A e \in Device \ {d} : serving'[e] = serving[e]
    BY <1>3 DEF RemoteCallCallback, Enter, Goto, Types
  <2> QED
    BY <1>1, <1>2, <2>1, LineChanges DEF Request, Thread
<1>4. CASE ConsumeFunctionArgs(d)
  <2>1. /\ line' = line /\ line[h] = "off" /\ pc' = [pc EXCEPT ![h] = "run"]
        /\ \A e \in Device \ {d} : serving'[e] = serving[e]
    BY <1>4 DEF ConsumeFunctionArgs, Goto, Types, wire
  <2> QED
    BY <1>1, <2>1, Elsewhere DEF Thread
<1>5. CASE ProduceReturn(d)
  <2>1. /\ line' = [line EXCEPT ![h] = "off"] /\ pc' = [pc EXCEPT ![h] = "idle"]
        /\ \A e \in Device \ {d} : serving'[e] = serving[e]
    BY <1>5 DEF ProduceReturn, Move, Goto, Types
  <2> QED
    BY <1>1, <1>2, <2>1, LineChanges DEF Thread
<1>6. CASE AsyncReturn(d)
  <2>1. /\ line' = line /\ line[h] = "off" /\ pc' = [pc EXCEPT ![h] = "idle"]
        /\ \A e \in Device \ {d} : serving'[e] = serving[e]
    BY <1>6 DEF AsyncReturn, Goto, Types, wire
  <2> QED
    BY <1>1, <2>1, Elsewhere DEF Thread
<1>7. CASE WriteReturnHeader(d)
  <2>1. /\ pc' = pc /\ serving' = serving /\ pc[h] = "run" /\ serving[d].job # Async
        /\ line' = [line EXCEPT ![h] = "message"]
    BY <1>7 DEF WriteReturnHeader, Enter
  <2>2. /\ line' \in [Thread -> {"off", "message"} \union Request]
        /\ \A u \in Thread \ {h} : line'[u] = line[u]
    BY <2>1 DEF Sending
  <2> QED
    BY <1>1, <2>1, <2>2 DEF Sending, Replying
<1> QED
  BY <1>3, <1>4, <1>5, <1>6, <1>7 DEF Handler, Ends

LEMMA NextSending == ASSUME Types, Sending, [Next]_vars PROVE Sending'
<1>1. ASSUME NEW t \in Thread, NEW site \in Site, NEW fn \in Function,
             GenerateJobId(t, fn, site) \/ AsyncCall(t, fn, site)
      PROVE  Sending'
  <2>1. PICK there : pc' = [pc EXCEPT ![t] = there]
    BY <1>1 DEF GenerateJobId, AsyncCall, Goto
  <2>2. line' = line /\ serving' = serving /\ line[t] = "off"
    BY <1>1 DEF GenerateJobId, AsyncCall, wire
  <2> QED
    BY <2>1, <2>2, Elsewhere
<1>2. ASSUME NEW t \in Thread, AskHome(t) \/ Home(t) PROVE Sending'
  <2>1. /\ pc' = pc /\ serving' = serving
        /\ \E phase \in {"off"} \union Request : line' = [line EXCEPT ![t] = phase]
    BY <1>2 DEF AskHome, Home, RequestSent, HomeAnswers, Enter, Move, Request
  <2> QED
    BY <2>1, LineChanges
<1>3. ASSUME NEW d \in Device, Gateway(d) \/ Receiver(d) PROVE Sending'
  <2>1. line' = line /\ pc' = pc /\ serving' = serving
    BY <1>3 DEF Gateway, Receiver, ForwardCall, ForwardReturn, ReceiveCall, ReceiveReturn,
       AnnounceReturn, wire
  <2> QED
    BY <2>1 DEF Sending, Replying
<1>4. CASE UNCHANGED vars
  BY <1>4 DEF vars, Sending, Replying
<1> QED
  BY <1>1, <1>2, <1>3, <1>4, CallSending, HandlerSending DEF Next, Step

(* Who calls, and where every call under way is, in every state.           *)
THEOREM Invariance == Spec => [](Inductive /\ Sending)
<1>1. Init => Inductive /\ Sending
  <2>1. Init => Sending
    BY DEF Init, Sending
  <2> QED
    BY <2>1, InitInductive
<1>2. Inductive /\ Sending /\ [Next]_vars => (Inductive /\ Sending)'
  <2> SUFFICES ASSUME Inductive, Sending, [Next]_vars PROVE Inductive'
    BY NextSending DEF Inductive
  <2>1. ASSUME NEW t \in Thread, NEW site \in Site, NEW fn \in Function, GenerateJobId(t, fn, site)
        PROVE  Inductive'
    BY <2>1, GenerateJobIdInductive
  <2>2. ASSUME NEW t \in Thread, NEW site \in Site, NEW fn \in Function, AsyncCall(t, fn, site)
        PROVE  Inductive'
    BY <2>2, AsyncCallInductive
  <2>3. ASSUME NEW t \in Thread, Call(t) PROVE Inductive'
    BY <2>3, StillSteps, StillInductive, PushArgumentInductive, GetArgsOfRCInductive, InsertConsumeWaitInductive,
       PushJobInductive, PushFunctionInductive, PushArgsInductive, SendQueInductive,
       ConsumeReturnInductive DEF Call
  <2>4. ASSUME NEW t \in Thread, AskHome(t) \/ Home(t) PROVE Inductive'
    BY <2>4, StillSteps, StillInductive
  <2>5. ASSUME NEW d \in Device, Gateway(d) PROVE Inductive'
    BY <2>5, ForwardCallInductive, ForwardReturnInductive DEF Gateway
  <2>6. ASSUME NEW d \in Device, Receiver(d) PROVE Inductive'
    BY <2>6, ReceiveCallInductive, ReceiveReturnInductive, AnnounceReturnInductive DEF Receiver
  <2>7. ASSUME NEW d \in Device, Handler(d) PROVE Inductive'
    BY <2>7, RemoteCallCallbackInductive, ConsumeFunctionArgsInductive,
       ProduceReturnInductive DEF Handler
  <2>8. ASSUME NEW d \in Device, Ends(d) PROVE Inductive'
    BY <2>8, StillSteps, StillInductive, AsyncReturnInductive DEF Ends
  <2>9. CASE UNCHANGED vars
    BY <2>9, StillSteps, StillInductive
  <2> QED
    BY <2>1, <2>2, <2>3, <2>4, <2>5, <2>6, <2>7, <2>8, <2>9 DEF Next, Step
<1> QED
  BY <1>1, <1>2, PTL DEF Spec

(* The tables of a device hold the calls it makes and the one it executes, *)
(* and nothing else, until threads of a device cross on the socket.        *)
THEOREM TablesHold == Spec => []TablesTight
<1>1. Inductive => TablesTight
  <2> SUFFICES ASSUME Inductive, NEW d \in Device
               PROVE  /\ DOMAIN runningJobs[d] \subseteq Jobs(d)
                      /\ DOMAIN returnValueTable[d] \subseteq Jobs(d)
                      /\ Jobs(d) \subseteq
                           {call[t].job : t \in {u \in Thread : u[1] = d /\ call[u] # None}}
                      /\ DOMAIN jobIDMap[d] \ {Async} = Served(d) \ {Async}
                      /\ DOMAIN argsTable[d] \subseteq Served(d)
    BY DEF TablesTight, Served
  <2>1. Jobs(d) \subseteq {call[t].job : t \in {u \in Thread : u[1] = d /\ call[u] # None}}
    BY DEF Jobs, Caller
  <2> QED
    BY <2>1 DEF Inductive, Tables, Executes
<1> QED
  BY <1>1, Invariance, PTL
=============================================================================
