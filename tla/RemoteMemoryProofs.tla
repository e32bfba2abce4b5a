------------------------- MODULE RemoteMemoryProofs -------------------------
(***************************************************************************)
(* Theorems about RemoteMemory for any devices, programs and functions: a  *)
(* function sees what its caller saw and stored, and the caller what the   *)
(* function did, until threads of a device cross or race.                  *)
(***************************************************************************)
EXTENDS RemoteMemory, RemoteAnswersProofs

-----------------------------------------------------------------------------
(* The memory: a device logs stores to its own word only, each larger than *)
(* the one before.                                                         *)

Value == 0 .. MaxStores
Entry(d) == [at : {{d}}, val : Value]

MemoryTypes ==
  /\ mem \in [Device -> Value]
  /\ pend = [d \in Device |-> pend[d]] /\ \A d \in Device : pend[d] \in Seq(Entry(d))
  /\ seen \in [Device -> [Device -> SUBSET Value]]

LastLogged(l) == l[Len(l)].val
Upward ==
  /\ \A d \in Device : seen[d][d] = {mem[d]}
  /\ \A d \in Device : pend[d] # << >> => mem[d] <= LastLogged(pend[d])
  /\ \A d, e \in Device : \A v \in seen[d][e] : v <= mem[e]

(* What a log of stores to one word leaves in it.                          *)
LEMMA OneWordLog ==
  ASSUME NEW d \in Device, NEW l \in Seq(Entry(d))
  PROVE  /\ l = << >> => M!Written(l) = {}
         /\ l # << >> => /\ M!Written(l) = {d} /\ M!LastOf(l, d) = LastLogged(l)
                         /\ LastLogged(l) \in Value
<1>1. Len(l) \in Nat /\ DOMAIN l = 1 .. Len(l) /\ \A i \in 1 .. Len(l) : l[i] \in Entry(d)
  OBVIOUS
<1>2. \A i \in 1 .. Len(l) : l[i].at = {d} /\ l[i].val \in Value
  BY <1>1 DEF Entry
<1>3. M!Written(l) = UNION {l[i].at : i \in 1 .. Len(l)}
  BY <1>1 DEF M!Written
<1>4. ASSUME l = << >> PROVE M!Written(l) = {}
  <2>1. Len(l) = 0
    BY <1>4
  <2> QED
    BY <1>3, <2>1
<1>5. ASSUME l # << >> PROVE M!Written(l) = {d} /\ M!LastOf(l, d) = LastLogged(l) /\ LastLogged(l) \in Value
  <2>1. Len(l) > 0 /\ Len(l) \in 1 .. Len(l)
    BY <1>1, <1>5
  <2>2. M!Written(l) = {d}
    BY <1>2, <1>3, <2>1
  <2>3. M!LastIndex(l, d) = {i \in 1 .. Len(l) : /\ d \in l[i].at
                                  /\ \A j \in 1 .. Len(l) : j > i => d \notin l[j].at}
    BY <1>1 DEF M!LastIndex
  <2>4. M!LastIndex(l, d) = {Len(l)}
    BY <1>1, <1>2, <2>1, <2>3
  <2>5. (CHOOSE i \in M!LastIndex(l, d) : TRUE) = Len(l)
    BY <2>4
  <2>6. M!LastOf(l, d) = LastLogged(l)
    BY <2>5, Zenon DEF M!LastOf, LastLogged
  <2> QED
    BY <1>2, <2>1, <2>2, <2>6 DEF LastLogged
<1> QED
  BY <1>4, <1>5

LEMMA LogGrows ==
  ASSUME NEW d \in Device, NEW l \in Seq(Entry(d)), NEW v \in Value
  PROVE  /\ M!Logged(l, {d}, v) \in Seq(Entry(d)) /\ M!Logged(l, {d}, v) # << >>
         /\ LastLogged(M!Logged(l, {d}, v)) = v
<1> DEFINE x == [at |-> {d}, val |-> v]
<1>1. x \in Entry(d) /\ x.val = v
  BY DEF Entry
<1>2. M!Logged(l, {d}, v) = Append(l, x)
  BY Zenon DEF M!Logged
<1> HIDE DEF x
<1>3. Append(l, x) \in Seq(Entry(d)) /\ Append(l, x) # << >> /\ Append(l, x)[Len(Append(l, x))] = x
  BY <1>1
<1> QED
  BY <1>1, <1>2, <1>3 DEF LastLogged

(* What device d leaves in the memory when it synchronises.                *)
Top(d, e) == IF e = d /\ pend[d] # << >> THEN LastLogged(pend[d]) ELSE mem[e]

(* What is visible now is, after the step, or something newer is.          *)
Onward ==
  /\ \A e \in Device : mem'[e] >= mem[e]
  /\ \A d, e \in Device : Top(d, e)' >= Top(d, e)
  /\ \A d, e \in Device, x \in Value :
       x <= mem[e] /\ (\A v \in Visible(d, e) : v >= x) => \A v \in Visible(d, e)' : v >= x

LEMMA VisibleIs ==
  ASSUME NEW d \in Device, NEW e \in Device
  PROVE  /\ pend[d] \in Seq(Entry(d)) =>
              Visible(d, e) = IF e = d /\ pend[d] # << >> THEN {LastLogged(pend[d])} ELSE seen[d][e]
         /\ pend'[d] \in Seq(Entry(d)) =>
              Visible(d, e)' = IF e = d /\ pend'[d] # << >> THEN {LastLogged(pend'[d])} ELSE seen'[d][e]
<1>1. ASSUME NEW l \in Seq(Entry(d)), NEW S
      PROVE  (IF e \in M!Written(l) THEN {M!LastOf(l, e)} ELSE S)
                = IF e = d /\ l # << >> THEN {LastLogged(l)} ELSE S
  BY OneWordLog
<1>2. /\ Visible(d, e) = IF e \in M!Written(pend[d]) THEN {M!LastOf(pend[d], e)} ELSE seen[d][e]
      /\ Visible(d, e)' = IF e \in M!Written(pend'[d]) THEN {M!LastOf(pend'[d], e)} ELSE seen'[d][e]
  BY DEF Visible
<1>3. ASSUME pend[d] \in Seq(Entry(d))
      PROVE  Visible(d, e) = IF e = d /\ pend[d] # << >> THEN {LastLogged(pend[d])} ELSE seen[d][e]
  BY <1>1, <1>2, <1>3
<1>4. ASSUME pend'[d] \in Seq(Entry(d))
      PROVE  Visible(d, e)' = IF e = d /\ pend'[d] # << >> THEN {LastLogged(pend'[d])} ELSE seen'[d][e]
  BY <1>1, <1>2, <1>4
<1> QED
  BY <1>3, <1>4

LEMMA VisibleType ==
  ASSUME MemoryTypes, NEW d \in Device, NEW e \in Device
  PROVE  Visible(d, e) \subseteq Value
<1>1. pend[d] \in Seq(Entry(d))
  BY DEF MemoryTypes
<1>2. pend[d] # << >> => LastLogged(pend[d]) \in Value
  BY <1>1, OneWordLog
<1>3. Visible(d, e) = IF e = d /\ pend[d] # << >> THEN {LastLogged(pend[d])} ELSE seen[d][e]
  BY <1>1, VisibleIs
<1> QED
  BY <1>2, <1>3 DEF MemoryTypes

LEMMA TopType ==
  /\ MemoryTypes => \A d, e \in Device : Top(d, e) \in Value
  /\ MemoryTypes' => \A d, e \in Device : Top(d, e)' \in Value
<1>1. ASSUME NEW d \in Device, NEW l \in Seq(Entry(d)), l # << >> PROVE LastLogged(l) \in Value
  BY <1>1, OneWordLog
<1>2. ASSUME MemoryTypes, NEW d \in Device, NEW e \in Device PROVE Top(d, e) \in Value
  <2>1. pend[d] \in Seq(Entry(d)) /\ mem[e] \in Value
    BY <1>2 DEF MemoryTypes
  <2> QED
    BY <1>1, <2>1 DEF Top
<1>3. ASSUME MemoryTypes', NEW d \in Device, NEW e \in Device PROVE Top(d, e)' \in Value
  <2>1. pend'[d] \in Seq(Entry(d)) /\ mem'[e] \in Value
    BY <1>3 DEF MemoryTypes
  <2>2. pend'[d] # << >> => LastLogged(pend'[d]) \in Value
    BY <1>1, <2>1
  <2> QED
    BY <2>1, <2>2 DEF Top, LastLogged
<1> QED
  BY <1>2, <1>3

LEMMA VisibleTop ==
  ASSUME MemoryTypes, Upward, NEW d \in Device, NEW e \in Device
  PROVE  \A v \in Visible(d, e) : v <= Top(d, e)
<1>1. pend[d] \in Seq(Entry(d))
  BY DEF MemoryTypes
<1>2. pend[d] # << >> => LastLogged(pend[d]) \in Int
  BY <1>1, OneWordLog DEF Value
<1>3. Visible(d, e) = IF e = d /\ pend[d] # << >> THEN {LastLogged(pend[d])} ELSE seen[d][e]
  BY <1>1, VisibleIs
<1> QED
  BY <1>2, <1>3 DEF Upward, Top

(* The home replays the stores of device c: others see old or new values, c what is new, and  *)
(* that is nothing older than what c saw.                                  *)
LEMMA PublishStep ==
  ASSUME MemoryTypes, Upward, NEW c \in Device, M!Publish(c)
  PROVE  /\ MemoryTypes' /\ Upward' /\ Onward
         /\ \A e \in Device : Visible(c, e)' = {mem'[e]}
         /\ \A e \in Device : mem'[e] = Top(c, e)
<1>0. /\ \A d \in Device : pend[d] \in Seq(Entry(d))
      /\ pend[c] # << >> => LastLogged(pend[c]) \in Value
      /\ mem \in [Device -> Value] /\ seen \in [Device -> [Device -> SUBSET Value]]
  BY OneWordLog DEF MemoryTypes
<1>1. mem' = [e \in Device |-> IF e = c /\ pend[c] # << >> THEN LastLogged(pend[c]) ELSE mem[e]]
  <2>1. mem' = M!Replay(mem, pend[c])
    BY DEF M!Publish
  <2>2. mem' = [e \in Device |-> IF e \in M!Written(pend[c]) THEN M!LastOf(pend[c], e) ELSE mem[e]]
    BY <1>0, <2>1 DEF M!Replay
  <2> DEFINE l == pend[c]
  <2>3. /\ l = << >> => M!Written(l) = {}
        /\ l # << >> => M!Written(l) = {c} /\ M!LastOf(l, c) = LastLogged(l)
    BY <1>0, OneWordLog
  <2>4. mem' = [e \in Device |-> IF e \in M!Written(l) THEN M!LastOf(l, e) ELSE mem[e]]
    BY <2>2
  <2> HIDE DEF l
  <2>5. mem' = [e \in Device |-> IF e = c /\ l # << >> THEN LastLogged(l) ELSE mem[e]]
    BY <2>3, <2>4
  <2> QED
    BY <2>5 DEF l
<1>2. mem' \in [Device -> Value]
  BY <1>0, <1>1
<1>3. pend' = [pend EXCEPT ![c] = << >>]
  BY DEF M!Publish
<1>4. \A d \in Device : pend'[d] = IF d = c THEN << >> ELSE pend[d]
  BY <1>3 DEF MemoryTypes
<1>5. seen' = [d \in Device |-> [e \in Device |->
                 IF d = c THEN {mem'[e]} ELSE seen[d][e] \union {mem'[e]}]]
  BY DEF M!Publish
<1>6. MemoryTypes'
  <2>1. pend' = [d \in Device |-> pend'[d]]
    BY <1>3 DEF MemoryTypes
  <2>2. ASSUME NEW d \in Device PROVE pend'[d] \in Seq(Entry(d))
    <3>1. << >> \in Seq(Entry(d)) /\ pend[d] \in Seq(Entry(d))
      BY <1>0
    <3> QED
      BY <1>4, <3>1
  <2>3. seen' \in [Device -> [Device -> SUBSET Value]]
    BY <1>0, <1>2, <1>5
  <2> QED
    BY <1>2, <2>1, <2>2, <2>3 DEF MemoryTypes
<1>7. \A e \in Device : /\ mem[e] \in Int /\ mem'[e] \in Int /\ mem'[e] >= mem[e]
                        /\ e # c => mem'[e] = mem[e]
  BY <1>0, <1>1, <1>2, StoresAssumption DEF Upward, Value
<1>8. Upward'
  <2>1. ASSUME NEW d \in Device PROVE seen'[d][d] = {mem'[d]}
    BY <1>5, <1>7 DEF Upward
  <2>2. ASSUME NEW d \in Device, pend'[d] # << >> PROVE mem'[d] <= LastLogged(pend'[d])
    BY <1>4, <1>7, <2>2 DEF Upward
  <2>3. ASSUME NEW d \in Device, NEW e \in Device, NEW v \in seen'[d][e] PROVE v <= mem'[e]
    <3>1. v \in Int
      BY <1>6 DEF MemoryTypes, Value
    <3>2. CASE v \in seen[d][e]
      <4>1. v <= mem[e]
        BY <3>2 DEF Upward
      <4> QED
        BY <1>7, <3>1, <4>1
    <3>3. CASE v = mem'[e]
      BY <1>7, <3>3
    <3> QED
      BY <1>5, <3>2, <3>3
  <2> QED
    BY <2>1, <2>2, <2>3 DEF Upward
<1>9. ASSUME NEW d \in Device, NEW e \in Device
      PROVE  /\ Visible(d, e) = IF e = d /\ pend[d] # << >> THEN {LastLogged(pend[d])} ELSE seen[d][e]
             /\ Visible(d, e)' = IF e = d /\ pend'[d] # << >> THEN {LastLogged(pend'[d])} ELSE seen'[d][e]
  <2>1. pend[d] \in Seq(Entry(d)) /\ pend'[d] \in Seq(Entry(d))
    BY <1>0, <1>6 DEF MemoryTypes
  <2> QED
    BY <2>1, VisibleIs
<1>10. \A e \in Device : Visible(c, e)' = {mem'[e]}
  BY <1>4, <1>5, <1>9
<1>11. \A e \in Device : mem'[e] = Top(c, e)
  BY <1>1 DEF Top
<1>12. ASSUME NEW d \in Device, NEW e \in Device PROVE Visible(d, e)' \subseteq Visible(d, e) \union {mem'[e]}
  BY <1>4, <1>5, <1>9
<1>13. ASSUME NEW d \in Device, NEW e \in Device, NEW x \in Value, x <= mem[e],
              \A v \in Visible(d, e) : v >= x, NEW v \in Visible(d, e)'
       PROVE  v >= x
  <2>1. mem'[e] >= x
    BY <1>7, <1>13 DEF Value
  <2> QED
    BY <1>12, <1>13, <2>1
<1>14. ASSUME NEW d \in Device, NEW e \in Device PROVE Top(d, e)' >= Top(d, e)
  <2>1. pend[d] # << >> => LastLogged(pend[d]) \in Int
    <3> DEFINE l == pend[d]
    <3>1. l \in Seq(Entry(d))
      BY <1>0
    <3> HIDE DEF l
    <3>2. l # << >> => LastLogged(l) \in Value
      BY <3>1, OneWordLog
    <3> QED
      BY <3>2 DEF l, Value
  <2>2. Top(d, e)' = IF e = d /\ pend'[d] # << >> THEN LastLogged(pend'[d]) ELSE mem'[e]
    BY DEF Top, LastLogged
  <2>3. CASE d = c
    <3>1. Top(d, e)' = mem'[e]
      BY <1>4, <2>2, <2>3
    <3> QED
      BY <1>7, <1>11, <2>3, <3>1
  <2>4. CASE d # c
    <3>1. Top(d, e)' = IF e = d /\ pend[d] # << >> THEN LastLogged(pend[d]) ELSE mem'[e]
      BY <1>4, <2>2, <2>4
    <3> QED
      BY <1>7, <2>1, <3>1 DEF Top
  <2> QED
    BY <2>3, <2>4
<1> QED
  BY <1>6, <1>7, <1>8, <1>10, <1>11, <1>13, <1>14 DEF Onward

(* A store: the device itself sees something newer.                        *)
LEMMA EndStoreStep ==
  ASSUME MemoryTypes, Upward, NEW t \in Thread, EndStore(t)
  PROVE  MemoryTypes' /\ Upward' /\ Onward
<1> DEFINE d == t[1]
<1>0. d \in Device
  BY DEF Thread
<1>1. PICK v \in 1 .. MaxStores : Visible(d, d) = {v - 1} /\ M!Store(d, {d}, v)
  BY DEF EndStore
<1> HIDE DEF d
<1>2. v \in Value /\ v - 1 \in Int
  BY StoresAssumption DEF Value
<1>3. mem' = mem /\ seen' = seen /\ pend' = [pend EXCEPT ![d] = M!Logged(pend[d], {d}, v)]
  BY <1>1, Zenon DEF M!Store
<1>4. \A e \in Device : pend[e] \in Seq(Entry(e))
  BY DEF MemoryTypes
<1>5. /\ M!Logged(pend[d], {d}, v) \in Seq(Entry(d)) /\ M!Logged(pend[d], {d}, v) # << >>
      /\ LastLogged(M!Logged(pend[d], {d}, v)) = v
  BY <1>0, <1>2, <1>4, LogGrows
<1>6. \A e \in Device : pend'[e] = IF e = d THEN M!Logged(pend[d], {d}, v) ELSE pend[e]
  BY <1>0, <1>3 DEF MemoryTypes
<1>7. /\ pend'[d] \in Seq(Entry(d)) /\ pend'[d] # << >> /\ LastLogged(pend'[d]) = v
      /\ \A e \in Device : e # d => pend'[e] = pend[e]
  BY <1>0, <1>5, <1>6
<1>8. MemoryTypes'
  <2>1. pend' = [e \in Device |-> pend'[e]]
    BY <1>3 DEF MemoryTypes
  <2> QED
    BY <1>3, <1>4, <1>7, <2>1 DEF MemoryTypes
<1>9. ASSUME NEW f \in Device, NEW e \in Device
      PROVE  /\ Visible(f, e) = IF e = f /\ pend[f] # << >> THEN {LastLogged(pend[f])} ELSE seen[f][e]
             /\ Visible(f, e)' = IF e = f /\ pend'[f] # << >> THEN {LastLogged(pend'[f])} ELSE seen'[f][e]
  <2>1. pend[f] \in Seq(Entry(f)) /\ pend'[f] \in Seq(Entry(f))
    BY <1>4, <1>8 DEF MemoryTypes
  <2> QED
    BY <2>1, VisibleIs
<1>10. mem[d] <= v - 1 /\ mem[d] \in Int
  <2>1. mem[d] \in Int
    BY <1>0 DEF MemoryTypes, Value
  <2>2. CASE pend[d] # << >>
    <3>1. LastLogged(pend[d]) = v - 1
      BY <1>0, <1>1, <1>9, <2>2
    <3> QED
      BY <1>0, <2>1, <2>2, <3>1 DEF Upward
  <2>3. CASE pend[d] = << >>
    <3>1. seen[d][d] = {v - 1} /\ seen[d][d] = {mem[d]}
      BY <1>0, <1>1, <1>9, <2>3 DEF Upward
    <3> QED
      BY <2>1, <3>1
  <2> QED
    BY <2>2, <2>3
<1>11. Upward'
  <2>1. mem[d] <= v
    BY <1>10
  <2> QED
    BY <1>3, <1>7, <2>1 DEF Upward
<1>12. ASSUME NEW f \in Device, NEW e \in Device, NEW x \in Value, \A w \in Visible(f, e) : w >= x,
              NEW w \in Visible(f, e)'
       PROVE  w >= x
  <2>1. CASE f = d /\ e = d
    <3>1. w = v /\ v - 1 >= x
      BY <1>1, <1>7, <1>9, <1>12, <2>1
    <3> QED
      BY <3>1 DEF Value
  <2>2. CASE ~ (f = d /\ e = d)
    <3>1. Visible(f, e)' = Visible(f, e)
      <4>1. f # d => pend'[f] = pend[f]
        BY <1>7
      <4>2. seen'[f][e] = seen[f][e]
        BY <1>3
      <4>3. CASE e # f
        BY <1>9, <4>2, <4>3
      <4>4. CASE f # d
        BY <1>9, <4>1, <4>2, <4>4
      <4> QED
        BY <2>2, <4>3, <4>4
    <3> QED
      BY <1>12, <3>1
  <2> QED
    BY <2>1, <2>2
<1>13. \A e \in Device : mem'[e] >= mem[e]
  BY <1>3 DEF MemoryTypes, Value
<1>14. ASSUME NEW f \in Device, NEW e \in Device PROVE Top(f, e)' >= Top(f, e)
  <2>0. /\ Top(f, e)' = IF e = f /\ pend'[f] # << >> THEN LastLogged(pend'[f]) ELSE mem[e]
        /\ mem[e] \in Int
    BY <1>3 DEF Top, LastLogged, MemoryTypes, Value
  <2>1. CASE f = d /\ e = d
    <3>1. Top(f, e)' = v
      BY <1>7, <2>0, <2>1
    <3>2. pend[d] # << >> => LastLogged(pend[d]) = v - 1
      BY <1>0, <1>1, <1>9
    <3> QED
      BY <1>2, <1>10, <2>1, <3>1, <3>2 DEF Top
  <2>2. CASE f # d
    <3>1. pend'[f] = pend[f]
      BY <1>7, <2>2
    <3>2. pend[f] # << >> => LastLogged(pend[f]) \in Int
      <4> DEFINE l == pend[f]
      <4>1. l \in Seq(Entry(f))
        BY <1>4
      <4> HIDE DEF l
      <4>2. l # << >> => LastLogged(l) \in Value
        BY <4>1, OneWordLog
      <4> QED
        BY <4>2 DEF l, Value
    <3> QED
      BY <2>0, <3>1, <3>2 DEF Top
  <2>3. CASE e # f
    BY <2>0, <2>3 DEF Top
  <2> QED
    BY <2>1, <2>2, <2>3
<1> QED
  BY <1>8, <1>11, <1>12, <1>13, <1>14 DEF Onward

LEMMA MemorySame ==
  ASSUME MemoryTypes, Upward, UNCHANGED memory
  PROVE  MemoryTypes' /\ Upward' /\ Onward
<1>0. mem' = mem /\ pend' = pend /\ seen' = seen
  BY DEF memory
<1>1. \A d, e \in Device : Visible(d, e)' = Visible(d, e)
  BY <1>0 DEF Visible
<1>2. \A e \in Device : mem'[e] >= mem[e]
  BY <1>0 DEF MemoryTypes, Value
<1>3. MemoryTypes'
  BY <1>0 DEF MemoryTypes
<1>4. Upward'
  BY <1>0 DEF Upward
<1>5. ASSUME NEW d \in Device, NEW e \in Device PROVE Top(d, e)' >= Top(d, e)
  <2>1. Top(d, e)' = Top(d, e)
    BY <1>0 DEF Top, LastLogged
  <2>2. mem[e] \in Int /\ (pend[d] # << >> => LastLogged(pend[d]) \in Int)
    <3>1. pend[d] \in Seq(Entry(d))
      BY DEF MemoryTypes
    <3> QED
      BY <3>1, OneWordLog DEF MemoryTypes, Value
  <2> QED
    BY <2>1, <2>2 DEF Top
<1> QED
  BY <1>1, <1>2, <1>3, <1>4, <1>5 DEF Onward

-----------------------------------------------------------------------------
(* The calls: what was read before a call is in the memory by then, what   *)
(* an answer stands for is in it before the answer is sent.                *)

NotNewer(view) == \A e \in Device : view[e] \subseteq Value /\ \A v \in view[e] : v <= mem[e]
NotAbove(d, view) == \A e \in Device : view[e] \subseteq Value /\ \A v \in view[e] : v <= Top(d, e)
Views ==
  /\ had = [t \in Thread |-> had[t]]
  /\ \A t \in Thread : NotAbove(t[1], had[t]) /\ (at[t] # "before" => NotNewer(had[t]))
  /\ \A k \in DOMAIN sent : NotNewer(sent[k])
  /\ \A k \in DOMAIN returned : \A e \in Device : returned[k][e] \in Value /\ returned[k][e] <= mem[e]

(* A thread is at one of its syncs while it waits for the home, a handler  *)
(* between the entry of a function and its end; the memory is noted before *)
(* the answer is sent.                                                     *)
Syncs == {"before", "after", "entering", "ending"}
Place == Syncs \union {"program", "storing", "synced", "called", "ended"}
PlacedAt(t) ==
  /\ at[t] \in Syncs => line[t] \in Request
  /\ at[t] \in {"entering", "ending", "ended"} => t[2] = "handler"
  /\ at[t] = "entering" => pc[t] = "consumeFunctionArgs"
  /\ at[t] \in {"ending", "ended"} => pc[t] = "run" /\ serving[t[1]].job # Async
  /\ at[t] = "ended" => route[jobIDMap[t[1]][serving[t[1]].job]] \in DOMAIN returned
Placed == \A t \in Thread : PlacedAt(t)

Called ==
  /\ at \in [Thread -> Place]
  /\ \A t \in Thread : Caller(t) => at[t] = "called" /\ <<t[1], call[t].job>> \in DOMAIN sent

(* The answer to a call has come. *)
Done(d, j) == j \in DOMAIN consumeTable[d] /\ consumeTable[d][j]
Answering ==
  /\ \A d \in Device : \A m \in Range(up[d]) : m.tag = "return" => route[m.job] \in DOMAIN returned
  /\ \A d \in Device : \A m \in Range(down[d]) : m.tag = "return" => <<d, m.job>> \in DOMAIN returned
  /\ \A d \in Device : storing[d] # None => <<d, storing[d].job>> \in DOMAIN returned
  /\ \A d \in Device : \A j : Done(d, j) => <<d, j>> \in DOMAIN returned
  /\ DOMAIN got = Thread
  /\ \A t \in Thread : got[t] # None => \E j \in Int : got[t].call = <<t[1], j>> /\ Done(t[1], j)

SeesCaller ==
  \A d \in Device :
    (serving[d] # None /\ serving[d].job # Async /\ at[<<d, "handler">>] # "entering") =>
      \A e \in Device : \A v \in Visible(d, e) :
        \A w \in sent[route[jobIDMap[d][serving[d].job]]][e] : v >= w

SeesCallee ==
  \A t \in Thread :
    (got[t] # None /\ at[t] \notin {"called", "after"}) => NotOlder(t[1], returned[got[t].call])

Remembers == Views /\ Called /\ Answering /\ SeesCaller /\ SeesCallee
MemInductive == Inductive /\ Sending /\ MemoryTypes /\ Upward /\ Remembers /\ Placed

(* A number of the gateway in use stands for a call whose caller waits.    *)
LEMMA KeyOf ==
  ASSUME Inductive, Called, NEW r \in Out
  PROVE  \E d \in Device, j \in Int :
           /\ route[r] = <<d, j>> /\ <<d, j>> \in DOMAIN sent /\ j < jobID[d] /\ ~ Done(d, j)
           /\ \E t \in Thread : t[1] = d /\ Caller(t) /\ call[t].job = j
<1>1. route[r] \in Device \X Int /\ route[r][1] \in Device /\ route[r][2] \in Int
  BY Routed
<1> DEFINE d == route[r][1]
           j == route[r][2]
<1>2. route[r] = <<d, j>>
  BY <1>1
<1>3. j \in Live(d)
  <2>1. j \in Coming(d)
    BY DEF Coming
  <2>2. LiveAt(d)["route"] = Coming(d) /\ "route" \in DOMAIN LiveAt(d)
    BY <1>1, LivePlaces DEF LiveAt, LivePlace
  <2> QED
    BY <2>1, <2>2 DEF Live, All
<1>4. PICK t \in Thread : /\ t[1] = d /\ Caller(t) /\ call[t].job = j /\ pc[t] \in Since
                          /\ ~ consumeTable[d][j]
  BY <1>1, <1>3 DEF Inductive, Waiting, Awaited
<1>5. j < jobID[d]
  BY <1>1, <1>3, LiveSince
<1>6. <<d, j>> \in DOMAIN sent
  BY <1>4 DEF Called
<1> QED
  BY <1>1, <1>2, <1>4, <1>5, <1>6 DEF Done

(* The memory only gets newer.                                             *)
LEMMA ViewsFrom ==
  ASSUME MemoryTypes, MemoryTypes', Onward, Views,
         had' = [t \in Thread |-> had'[t]],
         \A t \in Thread :
           \/ had'[t] = had[t] /\ (at'[t] # "before" => at[t] # "before")
           \/ had'[t] = had[t] /\ \A e \in Device : mem'[e] = Top(t[1], e)
           \/ at'[t] = "before" /\ NotAbove(t[1], had'[t]),
         \A k \in DOMAIN sent' : \/ \E t \in Thread : at[t] # "before" /\ sent'[k] = had[t]
                                 \/ k \in DOMAIN sent /\ sent'[k] = sent[k],
         \A k \in DOMAIN returned' : \/ returned'[k] = mem'
                                     \/ k \in DOMAIN returned /\ returned'[k] = returned[k]
  PROVE  Views'
<1>1. \A e \in Device : mem[e] \in Value /\ mem'[e] \in Value /\ mem'[e] >= mem[e]
  BY DEF MemoryTypes, Onward
<1>2. ASSUME NEW view, \A e \in Device : view[e] \subseteq Value /\ \A v \in view[e] : v <= mem[e]
      PROVE  \A e \in Device : view[e] \subseteq Value /\ \A v \in view[e] : v <= mem'[e]
  BY <1>1, <1>2 DEF Value
<1>3. ASSUME NEW d \in Device, NEW view, NotAbove(d, view)
      PROVE  \A e \in Device : view[e] \subseteq Value /\ \A v \in view[e] : v <= Top(d, e)'
  <2>1. SUFFICES ASSUME NEW e \in Device, NEW v \in view[e]
                 PROVE  v \in Value /\ v <= Top(d, e)'
    BY <1>3 DEF NotAbove
  <2>2. v \in Value /\ v <= Top(d, e) /\ Top(d, e)' >= Top(d, e)
    BY <1>3 DEF NotAbove, Onward
  <2>3. Top(d, e) \in Int /\ Top(d, e)' \in Int
    BY TopType DEF Value
  <2> QED
    BY <2>2, <2>3 DEF Value
<1>4. ASSUME NEW t \in Thread
      PROVE  /\ \A e \in Device : had'[t][e] \subseteq Value /\ \A v \in had'[t][e] : v <= Top(t[1], e)'
             /\ at'[t] # "before" => \A e \in Device : had'[t][e] \subseteq Value
                                                     /\ \A v \in had'[t][e] : v <= mem'[e]
  <2>0. t[1] \in Device
    BY DEF Thread
  <2>1. NotAbove(t[1], had[t]) /\ (at[t] # "before" => NotNewer(had[t]))
    BY DEF Views
  <2>2. CASE had'[t] = had[t] /\ (at'[t] # "before" => at[t] # "before")
    BY <1>2, <1>3, <2>0, <2>1, <2>2 DEF NotNewer
  <2>3. CASE had'[t] = had[t] /\ \A e \in Device : mem'[e] = Top(t[1], e)
    BY <1>3, <2>0, <2>1, <2>3 DEF NotAbove
  <2>4. CASE at'[t] = "before" /\ NotAbove(t[1], had'[t])
    BY <1>3, <2>0, <2>4
  <2> QED
    BY <2>2, <2>3, <2>4
<1>5. ASSUME NEW k \in DOMAIN sent' PROVE \A e \in Device : sent'[k][e] \subseteq Value /\ \A v \in sent'[k][e] : v <= mem'[e]
  <2>1. \A e \in Device : sent'[k][e] \subseteq Value /\ \A v \in sent'[k][e] : v <= mem[e]
    BY DEF Views, NotNewer
  <2> QED
    BY <1>2, <2>1
<1>6. ASSUME NEW k \in DOMAIN returned', NEW e \in Device
      PROVE  returned'[k][e] \in Value /\ returned'[k][e] <= mem'[e]
  <2>1. CASE returned'[k] = mem'
    BY <1>1, <2>1 DEF Value
  <2>2. CASE k \in DOMAIN returned /\ returned'[k] = returned[k]
    <3>1. returned[k][e] \in Value /\ returned[k][e] <= mem[e]
      BY <2>2 DEF Views
    <3> QED
      BY <1>1, <2>2, <3>1 DEF Value
  <2> QED
    BY <2>1, <2>2
<1> QED
  BY <1>4, <1>5, <1>6 DEF Views, NotNewer, NotAbove

(* Answers appear where a step of the answer put them.                     *)
LEMMA AnsweringFrom ==
  ASSUME Inductive, Answering, DOMAIN returned \subseteq DOMAIN returned',
         \A r \in DOMAIN route : route'[r] = route[r],
         \A d \in Device : \A m \in Range(up'[d]) :
           m.tag = "return" => m \in Range(up[d]) \/ route'[m.job] \in DOMAIN returned',
         \A d \in Device : \A m \in Range(down'[d]) :
           m.tag = "return" => m \in Range(down[d]) \/ <<d, m.job>> \in DOMAIN returned,
         \A d \in Device : storing'[d] # None =>
           storing'[d] = storing[d] \/ <<d, storing'[d].job>> \in DOMAIN returned,
         \A d \in Device : \A j : Done(d, j)' => Done(d, j) \/ <<d, j>> \in DOMAIN returned,
         \A d \in Device : \A j : Done(d, j) => Done(d, j)',
         DOMAIN got' = Thread,
         \A t \in Thread : got'[t] # None =>
           got'[t] = got[t] \/ \E j \in Int : got'[t].call = <<t[1], j>> /\ Done(t[1], j)
  PROVE  Answering'
<1>1. ASSUME NEW d \in Device, NEW m \in Range(up'[d]), m.tag = "return"
      PROVE  route'[m.job] \in DOMAIN returned'
  <2>1. CASE m \in Range(up[d])
    <3>1. m.job \in Out /\ route[m.job] \in DOMAIN returned
      BY <1>1, <2>1, UpFacts DEF Answering
    <3>2. route'[m.job] = route[m.job]
      BY <3>1, Routed
    <3> QED
      BY <3>1, <3>2
  <2> QED
    BY <1>1, <2>1
<1>2. ASSUME NEW d \in Device, NEW m \in Range(down'[d]), m.tag = "return"
      PROVE  <<d, m.job>> \in DOMAIN returned'
  BY <1>2 DEF Answering
<1>3. ASSUME NEW d \in Device, storing'[d] # None PROVE <<d, storing'[d].job>> \in DOMAIN returned'
  BY <1>3 DEF Answering
<1>4. ASSUME NEW d \in Device, NEW j, Done(d, j)' PROVE <<d, j>> \in DOMAIN returned'
  BY <1>4 DEF Answering
<1>5. ASSUME NEW t \in Thread, got'[t] # None
      PROVE  \E j \in Int : got'[t].call = <<t[1], j>> /\ Done(t[1], j)'
  <2>1. PICK j \in Int : got'[t].call = <<t[1], j>> /\ Done(t[1], j)
    BY <1>5 DEF Answering
  <2>2. t[1] \in Device
    BY DEF Thread
  <2> QED
    BY <2>1, <2>2
<1> QED
  BY <1>1, <1>2, <1>3, <1>4, <1>5 DEF Answering

LEMMA AnsweringSame ==
  ASSUME Inductive, Answering, DOMAIN returned \subseteq DOMAIN returned',
         UNCHANGED <<up, down, storing, consumeTable, got, route>>
  PROVE  Answering'
<1>1. \A d \in Device : \A j : Done(d, j)' <=> Done(d, j)
  BY DEF Done
<1> QED
  BY <1>1, AnsweringFrom DEF Answering

(* A handler stays with the call it executes.                              *)
Stays(d) ==
  serving'[d] # None => /\ serving[d] # None /\ serving'[d].job = serving[d].job
                        /\ serving[d].job # Async =>
                             jobIDMap'[d][serving[d].job] = jobIDMap[d][serving[d].job]
LEMMA SeesFrom ==
  ASSUME Inductive, MemoryTypes, MemoryTypes', Onward, Views, Called, SeesCaller,
         NEW d \in Device, Stays(d), at[<<d, "handler">>] # "entering",
         \A r \in DOMAIN route : route'[r] = route[r],
         \A r \in Out : sent'[route[r]] = sent[route[r]],
         serving'[d] # None, serving'[d].job # Async, NEW e \in Device, NEW v \in Visible(d, e)',
         NEW w \in sent'[route'[jobIDMap'[d][serving'[d].job]]][e]
  PROVE  v >= w
<1> DEFINE r == jobIDMap[d][serving[d].job]
<1>1. serving[d] # None /\ serving[d].job # Async /\ jobIDMap'[d][serving'[d].job] = r
  BY DEF Stays
<1>2. r \in Out
  BY <1>1, ServingFacts
<1> HIDE DEF r
<1>3. route'[r] = route[r] /\ sent'[route[r]] = sent[route[r]] /\ route[r] \in DOMAIN sent
  BY <1>2, Routed, KeyOf
<1>4. w \in sent[route[r]][e]
  BY <1>1, <1>3
<1>5. w \in Value /\ w <= mem[e]
  BY <1>3, <1>4 DEF Views, NotNewer
<1>6. \A x \in Visible(d, e) : x >= w
  BY <1>1, <1>4 DEF SeesCaller, r
<1> QED
  BY <1>5, <1>6 DEF Onward

(* So does a caller that has been answered.                                *)
LEMMA SeesCalleeFrom ==
  ASSUME Inductive, MemoryTypes, Onward, Views, Answering, SeesCallee, NEW t \in Thread,
         got[t] # None, got'[t] = got[t], at[t] \notin {"called", "after"},
         \A d \in Device : \A j : Done(d, j) => returned'[<<d, j>>] = returned[<<d, j>>],
         NEW e \in Device, NEW v \in Visible(t[1], e)'
  PROVE  v >= returned'[got'[t].call][e]
<1>0. t[1] \in Device
  BY DEF Thread
<1>1. PICK j \in Int : got[t].call = <<t[1], j>> /\ Done(t[1], j)
  BY DEF Answering
<1> DEFINE x == returned[<<t[1], j>>][e]
<1>2. returned'[got'[t].call][e] = x
  BY <1>0, <1>1
<1>3. x \in Value /\ x <= mem[e]
  BY <1>0, <1>1 DEF Answering, Views
<1>4. \A w \in Visible(t[1], e) : w >= x
  BY <1>1 DEF SeesCallee, NotOlder
<1> HIDE DEF x
<1>5. v >= x
  BY <1>0, <1>3, <1>4 DEF Onward
<1> QED
  BY <1>2, <1>5

-----------------------------------------------------------------------------
(* The steps of a remote call that leave the histories alone.              *)
LEMMA CalledFrom ==
  ASSUME Called, at' \in [Thread -> Place],
         DOMAIN sent \subseteq DOMAIN sent',
         \A t \in Thread : Caller(t)' => \/ Caller(t) /\ call'[t].job = call[t].job /\ at'[t] = at[t]
                                         \/ at'[t] = "called" /\ <<t[1], call'[t].job>> \in DOMAIN sent'
  PROVE  Called'
<1>1. ASSUME NEW t \in Thread, Caller(t)' PROVE at'[t] = "called" /\ <<t[1], call'[t].job>> \in DOMAIN sent'
  <2>1. CASE Caller(t) /\ call'[t].job = call[t].job /\ at'[t] = at[t]
    BY <2>1 DEF Called
  <2> QED
    BY <1>1, <2>1
<1> QED
  BY <1>1 DEF Called

LEMMA SeesCallerFrom ==
  ASSUME MemInductive, MemoryTypes', Onward,
         \A d \in Device : \/ at'[<<d, "handler">>] = "entering"
                           \/ Stays(d) /\ at[<<d, "handler">>] # "entering",
         \A r \in DOMAIN route : route'[r] = route[r],
         \A r \in Out : sent'[route[r]] = sent[route[r]]
  PROVE  SeesCaller'
<1>1. Inductive /\ MemoryTypes /\ Views /\ Called /\ SeesCaller
  BY DEF MemInductive, Remembers
<1>2. ASSUME NEW d \in Device, serving'[d] # None, serving'[d].job # Async,
             at'[<<d, "handler">>] # "entering", NEW e \in Device,
             NEW v \in Visible(d, e)', NEW w \in sent'[route'[jobIDMap'[d][serving'[d].job]]][e]
      PROVE  v >= w
  <2>1. Stays(d) /\ at[<<d, "handler">>] # "entering"
    BY <1>2
  <2> QED
    BY <1>1, <1>2, <2>1, SeesFrom
<1> QED
  BY <1>2 DEF SeesCaller

LEMMA SeesCalleeKept ==
  ASSUME MemInductive, Onward,
         \A t \in Thread : got'[t] # None /\ at'[t] \notin {"called", "after"} =>
                             got'[t] = got[t] /\ at[t] \notin {"called", "after"},
         \A d \in Device : \A j : Done(d, j) => returned'[<<d, j>>] = returned[<<d, j>>]
  PROVE  SeesCallee'
<1>1. Inductive /\ MemoryTypes /\ Views /\ Answering /\ SeesCallee
  BY DEF MemInductive, Remembers
<1>2. ASSUME NEW t \in Thread, got'[t] # None, at'[t] \notin {"called", "after"}, NEW e \in Device,
             NEW v \in Visible(t[1], e)'
      PROVE  v >= returned'[got'[t].call][e]
  <2>1. got'[t] = got[t] /\ at[t] \notin {"called", "after"} /\ got[t] # None
    BY <1>2
  <2> QED
    BY <1>1, <1>2, <2>1, SeesCalleeFrom
<1> QED
  BY <1>2 DEF SeesCallee, NotOlder

LEMMA UnmovedStep ==
  ASSUME MemInductive, MemoryTypes', Onward, UNCHANGED <<at, had, sent, returned>>, Answering',
         \A t \in Thread : Caller(t)' => Caller(t) /\ call'[t].job = call[t].job,
         \A d \in Device : Stays(d), \A r \in DOMAIN route : route'[r] = route[r],
         \A t \in Thread : got'[t] # None /\ at[t] \notin {"called", "after"} => got'[t] = got[t]
  PROVE  Remembers'
<1>1. Inductive /\ MemoryTypes /\ Views /\ Called /\ Answering
  BY DEF MemInductive, Remembers
<1>2. Views'
  <2>1. had' = [t \in Thread |-> had'[t]]
    BY <1>1 DEF Views
  <2> QED
    BY <1>1, <2>1, ViewsFrom
<1>3. Called'
  BY <1>1, CalledFrom DEF Called
<1>4. SeesCaller'
  BY SeesCallerFrom
<1>5. SeesCallee'
  BY SeesCalleeKept
<1> QED
  BY <1>2, <1>3, <1>4, <1>5 DEF Remembers

(* What such a step keeps. *)
Keeps ==
  /\ \A t \in Thread : Caller(t)' => Caller(t) /\ call'[t].job = call[t].job
  /\ \A d \in Device : Stays(d)
  /\ \A r \in DOMAIN route : route'[r] = route[r]
  /\ \A t \in Thread : got'[t] # None /\ at[t] \notin {"called", "after"} => got'[t] = got[t]

LEMMA CallersGo ==
  ASSUME Types, NEW t \in Thread, NEW c, call' = [call EXCEPT ![t] = c],
         c # None /\ c.tag = "call" => Caller(t) /\ c.job = call[t].job, NEW u \in Thread, Caller(u)'
  PROVE  Caller(u) /\ call'[u].job = call[u].job
<1>1. call'[u] = IF u = t THEN c ELSE call[u]
  BY DEF Types
<1> QED
  BY <1>1 DEF Caller

LEMMA StaysSame == ASSUME UNCHANGED <<serving, jobIDMap>> PROVE \A d \in Device : Stays(d)
BY DEF Stays

(* A thread changes what it has of its call. *)
LEMMA OfItsCall ==
  ASSUME Types, Phases, NEW t \in Thread, pc[t] \in Calling
  PROVE  /\ call[t] # None /\ call[t] \in Making
         /\ \A x : LET c == [call[t] EXCEPT !.pushed = x] IN c.tag = call[t].tag /\ c.job = call[t].job
         /\ \A x : LET c == [call[t] EXCEPT !.args = x] IN c.tag = call[t].tag /\ c.job = call[t].job
         /\ \A x : LET c == [call[t] EXCEPT !.fn = x] IN c.tag = call[t].tag /\ c.job = call[t].job
<1>1. call[t] # None /\ call[t] \in Making
  BY DEF Types, Phases
<1> QED
  BY <1>1 DEF Making

LEMMA CallKeeps ==
  ASSUME MemInductive, UNCHANGED returned, NEW t \in Thread,
         PushArgument(t) \/ GetArgsOfRC(t) \/ PushJob(t) \/ PushFunction(t) \/ PushArgs(t)
  PROVE  Keeps /\ Answering'
<1>1. Inductive /\ Types /\ Phases /\ Answering
  BY DEF MemInductive, Remembers, Inductive
<1>2. pc[t] \in Calling /\ UNCHANGED <<up, down, storing, consumeTable, got, route, serving, jobIDMap>>
  BY DEF PushArgument, GetArgsOfRC, PushJob, PushFunction, PushArgs, Push, Goto, tables, network,
         Calling, Before, Since
<1>3. Answering'
  BY <1>1, <1>2, AnsweringSame
<1>4. PICK c : call' = [call EXCEPT ![t] = c] /\ c.tag = call[t].tag /\ c.job = call[t].job
  <2>1. CASE PushArgument(t)
    BY <1>1, <1>2, <2>1, OfItsCall DEF PushArgument
  <2>2. CASE GetArgsOfRC(t)
    BY <1>1, <1>2, <2>2, OfItsCall DEF GetArgsOfRC
  <2>3. CASE PushJob(t) \/ PushFunction(t) \/ PushArgs(t)
    <3>1. call' = [call EXCEPT ![t] = call[t]]
      BY <1>1, <2>3 DEF PushJob, PushFunction, PushArgs, Push, Types
    <3> QED
      BY <3>1
  <2> QED
    BY <2>1, <2>2, <2>3
<1>5. c # None /\ c.tag = "call" => Caller(t) /\ c.job = call[t].job
  BY <1>1, <1>2, <1>4, OfItsCall DEF Caller
<1>6. \A u \in Thread : Caller(u)' => Caller(u) /\ call'[u].job = call[u].job
  BY <1>1, <1>4, <1>5, CallersGo
<1> QED
  BY <1>2, <1>3, <1>6, StaysSame DEF Keeps

LEMMA InsertConsumeWaitKeeps ==
  ASSUME MemInductive, UNCHANGED returned, NEW t \in Thread, InsertConsumeWait(t)
  PROVE  Keeps /\ Answering'
<1> DEFINE d == t[1]
           j == call[t].job
<1>1. Inductive /\ Types /\ Phases /\ Tables /\ Answering
  BY DEF MemInductive, Remembers, Inductive
<1>2. /\ pc[t] = "insertConsumeWait" /\ pc[t] \in Calling /\ pc[t] \in Before /\ d \in Device
      /\ UNCHANGED <<up, down, storing, got, route, serving, jobIDMap>>
  BY DEF InsertConsumeWait, Goto, network, Calling, Before, Thread
<1>3. Caller(t)
  <2>1. call[t] # None /\ call[t].tag # "async" /\ call[t].tag \in Tag
    BY <1>1, <1>2, OfItsCall DEF Phases, Making
  <2> QED
    BY <2>1 DEF Caller, Tag
<1>4. PICK c : call' = [call EXCEPT ![t] = c] /\ c.tag = call[t].tag /\ c.job = call[t].job
  BY <1>1, <1>2, OfItsCall DEF InsertConsumeWait
<1>5. \A u \in Thread : Caller(u)' => Caller(u) /\ call'[u].job = call[u].job
  BY <1>1, <1>3, <1>4, CallersGo
<1>6. Keeps
  BY <1>2, <1>5, StaysSame DEF Keeps
<1>7. ~ Done(d, j)
  <2>1. j \in DOMAIN runningJobs[d]
    BY <1>1, <1>2, <1>3 DEF Tables
  <2> QED
    BY <1>1, <1>2, <2>1 DEF Tables, Done
<1>8. /\ DOMAIN consumeTable'[d] = DOMAIN consumeTable[d] \union {j} /\ ~ consumeTable'[d][j]
      /\ \A k \in DOMAIN consumeTable[d] : k # j => consumeTable'[d][k] = consumeTable[d][k]
      /\ \A e \in Device : e # d => consumeTable'[e] = consumeTable[e]
  BY <1>1, <1>2 DEF InsertConsumeWait, Insert, Types, IsTable
<1>9. \A e \in Device : \A k : Done(e, k)' <=> Done(e, k)
  BY <1>7, <1>8 DEF Done
<1>10. Answering'
  BY <1>1, <1>2, <1>9, AnsweringFrom DEF Answering
<1> QED
  BY <1>6, <1>10

LEMMA SendQueKeeps ==
  ASSUME MemInductive, UNCHANGED returned, NEW t \in Thread, SendQue(t)
  PROVE  Keeps /\ Answering'
<1> DEFINE d == t[1]
           tag == call[t].tag
           m == [tag |-> tag, words |-> sendQue[d][tag]]
<1>1. Inductive /\ Types /\ Phases /\ Answering
  BY DEF MemInductive, Remembers, Inductive
<1>2. /\ pc[t] \in Calling /\ d \in Device
      /\ UNCHANGED <<down, storing, got, route, serving, jobIDMap, consumeTable>>
  BY DEF SendQue, Goto, tables, Calling, Since, Thread
<1>3. call[t] # None /\ tag \in Tag /\ m \in Asked /\ m.tag # "return"
  <2>1. call[t] # None /\ tag \in Tag
    BY <1>1, <1>2, OfItsCall DEF Making
  <2>2. sendQue[d][tag] \in Seq(CallWord)
    BY <1>1, <1>2, <2>1 DEF Types
  <2> QED
    BY <2>1, <2>2 DEF Asked, Tag
<1> HIDE DEF m
<1>4. PICK c : call' = [call EXCEPT ![t] = c] /\ (c = None \/ (c = call[t] /\ tag = "call"))
  BY DEF SendQue
<1>5. \A u \in Thread : Caller(u)' => Caller(u) /\ call'[u].job = call[u].job
  BY <1>1, <1>3, <1>4, CallersGo DEF Caller
<1>6. Keeps
  BY <1>2, <1>5, StaysSame DEF Keeps
<1>7. ASSUME NEW e \in Device, NEW x \in Range(up'[e]), x.tag = "return" PROVE x \in Range(up[e])
  <2>1. up' = [up EXCEPT ![d] = Append(up[d], m)]
    BY DEF SendQue, m
  <2>2. up[e] \in Seq(Asked \union Answered) /\ up'[e] = IF e = d THEN Append(up[e], m) ELSE up[e]
    BY <1>1, <2>1 DEF Types
  <2>3. Range(Append(up[e], m)) = Range(up[e]) \union {m}
    BY <1>3, <2>2, Members
  <2> QED
    BY <1>3, <1>7, <2>2, <2>3
<1>8. \A e \in Device : \A k : Done(e, k)' <=> Done(e, k)
  BY <1>2 DEF Done
<1>9. Answering'
  BY <1>1, <1>2, <1>7, <1>8, AnsweringFrom DEF Answering
<1> QED
  BY <1>6, <1>9

LEMMA ConsumeReturnKeeps ==
  ASSUME MemInductive, UNCHANGED returned, NEW t \in Thread, ConsumeReturn(t)
  PROVE  Keeps /\ Answering'
<1> DEFINE d == t[1]
           j == call[t].job
<1>1. Inductive /\ Types /\ Phases /\ Tables /\ Answering /\ Called
  BY DEF MemInductive, Remembers, Inductive
<1>2. /\ pc[t] = "consumeReturn" /\ pc[t] \in Calling /\ pc[t] \notin Before /\ d \in Device
      /\ UNCHANGED <<up, down, storing, route, serving, jobIDMap, consumeTable>>
  BY DEF ConsumeReturn, Goto, network, Calling, Before, Since, Thread
<1>3. Caller(t) /\ j \in Int
  <2>1. call[t] # None /\ call[t].tag # "async" /\ call[t].tag \in Tag /\ j \in Int
    BY <1>1, <1>2, OfItsCall DEF Phases, Making
  <2> QED
    BY <2>1 DEF Caller, Tag
<1>4. Done(d, j)
  <2>1. j \in DOMAIN consumeTable[d]
    BY <1>1, <1>2, <1>3 DEF Tables
  <2> QED
    BY <2>1 DEF ConsumeReturn, At, Done
<1>5. at[t] = "called"
  BY <1>1, <1>3 DEF Called
<1>6. call' = [call EXCEPT ![t] = None]
  BY DEF ConsumeReturn
<1>7. \A u \in Thread : Caller(u)' => Caller(u) /\ call'[u].job = call[u].job
  BY <1>1, <1>6, CallersGo
<1>8. /\ DOMAIN got' = Thread /\ got'[t].call = <<d, j>>
      /\ \A u \in Thread : u # t => got'[u] = got[u]
  BY <1>1 DEF ConsumeReturn, Answering
<1>9. Keeps
  BY <1>2, <1>5, <1>7, <1>8, StaysSame DEF Keeps
<1>10. \A e \in Device : \A k : Done(e, k)' <=> Done(e, k)
  BY <1>2 DEF Done
<1>11. \A u \in Thread : got'[u] # None =>
         got'[u] = got[u] \/ \E k \in Int : got'[u].call = <<u[1], k>> /\ Done(u[1], k)
  BY <1>3, <1>4, <1>8
<1>12. Answering'
  BY <1>1, <1>2, <1>8, <1>10, <1>11, AnsweringFrom
<1> QED
  BY <1>9, <1>12

LEMMA Appended ==
  ASSUME NEW S, NEW s \in Seq(S), NEW n
  PROVE  /\ Range(Append(s, n)) = Range(s) \union {n}
         /\ \A i \in DOMAIN s : Append(s, n)[i] = s[i]
<1> DEFINE U == S \union {n}
<1>1. s \in Seq(U) /\ n \in U
  <2>1. Len(s) \in Nat /\ s \in [1 .. Len(s) -> S]
    OBVIOUS
  <2>2. s \in [1 .. Len(s) -> U]
    BY <2>1
  <2> QED
    BY <2>1, <2>2
<1> HIDE DEF U
<1>2. Range(Append(s, n)) = Range(s) \union {n}
  BY <1>1, Members
<1>3. \A i \in DOMAIN s : Append(s, n)[i] = s[i]
  BY <1>1
<1> QED
  BY <1>2, <1>3

(* A message more for one device. *)
LEMMA RangeAppend ==
  ASSUME Types, NEW x, NEW n, down' = [down EXCEPT ![x] = Append(@, n)], NEW e \in Device
  PROVE  Range(down'[e]) \subseteq Range(down[e]) \union {n}
<1> DEFINE s == down[e]
<1>1. s \in Seq(Passed \union Answered)
  BY DEF Types
<1>2. down'[e] = IF e = x THEN Append(s, n) ELSE s
  BY DEF Types
<1> HIDE DEF s
<1>3. Range(Append(s, n)) = Range(s) \union {n}
  BY <1>1, Appended
<1> QED
  BY <1>2, <1>3 DEF s

LEMMA NetworkKeeps ==
  ASSUME \A r \in DOMAIN route : route'[r] = route[r], UNCHANGED <<call, serving, jobIDMap, got>>
  PROVE  Keeps
BY StaysSame DEF Keeps, Caller

LEMMA ForwardCallKeeps ==
  ASSUME MemInductive, UNCHANGED returned, NEW d \in Device, ForwardCall(d)
  PROVE  Keeps /\ Answering'
<1>1. Inductive /\ Types /\ Answering
  BY DEF MemInductive, Remembers, Inductive
<1>2. PICK m : m = Head(up[d])
  OBVIOUS
<1>3. /\ up[d] # << >> /\ m.tag \in Tag /\ up' = [up EXCEPT ![d] = Tail(@)]
      /\ UNCHANGED <<consumeTable, storing, call, serving, jobIDMap, got>>
  BY <1>2 DEF ForwardCall, tables
<1>4. \A e \in Device : Range(up'[e]) \subseteq Range(up[e])
  BY <1>1, <1>3, RangeTail DEF Types
<1>5. \A r \in DOMAIN route : route'[r] = route[r]
  <2>1. PICK y : route' = Append(route, y)
    BY DEF ForwardCall
  <2>2. route \in Seq(Device \X Int)
    BY <1>1 DEF Types
  <2> QED
    BY <2>1, <2>2, Appended
<1>6. PICK x, n : down' = [down EXCEPT ![x] = Append(@, n)] /\ n.tag = m.tag
  <2> DEFINE o == m.words[2].value.on
             y == [tag |-> m.tag, job |-> Len(route) + 1, fn |-> m.words[2].value,
                   args |-> SubSeq(m.words, 3, Len(m.words))]
  <2>1. down' = [down EXCEPT ![o] = Append(@, y)] /\ y.tag = m.tag
    BY <1>2 DEF ForwardCall
  <2> HIDE DEF o, y
  <2> QED
    BY <2>1
<1>7. \A e \in Device : Range(down'[e]) \subseteq Range(down[e]) \union {n}
  BY <1>1, <1>6, RangeAppend
<1>8. n.tag # "return"
  BY <1>3, <1>6 DEF Tag
<1>9. \A e \in Device : \A k : Done(e, k)' <=> Done(e, k)
  BY <1>3 DEF Done
<1>10. Answering'
  <2>1. \A e \in Device : \A x_1 \in Range(up'[e]) : x_1 \in Range(up[e])
    BY <1>4
  <2>2. \A e \in Device : \A x_1 \in Range(down'[e]) : x_1.tag = "return" => x_1 \in Range(down[e])
    BY <1>7, <1>8
  <2> QED
    BY <1>1, <1>3, <1>5, <1>9, <2>1, <2>2, AnsweringFrom DEF Answering
<1> QED
  BY <1>3, <1>5, <1>10, NetworkKeeps

LEMMA ForwardReturnKeeps ==
  ASSUME MemInductive, UNCHANGED returned, NEW d \in Device, ForwardReturn(d)
  PROVE  Keeps /\ Answering'
<1>1. Inductive /\ Types /\ Answering
  BY DEF MemInductive, Remembers, Inductive
<1>2. PICK m : m = Head(up[d])
  OBVIOUS
<1>3. /\ up[d] # << >> /\ m.tag = "return" /\ up' = [up EXCEPT ![d] = Tail(@)]
      /\ UNCHANGED <<consumeTable, storing, call, serving, jobIDMap, got, route>>
  BY <1>2 DEF ForwardReturn, tables
<1>4. /\ m \in Range(up[d]) /\ \A e \in Device : Range(up'[e]) \subseteq Range(up[e])
  BY <1>1, <1>2, <1>3, RangeTail DEF Types
<1>5. m \in Answered /\ m.job \in Out
  BY <1>1, <1>3, <1>4, UpFacts
<1>6. PICK o \in Device, j \in Int : route[m.job] = <<o, j>>
  BY <1>1, <1>5, Routed
<1>7. <<o, j>> \in DOMAIN returned
  BY <1>1, <1>3, <1>4, <1>6 DEF Answering
<1>8. PICK n : n = [m EXCEPT !.job = j]
  OBVIOUS
<1>9. n.job = j
  BY <1>5, <1>8 DEF Answered
<1>10. down' = [down EXCEPT ![o] = Append(@, n)]
  BY <1>2, <1>6, <1>8 DEF ForwardReturn
<1>11. \A e \in Device : Range(down'[e]) \subseteq Range(down[e]) \union {n}
  <2>1. PICK x : x = o /\ down' = [down EXCEPT ![x] = Append(@, n)]
    BY <1>10
  <2> QED
    BY <1>1, <2>1, RangeAppend
<1>e. \A e \in Device : e # o => down'[e] = down[e]
  BY <1>1, <1>10 DEF Types
<1>12. \A e \in Device : \A k : Done(e, k)' <=> Done(e, k)
  BY <1>3 DEF Done
<1>13. Answering'
  <2>1. \A e \in Device : \A x \in Range(up'[e]) : x \in Range(up[e])
    BY <1>4
  <2>2. \A e \in Device : \A x \in Range(down'[e]) : x \in Range(down[e]) \/ <<e, x.job>> \in DOMAIN returned
    BY <1>7, <1>9, <1>11, <1>e
  <2> QED
    BY <1>1, <1>3, <1>12, <2>1, <2>2, AnsweringFrom DEF Answering
<1> QED
  BY <1>3, <1>13, NetworkKeeps

LEMMA ReceiveKeeps ==
  ASSUME MemInductive, UNCHANGED returned, NEW d \in Device, ReceiveCall(d) \/ ReceiveReturn(d)
  PROVE  Keeps /\ Answering'
<1>1. Inductive /\ Types /\ Answering
  BY DEF MemInductive, Remembers, Inductive
<1>2. PICK m : m = Head(down[d])
  OBVIOUS
<1>3. /\ down[d] # << >> /\ down' = [down EXCEPT ![d] = Tail(@)]
      /\ storing' = storing \/ (m.tag = "return" /\ storing' = [storing EXCEPT ![d] = m])
      /\ UNCHANGED <<up, consumeTable, call, serving, jobIDMap, got, route>>
  BY <1>2 DEF ReceiveCall, ReceiveReturn, tables
<1>4. /\ m \in Range(down[d]) /\ \A e \in Device : Range(down'[e]) \subseteq Range(down[e])
  BY <1>1, <1>2, <1>3, RangeTail DEF Types
<1>5. m.tag = "return" => <<d, m.job>> \in DOMAIN returned
  BY <1>1, <1>4 DEF Answering
<1>6. \A e \in Device : storing'[e] # None => storing'[e] = storing[e] \/ <<e, storing'[e].job>> \in DOMAIN returned
  BY <1>1, <1>3, <1>5 DEF Types
<1>7. \A e \in Device : \A k : Done(e, k)' <=> Done(e, k)
  BY <1>3 DEF Done
<1>8. Answering'
  <2>1. \A e \in Device : \A x \in Range(down'[e]) : x \in Range(down[e])
    BY <1>4
  <2> QED
    BY <1>1, <1>3, <1>6, <1>7, <2>1, AnsweringFrom DEF Answering
<1> QED
  BY <1>3, <1>8, NetworkKeeps

LEMMA AnnounceReturnKeeps ==
  ASSUME MemInductive, UNCHANGED returned, NEW d \in Device, AnnounceReturn(d)
  PROVE  Keeps /\ Answering'
<1> DEFINE j == storing[d].job
<1>1. Inductive /\ Types /\ Answering
  BY DEF MemInductive, Remembers, Inductive
<1>2. /\ storing[d] # None /\ storing' = [storing EXCEPT ![d] = None]
      /\ consumeTable' = Insert(consumeTable, d, j, TRUE)
      /\ UNCHANGED <<up, down, call, serving, jobIDMap, got, route>>
  BY DEF AnnounceReturn, network
<1>3. <<d, j>> \in DOMAIN returned
  BY <1>1, <1>2 DEF Answering
<1>4. \A e \in Device : storing'[e] # None => storing'[e] = storing[e]
  BY <1>1, <1>2 DEF Types
<1>5. /\ DOMAIN consumeTable'[d] = DOMAIN consumeTable[d] \union {j} /\ consumeTable'[d][j]
      /\ \A k \in DOMAIN consumeTable[d] : k # j => consumeTable'[d][k] = consumeTable[d][k]
      /\ \A e \in Device : e # d => consumeTable'[e] = consumeTable[e]
  BY <1>1, <1>2 DEF Insert, Types, IsTable
<1>6. \A e \in Device : \A k : Done(e, k)' <=> Done(e, k) \/ (e = d /\ k = j)
  BY <1>5 DEF Done
<1>7. Answering'
  BY <1>1, <1>2, <1>3, <1>4, <1>6, AnsweringFrom DEF Answering
<1> QED
  BY <1>2, <1>7, NetworkKeeps

LEMMA AsyncCallKeeps ==
  ASSUME MemInductive, UNCHANGED returned, NEW t \in Thread, NEW site \in Site, NEW fn \in Function,
         AsyncCall(t, fn, site)
  PROVE  Keeps /\ Answering'
<1>1. Inductive /\ Types /\ Answering
  BY DEF MemInductive, Remembers, Inductive
<1>2. UNCHANGED <<up, down, storing, consumeTable, got, route, serving, jobIDMap>>
  BY DEF AsyncCall, tables, network
<1>3. PICK c : call' = [call EXCEPT ![t] = c] /\ c.tag = "async"
  <2> DEFINE c == [tag |-> "async", job |-> Async, fn |-> fn, site |-> site, pushed |-> 0,
                   args |-> << >>]
  <2>1. call' = [call EXCEPT ![t] = c] /\ c.tag = "async"
    BY DEF AsyncCall
  <2> HIDE DEF c
  <2> QED
    BY <2>1
<1>4. \A u \in Thread : Caller(u)' => Caller(u) /\ call'[u].job = call[u].job
  BY <1>1, <1>3, CallersGo
<1> QED
  BY <1>1, <1>2, <1>4, StaysSame, AnsweringSame DEF Keeps

LEMMA HandlerKeeps ==
  ASSUME MemInductive, UNCHANGED returned, NEW d \in Device, ConsumeFunctionArgs(d) \/ AsyncReturn(d)
  PROVE  Keeps /\ Answering'
<1>1. Inductive /\ Types /\ Phases /\ Answering
  BY DEF MemInductive, Remembers, Inductive
<1>2. /\ UNCHANGED <<up, down, storing, consumeTable, got, route, call, jobIDMap>>
      /\ pc[<<d, "handler">>] # "idle"
  BY DEF ConsumeFunctionArgs, AsyncReturn, tables, network, Goto
<1>3. PICK x : serving' = [serving EXCEPT ![d] = x] /\ (x # None => serving[d] # None /\ x.job = serving[d].job)
  <2>1. serving[d] # None /\ serving[d] \in Executing
    BY <1>1, <1>2 DEF Phases, Types
  <2>2. \A y : [serving[d] EXCEPT !.args = y].job = serving[d].job
    BY <2>1 DEF Executing
  <2>3. CASE ConsumeFunctionArgs(d)
    BY <2>1, <2>2, <2>3 DEF ConsumeFunctionArgs
  <2>4. CASE AsyncReturn(d)
    BY <2>4 DEF AsyncReturn
  <2> QED
    BY <2>3, <2>4
<1>4. \A e \in Device : Stays(e)
  BY <1>1, <1>2, <1>3 DEF Stays, Types
<1>5. \A u \in Thread : Caller(u)' => Caller(u) /\ call'[u].job = call[u].job
  BY <1>2 DEF Caller
<1> QED
  BY <1>1, <1>2, <1>4, <1>5, AnsweringSame DEF Keeps

(* All of them. *)
LEMMA UnmovedKeeps ==
  ASSUME MemInductive, UNCHANGED <<memory, at, had, sent, returned>>, Keeps, Answering'
  PROVE  MemoryTypes' /\ Upward' /\ Remembers'
<1>1. MemoryTypes' /\ Upward' /\ Onward
  BY MemorySame DEF MemInductive
<1> QED
  BY <1>1, UnmovedStep DEF Keeps

-----------------------------------------------------------------------------
(* The stores, and the syncs of a thread from the request to the answer.   *)

LEMMA StillKeeps ==
  ASSUME MemInductive, UNCHANGED returned, Still PROVE Keeps /\ Answering'
<1>1. UNCHANGED <<up, down, storing, consumeTable, got, route, call, serving, jobIDMap>>
  BY DEF Still, tables, network
<1> QED
  BY <1>1, NetworkKeeps, AnsweringSame DEF MemInductive, Remembers

(* A thread that makes no call with an answer goes from one place to       *)
(* another, but not from an answer past the sync behind it, nor into a     *)
(* function past the sync before it.                                       *)
LEMMA Moved ==
  ASSUME MemInductive, MemoryTypes', Onward, Answering', NEW t \in Thread, NEW there \in Place,
         ~ Caller(t), at' = [at EXCEPT ![t] = there], UNCHANGED <<call, got, route, sent>>,
         at[t] \notin {"before", "entering"},
         at[t] \in {"called", "after"} => there \in {"called", "after"},
         \A d \in Device : Stays(d) \/ (t = <<d, "handler">> /\ there = "entering"),
         \/ had' = had
         \/ there = "before" /\ \E x : had' = [had EXCEPT ![t] = x] /\ NotAbove(t[1], x),
         \A k \in DOMAIN returned' : \/ returned'[k] = mem'
                                     \/ k \in DOMAIN returned /\ returned'[k] = returned[k],
         \A d \in Device : \A j : Done(d, j) => returned'[<<d, j>>] = returned[<<d, j>>]
  PROVE  Remembers'
<1>1. MemoryTypes /\ Views /\ Called
  BY DEF MemInductive, Remembers
<1>2. /\ at' \in [Thread -> Place] /\ at'[t] = there
      /\ \A u \in Thread : u # t => at'[u] = at[u]
  BY <1>1 DEF Called
<1>3. Views'
  <2>1. had' = [u \in Thread |-> had'[u]]
    BY <1>1 DEF Views
  <2>2. ASSUME NEW u \in Thread
        PROVE  \/ had'[u] = had[u] /\ (at'[u] # "before" => at[u] # "before")
               \/ at'[u] = "before" /\ NotAbove(u[1], had'[u])
    <3>1. CASE had' = had
      BY <1>2, <3>1
    <3>2. CASE there = "before" /\ \E x : had' = [had EXCEPT ![t] = x] /\ NotAbove(t[1], x)
      <4>1. PICK x : had' = [had EXCEPT ![t] = x] /\ NotAbove(t[1], x)
        BY <3>2
      <4>2. had'[t] = x /\ \A w \in Thread : w # t => had'[w] = had[w]
        BY <1>1, <4>1 DEF Views
      <4> QED
        BY <1>2, <3>2, <4>1, <4>2
    <3> QED
      BY <3>1, <3>2
  <2>3. \A k \in DOMAIN sent' : k \in DOMAIN sent /\ sent'[k] = sent[k]
    OBVIOUS
  <2> QED
    BY <1>1, <2>1, <2>2, <2>3, ViewsFrom
<1>4. Called'
  <2>1. \A u \in Thread : Caller(u)' => Caller(u) /\ call'[u].job = call[u].job /\ at'[u] = at[u]
    BY <1>2 DEF Caller
  <2> QED
    BY <1>1, <1>2, <2>1, CalledFrom
<1>5. SeesCaller'
  <2>1. ASSUME NEW d \in Device
        PROVE  \/ at'[<<d, "handler">>] = "entering"
               \/ Stays(d) /\ at[<<d, "handler">>] # "entering"
    <3>1. <<d, "handler">> \in Thread
      BY DEF Thread
    <3> QED
      BY <1>2, <3>1
  <2> QED
    BY <2>1, SeesCallerFrom
<1>6. SeesCallee'
  <2>1. \A u \in Thread : got'[u] # None /\ at'[u] \notin {"called", "after"} =>
                            got'[u] = got[u] /\ at[u] \notin {"called", "after"}
    BY <1>2
  <2> QED
    BY <2>1, SeesCalleeKept
<1> QED
  BY <1>3, <1>4, <1>5, <1>6 DEF Remembers

(* The same for a step that changes neither the memory nor the calls.      *)
LEMMA MovedStill ==
  ASSUME MemInductive, MemoryTypes', Onward, NEW t \in Thread, NEW there \in Place,
         ~ Caller(t), at' = [at EXCEPT ![t] = there], Still, UNCHANGED <<sent, returned>>,
         at[t] \notin {"before", "entering"},
         at[t] \in {"called", "after"} => there \in {"called", "after"},
         \/ had' = had
         \/ there = "before" /\ \E x : had' = [had EXCEPT ![t] = x] /\ NotAbove(t[1], x)
  PROVE  Remembers'
<1>1. UNCHANGED <<call, got, route, serving, jobIDMap>>
  BY DEF Still, tables, network
<1>2. Answering'
  BY StillKeeps
<1>3. \A d \in Device : Stays(d)
  BY <1>1, StaysSame
<1> QED
  BY <1>1, <1>2, <1>3, Moved

(* Where a thread that runs is not. *)
LEMMA NotCalling ==
  ASSUME MemInductive, NEW t \in Thread
  PROVE  pc[t] = "run" \/ at[t] # "called" => ~ Caller(t)
BY DEF MemInductive, Inductive, Phases, Calling, Before, Since, Caller, Remembers, Called

LEMMA StoreKeeps ==
  ASSUME MemInductive, NEW t \in Thread, BeginStore(t) \/ EndStore(t)
  PROVE  MemoryTypes' /\ Upward' /\ Remembers'
<1>1. MemoryTypes /\ Upward
  BY DEF MemInductive
<1>2. Still /\ UNCHANGED history
  BY StillSteps DEF BeginStore, EndStore
<1>3. MemoryTypes' /\ Upward' /\ Onward
  BY <1>1, EndStoreStep, MemorySame DEF BeginStore
<1>4. PICK there \in {"storing", "program"} :
        at[t] \in {"storing", "program"} /\ at' = [at EXCEPT ![t] = there]
  BY DEF BeginStore, EndStore, MoveOn
<1>5. ~ Caller(t) /\ there \in Place
  BY <1>4, NotCalling DEF Place
<1> QED
  BY <1>2, <1>3, <1>4, <1>5, MovedStill DEF history

LEMMA SyncBeginsKeeps ==
  ASSUME MemInductive, NEW t \in Thread, SyncBefore(t) \/ SyncAfter(t)
  PROVE  MemoryTypes' /\ Upward' /\ Remembers'
<1>1. MemoryTypes /\ Upward /\ t[1] \in Device
  BY DEF MemInductive, Thread
<1>2. AskHome(t) /\ UNCHANGED <<memory, sent, returned>>
  BY DEF SyncBefore, SyncAfter, history
<1>3. Still /\ ~ Caller(t)
  BY <1>2, StillSteps, NotCalling DEF AskHome
<1>4. MemoryTypes' /\ Upward' /\ Onward
  BY <1>1, <1>2, MemorySame
<1>5. CASE SyncBefore(t)
  <2>1. PICK x : x = [e \in Device |-> Visible(t[1], e)]
    OBVIOUS
  <2>2. \A e \in Device : x[e] \subseteq Value /\ \A v \in x[e] : v <= Top(t[1], e)
    BY <1>1, <2>1, VisibleType, VisibleTop
  <2>3. had' = [had EXCEPT ![t] = x] /\ NotAbove(t[1], x)
    BY <1>5, <2>1, <2>2 DEF SyncBefore, NotAbove
  <2>4. at[t] = "program" /\ at' = [at EXCEPT ![t] = "before"] /\ "before" \in Place
    BY <1>5 DEF SyncBefore, MoveOn, Place, Syncs
  <2> QED
    BY <1>2, <1>3, <1>4, <2>3, <2>4, MovedStill
<1>6. CASE SyncAfter(t)
  <2>1. at[t] = "called" /\ at' = [at EXCEPT ![t] = "after"] /\ "after" \in Place /\ had' = had
    BY <1>6 DEF SyncAfter, MoveOn, Place, Syncs, history
  <2> QED
    BY <1>2, <1>3, <1>4, <2>1, MovedStill
<1> QED
  BY <1>5, <1>6

LEMMA SyncEndKeeps ==
  ASSUME MemInductive, NEW c \in Device, SyncEnd(c)
  PROVE  MemoryTypes' /\ Upward' /\ Remembers'
<1> DEFINE h == <<c, "handler">>
<1>1. h \in Thread /\ MemoryTypes /\ Upward
  BY DEF MemInductive, Thread
<1>2. AskHome(h) /\ UNCHANGED <<memory, had, sent, returned>>
  BY DEF SyncEnd, history
<1>3. Still /\ ~ Caller(h)
  BY <1>1, <1>2, StillSteps, NotCalling DEF AskHome
<1>4. MemoryTypes' /\ Upward' /\ Onward
  BY <1>1, <1>2, MemorySame
<1>5. at[h] = "program" /\ at' = [at EXCEPT ![h] = "ending"] /\ "ending" \in Place
  BY DEF SyncEnd, MoveOn, Place, Syncs
<1> HIDE DEF h
<1> QED
  BY <1>1, <1>2, <1>3, <1>4, <1>5, MovedStill

(* The callee begins its sync before it executes.                          *)
LEMMA CallbackKeeps ==
  ASSUME MemInductive, NEW c \in Device, Callback(c)
  PROVE  MemoryTypes' /\ Upward' /\ Remembers'
<1> DEFINE h == <<c, "handler">>
<1>1. h \in Thread /\ Inductive /\ MemoryTypes /\ Upward /\ Types /\ Answering
  BY DEF MemInductive, Thread, Remembers, Inductive
<1>2. /\ UNCHANGED <<up, down, storing, consumeTable, got, route, call>>
      /\ UNCHANGED <<memory, had, sent, returned>>
  BY DEF Callback, RemoteCallCallback, history
<1>3. MemoryTypes' /\ Upward' /\ Onward
  BY <1>1, <1>2, MemorySame
<1>4. at[h] = "program" /\ at' = [at EXCEPT ![h] = "entering"] /\ "entering" \in Place
  BY DEF Callback, MoveOn, Place, Syncs
<1>5. Answering'
  BY <1>1, <1>2, AnsweringSame
<1>6. ASSUME NEW d \in Device, d # c PROVE Stays(d)
  <2>1. serving'[d] = serving[d] /\ jobIDMap'[d] = jobIDMap[d]
    BY <1>1, <1>6 DEF Callback, RemoteCallCallback, Types, IsTable, Insert
  <2> QED
    BY <2>1 DEF Stays
<1>7. \A d \in Device : Stays(d) \/ (h = <<d, "handler">> /\ "entering" = "entering")
  BY <1>6
<1>8. ~ Caller(h)
  BY <1>1, <1>4, NotCalling
<1> HIDE DEF h
<1> QED
  BY <1>1, <1>2, <1>3, <1>4, <1>5, <1>7, <1>8, Moved

(* Where the home has replayed the stores of a device, it reads the        *)
(* memory: a caller that has been answered, whose function ended before,   *)
(* and a callee, whose caller had synchronised before the call.            *)
LEMMA SyncHandledKeeps ==
  ASSUME MemInductive, NEW t \in Thread, SyncHandled(t)
  PROVE  MemoryTypes' /\ Upward' /\ Remembers'
<1>1. /\ Inductive /\ MemoryTypes /\ Upward
      /\ Views /\ Called /\ Answering /\ SeesCaller /\ SeesCallee
  BY DEF MemInductive, Remembers
<1> DEFINE c == t[1]
<1>2. c \in Device
  BY DEF Thread
<1>3. /\ M!Publish(c) /\ UNCHANGED <<had, sent, returned>>
      /\ UNCHANGED <<up, down, storing, consumeTable, got, route, call, serving, jobIDMap>>
  BY DEF SyncHandled, HomeReplays, vars
<1>4. PICK there \in {"synced", "program"} : /\ at[t] \in {"before", "after", "entering"}
                                             /\ at' = [at EXCEPT ![t] = there]
  BY DEF SyncHandled, MoveOn
<1>5. /\ MemoryTypes' /\ Upward' /\ Onward
      /\ \A e \in Device : Visible(c, e)' = {mem'[e]}
      /\ \A e \in Device : mem'[e] = Top(c, e)
  BY <1>1, <1>2, <1>3, PublishStep
<1>6. /\ at' \in [Thread -> Place] /\ at'[t] = there
      /\ \A u \in Thread : u # t => at'[u] = at[u]
  BY <1>1, <1>4 DEF Called, Place
<1>7. Views'
  <2>1. had' = [u \in Thread |-> had'[u]]
    BY <1>1, <1>3 DEF Views
  <2>2. \A u \in Thread : \/ had'[u] = had[u] /\ (at'[u] # "before" => at[u] # "before")
                          \/ had'[u] = had[u] /\ \A e \in Device : mem'[e] = Top(u[1], e)
    BY <1>3, <1>5, <1>6
  <2>3. /\ \A k \in DOMAIN sent' : k \in DOMAIN sent /\ sent'[k] = sent[k]
        /\ \A k \in DOMAIN returned' : k \in DOMAIN returned /\ returned'[k] = returned[k]
    BY <1>3
  <2> QED
    BY <1>1, <1>5, <2>1, <2>2, <2>3, ViewsFrom
<1>8. Called'
  <2>1. ~ Caller(t)
    BY <1>4, NotCalling
  <2>2. \A u \in Thread : Caller(u)' => Caller(u) /\ call'[u].job = call[u].job /\ at'[u] = at[u]
    BY <1>3, <1>6, <2>1 DEF Caller
  <2> QED
    BY <1>1, <1>3, <1>6, <2>2, CalledFrom
<1>9. Answering'
  BY <1>1, <1>3, AnsweringSame
<1>10. ASSUME NEW d \in Device, serving'[d] # None, serving'[d].job # Async,
              at'[<<d, "handler">>] # "entering", NEW e \in Device,
              NEW v \in Visible(d, e)', NEW w \in sent'[route'[jobIDMap'[d][serving'[d].job]]][e]
       PROVE  v >= w
  <2>1. CASE at[<<d, "handler">>] # "entering"
    <3>1. Stays(d)
      BY <1>3, StaysSame
    <3> QED
      BY <1>1, <1>3, <1>5, <1>10, <2>1, <3>1, SeesFrom
  <2>2. CASE at[<<d, "handler">>] = "entering"
    <3>1. d = c
      BY <1>6, <1>10, <2>2 DEF Thread
    <3>2. PICK r \in Out : r = jobIDMap[d][serving[d].job]
      BY <1>1, <1>3, <1>10, ServingFacts
    <3>3. route[r] \in DOMAIN sent
      BY <1>1, KeyOf
    <3>4. w \in sent[route[r]][e]
      BY <1>3, <1>10, <3>2
    <3>5. w \in Value /\ w <= mem[e]
      BY <1>1, <3>3, <3>4 DEF Views, NotNewer
    <3>6. v = mem'[e] /\ mem'[e] >= mem[e] /\ mem'[e] \in Value /\ mem[e] \in Value
      BY <1>1, <1>5, <1>10, <3>1 DEF Onward, MemoryTypes
    <3> QED
      BY <3>5, <3>6 DEF Value
  <2> QED
    BY <2>1, <2>2
<1>11. SeesCaller'
  BY <1>10 DEF SeesCaller
<1>12. ASSUME NEW u \in Thread, got'[u] # None, at'[u] \notin {"called", "after"}, NEW e \in Device,
              NEW v \in Visible(u[1], e)'
       PROVE  v >= returned'[got'[u].call][e]
  <2>1. CASE u = t
    <3>1. PICK j \in Int : got[u].call = <<c, j>> /\ Done(c, j)
      BY <1>1, <1>3, <1>12, <2>1 DEF Answering
    <3>2. <<c, j>> \in DOMAIN returned
      BY <1>1, <1>2, <3>1 DEF Answering
    <3>3. returned[<<c, j>>][e] \in Value /\ returned[<<c, j>>][e] <= mem[e]
      BY <1>1, <3>2 DEF Views
    <3>4. v = mem'[e]
      BY <1>5, <1>12, <2>1
    <3>5. mem'[e] >= mem[e] /\ mem'[e] \in Value /\ mem[e] \in Value
      BY <1>1, <1>5 DEF Onward, MemoryTypes
    <3> QED
      BY <1>3, <3>1, <3>3, <3>4, <3>5 DEF Value
  <2>2. CASE u # t
    <3>1. got[u] # None /\ got'[u] = got[u] /\ at[u] \notin {"called", "after"}
      BY <1>3, <1>6, <1>12, <2>2
    <3>2. \A d \in Device : \A j : Done(d, j) => returned'[<<d, j>>] = returned[<<d, j>>]
      BY <1>3
    <3> QED
      BY <1>1, <1>5, <1>12, <3>1, <3>2, SeesCalleeFrom
  <2> QED
    BY <2>1, <2>2
<1>13. SeesCallee'
  BY <1>12 DEF SeesCallee, NotOlder
<1> QED
  BY <1>5, <1>7, <1>8, <1>9, <1>11, <1>13 DEF Remembers

(* Who answers, and what.  The caller still waits.                         *)
LEMMA EndFacts ==
  ASSUME MemInductive, NEW c \in Device, at[<<c, "handler">>] \in {"ending", "ended"}
  PROVE  /\ pc[<<c, "handler">>] = "run" /\ serving[c] # None /\ serving[c].job # Async
         /\ \E r \in Out, o \in Device, j \in Int :
              /\ r = jobIDMap[c][serving[c].job] /\ r = At(jobIDMap, c, serving[c].job)
              /\ route[r] = <<o, j>> /\ ~ Done(o, j)
<1>1. Inductive /\ Phases /\ Called
  BY DEF MemInductive, Remembers, Inductive
<1>2. <<c, "handler">> \in Thread
  BY DEF Thread
<1>3. pc[<<c, "handler">>] = "run" /\ serving[c].job # Async
  BY <1>2 DEF MemInductive, Placed, PlacedAt
<1>4. serving[c] # None
  BY <1>1, <1>3 DEF Phases
<1>5. PICK r \in Out : r = jobIDMap[c][serving[c].job] /\ r = At(jobIDMap, c, serving[c].job)
  BY <1>1, <1>3, <1>4, ServingFacts DEF At
<1>6. PICK o \in Device, j \in Int : route[r] = <<o, j>> /\ ~ Done(o, j)
  BY <1>1, KeyOf
<1> QED
  BY <1>3, <1>4, <1>5, <1>6

(* The sync that ends a function is noted under the call it was for, and   *)
(* no thread has an answer with that number.                               *)
LEMMA EndHandledKeeps ==
  ASSUME MemInductive, NEW c \in Device, EndHandled(c)
  PROVE  MemoryTypes' /\ Upward' /\ Remembers'
<1> DEFINE h == <<c, "handler">>
<1>1. h \in Thread /\ Inductive /\ MemoryTypes /\ Upward /\ Answering
  BY DEF MemInductive, Thread, Remembers
<1>2. /\ UNCHANGED <<up, down, storing, consumeTable, got, route, call, serving, jobIDMap>>
      /\ UNCHANGED <<had, sent>> /\ M!Publish(c)
      /\ at[h] = "ending" /\ at' = [at EXCEPT ![h] = "ended"]
  BY DEF EndHandled, HomeReplays, MoveOn, vars
<1>3. MemoryTypes' /\ Upward' /\ Onward
  BY <1>1, <1>2, PublishStep
<1>4. PICK r \in Out, o \in Device, j \in Int :
        r = At(jobIDMap, c, serving[c].job) /\ route[r] = <<o, j>> /\ ~ Done(o, j)
  BY <1>2, EndFacts
<1>5. PICK k : k = <<o, j>>
  OBVIOUS
<1>6. returned' = Noted(returned, k, mem')
  BY <1>4, <1>5 DEF EndHandled
<1>7. /\ DOMAIN returned' = DOMAIN returned \union {k} /\ returned'[k] = mem'
      /\ \A l \in DOMAIN returned : l # k => returned'[l] = returned[l]
  BY <1>6 DEF Noted
<1>8. ASSUME NEW d \in Device, NEW l, Done(d, l) PROVE returned'[<<d, l>>] = returned[<<d, l>>]
  <2>1. <<d, l>> \in DOMAIN returned /\ <<d, l>> # k
    BY <1>1, <1>4, <1>5, <1>8 DEF Answering
  <2> QED
    BY <1>7, <2>1
<1>9. \A l \in DOMAIN returned' :
        returned'[l] = mem' \/ (l \in DOMAIN returned /\ returned'[l] = returned[l])
  BY <1>7
<1>10. Answering'
  BY <1>1, <1>2, <1>7, AnsweringSame
<1>11. \A d \in Device : Stays(d)
  BY <1>2, StaysSame
<1>12. ~ Caller(h) /\ "ended" \in Place
  BY <1>1, <1>2, NotCalling DEF Place
<1> HIDE DEF h
<1> QED
  BY <1>1, <1>2, <1>3, <1>8, <1>9, <1>10, <1>11, <1>12, Moved

LEMMA ProduceKeeps ==
  ASSUME MemInductive, NEW c \in Device, Produce(c)
  PROVE  MemoryTypes' /\ Upward' /\ Remembers'
<1> DEFINE h == <<c, "handler">>
<1>1. h \in Thread /\ Inductive /\ MemoryTypes /\ Upward /\ Types /\ Answering
  BY DEF MemInductive, Thread, Remembers, Inductive
<1>2. /\ UNCHANGED <<down, storing, consumeTable, got, route, call>>
      /\ UNCHANGED <<memory, had, sent, returned>>
      /\ at[h] = "ended" /\ at' = [at EXCEPT ![h] = "program"]
      /\ jobIDMap' = Erase(jobIDMap, c, serving[c].job) /\ serving' = [serving EXCEPT ![c] = None]
  BY DEF Produce, ProduceReturn, MoveOn, history
<1>3. PICK r \in Out : r = jobIDMap[c][serving[c].job] /\ r = At(jobIDMap, c, serving[c].job)
  BY <1>2, EndFacts
<1>4. route[r] \in DOMAIN returned
  BY <1>1, <1>2, <1>3 DEF MemInductive, Placed, PlacedAt
<1>5. PICK m : up' = [up EXCEPT ![c] = Append(@, m)] /\ m.job = r
  <2> DEFINE m == [tag |-> "return", job |-> r, value |-> Returned(c, serving[c].fn, route[r])]
  <2>1. up' = [up EXCEPT ![c] = Append(@, m)] /\ m.job = r
    BY <1>3 DEF Produce, ProduceReturn
  <2> HIDE DEF m
  <2> QED
    BY <2>1
<1>6. MemoryTypes' /\ Upward' /\ Onward
  BY <1>1, <1>2, MemorySame
<1>7. Answering'
  <2>1. ASSUME NEW e \in Device, NEW x \in Range(up'[e])
        PROVE  x \in Range(up[e]) \/ route'[x.job] \in DOMAIN returned'
    <3> DEFINE s == up[e]
    <3>1. s \in Seq(Asked \union Answered)
      BY <1>1 DEF Types
    <3>2. up'[e] = IF e = c THEN Append(s, m) ELSE s
      BY <1>1, <1>5 DEF Types
    <3> HIDE DEF s
    <3>3. Range(Append(s, m)) = Range(s) \union {m}
      BY <3>1, Appended
    <3> QED
      BY <1>2, <1>4, <1>5, <2>1, <3>2, <3>3 DEF s
  <2>2. \A e \in Device : \A l : Done(e, l)' <=> Done(e, l)
    BY <1>2 DEF Done
  <2> QED
    BY <1>1, <1>2, <2>1, <2>2, AnsweringFrom DEF Answering
<1>8. \A d \in Device : Stays(d)
  BY <1>1, <1>2 DEF Stays, Types, IsTable, Erase
<1>9. ~ Caller(h) /\ "program" \in Place
  BY <1>1, <1>2, NotCalling DEF Place
<1> HIDE DEF h
<1> QED
  BY <1>1, <1>2, <1>6, <1>7, <1>8, <1>9, Moved

(* The call keeps what the thread had at its sync, under a new number.     *)
LEMMA GenerateKeeps ==
  ASSUME MemInductive, NEW t \in Thread, NEW fn \in Function, NEW site \in Site, Generate(t, fn, site)
  PROVE  MemoryTypes' /\ Upward' /\ Remembers'
<1>1. Inductive /\ MemoryTypes /\ Upward /\ Types /\ Views /\ Called /\ Answering
  BY DEF MemInductive, Remembers, Inductive
<1> DEFINE k == <<t[1], jobID[t[1]]>>
<1>2. /\ UNCHANGED <<up, down, storing, consumeTable, got, route, serving, jobIDMap, memory>>
      /\ returned' = returned /\ had' = had
      /\ at[t] = "synced" /\ at' = [at EXCEPT ![t] = "called"]
      /\ sent' = Noted(sent, k, had[t])
  BY DEF Generate, GenerateJobId, MoveOn, tables, network
<1>3. MemoryTypes' /\ Upward' /\ Onward
  BY <1>1, <1>2, MemorySame
<1>4. PICK x : call' = [call EXCEPT ![t] = x] /\ x.job = jobID[t[1]]
  <2> DEFINE x == [tag |-> "call", job |-> jobID[t[1]], fn |-> fn, site |-> site, pushed |-> 0,
                   args |-> << >>]
  <2>1. call' = [call EXCEPT ![t] = x] /\ x.job = jobID[t[1]]
    BY DEF Generate, GenerateJobId
  <2> HIDE DEF x
  <2> QED
    BY <2>1
<1> HIDE DEF k
<1>5. /\ DOMAIN sent' = DOMAIN sent \union {k} /\ sent'[k] = had[t]
      /\ \A l \in DOMAIN sent : l # k => sent'[l] = sent[l]
  BY <1>2 DEF Noted
<1>6. /\ at' \in [Thread -> Place] /\ at'[t] = "called"
      /\ \A u \in Thread : u # t => at'[u] = at[u]
  BY <1>1, <1>2 DEF Called, Place
<1>7. Views'
  <2>1. had' = [u \in Thread |-> had'[u]]
    BY <1>1, <1>2 DEF Views
  <2>2. \A l \in DOMAIN sent' : \/ \E u \in Thread : at[u] # "before" /\ sent'[l] = had[u]
                                \/ l \in DOMAIN sent /\ sent'[l] = sent[l]
    BY <1>2, <1>5
  <2>3. \A u \in Thread : had'[u] = had[u] /\ (at'[u] # "before" => at[u] # "before")
    BY <1>2, <1>6
  <2>4. \A l \in DOMAIN returned' : l \in DOMAIN returned /\ returned'[l] = returned[l]
    BY <1>2
  <2> QED
    BY <1>1, <1>3, <2>1, <2>2, <2>3, <2>4, ViewsFrom
<1>8. Called'
  <2>1. call'[t].job = jobID[t[1]] /\ \A u \in Thread : u # t => call'[u] = call[u]
    BY <1>1, <1>4 DEF Types
  <2>2. \A u \in Thread : Caller(u)' => \/ Caller(u) /\ call'[u].job = call[u].job /\ at'[u] = at[u]
                                        \/ at'[u] = "called" /\ <<u[1], call'[u].job>> \in DOMAIN sent'
    BY <1>5, <1>6, <2>1 DEF Caller, k
  <2> QED
    BY <1>1, <1>5, <1>6, <2>2, CalledFrom
<1>9. Answering'
  BY <1>1, <1>2, AnsweringSame
<1>10. SeesCaller'
  <2>1. ASSUME NEW r \in Out PROVE sent'[route[r]] = sent[route[r]]
    <3>1. PICK d \in Device, j \in Int : route[r] = <<d, j>> /\ <<d, j>> \in DOMAIN sent /\ j < jobID[d]
      BY <1>1, KeyOf
    <3>2. jobID[d] \in Nat
      BY <1>1 DEF Types
    <3>3. <<d, j>> # k
      BY <3>1, <3>2 DEF k
    <3> QED
      BY <1>5, <3>1, <3>3
  <2>2. \A d \in Device : Stays(d) /\ (at'[<<d, "handler">>] = "entering" \/ at[<<d, "handler">>] # "entering")
    BY <1>2, <1>6, StaysSame DEF Thread
  <2> QED
    BY <1>2, <1>3, <2>1, <2>2, SeesCallerFrom
<1>11. SeesCallee'
  <2>1. \A u \in Thread : got'[u] # None /\ at'[u] \notin {"called", "after"} =>
                            got'[u] = got[u] /\ at[u] \notin {"called", "after"}
    BY <1>2, <1>6
  <2> QED
    BY <1>2, <1>3, <2>1, SeesCalleeKept
<1> QED
  BY <1>3, <1>7, <1>8, <1>9, <1>10, <1>11 DEF Remembers

-----------------------------------------------------------------------------
(* Where the threads are: one of them moves at a time.                     *)

OnlyMoves(t) ==
  \A u \in Thread \ {t} :
    /\ at'[u] = at[u] /\ pc'[u] = pc[u] /\ line'[u] = line[u]
    /\ u[2] = "handler" => serving'[u[1]] = serving[u[1]] /\ jobIDMap'[u[1]] = jobIDMap[u[1]]

LEMMA PlacedFrom ==
  ASSUME MemInductive, NEW t \in Thread, OnlyMoves(t), PlacedAt(t)',
         DOMAIN returned \subseteq DOMAIN returned', \A r \in DOMAIN route : route'[r] = route[r]
  PROVE  Placed'
<1>1. ASSUME NEW u \in Thread \ {t} PROVE PlacedAt(u)'
  <2>1. PlacedAt(u) /\ at'[u] = at[u] /\ pc'[u] = pc[u] /\ line'[u] = line[u]
    BY DEF MemInductive, Placed, OnlyMoves
  <2>2. CASE at[u] \in {"ending", "ended"}
    <3>1. u[2] = "handler" /\ u = <<u[1], "handler">> /\ u[1] \in Device
      BY <2>1, <2>2 DEF PlacedAt, Thread
    <3>2. serving'[u[1]] = serving[u[1]] /\ jobIDMap'[u[1]] = jobIDMap[u[1]]
      BY <3>1 DEF OnlyMoves
    <3>3. PICK r \in Out : r = jobIDMap[u[1]][serving[u[1]].job]
      BY <2>2, <3>1, EndFacts
    <3>4. route'[r] = route[r]
      BY <3>3, Routed DEF MemInductive
    <3> QED
      BY <2>1, <2>2, <3>1, <3>2, <3>3, <3>4 DEF PlacedAt, Syncs
  <2>3. CASE at[u] \notin {"ending", "ended"}
    BY <2>1, <2>3 DEF PlacedAt
  <2> QED
    BY <2>2, <2>3
<1> QED
  BY <1>1 DEF Placed

(* A step of the thread that leaves it where it is.                        *)
LEMMA PlacedStill ==
  ASSUME MemInductive, NEW t \in Thread, Still, UNCHANGED <<at, returned>>,
         NEW phase, line' = [line EXCEPT ![t] = phase], at[t] \in Syncs => phase \in Request
  PROVE  Placed'
<1>1. UNCHANGED <<pc, serving, jobIDMap, route>>
  BY DEF Still, tables, network
<1>2. line'[t] = phase /\ \A u \in Thread \ {t} : line'[u] = line[u]
  BY DEF MemInductive, Sending
<1>3. OnlyMoves(t)
  BY <1>1, <1>2 DEF OnlyMoves
<1>4. PlacedAt(t)'
  BY <1>1, <1>2 DEF MemInductive, Placed, PlacedAt
<1> QED
  BY <1>1, <1>3, <1>4, PlacedFrom

(* A step that takes a thread elsewhere.                                   *)
LEMMA PlacedMoved ==
  ASSUME MemInductive, NEW t \in Thread, NEW there, at' = [at EXCEPT ![t] = there],
         \A u \in Thread \ {t} :
           /\ pc'[u] = pc[u] /\ line'[u] = line[u]
           /\ u[2] = "handler" => serving'[u[1]] = serving[u[1]] /\ jobIDMap'[u[1]] = jobIDMap[u[1]],
         at'[t] = there => PlacedAt(t)',
         DOMAIN returned \subseteq DOMAIN returned', \A r \in DOMAIN route : route'[r] = route[r]
  PROVE  Placed'
<1>1. at'[t] = there /\ \A u \in Thread \ {t} : at'[u] = at[u]
  BY DEF MemInductive, Remembers, Called
<1>2. OnlyMoves(t)
  BY <1>1 DEF OnlyMoves
<1> QED
  BY <1>1, <1>2, PlacedFrom

LEMMA CallPlaced ==
  ASSUME MemInductive, NEW t \in Thread, Call(t), UNCHANGED <<at, returned>>
  PROVE  Placed'
<1>1. Types /\ Sending /\ PlacedAt(t)
  BY DEF MemInductive, Inductive, Placed
<1>2. /\ UNCHANGED <<serving, jobIDMap, route>> /\ pc[t] \notin {"consumeFunctionArgs", "run"}
      /\ \E there : pc' = [pc EXCEPT ![t] = there]
      /\ \/ line' = line
         \/ line[t] \in {"off", "message"} /\ \E phase : line' = [line EXCEPT ![t] = phase]
  <2>1. CASE WriteHeader(t)
    <3>1. pc' = [pc EXCEPT ![t] = pc[t]]
      BY <1>1, <2>1 DEF WriteHeader, Types
    <3>2. line[t] = "off" /\ \E phase : line' = [line EXCEPT ![t] = phase]
      BY <2>1 DEF WriteHeader, Enter
    <3>3. UNCHANGED <<serving, jobIDMap, route>> /\ pc[t] = "sendQue"
      BY <2>1 DEF WriteHeader, tables, network
    <3> QED
      BY <3>1, <3>2, <3>3
  <2>2. CASE SendQue(t)
    <3>1. line[t] = "message" /\ \E phase : line' = [line EXCEPT ![t] = phase]
      BY <2>2 DEF SendQue, Move
    <3>2. UNCHANGED <<serving, jobIDMap, route>> /\ pc[t] = "sendQue"
      BY <2>2 DEF SendQue, tables, Goto
    <3>3. \E there : pc' = [pc EXCEPT ![t] = there]
      BY <2>2 DEF SendQue, Goto
    <3> QED
      BY <3>1, <3>2, <3>3
  <2>3. CASE ~ WriteHeader(t) /\ ~ SendQue(t)
    <3>1. \E there : pc' = [pc EXCEPT ![t] = there]
      BY <2>3 DEF Call, PushArgument, GetArgsOfRC, InsertConsumeWait, PushJob, PushFunction,
         PushArgs, ConsumeReturn, Goto
    <3>2. line' = line /\ UNCHANGED <<serving, jobIDMap, route>> /\ pc[t] \notin {"consumeFunctionArgs", "run"}
      BY <2>3 DEF Call, PushArgument, GetArgsOfRC, InsertConsumeWait, PushJob, PushFunction,
         PushArgs, ConsumeReturn, Goto, Push, wire, tables, network
    <3> QED
      BY <3>1, <3>2
  <2> QED
    BY <2>1, <2>2, <2>3
<1>3. OnlyMoves(t)
  BY <1>1, <1>2 DEF OnlyMoves, Types, Sending
<1>4. at[t] \notin {"entering", "ending", "ended"} /\ (at[t] \in Syncs => line' = line)
  BY <1>1, <1>2 DEF PlacedAt, Request
<1>5. PlacedAt(t)'
  BY <1>1, <1>4 DEF PlacedAt
<1> QED
  BY <1>2, <1>3, <1>5, PlacedFrom

LEMMA PlacedStep ==
  ASSUME MemInductive, [MemoryNext]_allVars
  PROVE  Placed'
<1>0. Types /\ Sending /\ Inductive /\ Placed
  BY DEF MemInductive, Inductive
<1>1. ASSUME NEW t \in Thread, BeginStore(t) \/ EndStore(t) PROVE Placed'
  <2>1. PICK there \in {"storing", "program"} : at' = [at EXCEPT ![t] = there]
    BY <1>1 DEF BeginStore, EndStore, MoveOn
  <2>2. UNCHANGED <<pc, line, serving, jobIDMap, route, returned>>
    BY <1>1 DEF BeginStore, EndStore, vars, history
  <2>3. at'[t] = there => PlacedAt(t)'
    BY DEF PlacedAt, Syncs
  <2> QED
    BY <2>1, <2>2, <2>3, PlacedMoved
<1>2. ASSUME NEW t \in Thread, Fault(t) PROVE Placed'
  <2>1. Still /\ UNCHANGED <<at, returned>> /\ line' = [line EXCEPT ![t] = "asking"]
    BY <1>2, StillSteps DEF Fault, AskHome, Enter, history
  <2> QED
    BY <2>1, PlacedStill DEF Request
<1>3. ASSUME NEW t \in Thread, NEW there, at' = [at EXCEPT ![t] = there], AskHome(t),
             UNCHANGED returned, there \in Syncs \ {"entering"},
             there = "ending" => t[2] = "handler" /\ serving[t[1]].job # Async
      PROVE  Placed'
  <2>1. UNCHANGED <<pc, serving, jobIDMap, route>> /\ pc[t] = "run"
    BY <1>3 DEF AskHome, tables, network
  <2>2. line'[t] = "asking" /\ \A u \in Thread \ {t} : line'[u] = line[u]
    BY <1>0, <1>3 DEF AskHome, Enter, Sending
  <2>3. at'[t] = there => PlacedAt(t)'
    BY <1>3, <2>1, <2>2 DEF PlacedAt, Syncs, Request
  <2> QED
    BY <1>3, <2>1, <2>2, <2>3, PlacedMoved
<1>4. ASSUME NEW t \in Thread, SyncBefore(t) \/ SyncAfter(t) PROVE Placed'
  <2>1. PICK there \in {"before", "after"} : at' = [at EXCEPT ![t] = there]
    BY <1>4 DEF SyncBefore, SyncAfter, MoveOn
  <2>2. AskHome(t) /\ UNCHANGED returned
    BY <1>4 DEF SyncBefore, SyncAfter, history
  <2> QED
    BY <1>3, <2>1, <2>2 DEF Syncs
<1>5. ASSUME NEW t \in Thread, SyncHandled(t) PROVE Placed'
  <2>1. PICK there \in {"synced", "program"} : at' = [at EXCEPT ![t] = there]
    BY <1>5 DEF SyncHandled, MoveOn
  <2>2. UNCHANGED <<pc, line, serving, jobIDMap, route, returned>>
    BY <1>5 DEF SyncHandled, HomeReplays, vars
  <2>3. at'[t] = there => PlacedAt(t)'
    BY DEF PlacedAt, Syncs
  <2> QED
    BY <2>1, <2>2, <2>3, PlacedMoved
<1>6. ASSUME NEW t \in Thread, Synced(t) PROVE Placed'
  <2>1. Still /\ UNCHANGED <<at, returned>> /\ line' = [line EXCEPT ![t] = "off"] /\ at[t] \notin Syncs
    BY <1>6, StillSteps DEF Synced, Home, HomeAnswers, Move, Unmoved, history, Syncs
  <2> QED
    BY <2>1, PlacedStill
<1>7. ASSUME NEW t \in Thread, NEW site \in Site, NEW fn \in Function,
             Generate(t, fn, site) \/ Asynchronous(t, fn, site)
      PROVE  Placed'
  <2>1. PICK there \in {"called", "program"} : at' = [at EXCEPT ![t] = there]
    <3>1. CASE Generate(t, fn, site)
      BY <3>1 DEF Generate, MoveOn
    <3>2. CASE Asynchronous(t, fn, site)
      BY <3>2 DEF Asynchronous, Unmoved, MemInductive, Remembers, Called
    <3> QED
      BY <1>7, <3>1, <3>2
  <2>2. /\ UNCHANGED <<line, serving, jobIDMap, route, returned>>
        /\ \E place : pc' = [pc EXCEPT ![t] = place]
    BY <1>7 DEF Generate, GenerateJobId, Asynchronous, AsyncCall, Goto, Unmoved, history, tables,
       network, wire
  <2>3. at'[t] = there => PlacedAt(t)'
    BY DEF PlacedAt, Syncs
  <2>4. \A u \in Thread \ {t} : pc'[u] = pc[u]
    BY <1>0, <2>2 DEF Types
  <2> QED
    BY <2>1, <2>2, <2>3, <2>4, PlacedMoved
<1>8. ASSUME NEW t \in Thread, RequestSent(t), UNCHANGED <<at, returned>> PROVE Placed'
  <2>1. Still /\ line' = [line EXCEPT ![t] = "waiting"]
    BY <1>8, StillSteps DEF Home, RequestSent, Move
  <2> QED
    BY <1>8, <2>1, PlacedStill DEF Request
<1>9. ASSUME UNCHANGED <<at, returned, pc, line, serving, jobIDMap>>,
             \A r \in DOMAIN route : route'[r] = route[r]
      PROVE  Placed'
  <2>1. \A t \in Thread : OnlyMoves(t)
    BY <1>9 DEF OnlyMoves
  <2>2. ASSUME NEW t \in Thread PROVE PlacedAt(t)'
    <3>1. PlacedAt(t)
      BY <1>0 DEF Placed
    <3>2. CASE at[t] = "ended"
      <4>1. t = <<t[1], "handler">> /\ t[1] \in Device
        BY <3>1, <3>2 DEF PlacedAt, Thread
      <4>2. PICK r \in Out : r = jobIDMap[t[1]][serving[t[1]].job]
        BY <3>2, <4>1, EndFacts
      <4>3. route'[r] = route[r]
        BY <1>0, <1>9, <4>2, Routed
      <4> QED
        BY <1>9, <3>1, <3>2, <4>2, <4>3 DEF PlacedAt, Syncs
    <3>3. CASE at[t] # "ended"
      BY <1>9, <3>1, <3>3 DEF PlacedAt
    <3> QED
      BY <3>2, <3>3
  <2> QED
    BY <2>2 DEF Placed
<1>10. ASSUME NEW d \in Device, Gateway(d) \/ Receiver(d), Unmoved PROVE Placed'
  <2>1. UNCHANGED <<at, returned, pc, line, serving, jobIDMap>>
    BY <1>10 DEF Gateway, Receiver, ForwardCall, ForwardReturn, ReceiveCall, ReceiveReturn,
       AnnounceReturn, Unmoved, history, tables, wire
  <2>2. \A r \in DOMAIN route : route'[r] = route[r]
    <3>1. CASE route' = route
      BY <3>1
    <3>2. CASE \E y : route' = Append(route, y)
      <4>1. PICK y : route' = Append(route, y)
        BY <3>2
      <4>2. route \in Seq(Device \X Int)
        BY <1>0 DEF Types
      <4> QED
        BY <4>1, <4>2, Appended
    <3> QED
      BY <1>10, <3>1, <3>2 DEF Gateway, Receiver, ForwardCall, ForwardReturn, ReceiveCall,
         ReceiveReturn, AnnounceReturn, network
  <2> QED
    BY <1>9, <2>1, <2>2
<1>11. ASSUME NEW d \in Device, NEW there, at' = [at EXCEPT ![<<d, "handler">>] = there],
              \E place : pc' = [pc EXCEPT ![<<d, "handler">>] = place],
              \E phase : line' = [line EXCEPT ![<<d, "handler">>] = phase],
              \A e \in Device \ {d} : serving'[e] = serving[e] /\ jobIDMap'[e] = jobIDMap[e],
              route' = route, DOMAIN returned \subseteq DOMAIN returned',
              at'[<<d, "handler">>] = there => PlacedAt(<<d, "handler">>)'
       PROVE  Placed'
  <2> DEFINE h == <<d, "handler">>
  <2>1. h \in Thread /\ \A u \in Thread \ {h} : u[2] = "handler" => u[1] \in Device \ {d}
    BY DEF Thread
  <2>2. \A u \in Thread \ {h} : pc'[u] = pc[u] /\ line'[u] = line[u]
    BY <1>0, <1>11 DEF Types, Sending
  <2>3. \A u \in Thread \ {h} :
          u[2] = "handler" => serving'[u[1]] = serving[u[1]] /\ jobIDMap'[u[1]] = jobIDMap[u[1]]
    BY <1>11, <2>1
  <2>4. /\ at' = [at EXCEPT ![h] = there] /\ (at'[h] = there => PlacedAt(h)')
        /\ \A r \in DOMAIN route : route'[r] = route[r]
        /\ DOMAIN returned \subseteq DOMAIN returned'
    BY <1>11
  <2>5. h \in Thread
    BY <2>1
  <2> HIDE DEF h
  <2>6. \A u \in Thread \ {h} :
          /\ pc'[u] = pc[u] /\ line'[u] = line[u]
          /\ u[2] = "handler" => serving'[u[1]] = serving[u[1]] /\ jobIDMap'[u[1]] = jobIDMap[u[1]]
    BY <2>2, <2>3
  <2> QED
    BY <2>4, <2>5, <2>6, PlacedMoved
<1>12. ASSUME NEW d \in Device, ConsumeFunctionArgs(d), Unmoved PROVE Placed'
  <2> DEFINE h == <<d, "handler">>
  <2>1. h \in Thread /\ PlacedAt(h)
    BY <1>0 DEF Placed, Thread
  <2>2. /\ line[h] = "off" /\ pc[h] = "consumeFunctionArgs" /\ pc' = [pc EXCEPT ![h] = "run"]
        /\ UNCHANGED <<at, returned, line, jobIDMap, route>>
    BY <1>12 DEF ConsumeFunctionArgs, Goto, Unmoved, history, network, wire
  <2>3. \A e \in Device \ {d} : serving'[e] = serving[e]
    BY <1>0, <1>12 DEF ConsumeFunctionArgs, Types
  <2>4. at[h] \notin Syncs \union {"ended"}
    BY <2>1, <2>2 DEF PlacedAt, Request
  <2>5. PlacedAt(h)'
    BY <2>2, <2>4 DEF PlacedAt, Syncs
  <2>6. /\ at' = [at EXCEPT ![h] = at[h]] /\ line' = [line EXCEPT ![h] = line[h]]
    BY <1>0, <2>1, <2>2 DEF Sending, MemInductive, Remembers, Called
  <2> QED
    BY <1>11, <2>2, <2>3, <2>5, <2>6
<1>13. ASSUME NEW d \in Device, Callback(d) PROVE Placed'
  <2> DEFINE h == <<d, "handler">>
  <2>1. h \in Thread
    BY DEF Thread
  <2>2. /\ at' = [at EXCEPT ![h] = "entering"] /\ pc' = [pc EXCEPT ![h] = "consumeFunctionArgs"]
        /\ line' = [line EXCEPT ![h] = "asking"] /\ UNCHANGED <<returned, route>>
    BY <1>13 DEF Callback, RemoteCallCallback, Goto, Enter, MoveOn, history
  <2>3. \A e \in Device \ {d} : serving'[e] = serving[e] /\ jobIDMap'[e] = jobIDMap[e]
    BY <1>0, <1>13 DEF Callback, RemoteCallCallback, Types, IsTable, Insert
  <2>4. pc'[h] = "consumeFunctionArgs" /\ line'[h] = "asking"
    BY <1>0, <2>1, <2>2 DEF Types, Sending
  <2>5. at'[h] = "entering" => PlacedAt(h)'
    BY <2>4 DEF PlacedAt, Request
  <2> QED
    BY <1>11, <2>2, <2>3, <2>5
<1>14. ASSUME NEW d \in Device, SyncEnd(d) PROVE Placed'
  <2>1. <<d, "handler">> \in Thread
    BY DEF Thread
  <2>2. /\ at' = [at EXCEPT ![<<d, "handler">>] = "ending"] /\ AskHome(<<d, "handler">>)
        /\ UNCHANGED returned /\ serving[d].job # Async
    BY <1>14 DEF SyncEnd, MoveOn, history
  <2> QED
    BY <1>3, <2>1, <2>2 DEF Syncs
<1>15. ASSUME NEW d \in Device, EndHandled(d) PROVE Placed'
  <2> DEFINE h == <<d, "handler">>
  <2>1. h \in Thread /\ PlacedAt(h)
    BY <1>0 DEF Placed, Thread
  <2>2. /\ at[h] = "ending" /\ at' = [at EXCEPT ![h] = "ended"]
        /\ UNCHANGED <<pc, line, serving, jobIDMap, route>>
    BY <1>15 DEF EndHandled, HomeReplays, MoveOn, vars
  <2>3. PICK r \in Out : r = jobIDMap[d][serving[d].job] /\ r = At(jobIDMap, d, serving[d].job)
    BY <2>2, EndFacts
  <2>4. PICK m : returned' = Noted(returned, route[r], m)
    BY <1>15, <2>3 DEF EndHandled
  <2>5. DOMAIN returned' = DOMAIN returned \union {route[r]}
    BY <2>4 DEF Noted
  <2>6. at'[h] = "ended" => PlacedAt(h)'
    BY <2>1, <2>2, <2>3, <2>5 DEF PlacedAt, Syncs
  <2>7. /\ pc' = [pc EXCEPT ![h] = pc[h]] /\ line' = [line EXCEPT ![h] = line[h]]
    BY <1>0, <2>2 DEF Types, Sending
  <2> QED
    BY <1>11, <2>2, <2>5, <2>6, <2>7
<1>16. ASSUME NEW d \in Device, Answer(d) PROVE Placed'
  <2>1. <<d, "handler">> \in Thread
    BY DEF Thread
  <2>2. /\ Still /\ UNCHANGED <<at, returned>> /\ at[<<d, "handler">>] \notin Syncs
        /\ \E phase : line' = [line EXCEPT ![<<d, "handler">>] = phase]
    BY <1>16, StillSteps DEF Answer, WriteReturnHeader, Enter, Unmoved, history, Syncs
  <2> QED
    BY <2>1, <2>2, PlacedStill
<1>17. ASSUME NEW d \in Device, Produce(d) \/ AsyncProduce(d) PROVE Placed'
  <2> DEFINE h == <<d, "handler">>
  <2>1. /\ at' = [at EXCEPT ![h] = "program"] /\ UNCHANGED <<returned, route>>
        /\ \E place : pc' = [pc EXCEPT ![h] = place]
        /\ \E phase : line' = [line EXCEPT ![h] = phase]
    <3>1. CASE Produce(d)
      BY <3>1 DEF Produce, ProduceReturn, Goto, Move, MoveOn, history
    <3>2. CASE AsyncProduce(d)
      <4>1. at' = at /\ at[h] = "program" /\ line' = line /\ UNCHANGED <<returned, route>>
            /\ \E place : pc' = [pc EXCEPT ![h] = place]
        BY <3>2 DEF AsyncProduce, AsyncReturn, Goto, Unmoved, history, network, wire
      <4>2. at' = [at EXCEPT ![h] = "program"] /\ line' = [line EXCEPT ![h] = line[h]]
        BY <1>0, <4>1 DEF Sending, MemInductive, Remembers, Called
      <4> QED
        BY <4>1, <4>2
    <3> QED
      BY <1>17, <3>1, <3>2
  <2>2. \A e \in Device \ {d} : serving'[e] = serving[e] /\ jobIDMap'[e] = jobIDMap[e]
    BY <1>0, <1>17 DEF Produce, ProduceReturn, AsyncProduce, AsyncReturn, tables, Types, IsTable, Erase
  <2>3. at'[h] = "program" => PlacedAt(h)'
    BY DEF PlacedAt, Syncs
  <2> QED
    BY <1>11, <2>1, <2>2, <2>3
<1>18. CASE UNCHANGED allVars
  BY <1>9, <1>18 DEF allVars, vars, history
<1>19. CASE MemoryNext
  <2>1. ASSUME NEW t \in Thread,
               \/ BeginStore(t) \/ EndStore(t) \/ Fault(t) \/ SyncBefore(t) \/ SyncAfter(t)
               \/ SyncHandled(t) \/ Synced(t)
               \/ \E site \in Site, fn \in Function : Generate(t, fn, site) \/ Asynchronous(t, fn, site)
               \/ (Call(t) \/ RequestSent(t)) /\ Unmoved
        PROVE  Placed'
    <3>1. Unmoved => UNCHANGED <<at, returned>>
      BY DEF Unmoved, history
    <3> QED
      BY <1>1, <1>2, <1>4, <1>5, <1>6, <1>7, <1>8, <2>1, <3>1, CallPlaced
  <2>2. ASSUME NEW d \in Device,
               \/ (Gateway(d) \/ Receiver(d) \/ ConsumeFunctionArgs(d)) /\ Unmoved
               \/ Callback(d) \/ SyncEnd(d) \/ EndHandled(d)
               \/ Answer(d) \/ Produce(d) \/ AsyncProduce(d)
        PROVE  Placed'
    BY <1>10, <1>12, <1>13, <1>14, <1>15, <1>16, <1>17, <2>2
  <2> QED
    BY <1>19, <2>1, <2>2, Zenon DEF MemoryNext, MemoryStep
<1> QED
  BY <1>18, <1>19

-----------------------------------------------------------------------------
(* The theorems.                                                           *)

LEMMA InitMemInductive == MemoryInit => MemInductive
<1> SUFFICES ASSUME MemoryInit PROVE MemInductive
  OBVIOUS
<1>1. Init /\ Inductive /\ Sending
  BY InitInductive DEF MemoryInit, Init, Sending
<1>2. Value \subseteq Int /\ 0 \in Value
  BY StoresAssumption DEF Value
<1>3. /\ mem = [d \in Device |-> 0] /\ pend = [d \in Device |-> << >>]
      /\ seen = [d \in Device |-> [e \in Device |-> {0}]]
  BY DEF MemoryInit, M!Init
<1>4. MemoryTypes
  BY <1>2, <1>3 DEF MemoryTypes
<1>5. Upward
  BY <1>3 DEF Upward
<1>6. /\ had = [t \in Thread |-> [d \in Device |-> {0}]] /\ sent = << >> /\ returned = << >>
      /\ at = [t \in Thread |-> "program"]
  BY DEF MemoryInit
<1>7. Views
  <2>1. DOMAIN sent = {} /\ DOMAIN returned = {}
    BY <1>6
  <2>2. \A t \in Thread : t[1] \in Device /\ \A e \in Device : had[t][e] = {0}
    BY <1>6 DEF Thread
  <2>3. \A d, e \in Device : mem[e] = 0 /\ Top(d, e) = 0
    BY <1>3 DEF Top
  <2> QED
    BY <1>2, <1>6, <2>1, <2>2, <2>3 DEF Views, NotNewer, NotAbove
<1>8. Called
  BY <1>1, <1>6 DEF Init, Called, Caller, Place
<1>9. Range(<< >>) = {}
  BY DEF Range
<1>10. \A d \in Device : \A j : ~ Done(d, j)
  BY <1>1 DEF Init, Done
<1>11. Answering
  BY <1>1, <1>9, <1>10 DEF Init, Answering
<1>12. SeesCaller /\ SeesCallee
  BY <1>1 DEF Init, SeesCaller, SeesCallee
<1>13. Placed
  BY <1>6 DEF Placed, PlacedAt, Syncs
<1> QED
  BY <1>1, <1>4, <1>5, <1>7, <1>8, <1>11, <1>12, <1>13 DEF MemInductive, Remembers

LEMMA RemembersStep ==
  ASSUME MemInductive, [MemoryNext]_allVars
  PROVE  MemoryTypes' /\ Upward' /\ Remembers'
<1> DEFINE Holds == MemoryTypes' /\ Upward' /\ Remembers'
<1>1. ASSUME UNCHANGED <<memory, at, history>>, Keeps, Answering' PROVE Holds
  BY <1>1, UnmovedKeeps DEF history
<1>2. ASSUME UNCHANGED <<memory, at, history>>, Still PROVE Holds
  BY <1>1, <1>2, StillKeeps DEF history
<1>3. ASSUME NEW t \in Thread, Fault(t) \/ Synced(t) PROVE Holds
  <2>1. UNCHANGED <<memory, at, history>> /\ Still
    BY <1>3, StillSteps DEF Fault, Synced, Home, Unmoved
  <2> QED
    BY <1>2, <2>1
<1>4. ASSUME NEW t \in Thread, NEW site \in Site, NEW fn \in Function, Asynchronous(t, fn, site) PROVE Holds
  <2>1. UNCHANGED <<memory, at, history>> /\ UNCHANGED returned /\ AsyncCall(t, fn, site)
    BY <1>4 DEF Asynchronous, Unmoved, history
  <2> QED
    BY <1>1, <2>1, AsyncCallKeeps
<1>5. ASSUME NEW t \in Thread, Call(t) \/ RequestSent(t), Unmoved PROVE Holds
  <2>1. UNCHANGED <<memory, at, history>> /\ UNCHANGED returned
    BY <1>5 DEF Unmoved, history
  <2>2. CASE WriteHeader(t) \/ RequestSent(t)
    BY <1>2, <2>1, <2>2, StillSteps DEF Home
  <2>3. CASE Call(t) /\ ~ WriteHeader(t)
    BY <1>1, <2>1, <2>3, CallKeeps, InsertConsumeWaitKeeps, SendQueKeeps, ConsumeReturnKeeps DEF Call
  <2> QED
    BY <1>5, <2>2, <2>3
<1>6. ASSUME NEW d \in Device, Gateway(d) \/ Receiver(d) \/ ConsumeFunctionArgs(d), Unmoved PROVE Holds
  <2>1. UNCHANGED <<memory, at, history>> /\ UNCHANGED returned
    BY <1>6 DEF Unmoved, history
  <2> QED
    BY <1>1, <1>6, <2>1, ForwardCallKeeps, ForwardReturnKeeps, ReceiveKeeps, AnnounceReturnKeeps,
       HandlerKeeps DEF Gateway, Receiver
<1>7. ASSUME NEW d \in Device, Answer(d) \/ AsyncProduce(d) PROVE Holds
  <2>1. UNCHANGED <<memory, at, history>> /\ UNCHANGED returned
    BY <1>7 DEF Answer, AsyncProduce, Unmoved, history
  <2>2. CASE Answer(d)
    BY <1>2, <2>1, <2>2, StillSteps DEF Answer
  <2>3. CASE AsyncProduce(d)
    BY <1>1, <2>1, <2>3, HandlerKeeps DEF AsyncProduce
  <2> QED
    BY <1>7, <2>2, <2>3
<1>8. CASE UNCHANGED allVars
  <2>1. UNCHANGED <<memory, at, history>> /\ Still
    BY <1>8, StillSteps DEF allVars
  <2> QED
    BY <1>2, <2>1
<1>9. CASE MemoryNext
  <2>1. ASSUME NEW t \in Thread,
               \/ BeginStore(t) \/ EndStore(t) \/ Fault(t) \/ SyncBefore(t) \/ SyncAfter(t)
               \/ SyncHandled(t) \/ Synced(t)
               \/ \E site \in Site, fn \in Function : Generate(t, fn, site) \/ Asynchronous(t, fn, site)
               \/ (Call(t) \/ RequestSent(t)) /\ Unmoved
        PROVE  Holds
    BY <1>3, <1>4, <1>5, <2>1, StoreKeeps, SyncBeginsKeeps, SyncHandledKeeps, GenerateKeeps
  <2>2. ASSUME NEW d \in Device,
               \/ (Gateway(d) \/ Receiver(d) \/ ConsumeFunctionArgs(d)) /\ Unmoved
               \/ Callback(d) \/ SyncEnd(d) \/ EndHandled(d)
               \/ Answer(d) \/ Produce(d) \/ AsyncProduce(d)
        PROVE  Holds
    BY <1>6, <1>7, <2>2, CallbackKeeps, SyncEndKeeps, EndHandledKeeps, ProduceKeeps
  <2> HIDE DEF Holds
  <2>3. Holds
    BY <1>9, <2>1, <2>2, Zenon DEF MemoryNext, MemoryStep
  <2> QED
    BY <2>3 DEF Holds
<1> QED
  BY <1>8, <1>9

(* With the stores and the syncs the remote calls are those of RemoteCall. *)
THEOREM CallsAsBefore == MemorySpec => Spec
<1>1. MemoryInit => Init
  BY DEF MemoryInit
<1>2. [MemoryNext]_allVars => [Next]_vars
  <2> SUFFICES ASSUME [MemoryNext]_allVars PROVE [~crossed /\ Step]_vars
    BY DEF Next
  <2> DEFINE Same == Step \/ UNCHANGED vars
  <2>1. ASSUME NEW t \in Thread,
               \/ BeginStore(t) \/ EndStore(t) \/ Fault(t) \/ SyncBefore(t) \/ SyncAfter(t)
               \/ SyncHandled(t) \/ Synced(t)
               \/ \E site \in Site, fn \in Function : Generate(t, fn, site) \/ Asynchronous(t, fn, site)
               \/ (Call(t) \/ RequestSent(t)) /\ Unmoved
        PROVE  Same
    <3>1. BeginStore(t) \/ EndStore(t) \/ SyncHandled(t) => UNCHANGED vars
      BY DEF BeginStore, EndStore, SyncHandled, HomeReplays
    <3>2. Fault(t) \/ SyncBefore(t) \/ SyncAfter(t) => Step
      BY DEF Fault, SyncBefore, SyncAfter, Step
    <3>3. Synced(t) \/ Call(t) \/ RequestSent(t) => Step
      BY DEF Synced, Home, Step
    <3>4. (\E site \in Site, fn \in Function : Generate(t, fn, site) \/ Asynchronous(t, fn, site)) => Step
      BY DEF Generate, Asynchronous, Step
    <3> QED
      BY <2>1, <3>1, <3>2, <3>3, <3>4
  <2>2. ASSUME NEW d \in Device,
               \/ (Gateway(d) \/ Receiver(d) \/ ConsumeFunctionArgs(d)) /\ Unmoved
               \/ Callback(d) \/ SyncEnd(d) \/ EndHandled(d)
               \/ Answer(d) \/ Produce(d) \/ AsyncProduce(d)
        PROVE  Same
    <3>1. EndHandled(d) => UNCHANGED vars
      BY DEF EndHandled, HomeReplays
    <3>2. SyncEnd(d) => Step
      <4>1. <<d, "handler">> \in Thread
        BY DEF Thread
      <4> QED
        BY <4>1 DEF SyncEnd, Step
    <3>3. Gateway(d) \/ Receiver(d) \/ ConsumeFunctionArgs(d) \/ Callback(d) => Step
      BY DEF Callback, Handler, Step
    <3>4. Answer(d) \/ Produce(d) \/ AsyncProduce(d) => Step
      BY DEF Answer, Produce, AsyncProduce, Handler, Ends, Step
    <3> QED
      BY <2>2, <3>1, <3>2, <3>3, <3>4
  <2>3. CASE UNCHANGED allVars
    BY <2>3 DEF allVars
  <2>4. CASE MemoryNext
    <3>1. Same
      <4> HIDE DEF Same
      <4> QED
        BY <2>1, <2>2, <2>4, Zenon DEF MemoryNext, MemoryStep
    <3> QED
      BY <2>4, <3>1 DEF MemoryNext
  <2> QED
    BY <2>3, <2>4
<1> QED
  BY <1>1, <1>2, PTL DEF MemorySpec, Spec

(* And the memory behind them is used as the runtime promises it: every    *)
(* step logs a store of one device, has the home replay the stores of one, *)
(* or leaves it.                                                           *)
THEOREM MemoryAsPromised == MemorySpec => M!Spec
<1>1. MemoryInit => M!Init
  BY DEF MemoryInit
<1>2. [MemoryNext]_allVars => [M!Next]_(M!vars)
  <2> SUFFICES ASSUME [MemoryNext]_allVars PROVE M!Next \/ UNCHANGED memory
    BY DEF memory, M!vars
  <2> DEFINE Promised == M!Next \/ UNCHANGED memory
  <2>1. ASSUME NEW t \in Thread, EndStore(t) PROVE M!Next
    <3>1. PICK v \in 1 .. MaxStores : M!Store(t[1], {t[1]}, v)
      BY <2>1 DEF EndStore
    <3>2. t[1] \in Device /\ v \in 0 .. MaxStores
      BY StoresAssumption DEF Thread
    <3>3. {t[1]} \in {{d} : d \in Device}
      BY <3>2
    <3> QED
      BY <3>1, <3>2, <3>3 DEF M!Next
  <2>2. ASSUME NEW d \in Device, M!Publish(d) PROVE M!Next
    BY <2>2 DEF M!Next
  <2>3. ASSUME NEW t \in Thread,
               \/ BeginStore(t) \/ EndStore(t) \/ Fault(t) \/ SyncBefore(t) \/ SyncAfter(t)
               \/ SyncHandled(t) \/ Synced(t)
               \/ \E site \in Site, fn \in Function : Generate(t, fn, site) \/ Asynchronous(t, fn, site)
               \/ (Call(t) \/ RequestSent(t)) /\ Unmoved
        PROVE  Promised
    <3>1. SyncHandled(t) => M!Next
      <4>1. t[1] \in Device
        BY DEF Thread
      <4> QED
        BY <2>2, <4>1 DEF SyncHandled, HomeReplays
    <3>2. BeginStore(t) \/ Fault(t) \/ SyncBefore(t) \/ SyncAfter(t) \/ Synced(t) \/ Unmoved => UNCHANGED memory
      BY DEF BeginStore, Fault, SyncBefore, SyncAfter, Synced, Unmoved
    <3>3. (\E site \in Site, fn \in Function : Generate(t, fn, site) \/ Asynchronous(t, fn, site))
            => UNCHANGED memory
      BY DEF Generate, Asynchronous, Unmoved
    <3> QED
      BY <2>1, <2>3, <3>1, <3>2, <3>3
  <2>4. ASSUME NEW d \in Device,
               \/ (Gateway(d) \/ Receiver(d) \/ ConsumeFunctionArgs(d)) /\ Unmoved
               \/ Callback(d) \/ SyncEnd(d) \/ EndHandled(d)
               \/ Answer(d) \/ Produce(d) \/ AsyncProduce(d)
        PROVE  Promised
    <3>1. EndHandled(d) => M!Next
      BY <2>2 DEF EndHandled, HomeReplays
    <3>2. Unmoved \/ Callback(d) \/ SyncEnd(d) \/ Answer(d) \/ Produce(d) \/ AsyncProduce(d)
            => UNCHANGED memory
      BY DEF Unmoved, Callback, SyncEnd, Answer, Produce, AsyncProduce
    <3> QED
      BY <2>4, <3>1, <3>2
  <2>5. CASE UNCHANGED allVars
    BY <2>5 DEF allVars
  <2>6. CASE MemoryNext
    <3> HIDE DEF Promised
    <3>1. Promised
      BY <2>3, <2>4, <2>6, Zenon DEF MemoryNext, MemoryStep
    <3> QED
      BY <3>1 DEF Promised
  <2> QED
    BY <2>5, <2>6
<1> QED
  BY <1>1, <1>2, PTL DEF MemorySpec, M!Spec

(* What a device leaves in the memory at a sync is not below what its      *)
(* threads could read when they asked for it, in every state.              *)
THEOREM MemoryInvariance == MemorySpec => []MemInductive
<1>1. MemoryInit => MemInductive
  BY InitMemInductive
<1>2. MemInductive /\ [MemoryNext]_allVars => MemoryTypes' /\ Upward' /\ Remembers' /\ Placed'
  BY RemembersStep, PlacedStep
<1>3. MemInductive <=> Inductive /\ Sending /\ MemoryTypes /\ Upward /\ Remembers /\ Placed
  BY DEF MemInductive
<1>4. MemorySpec => [](Inductive /\ Sending)
  BY CallsAsBefore, Invariance, PTL
<1> QED
  BY <1>1, <1>2, <1>3, <1>4, PTL DEF MemorySpec

(* Until threads of its device cross or race, a function executed for a    *)
(* call reads, while no thread there waits for the home, nothing older     *)
(* than what its caller could read when it began the uva_sync before.      *)
THEOREM CalleeSeesHolds == MemorySpec => []CalleeSees
<1>1. MemInductive => CalleeSees
  <2> SUFFICES ASSUME MemInductive, NEW d \in Device, pc[<<d, "handler">>] = "run",
                      serving[d].job # Async, NEW e \in Device, NEW v \in Visible(d, e),
                      NEW w \in sent[route[At(jobIDMap, d, serving[d].job)]][e]
               PROVE  v >= w
    BY DEF CalleeSees
  <2>1. Inductive /\ Phases /\ SeesCaller
    BY DEF MemInductive, Remembers, Inductive
  <2>2. serving[d] # None
    BY <2>1 DEF Phases
  <2>3. At(jobIDMap, d, serving[d].job) = jobIDMap[d][serving[d].job]
    BY <2>1, <2>2, ServingFacts DEF At
  <2>4. at[<<d, "handler">>] # "entering"
    <3>1. <<d, "handler">> \in Thread
      BY DEF Thread
    <3> QED
      BY <3>1 DEF MemInductive, Placed, PlacedAt
  <2> QED
    BY <2>1, <2>2, <2>3, <2>4 DEF SeesCaller
<1> QED
  BY <1>1, MemoryInvariance, PTL

(* Until then, a caller that has been answered and has synchronised reads  *)
(* nothing older than the memory was at the sync that ended the function.  *)
THEOREM CallerSeesHolds == MemorySpec => []CallerSees
<1>1. MemInductive => CallerSees
  BY DEF MemInductive, Remembers, SeesCallee, CallerSees
<1> QED
  BY <1>1, MemoryInvariance, PTL
=============================================================================
