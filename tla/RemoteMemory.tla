---------------------------- MODULE RemoteMemory ----------------------------
(***************************************************************************)
(* Remote calls of programs that share memory: RemoteCall composed with    *)
(* LazyMemory, by the calls of uva_sync that the compiler puts around a    *)
(* remote call (lib/Esperanto/RemoteCall.cpp) and the runtime into         *)
(* remotecall_callback and produceReturn.                                  *)
(*                                                                         *)
(* The threads of a device share its copy of the memory and its store log, *)
(* without a lock.  A call of uva_sync is a request to the home in steps:  *)
(* the device sends the stores of its log, the home replays them, and from *)
(* the answer the device learns which of its pages are out of date.  While *)
(* a thread is between these, the others of its device may read anything   *)
(* from a page that is out of date or being fetched: of what they read     *)
(* then nothing is claimed.  A store they log then, or while another store *)
(* is being logged, may be lost: raced says that it may, and the model     *)
(* ends, as it does when threads cross on the socket.                      *)
(***************************************************************************)
EXTENDS RemoteCall

CONSTANT MaxStores   \* stores of a device (bound)

ASSUME StoresAssumption == MaxStores \in Nat

VARIABLES
  mem, pend, seen,   \* the memory, and what each device makes of it
  at,                \* where a thread is with a store or the syncs of a call
  raced,             \* history: a store met a store or a request
  had,               \* history: what a thread could read when it last
                     \* called uva_sync before a call
  sent,              \* history: the same, for each call
  returned           \* history: memory at the sync that ends each call

memory == <<mem, pend, seen>>
history == <<had, sent, returned>>
allVars == <<vars, memory, at, raced, history>>

(* A device stores to its own word, each time a larger value. *)
M == INSTANCE LazyMemory WITH
  Client <- Device, Addr <- Device, Val <- 0 .. MaxStores, Zero <- 0,
  Extent <- {{d} : d \in Device}, Nothing <- None, obs <- None

MemoryInit ==
  /\ Init
  /\ M!Init
  /\ at = [t \in Thread |-> "program"]
  /\ raced = FALSE
  /\ had = [t \in Thread |-> [d \in Device |-> {0}]]
  /\ sent = << >>
  /\ returned = << >>

MoveOn(t, from, to) == at[t] = from /\ at' = [at EXCEPT ![t] = to]
Unmoved == UNCHANGED <<memory, at, raced, history>>

Storing == {u \in Thread : at[u] = "storing"}
Asking == {u \in Thread : line[u] \in Request}
Meets(t, others) == raced' = \E u \in others : u[1] = t[1] /\ u # t

(* A history with an entry for one more call. *)
Noted(notes, key, value) ==
  [k \in DOMAIN notes \union {key} |-> IF k = key THEN value ELSE notes[k]]

-----------------------------------------------------------------------------

(* What d reads of the word of e may be any of these. *)
Visible(d, e) ==
  IF e \in M!Written(pend[d]) THEN {M!LastOf(pend[d], e)} ELSE seen[d][e]

(* A store of the program, or of a function a device executes: it begins,  *)
(* and it is in memory and in the log.                                     *)
BeginStore(t) ==
  /\ pc[t] = "run" /\ line[t] = "off"
  /\ MoveOn(t, "program", "storing")
  /\ \E v \in 1 .. MaxStores : Visible(t[1], t[1]) = {v - 1}
  /\ Meets(t, Storing \union Asking)
  /\ UNCHANGED <<vars, memory, history>>

EndStore(t) ==
  LET d == t[1] IN
  /\ MoveOn(t, "storing", "program")
  /\ \E v \in 1 .. MaxStores : Visible(d, d) = {v - 1} /\ M!Store(d, {d}, v)
  /\ UNCHANGED <<vars, raced, history>>

(* Any other request to the home: a fault, malloc. *)
Fault(t) ==
  /\ AskHome(t)
  /\ at[t] = "program"
  /\ Meets(t, Storing)
  /\ UNCHANGED <<memory, at, history>>

(* uva_sync begins: before a call, after it, and where a function ends.    *)
SyncBefore(t) ==
  /\ AskHome(t)
  /\ MoveOn(t, "program", "before")
  /\ Meets(t, Storing)
  /\ had' = [had EXCEPT ![t] = [e \in Device |-> Visible(t[1], e)]]
  /\ UNCHANGED <<memory, sent, returned>>

(* A call without the uva_sync after it. *)
SyncAfterNot(t) ==
  /\ pc[t] = "run" /\ line[t] = "off"
  /\ MoveOn(t, "called", "program")
  /\ UNCHANGED <<vars, memory, raced, history>>

SyncAfter(t) ==
  /\ AskHome(t)
  /\ MoveOn(t, "called", "after")
  /\ Meets(t, Storing)
  /\ UNCHANGED <<memory, history>>

SyncEnd(d) ==
  /\ AskHome(<<d, "handler">>)
  /\ serving[d].job # Async
  /\ MoveOn(<<d, "handler">>, "program", "ending")
  /\ Meets(<<d, "handler">>, Storing)
  /\ UNCHANGED <<memory, history>>

(* A callback that does not synchronise. *)
CallbackNoSync(d) ==
  /\ RemoteCallCallback(d)
  /\ Meets(<<d, "handler">>, Storing)
  /\ UNCHANGED <<memory, at, history>>

(* remotecall_callback, async_remotecall_callback: uva_sync begins.        *)
Callback(d) ==
  /\ RemoteCallCallback(d)
  /\ MoveOn(<<d, "handler">>, "program", "entering")
  /\ Meets(<<d, "handler">>, Storing)
  /\ UNCHANGED <<memory, history>>

(* The home replays the stores of a device. *)
HomeReplays(t) ==
  /\ line[t] = "waiting"
  /\ M!Publish(t[1])
  /\ UNCHANGED <<vars, raced, had, sent>>

SyncHandled(t) ==
  /\ \/ MoveOn(t, "before", "synced")
     \/ MoveOn(t, "after", "program")
     \/ MoveOn(t, "entering", "program")
  /\ HomeReplays(t)
  /\ UNCHANGED returned

EndHandled(d) ==
  /\ MoveOn(<<d, "handler">>, "ending", "ended")
  /\ HomeReplays(<<d, "handler">>)
  /\ returned' = Noted(returned, route[At(jobIDMap, d, serving[d].job)], mem')

Synced(t) ==
  /\ HomeAnswers(t)
  /\ at[t] \notin {"before", "after", "entering", "ending"}
  /\ Unmoved

(* The calls themselves.  There is no uva_sync around an asynchronous one. *)
Generate(t, fn, site) ==
  /\ GenerateJobId(t, fn, site)
  /\ MoveOn(t, "synced", "called")
  /\ sent' = Noted(sent, <<t[1], jobID[t[1]]>>, had[t])
  /\ UNCHANGED <<memory, raced, had, returned>>

Asynchronous(t, fn, site) ==
  /\ AsyncCall(t, fn, site)
  /\ at[t] = "program"
  /\ Unmoved

(* produceReturn: the answer, after uva_sync. *)
Answer(d) ==
  /\ WriteReturnHeader(d)
  /\ at[<<d, "handler">>] = "ended"
  /\ Unmoved

Produce(d) ==
  /\ ProduceReturn(d)
  /\ MoveOn(<<d, "handler">>, "ended", "program")
  /\ UNCHANGED <<memory, raced, history>>

AsyncProduce(d) ==
  /\ AsyncReturn(d)
  /\ at[<<d, "handler">>] = "program"
  /\ Unmoved

MemoryStep ==
  \/ \E t \in Thread :
       \/ BeginStore(t) \/ EndStore(t) \/ Fault(t) \/ SyncBefore(t) \/ SyncAfter(t)
       \/ SyncHandled(t) \/ Synced(t)
       \/ \E site \in Site, fn \in Function :
            Generate(t, fn, site) \/ Asynchronous(t, fn, site)
       \/ (Call(t) \/ RequestSent(t)) /\ Unmoved
  \/ \E d \in Device :
       \/ (Gateway(d) \/ Receiver(d) \/ ConsumeFunctionArgs(d)) /\ Unmoved
       \/ Callback(d) \/ SyncEnd(d) \/ EndHandled(d)
       \/ Answer(d) \/ Produce(d) \/ AsyncProduce(d)

MemoryNext == ~crossed /\ ~raced /\ MemoryStep

MemorySpec == MemoryInit /\ [][MemoryNext]_allVars

-----------------------------------------------------------------------------
(* Properties. *)

(* Both are claimed until threads of a device cross or race, of what is    *)
(* read while none of them is waiting for the home.                        *)
Settled(d) == ~crossed /\ ~raced /\ \A t \in Asking : t[1] # d

NotOlder(d, memoryThen) ==
  \A e \in Device : \A v \in Visible(d, e) : v >= memoryThen[e]

(* A function executed for a synchronous call reads nothing older than     *)
(* what the caller could read when it called uva_sync before the call, its *)
(* own stores included, over any chain of calls.  A store that another     *)
(* thread of the caller's device makes between that sync and the call is   *)
(* in no sync the callee waits for.                                        *)
CalleeSees ==
  \A d \in Device :
    (Settled(d) /\ pc[<<d, "handler">>] = "run" /\ serving[d].job # Async) =>
      LET view == sent[route[At(jobIDMap, d, serving[d].job)]]
      IN  \A e \in Device : \A v \in Visible(d, e), w \in view[e] : v >= w

(* Once a call has returned the caller reads nothing older than what the   *)
(* memory was when the function ended.                                     *)
CallerSees ==
  \A t \in Thread :
    (Settled(t[1]) /\ got[t] # None /\ at[t] \notin {"called", "after"}) =>
      NotOlder(t[1], returned[got[t].call])
=============================================================================
