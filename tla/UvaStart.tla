------------------------------ MODULE UvaStart ------------------------------
(***************************************************************************)
(* How the devices of a program start together (tools/uva/client.cpp,      *)
(* server.cpp).  One of them, the initialiser, writes the initial values   *)
(* of the shared globals; the others wait for the home's permission.       *)
(* Then every device constructs its object, stores the address in the      *)
(* global that stands for it, and waits in waiter() until every such       *)
(* global is set.                                                          *)
(*                                                                         *)
(* The globals are the shared memory of module LazyMemory, which module    *)
(* Hlrc shows the protocol to implement: a uva_sync is one Publish.  The   *)
(* home takes requests from a queue in the order they arrive.              *)
(***************************************************************************)
EXTENDS Integers, Sequences, FiniteSets

CONSTANTS NumDevices,   \* devices, and globals: each device owns one
          Initialiser   \* the device run with isGVInitializer

Device == 1 .. NumDevices

ASSUME DeviceAssumption == NumDevices \in Nat /\ Initialiser \in Device

VARIABLES
  mem, pend, seen, obs,   \* the memory
  isInitEnd,              \* the initialiser is done
  RuntimeClientConnTb,    \* devices the home knows
  jobQue,                 \* requests the home has not handled
  answers,                \* answers[d]: words on d's blocking socket
  pc,                     \* what d does next
  next,                   \* next[d]: the global waiter() looks at
  gv                      \* gv[d]: what it read there

vars == <<mem, pend, seen, obs, isInitEnd, RuntimeClientConnTb, jobQue,
          answers, pc, next, gv>>
memory == <<mem, pend, seen, obs>>
homeVars == <<isInitEnd, RuntimeClientConnTb, jobQue>>
waiterVars == <<next, gv>>

Null == 0
Object == 1

Globals == INSTANCE LazyMemory WITH
  Client <- Device, Addr <- Device, Val <- {Null, Object}, Zero <- Null,
  Extent <- {Device} \union {{d} : d \in Device}, Nothing <- << >>

Init ==
  /\ Globals!Init
  /\ isInitEnd = FALSE
  /\ RuntimeClientConnTb = << >>
  /\ jobQue = << >>
  /\ answers = [d \in Device |-> << >>]
  /\ pc = [d \in Device |-> IF d = Initialiser THEN "initialise" ELSE "newface"]
  /\ next = [d \in Device |-> 1]
  /\ gv = [d \in Device |-> Null]

Goto(d, here, there) == pc[d] = here /\ pc' = [pc EXCEPT ![d] = there]

-----------------------------------------------------------------------------
(* UVAClientInitializer. *)

(* pushWord; sendQue. *)
Request(d, op) ==
  /\ jobQue' = Append(jobQue, <<d, op>>)
  /\ UNCHANGED <<memory, isInitEnd, RuntimeClientConnTb, answers, waiterVars>>

(* receiveQue; takeWord. *)
TakeWord(d) ==
  /\ answers[d] # << >>
  /\ answers' = [answers EXCEPT ![d] = Tail(@)]
  /\ UNCHANGED <<memory, homeVars, waiterVars>>

Newface(d) == Goto(d, "newface", "permission") /\ Request(d, "newface")

Permission(d) == Goto(d, "permission", "construct") /\ TakeWord(d)

(* __fixed_global_initializer__: the initial value of every global. *)
Initialise(d) ==
  /\ Goto(d, "initialise", "publish")
  /\ Globals!Store(d, Device, Null)
  /\ UNCHANGED <<homeVars, answers, waiterVars>>

(* uva_sync. *)
PublishGlobals(d) ==
  /\ Goto(d, "publish", "complete")
  /\ Globals!Publish(d)
  /\ UNCHANGED <<homeVars, answers, waiterVars>>

(* sendInitCompleteSignal. *)
InitComplete(d) == Goto(d, "complete", "ack") /\ Request(d, "complete")

CompleteAck(d) == Goto(d, "ack", "construct") /\ TakeWord(d)

-----------------------------------------------------------------------------
(* The device's own part of the program, and waiter(). *)

(* The constructor has run; its result is stored in the global of d. *)
Construct(d) ==
  /\ Goto(d, "construct", "waiter")
  /\ Globals!Store(d, {d}, Object)
  /\ UNCHANGED <<homeVars, answers, waiterVars>>

(* A waiter that relies on the syncs of its loop. *)
EnterWaiterNoSync(d) ==
  /\ Goto(d, "waiter", "look")
  /\ UNCHANGED <<memory, homeVars, answers, waiterVars>>

(* uva_sync() at the top. *)
EnterWaiter(d) ==
  /\ Goto(d, "waiter", "look")
  /\ Globals!Publish(d)
  /\ UNCHANGED <<homeVars, answers, waiterVars>>

(* gv = **stackAddr, which may have to fetch the page. *)
Look(d) ==
  /\ pc[d] \in {"look", "again"}
  /\ Globals!Load(d, next[d])
  /\ gv' = [gv EXCEPT ![d] = obs'[3]]
  /\ pc' = [pc EXCEPT ![d] = IF @ = "again" THEN "sync" ELSE "test"]
  /\ UNCHANGED <<homeVars, answers, next>>

(* uva_sync() in the loop. *)
SyncAgain(d) ==
  /\ Goto(d, "sync", "test")
  /\ Globals!Publish(d)
  /\ UNCHANGED <<homeVars, answers, waiterVars>>

(* while (!gv). *)
TestNull(d) ==
  /\ Goto(d, "test", "again")
  /\ gv[d] = Null
  /\ UNCHANGED <<memory, homeVars, answers, waiterVars>>

(* A waiter that steps past the last global. *)
TestSetPastEnd(d) ==
  /\ Goto(d, "test", IF next[d] = NumDevices THEN "run" ELSE "look")
  /\ gv[d] # Null
  /\ next' = [next EXCEPT ![d] = @ + 1]
  /\ UNCHANGED <<memory, homeVars, answers, gv>>

(* The next global, or out of the waiter. *)
TestSet(d) ==
  /\ Goto(d, "test", IF next[d] = NumDevices THEN "run" ELSE "look")
  /\ gv[d] # Null
  /\ next' = [next EXCEPT ![d] = IF @ = NumDevices THEN @ ELSE @ + 1]
  /\ UNCHANGED <<memory, homeVars, answers, gv>>

(* A page of globals the device does not hold is fetched: the SIGSEGV      *)
(* handler, at any time its program runs.                                  *)
Fetch(d) ==
  /\ pc[d] \in {"look", "again"}
  /\ Globals!Refresh(d, Device)
  /\ UNCHANGED <<homeVars, answers, pc, waiterVars>>

-----------------------------------------------------------------------------
(* The home. *)

Take(d, op) ==
  /\ jobQue # << >>
  /\ Head(jobQue) = <<d, op>>
  /\ jobQue' = Tail(jobQue)
  /\ UNCHANGED <<memory, pc, waiterVars>>

(* A newfaceHandler that lets everyone start. *)
NewfaceHandlerAlways(d) ==
  /\ Take(d, "newface")
  /\ RuntimeClientConnTb' = Append(RuntimeClientConnTb, d)
  /\ answers' = [answers EXCEPT ![d] = Append(@, 1)]
  /\ UNCHANGED isInitEnd

(* newfaceHandler: who comes late may start at once. *)
NewfaceHandler(d) ==
  /\ Take(d, "newface")
  /\ RuntimeClientConnTb' = Append(RuntimeClientConnTb, d)
  /\ answers' = [answers EXCEPT ![d] = IF isInitEnd THEN Append(@, 1) ELSE @]
  /\ UNCHANGED isInitEnd

(* A globalInitCompleteHandler that lets nobody start. *)
GlobalInitCompleteHandlerSilent(d) ==
  /\ Take(d, "complete")
  /\ ~isInitEnd
  /\ isInitEnd' = TRUE
  /\ RuntimeClientConnTb' = Append(RuntimeClientConnTb, d)
  /\ answers' = [answers EXCEPT ![d] = Append(@, 1)]

(* globalInitCompleteHandler: permission for all that wait, then the ack. *)
GlobalInitCompleteHandler(d) ==
  /\ Take(d, "complete")
  /\ ~isInitEnd
  /\ isInitEnd' = TRUE
  /\ RuntimeClientConnTb' = Append(RuntimeClientConnTb, d)
  /\ answers' = [e \in Device |->
       IF \E i \in DOMAIN RuntimeClientConnTb' : RuntimeClientConnTb'[i] = e
       THEN Append(answers[e], 1) ELSE answers[e]]

-----------------------------------------------------------------------------
(* The specification. *)

Run(d) ==
  \/ Newface(d) \/ Permission(d)
  \/ Initialise(d) \/ PublishGlobals(d) \/ InitComplete(d) \/ CompleteAck(d)
  \/ Construct(d) \/ EnterWaiter(d)
  \/ Look(d) \/ SyncAgain(d) \/ TestNull(d) \/ TestSet(d)

Home == \E d \in Device : NewfaceHandler(d) \/ GlobalInitCompleteHandler(d)

Next == Home \/ \E d \in Device : Run(d) \/ Fetch(d)

(* Devices and the home's handler thread run. *)
Fairness == WF_vars(Home) /\ \A d \in Device : WF_vars(Run(d))

Spec == Init /\ [][Next]_vars
FairSpec == Spec /\ Fairness

-----------------------------------------------------------------------------
(* Properties. *)

TypeOK ==
  /\ isInitEnd \in BOOLEAN
  /\ RuntimeClientConnTb \in Seq(Device)
  /\ jobQue \in Seq(Device \X {"newface", "complete"})
  /\ answers \in [Device -> Seq({1})]
  /\ pc \in [Device -> {"newface", "permission", "initialise", "publish",
                        "complete", "ack", "construct", "waiter", "look",
                        "again", "sync", "test", "run"}]
  /\ next \in [Device -> Device]
  /\ gv \in [Device -> {Null, Object}]

(* The home says one thing to a device, once, and while it listens: an     *)
(* answer left on the blocking socket would be taken for the next one.     *)
OneAnswer ==
  \A d \in Device :
    /\ Len(answers[d]) <= 1
    /\ answers[d] # << >> => pc[d] \in {"permission", "ack"}

(* The initial values never overwrite an object that has been stored.      *)
KeepsObjects ==
  [][\A d \in Device : mem[d] = Object => mem'[d] = Object]_vars

(* Who leaves the waiter does so after every device has constructed its    *)
(* object and made it visible to all.                                      *)
Barrier ==
  \A d \in Device : pc[d] = "run" =>
    \A e \in Device : mem[e] = Object /\ pc[e] \in {"look", "again", "sync", "test", "run"}

(* Every device gets through the start.                                    *)
EveryoneRuns == \A d \in Device : <>[](pc[d] = "run")
=============================================================================
