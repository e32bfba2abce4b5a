----------------------------- MODULE RemoteCall -----------------------------
(***************************************************************************)
(* Remote function calls of the Esperanto runtime                          *)
(* (tools/esperanto/esperanto_runtime.cpp, deviceRuntimeManager.cpp).      *)
(*                                                                         *)
(* A device has the thread of its own program ("main"), the handler thread *)
(* of its CommManager, which runs the functions other devices call, and    *)
(* the receiver thread, which runs return_value_callback itself.  They     *)
(* share the tables of the DeviceRuntimeManager, one lock per table, and   *)
(* the send queues of the CommManager, without a lock.  All messages go    *)
(* through the gateway, which passes a call on under a number of its own   *)
(* and the answer back under the caller's.  The gateway of this runtime is *)
(* not in the repository; one of an earlier runtime, which does the same   *)
(* with its jobMap, is kept in tools/esperanto/backup_gateway.             *)
(*                                                                         *)
(* A step is one critical section, or several of which all but one touch   *)
(* entries no other thread knows yet.                                      *)
(*                                                                         *)
(* The gateway is the home of the shared memory, and the threads of a      *)
(* device write to it on one socket, without a lock: sendQue writes the    *)
(* header and the data of a message one after the other.  A request to the *)
(* home (uva_sync, a fault, malloc) is such a message too, and its answer  *)
(* comes on a second socket, which any thread that waits may read.  What   *)
(* arrives when two threads get in each other's way there is not followed: *)
(* crossed says that they may have, and the model ends.  ClientThreads     *)
(* looks into it for requests to the home.                                 *)
(*                                                                         *)
(* Arguments and results are words of four bytes.  How many of them a type *)
(* takes is decided where a program is compiled: for the caller in         *)
(* lib/Esperanto/RemoteCall.cpp, for the callee in SwitchCase.cpp.         *)
(***************************************************************************)
EXTENDS Integers, Sequences, SequencesExt

CONSTANTS Device,
          Main,      \* devices whose main program makes remote calls
          Site,      \* call sites: the rc_id the compiler numbers them with
          Function,  \* functions a device executes for others, with the depth
                     \* of the calls they are made for (bound)
          Params,    \* types of the parameters of a function
          Result,    \* type of its result
          Pointer,   \* words of a pointer of each device
          MaxJobs,   \* job numbers a device calls with (bound)
          MaxAsync,  \* asynchronous calls of each device (bound)
          None

Type == {"int", "long", "pointer"}

ASSUME MainAssumption == Main \subseteq Device
ASSUME JobsAssumption == MaxJobs \in [Device -> Nat]
ASSUME AsyncAssumption == MaxAsync \in [Device -> Nat]
ASSUME FunctionAssumption ==
  /\ Function \subseteq [on : Device, depth : Nat \ {0}]
  /\ Params \in [Function -> Seq(Type)]
  /\ Result \in [Function -> Type \union {"void"}]
  /\ Pointer \in [Device -> {1, 2}]

(* A word is four bytes of a message and what the sender meant by them.    *)
Tag == {"call", "async"}
Argument == [kind : {"argument"}, value : (Device \X Int) \X Nat \X Nat]
ResultWord == [kind : {"result"}, value : (Device \X Int) \X Nat]
CallWord == Argument \union [kind : {"job"}, value : Int]
                     \union [kind : {"function"}, value : Function]

(* Messages: from a caller, to a callee, and back. *)
Asked == [tag : Tag, words : Seq(CallWord)]
Passed == [tag : Tag, job : Int, fn : Function, args : Seq(CallWord)]
Answered == [tag : {"return"}, job : Int, value : Seq(ResultWord)]

(* What a thread has of the call it makes, and of the one it executes.     *)
Making == [tag : Tag, job : Int, fn : Function, site : Site, pushed : Nat,
           args : Seq(Argument)]
Executing == [job : Int, fn : Function,
              args : {None} \union Seq(Seq(CallWord \union {None}))]

(* A null pointer is not the address of anything.                          *)
ASSUME NoneAssumption ==
  /\ None \notin Answered /\ None \notin Making /\ None \notin Executing
  /\ None \notin Seq(ResultWord) /\ None \notin Seq(CallWord)

VARIABLES
  jobID, runningJobs, consumeTable, returnValueTable, jobIDMap, argsTable,
  args_list,  \* tables of the DeviceRuntimeManager of each device
  sendQue,    \* send queues of each device, one for each tag
  up, down,   \* messages from and to each device, in order
  jobQue,     \* calls the receiver has handed to the handler
  route,      \* gateway: the device and job behind each of its numbers
  pc,         \* what a thread does next
  call,       \* the call a thread is making
  serving,    \* the call the handler of a device is executing
  storing,    \* the answer the receiver is inside return_value_callback with
  asyncs,     \* asynchronous calls a device has made
  got,        \* history: last call of a thread and what it returned
  line,       \* what a thread has under way on the socket to the gateway
  crossed     \* history: threads of a device got in each other's way there

wire == <<line, crossed>>
vars == <<jobID, runningJobs, consumeTable, returnValueTable, jobIDMap,
          argsTable, args_list, sendQue, up, down, jobQue, route, pc, call,
          serving, storing, asyncs, got, line, crossed>>

tables == <<jobID, runningJobs, consumeTable, returnValueTable, jobIDMap,
            argsTable, args_list>>
network == <<up, down, jobQue, route>>

Async == -2   \* job number of every asynchronous call

Thread == Device \X {"main", "handler"}

(* The depth of the code a thread is executing. *)
Depth(t) == IF t[2] = "main" THEN 0 ELSE serving[t[1]].fn.depth

Init ==
  /\ jobID = [d \in Device |-> 0]
  /\ runningJobs = [d \in Device |-> << >>]
  /\ consumeTable = [d \in Device |-> << >>]
  /\ returnValueTable = [d \in Device |-> << >>]
  /\ jobIDMap = [d \in Device |-> << >>]
  /\ argsTable = [d \in Device |-> << >>]
  /\ args_list = [d \in Device |-> [s \in Site |-> << >>]]
  /\ sendQue = [d \in Device |-> [tag \in Tag |-> << >>]]
  /\ up = [d \in Device |-> << >>]
  /\ down = [d \in Device |-> << >>]
  /\ jobQue = [d \in Device |-> << >>]
  /\ route = << >>
  /\ pc = [t \in Thread |-> IF t[2] = "handler" THEN "idle"
                            ELSE IF t[1] \in Main THEN "run" ELSE "none"]
  /\ call = [t \in Thread |-> None]
  /\ serving = [d \in Device |-> None]
  /\ storing = [d \in Device |-> None]
  /\ asyncs = [d \in Device |-> 0]
  /\ got = [t \in Thread |-> None]
  /\ line = [t \in Thread |-> "off"]
  /\ crossed = FALSE

(* map[key] = value, and map.erase(key). *)
Insert(table, d, key, value) ==
  [table EXCEPT ![d] = [k \in DOMAIN @ \union {key} |-> IF k = key THEN value ELSE @[k]]]
Erase(table, d, key) ==
  [table EXCEPT ![d] = [k \in DOMAIN @ \ {key} |-> @[k]]]

(* map[key], which is a null pointer, 0 or false for a key not in the map. *)
At(table, d, key) == IF key \in DOMAIN table[d] THEN table[d][key] ELSE None

Word(kind, value) == [kind |-> kind, value |-> value]

Goto(t, here, there) == pc[t] = here /\ pc' = [pc EXCEPT ![t] = there]

(* On the socket to the gateway a thread is between the header and the     *)
(* data of a message, or it makes a request to the home: it fills a queue  *)
(* and sends it ("asking"), then waits for the answer ("waiting").  It gets *)
(* in the way of a thread of the device that is in one of phases.          *)
Request == {"asking", "waiting"}
Enter(t, phase, phases) ==
  /\ line[t] = "off"
  /\ line' = [line EXCEPT ![t] = phase]
  /\ crossed' = \E u \in Thread : u[1] = t[1] /\ u # t /\ line[u] \in phases
Move(t, here, there) ==
  line[t] = here /\ line' = [line EXCEPT ![t] = there] /\ UNCHANGED crossed

(* getTypeAllocSize, in words.  Types without pointers have one size on    *)
(* all devices.                                                            *)
AllocSize(d, type) ==
  CASE type = "void"    -> 0
    [] type = "int"     -> 1
    [] type = "long"    -> 2
    [] type = "pointer" -> Pointer[d]

(* An argument as pushArgument takes it: of a pointer the lower word, as   *)
(* shared memory lies below 2^32.                                          *)
Packed(d, which, type, i) ==
  [k \in 1 .. IF type = "pointer" THEN 1 ELSE AllocSize(d, type) |->
     Word("argument", <<which, i, k>>)]

(* A load of n words at an offset; what lies behind the buffer may be      *)
(* anything.                                                               *)
Loaded(words, offset, n) ==
  [k \in 1 .. n |-> IF offset + k \in DOMAIN words THEN words[offset + k] ELSE None]

(* EsperantoExecFunction: where an argument begins, and what is read there. *)
Taken(d, type) == IF type = "pointer" THEN 1 ELSE AllocSize(d, type)
Unpacked(d, types, words) ==
  LET Offset(i) == FoldLeft(LAMBDA sum, type : sum + Taken(d, type), 0,
                            SubSeq(types, 1, i - 1))
  IN  [i \in DOMAIN types |->
         Loaded(words, Offset(i), Taken(d, types[i]))]

-----------------------------------------------------------------------------
(* The caller: what RemoteCall.cpp puts in place of a call instruction. *)

(* generateJobId: getJobID, insertRunningJob. *)
GenerateJobId(t, fn, site) ==
  LET d == t[1] IN
  /\ Goto(t, "run", IF Params[fn] = << >> THEN "getArgsOfRC" ELSE "pushArgument")
  /\ fn.on # d
  /\ fn.depth = Depth(t) + 1
  /\ line[t] = "off"
  /\ jobID[d] < MaxJobs[d]
  /\ jobID' = [jobID EXCEPT ![d] = @ + 1]
  /\ runningJobs' = Insert(runningJobs, d, jobID[d], fn)
  /\ call' = [call EXCEPT ![t] = [tag |-> "call", job |-> jobID[d], fn |-> fn,
                                 site |-> site, pushed |-> 0, args |-> << >>]]
  /\ UNCHANGED <<consumeTable, returnValueTable, jobIDMap, argsTable, args_list,
                 sendQue, network, serving, storing, asyncs, got, wire>>

(* A call of a function marked asynchronous has no number.                 *)
AsyncCall(t, fn, site) ==
  LET d == t[1] IN
  /\ Goto(t, "run", IF Params[fn] = << >> THEN "getArgsOfRC" ELSE "pushArgument")
  /\ fn.on # d
  /\ fn.depth = Depth(t) + 1
  /\ line[t] = "off"
  /\ asyncs[d] < MaxAsync[d]
  /\ asyncs' = [asyncs EXCEPT ![d] = @ + 1]
  /\ call' = [call EXCEPT ![t] = [tag |-> "async", job |-> Async, fn |-> fn,
                                 site |-> site, pushed |-> 0, args |-> << >>]]
  /\ UNCHANGED <<tables, sendQue, network, serving, storing, got, wire>>

(* pushArgument: insertArgsInfo, one argument after the other.             *)
PushArgument(t) ==
  LET d == t[1]
      types == Params[call[t].fn]
      i == call[t].pushed + 1
  IN
  /\ Goto(t, "pushArgument", IF i = Len(types) THEN "getArgsOfRC" ELSE "pushArgument")
  /\ args_list' = [args_list EXCEPT ![d][call[t].site] =
                      @ \o Packed(d, <<d, call[t].job>>, types[i], i)]
  /\ call' = [call EXCEPT ![t].pushed = i]
  /\ UNCHANGED <<jobID, runningJobs, consumeTable, returnValueTable, jobIDMap,
                 argsTable, sendQue, network, serving, storing, asyncs, got, wire>>

(* A getArgsOfRC without args_list.erase. *)
GetArgsOfRCKeep(t) ==
  LET d == t[1] IN
  /\ Goto(t, "getArgsOfRC",
          IF call[t].tag = "call" THEN "insertConsumeWait" ELSE "pushJob")
  /\ call' = [call EXCEPT ![t].args = args_list[d][call[t].site]]
  /\ UNCHANGED <<tables, sendQue, network, serving, storing, asyncs, got, wire>>

(* produceFunctionArgs, produceAsyncFunctionArgs: the arguments collected  *)
(* under the call site ...                                                 *)
GetArgsOfRC(t) ==
  LET d == t[1] IN
  /\ Goto(t, "getArgsOfRC",
          IF call[t].tag = "call" THEN "insertConsumeWait" ELSE "pushJob")
  /\ call' = [call EXCEPT ![t].args = args_list[d][call[t].site]]
  /\ args_list' = [args_list EXCEPT ![d][call[t].site] = << >>]
  /\ UNCHANGED <<jobID, runningJobs, consumeTable, returnValueTable, jobIDMap,
                 argsTable, sendQue, network, serving, storing, asyncs, got, wire>>

(* ... the function (getRunningJobFID) and the entry the answer will be    *)
(* announced in ...                                                        *)
InsertConsumeWait(t) ==
  LET d == t[1] IN
  /\ Goto(t, "insertConsumeWait", "pushJob")
  /\ call' = [call EXCEPT ![t].fn = runningJobs[d][call[t].job]]
  /\ consumeTable' = Insert(consumeTable, d, call[t].job, FALSE)
  /\ UNCHANGED <<jobID, runningJobs, returnValueTable, jobIDMap, argsTable,
                 args_list, sendQue, network, serving, storing, asyncs, got, wire>>

(* ... and the message: pushWord, pushWord, pushRange.  What is pushed     *)
(* between header and data of another message of the tag is sent without   *)
(* being counted, or is cleared unsent.                                    *)
Push(t, words) ==
  /\ sendQue' = [sendQue EXCEPT ![t[1]][call[t].tag] = @ \o words]
  /\ crossed' = \E u \in Thread : /\ u[1] = t[1] /\ u # t /\ line[u] = "message"
                                  /\ pc[u] = "sendQue" /\ call[u].tag = call[t].tag
  /\ UNCHANGED <<tables, network, call, serving, storing, asyncs, got, line>>

PushJob(t) ==
  /\ Goto(t, "pushJob", "pushFunction")
  /\ Push(t, <<Word("job", call[t].job)>>)

PushFunction(t) ==
  /\ Goto(t, "pushFunction", "pushArgs")
  /\ Push(t, <<Word("function", call[t].fn)>>)

PushArgs(t) ==
  /\ Goto(t, "pushArgs", "sendQue")
  /\ Push(t, call[t].args)

(* sendQue: the header ...                                                 *)
WriteHeader(t) ==
  /\ pc[t] = "sendQue"
  /\ Enter(t, "message", {"asking", "message"})
  /\ UNCHANGED <<tables, sendQue, network, pc, call, serving, storing, asyncs, got>>

(* A sendQue that forgets initializeQueue. *)
SendQueKeep(t) ==
  LET d == t[1]
      tag == call[t].tag
  IN
  /\ Goto(t, "sendQue", IF tag = "call" THEN "consumeReturn" ELSE "run")
  /\ Move(t, "message", "off")
  /\ up' = [up EXCEPT ![d] = Append(@, [tag |-> tag, words |-> sendQue[d][tag]])]
  /\ call' = [call EXCEPT ![t] = IF tag = "call" THEN @ ELSE None]
  /\ UNCHANGED <<tables, sendQue, down, jobQue, route, serving, storing, asyncs, got>>

(* ... and the data; a call waits for its answer, an asynchronous call     *)
(* does not.                                                               *)
SendQue(t) ==
  LET d == t[1]
      tag == call[t].tag
  IN
  /\ Goto(t, "sendQue", IF tag = "call" THEN "consumeReturn" ELSE "run")
  /\ Move(t, "message", "off")
  /\ up' = [up EXCEPT ![d] = Append(@, [tag |-> tag, words |-> sendQue[d][tag]])]
  /\ sendQue' = [sendQue EXCEPT ![d][tag] = << >>]
  /\ call' = [call EXCEPT ![t] = IF tag = "call" THEN @ ELSE None]
  /\ UNCHANGED <<tables, down, jobQue, route, serving, storing, asyncs, got>>

(* consumeReturn: checkConsumeWait in a loop, then getReturnValue, and a   *)
(* load of the result.  The entry of consumeTable stays.                   *)
ConsumeReturn(t) ==
  LET d == t[1]
      job == call[t].job
      fn == call[t].fn
      stored == At(returnValueTable, d, job)
  IN
  /\ Goto(t, "consumeReturn", "run")
  /\ At(consumeTable, d, job) = TRUE
  /\ got' = [got EXCEPT ![t] =
       [call |-> <<d, job>>, fn |-> fn,
        value |-> IF stored = None THEN None
                  ELSE Loaded(stored, 0, AllocSize(d, Result[fn]))]]
  /\ returnValueTable' = Erase(returnValueTable, d, job)
  /\ call' = [call EXCEPT ![t] = None]
  /\ UNCHANGED <<jobID, runningJobs, consumeTable, jobIDMap, argsTable,
                 args_list, sendQue, network, serving, storing, asyncs, wire>>

-----------------------------------------------------------------------------
(* Requests to the home: uva_sync, malloc, the faults of the program.      *)

AskHome(t) ==
  /\ pc[t] = "run"
  /\ Enter(t, "asking", Request \union {"message"})
  /\ UNCHANGED <<tables, sendQue, network, pc, call, serving, storing, asyncs, got>>

RequestSent(t) ==
  /\ Move(t, "asking", "waiting")
  /\ UNCHANGED <<tables, sendQue, network, pc, call, serving, storing, asyncs, got>>

HomeAnswers(t) ==
  /\ Move(t, "waiting", "off")
  /\ UNCHANGED <<tables, sendQue, network, pc, call, serving, storing, asyncs, got>>

-----------------------------------------------------------------------------
(* The gateway: external.  A number of its own stands for the caller.      *)

ForwardCall(d) ==
  LET m == Head(up[d])
      fn == m.words[2].value
  IN
  /\ up[d] # << >>
  /\ m.tag \in Tag
  /\ Len(m.words) >= 2 /\ m.words[1].kind = "job" /\ m.words[2].kind = "function"
  /\ up' = [up EXCEPT ![d] = Tail(@)]
  /\ route' = Append(route, <<d, m.words[1].value>>)
  /\ down' = [down EXCEPT ![fn.on] =
                 Append(@, [tag |-> m.tag, job |-> Len(route) + 1, fn |-> fn,
                            args |-> SubSeq(m.words, 3, Len(m.words))])]
  /\ UNCHANGED <<tables, sendQue, jobQue, pc, call, serving, storing, asyncs, got, wire>>

ForwardReturn(d) ==
  LET m == Head(up[d]) IN
  /\ up[d] # << >>
  /\ m.tag = "return"
  /\ up' = [up EXCEPT ![d] = Tail(@)]
  /\ down' = [down EXCEPT ![route[m.job][1]] =
                 Append(@, [m EXCEPT !.job = route[m.job][2]])]
  /\ UNCHANGED <<tables, sendQue, jobQue, route, pc, call, serving, storing, asyncs, got, wire>>

-----------------------------------------------------------------------------
(* The receiver thread: requestReceiver. *)

ReceiveCall(d) ==
  /\ storing[d] = None
  /\ down[d] # << >>
  /\ Head(down[d]).tag \in Tag
  /\ down' = [down EXCEPT ![d] = Tail(@)]
  /\ jobQue' = [jobQue EXCEPT ![d] = Append(@, Head(down[d]))]
  /\ UNCHANGED <<tables, sendQue, up, route, pc, call, serving, storing, asyncs, got, wire>>

(* A return_value_callback that only announces the answer. *)
ReceiveReturnUnstored(d) ==
  /\ storing[d] = None
  /\ down[d] # << >>
  /\ Head(down[d]).tag = "return"
  /\ down' = [down EXCEPT ![d] = Tail(@)]
  /\ storing' = [storing EXCEPT ![d] = Head(down[d])]
  /\ consumeTable' = Insert(consumeTable, d, Head(down[d]).job, TRUE)
  /\ UNCHANGED <<jobID, runningJobs, returnValueTable, jobIDMap, argsTable,
                 args_list, sendQue, up, jobQue, route, pc, call, serving, asyncs, got, wire>>

(* return_value_callback: insertReturnValue ... *)
ReceiveReturn(d) ==
  /\ storing[d] = None
  /\ down[d] # << >>
  /\ Head(down[d]).tag = "return"
  /\ down' = [down EXCEPT ![d] = Tail(@)]
  /\ storing' = [storing EXCEPT ![d] = Head(down[d])]
  /\ returnValueTable' =
       Insert(returnValueTable, d, Head(down[d]).job, Head(down[d]).value)
  /\ UNCHANGED <<jobID, runningJobs, consumeTable, jobIDMap, argsTable,
                 args_list, sendQue, up, jobQue, route, pc, call, serving, asyncs, got, wire>>

(* A return_value_callback without deleteRunningJob. *)
AnnounceReturnOnly(d) ==
  /\ storing[d] # None
  /\ consumeTable' = Insert(consumeTable, d, storing[d].job, TRUE)
  /\ storing' = [storing EXCEPT ![d] = None]
  /\ UNCHANGED <<jobID, runningJobs, returnValueTable, jobIDMap, argsTable,
                 args_list, sendQue, network, pc, call, serving, asyncs, got, wire>>

(* ... then deleteRunningJob and onValueReturn. *)
AnnounceReturn(d) ==
  /\ storing[d] # None
  /\ runningJobs' = Erase(runningJobs, d, storing[d].job)
  /\ consumeTable' = Insert(consumeTable, d, storing[d].job, TRUE)
  /\ storing' = [storing EXCEPT ![d] = None]
  /\ UNCHANGED <<jobID, returnValueTable, jobIDMap, argsTable, args_list,
                 sendQue, network, pc, call, serving, asyncs, got, wire>>

-----------------------------------------------------------------------------
(* The handler thread: remotecall_callback, async_remotecall_callback and  *)
(* EsperantoExecFunction.                                                  *)

(* Of a call: getJobID, and a uva_sync that has begun; insertJobIDMapping, *)
(* insertArgs follow it.  All asynchronous calls use the entries of job -2. *)
RemoteCallCallback(d) ==
  LET m == Head(jobQue[d])
      local == IF m.tag = "call" THEN jobID[d] ELSE Async
  IN
  /\ jobQue[d] # << >>
  /\ Goto(<<d, "handler">>, "idle", "consumeFunctionArgs")
  /\ Enter(<<d, "handler">>, "asking", Request \union {"message"})
  /\ jobQue' = [jobQue EXCEPT ![d] = Tail(@)]
  /\ jobID' = [jobID EXCEPT ![d] = IF m.tag = "call" THEN @ + 1 ELSE @]
  /\ jobIDMap' = Insert(jobIDMap, d, local, m.job)
  /\ argsTable' = Insert(argsTable, d, local, m.args)
  /\ serving' = [serving EXCEPT ![d] = [job |-> local, fn |-> m.fn, args |-> None]]
  /\ UNCHANGED <<runningJobs, consumeTable, returnValueTable, args_list, sendQue,
                 up, down, route, call, storing, asyncs, got>>

(* A callee that steps over a pointer by the size it has there.            *)
ConsumeFunctionArgsNative(d) ==
  LET local == serving[d].job
      types == Params[serving[d].fn]
      Offset(i) == FoldLeft(LAMBDA sum, type : sum + AllocSize(d, type), 0,
                            SubSeq(types, 1, i - 1))
      words == At(argsTable, d, local)
  IN
  /\ Goto(<<d, "handler">>, "consumeFunctionArgs", "run")
  /\ line[<<d, "handler">>] = "off"
  /\ serving' = [serving EXCEPT ![d].args =
       [i \in DOMAIN types |->
          Loaded(words, Offset(i), Taken(d, types[i]))]]
  /\ argsTable' = Erase(argsTable, d, local)
  /\ UNCHANGED <<jobID, runningJobs, consumeTable, returnValueTable, jobIDMap,
                 args_list, sendQue, network, call, storing, asyncs, got, wire>>

(* consumeFunctionArgs, and the loads of EsperantoExecFunction.            *)
ConsumeFunctionArgs(d) ==
  LET local == serving[d].job IN
  /\ Goto(<<d, "handler">>, "consumeFunctionArgs", "run")
  /\ line[<<d, "handler">>] = "off"
  /\ serving' = [serving EXCEPT ![d].args =
       Unpacked(d, Params[serving[d].fn], At(argsTable, d, local))]
  /\ argsTable' = Erase(argsTable, d, local)
  /\ UNCHANGED <<jobID, runningJobs, consumeTable, returnValueTable, jobIDMap,
                 args_list, sendQue, network, call, storing, asyncs, got, wire>>

Returned(d, fn, which) ==
  [k \in 1 .. AllocSize(d, Result[fn]) |-> Word("result", <<which, k>>)]

(* The function returns; produceReturn: after uva_sync, getSourceJobID and *)
(* the header ...                                                          *)
WriteReturnHeader(d) ==
  /\ pc[<<d, "handler">>] = "run"
  /\ serving[d].job # Async
  /\ Enter(<<d, "handler">>, "message", {"asking", "message"})
  /\ UNCHANGED <<tables, sendQue, network, pc, call, serving, storing, asyncs, got>>

(* ... the data, and deleteJobIDMapping.  Only this thread uses the queue  *)
(* of tag RETURN_VALUE.  A result has the words of its type on this        *)
(* device, and stands for the call it was computed for.                    *)
ProduceReturn(d) ==
  LET local == serving[d].job
      source == At(jobIDMap, d, local)
  IN
  /\ Goto(<<d, "handler">>, "run", "idle")
  /\ Move(<<d, "handler">>, "message", "off")
  /\ up' = [up EXCEPT ![d] = Append(@, [tag |-> "return", job |-> source,
                                       value |-> Returned(d, serving[d].fn, route[source])])]
  /\ jobIDMap' = Erase(jobIDMap, d, local)
  /\ serving' = [serving EXCEPT ![d] = None]
  /\ UNCHANGED <<jobID, runningJobs, consumeTable, returnValueTable, argsTable,
                 args_list, sendQue, down, jobQue, route, call, storing, asyncs, got>>

(* jobID == -2: produceReturn returns at once. *)
AsyncReturn(d) ==
  /\ serving[d] # None
  /\ serving[d].job = Async
  /\ line[<<d, "handler">>] = "off"
  /\ Goto(<<d, "handler">>, "run", "idle")
  /\ serving' = [serving EXCEPT ![d] = None]
  /\ UNCHANGED <<tables, sendQue, network, call, storing, asyncs, got, wire>>

-----------------------------------------------------------------------------
(* The specification. *)

Call(t) ==
  \/ PushArgument(t)
  \/ GetArgsOfRC(t)
  \/ InsertConsumeWait(t)
  \/ PushJob(t)
  \/ PushFunction(t)
  \/ PushArgs(t)
  \/ WriteHeader(t)
  \/ SendQue(t)
  \/ ConsumeReturn(t)

Home(t) == RequestSent(t) \/ HomeAnswers(t)

Gateway(d) == ForwardCall(d) \/ ForwardReturn(d)
Receiver(d) == ReceiveCall(d) \/ ReceiveReturn(d) \/ AnnounceReturn(d)
Handler(d) == RemoteCallCallback(d) \/ ConsumeFunctionArgs(d) \/ ProduceReturn(d)
Ends(d) == WriteReturnHeader(d) \/ AsyncReturn(d)

Step ==
  \/ \E t \in Thread, site \in Site, fn \in Function :
       GenerateJobId(t, fn, site) \/ AsyncCall(t, fn, site)
  \/ \E t \in Thread : Call(t) \/ AskHome(t) \/ Home(t)
  \/ \E d \in Device : Gateway(d) \/ Receiver(d) \/ Handler(d) \/ Ends(d)

Next == ~crossed /\ Step

(* Threads that are not waiting run, messages arrive and are answered, and *)
(* a function that may return does so in the end, however often it asks    *)
(* the home before.  How often a program calls is up to it.                *)
Fairly(A) == ~crossed /\ A
Fairness ==
  /\ \A t \in Thread : WF_vars(Fairly(Call(t) \/ Home(t)))
  /\ \A d \in Device :
       /\ WF_vars(Fairly(Gateway(d))) /\ WF_vars(Fairly(Receiver(d)))
       /\ WF_vars(Fairly(Handler(d))) /\ SF_vars(Fairly(Ends(d)))

Spec == Init /\ [][Next]_vars
FairSpec == Spec /\ Fairness

-----------------------------------------------------------------------------
(* Properties. *)

(* Each is claimed until threads of a device cross on the socket.          *)

(* What a call gets back is the result of that call, whole.                *)
Matched ==
  ~crossed => \A t \in Thread : got[t] # None =>
    got[t].value = Returned(t[1], got[t].fn, got[t].call)

(* A function is executed with the arguments of the call it answers, each  *)
(* in its place, and no others.                                            *)
ArgsIntact ==
  ~crossed => \A d \in Device : pc[<<d, "handler">>] = "run" =>
    LET which == route[At(jobIDMap, d, serving[d].job)]
        types == Params[serving[d].fn]
    IN  serving[d].args =
          [i \in DOMAIN types |-> Packed(which[1], which, types[i], i)]

(* remotecall_callback asserts that a call message has at least 8 bytes:   *)
(* the job and the function.                                               *)
EightBytes ==
  ~crossed => \A d \in Device : \A i \in DOMAIN up[d] :
    up[d][i].tag \in Tag => Len(up[d][i].words) >= 2

(* The tables hold the calls under way and nothing else: numbers of calls  *)
(* a device has made and not had answered in runningJobs, of answers not   *)
(* collected in returnValueTable, of calls it executes in jobIDMap (where  *)
(* the entry of the asynchronous calls stays).                             *)
TablesTight ==
  ~crossed => \A d \in Device :
    LET calling == {call[t].job : t \in {u \in Thread : u[1] = d /\ call[u] # None}}
        executing == IF serving[d] = None THEN {} ELSE {serving[d].job}
    IN
    /\ DOMAIN runningJobs[d] \subseteq
         calling \union (IF storing[d] = None THEN {} ELSE {storing[d].job})
    /\ DOMAIN returnValueTable[d] \subseteq calling
    /\ DOMAIN jobIDMap[d] \ {Async} = executing \ {Async}
    /\ DOMAIN argsTable[d] \subseteq executing

(* Every call returns.                                                     *)
CallsReturn == \A t \in Thread : pc[t] = "consumeReturn" ~> (pc[t] = "run" \/ crossed)
=============================================================================
