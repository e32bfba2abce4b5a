------------------------------ MODULE JobQueue ------------------------------
(***************************************************************************)
(* The ring of class JobQueue (tools/comm/comm_manager.cpp), shared        *)
(* without a lock by two threads: the receiver calls insertJob, the        *)
(* handler polls getJob.  A step is one access to shared memory; the       *)
(* accesses of a thread take effect in program order.                      *)
(*                                                                         *)
(* head belongs to the handler and tail to the receiver; a slot that is    *)
(* NULL is free.  malloc is taken to return zeroed memory, as it does for  *)
(* a block that comes straight from the system: the constructor does not   *)
(* clear the slots.                                                        *)
(***************************************************************************)
EXTENDS Integers, Sequences

CONSTANTS Job,     \* jobs the receiver reads from its sockets
          Size,    \* slots: JOB_Q_MAX
          None     \* NULL

ASSUME SizeAssumption == Size \in Nat \ {0}
ASSUME NoneAssumption == None \notin Job

q_max == Size - 1
Slot == 0 .. q_max

VARIABLES
  data, head, tail,
  job,      \* argument of insertJob, None outside a call
  ipc,      \* next access of insertJob: "test", "store" or "advance"
  ret,      \* local variable ret of getJob, None outside a call
  gpc,      \* next access of getJob: "test", "clear", "advance", or "run"
  queue     \* history: jobs stored and not cleared yet

vars == <<data, head, tail, job, ipc, ret, gpc, queue>>
insertVars == <<tail, job, ipc>>
getVars == <<head, ret, gpc>>

Init ==
  /\ data = [i \in Slot |-> None]
  /\ head = 0
  /\ tail = 0
  /\ job = None
  /\ ipc = "test"
  /\ ret = None
  /\ gpc = "test"
  /\ queue = << >>

(* A ring whose index does not wrap. *)
SuccPastEnd(i) == IF i = q_max THEN q_max ELSE i + 1

Succ(i) == IF i = q_max THEN 0 ELSE i + 1

-----------------------------------------------------------------------------
(* requestReceiver: a message has been read, insertJob is called. *)
Receive(j) ==
  /\ ipc = "test"
  /\ job = None
  /\ job' = j
  /\ UNCHANGED <<data, tail, ipc, getVars, queue>>

(* data[tail] != NULL: return false, and the receiver forgets the job. *)
InsertFull ==
  /\ ipc = "test"
  /\ job # None
  /\ data[tail] # None
  /\ job' = None
  /\ UNCHANGED <<data, tail, ipc, getVars, queue>>

(* An insertJob that does not look whether the slot is free. *)
InsertTestAlways ==
  /\ ipc = "test"
  /\ job # None
  /\ ipc' = "store"
  /\ UNCHANGED <<data, tail, job, getVars, queue>>

InsertTest ==
  /\ ipc = "test"
  /\ job # None
  /\ data[tail] = None
  /\ ipc' = "store"
  /\ UNCHANGED <<data, tail, job, getVars, queue>>

(* data[tail] = job *)
InsertStore ==
  /\ ipc = "store"
  /\ data' = [data EXCEPT ![tail] = job]
  /\ queue' = Append(queue, job)
  /\ job' = None
  /\ ipc' = "advance"
  /\ UNCHANGED <<tail, getVars>>

InsertAdvance ==
  /\ ipc = "advance"
  /\ tail' = Succ(tail)
  /\ ipc' = "test"
  /\ UNCHANGED <<data, job, getVars, queue>>

-----------------------------------------------------------------------------
(* getJob.  A test that finds NULL returns NULL, and requestHandler calls  *)
(* getJob again: nothing changes.                                          *)
GetTest ==
  /\ gpc = "test"
  /\ data[head] # None
  /\ ret' = data[head]
  /\ gpc' = "clear"
  /\ UNCHANGED <<data, head, insertVars, queue>>

(* data[head] = NULL *)
GetClear ==
  /\ gpc = "clear"
  /\ data' = [data EXCEPT ![head] = None]
  /\ queue' = Tail(queue)
  /\ gpc' = "advance"
  /\ UNCHANGED <<head, ret, insertVars>>

(* A getJob that leaves head where it is. *)
GetAdvanceNot ==
  /\ gpc = "advance"
  /\ gpc' = "run"
  /\ UNCHANGED <<data, head, ret, insertVars, queue>>

GetAdvance ==
  /\ gpc = "advance"
  /\ head' = Succ(head)
  /\ gpc' = "run"
  /\ UNCHANGED <<data, ret, insertVars, queue>>

(* requestHandler: the callback of the job's tag has returned. *)
Run ==
  /\ gpc = "run"
  /\ ret' = None
  /\ gpc' = "test"
  /\ UNCHANGED <<data, head, insertVars, queue>>

Insert == InsertFull \/ InsertTest \/ InsertStore \/ InsertAdvance
Get == GetTest \/ GetClear \/ GetAdvance \/ Run

Next == (\E j \in Job : Receive(j)) \/ Insert \/ Get

Spec == Init /\ [][Next]_vars

-----------------------------------------------------------------------------
(* Properties. *)

TypeOK ==
  /\ data \in [Slot -> Job \union {None}]
  /\ head \in Slot
  /\ tail \in Slot
  /\ job \in Job \union {None}
  /\ ipc \in {"test", "store", "advance"}
  /\ ret \in Job \union {None}
  /\ gpc \in {"test", "clear", "advance", "run"}
  /\ queue \in Seq(Job)

(* Where the next job will be read, and where the next will be stored. *)
First == IF gpc = "advance" THEN Succ(head) ELSE head
Last == IF ipc = "advance" THEN Succ(tail) ELSE tail

(* The number of slots from First on to i. *)
Ahead(i) == IF i >= First THEN i - First ELSE i - First + Size

(* The slots from First on hold the queue, front first, and the others are *)
(* free, whatever two accesses the threads stand between: so no thread     *)
(* ever takes a slot the other is using.                                   *)
Ring ==
  /\ TypeOK
  /\ Len(queue) <= Size
  /\ \A i \in Slot :
       data[i] = IF Ahead(i) < Len(queue) THEN queue[Ahead(i) + 1] ELSE None
  /\ Last = IF First + Len(queue) < Size THEN First + Len(queue)
                                         ELSE First + Len(queue) - Size
  /\ ipc = "store" => job # None /\ Len(queue) < Size
  /\ ipc = "advance" => job = None
  /\ gpc = "clear" => Len(queue) > 0 /\ ret = queue[1]
  /\ gpc = "test" <=> ret = None

(* The ring is a bounded queue: jobs are handled in the order they came,   *)
(* each once, and refused only when Size of them are waiting.              *)
Fifo == INSTANCE BoundedFifo WITH
  offered <- job,
  taken <- IF gpc \in {"advance", "run"} THEN ret ELSE None
ImplementsBoundedFifo == Fifo!Spec
=============================================================================
