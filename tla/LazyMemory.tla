----------------------------- MODULE LazyMemory -----------------------------
(***************************************************************************)
(* What the UVA runtime promises a program that shares memory through it.  *)
(*                                                                         *)
(* There is one memory.  The stores of a client are its own until it       *)
(* synchronises: Publish then replays them on the memory in program order  *)
(* and in one step.  A load returns the client's last unpublished store to *)
(* the word or else a value the word has held since the client last        *)
(* synchronised (or last refreshed that word); it never returns a value    *)
(* that a synchronisation has put out of date.  A light client's accesses  *)
(* go through to the memory one by one.                                    *)
(***************************************************************************)
EXTENDS StoreLogs

CONSTANTS Client,   \* processes that share the memory
          Addr,     \* words of the memory
          Val,      \* values of a word
          Zero,     \* what a word holds at first
          Extent,   \* sets of words one store may cover
          Nothing   \* no load was observed in the last step

VARIABLES mem,      \* the shared memory
          pend,     \* pend[c]: stores of c not yet published
          seen,     \* seen[c][a]: values a load of a by c may return
          obs       \* what the last step loaded: <<client, word, value>>

vars == <<mem, pend, seen, obs>>

Init ==
  /\ mem = [a \in Addr |-> Zero]
  /\ pend = [c \in Client |-> << >>]
  /\ seen = [c \in Client |-> [a \in Addr |-> {Zero}]]
  /\ obs = Nothing

Store(c, E, v) ==
  /\ pend' = [pend EXCEPT ![c] = Logged(@, E, v)]
  /\ obs' = Nothing
  /\ UNCHANGED <<mem, seen>>

Load(c, a) ==
  /\ \E v \in Val :
       /\ IF a \in Written(pend[c]) THEN v = LastOf(pend[c], a)
                                    ELSE v \in seen[c][a]
       /\ obs' = <<c, a, v>>
  /\ UNCHANGED <<mem, pend, seen>>

(* The others may now see the new values; c may see nothing else. *)
Publish(c) ==
  LET new == Replay(mem, pend[c]) IN
  /\ mem' = new
  /\ pend' = [pend EXCEPT ![c] = << >>]
  /\ seen' = [d \in Client |-> [a \in Addr |->
                IF d = c THEN {new[a]} ELSE seen[d][a] \union {new[a]}]]
  /\ obs' = Nothing

WriteThrough(c, E, v) ==
  LET new == [a \in Addr |-> IF a \in E THEN v ELSE mem[a]] IN
  /\ mem' = new
  /\ seen' = [d \in Client |-> [a \in Addr |->
                IF d = c /\ a \in E THEN {v} ELSE seen[d][a] \union {new[a]}]]
  /\ obs' = Nothing
  /\ UNCHANGED pend

(* c looks at the memory again: from now on A is as it is now or newer. *)
Refresh(c, A) ==
  /\ seen' = [seen EXCEPT ![c] = [a \in Addr |-> IF a \in A THEN {mem[a]}
                                                         ELSE seen[c][a]]]
  /\ obs' = Nothing
  /\ UNCHANGED <<mem, pend>>

Forget == obs' = Nothing /\ UNCHANGED <<mem, pend, seen>>

Next ==
  \/ \E c \in Client :
       \/ \E E \in Extent, v \in Val : Store(c, E, v) \/ WriteThrough(c, E, v)
       \/ \E a \in Addr : Load(c, a)
       \/ Publish(c)
       \/ \E A \in SUBSET Addr : Refresh(c, A)
  \/ Forget

Spec == Init /\ [][Next]_vars
=============================================================================
