--------------------------- MODULE MCRemoteMemory ---------------------------
(* A small instance of RemoteMemory for TLC. *)
EXTENDS RemoteMemory

CONSTANTS a, b

(* The program of a calls b, and what b executes calls a back. *)
CallBack == {[on |-> b, depth |-> 1], [on |-> a, depth |-> 2]}
NoParams == [f \in Function |-> << >>]
NoResult == [f \in Function |-> "void"]
LongPointer == [d \in Device |-> 2]
TwoJobs == [d \in Device |-> 2]
OneAsync == [d \in Device |-> IF d = a THEN 1 ELSE 0]
=============================================================================
