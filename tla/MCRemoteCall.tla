---------------------------- MODULE MCRemoteCall ----------------------------
(* Instances of RemoteCall for TLC. *)
EXTENDS RemoteCall

CONSTANTS a, b, c

(* The programs of a and c call b; what b executes for them calls a back,  *)
(* which calls nobody.  So no two threads of a device call at once, and no *)
(* two handlers wait for each other.                                       *)
CallBack == {[on |-> b, depth |-> 1], [on |-> a, depth |-> 2]}

(* Any device may call any other, two deep. *)
Mutual == [on : {a, b}, depth : {1, 2}]

(* The parameters and results: pointers that cross between devices whose   *)
(* pointers differ, with something behind them.  A pointer comes back only *)
(* to a device whose pointers are no longer.                               *)
MixedParams == [f \in Function |-> <<"pointer", IF f.on = b THEN "long" ELSE "int">>]
MixedResult == [f \in Function |-> IF f.on = b THEN "long" ELSE "pointer"]
MixedPointer == [d \in Device |-> IF d = b THEN 1 ELSE 2]

(* Calls of the program have an argument, those they lead to have none.    *)
OuterParams == [f \in Function |-> IF f.depth = 1 THEN <<"int">> ELSE << >>]
NoResult == [f \in Function |-> "void"]

(* Device c makes one call, and one asynchronous call; or none makes any.  *)
FewJobs == [d \in Device |-> IF d = c THEN 1 ELSE 2]
ThreeJobs == [d \in Device |-> 3]
OneAsync == [d \in Device |-> IF d = c THEN 1 ELSE 0]
NoAsync == [d \in Device |-> 0]
=============================================================================
