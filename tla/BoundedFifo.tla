---------------------------- MODULE BoundedFifo ----------------------------
(***************************************************************************)
(* What the receiver and the handler thread of a CommManager expect of the *)
(* job queue between them: jobs come out in the order they went in, each   *)
(* once, and a job is turned away only when the queue is full.             *)
(***************************************************************************)
EXTENDS Naturals, Sequences

CONSTANTS Job, Size, None

VARIABLES queue,    \* jobs accepted and not taken yet
          offered,  \* job the receiver is about to insert, or None
          taken     \* job the handler has been given, or None

vars == <<queue, offered, taken>>

Init == queue = << >> /\ offered = None /\ taken = None

Offer(j) ==
  /\ offered = None
  /\ offered' = j
  /\ UNCHANGED <<queue, taken>>

Accept ==
  /\ offered # None
  /\ Len(queue) < Size
  /\ queue' = Append(queue, offered)
  /\ offered' = None
  /\ UNCHANGED taken

Refuse ==
  /\ offered # None
  /\ Len(queue) = Size
  /\ offered' = None
  /\ UNCHANGED <<queue, taken>>

Take ==
  /\ taken = None
  /\ queue # << >>
  /\ taken' = Head(queue)
  /\ queue' = Tail(queue)
  /\ UNCHANGED offered

Done ==
  /\ taken # None
  /\ taken' = None
  /\ UNCHANGED <<queue, offered>>

Next == (\E j \in Job : Offer(j)) \/ Accept \/ Refuse \/ Take \/ Done

Spec == Init /\ [][Next]_vars
=============================================================================
