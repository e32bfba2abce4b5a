--------------------------- MODULE ClientThreads ---------------------------
(***************************************************************************)
(* The threads of one client and their requests to the home: uva_sync, and *)
(* the signal handler for a fault in the range of the global variables     *)
(* (tools/uva/uva_manager.cpp, client.cpp), down to the queues and the     *)
(* blocking socket they share (tools/comm/comm_manager.cpp).  The program  *)
(* and the handler thread of the device both call uva_sync.                *)
(*                                                                         *)
(* A fault maps one page, but fetches the whole range: copying it into     *)
(* place may fault on another page, inside the signal handler (SA_NODEFER).*)
(* A message or an answer that is read out of step is not followed any     *)
(* further.                                                                *)
(***************************************************************************)
EXTENDS Integers, Sequences, SequencesExt, FiniteSets

CONSTANTS Thread,
          NumPages,   \* pages of the global variables
          Ack         \* GLOBAL_SEGFAULT_REQ_ACK, no number of pages

Page == 1 .. NumPages
Tag == {"sync", "global"}

VARIABLES
  frames,    \* calls a thread is in, the innermost last
  mapped,    \* pages the client may access
  copy,      \* whether a page has the contents of the home, or zeros
  sendQue,   \* words in the send queue of each tag
  requests,  \* tags of the messages under way
  answers,   \* answers on the blocking socket: their sizes and their words
  recvQue,   \* the receive queue: words not taken yet
  failed     \* an assert has stopped the client

vars == <<frames, mapped, copy, sendQue, requests, answers, recvQue, failed>>

Init ==
  /\ frames = [t \in Thread |-> << >>]
  /\ mapped = {}
  /\ copy = [p \in Page |-> FALSE]
  /\ sendQue = [tag \in Tag |-> 0]
  /\ requests = << >>
  /\ answers = << >>
  /\ recvQue = << >>
  /\ failed = FALSE

Token(kind, value) == [kind |-> kind, value |-> value]

Frame(tag) == [tag |-> tag, at |-> "push", size |-> 0, page |-> 1]
Top(t) == Last(frames[t])
At(t, where) == ~failed /\ frames[t] # << >> /\ Top(t).at = where
Step(t, frame) == frames' = [frames EXCEPT ![t] = Append(Front(@), frame)]
Goto(t, where) == Step(t, [Top(t) EXCEPT !.at = where])
Enter(t, tag) == frames' = [frames EXCEPT ![t] = Append(@, Frame(tag))]
Leave(t) == frames' = [frames EXCEPT ![t] = Front(@)]

-----------------------------------------------------------------------------
(* uva_sync, with no stores to report. *)
Sync(t) ==
  /\ ~failed
  /\ frames[t] = << >>
  /\ Enter(t, "sync")
  /\ UNCHANGED <<mapped, copy, sendQue, requests, answers, recvQue, failed>>

(* The signal handler maps the page of the fault, all zeros. *)
Fault(t, p) ==
  /\ p \notin mapped
  /\ mapped' = mapped \union {p}
  /\ copy' = [copy EXCEPT ![p] = FALSE]
  /\ Enter(t, "global")
  /\ UNCHANGED <<sendQue, requests, answers, recvQue, failed>>

(* The program, or a function called from afar, touches a global variable. *)
Touch(t, p) ==
  /\ ~failed
  /\ frames[t] = << >>
  /\ Fault(t, p)

(* pushWord: the words of one request. *)
Push(t) ==
  /\ At(t, "push")
  /\ sendQue' = [sendQue EXCEPT ![Top(t).tag] = @ + 1]
  /\ Goto(t, "send")
  /\ UNCHANGED <<mapped, copy, requests, answers, recvQue, failed>>

(* sendQue: all the queue holds is one message.  It is written in two      *)
(* parts; that those of two threads may mix is left out, so this is one    *)
(* way less to mix requests up than the program has.                       *)
Send(t) ==
  /\ At(t, "send")
  /\ sendQue[Top(t).tag] > 0
  /\ requests' = Append(requests, Top(t).tag)
  /\ sendQue' = [sendQue EXCEPT ![Top(t).tag] = 0]
  /\ Goto(t, "size")
  /\ UNCHANGED <<mapped, copy, answers, recvQue, failed>>

(* The home: syncHandler names the pages S to drop, globalSegfaultHandler  *)
(* sends the range.                                                        *)
Serve(S) ==
  LET words == IF Head(requests) = "sync"
               THEN <<Cardinality(S)>> \o SetToSeq(S)
               ELSE <<Ack>> \o [p \in Page |-> p]
  IN
  /\ requests # << >>
  /\ Head(requests) = "global" => S = {}
  /\ requests' = Tail(requests)
  /\ answers' = answers \o <<Token("size", Len(words))>>
                      \o [i \in DOMAIN words |-> Token("word", words[i])]
  /\ UNCHANGED <<frames, mapped, copy, sendQue, recvQue, failed>>

(* receiveQue: four bytes for the size ... *)
ReadSize(t) ==
  /\ At(t, "size")
  /\ answers # << >>
  /\ Head(answers).kind = "size"
  /\ answers' = Tail(answers)
  /\ Step(t, [Top(t) EXCEPT !.at = "data", !.size = Head(answers).value])
  /\ UNCHANGED <<mapped, copy, sendQue, requests, recvQue, failed>>

(* ... and as many words, into the one receive queue. *)
ReadData(t) ==
  LET n == Top(t).size IN
  /\ At(t, "data")
  /\ Len(answers) >= n
  /\ recvQue' = [i \in 1 .. n |-> answers[i].value]
  /\ answers' = SubSeq(answers, n + 1, Len(answers))
  /\ Goto(t, "word")
  /\ UNCHANGED <<mapped, copy, sendQue, requests, failed>>

(* syncHandler_hlrc: takeWord, takeRange for each page, mprotect. *)
Invalidate(t) ==
  LET n == Head(recvQue) IN
  /\ At(t, "word")
  /\ Top(t).tag = "sync"
  /\ recvQue # << >>
  /\ n # Ack
  /\ mapped' = mapped \ Range(Tail(recvQue))
  /\ recvQue' = << >>
  /\ Leave(t)
  /\ UNCHANGED <<copy, sendQue, requests, answers, failed>>

(* The fault handler: takeWord and the assert. *)
TakeAck(t) ==
  /\ At(t, "word")
  /\ Top(t).tag = "global"
  /\ recvQue # << >>
  /\ failed' = (Head(recvQue) # Ack)
  /\ recvQue' = Tail(recvQue)
  /\ Goto(t, "copy")
  /\ UNCHANGED <<mapped, copy, sendQue, requests, answers>>

(* takeRange copies the range upwards.  A page that is not mapped faults;  *)
(* once that fault has been served, its receiveQue and takeRange have      *)
(* replaced and cleared the words still to be copied.                      *)
CopyPage(t) ==
  LET p == Top(t).page IN
  /\ At(t, "copy")
  /\ p \in Page
  /\ \/ Fault(t, p)
     \/ /\ p \in mapped
        /\ copy' = [copy EXCEPT ![p] = Len(recvQue) = NumPages]
        /\ Step(t, [Top(t) EXCEPT !.page = p + 1])
        /\ UNCHANGED <<mapped, sendQue, requests, answers, recvQue, failed>>

(* The queue is empty: initializeQueue clears it. *)
CopyEnd(t) ==
  /\ At(t, "copy")
  /\ Top(t).page > NumPages
  /\ recvQue' = << >>
  /\ Leave(t)
  /\ UNCHANGED <<mapped, copy, sendQue, requests, answers, failed>>

Next ==
  \/ \E t \in Thread :
       \/ Sync(t) \/ Push(t) \/ Send(t) \/ ReadSize(t) \/ ReadData(t)
       \/ Invalidate(t) \/ TakeAck(t) \/ CopyPage(t) \/ CopyEnd(t)
       \/ \E p \in Page : Touch(t, p)
  \/ \E S \in SUBSET Page : Serve(S)

Spec == Init /\ [][Next]_vars

-----------------------------------------------------------------------------
(* segfaultHandlerForHLRC asserts that the first word of the answer it     *)
(* gets is GLOBAL_SEGFAULT_REQ_ACK: it is the answer to its own request.   *)
NoWrongAck == ~failed
=============================================================================
