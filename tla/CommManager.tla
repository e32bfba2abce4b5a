---------------------------- MODULE CommManager ----------------------------
(***************************************************************************)
(* Connections of a server and its clients (tools/comm/comm_manager.cpp):  *)
(* tryConnect of the clients, open, receiver and handler thread of the     *)
(* server.  A client sends its requests on one socket and takes the        *)
(* answers from another, the blocking socket, which open sets up last.     *)
(* Receiver and handler hand over requests in the ring of JobQueue.        *)
(*                                                                         *)
(* The program that calls open and start is not in the repository: the     *)
(* two threads may be started before, while or after clients connect.  A   *)
(* message is read whole; TCP keeps the order of a socket.                 *)
(***************************************************************************)
EXTENDS JobQueue, FiniteSets

CONSTANTS Client, MaxAsk     \* bound: requests of a client

ID == 1 .. Cardinality(Client)           \* clntID counts from one
ASSUME JobAssumption == Job = [src : ID, n : 1 .. MaxAsk]
ASSUME ClientAssumption == IsFiniteSet(Client) /\ None \notin Client /\ MaxAsk \in Nat

VARIABLES
  \* the server
  started,            \* start has been called
  opc,                \* where open is with the client it serves
  clntID,             \* number that client gets
  peer,               \* the client at the other end of the socket just accepted
  socketMap,          \* clients the receiver polls, by number
  sendQues,           \* numbers that have their queues
  blockingSocketMap,  \* clients the handler can answer, by number
  \* the clients
  cpc,                \* where the client is
  localID,            \* the number it was given, 0 before
  asked,              \* requests it has sent
  up, down,           \* requests and answers under way
  lost                \* history: requests that nobody will answer

serverVars == <<opc, clntID, peer, socketMap, sendQues, blockingSocketMap>>
clientVars == <<cpc, localID, asked>>
commVars == <<vars, started, serverVars, clientVars, up, down, lost>>

CommInit ==
  /\ Init
  /\ started = FALSE
  /\ opc = "accept"
  /\ clntID = 1
  /\ peer = None
  /\ socketMap = [id \in ID |-> None]
  /\ sendQues = {}
  /\ blockingSocketMap = [id \in ID |-> None]
  /\ cpc = [c \in Client |-> "out"]
  /\ localID = [c \in Client |-> 0]
  /\ asked = [c \in Client |-> 0]
  /\ up = [c \in Client |-> << >>]
  /\ down = [c \in Client |-> << >>]
  /\ lost = {}

-----------------------------------------------------------------------------
(* A client: tryConnect, then requests, one at a time.                     *)

Goto(c, at) == cpc' = [cpc EXCEPT ![c] = at]

(* connect: the system takes the connection, open need not have seen it. *)
Connect(c) ==
  /\ cpc[c] = "out"
  /\ Goto(c, "connected")
  /\ UNCHANGED <<vars, started, serverVars, localID, asked, up, down, lost>>

(* connect to the blocking port, once open listens there. *)
ConnectBlocking(c) ==
  /\ cpc[c] = "named"
  /\ opc = "listening"
  /\ peer = c
  /\ Goto(c, "ready")
  /\ UNCHANGED <<vars, started, serverVars, localID, asked, up, down, lost>>

(* sendQue of a request; the header says who sends it. *)
Ask(c) ==
  /\ cpc[c] = "ready"
  /\ asked[c] < MaxAsk
  /\ asked' = [asked EXCEPT ![c] = @ + 1]
  /\ up' = [up EXCEPT ![c] = Append(@, [src |-> localID[c], n |-> asked[c] + 1])]
  /\ Goto(c, "waiting")
  /\ UNCHANGED <<vars, started, serverVars, localID, down, lost>>

(* receiveQue returns. *)
Answered(c) ==
  /\ cpc[c] = "waiting"
  /\ down[c] # << >>
  /\ down' = [down EXCEPT ![c] = Tail(@)]
  /\ Goto(c, "ready")
  /\ UNCHANGED <<vars, started, serverVars, localID, asked, up, lost>>

-----------------------------------------------------------------------------
(* The thread in open.                                                     *)

OpenStep(from, to) == opc = from /\ opc' = to
OpenFrame == UNCHANGED <<vars, started, asked, up, down, lost>>

(* accept, and the first message, with the number of the client. *)
Accept(c) ==
  /\ OpenStep("accept", "accepted")
  /\ cpc[c] = "connected"
  /\ peer' = c
  /\ localID' = [localID EXCEPT ![c] = clntID]
  /\ Goto(c, "named")
  /\ UNCHANGED <<clntID, socketMap, sendQues, blockingSocketMap>>
  /\ OpenFrame

(* socketMap[clntID] = *clientID: from here on the receiver polls it. *)
EnterSocket ==
  /\ OpenStep("accepted", "entered")
  /\ socketMap' = [socketMap EXCEPT ![clntID] = peer]
  /\ UNCHANGED <<clntID, peer, sendQues, blockingSocketMap, cpc, localID>>
  /\ OpenFrame

EnterQueues ==
  /\ OpenStep("entered", "queued")
  /\ sendQues' = sendQues \union {clntID}
  /\ UNCHANGED <<clntID, peer, socketMap, blockingSocketMap, cpc, localID>>
  /\ OpenFrame

(* An open that listens before the queues are there. *)
ListenEarly ==
  /\ OpenStep("entered", "listening")
  /\ UNCHANGED <<clntID, peer, socketMap, sendQues, blockingSocketMap, cpc, localID>>
  /\ OpenFrame

(* bind and listen on the blocking port. *)
Listen ==
  /\ OpenStep("queued", "listening")
  /\ UNCHANGED <<clntID, peer, socketMap, sendQues, blockingSocketMap, cpc, localID>>
  /\ OpenFrame

(* An open that does not count its clients. *)
AcceptBlockingSameID ==
  /\ OpenStep("listening", "accept")
  /\ cpc[peer] \in {"ready", "waiting"}
  /\ blockingSocketMap' = [blockingSocketMap EXCEPT ![clntID] = peer]
  /\ UNCHANGED <<clntID, peer, socketMap, sendQues, cpc, localID>>
  /\ OpenFrame

(* accept on the blocking port, blockingSocketMap[clntID] and clntID++. *)
AcceptBlocking ==
  /\ OpenStep("listening", "accept")
  /\ cpc[peer] \in {"ready", "waiting"}
  /\ blockingSocketMap' = [blockingSocketMap EXCEPT ![clntID] = peer]
  /\ clntID' = clntID + 1
  /\ UNCHANGED <<peer, socketMap, sendQues, cpc, localID>>
  /\ OpenFrame

Open == (\E c \in Client : Accept(c)) \/ EnterSocket \/ EnterQueues \/ Listen \/ AcceptBlocking

-----------------------------------------------------------------------------
(* Receiver and handler thread.                                            *)

Start ==
  /\ ~started
  /\ started' = TRUE
  /\ UNCHANGED <<vars, serverVars, clientVars, up, down, lost>>

(* requestReceiver: a message on one of the sockets. *)
ReceiveFrom(id) ==
  /\ started
  /\ socketMap[id] # None
  /\ up[socketMap[id]] # << >>
  /\ Receive(Head(up[socketMap[id]]))
  /\ up' = [up EXCEPT ![socketMap[id]] = Tail(@)]
  /\ UNCHANGED <<started, serverVars, clientVars, down, lost>>

(* insertJob; its result is ignored. *)
InsertJob ==
  /\ \/ InsertFull /\ lost' = lost \union {job}
     \/ (InsertTest \/ InsertStore \/ InsertAdvance) /\ UNCHANGED lost
  /\ UNCHANGED <<started, serverVars, clientVars, up, down>>

GetJob ==
  /\ started
  /\ GetTest \/ GetClear \/ GetAdvance
  /\ UNCHANGED <<started, serverVars, clientVars, up, down, lost>>

(* The callback pushes its answer into the queue of the client and sends   *)
(* it on the blocking socket; without one, operator[] makes it descriptor  *)
(* zero.                                                                   *)
Callback ==
  /\ Run
  /\ ret.src \in sendQues
  /\ IF blockingSocketMap[ret.src] # None
     THEN /\ down' = [down EXCEPT ![blockingSocketMap[ret.src]] = Append(@, ret)]
          /\ UNCHANGED lost
     ELSE /\ lost' = lost \union {ret}
          /\ UNCHANGED down
  /\ UNCHANGED <<started, serverVars, clientVars, up>>

CommNext ==
  \/ \E c \in Client : Connect(c) \/ ConnectBlocking(c) \/ Ask(c) \/ Answered(c)
  \/ Open
  \/ Start
  \/ \E id \in ID : ReceiveFrom(id)
  \/ InsertJob \/ GetJob \/ Callback

(* Every thread runs, the receiver polls every socket in turn, and a       *)
(* client in tryConnect goes on.  When the program calls start, connects   *)
(* or asks is its own affair.                                              *)
CommSpec ==
  /\ CommInit /\ [][CommNext]_commVars
  /\ WF_commVars(Open)
  /\ WF_commVars(InsertJob)
  /\ WF_commVars(GetJob \/ Callback)
  /\ \A id \in ID : WF_commVars(ReceiveFrom(id))
  /\ \A c \in Client : WF_commVars(ConnectBlocking(c) \/ Answered(c))

-----------------------------------------------------------------------------
(* Properties. *)

(* The requests of a client on their way: sent, read, in the ring, or      *)
(* being handled.                                                          *)
UnderWay ==
  (UNION {{up[c][i] : i \in DOMAIN up[c]} : c \in Client})
    \union {queue[i] : i \in DOMAIN queue} \union ({job, ret} \ {None})

(* A callback never finds the queue of its client missing, although open   *)
(* enters the socket that is polled before the queues: no request comes    *)
(* before the client could connect a second time.                          *)
QueuesThere == \A m \in UnderWay : m.src \in sendQues

(* A client only ever gets the answer to the request it waits for, and     *)
(* that request is in one place.                                           *)
OwnAnswers ==
  \A c \in Client :
    LET mine == [src |-> localID[c], n |-> asked[c]]
    IN  /\ \A i \in DOMAIN down[c] : down[c][i] = mine
        /\ Len(down[c]) + Len(up[c]) <= 1
        /\ down[c] # << >> => cpc[c] = "waiting" /\ mine \notin lost
        /\ cpc[c] = "waiting" => mine \in UnderWay \union lost \/ down[c] # << >>

(* After start a request is answered, but for two cases: the ring was      *)
(* full, or open had not yet entered the blocking socket.                  *)
Served ==
  \A c \in Client :
    (started /\ cpc[c] = "waiting")
      ~> (cpc[c] = "ready" \/ [src |-> localID[c], n |-> asked[c]] \in lost)
=============================================================================
