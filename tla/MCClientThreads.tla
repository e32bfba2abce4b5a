-------------------------- MODULE MCClientThreads --------------------------
(* The program and the handler thread of a client. *)
EXTENDS ClientThreads
=============================================================================
