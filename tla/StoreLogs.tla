----------------------------- MODULE StoreLogs -----------------------------
(***************************************************************************)
(* Store logs of the UVA runtime (struct StoreLog, tools/uva): the record  *)
(* a client makes of one store, and what a sequence of them does to a      *)
(* memory when it is replayed front to back.                               *)
(*                                                                         *)
(* An address is a pair <<page, word>>.  The bytes a store covers (size    *)
(* and addr of the C++ record) are the set "at" of words it covers, which  *)
(* may lie on several pages; its data is one value of its own.             *)
(***************************************************************************)
EXTENDS Naturals, Sequences

(* vecStoreLogs.push_back(new StoreLog(size, addr, data)). *)
Logged(log, E, v) == Append(log, [at |-> E, val |-> v])

(* Words some entry of the log covers. *)
Written(log) == UNION {log[i].at : i \in DOMAIN log}

(* The entry that covers a and is followed by no other that does. *)
LastIndex(log, a) ==
  {i \in DOMAIN log : /\ a \in log[i].at
                      /\ \A j \in DOMAIN log : j > i => a \notin log[j].at}

(* Each word the log covers has a last store. *)
Settled(log) == \A a \in Written(log) : LastIndex(log, a) # {}

(* What a holds once the log has been replayed, for a in Written(log). *)
LastOf(log, a) == log[CHOOSE i \in LastIndex(log, a) : TRUE].val

(* The replay loop: memcpy(addr, data, size), entry after entry. *)
Replay(mem, log) ==
  [a \in DOMAIN mem |-> IF a \in Written(log) THEN LastOf(log, a) ELSE mem[a]]

(* truncToPageAddr of the first to that of the last byte of a store. *)
PagesOf(words) == {a[1] : a \in words}
=============================================================================
