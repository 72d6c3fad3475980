--------------------------- MODULE MCContentStore ---------------------------
(***************************************************************************)
(* ContentStore for TLC: a process with two threads and one with one.      *)
(***************************************************************************)
EXTENDS ContentStore

CONSTANTS t1, t2, t3, p1, p2

TwoProcesses == [t \in Threads |-> IF t = t3 THEN p2 ELSE p1]
=============================================================================
