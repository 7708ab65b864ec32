------------------------------ MODULE MCTasks ------------------------------
(* A small instance of Tasks for TLC: two tasks that end with the connection, and one from *)
(* the disk that does not.                                                                 *)
EXTENDS Tasks

CONSTANTS node1, node2, looper, s1, s2, d1

\* The monitor of a node has the name of the node in its own.
MCKind == [n \in Names |-> IF n = looper THEN "looper" ELSE "node"]
=============================================================================
