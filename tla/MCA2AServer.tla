---------------------------- MODULE MCA2AServer ----------------------------
(* Instances of A2AServer for TLC: three requests that may all name the    *)
(* same task, and two calls of shutdown().                                 *)
EXTENDS A2AServer, TLC

Interchangeable == Permutations(Requests) \cup Permutations(Callers)
=============================================================================
