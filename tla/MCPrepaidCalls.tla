----------------------------- MODULE MCPrepaidCalls -----------------------------
(* A small instance of PrepaidCalls for TLC. *)
EXTENDS PrepaidCalls, TLC

CONSTANTS t1, t2

Sym == Permutations(Threads)
================================================================================
