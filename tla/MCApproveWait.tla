----------------------------- MODULE MCApproveWait -----------------------------
(* Small instances of ApproveWait for TLC. *)
EXTENDS ApproveWait, TLC

CONSTANTS c1, c2

One == {c1}
Two == {c1, c2}
Sym == Permutations(Clients)
================================================================================
