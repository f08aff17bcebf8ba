---------------------------- MODULE MCEnsureChannel ----------------------------
(* Instances of EnsureChannel for TLC. *)
EXTENDS EnsureChannel, TLC

CONSTANTS c1, c2

Two == {c1, c2}
One == {c1}
Sym == Permutations(Two)
================================================================================
