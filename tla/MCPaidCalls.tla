------------------------------ MODULE MCPaidCalls ------------------------------
(* Small instances of PaidCalls for TLC. *)
EXTENDS PaidCalls, TLC

CONSTANTS t1, t2

One == {t1}
Two == {t1, t2}

AllOps  == Operation
Uploads == {"upload"}
Calls   == {"call"}
Sym     == Permutations(Threads)
================================================================================
