---------------------------- MODULE MCStrategySelect ----------------------------
(* Small instances of StrategySelect for TLC. *)
EXTENDS StrategySelect, TLC

CONSTANTS t1, t2

Two    == {t1, t2}
Sym    == Permutations(Threads)
AllOps == Operation

\* Every key and both kinds of client where the first call chooses between free
\* and paid; elsewhere what the key's form cannot change is left out.
MCConfig(freeCalls, key, via, webSocket) ==
    [freeCalls |-> freeCalls, key |-> key, via |-> via, webSocket |-> webSocket]
MCConfigs ==
    {MCConfig(TRUE, "none", "core", TRUE), MCConfig(TRUE, "plain", "organization", TRUE),
     MCConfig(TRUE, "prefixed", "core", TRUE), MCConfig(TRUE, "prefixed", "organization", TRUE),
     MCConfig(FALSE, "none", "organization", TRUE), MCConfig(FALSE, "plain", "core", TRUE),
     MCConfig(TRUE, "plain", "core", FALSE), MCConfig(TRUE, "prefixed", "core", FALSE)}
================================================================================
