--------------------------- MODULE MCMetadataRegistry ---------------------------
(* Small instances of MetadataRegistry for TLC. *)
EXTENDS MetadataRegistry, TLC

CONSTANTS t1, t2, name1, name2, key1, key2, o1, o2, s1, m1

TwoThreads  == {t1, t2}
TwoNames    == {name1, name2}
TwoKeys     == {key1, key2}
FirstBytes  == name1 :> key1 @@ name2 :> key2
TwoOrgMetas == {o1, o2}
Named       == o1 :> name1 @@ o2 :> name2
OneService  == {s1}
OneSrvMeta  == {m1}
Sym         == Permutations(TwoThreads)
================================================================================
