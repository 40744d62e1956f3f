---------------------------- MODULE MCSqlxCache ----------------------------
(* Instances of the cache of bases for TLC. *)
EXTENDS SqlxCache, TLC

CONSTANTS t1, t2, t3, n1, n2, n3

TwoThreads == {t1, t2}
ThreeThreads == {t1, t2, t3}
OneName == {n1}
TwoNames == {n1, n2}
ThreeNames == {n1, n2, n3}
OneJanitor == {t1}

\* Threads other than the janitor, and names, are interchangeable.
Symm == Permutations(Thread \ Janitor) \union Permutations(Name)
=============================================================================
