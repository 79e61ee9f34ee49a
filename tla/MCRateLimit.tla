---------------------------- MODULE MCRateLimit ----------------------------
(* RateLimit with two threads and two keys, which are interchangeable. *)
EXTENDS RateLimit, TLC

CONSTANTS k1, k2, t1, t2

KeySet == {k1, k2}
ThreadSet == {t1, t2}
KindSet == {"window", "interval"}
Symmetry == Permutations(ThreadSet) \union Permutations(KeySet)
=============================================================================
