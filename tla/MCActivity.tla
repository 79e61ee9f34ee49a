----------------------------- MODULE MCActivity -----------------------------
(* Activity with two grants and two threads, which are interchangeable. *)
EXTENDS Activity, TLC

CONSTANTS g1, g2, w1, w2

GrantSet == {g1, g2}
WorkerSet == {w1, w2}
Symmetry == Permutations(GrantSet) \union Permutations(WorkerSet)

\* Remaining is the selection it stands for.
ASSUME RemainingSelects ==
    \A n \in 0 .. 4 : \A e \in [1 .. n -> GrantSet], gone \in SUBSET GrantSet :
        Remaining(e, gone) = {SelectSeq(e, LAMBDA g : g \notin gone)}
=============================================================================
