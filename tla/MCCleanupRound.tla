--------------------------- MODULE MCCleanupRound ---------------------------
(* CleanupRound with two pages. *)
EXTENDS CleanupRound

CONSTANTS p1, p2

PageSet == {p1, p2}
=============================================================================
