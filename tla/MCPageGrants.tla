---------------------------- MODULE MCPageGrants ----------------------------
(* PageGrants with one page and one grant. *)
EXTENDS PageGrants

CONSTANTS p1, g1

OnePage == {p1}
OneGrant == {g1}
=============================================================================
