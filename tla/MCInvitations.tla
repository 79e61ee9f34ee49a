--------------------------- MODULE MCInvitations ---------------------------
(* Instances of Invitations for TLC: all grants are for one page. *)
EXTENDS Invitations

CONSTANTS p1

MCPages == {p1}
MCPageOf == [g \in Grants |-> p1]
=============================================================================
