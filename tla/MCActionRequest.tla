-------------------------- MODULE MCActionRequest --------------------------
(* ActionRequest needs no definitions of its own: two requests and one slot, *)
(* so that the second one finds the service full, or the broker occupied.    *)
EXTENDS ActionRequest
=============================================================================
