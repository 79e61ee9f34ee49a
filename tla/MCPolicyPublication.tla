------------------------ MODULE MCPolicyPublication ------------------------
(* PolicyPublication with one page: the pages are independent. *)
EXTENDS PolicyPublication
=============================================================================
