---------------------------- MODULE MCEnrollment ----------------------------
(* Enrollment has no constants: one installation, one broker, one Connector. *)
EXTENDS Enrollment
=============================================================================
