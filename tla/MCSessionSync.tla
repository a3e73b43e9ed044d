---------------------------- MODULE MCSessionSync ----------------------------
(* A log of a few entries, two that decode and one that does not. *)
EXTENDS SessionSync
=============================================================================
