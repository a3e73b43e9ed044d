----------------------------- MODULE MCJobRelay -----------------------------
(* Small instances of the relay. *)
EXTENDS JobRelay, TLC

MCSymmetry == Permutations(Stream)
=============================================================================
