----------------------------- MODULE CommittedLog -----------------------------
(***************************************************************************)
(* What a session promises a participant: an append-only log, and a prefix *)
(* of it that the participant has learned, which only grows.  How entries  *)
(* travel is left open.                                                    *)
(***************************************************************************)
EXTENDS Integers, Sequences

CONSTANT Payload

VARIABLES log, prefix
vars == <<log, prefix>>

\* A set of positions without a hole: it holds every position before each of
\* its own.
HoleFree(I) == \A i \in I : 1 .. i \subseteq I

Init == log = <<>> /\ prefix = <<>>

Commit == \E e \in Payload : log' = Append(log, e) /\ UNCHANGED prefix

Learn ==
  \E I \in SUBSET DOMAIN log :
    /\ HoleFree(I)
    /\ DOMAIN prefix \subseteq I
    /\ prefix' = [i \in I |-> log[i]]
    /\ UNCHANGED log

Next == Commit \/ Learn
Spec == Init /\ [][Next]_vars
=============================================================================
