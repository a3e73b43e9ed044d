---------------------------- MODULE MCJobGateway ----------------------------
(* Small instances of the job side. *)
EXTENDS JobGateway, TLC

MCOffers == [c \in Connection |-> Capability]
MCWants == [s \in Stream |-> CHOOSE c \in Capability : TRUE]
MCHash == <<>>

\* Connections and streams are interchangeable; worker ids are ordered.
MCSymmetry == Permutations(Connection) \union Permutations(Stream)
=============================================================================
