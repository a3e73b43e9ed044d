--------------------------- MODULE MCSessionGateway ---------------------------
(* A small instance of the session side. *)
EXTENDS SessionGateway

MCHash == [c \in 0 .. MaxSessions - 1 |-> CHOOSE id \in SessionId : TRUE]
=============================================================================
