--------------------------- MODULE MCGatewayKernel ---------------------------
(* Small instances of the kernel: at most two of everything. *)
EXTENDS GatewayKernel

MCHash == [c \in 0 .. MaxSessions - 1 |-> <<"session", c>>]
MCSessionId == {<<"session", c>> : c \in 0 .. 1}
=============================================================================
