------------------------------ MODULE MCTcpFlow ------------------------------
(* TcpFlow on two ports.                                                   *)
EXTENDS TcpFlow

CONSTANTS p1, p2

MCPorts == {p1, p2}

(* Nothing is hidden; all of a port; one socket of a port that may have    *)
(* others.                                                                 *)
MCCloaks == {{}, {p1} \X Kinds, {<<p1, "v4">>}}

=============================================================================
