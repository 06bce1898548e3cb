------------------------------ MODULE MCTcpScan ------------------------------
(* Small instances of TcpScan for TLC.                                     *)
EXTENDS TcpScan

(* Both kinds of port: 1 is below the ephemeral range, the others in it.   *)
MCEphemeral == 2..MaxPort

=============================================================================
