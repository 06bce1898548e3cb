------------------------------ MODULE MCUdpScan ------------------------------
(* Small instances of UdpScan for TLC.                                     *)
EXTENDS UdpScan

=============================================================================
