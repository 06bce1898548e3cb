----------------------------- MODULE MCProcCross -----------------------------
(* A small instance of ProcCross for TLC.                                  *)
EXTENDS ProcCross

(* The limit is looked for; it leaves the last id out; it covers all ids.  *)
MCLimits == {0, MaxPid - 1, MaxPid}

MCLeaks == {2}

=============================================================================
