----------------------------- MODULE MCCrossView -----------------------------
(* CrossView on a few items.                                               *)
EXTENDS CrossView

CONSTANTS i1, i2

MCItems == {i1, i2}

=============================================================================
