------------------------------- MODULE PortScan -------------------------------
(***************************************************************************)
(* What one call of the port scanner, `atrk tcp -w5 ip first last`,        *)
(* promises to the script that reads its output: src/src/atrk.c 90-232     *)
(* seen from src/src/sh-atrk.sh.                                           *)
(*                                                                         *)
(* It prints ports of the range, each at most once and each at a moment at *)
(* which it answers.  A port that answers during the whole call is printed *)
(* unless the environment failed a call about it or answered too late.     *)
(***************************************************************************)
CONSTANT Ports

VARIABLES
    busy,        \* the scanner runs
    range,       \* ports it was asked about
    answering,   \* ports that accept a connection now
    found,       \* ports printed so far
    owed         \* those of range that have answered since the start, no call failed

vars == <<busy, range, answering, found, owed>>

Init ==
    /\ busy = TRUE
    /\ range \in SUBSET Ports
    /\ answering \in SUBSET Ports
    /\ found = {}
    /\ owed = range \intersect answering

(* The script starts the scanner on the ports of R.                        *)
Start(R) ==
    /\ ~busy /\ busy' = TRUE
    /\ range' = R
    /\ found' = {}
    /\ owed' = R \intersect answering
    /\ UNCHANGED answering

(* Services come and go.                                                   *)
World ==
    /\ answering' \in SUBSET Ports
    /\ owed' = owed \intersect answering'
    /\ UNCHANGED <<busy, range, found>>

(* The environment fails calls about some ports.                           *)
Lose ==
    /\ owed' \in SUBSET owed
    /\ UNCHANGED <<busy, range, answering, found>>

(* A port is printed; calls about others may fail with it.                 *)
Find(p) ==
    /\ busy
    /\ p \in (range \intersect answering) \ found
    /\ found' = found \union {p}
    /\ owed' \in SUBSET owed
    /\ UNCHANGED <<busy, range, answering>>

End ==
    /\ busy /\ busy' = FALSE
    /\ owed \subseteq found
    /\ UNCHANGED <<range, answering, found, owed>>

Next == World \/ Lose \/ End \/ \E p \in Ports : Find(p)

(* One call.                                                               *)
Spec == Init /\ [][Next]_vars

=============================================================================
