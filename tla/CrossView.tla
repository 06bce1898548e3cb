------------------------------ MODULE CrossView ------------------------------
(***************************************************************************)
(* What every detector of the tool promises: cross-view detection.         *)
(*                                                                         *)
(* A round probes every item by brute force, then takes the listing that   *)
(* the system offers, and then probes again the items that were found and  *)
(* not listed; those that are still there are reported                     *)
(* (src/src/sh-atrk.sh: find_hidden_ps and its two siblings,               *)
(* findHiddenTcpPort).                                                     *)
(*                                                                         *)
(* The system changes while a round runs and no stage is atomic, so a      *)
(* stage is specified by its window: it finds everything that was there    *)
(* during the whole stage, nothing that was there at no moment of it, and  *)
(* any part of the rest.                                                   *)
(***************************************************************************)
CONSTANT Items       \* what is looked for: process ids, ports, names

VARIABLES
    stage,           \* "idle", "brute", "list", "recheck"
    present,         \* items the probe of this round can find now
    shown,           \* items the listing can show now
    was, still,      \* found at some moment / at every moment of the stage
    probed, listed,  \* results of the first two stages
    report,          \* result of the round
    openly,          \* items shown at every moment of the round
    secretly         \* items present and not shown at every moment of the round

world == <<present, shown>>
vars == <<stage, world, was, still, probed, listed, report, openly, secretly>>

TypeOK ==
    /\ stage \in {"idle", "brute", "list", "recheck"}
    /\ present \subseteq Items /\ shown \subseteq Items
    /\ was \subseteq Items /\ still \subseteq Items
    /\ probed \subseteq Items /\ listed \subseteq Items
    /\ report \subseteq Items
    /\ openly \subseteq Items /\ secretly \subseteq Items

Init ==
    /\ stage = "idle"
    /\ present \in SUBSET Items /\ shown \in SUBSET Items
    /\ was = {} /\ still = {}
    /\ probed = {} /\ listed = {} /\ report = {}
    /\ openly = {} /\ secretly = {}

-----------------------------------------------------------------------------
(* Mutant of Suspects: the two lists are swapped.                          *)
SuspectsSwapped == listed \ probed

(* What was found and not listed.                                          *)
Suspects == probed \ listed

(* The set a stage looks at.                                               *)
Target(st, p, sh) == IF st = "list" THEN sh ELSE p

OpenWindow(st) == was' = Target(st, present', shown') /\ still' = was'

(* A result the stage may have.                                            *)
InWindow(S) == still \subseteq S /\ S \subseteq was

(* The system changes.                                                     *)
World ==
    /\ present' \in SUBSET Items /\ shown' \in SUBSET Items
    /\ IF stage = "idle"
       THEN UNCHANGED <<was, still, openly, secretly>>
       ELSE /\ was' = was \union Target(stage, present', shown')
            /\ still' = still \intersect Target(stage, present', shown')
            /\ openly' = openly \intersect shown'
            /\ secretly' = secretly \intersect (present' \ shown')
    /\ UNCHANGED <<stage, probed, listed, report>>

Begin ==
    /\ stage = "idle"
    /\ stage' = "brute"
    /\ present' \in SUBSET Items /\ UNCHANGED shown
    /\ OpenWindow("brute")
    /\ openly' = shown' /\ secretly' = present' \ shown'
    /\ report' = {}
    /\ UNCHANGED <<probed, listed>>

EndBrute ==
    /\ stage = "brute"
    /\ stage' = "list"
    /\ \E S \in SUBSET Items : InWindow(S) /\ probed' = S
    /\ UNCHANGED world /\ OpenWindow("list")
    /\ UNCHANGED <<listed, report, openly, secretly>>

EndList ==
    /\ stage = "list"
    /\ stage' = "recheck"
    /\ \E S \in SUBSET Items : InWindow(S) /\ listed' = S
    /\ UNCHANGED world /\ OpenWindow("recheck")
    /\ UNCHANGED <<probed, report, openly, secretly>>

EndRecheck ==
    /\ stage = "recheck"
    /\ stage' = "idle"
    /\ \E S \in SUBSET Items : InWindow(S) /\ report' = S \intersect Suspects
    /\ probed' = {} /\ listed' = {}
    /\ UNCHANGED <<world, was, still, openly, secretly>>

Next == World \/ Begin \/ EndBrute \/ EndList \/ EndRecheck

Spec == Init /\ [][Next]_vars

-----------------------------------------------------------------------------
(* An item that the listing shows during the whole round is never          *)
(* reported: the probe comes before the listing.                           *)
NoFalseAlarm == report \intersect openly = {}

(* An item that the probe can find and the listing does not show during    *)
(* the whole round is reported by it.                                      *)
HiddenReported == stage = "idle" => secretly \subseteq report

=============================================================================
