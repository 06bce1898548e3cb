------------------------------ MODULE ProcCross ------------------------------
(***************************************************************************)
(* Every method of ProcScan is a round of cross-view detection: ProcScan   *)
(* with the history variables of CrossView, and the refinement mapping.    *)
(***************************************************************************)
EXTENDS ProcScan

VARIABLES was, still, openly, secretly

history == <<was, still, openly, secretly>>
varsH == <<vars, history>>

Stage ==
    IF pc \in {"glob", "test1", "tids"} THEN "list"
    ELSE IF pc \in {"brute", "recheck"} THEN pc
    ELSE "idle"

Present == Probe(m) \intersect (2..bruteMPid)

Target == IF Stage = "list" THEN Shown ELSE Present

InitH == Init /\ was = {} /\ still = {} /\ openly = {} /\ secretly = {}

(* The window of a stage opens when the stage begins, and the round's when *)
(* its first stage does.                                                   *)
Record ==
    IF Stage' = "idle" THEN UNCHANGED history
    ELSE /\ was'   = IF Stage' = Stage THEN was \union Target' ELSE Target'
         /\ still' = IF Stage' = Stage THEN still \intersect Target' ELSE Target'
         /\ openly' = IF Stage = "idle" THEN Shown' ELSE openly \intersect Shown'
         /\ secretly' = IF Stage = "idle" THEN Present' \ Shown'
                                          ELSE secretly \intersect (Present' \ Shown')

NextH == Next /\ Record

SpecH == InitH /\ [][NextH]_varsH

Round == INSTANCE CrossView WITH
            Items <- Pids, stage <- Stage, present <- Present, shown <- Shown,
            probed <- psBrute, listed <- psNormal, report <- psHidden

(* Each of find_hidden_ps, find_hidden_ps2 and find_hidden_ps3 behaves as  *)
(* one round of CrossView, whatever the processes do between two of its    *)
(* system calls.                                                           *)
MethodsAreRounds == Round!Spec

=============================================================================
