------------------------------ MODULE MCFileScan ------------------------------
(* Small instances of FileScan for TLC.                                    *)
EXTENDS FileScan, TLC

CONSTANTS f1, f2

MCNames == {f1, f2}

MCOneName == {f1}

(* Names are compared for equality only.                                   *)
MCSymmetry == Permutations(MCNames)

(* The scan starts with entries in one directory at most; the others get   *)
(* theirs during the scan.  Choices that make no difference are made once: *)
(* the disk before the sync, the build if the file system is xfs, and the  *)
(* reads of a parent that does not exist.                                  *)
MCInit ==
    /\ Init
    /\ Cardinality({d \in Dirs : \E f \in Names : files[d][f] # 0}) <= 1
    /\ disk = [d \in Dirs |-> [b \in Blocks |-> {}]]
    /\ fstype = "xfs" => build = "e2fsprogs"
    /\ ~hasParent => "parent" \notin filtered

MCSpec == MCInit /\ [][Next]_vars

=============================================================================
