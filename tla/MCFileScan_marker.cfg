CONSTANTS
    f1 = f1
    f2 = f2
    NDirs = 1
    Names <- MCOneName
    NBlocks = 1
    Builds = {"e2fsprogs"}
    ReadParent = 1
    MaxChanges = 0
SPECIFICATION Spec
INVARIANT MarkerIncluded
