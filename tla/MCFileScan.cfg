CONSTANTS
    f1 = f1
    f2 = f2
    NDirs = 2
    Names <- MCNames
    NBlocks = 2
    Builds = {"e2fsprogs", "debugfs"}
    ReadParent = 1
    MaxChanges = 1
SPECIFICATION MCSpec
SYMMETRY MCSymmetry
INVARIANTS DumpFits PlainNotReported HiddenFound QuietNotSuspicious
