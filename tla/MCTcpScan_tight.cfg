CONSTANTS
    MaxPort = 3
    Batch = 3
    MaxFds = 3
    MaxLeaks = 1
    Ephemeral <- MCEphemeral
SPECIFICATION FairSpec
INVARIANT NoPortSkipped
PROPERTIES  ScanAdvances ScanTerminates
