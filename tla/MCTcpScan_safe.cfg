CONSTANTS
    MaxPort = 4
    Batch = 2
    MaxFds = 5
    MaxLeaks = 1
    Ephemeral <- MCEphemeral
SPECIFICATION Spec
INVARIANTS TypeOK ArraysFit CountMatchesEpollSet ListenersFound PrintedOnce
PROPERTY ScansPorts
