CONSTANTS
    MaxPid = 3
    Limits <- MCLimits
    Leaks <- MCLeaks
SPECIFICATION SpecH
PROPERTY MethodsAreRounds
INVARIANTS PlainNotAccused CloakedFound
