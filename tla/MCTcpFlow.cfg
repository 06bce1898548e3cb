CONSTANTS
    p1 = p1
    p2 = p2
    Ports <- MCPorts
    Cloaks <- MCCloaks
    MaxChanges = 2
SPECIFICATION FairSpec
INVARIANTS OpenNotAccused SecretFound
PROPERTIES FlowAdvances FlowTerminates
