CONSTANTS
    Inodes <- MCInodes
    NDirect = 2
    MaxDepth = 3
    Volumes <- MCVolumes
    PerBlock = 8
SPECIFICATION Spec
INVARIANTS TypeOK BlocksListed ListedInOrder SlotsIndependent 
    ReadingsAgree DirectoryRead 
PROPERTIES FhfAdvances FhfTerminates
