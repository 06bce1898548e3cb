CONSTANTS
    Names <- MCNames
    NameLen <- MCNameLen
    Directories <- MCDirectories
SPECIFICATION Spec
INVARIANTS TypeOK NamesParsed StaysOnRecords
PROPERTIES ParseAdvances ParseTerminates
