CONSTANTS
    i1 = i1
    i2 = i2
    Items <- MCItems
SPECIFICATION Spec
INVARIANTS NoFalseAlarm HiddenReported
