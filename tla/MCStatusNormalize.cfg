SPECIFICATION Spec
CONSTANTS
    Words = {"hold", "paused"}
    KnownWords <- MCKnownWords
    Values = {1, 2}
    MaxSlices = 2
    MaxPies = 2
INVARIANTS
    TypeOK
    Normalized
    UnknownCounted
CHECK_DEADLOCK FALSE
