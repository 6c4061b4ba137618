SPECIFICATION FairSpec
CONSTANTS
    c1 = c1
    c2 = c2
    Conns = {c1, c2}
    MaxSignals = 3
INVARIANTS
    TypeOK
    ExitCodeHonest
    NeverWaitsForTdarr
PROPERTY ExitsWhenAsked
CHECK_DEADLOCK FALSE
