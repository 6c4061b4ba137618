SPECIFICATION Spec
CONSTANTS
    c1 = c1
    c2 = c2
    Conns = {c1, c2}
    MaxSignals = 3
INVARIANT SecondSignalForces
CHECK_DEADLOCK FALSE
