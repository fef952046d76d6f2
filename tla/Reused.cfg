SPECIFICATION Spec
CONSTANTS
    Conns = {c1, c2}
    Tuples = {t1}
    Cap = 1
    MaxSent = 2
INVARIANTS
    KnownH2
CHECK_DEADLOCK FALSE
