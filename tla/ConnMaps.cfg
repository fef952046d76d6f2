SPECIFICATION FairSpec
CONSTANTS
    Conns = {c1, c2}
    Tuples = {t1, t2}
    Cap = 1
    MaxSent = 5
INVARIANTS
    TypeOK
    MarksKept
PROPERTIES
    EveryoneHeard
CHECK_DEADLOCK FALSE
