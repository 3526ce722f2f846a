\* Four threads, every interleaving of their atomic operations.
SPECIFICATION FsmSpec
CONSTANTS
    t1 = t1
    t2 = t2
    t3 = t3
    t4 = t4
    Callers = {t1, t2, t3, t4}
INVARIANTS NoPanic OnePlace
PROPERTY ComesBack
CHECK_DEADLOCK FALSE
