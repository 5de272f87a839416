\* One request at a time, which may die between any two of its steps.
CONSTANTS
    Workers = {w1}
    Tokens = {t1, t2, t3, t4}
    AbsoluteTtl = 3
    IdleTimeout = 1
    MaxTime = 4
    MaxPassword = 1
    Crashes = TRUE
    Null = Null
SPECIFICATION Spec
SYMMETRY Interchangeable
INVARIANTS
    IndInv
    AbsoluteTimeout
    ReuseIsTraceable
    OneLivePerFamily
    BurntStaysBurnt
    EvictedStaysEvicted
