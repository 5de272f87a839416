\* A refresh is in flight when the password changes.
CONSTANTS
    Workers = {w1, w2}
    Tokens = {t1, t2, t3, t4}
    AbsoluteTtl = 2
    IdleTimeout = 0
    MaxTime = 2
    MaxPassword = 1
    Crashes = FALSE
    Null = Null
SPECIFICATION Spec
INVARIANTS
    EvictedStaysEvicted
