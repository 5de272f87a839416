\* Two requests at once, either of which may die: the lock is late, not lost.
CONSTANTS
    Workers = {w1, w2}
    MaxFailedAttempts = 3
    LockFor = 1
    MaxTime = 2
    MaxWrong = 9
    Crashes = TRUE
    Null = Null
SPECIFICATION Spec
INVARIANTS
    UndercountBounded
