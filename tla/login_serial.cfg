\* One request at a time; the process may die between any two awaits.
CONSTANTS
    Workers = {w1}
    MaxFailedAttempts = 3
    LockFor = 2
    MaxTime = 5
    MaxWrong = 7
    Crashes = TRUE
    Null = Null
SPECIFICATION Spec
INVARIANTS
    TypeOK
    LocksAfterLimit
PROPERTIES
    ImplementsPolicy
    FailuresReported
