\* One operator, two requests at once, two runs of the seed; a history of two
\* over three passwords, so that a password can come back.
CONSTANTS
    Workers = {w1, w2}
    Seeds = {s1, s2}
    Passwords = {p1, p2, p3}
    HistorySize = 2
    MaxChanges = 4
    Null = Null
SPECIFICATION Spec
SYMMETRY Interchangeable
INVARIANTS
    TypeOK
    StaleSessionsExplained
    SeededIsOneTime
PROPERTIES
    RecentNotReused
