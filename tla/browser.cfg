\* Two tabs, one of them with two activities at once.
CONSTANTS
    t1 = t1
    t2 = t2
    a1 = a1
    a2 = a2
    a3 = a3
    Tabs = {t1, t2}
    Activities = {a1, a2, a3}
    TabOf <- TwoAndOne
    MaxIssues = 4
    MaxLosses = 1
    Null = Null
SPECIFICATION Spec
INVARIANTS
    TypeOK
    OneRefreshPerTab
    BurnExplained
    LogoutEndsFamily
    CsrfRefusalExplained
SYMMETRY Interchangeable
