\* As browser, with at most two activities at once: every one of them ends.
CONSTANTS
    t1 = t1
    t2 = t2
    a1 = a1
    a2 = a2
    a3 = a3
    Tabs = {t1, t2}
    Activities = {a1, a2, a3}
    TabOf <- TwoAndOne
    MaxIssues = 3
    MaxLosses = 1
    Null = Null
SPECIFICATION FairSpec
PROPERTIES
    ActivitiesEnd
