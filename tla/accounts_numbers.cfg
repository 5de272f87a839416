\* Two ids and one number, so that the allocation is raced for and often
\* exhausted; an admin and an officer; processes die and entries are refused.
CONSTANTS
    c1 = c1
    c2 = c2
    Clients = {c1, c2}
    Ids = {a1, a2}
    Numbers = {n1}
    Details = {"old"}
    Deposits = {0}
    Null = Null
    RoleOf <- AdminAndOfficer
    MaxAttempts = 2
    MaxVersion = 1
    Versioned = TRUE
    Uses <- Retiring
    UniqueIndex = TRUE
    Crashes = TRUE
    AuditFails = TRUE
SPECIFICATION FairSpec
INVARIANTS
    UniqueNumbers
PROPERTIES
    Answered
