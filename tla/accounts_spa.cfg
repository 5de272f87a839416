\* One account, two tabs of the SPA: every write carries expectedVersion.
CONSTANTS
    c1 = c1
    c2 = c2
    Clients = {c1, c2}
    Ids = {a1}
    Numbers = {n1}
    Details = {"old", "new"}
    Deposits = {0}
    Null = Null
    RoleOf <- TwoAdmins
    MaxAttempts = 2
    MaxVersion = 2
    Versioned = TRUE
    Uses <- Ops
    UniqueIndex = TRUE
    Crashes = FALSE
    AuditFails = FALSE
SPECIFICATION Spec
INVARIANTS
    StatusTrailConnected
    AuditComplete
SYMMETRY Interchangeable
