\* One account, two admins, faults, clients that may leave expectedVersion out.
CONSTANTS
    c1 = c1
    c2 = c2
    Clients = {c1, c2}
    Ids = {a1}
    Numbers = {n1}
    Details = {"old", "new"}
    Deposits = {0, 1}
    Null = Null
    RoleOf <- TwoAdmins
    MaxAttempts = 2
    MaxVersion = 1
    Versioned = FALSE
    UniqueIndex = TRUE
    Crashes = TRUE
    AuditFails = FALSE
    Uses <- AllButReads
SPECIFICATION Spec
INVARIANTS
    IndInv
    VersionIdentifiesContent
    AuditTruthful
PROPERTIES
    NoLostUpdate
    ImplementsLifecycle
SYMMETRY Interchangeable
