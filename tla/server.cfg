\* Three connections.
CONSTANTS
    Conns = {c1, c2, c3}
SPECIFICATION FairSpec
INVARIANTS
    TypeOK
    CleanExitCutsNothing
    ReadyFollowsDriver
PROPERTIES
    ShutdownEnds
