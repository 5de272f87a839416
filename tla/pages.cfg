\* Two accounts, two filters, two pages, three entries of history, two calls.
CONSTANTS
    Ids = {x, y}
    Kinds = {any, one}
    AnyKind = any
    MaxPages = 2
    MaxHistory = 3
    MaxCalls = 2
    Null = Null
SPECIFICATION FairSpec
INVARIANTS
    TypeOK
    RowsMatchFilters
    DetailShowsAddressed
    WritesAddressShown
    NeverRendersNull
PROPERTIES
    SpinnerEnds
