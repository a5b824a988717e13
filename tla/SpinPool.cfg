SPECIFICATION FairSpec
CONSTANTS
    N = 4
    Items = {i1, i2, i3}
    NoItem = NoItem
    MaxScopes = 2
INVARIANTS
    WordExact
PROPERTIES
    ImplementsPool
    ScopeReturns
    WorkersExit
