SPECIFICATION FairSpec
CONSTANTS
    N = 3
    Items = {i1, i2, i3}
    NoItem = NoItem
    MaxScopes = 2
INVARIANTS
    CountExact
PROPERTIES
    ImplementsPool
    NoLostWakeup
    ScopeReturns
    WorkersExit
