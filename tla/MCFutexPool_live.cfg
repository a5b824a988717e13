SPECIFICATION FairSpec
CONSTANTS
    N = 3
    Items = {i1, i2}
    NoItem = NoItem
    MaxSpin = 1
    MaxScopes = 1
PROPERTIES
    ImplementsPool
    NoLostWakeup
    ScopeReturns
    WorkersExit
