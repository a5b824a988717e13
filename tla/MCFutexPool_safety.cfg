SPECIFICATION Spec
CONSTANTS
    N = 3
    Items = {i1, i2, i3}
    NoItem = NoItem
    MaxSpin = 1
    MaxScopes = 2
SYMMETRY ItemSymmetry
INVARIANTS
    TypeOK
    MutualExclusion
    IdleCount
    ExitOnlyWhenStopped
    WorkFlag
    ScopeComplete
    Asserts
