SPECIFICATION Spec
CONSTANTS
    Qubits = {0, 1}
    Compiled <- CompiledGraph
    THRES_PART_FAIL <- MCPartFail
    THRES_PART_DO = 1
    Widths = {0, 1}
    InitMaxQubit = 0
    Biases = 4
    Gates1 <- MCGates1
    Ctls <- MCCtls
    Angles = {1, 2}
    Imports <- MCImports
    MaxCalls = 3
INVARIANTS
    QueuesTidy
    Faithful
    InBounds
    BlocksSound
PROPERTIES
    ReportsTrue
