SPECIFICATION Spec
CONSTANTS
    Qubits = {0, 1, 2}
    Compiled <- CompiledGraph
    THRES_PART_FAIL <- MCPartFail
    THRES_PART_DO = 1
    Widths = {0, 2}
    InitMaxQubit = 0
    Biases = 2
    Gates1 <- MCGates3
    Ctls <- MCCtls3
    Angles = {2}
    Imports <- MCImports3
    MaxCalls = 4
INVARIANTS
    Faithful
