SPECIFICATION Spec
CONSTANTS
    Qubits = {0, 1, 2}
    THRES_PART_FAIL <- MCPartFail
    THRES_PART_DO = 1
    ElementSize = 1
    Contexts <- MCContexts
    ImportChunk = 3
    Gates1 <- MCGates
    Queues <- MCQueues
    Imports <- MCImports
    MaxCalls = 2
    CompileQueue <- Compile
    RunCode <- Perform
    CodeWrites <- Modified
INVARIANTS
    MeasureReturns
CHECK_DEADLOCK FALSE
