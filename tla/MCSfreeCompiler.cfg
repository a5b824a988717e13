SPECIFICATION Spec
CONSTANTS
    Qubits = {0, 1, 2}
    THRES_PART_FAIL <- MCPartFail
    THRES_PART_DO = 1
    Operations <- MCOperations
    MaxOps = 5
PROPERTIES
    CompileCorrect
