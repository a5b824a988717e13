SPECIFICATION Spec
CONSTANTS
    Qubits = {0, 1}
INVARIANTS
    AlgebraCorrect
    DecompositionsCorrect
