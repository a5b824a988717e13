-------------------------- MODULE MCSfreeCompiler ---------------------------
EXTENDS SfreeCompiler

\* Phases, toggles and swaps of three qubits; most depend on qubit 0, with both
\* values, and some toggle it, so that splits, toggled controls and swaps of
\* toggled qubits all meet.
MCOperations ==
    LET both(q, v, r, w) == WithQubit(Single(q, v), r, w)
    IN  {OpX(Always, {0}), OpX(Always, {1}),
         OpX(Single(0, TRUE), {1}), OpX(both(0, FALSE, 1, TRUE), {2}),
         OpSwap(Always, 0, 1), OpSwap(Single(0, FALSE), 1, 2),
         OpPhase(Single(0, TRUE), PI_1_2), OpPhase(Single(0, FALSE), PI_1_2),
         OpPhase(both(0, TRUE, 1, FALSE), PI), OpPhase(Single(1, TRUE), PI_3_2)}

\* The value of THRES_PART_FAIL in the source.
MCPartFail == -2
=============================================================================
