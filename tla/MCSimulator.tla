---------------------------- MODULE MCSimulator -----------------------------
EXTENDS Simulator, SfreeCode

\* A dense vector without symmetries that could hide a wrong gate.
MCImports == {<< <<1, 0>>, <<2, 1>>, <<0, 3>>, <<-1, 4>> >>}

\* H, a quarter turn about x, and an H with a Z behind it; quarter turns about
\* z come from ctl_phase() with a single control.
MCGates1 == {GateH, Rx(PI_1_2), Compose(GateH, Rz(PI))}

\* Every control of two qubits.
MCCtls == {Always, Single(0, TRUE), Single(0, FALSE), Single(1, TRUE), Single(1, FALSE)}
            \cup {WithQubit(Single(0, v), 1, w) : v, w \in BOOLEAN}

\* For three qubits: a vector that again has no symmetry, a Hadamard gate with a
\* phase before it, and controls on up to three qubits.
MCImports3 == {<< <<1, 0>>, <<2, 1>>, <<0, 3>>, <<-1, 4>>, <<5, 0>>, <<1, -2>>, <<0, -7>>, <<3, 2>> >>}
MCGates3 == {Compose(Rz(PI_1_2), GateH)}
MCCtls3 == {WithQubit(Single(0, TRUE), 1, TRUE), Single(2, FALSE), [q \in {0, 1, 2} |-> TRUE]}

\* The value of THRES_PART_FAIL in the source.
MCPartFail == -2
=============================================================================
