---------------------------- MODULE GateAlgebra -----------------------------
(***************************************************************************)
(* Single-qubit gates as u3() composes them (src/src/u3.rs), next to the   *)
(* matrix product they stand for.  The product is kept as a state of two   *)
(* qubits: a gate applied to qubit 0 of the unnormalised |00> + |11> gives *)
(* a vector whose amplitudes are the entries of the gate's matrix.         *)
(***************************************************************************)
EXTENDS Gates

ASSUME TwoQubits == Qubits = {0, 1}

VARIABLES
    gate,      \* the composed gate, as QubitState.pending
    product,   \* the product of the matrices, as a vector
    last       \* the gate composed last

vars == <<gate, product, last>>

Bell == [b \in Basis |-> IF b \in {{}, Qubits} THEN <<1, 0>> ELSE CZero]

\* The matrices of a sequence of two gates, and of one.
Two(g, h) == ApplyU3(ApplyU3(Bell, 0, g), 0, h)
One(g) == ApplyU3(Bell, 0, g)

Init ==
    /\ gate = GateI
    /\ product = Bell
    /\ last = GateI

ComposeGate ==
    \E g \in U3 :
        /\ gate' = Compose(gate, g)
        /\ product' = Reduce[ApplyU3(product, 0, g)]
        /\ last' = g

Next == ComposeGate

Spec == Init /\ [][Next]_vars

-----------------------------------------------------------------------------
(* Properties                                                              *)

\* Composed gates stay in the form U3::new() brings a gate to: every later test
\* of theta, phi and lambda in the simulator relies on it.
TypeOK == gate \in U3 /\ last \in U3 /\ product \in [Basis -> Int \X Int]

\* U3::compose gives the product of the matrices, up to a factor, however long
\* the sequence of gates.
ComposeCorrect == SameRay(One(gate), product)

\* U3::adjoint inverts the composed gate, and reverses the order of factors.
AdjointCorrect ==
    /\ Compose(gate, Adjoint(gate)) = GateI
    /\ Adjoint(Compose(gate, last)) = Compose(Adjoint(last), Adjoint(gate))

\* compose and adjoint are the product and the inverse of matrices, in the normal
\* form that the simulator tests.
AlgebraCorrect == TypeOK /\ ComposeCorrect /\ AdjointCorrect

\* to_cx_rz, to_rz_rx and to_rz_h_rz give factors of the gate, and None only when
\* no factors of that form exist.
DecompositionsCorrect ==
    LET cx == ToCxRz(gate)
        zx == ToRzRx(gate)
        zhz == ToRzHRz(gate)
    IN  /\ IF cx.some
           THEN SameRay(Two(IF cx.x THEN GateX ELSE GateI, Rz(cx.rz)), product)
           ELSE \A x \in {GateI, GateX}, a \in Angle : ~SameRay(Two(x, Rz(a)), product)
        /\ IF zx.some
           THEN SameRay(Two(Rz(zx.rz), Rx(zx.rx)), product)
           ELSE \A a, b \in Angle : ~SameRay(Two(Rz(a), Rx(b)), product)
        /\ IF zhz.some
           THEN SameRay(ApplyU3(Two(Rz(zhz.rz1), GateH), 0, Rz(zhz.rz2)), product)
           ELSE \A a, b \in Angle : ~SameRay(ApplyU3(Two(Rz(a), GateH), 0, Rz(b)), product)
=============================================================================
