------------------------------- MODULE Gates --------------------------------
(***************************************************************************)
(* The gates of the simulator and what they mean: src/src/u3.rs, the       *)
(* conversion to a matrix in src/src/u4.rs and the controls of             *)
(* src/src/qubit.rs.                                                       *)
(*                                                                         *)
(* Angles are quarter turns, so that every amplitude is a Gaussian integer *)
(* and all arithmetic is exact; Angle::round(PREC) does not change such an *)
(* angle, and the floating-point branch of from_yzy is never taken.  State *)
(* vectors are taken up to a non-zero factor, as gates are in the code     *)
(* ("Single-qubit gate up to global phase").                               *)
(***************************************************************************)
EXTENDS Integers, FiniteSets

CONSTANT Qubits              \* the indices of the qubits

ASSUME QubitsAssumption == Qubits \subseteq Nat /\ IsFiniteSet(Qubits)

-----------------------------------------------------------------------------
(* Angles, in quarter turns modulo a full turn                             *)

Angle == 0 .. 3
ZERO == 0
PI_1_2 == 1
PI == 2
PI_3_2 == 3
Turn(a) == a % 4             \* the wrapping arithmetic of Angle(u64)

-----------------------------------------------------------------------------
(* U3: rz(lambda), then ry(theta), then rz(phi)                            *)

\* U3::new: theta is brought to [0, pi], a diagonal or antidiagonal gate keeps
\* only phi.
NewU3(theta, phi, lambda) ==
    IF Turn(theta) = ZERO THEN [theta |-> ZERO, phi |-> Turn(phi + lambda), lambda |-> ZERO]
    ELSE IF Turn(theta) = PI THEN [theta |-> PI, phi |-> Turn(phi - lambda), lambda |-> ZERO]
    ELSE IF Turn(theta) > PI
         THEN [theta |-> Turn(-theta), phi |-> Turn(phi + PI), lambda |-> Turn(lambda + PI)]
    ELSE [theta |-> Turn(theta), phi |-> Turn(phi), lambda |-> Turn(lambda)]

U3 == {NewU3(th, ph, la) : th \in Angle, ph \in Angle, la \in Angle}

Rx(a) == NewU3(a, PI_3_2, PI_1_2)
Ry(a) == NewU3(a, ZERO, ZERO)
Rz(a) == [theta |-> ZERO, phi |-> Turn(a), lambda |-> ZERO]
GateI == Rz(ZERO)
GateX == [theta |-> PI, phi |-> PI, lambda |-> ZERO]
GateH == [theta |-> PI_1_2, phi |-> ZERO, lambda |-> PI]

\* Fault: the angle of the second rotation about y is not negated.
FromYzySameSign(ry1, rz, ry2) ==
    IF rz = ZERO THEN Ry(ry1 + ry2)
    ELSE IF rz = PI THEN NewU3(ry2 + ry1, ZERO, PI)
    ELSE IF ry1 = ZERO THEN NewU3(ry2, ZERO, rz)
    ELSE IF ry1 = PI THEN NewU3(ry2 + PI, ZERO, -rz)
    ELSE IF ry2 = ZERO THEN NewU3(ry1, rz, ZERO)
    ELSE IF ry2 = PI THEN NewU3(ry1 + PI, -rz, ZERO)
    ELSE NewU3(PI - rz, PI_1_2, PI_1_2)

\* U3::from_yzy, whose exact branches are all there is for quarter turns.
FromYzy(ry1, rz, ry2) ==
    IF rz = ZERO THEN Ry(ry1 + ry2)
    ELSE IF rz = PI THEN NewU3(ry2 - ry1, ZERO, PI)
    ELSE IF ry1 = ZERO THEN NewU3(ry2, ZERO, rz)
    ELSE IF ry1 = PI THEN NewU3(ry2 + PI, ZERO, -rz)
    ELSE IF ry2 = ZERO THEN NewU3(ry1, rz, ZERO)
    ELSE IF ry2 = PI THEN NewU3(ry1 + PI, -rz, ZERO)
    ELSE NewU3(PI - rz, PI_1_2, PI_1_2)

\* U3::compose: a, then b.
Compose(a, b) ==
    LET r == FromYzy(a.theta, Turn(a.phi + b.lambda), b.theta)
    IN  NewU3(r.theta, r.phi + b.phi, a.lambda + r.lambda)

\* U3::adjoint
Adjoint(g) == NewU3(-g.theta, -g.lambda, -g.phi)

None == [some |-> FALSE]
IsSfree(g) == g.theta \in {ZERO, PI}

\* U3::to_cx_rz: an optional x, then rz.
ToCxRz(g) ==
    IF g.theta = ZERO THEN [some |-> TRUE, x |-> FALSE, rz |-> Turn(g.phi + g.lambda)]
    ELSE IF g.theta = PI THEN [some |-> TRUE, x |-> TRUE, rz |-> Turn(PI + g.phi - g.lambda)]
    ELSE None

\* Fault: a forgotten sign.
ToRzRxSameSign(g) ==
    IF g.theta = ZERO THEN [some |-> TRUE, rz |-> Turn(g.phi + g.lambda), rx |-> ZERO]
    ELSE IF g.theta = PI THEN [some |-> TRUE, rz |-> Turn(PI - g.phi + g.lambda), rx |-> PI]
    ELSE IF g.phi = PI_3_2 THEN [some |-> TRUE, rz |-> Turn(g.lambda - PI_1_2), rx |-> g.theta]
    ELSE IF g.phi = PI_1_2 THEN [some |-> TRUE, rz |-> Turn(g.lambda + PI_1_2), rx |-> g.theta]
    ELSE None

\* U3::to_rz_rx
ToRzRx(g) ==
    IF g.theta = ZERO THEN [some |-> TRUE, rz |-> Turn(g.phi + g.lambda), rx |-> ZERO]
    ELSE IF g.theta = PI THEN [some |-> TRUE, rz |-> Turn(PI - g.phi + g.lambda), rx |-> PI]
    ELSE IF g.phi = PI_3_2 THEN [some |-> TRUE, rz |-> Turn(g.lambda - PI_1_2), rx |-> g.theta]
    ELSE IF g.phi = PI_1_2 THEN [some |-> TRUE, rz |-> Turn(g.lambda + PI_1_2), rx |-> Turn(-g.theta)]
    ELSE None

\* U3::to_rz_h_rz
ToRzHRz(g) ==
    IF g.theta # PI_1_2 THEN None
    ELSE [some |-> TRUE, rz1 |-> Turn(g.lambda - PI), rz2 |-> g.phi]

-----------------------------------------------------------------------------
(* Amplitudes: Gaussian integers <<re, im>>                                *)

CZero == <<0, 0>>
CAdd(a, b) == <<a[1] + b[1], a[2] + b[2]>>
CMul(a, b) == <<a[1] * b[1] - a[2] * b[2], a[1] * b[2] + a[2] * b[1]>>
Norm(a) == a[1] * a[1] + a[2] * a[2]

\* Complex::from_arg
Phase(a) == CASE a = 0 -> <<1, 0>> [] a = 1 -> <<0, 1>> [] a = 2 -> <<-1, 0>> [] a = 3 -> <<0, -1>>

\* U4::from(U3), times the square root of 2 when theta is pi/2: the entry in
\* row r and column c.
U4(g, r, c) ==
    CASE r = 0 /\ c = 0 -> IF g.theta = PI THEN CZero ELSE <<1, 0>>
      [] r = 1 /\ c = 0 -> IF g.theta = ZERO THEN CZero ELSE Phase(g.phi)
      [] r = 0 /\ c = 1 -> IF g.theta = ZERO THEN CZero ELSE Phase(Turn(g.lambda + PI))
      [] r = 1 /\ c = 1 -> IF g.theta = PI THEN CZero ELSE Phase(Turn(g.phi + g.lambda))

\* A state vector gives every set of qubits (the ones that read 1) an amplitude.
Basis == SUBSET Qubits

\* The single-qubit gate g on qubit q.
ApplyU3(amp, q, g) ==
    [b \in Basis |->
        LET r == IF q \in b THEN 1 ELSE 0
        IN  CAdd(CMul(U4(g, r, 0), amp[b \ {q}]), CMul(U4(g, r, 1), amp[b \cup {q}]))]

\* Two state vectors are equal up to a factor.
SameRay(a, b) ==
    \E x \in Basis :
        /\ a[x] # CZero /\ b[x] # CZero
        /\ \A y \in Basis : CMul(a[x], b[y]) = CMul(a[y], b[x])

\* A representative of a state vector: common factors 1 + i are divided out,
\* which is what keeps the numbers small.
Vectors == [Basis -> Int \X Int]

Reduce[amp \in Vectors] ==
    IF (\A b \in Basis : (amp[b][1] + amp[b][2]) % 2 = 0) /\ (\E b \in Basis : amp[b] # CZero)
    THEN Reduce[[b \in Basis |-> <<(amp[b][1] + amp[b][2]) \div 2, (amp[b][2] - amp[b][1]) \div 2>>]]
    ELSE amp

-----------------------------------------------------------------------------
(* Controls: the qubits a gate depends on, with the wanted value           *)

Controls == UNION {[S -> BOOLEAN] : S \in SUBSET Qubits}
Always == [q \in {} |-> TRUE]
Uses(ctl, q) == q \in DOMAIN ctl
Single(q, v) == [x \in {q} |-> v]
WithQubit(ctl, q, v) == [x \in DOMAIN ctl \cup {q} |-> IF x = q THEN v ELSE ctl[x]]
WithoutQubit(ctl, q) == [x \in DOMAIN ctl \ {q} |-> ctl[x]]
InplaceToggleIf(ctl, S) == [x \in DOMAIN ctl |-> IF x \in S THEN ~ctl[x] ELSE ctl[x]]
Holds(ctl, bits) == \A q \in DOMAIN ctl : ctl[q] = (q \in bits)
=============================================================================
