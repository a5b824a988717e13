----------------------------- MODULE SfreeQueue -----------------------------
(***************************************************************************)
(* The queue of superposition-free gates: src/src/sfree/queue.rs and       *)
(* gates.rs.  Such a gate maps a basis element to one basis element and a  *)
(* phase.                                                                  *)
(***************************************************************************)
EXTENDS Gates, Sequences, SequencesExt

-----------------------------------------------------------------------------
(* Operations: Op::Gphase, Op::X (or MultiX), Op::Swap under a control     *)

OpPhase(ctl, a) == [kind |-> "phase", ctl |-> ctl, a |-> a, on |-> {}]
OpX(ctl, S) == [kind |-> "x", ctl |-> ctl, a |-> ZERO, on |-> S]
OpSwap(ctl, q1, q2) == [kind |-> "swap", ctl |-> ctl, a |-> ZERO, on |-> {q1, q2}]

\* The qubits an operation writes.
OpWrites(op) == op.on

\* What it reads: its controls, and a swap its operands.
OpReads(op) == DOMAIN op.ctl \cup (IF op.kind = "swap" THEN op.on ELSE {})

\* What the operation does to an element: its bits and its phase.
PerformOp(op, elt) ==
    IF ~Holds(op.ctl, elt.bits) THEN elt
    ELSE CASE op.kind = "phase" -> [elt EXCEPT !.phase = Turn(@ + op.a)]
           [] op.kind = "x" -> [elt EXCEPT !.bits = SymDiff(@, op.on)]
           [] op.kind = "swap" ->
                IF Cardinality(op.on \cap elt.bits) # 1 THEN elt
                ELSE [elt EXCEPT !.bits = SymDiff(@, op.on)]

\* The queue's operations one after the other: what they are meant to do.
PerformOps(ops, elt) == FoldLeft(LAMBDA e, op : PerformOp(op, e), elt, ops)

-----------------------------------------------------------------------------
(* Queue: the operations and the qubits they read and write                *)

EmptyQueue == [ops |-> <<>>, reads |-> {}, writes |-> {}]

\* Fault: the operands of a swap are not recorded as read.
PushWritesOnly(queue, op) ==
    [ops |-> Append(queue.ops, op),
     reads |-> queue.reads \cup DOMAIN op.ctl,
     writes |-> queue.writes \cup OpWrites(op)]

\* Queue::x, ctl_phase, ctl_x, ctl_swap
Push(queue, op) ==
    [ops |-> Append(queue.ops, op),
     reads |-> queue.reads \cup OpReads(op),
     writes |-> queue.writes \cup OpWrites(op)]

\* Fault: only written qubits block.
BlocksOnWriteOnly(queue, q, gate) == q \in queue.writes

\* Queue::blocks: may the gate on q not be moved in front of the queue?
Blocks(queue, q, gate) ==
    LET d == ToRzRx(gate)
    IN  \/ (d.some => d.rx # ZERO) /\ q \in queue.reads
        \/ (d.some => d.rz # ZERO) /\ q \in queue.writes

-----------------------------------------------------------------------------
\* The effect on a state vector of a one-to-one map of the basis, given as the
\* set of pairs of an element and its image.
Mapped(amp, graph) ==
    [c \in Basis |->
        LET e == CHOOSE e \in graph : e.to.bits = c
        IN  CMul(Phase(e.to.phase), amp[e.from])]

Element(b) == [bits |-> b, phase |-> ZERO]
Graph(ops) == {[from |-> b, to |-> PerformOps(ops, Element(b))] : b \in Basis}
ApplyOps(amp, ops) == Mapped(amp, Graph(ops))
=============================================================================
