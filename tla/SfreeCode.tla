----------------------------- MODULE SfreeCode ------------------------------
(***************************************************************************)
(* The compiler of the queue, src/src/sfree/queue.rs, and the code it      *)
(* makes, src/src/sfree/compiler.rs: a sequence of operations and of       *)
(* branches on a qubit.                                                    *)
(***************************************************************************)
EXTENDS SfreeQueue

CONSTANTS
    THRES_PART_FAIL,  \* give up looking for a common control at this score
    THRES_PART_DO     \* split on a control that at least so many gates allow

ASSUME ThresholdAssumption == THRES_PART_FAIL \in Int /\ THRES_PART_DO \in Nat \ {0}

-----------------------------------------------------------------------------
(* The compiler                                                            *)

\* eval_control: how good it is to split the operations on q, and how many
\* of them to take.
RECURSIVE EvalControl(_, _, _, _, _)
EvalControl(q, ops, i, score, best) ==
    IF i > Len(ops) \/ q \in OpWrites(ops[i]) THEN best
    ELSE LET s == IF Uses(ops[i].ctl, q) THEN score + 2 ELSE score - 1
             b == IF s > best.score THEN [score |-> s, len |-> i] ELSE best
         IN  IF s <= THRES_PART_FAIL THEN b ELSE EvalControl(q, ops, i + 1, s, b)

\* select_control: the first qubit with the highest score.
SelectControl(S, ops) ==
    LET eval(q) == EvalControl(q, ops, 1, 2, [score |-> 0, len |-> 0])
        best == {q \in S : \A r \in S : eval(r).score <= eval(q).score}
        q0 == CHOOSE q \in best : \A r \in best : q <= r
    IN  IF S = {} \/ eval(q0).score = 0 THEN [q |-> 0, len |-> 0]
        ELSE [q |-> q0, len |-> eval(q0).len]

\* The operations that run where qubit q reads v, without their control on q.
RECURSIVE Branch(_, _, _)
Branch(ops, q, v) ==
    IF ops = <<>> THEN <<>>
    ELSE LET op == Head(ops)
             rest == Branch(Tail(ops), q, v)
         IN  IF Uses(op.ctl, q) /\ op.ctl[q] # v THEN rest
             ELSE <<[op EXCEPT !.ctl = WithoutQubit(@, q)]>> \o rest

\* Compiled::from_gate and Compiled::from_pseq
Gate(op) == [type |-> "gate", op |-> op]
Pseq(q, if0, if1) == [type |-> "pseq", q |-> q, if0 |-> if0, if1 |-> if1]

\* Compiled::perform
RECURSIVE Perform(_, _)
Perform(code, elt) ==
    IF code = <<>> THEN elt
    ELSE LET g == Head(code)
         IN  Perform(Tail(code),
                     IF g.type = "gate" THEN PerformOp(g.op, elt)
                     ELSE IF g.q \in elt.bits THEN Perform(g.if1, elt) ELSE Perform(g.if0, elt))

\* push_phase drops a zero phase; push_toggle_many an empty set of qubits.
PushPhase(code, ctl, a) == IF a = ZERO THEN code ELSE Append(code, Gate(OpPhase(ctl, a)))
PushToggleMany(code, S) == IF S = {} THEN code ELSE Append(code, Gate(OpX(Always, S)))

\* Op::Swap moves a pending toggle with the qubit.
SwapToggled(toggled, op) ==
    IF Cardinality(op.on \cap toggled) # 1 THEN toggled
    ELSE SymDiff(toggled, op.on)

\* An operation under a control: pending toggles invert the control.  A swap of
\* a toggled with an untoggled qubit first performs the toggle.
CompileControlled(op, toggled, code) ==
    LET ctl == InplaceToggleIf(op.ctl, toggled)
        t == op.on \cap toggled
    IN  CASE op.kind = "phase" -> [toggled |-> toggled, code |-> PushPhase(code, ctl, op.a)]
          [] op.kind = "x" -> [toggled |-> toggled, code |-> Append(code, Gate([op EXCEPT !.ctl = ctl]))]
          [] op.kind = "swap" ->
               IF Cardinality(t) # 1
               THEN [toggled |-> toggled, code |-> Append(code, Gate([op EXCEPT !.ctl = ctl]))]
               ELSE [toggled |-> toggled \ t,
                     code |-> code \o <<Gate(OpX(Always, t)), Gate([op EXCEPT !.ctl = ctl])>>]

\* An operation without one: phases and toggles are only remembered.
CompileAlways(op, s) ==
    CASE op.kind = "phase" -> [s EXCEPT !.phase = Turn(@ + op.a)]
      [] op.kind = "x" -> [s EXCEPT !.toggled = SymDiff(@, op.on)]
      [] op.kind = "swap" -> [s EXCEPT !.toggled = SwapToggled(@, op), !.code = Append(@, Gate(op))]

\* compile_seq after both branches of a split on q are compiled: common toggles
\* stay pending, and one branch takes the difference of the phases.
MergeBranches(q, r0, r1, s) ==
    LET both == r0.toggled \cap r1.toggled
        if0 == PushToggleMany(r0.code, r0.toggled \ both)
        if1 == PushToggleMany(r1.code, r1.toggled \ both)
        diff == Turn(r1.phase - r0.phase)
        flat == if0 = <<>> /\ if1 = <<>>
    IN  IF diff = ZERO
        THEN [phase |-> Turn(s.phase + r0.phase), toggled |-> both,
              code |-> IF flat THEN s.code ELSE Append(s.code, Pseq(q, if0, if1))]
        ELSE IF Turn(s.phase + r1.phase) = ZERO
        THEN [phase |-> ZERO, toggled |-> both,
              code |-> IF flat THEN PushPhase(s.code, Single(q, FALSE), Turn(-diff))
                       ELSE Append(s.code, Pseq(q, PushPhase(if0, Always, Turn(-diff)), if1))]
        ELSE [phase |-> Turn(s.phase + r0.phase), toggled |-> both,
              code |-> IF flat THEN PushPhase(s.code, Single(q, TRUE), diff)
                       ELSE Append(s.code, Pseq(q, if0, PushPhase(if1, Always, diff)))]

\* Fault: the two branches are not exchanged when the control is toggled.
MergeNotSwapped(q, toggled, b0, b1, s) == MergeBranches(q, b0, b1, s)

\* The branches of a split on a toggled qubit change places.
Merge(q, toggled, b0, b1, s) ==
    IF q \in toggled THEN MergeBranches(q, b1, b0, s) ELSE MergeBranches(q, b0, b1, s)

\* compile_seq: the loop, from the state s = [code, toggled, phase].
RECURSIVE CompileSeq(_, _)
CompileSeq(ops, s) ==
    IF ops = <<>> THEN s
    ELSE LET op == Head(ops)
             sel == SelectControl(DOMAIN op.ctl, Tail(ops))
             part == SubSeq(ops, 1, sel.len + 1)
             sub(v) == CompileSeq(Branch(part, sel.q, v),
                                  [code |-> <<>>, toggled |-> s.toggled, phase |-> ZERO])
         IN  IF Len(ops) > 1 /\ sel.len >= THRES_PART_DO
             THEN CompileSeq(SubSeq(ops, sel.len + 2, Len(ops)),
                             Merge(sel.q, s.toggled, sub(FALSE), sub(TRUE), s))
             ELSE IF op.ctl = Always THEN CompileSeq(Tail(ops), CompileAlways(op, s))
             ELSE LET r == CompileControlled(op, s.toggled, s.code)
                  IN  CompileSeq(Tail(ops), [s EXCEPT !.toggled = r.toggled, !.code = r.code])

\* Queue::compile: the phase that is left is a global one.
Compile(ops) ==
    LET s == CompileSeq(ops, [code |-> <<>>, toggled |-> {}, phase |-> ZERO])
    IN  PushToggleMany(s.code, s.toggled)

-----------------------------------------------------------------------------
\* What the code does to every element.
CodeGraph(code) == {[from |-> b, to |-> Perform(code, Element(b))] : b \in Basis}

\* Stat: the qubits the compiled code writes.
RECURSIVE Modified(_)
Modified(code) ==
    UNION {IF code[k].type = "gate" THEN code[k].op.on
           ELSE Modified(code[k].if0) \cup Modified(code[k].if1) : k \in DOMAIN code}

\* What the compiled form of a queue's operations does.
CompiledGraph(ops) == CodeGraph(Compile(ops))
=============================================================================
