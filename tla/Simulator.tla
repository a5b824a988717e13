----------------------------- MODULE Simulator ------------------------------
(***************************************************************************)
(* The gate queues in front of the state vector: src/src/simulator.rs.     *)
(* Single-qubit gates are composed per qubit and kept back, superposition- *)
(* free gates are queued behind them, moved past them when they commute,   *)
(* and the state vector sees a gate only when it must.  Calls are atomic:  *)
(* a Simulator is used by one thread at a time.                            *)
(*                                                                         *)
(* Whether maybe_eager_flush applies a gate depends on the size of the     *)
(* state vector and on random samples of it; here it is any choice.  The   *)
(* set E of a call holds the qubits on which it would say yes before the   *)
(* queue is performed (a call asks at most once per qubit, and only while  *)
(* maybe_destructive), the set F those on which it would say yes later.    *)
(***************************************************************************)
EXTENDS SfreeQueue

CONSTANTS
    Compiled(_),  \* what the code compiled from a queue does to each element (SfreeCode)
    Widths,       \* the values of max_qubit() a state vector can have
    InitMaxQubit, \* Context::init_max_qubit
    Biases,       \* number of values of the random input of measure(), 2^64
    Gates1,       \* single-qubit gates offered to u3()
    Ctls,         \* controls offered to ctl_x(), ctl_swap(), ctl_phase()
    Angles,       \* angles offered to ctl_phase()
    Imports,      \* dense vectors offered to import_dense()
    MaxCalls      \* bound on the calls after the vector was set

ASSUME SimulatorAssumption ==
    /\ Qubits # {}
    /\ Widths \subseteq Nat /\ \E w \in Widths : InitMaxQubit <= w /\ \A q \in Qubits : q <= w
    /\ Biases \in Nat \ {0}
    /\ Gates1 \subseteq U3 /\ Ctls \subseteq Controls /\ Angles \subseteq Angle
    /\ MaxCalls \in Nat

VARIABLES
    amp,      \* the state vector
    cap,      \* state.max_qubit()
    queue,    \* sfree_queue
    qubits,   \* the pending gate of every qubit that has one
    beyond,   \* qubits the last call addressed past max_qubit()
    ideal,    \* history: the vector if every gate were applied at once
    result,   \* history: what the last call returned
    calls     \* history: number of calls since the vector was set

vars == <<amp, cap, queue, qubits, beyond, ideal, result, calls>>

QubitState == [pending : U3, maybe_destructive : BOOLEAN,
               must_flush : BOOLEAN, is_reordered : BOOLEAN]

GroundState == [b \in Basis |-> IF b = {} THEN <<1, 0>> ELSE CZero]

\* statevector::new: the narrowest vector that holds qubit q.
Width(q) == Min({w \in Widths : q <= w})

-----------------------------------------------------------------------------
(* Parts of a call; s is the simulator so far                              *)

SetQubit(s, q, st) == [s EXCEPT !.qubits = [x \in DOMAIN @ \cup {q} |-> IF x = q THEN st ELSE @[x]]]
DropQubits(s, S) == [s EXCEPT !.qubits = [x \in DOMAIN @ \ S |-> @[x]]]
Enqueue(s, op) == [s EXCEPT !.queue = Push(@, op)]

\* The vector a with the pending gates of the qubits in S applied.
ApplyPending(a, pending, S) == FoldSet(LAMBDA q, b : ApplyU3(b, q, pending[q].pending), a, S)

\* state.perform_u4 with the pending gates of the qubits in S.
PerformU4(s, S) ==
    [DropQubits(s, S) EXCEPT
        !.amp = Reduce[ApplyPending(s.amp, s.qubits, S)],
        !.beyond = @ \cup {q \in S : q > s.cap}]

\* state.perform_sfree: compile and perform the queue, which is empty then.
PerformSfree(s) ==
    [s EXCEPT !.amp = Mapped(@, Compiled(s.queue.ops)),
              !.queue = EmptyQueue,
              !.beyond = @ \cup {q \in s.queue.reads \cup s.queue.writes : q > s.cap}]

\* maybe_eager_flush: is the pending gate of q applied, if the samples say so?
EagerFlush(s, q, E) == ~IsSfree(s.qubits[q].pending) /\ q <= s.cap /\ q \in E

\* The implementations of the trait Preflush; "none" where from_* returns None.
FromRz(R) == IF R \in {"Ctl", "CtlH"} THEN "id" ELSE "none"
FromXRz(R) == IF R \in {"Ctl", "CtlH"} THEN "invert" ELSE "none"
FromHRz(R) == IF R = "CtlH" THEN "hadamard" ELSE "none"
FromRx(R) == IF R = "X" THEN "id" ELSE "none"
FromHRx(R) == IF R = "X" THEN "h" ELSE "none"
FromXHRx(R) == IF R = "X" THEN "x_h" ELSE "none"

\* _preflush of a pending x and rz: both go to the queue unless the call can
\* be moved in front of them.
PreflushSfree(s, q, R) ==
    LET d == ToCxRz(s.qubits[q].pending)
        sx == IF d.x THEN Enqueue(s, OpX(Always, {q})) ELSE s
        sz == IF d.rz # ZERO THEN Enqueue(sx, OpPhase(Single(q, TRUE), d.rz)) ELSE sx
    IN  IF d.x /\ FromXRz(R) # "none" THEN [s |-> s, r |-> FromXRz(R)]
        ELSE IF d.rz # ZERO /\ FromRz(R) # "none" THEN [s |-> sx, r |-> FromRz(R)]
        ELSE [s |-> DropQubits(sz, {q}), r |-> "id"]

\* _preflush of rz and rx for an X: the rz part is queued, the rx part commutes.
PreflushRx(s, q, d) ==
    IF d.rz = ZERO THEN s
    ELSE Enqueue(SetQubit(s, q, [s.qubits[q] EXCEPT !.is_reordered = TRUE, !.pending = Rx(d.rx)]),
                 OpPhase(Single(q, TRUE), d.rz))

\* _preflush of rz, h, rz for a control: the first rz is queued and the call
\* moved in front of the rest.
PreflushH(s, q, d) ==
    LET st == [s.qubits[q] EXCEPT !.is_reordered = TRUE]
    IN  IF d.rz1 = ZERO THEN SetQubit(s, q, st)
        ELSE Enqueue(SetQubit(s, q, [st EXCEPT !.pending = Compose(GateH, Rz(d.rz2))]),
                     OpPhase(Single(q, TRUE), d.rz1))

\* _preflush of any other gate, when it was not flushed eagerly.
PreflushDense(s, q, R) ==
    LET zx == ToRzRx(s.qubits[q].pending)
        zhz == ToRzHRz(s.qubits[q].pending)
        reordered == SetQubit(s, q, [s.qubits[q] EXCEPT !.is_reordered = TRUE])
    IN  IF zx.some /\ FromRx(R) # "none" THEN [s |-> PreflushRx(s, q, zx), r |-> FromRx(R)]
        ELSE IF zhz.some /\ FromHRz(R) # "none" THEN [s |-> PreflushH(s, q, zhz), r |-> FromHRz(R)]
        ELSE IF zhz.some /\ zhz.rz2 = ZERO /\ FromHRx(R) # "none" THEN [s |-> reordered, r |-> FromHRx(R)]
        ELSE IF zhz.some /\ zhz.rz2 = PI /\ FromXHRx(R) # "none" THEN [s |-> reordered, r |-> FromXHRx(R)]
        ELSE [s |-> SetQubit(s, q, [s.qubits[q] EXCEPT !.must_flush = TRUE]), r |-> "id"]

\* _preflush: make way for an operation of kind R on qubit q.
Preflush(s, q, R, E) ==
    IF q \notin DOMAIN s.qubits THEN [s |-> s, r |-> "id"]
    ELSE LET st == s.qubits[q]
             ask == st.maybe_destructive /\ ~Blocks(s.queue, q, st.pending)
         IN  IF ToCxRz(st.pending).some THEN PreflushSfree(s, q, R)
             ELSE IF ask /\ EagerFlush(s, q, E) THEN [s |-> PerformU4(s, {q}), r |-> "id"]
             ELSE PreflushDense(IF ask THEN SetQubit(s, q, [st EXCEPT !.maybe_destructive = FALSE]) ELSE s,
                                q, R)

\* Fault: every Hadamard gate is taken out of the control.
PreflushItemTakesAll(acc, q, ctl0, R, E) ==
    LET p == Preflush(acc.s, q, IF ~ctl0[q] THEN "Ctl" ELSE R, E)
    IN  IF p.r = "hadamard" THEN [s |-> p.s, ctl |-> acc.ctl, h |-> {q}]
        ELSE [s |-> p.s, ctl |-> WithQubit(acc.ctl, q, ctl0[q] # (p.r = "invert")), h |-> acc.h]

\* One qubit of a control: a first positive control with a pending Hadamard gate is
\* taken out of the control, if the caller can use one.
PreflushItem(acc, q, ctl0, R, E) ==
    LET p == Preflush(acc.s, q, IF acc.h # {} \/ ~ctl0[q] THEN "Ctl" ELSE R, E)
    IN  IF p.r = "hadamard" THEN [s |-> p.s, ctl |-> acc.ctl, h |-> {q}]
        ELSE [s |-> p.s, ctl |-> WithQubit(acc.ctl, q, ctl0[q] # (p.r = "invert")), h |-> acc.h]

\* The loop over Control::iter, which is in ascending order: where it stands when
\* the qubits below n are done.
PreflushItems(s0, ctl0, R, E) ==
    LET Below[n \in Nat] ==
            IF n = 0 THEN [s |-> s0, ctl |-> Always, h |-> {}]
            ELSE IF Uses(ctl0, n - 1) THEN PreflushItem(Below[n - 1], n - 1, ctl0, R, E)
            ELSE Below[n - 1]
    IN  Below

\* _preflush_ctl and _preflush_ctl_h
PreflushCtl(s0, ctl0, E) == PreflushItems(s0, ctl0, "Ctl", E)[Max(Qubits) + 1]
PreflushCtlH(s0, ctl0, E) == PreflushItems(s0, ctl0, "CtlH", E)[Max(Qubits) + 1]

-----------------------------------------------------------------------------
(* _flush                                                                  *)

MustFlush(s) == {q \in DOMAIN s.qubits : s.qubits[q].must_flush}

\* Is the queue to be performed?  It is when it blocks a gate that must go.
AlsoSfree(s, also) ==
    /\ s.queue.ops # <<>>
    /\ also \/ \E q \in MustFlush(s) : Blocks(s.queue, q, s.qubits[q].pending)

\* First pass over the pending gates: those that neither must go nor were
\* moved past are tried eagerly unless the queue blocks them.
TryEager(s, E) ==
    LET free == {q \in DOMAIN s.qubits : ~s.qubits[q].must_flush /\ ~s.qubits[q].is_reordered}
        blocked == {q \in free : Blocks(s.queue, q, s.qubits[q].pending)}
        go == {q \in free \ blocked : s.qubits[q].maybe_destructive /\ EagerFlush(s, q, E)}
        marked == [s EXCEPT !.qubits =
                      [q \in DOMAIN @ |-> IF q \in free THEN [@[q] EXCEPT !.maybe_destructive = q \in blocked]
                                          ELSE @[q]]]
    IN  PerformU4(marked, go)

\* ensure_qubit: the elements move to a wider vector.
EnsureQubit(s, q) == IF q <= s.cap THEN s ELSE [s EXCEPT !.cap = Width(q)]

\* Fault: only the queue's qubits count.
EnsureQubitsOfQueue(s, also) ==
    EnsureQubit(s, Max({0} \cup (IF also THEN s.queue.reads \cup s.queue.writes ELSE {})))

\* Room for every qubit that the rest of _flush addresses.
EnsureQubits(s, also) ==
    EnsureQubit(s, Max({0} \cup MustFlush(s) \cup (IF also THEN s.queue.reads \cup s.queue.writes ELSE {})))

\* Second pass, after the queue was performed.
TryEagerAgain(s, F) ==
    LET asked == {q \in DOMAIN s.qubits : s.qubits[q].maybe_destructive /\ ~s.qubits[q].is_reordered}
        marked == [s EXCEPT !.qubits =
                      [q \in DOMAIN @ |-> IF q \in asked THEN [@[q] EXCEPT !.maybe_destructive = FALSE]
                                          ELSE @[q]]]
    IN  PerformU4(marked, {q \in asked : EagerFlush(s, q, F)})

\* Fault: the mark of a gate that was moved past stays.
FlushPendingKeepsMark(s) == PerformU4(s, MustFlush(s))

\* Last pass: the gates that must go are applied, the others lose their mark.
FlushPending(s) ==
    LET t == PerformU4(s, MustFlush(s))
    IN  [t EXCEPT !.qubits = [q \in DOMAIN @ |-> [@[q] EXCEPT !.is_reordered = FALSE]]]

\* The queue is performed, which frees the gates it blocked.
FlushQueue(s, sfree, F) == IF sfree THEN TryEagerAgain(PerformSfree(s), F) ELSE s

\* Simulator::_flush
DoFlush(s, also, E, F) ==
    LET sfree == AlsoSfree(s, also)
    IN  FlushPending(FlushQueue(EnsureQubits(TryEager(s, E), sfree), sfree, F))

-----------------------------------------------------------------------------
(* The calls                                                               *)

\* Simulator::u3
DoU3(s, q, gate) ==
    IF q \in DOMAIN s.qubits
    THEN SetQubit(s, q, [s.qubits[q] EXCEPT !.pending = Compose(@, gate), !.maybe_destructive = TRUE])
    ELSE SetQubit(s, q, [pending |-> gate, maybe_destructive |-> TRUE,
                         must_flush |-> FALSE, is_reordered |-> FALSE])

\* The end of ctl_x and ctl_phase when the operation is a Z on all of c.ctl: with
\* a Hadamard gate pending on a control it is an X on that control.
QueueZ(c, E, F) ==
    Enqueue(DoFlush(c.s, FALSE, E, F), IF c.h # {} THEN OpX(c.ctl, c.h) ELSE OpPhase(c.ctl, PI))

\* Their end when it is not.
QueuePhase(c, a, E, F) == Enqueue(DoFlush(c.s, FALSE, E, F), OpPhase(c.ctl, a))
QueueX(c, q, E, F) == Enqueue(DoFlush(c.s, FALSE, E, F), OpX(c.ctl, {q}))

\* ctl_x once its target was looked at: behind a Hadamard gate it is a Z.
QueueCtlX(p, ctl, q, E, F) ==
    IF p.r \in {"h", "x_h"}
    THEN LET c == PreflushCtlH(p.s, ctl, E)
         IN  QueueZ([c EXCEPT !.ctl = WithQubit(@, q, p.r = "h")], E, F)
    ELSE QueueX(PreflushCtl(p.s, ctl, E), q, E, F)

\* Simulator::ctl_x
DoCtlX(s, ctl, q, E, F) ==
    IF ctl = Always THEN DoU3(s, q, GateX) ELSE QueueCtlX(Preflush(s, q, "X", E), ctl, q, E, F)

\* Simulator::ctl_swap
DoCtlSwap(s, ctl, q1, q2, E, F) ==
    LET c == PreflushCtl(s, ctl, E)
        p1 == Preflush(c.s, q1, "I", E)
        p2 == Preflush(p1.s, q2, "I", E)
    IN  Enqueue(DoFlush(p2.s, FALSE, E, F), OpSwap(c.ctl, q1, q2))

\* Simulator::ctl_phase
DoCtlPhase(s, ctl, a, E, F) ==
    LET q == CHOOSE q \in DOMAIN ctl : TRUE
    IN  IF ctl = Always THEN s
        ELSE IF DOMAIN ctl = {q} THEN DoU3(s, q, Rz(IF ctl[q] THEN a ELSE -a))
        ELSE IF a # PI THEN QueuePhase(PreflushCtl(s, ctl, E), a, E, F)
        ELSE QueueZ(PreflushCtlH(s, ctl, E), E, F)

\* Fault: the queue is not performed although it writes the measured qubit.
DoPremeasureStale(s, q, E, F) ==
    LET p == Preflush(s, q, "Ctl", E)
    IN  [s |-> DoFlush(p.s, FALSE, E, F), invert |-> p.r = "invert"]

\* Simulator::premeasure
DoPremeasure(s, q, E, F) ==
    LET p == Preflush(s, q, "Ctl", E)
    IN  [s |-> DoFlush(p.s, q \in p.s.queue.writes, E, F), invert |-> p.r = "invert"]

\* The weight of the elements whose qubit q reads v.
Weight(a, q, v) == MapThenSumSet(LAMBDA b : Norm(a[b]), {b \in Basis : (q \in b) = v})
Collapse(a, q, v) == Reduce[[b \in Basis |-> IF (q \in b) = v THEN a[b] ELSE CZero]]

\* The two weights premeasure() returns.
Weights(s, q) ==
    IF q > s.cap THEN <<1, 0>> ELSE <<Weight(s.amp, q, FALSE), Weight(s.amp, q, TRUE)>>

\* The value measure() finds in the vector: the random input is compared with
\* the smaller of the two probabilities.
Measured(w, invert, bias0) ==
    LET bias == IF invert THEN Biases - 1 - bias0 ELSE bias0
    IN  IF w[1] <= w[2] THEN bias >= (w[1] * Biases) \div (w[1] + w[2])
        ELSE Biases - 1 - bias < (w[2] * Biases) \div (w[1] + w[2])

\* The loop of Simulator::flush over the pending gates, in the order of the hash
\* map: where it stands after n of them.
PreflushAll(s, order, E) ==
    LET After[n \in Nat] == IF n = 0 THEN s ELSE Preflush(After[n - 1], order[n], "I", E).s
    IN  After

\* Simulator::flush
DoFlushAll(s, order, E, F) == DoFlush(PreflushAll(s, order, E)[Len(order)], TRUE, E, F)

-----------------------------------------------------------------------------
Sim == [amp |-> amp, cap |-> cap, queue |-> queue, qubits |-> qubits, beyond |-> {}]

Became(sim) ==
    \E s \in {sim} :
        /\ amp' = s.amp
        /\ cap' = s.cap
        /\ queue' = s.queue
        /\ qubits' = s.qubits
        /\ beyond' = s.beyond

\* A call that applies a gate, and what it means for the vector.
Applied(vector) ==
    /\ calls' = calls + 1
    /\ result' = [call |-> "gate"]
    /\ ideal' = Reduce[vector]

\* A call that sets the vector.
Restarted(vector) ==
    /\ calls' = 0
    /\ result' = [call |-> "new"]
    /\ ideal' = vector

Init ==
    /\ amp = GroundState
    /\ cap = Width(InitMaxQubit)
    /\ queue = EmptyQueue
    /\ qubits = [q \in {} |-> GateI]
    /\ beyond = {}
    /\ ideal = GroundState
    /\ result = [call |-> "new"]
    /\ calls = 0

U3Call ==
    \E q \in Qubits, g \in Gates1 :
        /\ Applied(ApplyU3(ideal, q, g))
        /\ Became(DoU3(Sim, q, g))

CtlXCall(E, F) ==
    \E q \in Qubits, ctl \in Ctls :
        /\ ~Uses(ctl, q)
        /\ Applied(ApplyOps(ideal, <<OpX(ctl, {q})>>))
        /\ Became(DoCtlX(Sim, ctl, q, E, F))

CtlSwapCall(E, F) ==
    \E q1, q2 \in Qubits, ctl \in Ctls :
        /\ ~Uses(ctl, q1) /\ ~Uses(ctl, q2) /\ q1 # q2
        /\ Applied(ApplyOps(ideal, <<OpSwap(ctl, q1, q2)>>))
        /\ Became(DoCtlSwap(Sim, ctl, q1, q2, E, F))

CtlPhaseCall(E, F) ==
    \E ctl \in Ctls, a \in Angles :
        /\ Applied(ApplyOps(ideal, <<OpPhase(ctl, a)>>))
        /\ Became(DoCtlPhase(Sim, ctl, a, E, F))

\* Simulator::measure: a certain result leaves the vector alone.
MeasureCall(E, F) ==
    \E q \in Qubits : \E p \in {DoPremeasure(Sim, q, E, F)}, bias \in 0 .. (Biases - 1) :
        LET w == Weights(p.s, q)
            v == Measured(w, p.invert, bias)
            other == IF v THEN w[1] ELSE w[2]
        IN  /\ calls' = calls + 1
            /\ Became(IF other = 0 THEN p.s ELSE [p.s EXCEPT !.amp = Collapse(@, q, v)])
            /\ result' = [call |-> "measure", q |-> q, value |-> v # p.invert,
                          weights |-> IF p.invert THEN <<w[2], w[1]>> ELSE w]
            /\ ideal' = Collapse(ideal, q, v # p.invert)

\* Simulator::qubit_probs
QubitProbsCall(E, F) ==
    \E q \in Qubits : \E p \in {DoPremeasure(Sim, q, E, F)} :
        LET w == Weights(p.s, q)
        IN  /\ calls' = calls + 1
            /\ Became(p.s)
            /\ result' = [call |-> "qubit_probs", q |-> q,
                          weights |-> IF p.invert THEN <<w[2], w[1]>> ELSE w]
            /\ UNCHANGED ideal

FlushCall(E, F) ==
    \E order \in SetToSeqs(DOMAIN qubits) :
        /\ calls' = calls + 1
        /\ result' = [call |-> "flush"]
        /\ UNCHANGED ideal
        /\ Became(DoFlushAll(Sim, order, E, F))

ResetCall ==
    /\ Restarted(GroundState)
    /\ Became([amp |-> GroundState, cap |-> Width(InitMaxQubit), queue |-> EmptyQueue,
               qubits |-> [q \in {} |-> GateI], beyond |-> {}])

\* import_dense: values[k + 1] is the amplitude of the element whose bits are
\* the binary digits of k.
Index(b) == MapThenSumSet(LAMBDA q : 2^q, b)
DenseState(values) == [b \in Basis |-> IF Index(b) < Len(values) THEN values[Index(b) + 1] ELSE CZero]
Ilog2(n) == Max({k \in 0 .. n : 2^k <= n})

\* The qubit that import_dense() makes room for, which some vector has.
ImportQubit(values) == Max({InitMaxQubit, IF Len(values) < 2 THEN 0 ELSE Ilog2(Len(values) - 1)})

ASSUME ImportAssumption == \A values \in Imports : \E w \in Widths : ImportQubit(values) <= w

ImportCall ==
    \E values \in Imports :
        /\ Restarted(DenseState(values))
        /\ Became([amp |-> DenseState(values),
                   cap |-> Width(ImportQubit(values)),
                   queue |-> EmptyQueue, qubits |-> [q \in {} |-> GateI], beyond |-> {}])

\* The qubits on which maybe_eager_flush() gets as far as taking samples.
Dense == {q \in DOMAIN qubits : ~IsSfree(qubits[q].pending)}

Next ==
    \/ /\ calls < MaxCalls
       /\ \/ U3Call
          \/ \E E \in SUBSET {q \in Dense : qubits[q].maybe_destructive}, F \in SUBSET Dense :
                \/ CtlXCall(E, F) \/ CtlSwapCall(E, F) \/ CtlPhaseCall(E, F)
                \/ MeasureCall(E, F) \/ QubitProbsCall(E, F) \/ FlushCall(E, F)
    \/ ResetCall
    \/ ImportCall

Spec == Init /\ [][Next]_vars

-----------------------------------------------------------------------------
(* Properties                                                              *)

\* The state is well typed.
TypeOK ==
    /\ amp \in Vectors
    /\ cap \in Widths
    /\ queue.reads \subseteq Qubits /\ queue.writes \subseteq Qubits
    /\ \A k \in DOMAIN queue.ops : queue.ops[k].ctl \in Controls /\ queue.ops[k].on \subseteq Qubits
    /\ DOMAIN qubits \subseteq Qubits
    /\ \A q \in DOMAIN qubits : qubits[q] \in QubitState
    /\ beyond \subseteq Qubits
    /\ ideal \in Vectors
    /\ calls \in 0 .. MaxCalls

\* The vector, then the queue, then the pending gates are what the calls so far
\* ask for, whatever was moved past what and whatever was flushed early.
Faithful ==
    /\ TypeOK
    /\ SameRay(ApplyPending(ApplyOps(amp, queue.ops), qubits, DOMAIN qubits), ideal)

\* Every gate that blocks() lets pass commutes with all operations of the queue,
\* on any qubit: that is what applying it in front of the queue relies on.
BlocksSound ==
    LET does == Graph(queue.ops)
    IN  \A q \in Qubits : \A g \in {g \in U3 : ~Blocks(queue, q, g)}, b \in Basis :
            LET v == [x \in Basis |-> IF x = b THEN <<1, 0>> ELSE CZero]
            IN  Mapped(ApplyU3(v, q, g), does) = ApplyU3(Mapped(v, does), q, g)

\* must_flush and is_reordered describe the call in progress: none is left for
\* the next call, which would act on it.
NoStaleMarks == \A q \in DOMAIN qubits : ~qubits[q].must_flush /\ ~qubits[q].is_reordered

\* After flush() nothing is pending: clone_flushed() asserts it, and iter()
\* shows the vector as it is.
FlushedIsEmpty == result.call = "flush" => queue.ops = <<>> /\ DOMAIN qubits = {}

\* Nothing is left behind between calls: neither a mark nor, after flush(), a
\* gate.
QueuesTidy == NoStaleMarks /\ FlushedIsEmpty

\* The vector is widened before a gate addresses a qubit it does not have.
InBounds == beyond = {}

\* measure() and qubit_probs() report the probabilities of the circuit so far,
\* and a value that cannot occur is never measured.
ReportsTrue ==
    [][result'.call \in {"measure", "qubit_probs"} =>
          LET q == result'.q
              w == result'.weights
          IN  /\ w[1] * Weight(ideal, q, TRUE) = w[2] * Weight(ideal, q, FALSE)
              /\ result'.call = "measure" => Weight(ideal, q, result'.value) > 0]_vars
=============================================================================
