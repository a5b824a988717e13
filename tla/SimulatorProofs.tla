-------------------------- MODULE SimulatorProofs ---------------------------
(***************************************************************************)
(* Proofs about Simulator, for any qubits, controls and widths, any number *)
(* of calls, whatever is flushed eagerly and whatever the compiler makes   *)
(* of the queue: a gate never addresses a qubit that the vector has no     *)
(* room for, no mark outlives its call, flush() leaves nothing behind, and *)
(* a gate that the queue does not block commutes with it.                  *)
(***************************************************************************)
EXTENDS Simulator, NaturalSets, FiniteSetTheorems

-----------------------------------------------------------------------------
(* The operations of a queue                                               *)

\* What the calls put into the queue: no operation writes its own controls.
Ops == {op \in [kind : {"phase", "x", "swap"}, ctl : Controls, a : Int, on : SUBSET Qubits] :
            /\ op.on \cap DOMAIN op.ctl = {}
            /\ op.kind = "swap" => \E q, r \in Qubits : q # r /\ op.on = {q, r}}

\* A queue of such operations that knows what each of them reads and writes.
Recorded(x) ==
    /\ x.ops \in Seq(Ops)
    /\ \A k \in 1 .. Len(x.ops) : OpReads(x.ops[k]) \subseteq x.reads /\ OpWrites(x.ops[k]) \subseteq x.writes

\* What an element is while the queue is performed.
Elements == [bits : Basis, phase : Angle]

\* Does the operation toggle the qubits it writes?
Toggles(op, bits) ==
    /\ Holds(op.ctl, bits)
    /\ op.kind = "x" \/ (op.kind = "swap" /\ Cardinality(op.on \cap bits) = 1)

\* The bits after the operation.
OpBits(op, bits) == IF Toggles(op, bits) THEN SymDiff(bits, op.on) ELSE bits

\* A turn is an angle, whatever was added up.
LEMMA TurnType == \A x \in Int : Turn(x) \in Angle
BY DEF Turn, Angle

\* What an operation does to an element, its bits and its phase apart.
LEMMA OpResult ==
    ASSUME NEW op \in Ops, NEW e \in Elements
    PROVE  /\ PerformOp(op, e) \in Elements
           /\ PerformOp(op, e).bits = OpBits(op, e.bits)
           /\ PerformOp(op, e).phase =
                 IF op.kind = "phase" /\ Holds(op.ctl, e.bits) THEN Turn(e.phase + op.a) ELSE e.phase
<1>1. e = [bits |-> e.bits, phase |-> e.phase] /\ e.bits \in Basis /\ e.phase \in Int
  BY DEF Elements, Angle
<1>2. op.kind \in {"phase", "x", "swap"} /\ op.a \in Int /\ op.on \in SUBSET Qubits
  BY DEF Ops
<1>3. Turn(e.phase + op.a) \in Angle
  BY <1>1, <1>2, TurnType
<1>4. SymDiff(e.bits, op.on) \in Basis
  BY <1>1, <1>2 DEF SymDiff, Basis
<1>5. CASE ~Holds(op.ctl, e.bits)
  BY <1>1, <1>5 DEF PerformOp, OpBits, Toggles
<1>6. CASE Holds(op.ctl, e.bits) /\ op.kind = "phase"
  <2>1. PerformOp(op, e) = [e EXCEPT !.phase = Turn(e.phase + op.a)]
    BY <1>6 DEF PerformOp
  <2>2. PerformOp(op, e) = [bits |-> e.bits, phase |-> Turn(e.phase + op.a)]
    BY <1>1, <2>1
  <2> QED
    BY <1>1, <1>3, <1>6, <2>2 DEF OpBits, Toggles, Elements
<1>7. CASE Holds(op.ctl, e.bits) /\ op.kind # "phase"
  <2>1. PerformOp(op, e) = IF Toggles(op, e.bits) THEN [e EXCEPT !.bits = SymDiff(e.bits, op.on)] ELSE e
    BY <1>2, <1>7 DEF PerformOp, Toggles
  <2>2. [e EXCEPT !.bits = SymDiff(e.bits, op.on)] = [bits |-> SymDiff(e.bits, op.on), phase |-> e.phase]
    BY <1>1
  <2> QED
    BY <1>1, <1>4, <1>7, <2>1, <2>2 DEF OpBits, Elements
<1> QED
  BY <1>5, <1>6, <1>7

\* One of two qubits reads 1.
LEMMA OneOfTwo ==
    ASSUME NEW q, NEW r, q # r, NEW bits
    PROVE  Cardinality({q, r} \cap bits) = 1 <=> ((q \in bits) # (r \in bits))
<1>1. Cardinality({q}) = 1 /\ Cardinality({r}) = 1 /\ Cardinality({}) = 0
  BY FS_Singleton, FS_EmptySet
<1>2. Cardinality({q, r}) = 2
  <2>1. IsFiniteSet({q}) /\ r \notin {q} /\ {q} \cup {r} = {q, r}
    BY FS_Singleton
  <2> QED
    BY <1>1, <2>1, FS_AddElement
<1>3. CASE q \in bits /\ r \in bits
  <2>1. {q, r} \cap bits = {q, r}
    BY <1>3
  <2> QED
    BY <1>2, <1>3, <2>1
<1>4. CASE q \in bits /\ r \notin bits
  <2>1. {q, r} \cap bits = {q}
    BY <1>4
  <2> QED
    BY <1>1, <1>4, <2>1
<1>5. CASE q \notin bits /\ r \in bits
  <2>1. {q, r} \cap bits = {r}
    BY <1>5
  <2> QED
    BY <1>1, <1>5, <2>1
<1>6. CASE q \notin bits /\ r \notin bits
  <2>1. {q, r} \cap bits = {}
    BY <1>6
  <2> QED
    BY <1>1, <1>6, <2>1
<1> QED
  BY <1>3, <1>4, <1>5, <1>6

\* An operation toggles back what it toggled.
LEMMA OpUndone ==
    ASSUME NEW op \in Ops, NEW bits \in Basis
    PROVE  OpBits(op, bits) \in Basis /\ OpBits(op, OpBits(op, bits)) = bits
<1> DEFINE other == SymDiff(bits, op.on)
<1>1. op.on \in SUBSET Qubits /\ op.on \cap DOMAIN op.ctl = {}
  BY DEF Ops
<1>2. other \in Basis /\ SymDiff(other, op.on) = bits /\ \A q : q \notin op.on => (q \in other <=> q \in bits)
  BY <1>1 DEF SymDiff, Basis
<1>3. Holds(op.ctl, other) <=> Holds(op.ctl, bits)
  BY <1>1, <1>2 DEF Holds
<1>4. op.kind = "swap" => (Cardinality(op.on \cap other) = 1 <=> Cardinality(op.on \cap bits) = 1)
  <2> SUFFICES ASSUME op.kind = "swap"
               PROVE  Cardinality(op.on \cap other) = 1 <=> Cardinality(op.on \cap bits) = 1
    OBVIOUS
  <2>1. PICK q, r \in Qubits : q # r /\ op.on = {q, r}
    BY DEF Ops
  <2>2. (q \in other <=> q \notin bits) /\ (r \in other <=> r \notin bits)
    BY <2>1 DEF SymDiff
  <2> HIDE DEF other
  <2> QED
    BY <2>1, <2>2, OneOfTwo
<1> HIDE DEF other
<1>5. Toggles(op, other) <=> Toggles(op, bits)
  BY <1>3, <1>4 DEF Toggles
<1>6. CASE Toggles(op, bits)
  <2>1. OpBits(op, bits) = other
    BY <1>6 DEF OpBits, other
  <2>2. OpBits(op, other) = bits
    BY <1>2, <1>5, <1>6 DEF OpBits
  <2> QED
    BY <1>2, <2>1, <2>2
<1>7. CASE ~Toggles(op, bits)
  BY <1>7 DEF OpBits
<1> QED
  BY <1>6, <1>7

\* A qubit that is not written keeps its value.
LEMMA OpKeeps ==
    ASSUME NEW op \in Ops, NEW bits \in Basis, NEW q, q \notin OpWrites(op)
    PROVE  q \in OpBits(op, bits) <=> q \in bits
BY DEF OpBits, OpWrites, SymDiff

\* An operation that does not read a qubit does the same for both its values.
LEMMA OpIgnores ==
    ASSUME NEW op \in Ops, NEW bits \in Basis, NEW q, q \notin OpReads(op)
    PROVE  /\ OpBits(op, SymDiff(bits, {q})) = SymDiff(OpBits(op, bits), {q})
           /\ Holds(op.ctl, SymDiff(bits, {q})) <=> Holds(op.ctl, bits)
<1> DEFINE other == SymDiff(bits, {q})
<1>1. q \notin DOMAIN op.ctl /\ (op.kind = "swap" => q \notin op.on)
  BY DEF OpReads
<1>2. \A r : r # q => (r \in other <=> r \in bits)
  BY DEF SymDiff
<1>3. Holds(op.ctl, other) <=> Holds(op.ctl, bits)
  BY <1>1, <1>2 DEF Holds
<1>4. op.kind = "swap" => op.on \cap other = op.on \cap bits
  BY <1>1, <1>2
<1>5. Toggles(op, other) <=> Toggles(op, bits)
  BY <1>3, <1>4 DEF Toggles
<1>6. SymDiff(other, op.on) = SymDiff(SymDiff(bits, op.on), {q})
  BY DEF SymDiff
<1> QED
  BY <1>3, <1>5, <1>6 DEF OpBits

-----------------------------------------------------------------------------
(* The operations one after the other                                      *)

\* What is left of a set of indices once the last operation was taken off.
FoldRound(ops, elt, f, s) == IF s = {} THEN elt ELSE PerformOp(ops[Max(s)], f[s \ {Max(s)}])

\* The last of the first n indices.
LEMMA LastIndex ==
    ASSUME NEW n \in Nat, NEW s \in SUBSET (1 .. n), s # {}
    PROVE  /\ Max(s) \in s
           /\ n \in s => Max(s) = n
<1>1. s \in SUBSET Nat /\ \A k \in s : k <= n
  OBVIOUS
<1>2. Max(s) \in s /\ \A k \in s : k <= Max(s)
  BY <1>1, MaxOf
<1>3. Max(s) \in Nat /\ Max(s) <= n
  BY <1>1, <1>2
<1> QED
  BY <1>2, <1>3

\* The function behind FoldLeft exists, for the first m operations.
LEMMA FoldExists ==
    ASSUME NEW ops, NEW elt
    PROVE  \A m \in Nat : \E f : f = [s \in SUBSET (1 .. m) |-> FoldRound(ops, elt, f, s)]
<1> DEFINE IsFold(m, f) == f = [s \in SUBSET (1 .. m) |-> FoldRound(ops, elt, f, s)]
           S == {m \in Nat : \E f : IsFold(m, f)}
<1>1. 0 \in S
  <2> DEFINE f == [s \in SUBSET (1 .. 0) |-> elt]
  <2>1. \A s \in SUBSET (1 .. 0) : s = {}
    OBVIOUS
  <2>2. \A s \in SUBSET (1 .. 0) : FoldRound(ops, elt, f, s) = elt
    BY <2>1 DEF FoldRound
  <2>3. IsFold(0, f)
    BY <2>2, Zenon
  <2> QED
    BY <2>3, Zenon
<1>2. ASSUME NEW m \in Nat, m \in S
      PROVE  m + 1 \in S
  <2>1. PICK f : IsFold(m, f)
    BY <1>2
  <2> DEFINE g == [s \in SUBSET (1 .. (m + 1)) |->
                      IF m + 1 \in s THEN PerformOp(ops[m + 1], f[s \ {m + 1}]) ELSE f[s]]
  <2>2. \A s \in SUBSET (1 .. m) : f[s] = FoldRound(ops, elt, f, s)
    BY <2>1, Zenon
  <2>3. ASSUME NEW s \in SUBSET (1 .. (m + 1))
        PROVE  g[s] = FoldRound(ops, elt, g, s)
    <3>1. CASE m + 1 \in s
      <4>1. Max(s) = m + 1
        BY <3>1, LastIndex
      <4>2. s \ {m + 1} \in SUBSET (1 .. (m + 1)) /\ m + 1 \notin s \ {m + 1}
        OBVIOUS
      <4>3. g[s \ {m + 1}] = f[s \ {m + 1}]
        BY <4>2, Zenon
      <4>4. g[s] = PerformOp(ops[m + 1], f[s \ {m + 1}])
        BY <3>1, Zenon
      <4> HIDE DEF g
      <4> QED
        BY <3>1, <4>1, <4>3, <4>4 DEF FoldRound
    <3>2. CASE m + 1 \notin s
      <4>1. s \in SUBSET (1 .. m)
        BY <3>2
      <4>2. g[s] = f[s]
        BY <3>2, Zenon
      <4>3. s # {} => g[s \ {Max(s)}] = f[s \ {Max(s)}]
        <5> SUFFICES ASSUME s # {} PROVE g[s \ {Max(s)}] = f[s \ {Max(s)}]
          OBVIOUS
        <5>1. s \ {Max(s)} \in SUBSET (1 .. (m + 1)) /\ m + 1 \notin s \ {Max(s)}
          BY <3>2
        <5> QED
          BY <5>1, Zenon
      <4> HIDE DEF g
      <4>4. FoldRound(ops, elt, g, s) = FoldRound(ops, elt, f, s)
        BY <4>3 DEF FoldRound
      <4> QED
        BY <2>2, <4>1, <4>2, <4>4
    <3> QED
      BY <3>1, <3>2
  <2>4. IsFold(m + 1, g)
    BY <2>3, Zenon
  <2> HIDE DEF IsFold, g
  <2> QED
    BY <2>4
<1>3. \A m \in Nat : m \in S
  <2> HIDE DEF S
  <2> QED
    BY <1>1, <1>2, SetInduction
<1> QED
  BY <1>3

\* f goes through the operations, beginning with elt.
IsRun(ops, elt, f) == f[0] = elt /\ \A k \in 1 .. Len(ops) : f[k] = PerformOp(ops[k], f[k - 1])

\* PerformOps does.
LEMMA OpsRun ==
    ASSUME NEW ops \in Seq(Ops), NEW elt
    PROVE  \E f : IsRun(ops, elt, f) /\ PerformOps(ops, elt) = f[Len(ops)]
<1> DEFINE n == Len(ops)
           IsFold(f) == f = [s \in SUBSET (1 .. n) |-> FoldRound(ops, elt, f, s)]
           g == CHOOSE f : IsFold(f)
<1>1. n \in Nat /\ DOMAIN ops = 1 .. n
  OBVIOUS
<1>2. PerformOps(ops, elt) = g[1 .. n]
  <2>1. PerformOps(ops, elt) = (CHOOSE f : f = [s \in SUBSET DOMAIN ops |-> FoldRound(ops, elt, f, s)])[DOMAIN ops]
    BY Zenon DEF PerformOps, FoldLeft, MapThenFoldSet, FoldRound
  <2> QED
    BY <1>1, <2>1, Zenon
<1> HIDE DEF n
<1>3. IsFold(g)
  <2>1. \E f : IsFold(f)
    BY <1>1, FoldExists, Zenon
  <2> HIDE DEF IsFold
  <2> QED
    BY <2>1, Zenon
<1> HIDE DEF g
<1> DEFINE h == [k \in 0 .. n |-> g[1 .. k]]
<1>4. \A s \in SUBSET (1 .. n) : g[s] = FoldRound(ops, elt, g, s)
  BY <1>3, Zenon
<1>5. h[0] = elt
  <2>1. h[0] = g[1 .. 0] /\ 1 .. 0 = {} /\ 1 .. 0 \in SUBSET (1 .. n)
    BY <1>1
  <2> HIDE DEF h
  <2> QED
    BY <1>4, <2>1 DEF FoldRound
<1>6. ASSUME NEW k \in 1 .. n
      PROVE  h[k] = PerformOp(ops[k], h[k - 1])
  <2>1. 1 .. k \in SUBSET (1 .. n) /\ k \in 1 .. k /\ k \in Nat /\ (1 .. k) \ {k} = 1 .. (k - 1)
    BY <1>1
  <2>2. Max(1 .. k) = k
    BY <2>1, LastIndex
  <2>3. h[k] = g[1 .. k] /\ h[k - 1] = g[1 .. (k - 1)]
    BY <1>1
  <2>4. g[1 .. k] = FoldRound(ops, elt, g, 1 .. k)
    BY <1>4, <2>1
  <2> HIDE DEF h
  <2> QED
    BY <2>1, <2>2, <2>3, <2>4 DEF FoldRound
<1>7. h[n] = g[1 .. n]
  BY <1>1
<1> HIDE DEF h
<1>8. IsRun(ops, elt, h)
  BY <1>5, <1>6 DEF IsRun, n
<1> QED
  BY <1>2, <1>7, <1>8 DEF n

\* What the operations make of every element is again every element, once.
LEMMA QueueMap ==
    ASSUME NEW ops \in Seq(Ops)
    PROVE  /\ \A b \in Basis : PerformOps(ops, Element(b)) \in Elements
           /\ \A b, c \in Basis : PerformOps(ops, Element(b)).bits = PerformOps(ops, Element(c)).bits => b = c
           /\ \A c \in Basis : \E b \in Basis : PerformOps(ops, Element(b)).bits = c
<1> DEFINE n == Len(ops)
           F == [b \in Basis |-> CHOOSE f : IsRun(ops, Element(b), f) /\ PerformOps(ops, Element(b)) = f[n]]
<1>1. \A b \in Basis : IsRun(ops, Element(b), F[b]) /\ PerformOps(ops, Element(b)) = F[b][n]
  BY OpsRun, Zenon
<1> HIDE DEF F
<1>2. n \in Nat /\ \A k \in 1 .. n : ops[k] \in Ops
  OBVIOUS
<1> DEFINE S == {k \in Nat : k <= n =>
                    /\ \A b \in Basis : F[b][k] \in Elements
                    /\ \A b, c \in Basis : F[b][k].bits = F[c][k].bits => b = c
                    /\ \A c \in Basis : \E b \in Basis : F[b][k].bits = c}
<1>3. 0 \in S
  <2>1. \A b \in Basis : F[b][0] = Element(b)
    BY <1>1 DEF IsRun
  <2>2. \A b \in Basis : Element(b).bits = b /\ Element(b) \in Elements
    BY DEF Element, Elements, Angle, ZERO
  <2> QED
    BY <2>1, <2>2
<1>4. ASSUME NEW k \in Nat, k \in S
      PROVE  k + 1 \in S
  <2> SUFFICES ASSUME k + 1 <= n
               PROVE  /\ \A b \in Basis : F[b][k + 1] \in Elements
                      /\ \A b, c \in Basis : F[b][k + 1].bits = F[c][k + 1].bits => b = c
                      /\ \A c \in Basis : \E b \in Basis : F[b][k + 1].bits = c
    OBVIOUS
  <2> DEFINE op == ops[k + 1]
  <2>1. k + 1 \in 1 .. n /\ k <= n /\ (k + 1) - 1 = k
    BY <1>2
  <2>2. op \in Ops
    BY <1>2, <2>1
  <2>3. \A b \in Basis : F[b][k + 1] = PerformOp(op, F[b][k])
    BY <1>1, <2>1 DEF IsRun
  <2>4. /\ \A b \in Basis : F[b][k] \in Elements
        /\ \A b, c \in Basis : F[b][k].bits = F[c][k].bits => b = c
        /\ \A c \in Basis : \E b \in Basis : F[b][k].bits = c
    BY <1>4, <2>1
  <2> HIDE DEF op, S, n
  <2>5. \A b \in Basis : F[b][k + 1] \in Elements /\ F[b][k + 1].bits = OpBits(op, F[b][k].bits)
    BY <2>2, <2>3, <2>4, OpResult
  <2>6. \A b \in Basis : F[b][k].bits \in Basis
    BY <2>4 DEF Elements
  <2>7. \A c \in Basis : OpBits(op, c) \in Basis /\ OpBits(op, OpBits(op, c)) = c
    BY <2>2, OpUndone
  <2>8. ASSUME NEW b \in Basis, NEW c \in Basis, F[b][k + 1].bits = F[c][k + 1].bits
        PROVE  b = c
    <3>1. OpBits(op, F[b][k].bits) = OpBits(op, F[c][k].bits)
      BY <2>5, <2>8
    <3>2. F[b][k].bits = F[c][k].bits
      BY <2>6, <2>7, <3>1
    <3> QED
      BY <2>4, <3>2
  <2>9. ASSUME NEW c \in Basis
        PROVE  \E b \in Basis : F[b][k + 1].bits = c
    <3>1. PICK b \in Basis : F[b][k].bits = OpBits(op, c)
      BY <2>4, <2>7
    <3>2. F[b][k + 1].bits = c
      BY <2>5, <2>7, <3>1
    <3> QED
      BY <3>2
  <2> QED
    BY <2>5, <2>8, <2>9
<1>5. \A k \in Nat : k \in S
  <2> HIDE DEF S
  <2> QED
    BY <1>3, <1>4, SetInduction
<1>6. n \in S /\ n <= n
  <2> HIDE DEF S, n
  <2> QED
    BY <1>2, <1>5
<1> QED
  BY <1>1, <1>6

\* No operation writes q: its value stays.
LEMMA QueueKeeps ==
    ASSUME NEW ops \in Seq(Ops), NEW q, \A k \in 1 .. Len(ops) : q \notin OpWrites(ops[k]), NEW b \in Basis
    PROVE  q \in PerformOps(ops, Element(b)).bits <=> q \in b
<1> DEFINE n == Len(ops)
<1>1. PICK f : IsRun(ops, Element(b), f) /\ PerformOps(ops, Element(b)) = f[n]
  BY OpsRun
<1>2. n \in Nat /\ \A k \in 1 .. n : ops[k] \in Ops
  OBVIOUS
<1> DEFINE S == {k \in Nat : k <= n => f[k] \in Elements /\ (q \in f[k].bits <=> q \in b)}
<1>3. 0 \in S
  <2>1. f[0] = Element(b)
    BY <1>1 DEF IsRun
  <2>2. Element(b).bits = b /\ Element(b) \in Elements
    BY DEF Element, Elements, Angle, ZERO
  <2> QED
    BY <2>1, <2>2
<1>4. ASSUME NEW k \in Nat, k \in S
      PROVE  k + 1 \in S
  <2> SUFFICES ASSUME k + 1 <= n
               PROVE  f[k + 1] \in Elements /\ (q \in f[k + 1].bits <=> q \in b)
    OBVIOUS
  <2> DEFINE op == ops[k + 1]
  <2>1. k + 1 \in 1 .. n /\ k <= n /\ (k + 1) - 1 = k
    BY <1>2
  <2>2. op \in Ops /\ q \notin OpWrites(op)
    BY <1>2, <2>1
  <2>3. f[k + 1] = PerformOp(op, f[k])
    BY <1>1, <2>1 DEF IsRun
  <2>4. f[k] \in Elements /\ (q \in f[k].bits <=> q \in b)
    BY <1>4, <2>1
  <2> HIDE DEF op, S, n
  <2>5. f[k + 1] \in Elements /\ f[k + 1].bits = OpBits(op, f[k].bits)
    BY <2>2, <2>3, <2>4, OpResult
  <2>6. f[k].bits \in Basis
    BY <2>4 DEF Elements
  <2> QED
    BY <2>2, <2>4, <2>5, <2>6, OpKeeps
<1>5. \A k \in Nat : k \in S
  <2> HIDE DEF S
  <2> QED
    BY <1>3, <1>4, SetInduction
<1>6. n \in S /\ n <= n
  <2> HIDE DEF S, n
  <2> QED
    BY <1>2, <1>5
<1> QED
  BY <1>1, <1>6

\* No operation reads q: the queue does the same for both its values.
LEMMA QueueIgnores ==
    ASSUME NEW ops \in Seq(Ops), NEW q \in Qubits, \A k \in 1 .. Len(ops) : q \notin OpReads(ops[k]), NEW b \in Basis
    PROVE  LET e == PerformOps(ops, Element(b))
               o == PerformOps(ops, Element(SymDiff(b, {q})))
           IN  o.bits = SymDiff(e.bits, {q}) /\ o.phase = e.phase
<1> DEFINE n == Len(ops)
           c == SymDiff(b, {q})
<1>1. PICK f : IsRun(ops, Element(b), f) /\ PerformOps(ops, Element(b)) = f[n]
  BY OpsRun
<1>2. PICK g : IsRun(ops, Element(c), g) /\ PerformOps(ops, Element(c)) = g[n]
  BY OpsRun
<1>3. n \in Nat /\ \A k \in 1 .. n : ops[k] \in Ops
  OBVIOUS
<1>4. c \in Basis
  BY DEF SymDiff, Basis
<1> DEFINE Alike(k) == /\ f[k] \in Elements /\ g[k] \in Elements
                       /\ g[k].bits = SymDiff(f[k].bits, {q}) /\ g[k].phase = f[k].phase
           S == {k \in Nat : k <= n => Alike(k)}
<1>5. 0 \in S
  <2>1. f[0] = Element(b) /\ g[0] = Element(c)
    BY <1>1, <1>2 DEF IsRun
  <2>2. \A d \in Basis : Element(d).bits = d /\ Element(d).phase = ZERO /\ Element(d) \in Elements
    BY DEF Element, Elements, Angle, ZERO
  <2>3. f[0].bits = b /\ g[0].bits = c /\ f[0].phase = g[0].phase /\ f[0] \in Elements /\ g[0] \in Elements
    BY <1>4, <2>1, <2>2
  <2>4. Alike(0)
    BY <2>3
  <2> QED
    BY <2>4
<1> HIDE DEF c
<1>6. ASSUME NEW k \in Nat, k \in S
      PROVE  k + 1 \in S
  <2> SUFFICES ASSUME k + 1 <= n
               PROVE  Alike(k + 1)
    OBVIOUS
  <2> DEFINE op == ops[k + 1]
  <2>1. k + 1 \in 1 .. n /\ k <= n /\ (k + 1) - 1 = k
    BY <1>3
  <2>2. op \in Ops /\ q \notin OpReads(op)
    BY <1>3, <2>1
  <2>3. f[k + 1] = PerformOp(op, f[k]) /\ g[k + 1] = PerformOp(op, g[k])
    BY <1>1, <1>2, <2>1 DEF IsRun
  <2>4. Alike(k)
    BY <1>6, <2>1
  <2> HIDE DEF op, S, n
  <2>5. f[k].bits \in Basis
    BY <2>4 DEF Elements
  <2>6. /\ f[k + 1] \in Elements /\ f[k + 1].bits = OpBits(op, f[k].bits)
        /\ f[k + 1].phase = IF op.kind = "phase" /\ Holds(op.ctl, f[k].bits) THEN Turn(f[k].phase + op.a) ELSE f[k].phase
    BY <2>2, <2>3, <2>4, OpResult
  <2>7. /\ g[k + 1] \in Elements /\ g[k + 1].bits = OpBits(op, g[k].bits)
        /\ g[k + 1].phase = IF op.kind = "phase" /\ Holds(op.ctl, g[k].bits) THEN Turn(g[k].phase + op.a) ELSE g[k].phase
    BY <2>2, <2>3, <2>4, OpResult
  <2>8. /\ OpBits(op, g[k].bits) = SymDiff(OpBits(op, f[k].bits), {q})
        /\ Holds(op.ctl, g[k].bits) <=> Holds(op.ctl, f[k].bits)
    BY <2>2, <2>4, <2>5, OpIgnores
  <2> QED
    BY <2>4, <2>6, <2>7, <2>8
<1>7. \A k \in Nat : k \in S
  <2> HIDE DEF S
  <2> QED
    BY <1>5, <1>6, SetInduction
<1>8. Alike(n)
  <2>1. n \in S /\ n <= n
    <3> HIDE DEF S, n
    <3> QED
      BY <1>3, <1>7
  <2> HIDE DEF Alike, n
  <2> QED
    BY <2>1
<1> QED
  BY <1>1, <1>2, <1>8 DEF c

-----------------------------------------------------------------------------
(* Gates that pass the queue                                               *)

\* Amplitudes.
Complex == Int \X Int

\* The angles of a gate in normal form.
LEMMA GateFields ==
    ASSUME NEW g \in U3
    PROVE  /\ g = [theta |-> g.theta, phi |-> g.phi, lambda |-> g.lambda]
           /\ g.theta \in 0 .. 2 /\ g.phi \in Angle /\ g.lambda \in Angle
<1>1. PICK th \in Angle, ph \in Angle, la \in Angle : g = NewU3(th, ph, la)
  BY DEF U3
<1>2. th \in Int /\ ph \in Int /\ la \in Int
  BY DEF Angle
<1> QED
  BY <1>1, <1>2 DEF NewU3, Turn, Angle, ZERO, PI

\* The phase of a quarter turn is a unit.
LEMMA PhaseType ==
    ASSUME NEW a \in Angle
    PROVE  Phase(a) \in {<<1, 0>>, <<0, 1>>, <<-1, 0>>, <<0, -1>>}
BY DEF Phase, Angle

\* What a matrix can hold.
Units == {<<0, 0>>, <<1, 0>>, <<0, 1>>, <<-1, 0>>, <<0, -1>>}

\* The entries of a gate's matrix are units or zero.
LEMMA MatrixType ==
    ASSUME NEW g \in U3
    PROVE  U4(g, 0, 0) \in Units /\ U4(g, 0, 1) \in Units /\ U4(g, 1, 0) \in Units /\ U4(g, 1, 1) \in Units
<1>1. g.phi \in Angle /\ g.lambda \in Angle
  BY GateFields
<1>2. Turn(g.lambda + PI) \in Angle /\ Turn(g.phi + g.lambda) \in Angle
  BY <1>1, TurnType DEF Angle, PI
<1>3. Phase(g.phi) \in Units /\ Phase(Turn(g.lambda + PI)) \in Units /\ Phase(Turn(g.phi + g.lambda)) \in Units
  BY <1>1, <1>2, PhaseType DEF Units
<1>4. CZero \in Units /\ <<1, 0>> \in Units
  BY DEF CZero, Units
<1> HIDE DEF Units
<1> QED
  BY <1>3, <1>4 DEF U4

\* y is x times the unit u.
Turned(u, x, y) ==
    \/ u = <<0, 0>> /\ y[1] = 0 /\ y[2] = 0
    \/ u = <<1, 0>> /\ y[1] = x[1] /\ y[2] = x[2]
    \/ u = <<0, 1>> /\ y[1] = -x[2] /\ y[2] = x[1]
    \/ u = <<-1, 0>> /\ y[1] = -x[1] /\ y[2] = -x[2]
    \/ u = <<0, -1>> /\ y[1] = x[2] /\ y[2] = -x[1]

\* A product with one of them turns the other factor.
LEMMA UnitTimes ==
    ASSUME NEW u \in Units, NEW x \in Complex
    PROVE  CMul(u, x) \in Complex /\ Turned(u, x, CMul(u, x))
<1>1. CMul(u, x) \in Complex
  BY DEF Units, CMul, Complex
<1>2. PICK a \in Int, b \in Int : x = <<a, b>>
  BY DEF Complex
<1>3. Turned(u, x, CMul(u, x))
  BY <1>2 DEF Units, CMul, Turned
<1> QED
  BY <1>1, <1>3

\* Units can be exchanged.
LEMMA UnitsCommute ==
    ASSUME NEW u \in Units, NEW w \in Units, NEW x \in Complex
    PROVE  CMul(u, CMul(w, x)) = CMul(w, CMul(u, x))
<1> DEFINE y == CMul(w, x)
           z == CMul(u, x)
           uy == CMul(u, y)
           wz == CMul(w, z)
<1>1. y \in Complex /\ z \in Complex /\ Turned(w, x, y) /\ Turned(u, x, z)
  BY UnitTimes
<1> HIDE DEF y, z
<1>2. uy \in Complex /\ wz \in Complex /\ Turned(u, y, uy) /\ Turned(w, z, wz)
  BY <1>1, UnitTimes
<1> HIDE DEF uy, wz
<1>3. \A v \in Complex : v[1] \in Int /\ v[2] \in Int /\ v = <<v[1], v[2]>>
  BY DEF Complex
<1>4. uy[1] = wz[1] /\ uy[2] = wz[2]
  BY <1>1, <1>2, <1>3 DEF Turned
<1>5. uy = wz
  BY <1>2, <1>3, <1>4, Zenon
<1> QED
  BY <1>5 DEF uy, wz, y, z

\* It distributes over sums.
LEMMA UnitDistributes ==
    ASSUME NEW u \in Units, NEW x \in Complex, NEW y \in Complex
    PROVE  CMul(u, CAdd(x, y)) = CAdd(CMul(u, x), CMul(u, y))
BY DEF Units, CMul, CAdd, Complex

\* Sums.
LEMMA Sums ==
    ASSUME NEW x \in Complex, NEW y \in Complex
    PROVE  /\ CAdd(x, y) \in Complex
           /\ CAdd(x, y) = CAdd(y, x)
           /\ CAdd(CZero, x) = x /\ CAdd(x, CZero) = x
           /\ CMul(CZero, x) = CZero
BY DEF CMul, CAdd, Complex, CZero

\* blocks() asks for a gate without a rotation about x if the queue reads the
\* qubit, and without one about z if it writes it.
LEMMA PassingGates ==
    ASSUME NEW g \in U3, NEW todo, NEW q, ~Blocks(todo, q, g)
    PROVE  /\ q \in todo.reads => U4(g, 0, 1) = CZero /\ U4(g, 1, 0) = CZero
           /\ q \in todo.writes => U4(g, 0, 1) = U4(g, 1, 0) /\ U4(g, 0, 0) = U4(g, 1, 1)
<1> DEFINE d == ToRzRx(g)
<1>1. /\ q \in todo.reads => d.some /\ d.rx = ZERO
      /\ q \in todo.writes => d.some /\ d.rz = ZERO
  BY DEF Blocks
<1>2. g.theta \in 0 .. 2 /\ g.phi \in 0 .. 3 /\ g.lambda \in 0 .. 3
  BY GateFields DEF Angle
<1>3. d.some /\ d.rx = ZERO => g.theta = ZERO
  BY <1>2 DEF ToRzRx, None, Turn, ZERO, PI, PI_1_2, PI_3_2
<1>4. g.theta = ZERO => U4(g, 0, 1) = CZero /\ U4(g, 1, 0) = CZero
  BY DEF U4
<1>5. d.some /\ d.rz = ZERO =>
         \/ g.theta = ZERO /\ Turn(g.phi + g.lambda) = 0
         \/ g.theta = PI /\ g.phi = Turn(g.lambda + PI)
         \/ g.theta = 1 /\ g.phi = 1 /\ g.lambda = 3
         \/ g.theta = 1 /\ g.phi = 3 /\ g.lambda = 1
  BY <1>2 DEF ToRzRx, None, Turn, ZERO, PI, PI_1_2, PI_3_2
<1>6. d.some /\ d.rz = ZERO => U4(g, 0, 1) = U4(g, 1, 0) /\ U4(g, 0, 0) = U4(g, 1, 1)
  <2> HIDE DEF d
  <2>1. CASE g.theta = ZERO /\ Turn(g.phi + g.lambda) = 0
    BY <2>1 DEF U4, ZERO, PI, Phase
  <2>2. CASE g.theta = PI /\ g.phi = Turn(g.lambda + PI)
    BY <2>2 DEF U4, ZERO, PI
  <2>3. CASE g.theta = 1 /\ g.phi = 1 /\ g.lambda = 3
    BY <2>3 DEF U4, ZERO, PI, Phase, Turn
  <2>4. CASE g.theta = 1 /\ g.phi = 3 /\ g.lambda = 1
    BY <2>4 DEF U4, ZERO, PI, Phase, Turn
  <2> QED
    BY <1>5, <2>1, <2>2, <2>3, <2>4
<1> HIDE DEF d
<1> QED
  BY <1>1, <1>3, <1>4, <1>6

\* The amplitude of an element goes where the queue takes the element.
LEMMA MappedAt ==
    ASSUME NEW ops \in Seq(Ops), NEW v, NEW b \in Basis
    PROVE  LET e == PerformOps(ops, Element(b))
           IN  e.bits \in Basis /\ e.phase \in Angle /\ Mapped(v, Graph(ops))[e.bits] = CMul(Phase(e.phase), v[b])
<1> DEFINE P(x) == PerformOps(ops, Element(x))
           c == P(b).bits
           e == CHOOSE e \in Graph(ops) : e.to.bits = c
<1>1. /\ \A x \in Basis : P(x) \in Elements
      /\ \A x, y \in Basis : P(x).bits = P(y).bits => x = y
  BY QueueMap
<1>2. c \in Basis /\ P(b).phase \in Angle
  BY <1>1 DEF Elements
<1>3. Mapped(v, Graph(ops))[c] = CMul(Phase(e.to.phase), v[e.from])
  BY <1>2, Zenon DEF Mapped
<1>4. Graph(ops) = {[from |-> x, to |-> P(x)] : x \in Basis}
  BY Zenon DEF Graph
<1> HIDE DEF P
<1>5. \E d \in Graph(ops) : d.to.bits = c
  <2>1. [from |-> b, to |-> P(b)] \in Graph(ops)
    BY <1>4
  <2>2. [from |-> b, to |-> P(b)].to.bits = c
    OBVIOUS
  <2> QED
    BY <2>1, <2>2, Zenon
<1>6. e \in Graph(ops) /\ e.to.bits = c
  BY <1>5, Zenon
<1> HIDE DEF e
<1>7. PICK x \in Basis : e = [from |-> x, to |-> P(x)]
  BY <1>4, <1>6
<1>8. e.from = x /\ e.to = P(x)
  BY <1>7
<1>9. x = b
  BY <1>1, <1>6, <1>8
<1> QED
  BY <1>2, <1>3, <1>8, <1>9 DEF P

\* An amplitude after a gate.
LEMMA GateAt ==
    ASSUME NEW v, NEW q \in Qubits, NEW g, NEW b \in Basis
    PROVE  /\ q \notin b => ApplyU3(v, q, g)[b] = CAdd(CMul(U4(g, 0, 0), v[b]), CMul(U4(g, 0, 1), v[SymDiff(b, {q})]))
           /\ q \in b => ApplyU3(v, q, g)[b] = CAdd(CMul(U4(g, 1, 0), v[SymDiff(b, {q})]), CMul(U4(g, 1, 1), v[b]))
<1>1. q \notin b => b \ {q} = b /\ b \cup {q} = SymDiff(b, {q})
  BY DEF SymDiff
<1>2. q \in b => b \ {q} = SymDiff(b, {q}) /\ b \cup {q} = b
  BY DEF SymDiff
<1>3. ApplyU3(v, q, g)[b] =
         LET r == IF q \in b THEN 1 ELSE 0
         IN  CAdd(CMul(U4(g, r, 0), v[b \ {q}]), CMul(U4(g, r, 1), v[b \cup {q}]))
  BY Zenon DEF ApplyU3
<1> QED
  BY <1>1, <1>2, <1>3

\* After the queue every element has an amplitude.
LEMMA MappedIsVector ==
    ASSUME NEW v, NEW graph
    PROVE  Mapped(v, graph) = [c \in Basis |-> Mapped(v, graph)[c]]
<1> DEFINE A(c) == LET e == CHOOSE e \in graph : e.to.bits = c IN CMul(Phase(e.to.phase), v[e.from])
<1>1. Mapped(v, graph) = [c \in Basis |-> A(c)]
  BY Zenon DEF Mapped
<1> HIDE DEF A
<1> QED
  BY <1>1

\* So has it after a gate.
LEMMA GatedIsVector ==
    ASSUME NEW v, NEW q, NEW g
    PROVE  ApplyU3(v, q, g) = [c \in Basis |-> ApplyU3(v, q, g)[c]]
<1> DEFINE A(b) == LET r == IF q \in b THEN 1 ELSE 0
                   IN  CAdd(CMul(U4(g, r, 0), v[b \ {q}]), CMul(U4(g, r, 1), v[b \cup {q}]))
<1>1. ApplyU3(v, q, g) = [c \in Basis |-> A(c)]
  BY Zenon DEF ApplyU3
<1> HIDE DEF A
<1> QED
  BY <1>1

\* What blocks() lets pass commutes with the queue, for every vector.
LEMMA Passing ==
    ASSUME NEW todo, Recorded(todo),
           NEW q \in Qubits, NEW g \in U3, ~Blocks(todo, q, g), NEW v \in Vectors
    PROVE  Mapped(ApplyU3(v, q, g), Graph(todo.ops)) = ApplyU3(Mapped(v, Graph(todo.ops)), q, g)
<1> SUFFICES ASSUME todo.ops \in Seq(Ops),
                    \A k \in 1 .. Len(todo.ops) :
                       OpReads(todo.ops[k]) \subseteq todo.reads /\ OpWrites(todo.ops[k]) \subseteq todo.writes
             PROVE  Mapped(ApplyU3(v, q, g), Graph(todo.ops)) = ApplyU3(Mapped(v, Graph(todo.ops)), q, g)
  BY DEF Recorded
<1> DEFINE ops == todo.ops
           m == Mapped(v, Graph(ops))
           u == ApplyU3(v, q, g)
           left == Mapped(u, Graph(ops))
           right == ApplyU3(m, q, g)
<1>1. ASSUME NEW c \in Basis
      PROVE  left[c] = right[c]
  <2>1. PICK b \in Basis : PerformOps(ops, Element(b)).bits = c
    BY QueueMap
  <2> DEFINE e == PerformOps(ops, Element(b))
             o == PerformOps(ops, Element(SymDiff(b, {q})))
             p == Phase(e.phase)
             x == v[b]
             y == v[SymDiff(b, {q})]
             d == SymDiff(c, {q})
  <2>2. SymDiff(b, {q}) \in Basis /\ d \in Basis
    BY DEF SymDiff, Basis
  <2>3. x \in Complex /\ y \in Complex
    BY <2>2 DEF Vectors, Complex
  <2>4. e.phase \in Angle /\ left[c] = CMul(p, u[b]) /\ m[c] = CMul(p, x)
    BY <2>1, MappedAt
  <2>5. p \in Units /\ U4(g, 0, 0) \in Units /\ U4(g, 0, 1) \in Units /\ U4(g, 1, 0) \in Units /\ U4(g, 1, 1) \in Units
    BY <2>4, PhaseType, MatrixType DEF Units
  <2>6. m[d] \in Complex
    <3>1. PICK z \in Basis : PerformOps(ops, Element(z)).bits = d
      BY <2>2, QueueMap
    <3> DEFINE f == PerformOps(ops, Element(z))
    <3>2. f.phase \in Angle /\ m[d] = CMul(Phase(f.phase), v[z])
      BY <3>1, MappedAt
    <3>3. Phase(f.phase) \in Units /\ v[z] \in Complex
      BY <3>2, PhaseType DEF Units, Vectors, Complex
    <3> HIDE DEF m
    <3> QED
      BY <3>2, <3>3, UnitTimes
  <2>7. q \notin todo.writes => (q \in c <=> q \in b)
    BY <2>1, QueueKeeps
  <2>8. q \notin todo.reads => m[d] = CMul(p, y)
    <3> SUFFICES ASSUME q \notin todo.reads PROVE m[d] = CMul(p, y)
      OBVIOUS
    <3>1. o.bits = d /\ o.phase = e.phase
      BY <2>1, QueueIgnores
    <3>2. m[o.bits] = CMul(Phase(o.phase), y)
      BY <2>2, MappedAt
    <3> QED
      BY <3>1, <3>2
  <2>9. /\ q \notin b => u[b] = CAdd(CMul(U4(g, 0, 0), x), CMul(U4(g, 0, 1), y))
        /\ q \in b => u[b] = CAdd(CMul(U4(g, 1, 0), y), CMul(U4(g, 1, 1), x))
        /\ q \notin c => right[c] = CAdd(CMul(U4(g, 0, 0), m[c]), CMul(U4(g, 0, 1), m[d]))
        /\ q \in c => right[c] = CAdd(CMul(U4(g, 1, 0), m[d]), CMul(U4(g, 1, 1), m[c]))
    BY GateAt
  <2>10. /\ q \in todo.reads => U4(g, 0, 1) = CZero /\ U4(g, 1, 0) = CZero
         /\ q \in todo.writes => U4(g, 0, 1) = U4(g, 1, 0) /\ U4(g, 0, 0) = U4(g, 1, 1)
    BY PassingGates
  <2> HIDE DEF left, right, m, u, e, o, p, x, y, d, ops
  <2>11. ASSUME NEW a \in Units, NEW w \in Units
         PROVE  /\ CMul(p, CAdd(CMul(a, x), CMul(w, y))) = CAdd(CMul(a, CMul(p, x)), CMul(w, CMul(p, y)))
                /\ CAdd(CMul(w, y), CMul(a, x)) = CAdd(CMul(a, x), CMul(w, y))
                /\ CAdd(CMul(w, m[d]), CMul(a, m[c])) = CAdd(CMul(a, m[c]), CMul(w, m[d]))
                /\ w = CZero => /\ CMul(p, CAdd(CMul(a, x), CMul(w, y))) = CMul(p, CMul(a, x))
                                /\ CAdd(CMul(a, m[c]), CMul(w, m[d])) = CMul(a, m[c])
                /\ CMul(p, CMul(a, x)) = CMul(a, CMul(p, x))
    <3>1. CMul(a, x) \in Complex /\ CMul(w, y) \in Complex /\ CMul(p, x) \in Complex
      BY <2>3, <2>5, UnitTimes
    <3>2. m[c] \in Complex /\ CMul(a, m[c]) \in Complex /\ CMul(w, m[d]) \in Complex
      BY <2>4, <2>6, <3>1, UnitTimes
    <3>3. CMul(p, CMul(a, x)) = CMul(a, CMul(p, x)) /\ CMul(p, CMul(w, y)) = CMul(w, CMul(p, y))
      BY <2>3, <2>5, UnitsCommute
    <3>4. CMul(p, CAdd(CMul(a, x), CMul(w, y))) = CAdd(CMul(p, CMul(a, x)), CMul(p, CMul(w, y)))
      BY <2>5, <3>1, UnitDistributes
    <3>5. CAdd(CMul(w, y), CMul(a, x)) = CAdd(CMul(a, x), CMul(w, y))
      BY <3>1, Sums
    <3>6. CAdd(CMul(w, m[d]), CMul(a, m[c])) = CAdd(CMul(a, m[c]), CMul(w, m[d]))
      BY <3>2, Sums
    <3>7. w = CZero => CAdd(CMul(a, x), CMul(w, y)) = CMul(a, x) /\ CAdd(CMul(a, m[c]), CMul(w, m[d])) = CMul(a, m[c])
      BY <2>3, <2>6, <3>1, <3>2, Sums
    <3> QED
      BY <3>3, <3>4, <3>5, <3>6, <3>7
  <2>12. CASE q \notin todo.reads /\ q \notin todo.writes
    <3>1. CASE q \in c
      BY <2>4, <2>5, <2>7, <2>8, <2>9, <2>11, <2>12, <3>1
    <3>2. CASE q \notin c
      BY <2>4, <2>5, <2>7, <2>8, <2>9, <2>11, <2>12, <3>2
    <3> QED
      BY <3>1, <3>2
  <2>13. CASE q \in todo.reads /\ q \notin todo.writes
    <3>1. CASE q \in c
      BY <2>4, <2>5, <2>7, <2>9, <2>10, <2>11, <2>13, <3>1
    <3>2. CASE q \notin c
      BY <2>4, <2>5, <2>7, <2>9, <2>10, <2>11, <2>13, <3>2
    <3> QED
      BY <3>1, <3>2
  <2>14. CASE q \notin todo.reads /\ q \in todo.writes
    <3> DEFINE a == U4(g, 0, 0)
               w == U4(g, 0, 1)
    <3>1. a \in Units /\ w \in Units
      BY <2>5
    <3>2. U4(g, 1, 1) = a /\ U4(g, 1, 0) = w
      BY <2>10, <2>14
    <3> HIDE DEF a, w
    <3>3. u[b] = CAdd(CMul(a, x), CMul(w, y))
      BY <2>9, <2>11, <3>1, <3>2 DEF a, w
    <3>4. right[c] = CAdd(CMul(a, m[c]), CMul(w, m[d]))
      BY <2>9, <2>11, <3>1, <3>2 DEF a, w
    <3>5. CMul(p, CAdd(CMul(a, x), CMul(w, y))) = CAdd(CMul(a, CMul(p, x)), CMul(w, CMul(p, y)))
      BY <2>11, <3>1
    <3> QED
      BY <2>4, <2>8, <2>14, <3>3, <3>4, <3>5
  <2>15. CASE q \in todo.reads /\ q \in todo.writes
    <3> DEFINE a == U4(g, 0, 0)
               w == U4(g, 0, 1)
    <3>1. a \in Units /\ w \in Units /\ w = CZero
      BY <2>5, <2>10, <2>15
    <3>2. U4(g, 1, 1) = a /\ U4(g, 1, 0) = w
      BY <2>10, <2>15
    <3> HIDE DEF a, w
    <3>3. u[b] = CAdd(CMul(a, x), CMul(w, y))
      BY <2>9, <2>11, <3>1, <3>2 DEF a, w
    <3>4. right[c] = CAdd(CMul(a, m[c]), CMul(w, m[d]))
      BY <2>9, <2>11, <3>1, <3>2 DEF a, w
    <3> QED
      BY <2>4, <2>11, <3>1, <3>3, <3>4
  <2> QED
    BY <2>12, <2>13, <2>14, <2>15
<1>2. left = [c \in Basis |-> left[c]]
  BY MappedIsVector, Zenon
<1>3. right = [c \in Basis |-> right[c]]
  BY GatedIsVector, Zenon
<1> HIDE DEF left, right
<1>4. left = right
  BY <1>1, <1>2, <1>3, Zenon
<1> QED
  BY <1>4 DEF left, right

-----------------------------------------------------------------------------
(* The gates that are pending                                              *)

\* Turns add up.
LEMMA Turns ==
    ASSUME NEW x \in Int, NEW y \in Int
    PROVE  /\ Turn(Turn(x)) = Turn(x)
           /\ Turn(-Turn(x)) = Turn(-x)
           /\ Turn(Turn(x) + Turn(y)) = Turn(x + y)
           /\ Turn(Turn(x) - Turn(y)) = Turn(x - y)
           /\ Turn(Turn(x) + PI) = Turn(x + PI)
<1>1. Turn(Turn(x)) = Turn(x)
  BY DEF Turn
<1>2. Turn(-Turn(x)) = Turn(-x)
  BY DEF Turn
<1>3. Turn(Turn(x) + Turn(y)) = Turn(x + y)
  BY DEF Turn
<1>4. Turn(Turn(x) - Turn(y)) = Turn(x - y)
  BY DEF Turn
<1>5. Turn(Turn(x) + PI) = Turn(x + PI)
  BY DEF Turn, PI
<1> QED
  BY <1>1, <1>2, <1>3, <1>4, <1>5

\* U3::new takes any angles.
LEMMA NewGate ==
    ASSUME NEW th \in Int, NEW ph \in Int, NEW la \in Int
    PROVE  NewU3(th, ph, la) \in U3
<1>1. Turn(th) \in Angle /\ Turn(ph) \in Angle /\ Turn(la) \in Angle
  BY TurnType
<1>2. NewU3(th, ph, la) = NewU3(Turn(th), Turn(ph), Turn(la))
  <2>1. /\ Turn(Turn(th)) = Turn(th) /\ Turn(Turn(ph)) = Turn(ph) /\ Turn(Turn(la)) = Turn(la)
        /\ Turn(-Turn(th)) = Turn(-th)
        /\ Turn(Turn(ph) + Turn(la)) = Turn(ph + la) /\ Turn(Turn(ph) - Turn(la)) = Turn(ph - la)
        /\ Turn(Turn(ph) + PI) = Turn(ph + PI) /\ Turn(Turn(la) + PI) = Turn(la + PI)
    BY Turns
  <2> QED
    BY <2>1 DEF NewU3
<1> QED
  BY <1>1, <1>2 DEF U3

\* Every gate the simulator makes is one.
LEMMA GateTypes ==
    /\ \A a \in Int : Rx(a) \in U3 /\ Ry(a) \in U3 /\ Rz(a) \in U3
    /\ GateX \in U3 /\ GateH \in U3
    /\ \A g, h \in U3 : Compose(g, h) \in U3
    /\ \A a \in Int : Compose(GateH, Rz(a)) \in U3
<1>1. \A a \in Int : Rx(a) \in U3 /\ Ry(a) \in U3
  BY NewGate DEF Rx, Ry, ZERO, PI_1_2, PI_3_2
<1>2. \A a \in Int : Rz(a) \in U3
  <2> TAKE a \in Int
  <2>1. Rz(a) = NewU3(0, a, 0)
    BY DEF Rz, NewU3, Turn, ZERO
  <2> QED
    BY <2>1, NewGate
<1>3. GateX \in U3 /\ GateH \in U3
  <2>1. GateX = NewU3(2, 2, 0) /\ GateH = NewU3(1, 0, 2)
    BY DEF GateX, GateH, NewU3, Turn, ZERO, PI, PI_1_2
  <2> QED
    BY <2>1, NewGate
<1>4. ASSUME NEW g \in U3, NEW h \in U3
      PROVE  Compose(g, h) \in U3
  <2> DEFINE z == Turn(g.phi + h.lambda)
             r == FromYzy(g.theta, z, h.theta)
  <2>1. g.theta \in Int /\ g.phi \in Int /\ g.lambda \in Int /\ h.theta \in Int /\ h.phi \in Int /\ h.lambda \in Int
    BY GateFields DEF Angle
  <2>2. z \in Int
    BY <2>1, TurnType DEF Angle
  <2>3. Compose(g, h) = NewU3(r.theta, r.phi + h.phi, g.lambda + r.lambda)
    BY Zenon DEF Compose
  <2> HIDE DEF z
  <2>4. r \in U3
    BY <1>1, <2>1, <2>2, NewGate DEF FromYzy, ZERO, PI, PI_1_2
  <2> HIDE DEF r
  <2>5. r.theta \in Int /\ r.phi \in Int /\ r.lambda \in Int
    BY <2>4, GateFields DEF Angle
  <2> QED
    BY <2>1, <2>3, <2>5, NewGate
<1> QED
  BY <1>1, <1>2, <1>3, <1>4

\* The angles a gate is taken apart into.
LEMMA Decomposed ==
    ASSUME NEW g \in U3
    PROVE  /\ ToCxRz(g).some => ToCxRz(g).rz \in Int
           /\ ToRzRx(g).some => ToRzRx(g).rz \in Int /\ ToRzRx(g).rx \in Int
           /\ ToRzHRz(g).some => ToRzHRz(g).rz1 \in Int /\ ToRzHRz(g).rz2 \in Int
<1>1. g.theta \in Int /\ g.phi \in Int /\ g.lambda \in Int
  BY GateFields DEF Angle
<1>2. \A x \in Int : Turn(x) \in Int
  BY TurnType DEF Angle
<1>3. ToCxRz(g).some => ToCxRz(g).rz \in Int
  BY <1>1, <1>2 DEF ToCxRz, None, PI
<1>4. ToRzRx(g).some => ToRzRx(g).rz \in Int /\ ToRzRx(g).rx \in Int
  BY <1>1, <1>2 DEF ToRzRx, None, PI, ZERO, PI_1_2
<1>5. ToRzHRz(g).some => ToRzHRz(g).rz1 \in Int /\ ToRzHRz(g).rz2 \in Int
  BY <1>1, <1>2 DEF ToRzHRz, None, PI
<1> QED
  BY <1>3, <1>4, <1>5

-----------------------------------------------------------------------------
(* Simulators, as far as the proofs look at them                           *)

\* A pending gate with its marks.
IsState(st) ==
    /\ st = [pending |-> st.pending, maybe_destructive |-> st.maybe_destructive,
             must_flush |-> st.must_flush, is_reordered |-> st.is_reordered]
    /\ st.pending \in U3
    /\ {st.maybe_destructive, st.must_flush, st.is_reordered} \subseteq BOOLEAN

\* The queue knows what its operations read and write.
IsQueue(x) ==
    /\ x = [ops |-> x.ops, reads |-> x.reads, writes |-> x.writes]
    /\ x.reads \subseteq Qubits /\ x.writes \subseteq Qubits
    /\ Recorded(x)

\* The pending gates.
ArePending(f) ==
    /\ f = [q \in DOMAIN f |-> f[q]]
    /\ DOMAIN f \subseteq Qubits
    /\ \A q \in DOMAIN f : IsState(f[q])

\* A simulator in the middle of a call, none of whose gates went past the end.
IsSim(s) ==
    /\ s = [amp |-> s.amp, cap |-> s.cap, queue |-> s.queue, qubits |-> s.qubits, beyond |-> s.beyond]
    /\ s.cap \in Widths
    /\ IsQueue(s.queue)
    /\ ArePending(s.qubits)
    /\ s.beyond = {}

\* What neither widens the vector nor touches a pending gate but that of q.
Only(q, s, t) ==
    /\ t.cap = s.cap
    /\ DOMAIN t.qubits \subseteq DOMAIN s.qubits
    /\ \A x \in DOMAIN t.qubits : x # q => t.qubits[x] = s.qubits[x]

-----------------------------------------------------------------------------
(* The parts of a call                                                     *)

\* One field of a pending gate changes.
LEMMA StateWith ==
    ASSUME NEW st, IsState(st), NEW v \in BOOLEAN
    PROVE  /\ IsState([st EXCEPT !.maybe_destructive = v])
           /\ [st EXCEPT !.maybe_destructive = v].must_flush = st.must_flush
           /\ [st EXCEPT !.maybe_destructive = v].is_reordered = st.is_reordered
           /\ IsState([st EXCEPT !.must_flush = v])
           /\ [st EXCEPT !.must_flush = v].must_flush = v
           /\ IsState([st EXCEPT !.is_reordered = v])
           /\ [st EXCEPT !.is_reordered = v].is_reordered = v
           /\ [st EXCEPT !.is_reordered = v].must_flush = st.must_flush
<1>1. IsState([st EXCEPT !.maybe_destructive = v])
  BY DEF IsState
<1>2. [st EXCEPT !.maybe_destructive = v].must_flush = st.must_flush
  BY DEF IsState
<1>3. [st EXCEPT !.maybe_destructive = v].is_reordered = st.is_reordered
  BY DEF IsState
<1>4. IsState([st EXCEPT !.must_flush = v])
  BY DEF IsState
<1>5. [st EXCEPT !.must_flush = v].must_flush = v
  BY DEF IsState
<1>6. IsState([st EXCEPT !.is_reordered = v])
  BY DEF IsState
<1>7. [st EXCEPT !.is_reordered = v].is_reordered = v
  BY DEF IsState
<1>8. [st EXCEPT !.is_reordered = v].must_flush = st.must_flush
  BY DEF IsState
<1> QED
  BY <1>1, <1>2, <1>3, <1>4, <1>5, <1>6, <1>7, <1>8, Zenon

\* The gate itself changes, alone or with a mark.
LEMMA StateWithGate ==
    ASSUME NEW st, IsState(st), NEW g \in U3, NEW v \in BOOLEAN
    PROVE  /\ IsState([st EXCEPT !.pending = g])
           /\ IsState([st EXCEPT !.is_reordered = v, !.pending = g])
           /\ IsState([st EXCEPT !.pending = g, !.maybe_destructive = v])
           /\ [st EXCEPT !.pending = g, !.maybe_destructive = v].must_flush = st.must_flush
           /\ [st EXCEPT !.pending = g, !.maybe_destructive = v].is_reordered = st.is_reordered
<1> DEFINE a == [st EXCEPT !.is_reordered = v]
           b == [st EXCEPT !.pending = g]
<1>1. [st EXCEPT !.is_reordered = v, !.pending = g] = [a EXCEPT !.pending = g]
  OBVIOUS
<1>2. [st EXCEPT !.pending = g, !.maybe_destructive = v] = [b EXCEPT !.maybe_destructive = v]
  OBVIOUS
<1>3. b.must_flush = st.must_flush /\ b.is_reordered = st.is_reordered
  <2>1. b.must_flush = st.must_flush
    BY DEF IsState
  <2>2. b.is_reordered = st.is_reordered
    BY DEF IsState
  <2> QED
    BY <2>1, <2>2, Zenon
<1>4. IsState(a)
  BY DEF IsState
<1>5. IsState(b)
  BY DEF IsState
<1> HIDE DEF a, b
<1>6. IsState([a EXCEPT !.pending = g])
  BY <1>4 DEF IsState
<1>7. IsState([b EXCEPT !.maybe_destructive = v])
  BY <1>5 DEF IsState
<1>8. [b EXCEPT !.maybe_destructive = v].must_flush = b.must_flush
  BY <1>5 DEF IsState
<1>9. [b EXCEPT !.maybe_destructive = v].is_reordered = b.is_reordered
  BY <1>5 DEF IsState
<1> QED
  BY <1>1, <1>2, <1>3, <1>5, <1>6, <1>7, <1>8, <1>9, Zenon DEF b

\* What the proofs need of a pending gate.
LEMMA PendingState ==
    ASSUME NEW s, IsSim(s), NEW q \in DOMAIN s.qubits
    PROVE  q \in Qubits /\ IsState(s.qubits[q])
BY DEF IsSim, ArePending

\* A pending gate is set.
LEMMA SetQubitSim ==
    ASSUME NEW s, IsSim(s), NEW q \in Qubits, NEW st, IsState(st)
    PROVE  /\ IsSim(SetQubit(s, q, st))
           /\ SetQubit(s, q, st).cap = s.cap
           /\ SetQubit(s, q, st).queue = s.queue
           /\ DOMAIN SetQubit(s, q, st).qubits = DOMAIN s.qubits \cup {q}
           /\ SetQubit(s, q, st).qubits[q] = st
           /\ \A x \in DOMAIN s.qubits : x # q => SetQubit(s, q, st).qubits[x] = s.qubits[x]
<1> DEFINE f == [x \in DOMAIN s.qubits \cup {q} |-> IF x = q THEN st ELSE s.qubits[x]]
<1>1. SetQubit(s, q, st) = [amp |-> s.amp, cap |-> s.cap, queue |-> s.queue, qubits |-> f, beyond |-> s.beyond]
  BY DEF SetQubit, IsSim
<1>2. ArePending(f)
  BY DEF IsSim, ArePending
<1> HIDE DEF f
<1>3. IsSim(SetQubit(s, q, st))
  BY <1>1, <1>2 DEF IsSim
<1> QED
  BY <1>1, <1>3 DEF f

\* Pending gates go.
LEMMA DropQubitsSim ==
    ASSUME NEW s, IsSim(s), NEW S
    PROVE  /\ IsSim(DropQubits(s, S))
           /\ DropQubits(s, S).cap = s.cap
           /\ DropQubits(s, S).queue = s.queue
           /\ DOMAIN DropQubits(s, S).qubits = DOMAIN s.qubits \ S
           /\ \A x \in DOMAIN s.qubits \ S : DropQubits(s, S).qubits[x] = s.qubits[x]
<1> DEFINE f == [x \in DOMAIN s.qubits \ S |-> s.qubits[x]]
<1>1. DropQubits(s, S) = [amp |-> s.amp, cap |-> s.cap, queue |-> s.queue, qubits |-> f, beyond |-> s.beyond]
  BY DEF DropQubits, IsSim
<1>2. ArePending(f)
  BY DEF IsSim, ArePending
<1> HIDE DEF f
<1>3. IsSim(DropQubits(s, S))
  BY <1>1, <1>2 DEF IsSim
<1> QED
  BY <1>1, <1>3 DEF f

\* Push records what the operation reads and writes.
LEMMA PushQueue ==
    ASSUME NEW x, IsQueue(x), NEW op \in Ops
    PROVE  IsQueue(Push(x, op))
<1> DEFINE y == Push(x, op)
<1>1. OpReads(op) \subseteq Qubits /\ OpWrites(op) \subseteq Qubits
  BY DEF Ops, Controls, OpReads, OpWrites
<1>2. x.ops \in Seq(Ops) /\ x.reads \subseteq Qubits /\ x.writes \subseteq Qubits /\ Recorded(x)
  BY DEF IsQueue, Recorded
<1>3. /\ y = [ops |-> y.ops, reads |-> y.reads, writes |-> y.writes]
      /\ y.ops = Append(x.ops, op)
      /\ y.reads = x.reads \cup OpReads(op) /\ y.writes = x.writes \cup OpWrites(op)
  BY DEF Push
<1> HIDE DEF y
<1>4. y.ops \in Seq(Ops) /\ Len(y.ops) = Len(x.ops) + 1
  BY <1>2, <1>3
<1>5. ASSUME NEW k \in 1 .. Len(y.ops)
      PROVE  OpReads(y.ops[k]) \subseteq y.reads /\ OpWrites(y.ops[k]) \subseteq y.writes
  <2>1. Len(x.ops) \in Nat
    BY <1>2
  <2>2. CASE k \in 1 .. Len(x.ops)
    <3>1. y.ops[k] = x.ops[k]
      BY <1>2, <1>3, <2>2
    <3>2. OpReads(x.ops[k]) \subseteq x.reads /\ OpWrites(x.ops[k]) \subseteq x.writes
      BY <1>2, <2>2 DEF Recorded
    <3> QED
      BY <1>3, <3>1, <3>2
  <2>3. CASE k = Len(x.ops) + 1
    <3>1. y.ops[k] = op
      BY <1>2, <1>3, <2>3
    <3> QED
      BY <1>3, <3>1
  <2> QED
    BY <1>4, <2>1, <2>2, <2>3
<1> QED
  BY <1>1, <1>2, <1>3, <1>4, <1>5 DEF IsQueue, Recorded, y

\* An operation joins the queue.
LEMMA EnqueueSim ==
    ASSUME NEW s, IsSim(s), NEW op \in Ops
    PROVE  /\ IsSim(Enqueue(s, op))
           /\ Enqueue(s, op).cap = s.cap
           /\ Enqueue(s, op).qubits = s.qubits
<1>1. Enqueue(s, op) = [amp |-> s.amp, cap |-> s.cap, queue |-> Push(s.queue, op), qubits |-> s.qubits, beyond |-> s.beyond]
  BY DEF Enqueue, IsSim
<1>2. IsQueue(Push(s.queue, op))
  BY PushQueue DEF IsSim
<1> QED
  BY <1>1, <1>2 DEF IsSim

\* A gate on a qubit that the vector has.
LEMMA PerformU4Sim ==
    ASSUME NEW s, IsSim(s), NEW S, \A q \in S : q \in Qubits /\ q <= s.cap
    PROVE  /\ IsSim(PerformU4(s, S))
           /\ PerformU4(s, S).cap = s.cap
           /\ PerformU4(s, S).queue = s.queue
           /\ DOMAIN PerformU4(s, S).qubits = DOMAIN s.qubits \ S
           /\ \A x \in DOMAIN s.qubits \ S : PerformU4(s, S).qubits[x] = s.qubits[x]
<1> DEFINE d == DropQubits(s, S)
           a == Reduce[ApplyPending(s.amp, s.qubits, S)]
<1>1. /\ IsSim(d) /\ d.cap = s.cap /\ d.queue = s.queue
      /\ DOMAIN d.qubits = DOMAIN s.qubits \ S
      /\ \A x \in DOMAIN s.qubits \ S : d.qubits[x] = s.qubits[x]
  BY DropQubitsSim
<1>2. PerformU4(s, S) = [d EXCEPT !.amp = a, !.beyond = @ \cup {q \in S : q > s.cap}]
  BY Zenon DEF PerformU4
<1>3. {q \in S : q > s.cap} = {}
  BY SimulatorAssumption, QubitsAssumption DEF SimulatorAssumption, QubitsAssumption, IsSim
<1> HIDE DEF d, a
<1>4. PerformU4(s, S) = [amp |-> a, cap |-> d.cap, queue |-> d.queue, qubits |-> d.qubits, beyond |-> {}]
  BY <1>1, <1>2, <1>3 DEF IsSim
<1>5. IsSim(PerformU4(s, S))
  BY <1>1, <1>4 DEF IsSim
<1> QED
  BY <1>1, <1>4, <1>5

\* Nothing is recorded of no operation.
LEMMA EmptyIsQueue == IsQueue(EmptyQueue)
BY DEF IsQueue, EmptyQueue, Recorded

\* The queue, when the vector has room for all its qubits.
LEMMA PerformSfreeSim ==
    ASSUME NEW s, IsSim(s), \A q \in s.queue.reads \cup s.queue.writes : q <= s.cap
    PROVE  /\ IsSim(PerformSfree(s))
           /\ PerformSfree(s).cap = s.cap
           /\ PerformSfree(s).queue = EmptyQueue
           /\ PerformSfree(s).qubits = s.qubits
<1> DEFINE a == Mapped(s.amp, Compiled(s.queue.ops))
<1>1. PerformSfree(s) = [s EXCEPT !.amp = a, !.queue = EmptyQueue,
                                  !.beyond = @ \cup {q \in s.queue.reads \cup s.queue.writes : q > s.cap}]
  BY Zenon DEF PerformSfree
<1>2. {q \in s.queue.reads \cup s.queue.writes : q > s.cap} = {}
  BY SimulatorAssumption, QubitsAssumption DEF SimulatorAssumption, QubitsAssumption, IsSim, IsQueue
<1> HIDE DEF a
<1>3. PerformSfree(s) = [amp |-> a, cap |-> s.cap, queue |-> EmptyQueue, qubits |-> s.qubits, beyond |-> {}]
  BY <1>1, <1>2 DEF IsSim
<1>4. IsQueue(EmptyQueue)
  BY EmptyIsQueue
<1> QED
  BY <1>3, <1>4 DEF IsSim

\* The operations a call puts into the queue.
LEMMA OpTypes ==
    ASSUME NEW ctl \in Controls
    PROVE  /\ \A a \in Int : OpPhase(ctl, a) \in Ops
           /\ \A S \in SUBSET Qubits : S \cap DOMAIN ctl = {} => OpX(ctl, S) \in Ops
           /\ \A q, r \in Qubits : ~Uses(ctl, q) /\ ~Uses(ctl, r) /\ q # r => OpSwap(ctl, q, r) \in Ops
<1>1. \A a \in Int : OpPhase(ctl, a) \in Ops
  BY DEF OpPhase, Ops
<1>2. \A S \in SUBSET Qubits : S \cap DOMAIN ctl = {} => OpX(ctl, S) \in Ops
  BY DEF OpX, Ops, ZERO
<1>3. \A q, r \in Qubits : ~Uses(ctl, q) /\ ~Uses(ctl, r) /\ q # r => OpSwap(ctl, q, r) \in Ops
  <2> TAKE q, r \in Qubits
  <2> HAVE ~Uses(ctl, q) /\ ~Uses(ctl, r) /\ q # r
  <2>1. {q, r} \in SUBSET Qubits /\ {q, r} \cap DOMAIN ctl = {}
    BY DEF Uses
  <2> QED
    BY <2>1 DEF OpSwap, Ops, ZERO
<1> QED
  BY <1>1, <1>2, <1>3

\* The controls that _preflush uses.
LEMMA SmallControls == Always \in Controls /\ \A q \in Qubits, v \in BOOLEAN : Single(q, v) \in Controls
<1>1. Always \in [{} -> BOOLEAN] /\ {} \in SUBSET Qubits
  BY DEF Always
<1>2. \A q \in Qubits, v \in BOOLEAN : Single(q, v) \in [{q} -> BOOLEAN] /\ {q} \in SUBSET Qubits
  BY DEF Single
<1>3. \A S \in SUBSET Qubits : [S -> BOOLEAN] \subseteq Controls
  BY DEF Controls
<1> QED
  BY <1>1, <1>2, <1>3

\* What _preflush queues.
LEMMA EnqueueOn ==
    ASSUME NEW s, IsSim(s), NEW q \in Qubits, NEW a \in Int
    PROVE  /\ IsSim(Enqueue(s, OpPhase(Single(q, TRUE), a)))
           /\ Enqueue(s, OpPhase(Single(q, TRUE), a)).cap = s.cap
           /\ Enqueue(s, OpPhase(Single(q, TRUE), a)).qubits = s.qubits
           /\ IsSim(Enqueue(s, OpX(Always, {q})))
           /\ Enqueue(s, OpX(Always, {q})).cap = s.cap
           /\ Enqueue(s, OpX(Always, {q})).qubits = s.qubits
<1>1. Single(q, TRUE) \in Controls /\ Always \in Controls
  BY SmallControls
<1>2. OpPhase(Single(q, TRUE), a) \in Ops
  BY <1>1, OpTypes
<1>3. OpX(Always, {q}) \in Ops
  <2>1. {q} \in SUBSET Qubits /\ {q} \cap DOMAIN Always = {}
    BY DEF Always
  <2> QED
    BY <1>1, <2>1, OpTypes
<1> QED
  BY <1>2, <1>3, EnqueueSim

-----------------------------------------------------------------------------
(* _preflush                                                               *)

\* What _preflush leaves of the gate it looked at.
Preflushed(q, s, p, R) ==
    /\ IsSim(p.s)
    /\ Only(q, s, p.s)
    /\ R = "I" => p.r = "id" /\ (q \in DOMAIN p.s.qubits => p.s.qubits[q].must_flush)

\* A pending x and rz goes to the queue or stays behind the call.
LEMMA PreflushSfreeSim ==
    ASSUME NEW s, IsSim(s), NEW q \in DOMAIN s.qubits, NEW R, ToCxRz(s.qubits[q].pending).some
    PROVE  Preflushed(q, s, PreflushSfree(s, q, R), R)
<1> DEFINE d == ToCxRz(s.qubits[q].pending)
           sx == IF d.x THEN Enqueue(s, OpX(Always, {q})) ELSE s
           sz == IF d.rz # ZERO THEN Enqueue(sx, OpPhase(Single(q, TRUE), d.rz)) ELSE sx
<1>1. q \in Qubits /\ d.rz \in Int
  BY PendingState, Decomposed DEF IsState
<1>2. PreflushSfree(s, q, R) =
          IF d.x /\ FromXRz(R) # "none" THEN [s |-> s, r |-> FromXRz(R)]
          ELSE IF d.rz # ZERO /\ FromRz(R) # "none" THEN [s |-> sx, r |-> FromRz(R)]
          ELSE [s |-> DropQubits(sz, {q}), r |-> "id"]
  BY Zenon DEF PreflushSfree
<1> HIDE DEF d
<1>3. IsSim(sx) /\ sx.cap = s.cap /\ sx.qubits = s.qubits
  BY <1>1, EnqueueOn
<1> HIDE DEF sx
<1>4. IsSim(sz) /\ sz.cap = s.cap /\ sz.qubits = s.qubits
  BY <1>1, <1>3, EnqueueOn
<1> HIDE DEF sz
<1>5. /\ IsSim(DropQubits(sz, {q}))
      /\ Only(q, s, DropQubits(sz, {q}))
      /\ q \notin DOMAIN DropQubits(sz, {q}).qubits
  BY <1>4, DropQubitsSim DEF Only
<1>6. R = "I" => FromXRz(R) = "none" /\ FromRz(R) = "none"
  BY DEF FromXRz, FromRz
<1>7. Only(q, s, s) /\ Only(q, s, sx)
  BY <1>3 DEF Only
<1> QED
  BY <1>2, <1>3, <1>5, <1>6, <1>7 DEF Preflushed

\* Of rz and rx the first part is queued.
LEMMA PreflushRxSim ==
    ASSUME NEW s, IsSim(s), NEW q \in DOMAIN s.qubits, NEW d, d.rz \in Int, d.rx \in Int
    PROVE  IsSim(PreflushRx(s, q, d)) /\ Only(q, s, PreflushRx(s, q, d))
<1> DEFINE st == [s.qubits[q] EXCEPT !.is_reordered = TRUE, !.pending = Rx(d.rx)]
           t == SetQubit(s, q, st)
<1>1. q \in Qubits
  BY DEF IsSim, ArePending
<1>2. IsState(st)
  BY GateTypes, PendingState, StateWithGate, Zenon
<1>3. PreflushRx(s, q, d) = IF d.rz = ZERO THEN s ELSE Enqueue(t, OpPhase(Single(q, TRUE), d.rz))
  BY Zenon DEF PreflushRx
<1> HIDE DEF st
<1>4. IsSim(t) /\ Only(q, s, t)
  BY <1>1, <1>2, SetQubitSim DEF Only
<1> HIDE DEF t
<1> DEFINE e == Enqueue(t, OpPhase(Single(q, TRUE), d.rz))
<1>5. IsSim(e) /\ e.cap = t.cap /\ e.qubits = t.qubits
  BY <1>1, <1>4, EnqueueOn
<1> HIDE DEF e
<1>6. Only(q, s, e) /\ Only(q, s, s)
  BY <1>4, <1>5 DEF Only
<1> QED
  BY <1>3, <1>4, <1>5, <1>6 DEF e

\* So it is of rz, h, rz.
LEMMA PreflushHSim ==
    ASSUME NEW s, IsSim(s), NEW q \in DOMAIN s.qubits, NEW d, d.rz1 \in Int, d.rz2 \in Int
    PROVE  IsSim(PreflushH(s, q, d)) /\ Only(q, s, PreflushH(s, q, d))
<1> DEFINE st == [s.qubits[q] EXCEPT !.is_reordered = TRUE]
           su == [st EXCEPT !.pending = Compose(GateH, Rz(d.rz2))]
           t == SetQubit(s, q, st)
           u == SetQubit(s, q, su)
<1>1. q \in Qubits
  BY DEF IsSim, ArePending
<1>2. IsState(st)
  BY PendingState, StateWith, Zenon
<1>3. PreflushH(s, q, d) = IF d.rz1 = ZERO THEN t ELSE Enqueue(u, OpPhase(Single(q, TRUE), d.rz1))
  BY Zenon DEF PreflushH
<1> HIDE DEF st
<1>4. IsState(su)
  BY <1>2, GateTypes, StateWithGate, Zenon
<1> HIDE DEF su
<1>5. IsSim(t) /\ Only(q, s, t) /\ IsSim(u) /\ Only(q, s, u)
  BY <1>1, <1>2, <1>4, SetQubitSim DEF Only
<1> HIDE DEF t, u
<1> DEFINE e == Enqueue(u, OpPhase(Single(q, TRUE), d.rz1))
<1>6. IsSim(e) /\ e.cap = u.cap /\ e.qubits = u.qubits
  BY <1>1, <1>5, EnqueueOn
<1> HIDE DEF e
<1>7. Only(q, s, e)
  BY <1>5, <1>6 DEF Only
<1> QED
  BY <1>3, <1>5, <1>6, <1>7 DEF e

\* Any other gate is moved past or must go.
LEMMA PreflushDenseSim ==
    ASSUME NEW s, IsSim(s), NEW q \in DOMAIN s.qubits, NEW R
    PROVE  Preflushed(q, s, PreflushDense(s, q, R), R)
<1> DEFINE zx == ToRzRx(s.qubits[q].pending)
           zhz == ToRzHRz(s.qubits[q].pending)
           sr == [s.qubits[q] EXCEPT !.is_reordered = TRUE]
           sm == [s.qubits[q] EXCEPT !.must_flush = TRUE]
           reordered == SetQubit(s, q, sr)
           marked == SetQubit(s, q, sm)
<1>1. q \in Qubits
  BY DEF IsSim, ArePending
<1>2. IsState(sr) /\ IsState(sm) /\ sm.must_flush = TRUE
  BY PendingState, StateWith, Zenon
<1>3. PreflushDense(s, q, R) =
          IF zx.some /\ FromRx(R) # "none" THEN [s |-> PreflushRx(s, q, zx), r |-> FromRx(R)]
          ELSE IF zhz.some /\ FromHRz(R) # "none" THEN [s |-> PreflushH(s, q, zhz), r |-> FromHRz(R)]
          ELSE IF zhz.some /\ zhz.rz2 = ZERO /\ FromHRx(R) # "none" THEN [s |-> reordered, r |-> FromHRx(R)]
          ELSE IF zhz.some /\ zhz.rz2 = PI /\ FromXHRx(R) # "none" THEN [s |-> reordered, r |-> FromXHRx(R)]
          ELSE [s |-> marked, r |-> "id"]
  BY Zenon DEF PreflushDense
<1>4. (zx.some => zx.rz \in Int /\ zx.rx \in Int) /\ (zhz.some => zhz.rz1 \in Int /\ zhz.rz2 \in Int)
  BY PendingState, Decomposed DEF IsState
<1> HIDE DEF sr, sm, zx, zhz
<1>5. /\ IsSim(reordered) /\ Only(q, s, reordered)
      /\ IsSim(marked) /\ Only(q, s, marked) /\ marked.qubits[q].must_flush
  BY <1>1, <1>2, SetQubitSim DEF Only
<1> HIDE DEF reordered, marked
<1>6. /\ zx.some => IsSim(PreflushRx(s, q, zx)) /\ Only(q, s, PreflushRx(s, q, zx))
      /\ zhz.some => IsSim(PreflushH(s, q, zhz)) /\ Only(q, s, PreflushH(s, q, zhz))
  BY <1>4, PreflushRxSim, PreflushHSim
<1>7. R = "I" => FromRx(R) = "none" /\ FromHRz(R) = "none" /\ FromHRx(R) = "none" /\ FromXHRx(R) = "none"
  BY DEF FromRx, FromHRz, FromHRx, FromXHRx
<1> QED
  BY <1>3, <1>5, <1>6, <1>7 DEF Preflushed

\* _preflush touches one gate, and applies it only to a vector that has its qubit.
LEMMA PreflushSim ==
    ASSUME NEW s, IsSim(s), NEW q \in Qubits, NEW R, NEW E
    PROVE  Preflushed(q, s, Preflush(s, q, R, E), R)
<1>1. CASE q \notin DOMAIN s.qubits
  <2>1. Preflush(s, q, R, E) = [s |-> s, r |-> "id"]
    BY <1>1 DEF Preflush
  <2> QED
    BY <1>1, <2>1 DEF Preflushed, Only
<1>2. CASE q \in DOMAIN s.qubits
  <2> DEFINE st == s.qubits[q]
             ask == st.maybe_destructive /\ ~Blocks(s.queue, q, st.pending)
             su == [st EXCEPT !.maybe_destructive = FALSE]
             t == IF ask THEN SetQubit(s, q, su) ELSE s
  <2>1. Preflush(s, q, R, E) =
            IF ToCxRz(st.pending).some THEN PreflushSfree(s, q, R)
            ELSE IF ask /\ EagerFlush(s, q, E) THEN [s |-> PerformU4(s, {q}), r |-> "id"]
            ELSE PreflushDense(t, q, R)
    BY <1>2, Zenon DEF Preflush
  <2>2. IsState(su)
    BY <1>2, PendingState, StateWith, Zenon
  <2> HIDE DEF su, ask
  <2>3. IsSim(t) /\ Only(q, s, t) /\ q \in DOMAIN t.qubits
    BY <1>2, <2>2, SetQubitSim DEF Only
  <2> HIDE DEF t
  <2>4. Preflushed(q, s, PreflushDense(t, q, R), R)
    <3>1. Preflushed(q, t, PreflushDense(t, q, R), R)
      BY <2>3, PreflushDenseSim
    <3> QED
      BY <2>3, <3>1 DEF Preflushed, Only
  <2>5. ToCxRz(st.pending).some => Preflushed(q, s, PreflushSfree(s, q, R), R)
    BY <1>2, PreflushSfreeSim
  <2>6. ASSUME EagerFlush(s, q, E)
        PROVE  Preflushed(q, s, [s |-> PerformU4(s, {q}), r |-> "id"], R)
    <3>1. q <= s.cap
      BY <2>6 DEF EagerFlush
    <3> QED
      BY <3>1, PerformU4Sim DEF Preflushed, Only
  <2> HIDE DEF st
  <2> QED
    BY <2>1, <2>4, <2>5, <2>6
<1> QED
  BY <1>1, <1>2

-----------------------------------------------------------------------------
(* _flush                                                                  *)

\* The narrowest vector that holds a qubit does hold it.
LEMMA WidthHolds ==
    ASSUME NEW q, \E w \in Widths : q <= w
    PROVE  Width(q) \in Widths /\ q <= Width(q)
<1> DEFINE W == {w \in Widths : q <= w}
<1>1. W \in SUBSET Nat /\ W # {}
  BY SimulatorAssumption DEF SimulatorAssumption
<1>2. Min(W) \in W
  BY <1>1, MinOf
<1> QED
  BY <1>2 DEF Width

\* What a pass over the pending gates does to their marks.
LEMMA MarkSim ==
    ASSUME NEW s, IsSim(s), NEW f, ArePending(f)
    PROVE  /\ IsSim([s EXCEPT !.qubits = f])
           /\ [s EXCEPT !.qubits = f].cap = s.cap
           /\ [s EXCEPT !.qubits = f].queue = s.queue
           /\ [s EXCEPT !.qubits = f].qubits = f
<1>1. [s EXCEPT !.qubits = f] = [amp |-> s.amp, cap |-> s.cap, queue |-> s.queue, qubits |-> f, beyond |-> s.beyond]
  BY DEF IsSim
<1> QED
  BY <1>1 DEF IsSim

\* Nothing but eager flushes and their marks: gates may go, the others keep
\* must_flush.
Eased(s, t) ==
    /\ IsSim(t)
    /\ t.cap = s.cap
    /\ DOMAIN t.qubits \subseteq DOMAIN s.qubits
    /\ \A x \in DOMAIN t.qubits : t.qubits[x].must_flush = s.qubits[x].must_flush

\* Both passes have this form: of the gates in A those in B may be asked again,
\* and those in G are applied.
Pass(s, A, B, G) ==
    PerformU4([s EXCEPT !.qubits =
                  [q \in DOMAIN s.qubits |->
                      IF q \in A THEN [s.qubits[q] EXCEPT !.maybe_destructive = q \in B] ELSE s.qubits[q]]],
              G)

\* A pass widens nothing and keeps the gates outside G.
LEMMA PassSim ==
    ASSUME NEW s, IsSim(s), NEW A, NEW B, NEW G, G \subseteq DOMAIN s.qubits, \A q \in G : q <= s.cap
    PROVE  /\ Eased(s, Pass(s, A, B, G))
           /\ DOMAIN Pass(s, A, B, G).qubits = DOMAIN s.qubits \ G
           /\ Pass(s, A, B, G).queue = s.queue
<1> DEFINE f == [q \in DOMAIN s.qubits |->
                    IF q \in A THEN [s.qubits[q] EXCEPT !.maybe_destructive = q \in B] ELSE s.qubits[q]]
           m == [s EXCEPT !.qubits = f]
           t == PerformU4(m, G)
<1>1. \A q \in DOMAIN s.qubits : f[q] = IF q \in A THEN [s.qubits[q] EXCEPT !.maybe_destructive = q \in B] ELSE s.qubits[q]
  BY Zenon
<1>2. DOMAIN f = DOMAIN s.qubits /\ f = [q \in DOMAIN f |-> f[q]]
  BY Zenon
<1> HIDE DEF f
<1>3. \A q \in DOMAIN s.qubits : IsState(f[q]) /\ f[q].must_flush = s.qubits[q].must_flush
  <2> TAKE q \in DOMAIN s.qubits
  <2>1. IsState(s.qubits[q])
    BY PendingState
  <2>2. (q \in B) \in BOOLEAN
    OBVIOUS
  <2>3. IsState([s.qubits[q] EXCEPT !.maybe_destructive = q \in B])
    BY <2>1, <2>2, StateWith, Zenon
  <2>4. [s.qubits[q] EXCEPT !.maybe_destructive = q \in B].must_flush = s.qubits[q].must_flush
    BY <2>1 DEF IsState
  <2> QED
    BY <1>1, <2>1, <2>3, <2>4, Zenon
<1>4. ArePending(f)
  BY <1>2, <1>3, PendingState DEF ArePending
<1>5. IsSim(m) /\ m.cap = s.cap /\ m.queue = s.queue /\ m.qubits = f
  BY <1>4, MarkSim
<1> HIDE DEF m
<1>6. \A q \in G : q \in Qubits /\ q <= m.cap
  BY <1>5, PendingState
<1>7. /\ IsSim(t) /\ t.cap = m.cap /\ t.queue = m.queue
      /\ DOMAIN t.qubits = DOMAIN m.qubits \ G
      /\ \A x \in DOMAIN m.qubits \ G : t.qubits[x] = m.qubits[x]
  BY <1>5, <1>6, PerformU4Sim
<1> HIDE DEF t
<1>8. Eased(s, t) /\ DOMAIN t.qubits = DOMAIN s.qubits \ G /\ t.queue = s.queue
  BY <1>2, <1>3, <1>5, <1>7 DEF Eased
<1> QED
  BY <1>8, Zenon DEF Pass, t, m, f

\* The first pass leaves the gates that must go.
LEMMA TryEagerSim ==
    ASSUME NEW s, IsSim(s), NEW E
    PROVE  Eased(s, TryEager(s, E)) /\ MustFlush(TryEager(s, E)) = MustFlush(s) /\ TryEager(s, E).queue = s.queue
<1> DEFINE free == {q \in DOMAIN s.qubits : ~s.qubits[q].must_flush /\ ~s.qubits[q].is_reordered}
           blocked == {q \in free : Blocks(s.queue, q, s.qubits[q].pending)}
           go == {q \in free \ blocked : s.qubits[q].maybe_destructive /\ EagerFlush(s, q, E)}
           t == Pass(s, free, blocked, go)
<1>1. TryEager(s, E) = t
  BY Zenon DEF TryEager, Pass
<1>2. go \subseteq DOMAIN s.qubits
  BY Zenon
<1>3. \A q \in go : q <= s.cap /\ ~s.qubits[q].must_flush
  BY Zenon DEF EagerFlush
<1> HIDE DEF free, blocked, go
<1>4. Eased(s, t) /\ DOMAIN t.qubits = DOMAIN s.qubits \ go /\ t.queue = s.queue
  BY <1>2, <1>3, PassSim
<1> HIDE DEF t
<1>5. MustFlush(t) = MustFlush(s)
  BY <1>3, <1>4 DEF MustFlush, Eased
<1> QED
  BY <1>1, <1>4, <1>5

\* The second pass, when there is no queue.
LEMMA TryEagerAgainSim ==
    ASSUME NEW s, IsSim(s), NEW F
    PROVE  Eased(s, TryEagerAgain(s, F)) /\ TryEagerAgain(s, F).queue = s.queue
<1> DEFINE asked == {q \in DOMAIN s.qubits : s.qubits[q].maybe_destructive /\ ~s.qubits[q].is_reordered}
           go == {q \in asked : EagerFlush(s, q, F)}
           t == Pass(s, asked, {}, go)
<1>1. TryEagerAgain(s, F) = t
  <2>1. \A q : FALSE = (q \in {})
    OBVIOUS
  <2> QED
    BY <2>1, Zenon DEF TryEagerAgain, Pass
<1>2. go \subseteq DOMAIN s.qubits
  BY Zenon
<1>3. \A q \in go : q <= s.cap
  BY Zenon DEF EagerFlush
<1> HIDE DEF asked, go
<1> QED
  BY <1>1, <1>2, <1>3, PassSim

\* Afterwards the vector has room for every qubit that the rest addresses.
LEMMA EnsureQubitsSim ==
    ASSUME NEW s, IsSim(s), NEW also \in BOOLEAN
    PROVE  LET t == EnsureQubits(s, also)
           IN  /\ IsSim(t) /\ t.qubits = s.qubits /\ t.queue = s.queue
               /\ \A q \in MustFlush(s) : q <= t.cap
               /\ also => \A q \in s.queue.reads \cup s.queue.writes : q <= t.cap
<1> DEFINE Q == {0} \cup MustFlush(s) \cup (IF also THEN s.queue.reads \cup s.queue.writes ELSE {})
           t == EnsureQubits(s, also)
<1>1. PICK w \in Widths : \A q \in Qubits : q <= w
  BY SimulatorAssumption DEF SimulatorAssumption
<1>2. w \in Nat /\ Qubits \subseteq Nat
  BY <1>1, SimulatorAssumption, QubitsAssumption DEF SimulatorAssumption, QubitsAssumption
<1>3. MustFlush(s) \subseteq Qubits /\ s.queue.reads \subseteq Qubits /\ s.queue.writes \subseteq Qubits
  BY DEF MustFlush, IsSim, ArePending, IsQueue
<1>4. Q \in SUBSET Nat /\ Q # {} /\ \A k \in Q : k <= w
  <2>1. 0 \in Q /\ \A k \in Q : k = 0 \/ k \in Qubits
    BY <1>3
  <2> HIDE DEF Q
  <2>2. ASSUME NEW k \in Q
        PROVE  k \in Nat /\ k <= w
    <3>1. CASE k = 0
      BY <1>2, <3>1
    <3>2. CASE k \in Qubits
      <4>1. k \in Nat
        BY <1>2, <3>2, Zenon
      <4>2. k <= w
        BY <1>1, <3>2, Zenon
      <4> QED
        BY <4>1, <4>2
    <3> QED
      BY <2>1, <3>1, <3>2
  <2> QED
    BY <2>1, <2>2
<1>5. Max(Q) \in Q /\ \A k \in Q : k <= Max(Q)
  BY <1>2, <1>4, MaxOf
<1>6. t = EnsureQubit(s, Max(Q))
  BY Zenon DEF EnsureQubits
<1>7. /\ MustFlush(s) \subseteq Q
      /\ also => s.queue.reads \cup s.queue.writes \subseteq Q
  OBVIOUS
<1> HIDE DEF Q
<1>8. Width(Max(Q)) \in Widths /\ Max(Q) <= Width(Max(Q))
  BY <1>1, <1>4, <1>5, WidthHolds
<1>9. CASE Max(Q) <= s.cap
  <2>1. t = s
    BY <1>6, <1>9 DEF EnsureQubit
  <2>2. \A k \in Q : k <= s.cap
    BY <1>4, <1>5, <1>9, SimulatorAssumption DEF SimulatorAssumption, IsSim
  <2> QED
    BY <1>7, <2>1, <2>2
<1>10. CASE ~(Max(Q) <= s.cap)
  <2>1. t = [s EXCEPT !.cap = Width(Max(Q))]
    BY <1>6, <1>10, Zenon DEF EnsureQubit
  <2>2. t = [amp |-> s.amp, cap |-> Width(Max(Q)), queue |-> s.queue, qubits |-> s.qubits, beyond |-> s.beyond]
    BY <2>1 DEF IsSim
  <2>3. IsSim(t) /\ t.qubits = s.qubits /\ t.queue = s.queue /\ t.cap = Width(Max(Q))
    BY <1>8, <2>2 DEF IsSim
  <2>4. \A k \in Q : k <= t.cap
    <3>1. Width(Max(Q)) \in Nat /\ Max(Q) \in Nat
      BY <1>4, <1>5, <1>8, SimulatorAssumption DEF SimulatorAssumption
    <3> HIDE DEF t
    <3> QED
      BY <1>4, <1>5, <1>8, <2>3, <3>1
  <2> QED
    BY <1>7, <2>3, <2>4
<1> QED
  BY <1>9, <1>10

\* The queue goes, and gates with it; the marks of the others stay.
LEMMA FlushQueueSim ==
    ASSUME NEW s, IsSim(s), NEW sfree \in BOOLEAN, NEW F,
           sfree => \A q \in s.queue.reads \cup s.queue.writes : q <= s.cap
    PROVE  /\ Eased(s, FlushQueue(s, sfree, F))
           /\ FlushQueue(s, sfree, F).queue = IF sfree THEN EmptyQueue ELSE s.queue
<1>1. CASE sfree
  <2> DEFINE p == PerformSfree(s)
             t == TryEagerAgain(p, F)
  <2>1. FlushQueue(s, sfree, F) = t
    BY <1>1, Zenon DEF FlushQueue
  <2>2. IsSim(p) /\ p.cap = s.cap /\ p.queue = EmptyQueue /\ p.qubits = s.qubits
    BY <1>1, PerformSfreeSim
  <2> HIDE DEF p
  <2>3. Eased(p, t) /\ t.queue = p.queue
    BY <2>2, TryEagerAgainSim
  <2> HIDE DEF t
  <2> QED
    BY <1>1, <2>1, <2>2, <2>3 DEF Eased
<1>2. CASE ~sfree
  <2>1. FlushQueue(s, sfree, F) = s
    BY <1>2, Zenon DEF FlushQueue
  <2> QED
    BY <1>2, <2>1 DEF Eased
<1> QED
  BY <1>1, <1>2

\* No gate of the simulator is marked.
Unmarked(s) == \A q \in DOMAIN s.qubits : ~s.qubits[q].must_flush /\ ~s.qubits[q].is_reordered

\* The gates that must go do, the others lose their marks.
LEMMA FlushPendingSim ==
    ASSUME NEW s, IsSim(s), \A q \in MustFlush(s) : q <= s.cap
    PROVE  LET t == FlushPending(s)
           IN  /\ IsSim(t) /\ Unmarked(t) /\ t.queue = s.queue
               /\ DOMAIN t.qubits = DOMAIN s.qubits \ MustFlush(s)
<1> DEFINE u == PerformU4(s, MustFlush(s))
           f == [q \in DOMAIN u.qubits |-> [u.qubits[q] EXCEPT !.is_reordered = FALSE]]
           t == [u EXCEPT !.qubits = f]
<1>1. FlushPending(s) = t
  BY Zenon DEF FlushPending
<1>2. MustFlush(s) \subseteq DOMAIN s.qubits
  BY DEF MustFlush
<1>3. /\ IsSim(u) /\ u.queue = s.queue
      /\ DOMAIN u.qubits = DOMAIN s.qubits \ MustFlush(s)
      /\ \A x \in DOMAIN s.qubits \ MustFlush(s) : u.qubits[x] = s.qubits[x]
  BY <1>2, PerformU4Sim, PendingState
<1> HIDE DEF u
<1>4. \A q \in DOMAIN u.qubits : f[q] = [u.qubits[q] EXCEPT !.is_reordered = FALSE]
  BY Zenon
<1>5. DOMAIN f = DOMAIN u.qubits /\ f = [q \in DOMAIN f |-> f[q]]
  BY Zenon
<1> HIDE DEF f
<1>6. \A q \in DOMAIN u.qubits :
          IsState(f[q]) /\ f[q].must_flush = u.qubits[q].must_flush /\ f[q].is_reordered = FALSE
  <2> TAKE q \in DOMAIN u.qubits
  <2>1. IsState(u.qubits[q])
    BY <1>3, PendingState
  <2>2. IsState([u.qubits[q] EXCEPT !.is_reordered = FALSE])
    BY <2>1, StateWith, Zenon
  <2>3. [u.qubits[q] EXCEPT !.is_reordered = FALSE].must_flush = u.qubits[q].must_flush
    BY <2>1 DEF IsState
  <2>4. [u.qubits[q] EXCEPT !.is_reordered = FALSE].is_reordered = FALSE
    BY <2>1 DEF IsState
  <2> QED
    BY <1>4, <2>2, <2>3, <2>4, Zenon
<1>7. ArePending(f)
  BY <1>3, <1>5, <1>6, PendingState DEF ArePending
<1>8. IsSim(t) /\ t.queue = u.queue /\ t.qubits = f
  BY <1>3, <1>7, MarkSim
<1> HIDE DEF t
<1>9. Unmarked(t)
  BY <1>3, <1>5, <1>6, <1>8 DEF Unmarked, MustFlush
<1> QED
  BY <1>1, <1>3, <1>5, <1>8, <1>9

\* _flush: nothing goes past the end, no mark is left, the gates that must go
\* are gone, and the queue too if it had to.
LEMMA DoFlushSim ==
    ASSUME NEW s, IsSim(s), NEW also \in BOOLEAN, NEW E, NEW F
    PROVE  LET t == DoFlush(s, also, E, F)
           IN  /\ IsSim(t) /\ Unmarked(t)
               /\ DOMAIN t.qubits \subseteq DOMAIN s.qubits \ MustFlush(s)
               /\ also => t.queue.ops = <<>>
<1> DEFINE sfree == AlsoSfree(s, also)
           a == TryEager(s, E)
           b == EnsureQubits(a, sfree)
           c == FlushQueue(b, sfree, F)
           d == FlushPending(c)
<1>1. DoFlush(s, also, E, F) = d
  BY Zenon DEF DoFlush
<1>2. sfree \in BOOLEAN /\ (also /\ s.queue.ops # <<>> => sfree)
  BY DEF AlsoSfree
<1> HIDE DEF sfree
<1>3. Eased(s, a) /\ MustFlush(a) = MustFlush(s) /\ a.queue = s.queue
  BY TryEagerSim
<1> HIDE DEF a
<1>4. IsSim(a)
  BY <1>3 DEF Eased
<1>5. /\ IsSim(b) /\ b.qubits = a.qubits /\ b.queue = a.queue
      /\ \A q \in MustFlush(a) : q <= b.cap
      /\ sfree => \A q \in a.queue.reads \cup a.queue.writes : q <= b.cap
  BY <1>2, <1>4, EnsureQubitsSim
<1> HIDE DEF b
<1>6. Eased(b, c) /\ c.queue = IF sfree THEN EmptyQueue ELSE b.queue
  BY <1>2, <1>5, FlushQueueSim
<1> HIDE DEF c
<1>7. IsSim(c) /\ c.cap = b.cap /\ MustFlush(c) \subseteq MustFlush(s)
  BY <1>3, <1>5, <1>6 DEF Eased, MustFlush
<1>8. IsSim(d) /\ Unmarked(d) /\ d.queue = c.queue /\ DOMAIN d.qubits = DOMAIN c.qubits \ MustFlush(c)
  BY <1>3, <1>5, <1>7, FlushPendingSim
<1> HIDE DEF d
<1>9. DOMAIN d.qubits \subseteq DOMAIN s.qubits \ MustFlush(s)
  BY <1>3, <1>5, <1>6, <1>8 DEF Eased, MustFlush
<1>10. also => d.queue.ops = <<>>
  BY <1>2, <1>3, <1>5, <1>6, <1>8 DEF EmptyQueue
<1> QED
  BY <1>1, <1>8, <1>9, <1>10

-----------------------------------------------------------------------------
(* The loops of _preflush_ctl and flush.  A loop is a recursive function;  *)
(* that there is one is shown first, for both of them at once.             *)

\* One round of the loop over a control.
ItemsRound(s0, ctl0, R, E, acc, n) ==
    IF n = 0 THEN [s |-> s0, ctl |-> Always, h |-> {}]
    ELSE IF Uses(ctl0, n - 1) THEN PreflushItem(acc, n - 1, ctl0, R, E)
    ELSE acc

\* One round of the loop over the pending gates.
AllRound(s, order, E, t, n) == IF n = 0 THEN s ELSE Preflush(t, order[n], "I", E).s

\* Where a loop stands after n rounds, if it stood at y after n - 1 of them.
Round(loop, x, y, n) ==
    IF loop = "items" THEN ItemsRound(x.s, x.ctl, x.R, x.E, y, n) ELSE AllRound(x.s, x.order, x.E, y, n)

\* There is a function that takes these rounds: prefixes of it exist and agree.
LEMMA LoopExists ==
    ASSUME NEW loop, NEW x
    PROVE  \E f : f = [n \in Nat |-> Round(loop, x, f[n - 1], n)]
<1> DEFINE B(y, n) == Round(loop, x, y, n)
           Upto(m, g) == g = [n \in 0 .. m |-> B(g[n - 1], n)]
           S == {m \in Nat : \E g : Upto(m, g)}
           T == {n \in Nat : \A m, k \in Nat : \A g, h :
                    n <= m /\ n <= k /\ Upto(m, g) /\ Upto(k, h) => g[n] = h[n]}
<1>1. \A y, z : B(y, 0) = B(z, 0)
  BY DEF Round, ItemsRound, AllRound
<1> HIDE DEF B
<1>2. 0 \in S
  <2> DEFINE g == [n \in 0 .. 0 |-> B(0, 0)]
  <2>1. Upto(0, g)
    BY <1>1
  <2> QED
    BY <2>1
<1>3. ASSUME NEW m \in Nat, m \in S
      PROVE  m + 1 \in S
  <2>1. PICK g : Upto(m, g)
    BY <1>3
  <2> DEFINE h == [n \in 0 .. (m + 1) |-> IF n <= m THEN g[n] ELSE B(g[m], m + 1)]
  <2>2. \A n \in 0 .. m : g[n] = B(g[n - 1], n)
    BY <2>1
  <2>3. \A n \in 0 .. (m + 1) : h[n] = B(h[n - 1], n)
    <3> TAKE n \in 0 .. (m + 1)
    <3>1. CASE n = 0
      BY <1>1, <2>2, <3>1
    <3>2. CASE n # 0 /\ n <= m
      <4>1. n - 1 \in 0 .. (m + 1) /\ n - 1 <= m
        BY <3>2
      <4>2. h[n] = g[n] /\ h[n - 1] = g[n - 1] /\ n \in 0 .. m
        BY <3>2, <4>1
      <4> QED
        BY <2>2, <4>2
    <3>3. CASE n = m + 1
      <4>1. h[n] = B(g[m], m + 1) /\ h[n - 1] = g[m]
        BY <3>3
      <4> QED
        BY <3>3, <4>1
    <3> QED
      BY <3>1, <3>2, <3>3
  <2>4. Upto(m + 1, h)
    BY <2>3
  <2> HIDE DEF Upto, h
  <2> QED
    BY <2>4
<1>4. \A m \in Nat : \E g : Upto(m, g)
  <2> HIDE DEF Upto
  <2>1. \A m \in Nat : m \in S
    <3> HIDE DEF S
    <3> QED
      BY <1>2, <1>3, SetInduction
  <2> QED
    BY <2>1
<1>5. 0 \in T
  BY <1>1
<1>6. ASSUME NEW n \in Nat, n \in T
      PROVE  n + 1 \in T
  <2>1. ASSUME NEW m \in Nat, NEW k \in Nat, NEW g, NEW h, n + 1 <= m, n + 1 <= k, Upto(m, g), Upto(k, h)
        PROVE  g[n + 1] = h[n + 1]
    <3>1. n <= m /\ n <= k
      BY <2>1
    <3>2. g[n] = h[n]
      <4> HIDE DEF Upto
      <4> QED
        BY <1>6, <2>1, <3>1
    <3>3. g[n + 1] = B(g[n], n + 1)
      BY <2>1
    <3>4. h[n + 1] = B(h[n], n + 1)
      BY <2>1
    <3> QED
      BY <3>2, <3>3, <3>4
  <2> HIDE DEF Upto
  <2> QED
    BY <2>1
<1>7. \A n, m, k \in Nat : \A g, h : n <= m /\ n <= k /\ Upto(m, g) /\ Upto(k, h) => g[n] = h[n]
  <2> HIDE DEF Upto
  <2>1. \A n \in Nat : n \in T
    <3> HIDE DEF T
    <3> QED
      BY <1>5, <1>6, SetInduction
  <2> QED
    BY <2>1
<1> DEFINE G(n) == CHOOSE g : Upto(n, g)
           f == [n \in Nat |-> G(n)[n]]
<1>8. \A n \in Nat : Upto(n, G(n))
  <2> HIDE DEF Upto
  <2> QED
    BY <1>4
<1> HIDE DEF G
<1>9. \A n \in Nat : f[n] = B(f[n - 1], n)
  <2> TAKE n \in Nat
  <2>1. G(n)[n] = B(G(n)[n - 1], n)
    BY <1>8
  <2>2. CASE n = 0
    BY <1>1, <2>1, <2>2
  <2>3. CASE n # 0
    <3>1. n - 1 \in Nat /\ n - 1 <= n /\ n - 1 <= n - 1
      BY <2>3
    <3>2. Upto(n, G(n)) /\ Upto(n - 1, G(n - 1))
      BY <1>8, <3>1
    <3>3. G(n)[n - 1] = G(n - 1)[n - 1]
      <4> HIDE DEF Upto
      <4> QED
        BY <1>7, <3>1, <3>2
    <3> QED
      BY <2>1, <3>1, <3>3
  <2> QED
    BY <2>2, <2>3
<1>10. f = [n \in Nat |-> B(f[n - 1], n)]
  BY <1>9
<1> QED
  BY <1>10, Zenon DEF B

\* PreflushItems takes the rounds it says.
LEMMA ItemsLoop ==
    ASSUME NEW s0, NEW ctl0, NEW R, NEW E
    PROVE  \A n \in Nat :
              PreflushItems(s0, ctl0, R, E)[n] = ItemsRound(s0, ctl0, R, E, PreflushItems(s0, ctl0, R, E)[n - 1], n)
<1> DEFINE x == [s |-> s0, ctl |-> ctl0, R |-> R, E |-> E]
           IsLoop(f) == f = [n \in Nat |-> ItemsRound(s0, ctl0, R, E, f[n - 1], n)]
<1>1. PreflushItems(s0, ctl0, R, E) = CHOOSE f : IsLoop(f)
  BY Zenon DEF PreflushItems, ItemsRound
<1>2. \A y, n : Round("items", x, y, n) = ItemsRound(s0, ctl0, R, E, y, n)
  BY DEF Round
<1>3. PICK f : f = [n \in Nat |-> Round("items", x, f[n - 1], n)]
  <2> HIDE DEF x
  <2> QED
    BY LoopExists, Zenon
<1> HIDE DEF x
<1>4. IsLoop(f)
  BY <1>2, <1>3
<1>5. IsLoop(PreflushItems(s0, ctl0, R, E))
  <2> HIDE DEF IsLoop
  <2> QED
    BY <1>1, <1>4, Zenon
<1> QED
  BY <1>5

\* So does PreflushAll.
LEMMA AllLoop ==
    ASSUME NEW s, NEW order, NEW E
    PROVE  \A n \in Nat : PreflushAll(s, order, E)[n] = AllRound(s, order, E, PreflushAll(s, order, E)[n - 1], n)
<1> DEFINE x == [s |-> s, order |-> order, E |-> E]
           IsLoop(f) == f = [n \in Nat |-> AllRound(s, order, E, f[n - 1], n)]
<1>1. PreflushAll(s, order, E) = CHOOSE f : IsLoop(f)
  BY Zenon DEF PreflushAll, AllRound
<1>2. \A y, n : Round("all", x, y, n) = AllRound(s, order, E, y, n)
  BY DEF Round
<1>3. PICK f : f = [n \in Nat |-> Round("all", x, f[n - 1], n)]
  <2> HIDE DEF x
  <2> QED
    BY LoopExists, Zenon
<1> HIDE DEF x
<1>4. IsLoop(f)
  BY <1>2, <1>3
<1>5. IsLoop(PreflushAll(s, order, E))
  <2> HIDE DEF IsLoop
  <2> QED
    BY <1>1, <1>4, Zenon
<1> QED
  BY <1>5

-----------------------------------------------------------------------------
(* What the loops keep                                                     *)

\* The loop over a control, as far as it got.
IsAcc(acc) ==
    /\ acc = [s |-> acc.s, ctl |-> acc.ctl, h |-> acc.h]
    /\ IsSim(acc.s)
    /\ acc.ctl \in Controls
    /\ acc.h \subseteq Qubits
    /\ acc.h \cap DOMAIN acc.ctl = {}

\* It has only been to qubits in S.
Within(acc, S) == DOMAIN acc.ctl \subseteq S /\ acc.h \subseteq S

\* A control with another qubit.
LEMMA MoreControl ==
    ASSUME NEW ctl \in Controls, NEW q \in Qubits, NEW v \in BOOLEAN
    PROVE  WithQubit(ctl, q, v) \in Controls /\ DOMAIN WithQubit(ctl, q, v) = DOMAIN ctl \cup {q}
<1>1. PICK S \in SUBSET Qubits : ctl \in [S -> BOOLEAN]
  BY DEF Controls
<1>2. DOMAIN ctl = S
  BY <1>1
<1>3. WithQubit(ctl, q, v) \in [S \cup {q} -> BOOLEAN] /\ S \cup {q} \in SUBSET Qubits
  BY <1>1, <1>2 DEF WithQubit
<1> QED
  BY <1>2, <1>3 DEF Controls

\* One qubit of a control: it is left in the control or taken out of it.
LEMMA PreflushItemAcc ==
    ASSUME NEW acc, IsAcc(acc), NEW S, Within(acc, S), NEW q \in Qubits, q \notin S, NEW ctl0, NEW R, NEW E
    PROVE  IsAcc(PreflushItem(acc, q, ctl0, R, E)) /\ Within(PreflushItem(acc, q, ctl0, R, E), S \cup {q})
<1> DEFINE K == IF acc.h # {} \/ ~ctl0[q] THEN "Ctl" ELSE R
           p == Preflush(acc.s, q, K, E)
           v == ctl0[q] # (p.r = "invert")
           c == WithQubit(acc.ctl, q, v)
           one == [s |-> p.s, ctl |-> acc.ctl, h |-> {q}]
           two == [s |-> p.s, ctl |-> c, h |-> acc.h]
<1>1. PreflushItem(acc, q, ctl0, R, E) = IF p.r = "hadamard" THEN one ELSE two
  BY Zenon DEF PreflushItem
<1>2. v \in BOOLEAN
  BY Zenon
<1> HIDE DEF K, v
<1>3. IsSim(p.s)
  BY PreflushSim DEF IsAcc, Preflushed
<1>4. c \in Controls /\ DOMAIN c = DOMAIN acc.ctl \cup {q}
  BY <1>2, MoreControl DEF IsAcc
<1> HIDE DEF p, c
<1>5. IsAcc(one) /\ Within(one, S \cup {q})
  BY <1>3 DEF IsAcc, Within
<1>6. IsAcc(two) /\ Within(two, S \cup {q})
  BY <1>3, <1>4 DEF IsAcc, Within
<1> HIDE DEF one, two
<1> QED
  BY <1>1, <1>5, <1>6, Zenon

\* All qubits of a control.
LEMMA ItemsAcc ==
    ASSUME NEW s0, IsSim(s0), NEW ctl0 \in Controls, NEW R, NEW E
    PROVE  \A n \in Nat : /\ IsAcc(PreflushItems(s0, ctl0, R, E)[n])
                          /\ Within(PreflushItems(s0, ctl0, R, E)[n], DOMAIN ctl0)
<1> DEFINE f == PreflushItems(s0, ctl0, R, E)
           D(n) == {x \in DOMAIN ctl0 : x < n}
           S == {n \in Nat : IsAcc(f[n]) /\ Within(f[n], D(n))}
<1>1. \A n \in Nat : f[n] = ItemsRound(s0, ctl0, R, E, f[n - 1], n)
  BY ItemsLoop, Zenon
<1>2. DOMAIN ctl0 \subseteq Qubits /\ Qubits \subseteq Nat
  BY QubitsAssumption DEF QubitsAssumption, Controls
<1> HIDE DEF f
<1>3. 0 \in S
  <2>1. f[0] = [s |-> s0, ctl |-> Always, h |-> {}]
    BY <1>1 DEF ItemsRound
  <2>2. DOMAIN Always = {}
    BY DEF Always
  <2>3. IsAcc(f[0]) /\ Within(f[0], D(0))
    BY <2>1, <2>2, SmallControls DEF IsAcc, Within
  <2> QED
    BY <2>3
<1>4. ASSUME NEW n \in Nat, n \in S
      PROVE  n + 1 \in S
  <2>1. f[n + 1] = ItemsRound(s0, ctl0, R, E, f[n], n + 1)
    BY <1>1
  <2>2. f[n + 1] = IF Uses(ctl0, n) THEN PreflushItem(f[n], n, ctl0, R, E) ELSE f[n]
    BY <2>1 DEF ItemsRound
  <2>3. n < n + 1 /\ \A x \in DOMAIN ctl0 : x < n => x < n + 1
    <3>1. \A x \in DOMAIN ctl0 : x \in Nat
      BY <1>2, Zenon
    <3> QED
      BY <3>1
  <2>4. CASE Uses(ctl0, n)
    <3>1. n \in Qubits /\ n \notin D(n)
      BY <1>2, <2>4 DEF Uses
    <3>2. D(n) \cup {n} \subseteq D(n + 1)
      BY <2>4, <2>3 DEF Uses
    <3>3. IsAcc(f[n + 1]) /\ Within(f[n + 1], D(n) \cup {n})
      <4> HIDE DEF D
      <4> QED
        BY <1>4, <2>2, <2>4, <3>1, PreflushItemAcc
    <3>4. Within(f[n + 1], D(n + 1))
      BY <3>2, <3>3 DEF Within
    <3> QED
      BY <3>3, <3>4
  <2>5. CASE ~Uses(ctl0, n)
    <3>1. D(n) \subseteq D(n + 1)
      BY <2>3
    <3>2. IsAcc(f[n + 1]) /\ Within(f[n + 1], D(n + 1))
      BY <1>4, <2>2, <2>5, <3>1 DEF Within
    <3> QED
      BY <3>2
  <2> QED
    BY <2>4, <2>5
<1>5. \A n \in Nat : n \in S
  <2> HIDE DEF S
  <2> QED
    BY <1>3, <1>4, SetInduction
<1>6. \A n \in Nat : D(n) \subseteq DOMAIN ctl0
  OBVIOUS
<1> HIDE DEF D
<1>7. \A n \in Nat : IsAcc(f[n]) /\ Within(f[n], DOMAIN ctl0)
  BY <1>5, <1>6 DEF Within
<1> QED
  BY <1>7 DEF f

\* _preflush_ctl and _preflush_ctl_h
LEMMA PreflushCtlAcc ==
    ASSUME NEW s0, IsSim(s0), NEW ctl0 \in Controls, NEW E
    PROVE  /\ IsAcc(PreflushCtl(s0, ctl0, E)) /\ Within(PreflushCtl(s0, ctl0, E), DOMAIN ctl0)
           /\ IsAcc(PreflushCtlH(s0, ctl0, E)) /\ Within(PreflushCtlH(s0, ctl0, E), DOMAIN ctl0)
<1>1. PICK w \in Widths : \A q \in Qubits : q <= w
  BY SimulatorAssumption DEF SimulatorAssumption
<1>2. w \in Nat /\ Qubits \in SUBSET Nat /\ Qubits # {}
  BY <1>1, SimulatorAssumption, QubitsAssumption DEF SimulatorAssumption, QubitsAssumption
<1>3. Max(Qubits) \in Qubits
  BY <1>1, <1>2, MaxOf
<1>4. Max(Qubits) \in Nat
  BY <1>2, <1>3, Zenon
<1>5. Max(Qubits) + 1 \in Nat
  BY <1>4
<1> QED
  BY <1>5, ItemsAcc DEF PreflushCtl, PreflushCtlH

\* The order of a hash map's keys leaves none out.
LEMMA OrderIsOnto ==
    ASSUME NEW D, IsFiniteSet(D), NEW order \in SetToSeqs(D)
    PROVE  Len(order) \in Nat /\ (\A k \in 1 .. Len(order) : order[k] \in D) /\ \A q \in D : \E k \in 1 .. Len(order) : order[k] = q
<1> DEFINE n == Cardinality(D)
<1>1. n \in Nat
  BY FS_CardinalityType
<1>2. order \in [1 .. n -> D] /\ \A i, j \in 1 .. n : i # j => order[i] # order[j]
  BY Zenon DEF SetToSeqs
<1> HIDE DEF n
<1>3. Len(order) = n
  BY <1>1, <1>2
<1>4. order \in Injection(1 .. n, D)
  BY <1>2 DEF Injection, IsInjective
<1>5. Cardinality(1 .. n) = n
  BY <1>1, FS_Interval
<1>6. order \in Surjection(1 .. n, D)
  BY <1>4, <1>5, FS_Injection DEF n
<1>7. \A q \in D : \E k \in 1 .. n : order[k] = q
  BY <1>6 DEF Surjection
<1> QED
  BY <1>1, <1>2, <1>3, <1>7

\* The loop of flush marks or drops the gates it has been to.
LEMMA AllSim ==
    ASSUME NEW s, IsSim(s), NEW order \in SetToSeqs(DOMAIN s.qubits), NEW E
    PROVE  LET t == PreflushAll(s, order, E)[Len(order)]
           IN  IsSim(t) /\ DOMAIN t.qubits \subseteq MustFlush(t)
<1> DEFINE f == PreflushAll(s, order, E)
           Done(n) == /\ IsSim(f[n])
                      /\ DOMAIN f[n].qubits \subseteq DOMAIN s.qubits
                      /\ \A k \in 1 .. n : order[k] \in DOMAIN f[n].qubits => f[n].qubits[order[k]].must_flush
           S == {n \in Nat : n <= Len(order) => Done(n)}
<1>1. \A n \in Nat : f[n] = AllRound(s, order, E, f[n - 1], n)
  BY AllLoop, Zenon
<1>2. IsFiniteSet(DOMAIN s.qubits) /\ DOMAIN s.qubits \subseteq Qubits
  <2>1. DOMAIN s.qubits \subseteq Qubits
    BY DEF IsSim, ArePending
  <2> QED
    BY <2>1, QubitsAssumption, FS_Subset DEF QubitsAssumption
<1>3. /\ Len(order) \in Nat /\ \A k \in 1 .. Len(order) : order[k] \in DOMAIN s.qubits
      /\ \A q \in DOMAIN s.qubits : \E k \in 1 .. Len(order) : order[k] = q
  BY <1>2, OrderIsOnto
<1> HIDE DEF f
<1>4. 0 \in S
  <2>1. f[0] = s
    BY <1>1 DEF AllRound
  <2> QED
    BY <2>1
<1>5. ASSUME NEW n \in Nat, n \in S
      PROVE  n + 1 \in S
  <2> SUFFICES ASSUME n + 1 <= Len(order)
               PROVE  Done(n + 1)
    OBVIOUS
  <2> DEFINE q == order[n + 1]
             p == Preflush(f[n], q, "I", E)
  <2>1. Done(n)
    BY <1>3, <1>5
  <2>2. f[n + 1] = p.s
    <3>1. f[n + 1] = AllRound(s, order, E, f[n], n + 1)
      BY <1>1
    <3> QED
      BY <3>1 DEF AllRound
  <2>3. q \in Qubits
    BY <1>2, <1>3
  <2> HIDE DEF q
  <2>4. Preflushed(q, f[n], p, "I")
    BY <2>1, <2>3, PreflushSim
  <2> HIDE DEF p
  <2>5. /\ IsSim(f[n + 1]) /\ DOMAIN f[n + 1].qubits \subseteq DOMAIN f[n].qubits
        /\ \A x \in DOMAIN f[n + 1].qubits : x # q => f[n + 1].qubits[x] = f[n].qubits[x]
        /\ q \in DOMAIN f[n + 1].qubits => f[n + 1].qubits[q].must_flush
    BY <2>2, <2>4 DEF Preflushed, Only
  <2>6. ASSUME NEW k \in 1 .. (n + 1), order[k] \in DOMAIN f[n + 1].qubits
        PROVE  f[n + 1].qubits[order[k]].must_flush
    <3>1. CASE order[k] = q
      BY <2>5, <2>6, <3>1
    <3>2. CASE order[k] # q
      <4>1. k \in 1 .. n
        BY <3>2 DEF q
      <4> QED
        BY <2>1, <2>5, <2>6, <3>2, <4>1
    <3> QED
      BY <3>1, <3>2
  <2> QED
    BY <2>1, <2>5, <2>6
<1>6. \A n \in Nat : n \in S
  <2> HIDE DEF S
  <2> QED
    BY <1>4, <1>5, SetInduction
<1>7. Done(Len(order))
  BY <1>3, <1>6
<1>8. IsSim(f[Len(order)]) /\ DOMAIN f[Len(order)].qubits \subseteq MustFlush(f[Len(order)])
  BY <1>3, <1>7 DEF MustFlush
<1> QED
  BY <1>8 DEF f

-----------------------------------------------------------------------------
(* The calls                                                               *)

\* What every call leaves.
Settled(s) == IsSim(s) /\ Unmarked(s)

\* u3 composes gates and sets no mark.
LEMMA DoU3Settled ==
    ASSUME NEW s, Settled(s), NEW q \in Qubits, NEW gate \in U3
    PROVE  Settled(DoU3(s, q, gate))
<1>1. IsSim(s) /\ Unmarked(s)
  BY DEF Settled
<1>2. CASE q \in DOMAIN s.qubits
  <2> DEFINE st == [s.qubits[q] EXCEPT !.pending = Compose(s.qubits[q].pending, gate), !.maybe_destructive = TRUE]
  <2>1. DoU3(s, q, gate) = SetQubit(s, q, st)
    BY <1>2, Zenon DEF DoU3
  <2>2. IsState(s.qubits[q])
    BY <1>1, <1>2, PendingState
  <2>3. Compose(s.qubits[q].pending, gate) \in U3
    BY <2>2, GateTypes DEF IsState
  <2>4. IsState(st)
    BY <2>2, <2>3, StateWithGate, Zenon
  <2>5. st.must_flush = s.qubits[q].must_flush /\ st.is_reordered = s.qubits[q].is_reordered
    BY <2>2, <2>3, StateWithGate, Zenon
  <2> HIDE DEF st
  <2> QED
    BY <1>1, <1>2, <2>1, <2>4, <2>5, SetQubitSim DEF Settled, Unmarked
<1>3. CASE q \notin DOMAIN s.qubits
  <2> DEFINE st == [pending |-> gate, maybe_destructive |-> TRUE, must_flush |-> FALSE, is_reordered |-> FALSE]
  <2>1. DoU3(s, q, gate) = SetQubit(s, q, st)
    BY <1>3, Zenon DEF DoU3
  <2>2. IsState(st) /\ ~st.must_flush /\ ~st.is_reordered
    BY DEF IsState
  <2> HIDE DEF st
  <2> QED
    BY <1>1, <1>3, <2>1, <2>2, SetQubitSim DEF Settled, Unmarked
<1> QED
  BY <1>2, <1>3

\* An operation is queued once _flush made way for it.
LEMMA QueuedSettled ==
    ASSUME NEW s, IsSim(s), NEW E, NEW F, NEW op \in Ops
    PROVE  Settled(Enqueue(DoFlush(s, FALSE, E, F), op))
<1> DEFINE t == DoFlush(s, FALSE, E, F)
<1>1. IsSim(t) /\ Unmarked(t)
  BY DoFlushSim
<1> HIDE DEF t
<1>2. IsSim(Enqueue(t, op)) /\ Enqueue(t, op).qubits = t.qubits
  BY <1>1, EnqueueSim
<1>3. Unmarked(Enqueue(t, op))
  BY <1>1, <1>2 DEF Unmarked
<1> QED
  BY <1>2, <1>3 DEF Settled, t

\* The three ends of ctl_x and ctl_phase: what they queue does not write its own
\* controls.
LEMMA QueueSettled ==
    ASSUME NEW c, IsAcc(c), NEW E, NEW F
    PROVE  /\ Settled(QueueZ(c, E, F))
           /\ \A a \in Int : Settled(QueuePhase(c, a, E, F))
           /\ \A q \in Qubits : q \notin DOMAIN c.ctl => Settled(QueueX(c, q, E, F))
<1>1. IsSim(c.s) /\ c.ctl \in Controls /\ c.h \in SUBSET Qubits /\ c.h \cap DOMAIN c.ctl = {}
  BY DEF IsAcc
<1>2. \A a \in Int : Settled(QueuePhase(c, a, E, F))
  BY <1>1, OpTypes, QueuedSettled DEF QueuePhase
<1>3. ASSUME NEW q \in Qubits, q \notin DOMAIN c.ctl
      PROVE  Settled(QueueX(c, q, E, F))
  <2>1. {q} \in SUBSET Qubits /\ {q} \cap DOMAIN c.ctl = {}
    BY <1>3
  <2> QED
    BY <1>1, <2>1, OpTypes, QueuedSettled DEF QueueX
<1>4. Settled(QueueZ(c, E, F))
  <2> DEFINE op == IF c.h # {} THEN OpX(c.ctl, c.h) ELSE OpPhase(c.ctl, PI)
  <2>1. op \in Ops
    BY <1>1, OpTypes DEF PI
  <2>2. QueueZ(c, E, F) = Enqueue(DoFlush(c.s, FALSE, E, F), op)
    BY Zenon DEF QueueZ
  <2> HIDE DEF op
  <2> QED
    BY <1>1, <2>1, <2>2, QueuedSettled
<1> QED
  BY <1>2, <1>3, <1>4

\* ctl_x
LEMMA DoCtlXSettled ==
    ASSUME NEW s, Settled(s), NEW ctl \in Controls, NEW q \in Qubits, ~Uses(ctl, q), NEW E, NEW F
    PROVE  Settled(DoCtlX(s, ctl, q, E, F))
<1>1. CASE ctl = Always
  BY <1>1, GateTypes, DoU3Settled DEF DoCtlX
<1>2. CASE ctl # Always
  <2> DEFINE p == Preflush(s, q, "X", E)
             c == PreflushCtlH(p.s, ctl, E)
             v == WithQubit(c.ctl, q, p.r = "h")
             d == [c EXCEPT !.ctl = v]
             x == PreflushCtl(p.s, ctl, E)
  <2>1. DoCtlX(s, ctl, q, E, F) = IF p.r \in {"h", "x_h"} THEN QueueZ(d, E, F) ELSE QueueX(x, q, E, F)
    BY <1>2, Zenon DEF DoCtlX, QueueCtlX
  <2>2. IsSim(p.s) /\ (p.r = "h") \in BOOLEAN
    BY PreflushSim DEF Settled, Preflushed
  <2> HIDE DEF p
  <2>3. IsAcc(c) /\ Within(c, DOMAIN ctl) /\ IsAcc(x) /\ Within(x, DOMAIN ctl)
    BY <2>2, PreflushCtlAcc
  <2> HIDE DEF c, x
  <2>4. v \in Controls /\ DOMAIN v = DOMAIN c.ctl \cup {q}
    BY <2>2, <2>3, MoreControl DEF IsAcc
  <2> HIDE DEF v
  <2>5. d = [s |-> c.s, ctl |-> v, h |-> c.h]
    BY <2>3 DEF IsAcc
  <2> HIDE DEF d
  <2>6. q \notin c.h /\ q \notin DOMAIN x.ctl
    BY <2>3 DEF Within, Uses
  <2>7. IsAcc(d)
    BY <2>3, <2>4, <2>5, <2>6 DEF IsAcc
  <2> QED
    BY <2>1, <2>3, <2>6, <2>7, QueueSettled
<1> QED
  BY <1>1, <1>2

\* ctl_swap
LEMMA DoCtlSwapSettled ==
    ASSUME NEW s, Settled(s), NEW ctl \in Controls, NEW q1 \in Qubits, NEW q2 \in Qubits,
           ~Uses(ctl, q1), ~Uses(ctl, q2), q1 # q2, NEW E, NEW F
    PROVE  Settled(DoCtlSwap(s, ctl, q1, q2, E, F))
<1> DEFINE c == PreflushCtl(s, ctl, E)
           p1 == Preflush(c.s, q1, "I", E)
           p2 == Preflush(p1.s, q2, "I", E)
<1>1. DoCtlSwap(s, ctl, q1, q2, E, F) = Enqueue(DoFlush(p2.s, FALSE, E, F), OpSwap(c.ctl, q1, q2))
  BY Zenon DEF DoCtlSwap
<1>2. IsSim(c.s) /\ c.ctl \in Controls /\ DOMAIN c.ctl \subseteq DOMAIN ctl
  BY PreflushCtlAcc DEF Settled, IsAcc, Within
<1> HIDE DEF c
<1>3. IsSim(p1.s)
  BY <1>2, PreflushSim DEF Preflushed
<1> HIDE DEF p1
<1>4. IsSim(p2.s)
  BY <1>3, PreflushSim DEF Preflushed
<1> HIDE DEF p2
<1>5. OpSwap(c.ctl, q1, q2) \in Ops
  BY <1>2, OpTypes DEF Uses
<1> QED
  BY <1>1, <1>4, <1>5, QueuedSettled

\* ctl_phase
LEMMA DoCtlPhaseSettled ==
    ASSUME NEW s, Settled(s), NEW ctl \in Controls, NEW a \in Int, NEW E, NEW F
    PROVE  Settled(DoCtlPhase(s, ctl, a, E, F))
<1> DEFINE q == CHOOSE q \in DOMAIN ctl : TRUE
           g == Rz(IF ctl[q] THEN a ELSE -a)
<1>1. DoCtlPhase(s, ctl, a, E, F) =
          IF ctl = Always THEN s
          ELSE IF DOMAIN ctl = {q} THEN DoU3(s, q, g)
          ELSE IF a # PI THEN QueuePhase(PreflushCtl(s, ctl, E), a, E, F)
          ELSE QueueZ(PreflushCtlH(s, ctl, E), E, F)
  BY Zenon DEF DoCtlPhase
<1>2. g \in U3
  BY GateTypes
<1> HIDE DEF q, g
<1>3. DOMAIN ctl = {q} => q \in Qubits
  BY DEF Controls
<1>4. DOMAIN ctl = {q} => Settled(DoU3(s, q, g))
  BY <1>2, <1>3, DoU3Settled
<1>5. IsAcc(PreflushCtl(s, ctl, E)) /\ IsAcc(PreflushCtlH(s, ctl, E))
  BY PreflushCtlAcc DEF Settled
<1>6. Settled(QueuePhase(PreflushCtl(s, ctl, E), a, E, F)) /\ Settled(QueueZ(PreflushCtlH(s, ctl, E), E, F))
  BY <1>5, QueueSettled
<1> QED
  BY <1>1, <1>4, <1>6

\* premeasure
LEMMA DoPremeasureSettled ==
    ASSUME NEW s, Settled(s), NEW q \in Qubits, NEW E, NEW F
    PROVE  Settled(DoPremeasure(s, q, E, F).s)
<1> DEFINE p == Preflush(s, q, "Ctl", E)
           also == q \in p.s.queue.writes
           t == DoFlush(p.s, also, E, F)
<1>1. DoPremeasure(s, q, E, F) = [s |-> t, invert |-> p.r = "invert"]
  BY Zenon DEF DoPremeasure
<1>2. IsSim(p.s)
  BY PreflushSim DEF Settled, Preflushed
<1>3. also \in BOOLEAN
  OBVIOUS
<1> HIDE DEF p, also
<1>4. IsSim(t) /\ Unmarked(t)
  BY <1>2, <1>3, DoFlushSim
<1> HIDE DEF t
<1> QED
  BY <1>1, <1>4 DEF Settled

\* flush: every pending gate is marked or gone when _flush begins.
LEMMA DoFlushAllEmpty ==
    ASSUME NEW s, Settled(s), NEW order \in SetToSeqs(DOMAIN s.qubits), NEW E, NEW F
    PROVE  LET t == DoFlushAll(s, order, E, F)
           IN  Settled(t) /\ t.queue.ops = <<>> /\ DOMAIN t.qubits = {}
<1> DEFINE u == PreflushAll(s, order, E)[Len(order)]
           t == DoFlush(u, TRUE, E, F)
<1>1. DoFlushAll(s, order, E, F) = t
  BY Zenon DEF DoFlushAll
<1>2. IsSim(u) /\ DOMAIN u.qubits \subseteq MustFlush(u)
  BY AllSim DEF Settled
<1> HIDE DEF u
<1>3. IsSim(t) /\ Unmarked(t) /\ DOMAIN t.qubits \subseteq DOMAIN u.qubits \ MustFlush(u) /\ t.queue.ops = <<>>
  BY <1>2, DoFlushSim
<1> HIDE DEF t
<1> QED
  BY <1>1, <1>2, <1>3 DEF Settled

-----------------------------------------------------------------------------
(* The invariant                                                           *)

\* Between calls the simulator is settled, no gate went past the end, and after
\* flush() nothing is pending.
Tidy ==
    /\ Settled(Sim)
    /\ InBounds
    /\ FlushedIsEmpty

\* A call that ends settled keeps the invariant.
LEMMA BecameTidy ==
    ASSUME NEW t, Settled(t), Became(t),
           result'.call = "flush" => t.queue.ops = <<>> /\ DOMAIN t.qubits = {}
    PROVE  Tidy'
<1>1. amp' = t.amp /\ cap' = t.cap /\ queue' = t.queue /\ qubits' = t.qubits /\ beyond' = t.beyond
  BY DEF Became
<1>2. IsSim(t) /\ t.beyond = {}
  BY DEF Settled, IsSim
<1>3. Sim' = [amp |-> t.amp, cap |-> t.cap, queue |-> t.queue, qubits |-> t.qubits, beyond |-> {}]
  BY <1>1 DEF Sim
<1>4. Sim' = t
  BY <1>2, <1>3 DEF IsSim
<1>5. Settled(Sim)'
  BY <1>4 DEF Settled, Unmarked, IsSim, ArePending, IsState, IsQueue, Recorded
<1> QED
  BY <1>1, <1>2, <1>5 DEF Tidy, InBounds, FlushedIsEmpty

\* A vector is set: nothing is queued and nothing pending.
LEMMA FreshSettled ==
    ASSUME NEW a, NEW w \in Widths
    PROVE  Settled([amp |-> a, cap |-> w, queue |-> EmptyQueue, qubits |-> [q \in {} |-> GateI], beyond |-> {}])
BY EmptyIsQueue DEF Settled, IsSim, Unmarked, ArePending

\* A new simulator is tidy.
LEMMA InitTidy == Init => Tidy
<1> SUFFICES ASSUME Init PROVE Tidy
  OBVIOUS
<1>1. \E w \in Widths : InitMaxQubit <= w
  BY SimulatorAssumption DEF SimulatorAssumption
<1>2. Width(InitMaxQubit) \in Widths
  BY <1>1, WidthHolds
<1>3. Sim = [amp |-> GroundState, cap |-> Width(InitMaxQubit), queue |-> EmptyQueue,
             qubits |-> [q \in {} |-> GateI], beyond |-> {}]
  BY Zenon DEF Init, Sim
<1>4. Settled(Sim)
  BY <1>2, <1>3, FreshSettled
<1>5. result.call = "new" /\ beyond = {}
  BY DEF Init
<1> QED
  BY <1>4, <1>5 DEF Tidy, InBounds, FlushedIsEmpty

\* The vectors of ResetCall and ImportCall.
LEMMA RestartTidy ==
    ASSUME ResetCall \/ ImportCall
    PROVE  Tidy'
<1>1. CASE ResetCall
  <2> DEFINE t == [amp |-> GroundState, cap |-> Width(InitMaxQubit), queue |-> EmptyQueue,
                   qubits |-> [q \in {} |-> GateI], beyond |-> {}]
  <2>1. Became(t) /\ result' = [call |-> "new"]
    BY <1>1, Zenon DEF ResetCall, Restarted
  <2>2. \E w \in Widths : InitMaxQubit <= w
    BY SimulatorAssumption DEF SimulatorAssumption
  <2>3. Settled(t)
    BY <2>2, WidthHolds, FreshSettled
  <2> HIDE DEF t
  <2> QED
    BY <2>1, <2>3, BecameTidy
<1>2. CASE ImportCall
  <2>1. PICK values \in Imports :
            /\ Restarted(DenseState(values))
            /\ Became([amp |-> DenseState(values), cap |-> Width(ImportQubit(values)),
                       queue |-> EmptyQueue, qubits |-> [q \in {} |-> GateI], beyond |-> {}])
    BY <1>2, Zenon DEF ImportCall
  <2> DEFINE t == [amp |-> DenseState(values), cap |-> Width(ImportQubit(values)),
                   queue |-> EmptyQueue, qubits |-> [q \in {} |-> GateI], beyond |-> {}]
  <2>2. Became(t) /\ result' = [call |-> "new"]
    BY <2>1, Zenon DEF Restarted
  <2>3. \E w \in Widths : ImportQubit(values) <= w
    BY ImportAssumption DEF ImportAssumption
  <2>4. Settled(t)
    BY <2>3, WidthHolds, FreshSettled
  <2> HIDE DEF t
  <2> QED
    BY <2>2, <2>4, BecameTidy
<1> QED
  BY <1>1, <1>2

\* The calls that apply a gate.
LEMMA GateTidy ==
    ASSUME Tidy, NEW E, NEW F, U3Call \/ CtlXCall(E, F) \/ CtlSwapCall(E, F) \/ CtlPhaseCall(E, F)
    PROVE  Tidy'
<1>1. Settled(Sim)
  BY DEF Tidy
<1>2. Gates1 \subseteq U3 /\ Ctls \subseteq Controls /\ Angles \subseteq Int
  BY SimulatorAssumption DEF SimulatorAssumption, Angle
<1>3. ASSUME NEW v, Applied(v) PROVE result'.call = "gate"
  BY <1>3 DEF Applied
<1>4. CASE U3Call
  <2>1. PICK q \in Qubits, g \in Gates1 : Applied(ApplyU3(ideal, q, g)) /\ Became(DoU3(Sim, q, g))
    BY <1>4, Zenon DEF U3Call
  <2>2. Settled(DoU3(Sim, q, g))
    BY <1>1, <1>2, DoU3Settled
  <2>3. result'.call = "gate"
    BY <1>3, <2>1
  <2> QED
    BY <2>1, <2>2, <2>3, BecameTidy
<1>5. CASE CtlXCall(E, F)
  <2>1. PICK q \in Qubits, ctl \in Ctls :
            /\ ~Uses(ctl, q)
            /\ Applied(ApplyOps(ideal, <<OpX(ctl, {q})>>)) /\ Became(DoCtlX(Sim, ctl, q, E, F))
    BY <1>5, Zenon DEF CtlXCall
  <2>2. Settled(DoCtlX(Sim, ctl, q, E, F))
    BY <1>1, <1>2, <2>1, DoCtlXSettled
  <2>3. result'.call = "gate"
    BY <1>3, <2>1
  <2> QED
    BY <2>1, <2>2, <2>3, BecameTidy
<1>6. CASE CtlSwapCall(E, F)
  <2>1. PICK q1 \in Qubits, q2 \in Qubits, ctl \in Ctls :
            /\ ~Uses(ctl, q1) /\ ~Uses(ctl, q2) /\ q1 # q2
            /\ Applied(ApplyOps(ideal, <<OpSwap(ctl, q1, q2)>>)) /\ Became(DoCtlSwap(Sim, ctl, q1, q2, E, F))
    BY <1>6, Zenon DEF CtlSwapCall
  <2>2. Settled(DoCtlSwap(Sim, ctl, q1, q2, E, F))
    BY <1>1, <1>2, <2>1, DoCtlSwapSettled
  <2>3. result'.call = "gate"
    BY <1>3, <2>1
  <2> QED
    BY <2>1, <2>2, <2>3, BecameTidy
<1>7. CASE CtlPhaseCall(E, F)
  <2>1. PICK ctl \in Ctls, a \in Angles :
            Applied(ApplyOps(ideal, <<OpPhase(ctl, a)>>)) /\ Became(DoCtlPhase(Sim, ctl, a, E, F))
    BY <1>7, Zenon DEF CtlPhaseCall
  <2>2. Settled(DoCtlPhase(Sim, ctl, a, E, F))
    BY <1>1, <1>2, DoCtlPhaseSettled
  <2>3. result'.call = "gate"
    BY <1>3, <2>1
  <2> QED
    BY <2>1, <2>2, <2>3, BecameTidy
<1> QED
  BY <1>4, <1>5, <1>6, <1>7

\* A measurement changes the vector and nothing else.
LEMMA CollapseSettled ==
    ASSUME NEW s, Settled(s), NEW a
    PROVE  Settled([s EXCEPT !.amp = a])
<1>1. [s EXCEPT !.amp = a] = [amp |-> a, cap |-> s.cap, queue |-> s.queue, qubits |-> s.qubits, beyond |-> s.beyond]
  BY DEF Settled, IsSim
<1> QED
  BY <1>1 DEF Settled, IsSim, Unmarked

\* The calls that look at the vector.
LEMMA LookTidy ==
    ASSUME Tidy, NEW E, NEW F, MeasureCall(E, F) \/ QubitProbsCall(E, F) \/ FlushCall(E, F)
    PROVE  Tidy'
<1>1. Settled(Sim)
  BY DEF Tidy
<1>2. CASE MeasureCall(E, F)
  <2>1. PICK q \in Qubits :
            \E p \in {DoPremeasure(Sim, q, E, F)}, bias \in 0 .. (Biases - 1) :
                LET w == Weights(p.s, q)
                    v == Measured(w, p.invert, bias)
                    other == IF v THEN w[1] ELSE w[2]
                IN  /\ Became(IF other = 0 THEN p.s ELSE [p.s EXCEPT !.amp = Collapse(p.s.amp, q, v)])
                    /\ result' = [call |-> "measure", q |-> q, value |-> v # p.invert,
                                  weights |-> IF p.invert THEN <<w[2], w[1]>> ELSE w]
    BY <1>2, ZenonT(40) DEF MeasureCall
  <2> DEFINE p == DoPremeasure(Sim, q, E, F)
  <2>2. PICK a, x, v, y : /\ Became(p.s) \/ Became([p.s EXCEPT !.amp = a])
                          /\ result' = [call |-> "measure", q |-> x, value |-> v, weights |-> y]
    BY <2>1, Zenon
  <2>3. Settled(p.s)
    BY <1>1, DoPremeasureSettled
  <2> HIDE DEF p
  <2>4. Settled([p.s EXCEPT !.amp = a])
    BY <2>3, CollapseSettled, Zenon
  <2>5. result'.call # "flush"
    BY <2>2
  <2>6. CASE Became(p.s)
    BY <2>3, <2>5, <2>6, BecameTidy
  <2>7. CASE Became([p.s EXCEPT !.amp = a])
    BY <2>4, <2>5, <2>7, BecameTidy, Zenon
  <2> QED
    BY <2>2, <2>6, <2>7
<1>3. CASE QubitProbsCall(E, F)
  <2>1. PICK q \in Qubits :
            /\ Became(DoPremeasure(Sim, q, E, F).s)
            /\ \E x, y : result' = [call |-> "qubit_probs", q |-> x, weights |-> y]
    BY <1>3, Zenon DEF QubitProbsCall
  <2>2. Settled(DoPremeasure(Sim, q, E, F).s)
    BY <1>1, DoPremeasureSettled
  <2>3. result'.call # "flush"
    BY <2>1
  <2> QED
    BY <2>1, <2>2, <2>3, BecameTidy
<1>4. CASE FlushCall(E, F)
  <2>1. PICK order \in SetToSeqs(DOMAIN qubits) : Became(DoFlushAll(Sim, order, E, F))
    BY <1>4, Zenon DEF FlushCall
  <2>2. Sim.qubits = qubits
    BY DEF Sim
  <2>3. /\ Settled(DoFlushAll(Sim, order, E, F))
        /\ DoFlushAll(Sim, order, E, F).queue.ops = <<>>
        /\ DOMAIN DoFlushAll(Sim, order, E, F).qubits = {}
    BY <1>1, <2>2, DoFlushAllEmpty
  <2> QED
    BY <2>1, <2>3, BecameTidy
<1> QED
  BY <1>2, <1>3, <1>4

\* Every call keeps it so.
LEMMA NextTidy == Tidy /\ [Next]_vars => Tidy'
<1> SUFFICES ASSUME Tidy, [Next]_vars PROVE Tidy'
  OBVIOUS
<1>1. CASE ResetCall \/ ImportCall
  BY <1>1, RestartTidy
<1>2. CASE U3Call
  BY <1>2, GateTidy
<1>3. CASE \E E, F : CtlXCall(E, F) \/ CtlSwapCall(E, F) \/ CtlPhaseCall(E, F)
  BY <1>3, GateTidy
<1>4. CASE \E E, F : MeasureCall(E, F) \/ QubitProbsCall(E, F) \/ FlushCall(E, F)
  BY <1>4, LookTidy
<1>5. CASE UNCHANGED vars
  <2>1. Sim' = Sim
    BY <1>5 DEF vars, Sim
  <2>2. Settled(Sim)'
    BY <2>1 DEF Tidy, Settled, IsSim, Unmarked, ArePending, IsState, IsQueue, Recorded
  <2> QED
    BY <1>5, <2>2 DEF Tidy, InBounds, FlushedIsEmpty, vars
<1> QED
  BY <1>1, <1>2, <1>3, <1>4, <1>5, Zenon DEF Next

\* Every call of simulator.rs leaves its queues tidy, within the vector.
THEOREM AlwaysTidy == Spec => []Tidy
BY InitTidy, NextTidy, PTL DEF Spec

\* No gate ever addresses a qubit that the state vector has no room for:
\* simulator.rs calls ensure_qubit before it performs a gate.
THEOREM RoomForEveryGate == Spec => []InBounds
<1>1. Tidy => InBounds
  BY DEF Tidy
<1> QED
  BY <1>1, AlwaysTidy, PTL

\* No mark of a call is left for the next, and after flush() the queue is empty
\* and no gate is pending.
THEOREM NothingLeftBehind == Spec => []QueuesTidy
<1>1. Tidy => QueuesTidy
  BY DEF Tidy, Settled, Unmarked, QueuesTidy, NoStaleMarks, Sim
<1> QED
  BY <1>1, AlwaysTidy, PTL

\* Whatever was called before, a gate that Queue::blocks lets pass commutes with all
\* operations that are queued: maybe_eager_flush and _flush may apply it to the
\* vector before them.
THEOREM PassingGatesCommute == Spec => []BlocksSound
<1>1. Tidy => BlocksSound
  <2> SUFFICES ASSUME Tidy
               PROVE  BlocksSound
    OBVIOUS
  <2>1. Recorded(queue)
    BY DEF Tidy, Settled, IsSim, IsQueue, Sim
  <2>2. ASSUME NEW q \in Qubits, NEW g \in {g \in U3 : ~Blocks(queue, q, g)}, NEW b \in Basis
        PROVE  LET v == [x \in Basis |-> IF x = b THEN <<1, 0>> ELSE CZero]
               IN  Mapped(ApplyU3(v, q, g), Graph(queue.ops)) = ApplyU3(Mapped(v, Graph(queue.ops)), q, g)
    <3> DEFINE v == [x \in Basis |-> IF x = b THEN <<1, 0>> ELSE CZero]
    <3>1. v \in Vectors
      BY DEF Vectors, CZero
    <3> HIDE DEF v
    <3>2. Mapped(ApplyU3(v, q, g), Graph(queue.ops)) = ApplyU3(Mapped(v, Graph(queue.ops)), q, g)
      BY <2>1, <3>1, Passing
    <3> QED
      BY <3>2, Zenon DEF v
  <2> QED
    BY <2>2, Zenon DEF BlocksSound
<1> QED
  BY <1>1, AlwaysTidy, PTL
=============================================================================
