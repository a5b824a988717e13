------------------------- MODULE StatevectorProofs --------------------------
(***************************************************************************)
(* Proofs about Statevector, for any number of qubits, threads and calls,  *)
(* any sizes of chunks and any vector: the windows that the parallel loops *)
(* fill without a check are exactly as long as what is written to them,    *)
(* whatever the order of the tasks.                                        *)
(***************************************************************************)
EXTENDS Statevector, NaturalSets, FiniteSetTheorems, SequenceTheorems

-----------------------------------------------------------------------------
(* Loops.  A loop is a recursive function; that there is one is shown for  *)
(* all the loops of the module at once.                                    *)

Start(loop, x) ==
    CASE loop = "sum" -> 0
      [] loop = "search" -> [lo |-> Max({0, x.target - Len(x.k1)}), hi |-> Min({Len(x.k0), x.target}),
                             on |-> TRUE, ret |-> <<>>]
      [] loop = "pairs" -> [ok |-> TRUE, at0 |-> 0, at1 |-> 0, pairs |-> <<>>]
      [] loop \in {"distinct", "eq"} -> [n0 |-> 0, n1 |-> 0, items |-> <<>>]

\* Where a loop stands after n rounds, if it stood at y after n - 1 of them.
Round(loop, x, y, n) ==
    IF n = 0 THEN Start(loop, x)
    ELSE CASE loop = "sum" -> y + x.l[n][x.p]
           [] loop = "search" -> BoundaryRound(x.k0, x.k1, x.target, y)
           [] loop = "pairs" ->
                ChunkPairsRound(x.k0, x.k1, ((Len(x.k0) + Len(x.k1)) * n) \div x.count, y)
           [] loop = "distinct" -> DistinctRound(x.c0, x.c1, x.q, y)
           [] loop = "eq" -> EqRound(x.c0, x.c1, x.q, y)

\* There is a function that takes these rounds: prefixes of it exist and agree.
LEMMA LoopExists ==
    ASSUME NEW loop, NEW x
    PROVE  \E f : f = [n \in Nat |-> Round(loop, x, f[n - 1], n)]
<1> DEFINE B(y, n) == Round(loop, x, y, n)
           Upto(m, g) == g = [n \in 0 .. m |-> B(g[n - 1], n)]
           S == {m \in Nat : \E g : Upto(m, g)}
           T == {n \in Nat : \A m, k \in Nat : \A g, h :
                    n <= m /\ n <= k /\ Upto(m, g) /\ Upto(k, h) => g[n] = h[n]}
<1>1. \A y, z : B(y, 0) = B(z, 0)
  BY Zenon DEF Round
<1> HIDE DEF B
<1>2. 0 \in S
  <2> DEFINE g == [n \in 0 .. 0 |-> B(0, 0)]
  <2>1. Upto(0, g)
    BY <1>1
  <2> QED
    BY <2>1
<1>3. ASSUME NEW m \in Nat, m \in S
      PROVE  m + 1 \in S
  <2>1. PICK g : Upto(m, g)
    BY <1>3
  <2> DEFINE h == [n \in 0 .. (m + 1) |-> IF n <= m THEN g[n] ELSE B(g[m], m + 1)]
  <2>2. \A n \in 0 .. m : g[n] = B(g[n - 1], n)
    BY <2>1
  <2>3. \A n \in 0 .. (m + 1) : h[n] = B(h[n - 1], n)
    <3> TAKE n \in 0 .. (m + 1)
    <3>1. CASE n = 0
      BY <1>1, <2>2, <3>1
    <3>2. CASE n # 0 /\ n <= m
      <4>1. n - 1 \in 0 .. (m + 1) /\ n - 1 <= m
        BY <3>2
      <4>2. h[n] = g[n] /\ h[n - 1] = g[n - 1] /\ n \in 0 .. m
        BY <3>2, <4>1
      <4> QED
        BY <2>2, <4>2
    <3>3. CASE n = m + 1
      <4>1. h[n] = B(g[m], m + 1) /\ h[n - 1] = g[m]
        BY <3>3
      <4> QED
        BY <3>3, <4>1
    <3> QED
      BY <3>1, <3>2, <3>3
  <2>4. Upto(m + 1, h)
    BY <2>3
  <2> HIDE DEF Upto, h
  <2> QED
    BY <2>4
<1>4. \A m \in Nat : \E g : Upto(m, g)
  <2> HIDE DEF Upto
  <2>1. \A m \in Nat : m \in S
    <3> HIDE DEF S
    <3> QED
      BY <1>2, <1>3, SetInduction
  <2> QED
    BY <2>1
<1>5. 0 \in T
  BY <1>1
<1>6. ASSUME NEW n \in Nat, n \in T
      PROVE  n + 1 \in T
  <2>1. ASSUME NEW m \in Nat, NEW k \in Nat, NEW g, NEW h, n + 1 <= m, n + 1 <= k, Upto(m, g), Upto(k, h)
        PROVE  g[n + 1] = h[n + 1]
    <3>1. n <= m /\ n <= k
      BY <2>1
    <3>2. g[n] = h[n]
      <4> HIDE DEF Upto
      <4> QED
        BY <1>6, <2>1, <3>1
    <3>3. g[n + 1] = B(g[n], n + 1)
      BY <2>1
    <3>4. h[n + 1] = B(h[n], n + 1)
      BY <2>1
    <3> QED
      BY <3>2, <3>3, <3>4
  <2> HIDE DEF Upto
  <2> QED
    BY <2>1
<1>7. \A n, m, k \in Nat : \A g, h : n <= m /\ n <= k /\ Upto(m, g) /\ Upto(k, h) => g[n] = h[n]
  <2> HIDE DEF Upto
  <2>1. \A n \in Nat : n \in T
    <3> HIDE DEF T
    <3> QED
      BY <1>5, <1>6, SetInduction
  <2> QED
    BY <2>1
<1> DEFINE G(n) == CHOOSE g : Upto(n, g)
           f == [n \in Nat |-> G(n)[n]]
<1>8. \A n \in Nat : Upto(n, G(n))
  <2> HIDE DEF Upto
  <2> QED
    BY <1>4
<1> HIDE DEF G
<1>9. \A n \in Nat : f[n] = B(f[n - 1], n)
  <2> TAKE n \in Nat
  <2>1. G(n)[n] = B(G(n)[n - 1], n)
    BY <1>8
  <2>2. CASE n = 0
    BY <1>1, <2>1, <2>2
  <2>3. CASE n # 0
    <3>1. n - 1 \in Nat /\ n - 1 <= n /\ n - 1 <= n - 1
      BY <2>3
    <3>2. Upto(n, G(n)) /\ Upto(n - 1, G(n - 1))
      BY <1>8, <3>1
    <3>3. G(n)[n - 1] = G(n - 1)[n - 1]
      <4> HIDE DEF Upto
      <4> QED
        BY <1>7, <3>1, <3>2
    <3> QED
      BY <2>1, <3>1, <3>3
  <2> QED
    BY <2>2, <2>3
<1>10. f = [n \in Nat |-> B(f[n - 1], n)]
  BY <1>9
<1> QED
  BY <1>10, Zenon DEF B

\* The element of a singleton.
LEMMA OnlyOf == \A x : Only({x}) = x
BY DEF Only

\* The prefix sums are what their definition says.
LEMMA PrefixLoop ==
    ASSUME NEW l, NEW p
    PROVE  /\ Prefix(l, p, 0) = 0
           /\ \A k \in Nat : Prefix(l, p, k + 1) = Prefix(l, p, k) + l[k + 1][p]
<1> DEFINE x == [l |-> l, p |-> p]
           IsLoop(f) == f = [j \in Nat |-> IF j = 0 THEN 0 ELSE f[j - 1] + l[j][p]]
           F == CHOOSE f : IsLoop(f)
<1>1. \A k : Prefix(l, p, k) = F[k]
  BY Zenon DEF Prefix
<1>2. \A y, n : Round("sum", x, y, n) = IF n = 0 THEN 0 ELSE y + l[n][p]
  BY DEF Round, Start
<1>3. PICK f : f = [n \in Nat |-> Round("sum", x, f[n - 1], n)]
  <2> HIDE DEF x
  <2> QED
    BY LoopExists, Zenon
<1> HIDE DEF x
<1>4. IsLoop(f)
  BY <1>2, <1>3
<1>5. IsLoop(F)
  <2> HIDE DEF IsLoop
  <2> QED
    BY <1>4, Zenon
<1> HIDE DEF F
<1>6. \A j \in Nat : F[j] = IF j = 0 THEN 0 ELSE F[j - 1] + l[j][p]
  BY <1>5
<1>7. \A k \in Nat : F[k + 1] = F[k] + l[k + 1][p]
  <2> TAKE k \in Nat
  <2>1. k + 1 \in Nat /\ k + 1 # 0 /\ (k + 1) - 1 = k
    OBVIOUS
  <2> QED
    BY <1>6, <2>1
<1> QED
  BY <1>1, <1>6, <1>7

\* The search of merge_boundaries, round by round.
SearchRun(F, k0, k1, target) ==
    /\ F[0] = [lo |-> Max({0, target - Len(k1)}), hi |-> Min({Len(k0), target}), on |-> TRUE, ret |-> <<>>]
    /\ \A i \in Nat : F[i + 1] = BoundaryRound(k0, k1, target, F[i])
    /\ MergeBoundaries(k0, k1, target) = F[target + 1].ret

\* There is such a run.
LEMMA SearchLoop ==
    ASSUME NEW k0, NEW k1, NEW target
    PROVE  \E F : SearchRun(F, k0, k1, target)
<1> DEFINE x == [k0 |-> k0, k1 |-> k1, target |-> target]
           s0 == [lo |-> Max({0, target - Len(k1)}), hi |-> Min({Len(k0), target}), on |-> TRUE, ret |-> <<>>]
           One(s) == Only({BoundaryRound(d0, d1, target, t) : d0 \in {k0}, d1 \in {k1}, t \in {s}})
           IsLoop(f) == f = [i \in Nat |-> IF i = 0 THEN s0 ELSE One(f[i - 1])]
           F == CHOOSE f : IsLoop(f)
<1>1. MergeBoundaries(k0, k1, target) = F[target + 1].ret
  BY DEF MergeBoundaries
<1>2. \A s : One(s) = BoundaryRound(k0, k1, target, s)
  <2> TAKE s
  <2>1. {BoundaryRound(d0, d1, target, t) : d0 \in {k0}, d1 \in {k1}, t \in {s}} = {BoundaryRound(k0, k1, target, s)}
    OBVIOUS
  <2> QED
    BY <2>1, OnlyOf
<1>3. \A y, n : Round("search", x, y, n) = IF n = 0 THEN s0 ELSE BoundaryRound(k0, k1, target, y)
  BY DEF Round, Start
<1> HIDE DEF s0, One
<1>5. PICK f : f = [n \in Nat |-> Round("search", x, f[n - 1], n)]
  <2> HIDE DEF x
  <2> QED
    BY LoopExists, Zenon
<1>6. IsLoop(f)
  <2> HIDE DEF x
  <2> QED
    BY <1>2, <1>3, <1>5
<1>7. IsLoop(F)
  <2> HIDE DEF IsLoop
  <2> QED
    BY <1>6, Zenon
<1> HIDE DEF F, x
<1>8. \A i \in Nat : F[i] = IF i = 0 THEN s0 ELSE One(F[i - 1])
  BY <1>7
<1>9. \A i \in Nat : F[i + 1] = BoundaryRound(k0, k1, target, F[i])
  <2> TAKE i \in Nat
  <2>1. i + 1 \in Nat /\ i + 1 # 0 /\ (i + 1) - 1 = i
    OBVIOUS
  <2> QED
    BY <1>2, <1>8, <2>1
<1>10. F[0] = s0
  BY <1>8
<1> QED
  BY <1>1, <1>9, <1>10, Zenon DEF s0, SearchRun

\* So the loop of merge_chunk_pairs.
PairsRun(F, k0, k1, count) ==
    LET n == Len(k0) + Len(k1)
        r == F[Max({1, count}) - 1]
    IN  /\ F[0] = [ok |-> TRUE, at0 |-> 0, at1 |-> 0, pairs |-> <<>>]
        /\ \A i \in Nat : F[i + 1] = ChunkPairsRound(k0, k1, (n * (i + 1)) \div count, F[i])
        /\ MergeChunkPairs(k0, k1, count) =
              IF r.at0 + r.at1 = n THEN r
              ELSE [ok |-> r.ok, at0 |-> r.at0, at1 |-> r.at1,
                    pairs |-> Append(r.pairs, Task(r.at0 + 1, Len(k0), r.at1 + 1, Len(k1)))]

\* There is such a run.
LEMMA PairsLoop ==
    ASSUME NEW k0, NEW k1, NEW count
    PROVE  \E F : PairsRun(F, k0, k1, count)
<1> DEFINE x == [k0 |-> k0, k1 |-> k1, count |-> count]
           n == Len(k0) + Len(k1)
           s0 == [ok |-> TRUE, at0 |-> 0, at1 |-> 0, pairs |-> <<>>]
           One(s, i) == Only({ChunkPairsRound(k0, k1, (n * i) \div count, r) : r \in {s}})
           IsLoop(f) == f = [i \in Nat |-> IF i = 0 THEN s0 ELSE One(f[i - 1], i)]
           F == CHOOSE f : IsLoop(f)
           Rest(r) == IF r.at0 + r.at1 = n THEN r
                      ELSE [ok |-> r.ok, at0 |-> r.at0, at1 |-> r.at1,
                            pairs |-> Append(r.pairs, Task(r.at0 + 1, Len(k0), r.at1 + 1, Len(k1)))]
<1>1. MergeChunkPairs(k0, k1, count) = Rest(F[Max({1, count}) - 1])
  <2>1. MergeChunkPairs(k0, k1, count) = Only({Rest(r) : r \in {F[Max({1, count}) - 1]}})
    BY Zenon DEF MergeChunkPairs
  <2> HIDE DEF F, Rest
  <2>2. {Rest(r) : r \in {F[Max({1, count}) - 1]}} = {Rest(F[Max({1, count}) - 1])}
    OBVIOUS
  <2> QED
    BY <2>1, <2>2, OnlyOf
<1>2. \A s, i : One(s, i) = ChunkPairsRound(k0, k1, (n * i) \div count, s)
  <2> TAKE s, i
  <2>1. {ChunkPairsRound(k0, k1, (n * i) \div count, r) : r \in {s}} = {ChunkPairsRound(k0, k1, (n * i) \div count, s)}
    OBVIOUS
  <2> QED
    BY <2>1, OnlyOf
<1>3. \A y, i : Round("pairs", x, y, i) = IF i = 0 THEN s0 ELSE ChunkPairsRound(k0, k1, (n * i) \div count, y)
  BY DEF Round, Start
<1> HIDE DEF One
<1>4. PICK f : f = [i \in Nat |-> Round("pairs", x, f[i - 1], i)]
  <2> HIDE DEF x
  <2> QED
    BY LoopExists, Zenon
<1>5. IsLoop(f)
  <2> HIDE DEF x, s0, n
  <2> QED
    BY <1>2, <1>3, <1>4
<1>6. IsLoop(F)
  <2> HIDE DEF IsLoop
  <2> QED
    BY <1>5, Zenon
<1> HIDE DEF F, x
<1>7. \A i \in Nat : F[i] = IF i = 0 THEN s0 ELSE One(F[i - 1], i)
  BY <1>6
<1>8. \A i \in Nat : F[i + 1] = ChunkPairsRound(k0, k1, (n * (i + 1)) \div count, F[i])
  <2> TAKE i \in Nat
  <2>1. i + 1 \in Nat /\ i + 1 # 0 /\ (i + 1) - 1 = i
    OBVIOUS
  <2> HIDE DEF n, s0
  <2> QED
    BY <1>2, <1>7, <2>1
<1>9. F[0] = s0
  BY <1>7
<1> QED
  BY <1>1, <1>8, <1>9, Zenon DEF PairsRun

\* So is merge_distinct.
DistinctRun(F, c0, c1, q) ==
    /\ F[0] = [n0 |-> 0, n1 |-> 0, items |-> <<>>]
    /\ \A k \in Nat : F[k + 1] = DistinctRound(c0, c1, q, F[k])
    /\ MergeDistinct(c0, c1, q) = F[Len(c0) + Len(c1)].items

\* There is such a run.
LEMMA DistinctLoop ==
    ASSUME NEW c0, NEW c1, NEW q
    PROVE  \E F : DistinctRun(F, c0, c1, q)
<1> DEFINE x == [c0 |-> c0, c1 |-> c1, q |-> q]
           s0 == [n0 |-> 0, n1 |-> 0, items |-> <<>>]
           One(s) == Only({DistinctRound(d0, d1, q, t) : d0 \in {c0}, d1 \in {c1}, t \in {s}})
           IsLoop(f) == f = [k \in Nat |-> IF k = 0 THEN s0 ELSE One(f[k - 1])]
           F == CHOOSE f : IsLoop(f)
<1>1. MergeDistinct(c0, c1, q) = F[Len(c0) + Len(c1)].items
  BY DEF MergeDistinct
<1>2. \A s : One(s) = DistinctRound(c0, c1, q, s)
  <2> TAKE s
  <2>1. {DistinctRound(d0, d1, q, t) : d0 \in {c0}, d1 \in {c1}, t \in {s}} = {DistinctRound(c0, c1, q, s)}
    OBVIOUS
  <2> QED
    BY <2>1, OnlyOf
<1>3. \A y, k : Round("distinct", x, y, k) = IF k = 0 THEN s0 ELSE DistinctRound(c0, c1, q, y)
  BY DEF Round, Start
<1> HIDE DEF One
<1>4. PICK f : f = [k \in Nat |-> Round("distinct", x, f[k - 1], k)]
  <2> HIDE DEF x
  <2> QED
    BY LoopExists, Zenon
<1>5. IsLoop(f)
  <2> HIDE DEF x, s0
  <2> QED
    BY <1>2, <1>3, <1>4
<1>6. IsLoop(F)
  <2> HIDE DEF IsLoop
  <2> QED
    BY <1>5, Zenon
<1> HIDE DEF F, x
<1>7. \A k \in Nat : F[k] = IF k = 0 THEN s0 ELSE One(F[k - 1])
  BY <1>6
<1>8. \A k \in Nat : F[k + 1] = DistinctRound(c0, c1, q, F[k])
  <2> TAKE k \in Nat
  <2>1. k + 1 \in Nat /\ k + 1 # 0 /\ (k + 1) - 1 = k
    OBVIOUS
  <2> HIDE DEF s0
  <2> QED
    BY <1>2, <1>7, <2>1
<1>9. F[0] = s0
  BY <1>7
<1> QED
  BY <1>1, <1>8, <1>9, Zenon DEF DistinctRun

\* And merge_eq.
EqRun(F, c0, c1, q) ==
    /\ F[0] = [n0 |-> 0, n1 |-> 0, items |-> <<>>]
    /\ \A k \in Nat : F[k + 1] = EqRound(c0, c1, q, F[k])
    /\ MergeEq(c0, c1, q) = F[Len(c0) + Len(c1)].items

\* There is such a run.
LEMMA EqLoop ==
    ASSUME NEW c0, NEW c1, NEW q
    PROVE  \E F : EqRun(F, c0, c1, q)
<1> DEFINE x == [c0 |-> c0, c1 |-> c1, q |-> q]
           s0 == [n0 |-> 0, n1 |-> 0, items |-> <<>>]
           One(s) == Only({EqRound(d0, d1, q, t) : d0 \in {c0}, d1 \in {c1}, t \in {s}})
           IsLoop(f) == f = [k \in Nat |-> IF k = 0 THEN s0 ELSE One(f[k - 1])]
           F == CHOOSE f : IsLoop(f)
<1>1. MergeEq(c0, c1, q) = F[Len(c0) + Len(c1)].items
  BY DEF MergeEq
<1>2. \A s : One(s) = EqRound(c0, c1, q, s)
  <2> TAKE s
  <2>1. {EqRound(d0, d1, q, t) : d0 \in {c0}, d1 \in {c1}, t \in {s}} = {EqRound(c0, c1, q, s)}
    OBVIOUS
  <2> QED
    BY <2>1, OnlyOf
<1>3. \A y, k : Round("eq", x, y, k) = IF k = 0 THEN s0 ELSE EqRound(c0, c1, q, y)
  BY DEF Round, Start
<1> HIDE DEF One
<1>4. PICK f : f = [k \in Nat |-> Round("eq", x, f[k - 1], k)]
  <2> HIDE DEF x
  <2> QED
    BY LoopExists, Zenon
<1>5. IsLoop(f)
  <2> HIDE DEF x, s0
  <2> QED
    BY <1>2, <1>3, <1>4
<1>6. IsLoop(F)
  <2> HIDE DEF IsLoop
  <2> QED
    BY <1>5, Zenon
<1> HIDE DEF F, x
<1>7. \A k \in Nat : F[k] = IF k = 0 THEN s0 ELSE One(F[k - 1])
  BY <1>6
<1>8. \A k \in Nat : F[k + 1] = EqRound(c0, c1, q, F[k])
  <2> TAKE k \in Nat
  <2>1. k + 1 \in Nat /\ k + 1 # 0 /\ (k + 1) - 1 = k
    OBVIOUS
  <2> HIDE DEF s0
  <2> QED
    BY <1>2, <1>7, <2>1
<1>9. F[0] = s0
  BY <1>7
<1> QED
  BY <1>1, <1>8, <1>9, Zenon DEF EqRun

-----------------------------------------------------------------------------
(* Sequences, whatever their elements                                      *)

IsSeq(s) == \E S : s \in Seq(S)

\* What the proofs use of a sequence.
LEMMA SeqFacts ==
    ASSUME NEW s, IsSeq(s)
    PROVE  /\ Len(s) \in Nat
           /\ DOMAIN s = 1 .. Len(s)
           /\ s = [k \in 1 .. Len(s) |-> s[k]]
<1>1. PICK S : s \in Seq(S)
  BY DEF IsSeq
<1>2. Len(s) \in Nat /\ DOMAIN s = 1 .. Len(s) /\ s \in [1 .. Len(s) -> S]
  BY <1>1, LenProperties
<1> QED
  BY <1>2

\* A function on the first n numbers is a sequence of length n.
LEMMA FunctionIsSeq ==
    ASSUME NEW n \in Nat, NEW f, f = [k \in 1 .. n |-> f[k]]
    PROVE  IsSeq(f) /\ Len(f) = n /\ DOMAIN f = 1 .. n
<1> DEFINE S == {f[k] : k \in 1 .. n}
<1>1. f \in [1 .. n -> S]
  <2>1. \A k \in 1 .. n : f[k] \in S
    OBVIOUS
  <2> HIDE DEF S
  <2> QED
    BY <2>1
<1> HIDE DEF S
<1>2. f \in Seq(S)
  BY <1>1, SeqDef
<1>3. DOMAIN f = 1 .. n
  BY <1>1
<1>4. Len(f) \in Nat /\ 1 .. Len(f) = 1 .. n
  BY <1>2, <1>3, LenProperties
<1>5. Len(f) = n
  <2>1. Cardinality(1 .. Len(f)) = Len(f) /\ Cardinality(1 .. n) = n
    BY <1>4, FS_Interval
  <2> QED
    BY <1>4, <2>1
<1> QED
  BY <1>2, <1>3, <1>5 DEF IsSeq

\* A chunk of a run is a sequence of the length that its ends say.
LEMMA SubSeqIsSeq ==
    ASSUME NEW s, NEW m \in Int, NEW n \in Int
    PROVE  /\ IsSeq(SubSeq(s, m, n))
           /\ Len(SubSeq(s, m, n)) = IF m <= n THEN n - m + 1 ELSE 0
           /\ Len(SubSeq(s, m, n)) \in Nat
<1> DEFINE S == {s[i] : i \in m .. n}
<1>1. \A i \in m .. n : s[i] \in S
  OBVIOUS
<1> HIDE DEF S
<1>2. SubSeq(s, m, n) \in Seq(S) /\ Len(SubSeq(s, m, n)) = IF m <= n THEN n - m + 1 ELSE 0
  BY <1>1, SubSeqProperties
<1>3. Len(SubSeq(s, m, n)) \in Nat
  BY <1>2, LenProperties
<1> QED
  BY <1>2, <1>3 DEF IsSeq

\* An element is written behind the others.
LEMMA AppendIsSeq ==
    ASSUME NEW s, IsSeq(s), NEW e
    PROVE  /\ IsSeq(Append(s, e))
           /\ Len(Append(s, e)) = Len(s) + 1
           /\ \A i \in 1 .. Len(s) : Append(s, e)[i] = s[i]
           /\ Append(s, e)[Len(s) + 1] = e
<1>1. PICK S : s \in Seq(S)
  BY DEF IsSeq
<1> DEFINE T == S \cup {e}
<1>2. s \in Seq(T) /\ e \in T
  BY <1>1, SeqMonotonic
<1> HIDE DEF T
<1>3. /\ Append(s, e) \in Seq(T)
      /\ Len(Append(s, e)) = Len(s) + 1
      /\ \A i \in 1 .. Len(s) : Append(s, e)[i] = s[i]
      /\ Append(s, e)[Len(s) + 1] = e
  BY <1>2, AppendProperties
<1> QED
  BY <1>3 DEF IsSeq

\* Nothing has been written yet.
LEMMA EmptyIsSeq == IsSeq(<<>>) /\ Len(<<>>) = 0 /\ DOMAIN <<>> = {}
<1>1. <<>> \in Seq({}) /\ Len(<<>>) = 0
  BY EmptySeq
<1>2. DOMAIN <<>> = 1 .. 0
  BY <1>1, LenProperties
<1> QED
  BY <1>1, <1>2 DEF IsSeq

-----------------------------------------------------------------------------
(* Tasks are pairs of ranges                                               *)

Ranges == [lo : Int, hi : Int]
Tasks == Ranges \X Ranges

\* Two ranges make a task.
LEMMA TaskType ==
    ASSUME NEW a \in Int, NEW b \in Int, NEW c \in Int, NEW d \in Int
    PROVE  Task(a, b, c, d) \in Tasks
BY DEF Task, Tasks, Ranges

IsBoundary(b) == b = <<>> \/ (b[1] \in Int /\ b[2] \in Int)

IsSearch(s) ==
    /\ s = [lo |-> s.lo, hi |-> s.hi, on |-> s.on, ret |-> s.ret]
    /\ s.lo \in Int /\ s.hi \in Int
    /\ IsBoundary(s.ret)

\* A round of the search leaves numbers in its variables.
LEMMA BoundaryRoundType ==
    ASSUME NEW k0, NEW k1, NEW target \in Int, NEW s, IsSearch(s)
    PROVE  IsSearch(BoundaryRound(k0, k1, target, s))
<1> DEFINE n0 == (s.lo + s.hi) \div 2
           n1 == target - n0
           r == BoundaryRound(k0, k1, target, s)
           return(t) == [lo |-> s.lo, hi |-> s.hi, on |-> FALSE, ret |-> t]
           narrow(lo, hi) == [lo |-> lo, hi |-> hi, on |-> lo <= hi, ret |-> <<>>]
<1>1. \/ r = s
      \/ r = return(<<n0 - 1, n1>>)
      \/ r = narrow(s.lo, n0 - 1)
      \/ r = return(<<n0, n1 - 1>>)
      \/ r = narrow(n0 + 1, s.hi)
      \/ r = return(<<n0, n1>>)
  BY Zenon DEF BoundaryRound
<1>2. n0 \in Int /\ n1 \in Int /\ s.lo \in Int /\ s.hi \in Int
  BY DEF IsSearch
<1> HIDE DEF n0, n1, r
<1>3. \A a, b \in Int : IsBoundary(<<a, b>>)
  BY DEF IsBoundary
<1>4. \A t : IsBoundary(t) => IsSearch(return(t))
  BY <1>2 DEF IsSearch
<1>5. \A a, b \in Int : IsSearch(narrow(a, b))
  BY DEF IsSearch, IsBoundary
<1> HIDE DEF return, narrow
<1>6. n0 - 1 \in Int /\ n1 - 1 \in Int /\ n0 + 1 \in Int
  BY <1>2
<1> QED
  BY <1>1, <1>2, <1>3, <1>4, <1>5, <1>6 DEF r

\* merge_boundaries fails or returns two numbers.
LEMMA BoundariesType ==
    ASSUME NEW k0, NEW k1, Len(k0) \in Nat, Len(k1) \in Nat, NEW target \in Nat
    PROVE  IsBoundary(MergeBoundaries(k0, k1, target))
<1>1. PICK F : SearchRun(F, k0, k1, target)
  BY SearchLoop
<1> DEFINE S == {i \in Nat : IsSearch(F[i])}
<1>2. 0 \in S
  <2> DEFINE lo == Max({0, target - Len(k1)})
             hi == Min({Len(k0), target})
  <2>1. F[0] = [lo |-> lo, hi |-> hi, on |-> TRUE, ret |-> <<>>]
    BY <1>1 DEF SearchRun
  <2>2. lo \in Int
    <3> DEFINE T == {0, target - Len(k1)}
    <3>1. T \subseteq Int /\ \E m \in T : \A j \in T : m >= j
      OBVIOUS
    <3> HIDE DEF T
    <3>2. Max(T) \in T
      BY <3>1 DEF Max
    <3> QED
      BY <3>1, <3>2 DEF T
  <2>3. hi \in Int
    BY MinOf
  <2> HIDE DEF lo, hi
  <2> QED
    BY <2>1, <2>2, <2>3 DEF IsSearch, IsBoundary
<1>3. \A i \in Nat : i \in S => i + 1 \in S
  BY <1>1, BoundaryRoundType DEF SearchRun
<1>4. \A i \in Nat : i \in S
  <2> HIDE DEF S
  <2> QED
    BY <1>2, <1>3, SetInduction
<1>5. IsSearch(F[target + 1])
  BY <1>4
<1> QED
  BY <1>1, <1>5 DEF IsSearch, SearchRun

IsPairs(r) ==
    /\ r = [ok |-> r.ok, at0 |-> r.at0, at1 |-> r.at1, pairs |-> r.pairs]
    /\ r.at0 \in Int /\ r.at1 \in Int
    /\ r.pairs \in Seq(Tasks)

\* So does a round of the pairing.
LEMMA ChunkPairsRoundType ==
    ASSUME NEW k0, NEW k1, Len(k0) \in Nat, Len(k1) \in Nat, NEW upto \in Int, NEW r, IsPairs(r)
    PROVE  IsPairs(ChunkPairsRound(k0, k1, upto, r))
<1> DEFINE target == upto - (r.at0 + r.at1)
           b == MergeBoundaries(SubSeq(k0, r.at0 + 1, Len(k0)), SubSeq(k1, r.at1 + 1, Len(k1)), target)
           Cut(x) == IF x = <<>> THEN [ok |-> FALSE, at0 |-> r.at0, at1 |-> r.at1, pairs |-> r.pairs]
                     ELSE [ok |-> TRUE, at0 |-> r.at0 + x[1], at1 |-> r.at1 + x[2],
                           pairs |-> Append(r.pairs, Task(r.at0 + 1, r.at0 + x[1], r.at1 + 1, r.at1 + x[2]))]
<1>1. ChunkPairsRound(k0, k1, upto, r) = IF ~r.ok \/ target <= 0 THEN r ELSE Only({Cut(x) : x \in {b}})
  BY Zenon DEF ChunkPairsRound
<1>2. target \in Int /\ r.at0 \in Int /\ r.at1 \in Int /\ r.pairs \in Seq(Tasks)
  BY DEF IsPairs
<1>3. ASSUME ~(target <= 0) PROVE IsBoundary(b)
  <2>1. target \in Nat
    BY <1>2, <1>3
  <2>2. Len(SubSeq(k0, r.at0 + 1, Len(k0))) \in Nat /\ Len(SubSeq(k1, r.at1 + 1, Len(k1))) \in Nat
    <3>1. r.at0 + 1 \in Int /\ r.at1 + 1 \in Int /\ Len(k0) \in Int /\ Len(k1) \in Int
      BY <1>2
    <3> QED
      BY <3>1, SubSeqIsSeq
  <2> HIDE DEF target
  <2> QED
    BY <2>1, <2>2, BoundariesType
<1> HIDE DEF target, b
<1>4. Only({Cut(x) : x \in {b}}) = Cut(b)
  <2> HIDE DEF Cut
  <2>1. {Cut(x) : x \in {b}} = {Cut(b)}
    OBVIOUS
  <2> QED
    BY <2>1, OnlyOf
<1>5. ASSUME IsBoundary(b) PROVE IsPairs(Cut(b))
  <2>1. CASE b = <<>>
    <3>1. Cut(b) = [ok |-> FALSE, at0 |-> r.at0, at1 |-> r.at1, pairs |-> r.pairs]
      BY <2>1
    <3> QED
      BY <1>2, <3>1 DEF IsPairs
  <2>2. CASE b # <<>>
    <3> DEFINE t == Task(r.at0 + 1, r.at0 + b[1], r.at1 + 1, r.at1 + b[2])
    <3>1. b[1] \in Int /\ b[2] \in Int
      BY <1>5, <2>2 DEF IsBoundary
    <3>2. r.at0 + 1 \in Int /\ r.at1 + 1 \in Int /\ r.at0 + b[1] \in Int /\ r.at1 + b[2] \in Int
      <4>1. 1 \in Int /\ \A x, y \in Int : x + y \in Int
        OBVIOUS
      <4> QED
        BY <1>2, <3>1, <4>1, Zenon
    <3>3. t \in Tasks
      <4>1. \A w, x, y, z \in Int : Task(w, x, y, z) \in Tasks
        BY TaskType
      <4> QED
        BY <3>2, <4>1, Zenon
    <3>4. Cut(b) = [ok |-> TRUE, at0 |-> r.at0 + b[1], at1 |-> r.at1 + b[2], pairs |-> Append(r.pairs, t)]
      BY <2>2
    <3> HIDE DEF t
    <3>5. Append(r.pairs, t) \in Seq(Tasks)
      BY <1>2, <3>3, AppendProperties
    <3> HIDE DEF Cut
    <3> QED
      BY <3>2, <3>4, <3>5 DEF IsPairs
  <2> QED
    BY <2>1, <2>2
<1> HIDE DEF Cut
<1> QED
  BY <1>1, <1>3, <1>4, <1>5

\* merge_chunk_pairs makes tasks.
LEMMA ChunkPairsType ==
    ASSUME NEW k0, NEW k1, Len(k0) \in Nat, Len(k1) \in Nat, NEW count \in Nat
    PROVE  MergeChunkPairs(k0, k1, count).pairs \in Seq(Tasks)
<1> DEFINE n == Len(k0) + Len(k1)
           m == Max({1, count}) - 1
<1>1. PICK F : PairsRun(F, k0, k1, count)
  BY PairsLoop
<1> DEFINE r == F[m]
           t == Task(r.at0 + 1, Len(k0), r.at1 + 1, Len(k1))
           S == {i \in Nat : i <= m => IsPairs(F[i])}
<1>2. m \in Nat /\ (m > 0 => count # 0)
  <2>1. Max({1, count}) \in {1, count} /\ \A k \in {1, count} : k <= Max({1, count})
    <3> DEFINE T == {1, count}
    <3>1. T \in SUBSET Nat /\ T # {} /\ count + 1 \in Nat /\ \A k \in T : k <= count + 1
      OBVIOUS
    <3> HIDE DEF T
    <3>2. Max(T) \in T /\ \A k \in T : k <= Max(T)
      BY <3>1, MaxOf
    <3> QED
      BY <3>2 DEF T
  <2> QED
    BY <2>1
<1> HIDE DEF m
<1>3. 0 \in S
  <2>1. F[0] = [ok |-> TRUE, at0 |-> 0, at1 |-> 0, pairs |-> <<>>]
    BY <1>1 DEF PairsRun
  <2>2. <<>> \in Seq(Tasks)
    BY EmptySeq
  <2>3. F[0].at0 = 0 /\ F[0].at1 = 0 /\ F[0].pairs = <<>> /\ F[0].ok = TRUE
    BY <2>1
  <2>4. IsPairs(F[0])
    BY <2>1, <2>2, <2>3 DEF IsPairs
  <2> QED
    BY <2>4
<1>4. ASSUME NEW i \in Nat, i \in S PROVE i + 1 \in S
  <2> SUFFICES ASSUME i + 1 <= m PROVE IsPairs(F[i + 1])
    OBVIOUS
  <2>1. IsPairs(F[i])
    BY <1>2, <1>4
  <2>2. count \in Nat \ {0}
    BY <1>2
  <2>3. n * (i + 1) \in Int
    OBVIOUS
  <2>4. (n * (i + 1)) \div count \in Int
    <3> DEFINE a == n * (i + 1)
    <3> HIDE DEF a
    <3>1. a \in Int
      BY <2>3 DEF a
    <3>2. a \div count \in Int
      BY <2>2, <3>1
    <3> QED
      BY <3>2 DEF a
  <2>5. F[i + 1] = ChunkPairsRound(k0, k1, (n * (i + 1)) \div count, F[i])
    BY <1>1, Zenon DEF PairsRun
  <2> HIDE DEF n
  <2> QED
    BY <2>1, <2>4, <2>5, ChunkPairsRoundType
<1>5. IsPairs(r)
  <2>1. \A i \in Nat : i \in S
    <3> HIDE DEF S
    <3> QED
      BY <1>3, <1>4, SetInduction
  <2> QED
    BY <1>2, <2>1
<1>6. \/ MergeChunkPairs(k0, k1, count) = r
      \/ MergeChunkPairs(k0, k1, count) = [ok |-> r.ok, at0 |-> r.at0, at1 |-> r.at1, pairs |-> Append(r.pairs, t)]
  BY <1>1, Zenon DEF PairsRun, m
<1> HIDE DEF r
<1>7. t \in Tasks
  <2>1. r.at0 + 1 \in Int /\ r.at1 + 1 \in Int /\ Len(k0) \in Int /\ Len(k1) \in Int
    BY <1>5 DEF IsPairs
  <2> QED
    BY <2>1, TaskType
<1> HIDE DEF t
<1>8. Append(r.pairs, t) \in Seq(Tasks)
  BY <1>5, <1>7, AppendProperties DEF IsPairs
<1> QED
  BY <1>5, <1>6, <1>8 DEF IsPairs

-----------------------------------------------------------------------------
(* Plans                                                                   *)

\* div_ceil counts the chunks of a run: none of them is empty.
LEMMA CeilDivFacts ==
    ASSUME NEW m \in Nat, NEW d \in Nat \ {0}
    PROVE  /\ CeilDiv(m, d) \in Nat
           /\ m > 0 => CeilDiv(m, d) > 0
           /\ m <= d => CeilDiv(m, d) <= 1
           /\ \A i \in 1 .. CeilDiv(m, d) : (i - 1) * d < m
<1> DEFINE c == (m + d - 1) \div d
           r == (m + d - 1) % d
<1>1. c \in Int /\ r \in 0 .. (d - 1) /\ m + d - 1 = d * c + r
  OBVIOUS
<1>2. CeilDiv(m, d) = c
  BY DEF CeilDiv
<1> HIDE DEF c, r
<1>3. c >= 0
  <2> SUFFICES ASSUME c <= -1 PROVE FALSE
    BY <1>1
  <2>1. d * c <= d * (-1)
    BY <1>1
  <2> QED
    BY <1>1, <2>1
<1>4. ASSUME m > 0 PROVE c > 0
  <2> SUFFICES ASSUME c = 0 PROVE FALSE
    BY <1>1, <1>3
  <2>1. d * c = 0
    OBVIOUS
  <2> QED
    BY <1>1, <1>4, <2>1
<1>5. ASSUME m <= d PROVE c <= 1
  <2> SUFFICES ASSUME c >= 2 PROVE FALSE
    BY <1>1
  <2>1. d * c >= d * 2
    BY <1>1
  <2> QED
    BY <1>1, <1>5, <2>1
<1>6. ASSUME NEW i \in 1 .. c PROVE (i - 1) * d < m
  <2>1. i - 1 \in Int /\ i - 1 <= c - 1
    BY <1>1, <1>6
  <2>2. (i - 1) * d <= (c - 1) * d
    BY <1>1, <2>1
  <2>3. (c - 1) * d = d * c - d
    BY <1>1
  <2>4. (i - 1) * d \in Int
    BY <2>1
  <2> QED
    BY <1>1, <2>2, <2>3, <2>4
<1> QED
  BY <1>1, <1>2, <1>3, <1>4, <1>5, <1>6

\* It gives a number.
LEMMA CeilDivType ==
    ASSUME NEW m \in Nat, NEW d \in Nat \ {0}
    PROVE  CeilDiv(m, d) \in Nat
BY CeilDivFacts

\* It is not 0 for a run that has elements.
LEMMA CeilDivPositive ==
    ASSUME NEW m \in Nat \ {0}, NEW d \in Nat \ {0}
    PROVE  CeilDiv(m, d) \in Nat \ {0}
<1>1. CeilDiv(m, d) \in Nat /\ CeilDiv(m, d) > 0
  BY CeilDivFacts
<1> QED
  BY <1>1

\* It is at most 1 for a run no longer than a chunk.
LEMMA CeilDivSmall ==
    ASSUME NEW m \in Nat, NEW d \in Nat \ {0}, m <= d
    PROVE  CeilDiv(m, d) <= 1
BY CeilDivFacts

\* The state a plan is made from.
Planned ==
    /\ ctx \in Contexts
    /\ IsSeq(parts[1]) /\ IsSeq(parts[2])

\* The sizes of a configuration.
LEMMA ContextType ==
    ASSUME NEW c \in Contexts
    PROVE  /\ c.threads \in Nat \ {0} /\ c.chunk_size \in Nat \ {0}
           /\ c.multithreading_threshold \in Nat
           /\ c.work_item_min_size \in Nat \ {0} /\ c.work_item_max_size \in Nat \ {0}
BY StatevectorAssumption DEF StatevectorAssumption

\* The lengths of the two parts are numbers while a step is planned.
LEMMA LengthsType ==
    ASSUME Planned
    PROVE  Len(parts[1]) \in Nat /\ Len(parts[2]) \in Nat /\ TotalLen \in Nat
<1>1. IsSeq(parts[1]) /\ IsSeq(parts[2])
  BY DEF Planned
<1>2. Len(parts[1]) \in Nat /\ Len(parts[2]) \in Nat
  BY <1>1, SeqFacts
<1>3. \A a, b \in Nat : a + b \in Nat
  OBVIOUS
<1> QED
  BY <1>2, <1>3, Zenon DEF TotalLen

\* for_common: a number of chunks.
LEMMA ForCommonType ==
    ASSUME Planned, NEW size \in Nat \ {0}
    PROVE  ForCommon(size).count \in Nat
<1> DEFINE n == TotalLen * ElementSize
           per == CeilDiv(n, size * ctx.threads)
           f == ForCommon(size)
<1>1. \/ f = [pool |-> FALSE, count |-> 1]
      \/ f = [pool |-> FALSE, count |-> CeilDiv(n, size)]
      \/ f = [pool |-> TRUE, count |-> CeilDiv(n, ctx.work_item_min_size)]
      \/ f = [pool |-> TRUE, count |-> ctx.threads]
      \/ f = [pool |-> TRUE, count |-> ctx.threads * per]
  BY DEF ForCommon
<1>2. ctx.threads \in Nat \ {0} /\ ctx.work_item_min_size \in Nat \ {0}
  BY ContextType DEF Planned
<1>3. TotalLen \in Nat /\ ElementSize \in Nat
  BY LengthsType, StatevectorAssumption DEF StatevectorAssumption
<1>4. n \in Nat
  BY <1>3
<1>5. size * ctx.threads \in Nat \ {0}
  BY <1>2
<1> HIDE DEF n
<1>6. CeilDiv(n, size) \in Nat /\ CeilDiv(n, ctx.work_item_min_size) \in Nat /\ per \in Nat
  BY <1>2, <1>4, <1>5, CeilDivType
<1> HIDE DEF per, f
<1>7. ctx.threads * per \in Nat
  BY <1>2, <1>6
<1> QED
  BY <1>1, <1>2, <1>6, <1>7 DEF f

\* slice::chunks: tasks, and of the first run never shorter than nothing.
LEMMA ChunksType ==
    ASSUME NEW p, NEW len \in Nat, NEW c \in Nat \ {0}
    PROVE  /\ Chunks(p, len, c) \in Seq(Tasks)
           /\ p = 1 => \A i \in DOMAIN Chunks(p, len, c) :
                          Chunks(p, len, c)[i][1].hi - Chunks(p, len, c)[i][1].lo + 1 \in Nat
<1> DEFINE n == CeilDiv(len, c)
           lo(i) == (i - 1) * c + 1
           hi(i) == Min({i * c, len})
           task(i) == IF p = 1 THEN Task(lo(i), hi(i), 1, 0) ELSE Task(1, 0, lo(i), hi(i))
<1>1. Chunks(p, len, c) = [i \in 1 .. n |-> task(i)]
  BY Zenon DEF Chunks
<1>2. n \in Nat /\ \A i \in 1 .. n : (i - 1) * c < len
  BY CeilDivFacts
<1> HIDE DEF n
<1>3. ASSUME NEW i \in 1 .. n
      PROVE  lo(i) \in Int /\ hi(i) \in Int /\ hi(i) - lo(i) + 1 \in Nat
  <2>1. i \in Nat /\ i * c \in Nat /\ (i - 1) * c \in Nat /\ i * c = (i - 1) * c + c
    BY <1>2
  <2> DEFINE T == {i * c, len}
  <2>2. T \in SUBSET Nat /\ T # {}
    BY <2>1
  <2> HIDE DEF T
  <2>3. Min(T) \in T
    BY <2>2, MinOf
  <2>4. hi(i) \in {i * c, len}
    BY <2>3 DEF T
  <2>5. (i - 1) * c < len
    BY <1>2
  <2> HIDE DEF hi
  <2> QED
    BY <2>1, <2>4, <2>5
<1> HIDE DEF lo, hi
<1>4. \A i \in 1 .. n : task(i) \in Tasks
  BY <1>3, TaskType
<1>5. \A i \in 1 .. n : p = 1 => task(i)[1].hi - task(i)[1].lo + 1 \in Nat
  BY <1>3 DEF Task
<1> HIDE DEF task
<1>6. Chunks(p, len, c) \in Seq(Tasks)
  BY <1>1, <1>2, <1>4, SeqDef
<1> QED
  BY <1>1, <1>5, <1>6

\* for_chunks: sizes of chunks.
LEMMA ForChunksType ==
    ASSUME Planned, NEW f, f.count \in Nat
    PROVE  ForChunks(f).size[1] \in Nat /\ ForChunks(f).size[2] \in Nat
<1> DEFINE n0 == Len(parts[1])
           n1 == Len(parts[2])
           n == n0 + n1
           Fits(d) == CeilDiv(n0, CeilDiv(n, d)) + CeilDiv(n1, CeilDiv(n, d)) <= f.count
           chunk == CHOOSE d \in 1 .. f.count :
                       /\ CeilDiv(n0, CeilDiv(n, d)) + CeilDiv(n1, CeilDiv(n, d)) <= f.count
                       /\ \A e \in (d + 1) .. f.count :
                             CeilDiv(n0, CeilDiv(n, e)) + CeilDiv(n1, CeilDiv(n, e)) > f.count
           size(m) == CeilDiv(m, CeilDiv(m, CeilDiv(n, chunk)))
<1>1. ForChunks(f) =
          IF f.count <= 2 THEN [pool |-> FALSE, size |-> <<n, n>>]
          ELSE IF n0 = 0 \/ n1 = 0 THEN [pool |-> f.pool, size |-> <<CeilDiv(n, f.count), CeilDiv(n, f.count)>>]
          ELSE [pool |-> f.pool, size |-> <<size(n0), size(n1)>>]
  BY Zenon DEF ForChunks
<1>2. n0 \in Nat /\ n1 \in Nat
  BY LengthsType
<1> HIDE DEF n0, n1
<1>3. ASSUME f.count > 2 PROVE CeilDiv(n, f.count) \in Nat
  <2>1. n \in Nat /\ f.count \in Nat \ {0}
    BY <1>2, <1>3
  <2> QED
    BY <2>1, CeilDivType
<1>4. ASSUME f.count > 2, n0 # 0, n1 # 0 PROVE size(n0) \in Nat /\ size(n1) \in Nat
  <2>1. n \in Nat \ {0} /\ n0 \in Nat \ {0} /\ n1 \in Nat \ {0}
    BY <1>2, <1>4
  <2>2. \A d \in 1 .. f.count : CeilDiv(n, d) \in Nat \ {0}
    BY <2>1, CeilDivPositive
  <2>3. \A d \in 1 .. f.count : CeilDiv(n0, CeilDiv(n, d)) \in Nat /\ CeilDiv(n1, CeilDiv(n, d)) \in Nat
    BY <2>1, <2>2, CeilDivType
  <2>4. chunk \in 1 .. f.count
    <3> DEFINE D == {d \in 1 .. f.count : Fits(d)}
    <3>1. CeilDiv(n, 1) = n
      BY <2>1 DEF CeilDiv
    <3>2. CeilDiv(n0, n) <= 1 /\ CeilDiv(n1, n) <= 1 /\ CeilDiv(n0, n) \in Nat /\ CeilDiv(n1, n) \in Nat
      <4>1. n0 <= n /\ n1 <= n
        BY <2>1
      <4> HIDE DEF n
      <4> QED
        BY <2>1, <4>1, CeilDivType, CeilDivSmall
    <3>3. 1 \in D
      BY <1>4, <3>1, <3>2
    <3>4. D \in SUBSET Nat /\ D # {} /\ \A k \in D : k <= f.count
      BY <3>3
    <3>5. Max(D) \in D /\ \A k \in D : k <= Max(D)
      <4> HIDE DEF D
      <4> QED
        BY <3>4, MaxOf
    <3>6. PICK m \in 1 .. f.count : Fits(m) /\ \A k \in D : k <= m
      BY <3>5
    <3>7. \A e \in (m + 1) .. f.count : ~Fits(e)
      BY <3>6
    <3>8. \A e \in (m + 1) .. f.count :
              CeilDiv(n0, CeilDiv(n, e)) + CeilDiv(n1, CeilDiv(n, e)) > f.count
      <4> TAKE e \in (m + 1) .. f.count
      <4>1. e \in 1 .. f.count /\ ~Fits(e)
        BY <3>6, <3>7
      <4> QED
        BY <2>3, <4>1
    <3> HIDE DEF n, D
    <3> QED
      BY <3>6, <3>8, Zenon
  <2> HIDE DEF chunk, n
  <2>5. CeilDiv(n, chunk) \in Nat \ {0}
    BY <2>2, <2>4
  <2>6. CeilDiv(n0, CeilDiv(n, chunk)) \in Nat \ {0} /\ CeilDiv(n1, CeilDiv(n, chunk)) \in Nat \ {0}
    BY <2>1, <2>5, CeilDivPositive
  <2> QED
    BY <2>1, <2>6, CeilDivType
<1>5. n \in Nat
  BY <1>2
<1> HIDE DEF size, n
<1>6. CASE f.count <= 2
  BY <1>1, <1>5, <1>6
<1>7. CASE f.count > 2 /\ (n0 = 0 \/ n1 = 0)
  BY <1>1, <1>3, <1>7
<1>8. CASE f.count > 2 /\ n0 # 0 /\ n1 # 0
  BY <1>1, <1>4, <1>8
<1> QED
  BY <1>6, <1>7, <1>8

\* The plans of the steps that write: tasks, and for an import the lengths it
\* takes from them.
LEMMA PlanMergeType ==
    ASSUME Planned, NEW q, PlanMerge(q).ok
    PROVE  PlanMerge(q).tasks \in Seq(Tasks)
<1> DEFINE f == ForCommon(ctx.work_item_max_size)
           k0 == Keys(parts[1], q)
           k1 == Keys(parts[2], q)
           m == MergeChunkPairs(k0, k1, f.count)
           Plan(x) == IF ~x.ok THEN [ok |-> FALSE] ELSE [ok |-> TRUE, pool |-> f.pool, tasks |-> x.pairs]
<1>1. PlanMerge(q) = Only({Plan(x) : x \in {m}})
  BY Zenon DEF PlanMerge
<1>2. f.count \in Nat
  BY ForCommonType, ContextType DEF Planned
<1>3. Len(k0) \in Nat /\ Len(k1) \in Nat
  <2>1. IsSeq(parts[1]) /\ IsSeq(parts[2])
    BY DEF Planned
  <2>2. ASSUME NEW run, IsSeq(run) PROVE Len(Keys(run, q)) \in Nat
    <3>1. Len(run) \in Nat /\ DOMAIN run = 1 .. Len(run)
      BY <2>2, SeqFacts
    <3> DEFINE n == Len(run)
               k == Keys(run, q)
    <3>2. k = [i \in 1 .. n |-> k[i]]
      BY <3>1 DEF Keys
    <3> HIDE DEF n, k
    <3>3. Len(k) = n
      BY <3>1, <3>2, FunctionIsSeq DEF n
    <3> QED
      BY <3>1, <3>3 DEF n, k
  <2> QED
    BY <2>1, <2>2
<1> HIDE DEF f, k0, k1
<1>4. m.pairs \in Seq(Tasks)
  BY <1>2, <1>3, ChunkPairsType
<1> HIDE DEF m
<1>5. Only({Plan(x) : x \in {m}}) = Plan(m)
  <2> HIDE DEF Plan
  <2>1. {Plan(x) : x \in {m}} = {Plan(m)}
    OBVIOUS
  <2> QED
    BY <2>1, OnlyOf
<1>6. Plan(m).ok => Plan(m).tasks = m.pairs
  OBVIOUS
<1> HIDE DEF Plan
<1> QED
  BY <1>1, <1>4, <1>5, <1>6

\* The plan of a step is a sequence of tasks.
LEMMA PlanChunksType ==
    ASSUME Planned, NEW f, f.size[1] \in Nat, f.size[2] \in Nat, PlanChunks(f).ok
    PROVE  PlanChunks(f).tasks \in Seq(Tasks)
<1> DEFINE a == Chunks(1, Len(parts[1]), f.size[1])
           b == Chunks(2, Len(parts[2]), f.size[2])
<1>1. PlanChunks(f) = IF 0 \in {f.size[1], f.size[2]} THEN [ok |-> FALSE]
                      ELSE [ok |-> TRUE, pool |-> f.pool, tasks |-> a \o b]
  BY DEF PlanChunks
<1> HIDE DEF a, b
<1>2. f.size[1] \in Nat \ {0} /\ f.size[2] \in Nat \ {0} /\ PlanChunks(f).tasks = a \o b
  BY <1>1
<1>3. a \in Seq(Tasks) /\ b \in Seq(Tasks)
  <2>1. Len(parts[1]) \in Nat /\ Len(parts[2]) \in Nat
    BY LengthsType
  <2> QED
    BY <1>2, <2>1, ChunksType DEF a, b
<1> QED
  BY <1>2, <1>3, ConcatProperties

\* Every step that fills windows is cut into tasks.
LEMMA PlanType ==
    ASSUME Planned, NEW step \in Writes, step = "dense" => call.data \in Imports, PlanOf(step).ok
    PROVE  /\ PlanOf(step).tasks \in Seq(Tasks)
           /\ step = "import" => \A i \in DOMAIN PlanOf(step).tasks :
                 PlanOf(step).tasks[i][1].hi - PlanOf(step).tasks[i][1].lo + 1 \in Nat
<1>1. CASE step = "repart"
  <2>1. PlanOf(step) = PlanMerge(NoQubit)
    BY <1>1 DEF PlanOf
  <2> QED
    BY <1>1, <2>1, PlanMergeType
<1>2. CASE step \in {"fixup", "u4"}
  <2>1. PlanOf(step) = PlanMerge(call.q)
    BY <1>2 DEF PlanOf
  <2> QED
    BY <1>2, <2>1, PlanMergeType
<1>3. CASE step = "measure"
  <2> DEFINE f == ForChunks(ForCommon(ctx.work_item_max_size))
  <2>1. PlanOf(step) = PlanChunks(f)
    BY <1>3 DEF PlanOf
  <2>2. f.size[1] \in Nat /\ f.size[2] \in Nat
    BY ForCommonType, ForChunksType, ContextType DEF Planned
  <2> HIDE DEF f
  <2> QED
    BY <1>3, <2>1, <2>2, PlanChunksType
<1>4. CASE step = "import"
  <2> DEFINE c == Chunks(1, TotalLen, ImportChunk)
  <2>1. PlanOf(step) = [ok |-> TRUE, pool |-> TRUE, tasks |-> c]
    BY <1>4 DEF PlanOf
  <2>2. TotalLen \in Nat /\ ImportChunk \in Nat \ {0}
    BY LengthsType, StatevectorAssumption DEF StatevectorAssumption
  <2>3. c \in Seq(Tasks) /\ \A i \in DOMAIN c : c[i][1].hi - c[i][1].lo + 1 \in Nat
    BY <2>2, ChunksType
  <2> HIDE DEF c
  <2>4. PlanOf(step).tasks = c
    BY <2>1
  <2> QED
    BY <2>3, <2>4
<1>5. CASE step = "dense"
  <2> DEFINE c == Chunks(1, Len(call.data), ImportChunk)
  <2>1. PlanOf(step) = [ok |-> TRUE, pool |-> TRUE, tasks |-> c]
    BY <1>5 DEF PlanOf
  <2>2. call.data \in Seq(Int \X Int) /\ ImportChunk \in Nat \ {0}
    BY <1>5, StatevectorAssumption DEF StatevectorAssumption
  <2>3. Len(call.data) \in Nat
    BY <2>2, LenProperties
  <2>4. c \in Seq(Tasks)
    BY <2>2, <2>3, ChunksType
  <2> HIDE DEF c
  <2>5. PlanOf(step).tasks = c
    BY <2>1
  <2> QED
    BY <1>5, <2>4, <2>5
<1> QED
  BY <1>1, <1>2, <1>3, <1>4, <1>5 DEF Writes, Counted

-----------------------------------------------------------------------------
(* Counting.  What a counting task returns is what the writing task of the *)
(* same chunk writes.                                                      *)

\* The first n elements of c at which qubit q reads v.
Reads(e, q, v) == (q \in e.bits) = v
UpTo(c, n, q, v) == {j \in 1 .. n : Reads(c[j], q, v)}

\* The first n elements that read v are finitely many.
LEMMA UpToFinite ==
    ASSUME NEW c, NEW n \in Nat, NEW q, NEW v
    PROVE  /\ IsFiniteSet(UpTo(c, n, q, v))
           /\ Cardinality(UpTo(c, n, q, v)) \in Nat
<1>1. IsFiniteSet(1 .. n)
  BY FS_Interval
<1>2. UpTo(c, n, q, v) \subseteq 1 .. n
  BY DEF UpTo
<1>3. IsFiniteSet(UpTo(c, n, q, v))
  BY <1>1, <1>2, FS_Subset
<1> QED
  BY <1>3, FS_CardinalityType

\* One more element is one more if it reads v.
LEMMA UpToStep ==
    ASSUME NEW c, NEW n \in Nat, NEW q, NEW v
    PROVE  Cardinality(UpTo(c, n + 1, q, v))
             = Cardinality(UpTo(c, n, q, v)) + IF Reads(c[n + 1], q, v) THEN 1 ELSE 0
<1> DEFINE A == UpTo(c, n, q, v)
           B == UpTo(c, n + 1, q, v)
<1>1. IsFiniteSet(A) /\ Cardinality(A) \in Nat
  BY UpToFinite
<1>2. CASE Reads(c[n + 1], q, v)
  <2>1. B = A \cup {n + 1} /\ n + 1 \notin A
    BY <1>2 DEF UpTo
  <2>2. Cardinality(A \cup {n + 1}) = Cardinality(A) + 1
    <3> HIDE DEF A, B
    <3> QED
      BY <1>1, <2>1, FS_AddElement
  <2> QED
    BY <1>1, <1>2, <2>1, <2>2
<1>3. CASE ~Reads(c[n + 1], q, v)
  <2>1. B = A
    BY <1>3 DEF UpTo
  <2> QED
    BY <1>1, <1>3, <2>1
<1> QED
  BY <1>2, <1>3

\* What is counted so far does not depend on what is appended.
LEMMA UpToAppend ==
    ASSUME NEW s, IsSeq(s), NEW e, NEW q, NEW v
    PROVE  Cardinality(UpTo(Append(s, e), Len(s) + 1, q, v))
             = Cardinality(UpTo(s, Len(s), q, v)) + IF Reads(e, q, v) THEN 1 ELSE 0
<1> DEFINE t == Append(s, e)
           n == Len(s)
<1>1. n \in Nat
  BY SeqFacts
<1>2. (\A i \in 1 .. n : t[i] = s[i]) /\ t[n + 1] = e
  BY AppendIsSeq
<1> HIDE DEF t, n
<1>3. UpTo(t, n, q, v) = UpTo(s, n, q, v)
  BY <1>2 DEF UpTo
<1>4. Cardinality(UpTo(t, n + 1, q, v)) = Cardinality(UpTo(s, n, q, v)) + IF Reads(e, q, v) THEN 1 ELSE 0
  BY <1>1, <1>2, <1>3, UpToStep
<1> QED
  BY <1>4 DEF t, n

\* Where merge_distinct stands after k rounds.
IsMerge(s, c0, c1, k, q, v) ==
    /\ s.n0 \in 0 .. Len(c0) /\ s.n1 \in 0 .. Len(c1) /\ s.n0 + s.n1 = k
    /\ IsSeq(s.items) /\ Len(s.items) = k
    /\ Cardinality(UpTo(s.items, k, q, v)) = Cardinality(UpTo(c0, s.n0, q, v)) + Cardinality(UpTo(c1, s.n1, q, v))

\* A round of merge_distinct writes one element and counts it right.
LEMMA DistinctRoundMerges ==
    ASSUME NEW c0, NEW c1, IsSeq(c0), IsSeq(c1), NEW mask, NEW q, NEW v, NEW k \in Nat,
           k < Len(c0) + Len(c1), NEW s, IsMerge(s, c0, c1, k, q, v)
    PROVE  IsMerge(DistinctRound(c0, c1, mask, s), c0, c1, k + 1, q, v)
<1> DEFINE n0 == s.n0
           n1 == s.n1
           m0 == Len(c0)
           m1 == Len(c1)
           r == DistinctRound(c0, c1, mask, s)
           x == Cardinality(UpTo(s.items, k, q, v))
           x0 == Cardinality(UpTo(c0, n0, q, v))
           x1 == Cardinality(UpTo(c1, n1, q, v))
<1>1. /\ n0 \in 0 .. m0 /\ n1 \in 0 .. m1 /\ n0 + n1 = k
      /\ IsSeq(s.items) /\ Len(s.items) = k /\ x = x0 + x1
  BY DEF IsMerge
<1>2. m0 \in Nat /\ m1 \in Nat
  BY SeqFacts
<1>3. n0 \in Nat /\ n1 \in Nat
  <2> HIDE DEF n0, n1, m0, m1, x, x0, x1
  <2> QED
    BY <1>1, <1>2
<1>4. x0 \in Nat /\ x1 \in Nat
  BY <1>3, UpToFinite
<1> DEFINE take0 == n0 < m0 /\ (n1 = m1 \/ Rank[c0[n0 + 1].bits \ {mask}] <= Rank[c1[n1 + 1].bits \ {mask}])
<1>5. CASE take0
  <2> DEFINE e == c0[n0 + 1]
  <2>1. r.n0 = n0 + 1 /\ r.n1 = n1 /\ r.items = Append(s.items, e)
    BY <1>5 DEF DistinctRound
  <2>2. n0 < m0
    BY <1>5
  <2> HIDE DEF r, take0
  <2>3. IsSeq(r.items) /\ Len(r.items) = k + 1
    BY <1>1, <2>1, AppendIsSeq
  <2>4. Cardinality(UpTo(r.items, k + 1, q, v)) = x + IF Reads(e, q, v) THEN 1 ELSE 0
    BY <1>1, <2>1, UpToAppend
  <2>5. Cardinality(UpTo(c0, n0 + 1, q, v)) = x0 + IF Reads(e, q, v) THEN 1 ELSE 0
    BY <1>3, UpToStep
  <2> HIDE DEF x, x0, x1, e, n0, n1, m0, m1
  <2>6. /\ n0 + 1 \in 0 .. m0 /\ n1 \in 0 .. m1 /\ (n0 + 1) + n1 = k + 1
        /\ Cardinality(UpTo(r.items, k + 1, q, v)) = Cardinality(UpTo(c0, n0 + 1, q, v)) + x1
    BY <1>1, <1>2, <1>3, <1>4, <2>2, <2>4, <2>5
  <2> QED
    BY <2>1, <2>3, <2>6 DEF IsMerge, x1, m0, m1, n0, n1, r
<1>6. CASE ~take0
  <2> DEFINE e == c1[n1 + 1]
  <2>1. r.n0 = n0 /\ r.n1 = n1 + 1 /\ r.items = Append(s.items, e)
    BY <1>6 DEF DistinctRound
  <2>2. n1 < m1
    <3>1. ~(n0 < m0) \/ n1 # m1
      BY <1>6
    <3>2. k < m0 + m1
      OBVIOUS
    <3> HIDE DEF x, x0, x1, n0, n1, m0, m1, take0
    <3> QED
      BY <1>1, <1>2, <1>3, <3>1, <3>2
  <2> HIDE DEF r, take0
  <2>3. IsSeq(r.items) /\ Len(r.items) = k + 1
    BY <1>1, <2>1, AppendIsSeq
  <2>4. Cardinality(UpTo(r.items, k + 1, q, v)) = x + IF Reads(e, q, v) THEN 1 ELSE 0
    BY <1>1, <2>1, UpToAppend
  <2>5. Cardinality(UpTo(c1, n1 + 1, q, v)) = x1 + IF Reads(e, q, v) THEN 1 ELSE 0
    BY <1>3, UpToStep
  <2> HIDE DEF x, x0, x1, e, n0, n1, m0, m1
  <2>6. /\ n0 \in 0 .. m0 /\ n1 + 1 \in 0 .. m1 /\ n0 + (n1 + 1) = k + 1
        /\ Cardinality(UpTo(r.items, k + 1, q, v)) = x0 + Cardinality(UpTo(c1, n1 + 1, q, v))
    BY <1>1, <1>2, <1>3, <1>4, <2>2, <2>4, <2>5
  <2> QED
    BY <2>1, <2>3, <2>6 DEF IsMerge, x0, m0, m1, n0, n1, r
<1> QED
  BY <1>5, <1>6

\* merge_distinct loses nothing: as many elements read v as in the two runs.
LEMMA MergeDistinctReads ==
    ASSUME NEW c0, NEW c1, IsSeq(c0), IsSeq(c1), NEW mask, NEW q, NEW v
    PROVE  /\ IsSeq(MergeDistinct(c0, c1, mask))
           /\ Len(MergeDistinct(c0, c1, mask)) = Len(c0) + Len(c1)
           /\ Cardinality(Reading(MergeDistinct(c0, c1, mask), q, v))
                = Cardinality(Reading(c0, q, v)) + Cardinality(Reading(c1, q, v))
<1> DEFINE n == Len(c0) + Len(c1)
           m == MergeDistinct(c0, c1, mask)
<1>1. Len(c0) \in Nat /\ Len(c1) \in Nat
  BY SeqFacts
<1>2. n \in Nat
  <2>1. \A a, b \in Nat : a + b \in Nat
    OBVIOUS
  <2> QED
    BY <1>1, <2>1, Zenon
<1>3. PICK F : DistinctRun(F, c0, c1, mask)
  BY DistinctLoop
<1>4. /\ F[0] = [n0 |-> 0, n1 |-> 0, items |-> <<>>]
      /\ \A k \in Nat : F[k + 1] = DistinctRound(c0, c1, mask, F[k])
      /\ m = F[n].items
  BY <1>3, Zenon DEF DistinctRun
<1> DEFINE T == {k \in Nat : k <= n => IsMerge(F[k], c0, c1, k, q, v)}
<1>5. 0 \in T
  <2>1. \A c : UpTo(c, 0, q, v) = {}
    BY DEF UpTo
  <2>2. Cardinality({}) = 0
    BY FS_EmptySet
  <2>3. 0 \in 0 .. Len(c0) /\ 0 \in 0 .. Len(c1)
    BY <1>1
  <2> HIDE DEF n
  <2>4. F[0].n0 = 0 /\ F[0].n1 = 0 /\ F[0].items = <<>>
    BY <1>4
  <2>5. 0 + 0 = 0
    OBVIOUS
  <2>6. IsMerge(F[0], c0, c1, 0, q, v)
    BY <2>1, <2>2, <2>3, <2>4, <2>5, EmptyIsSeq, Zenon DEF IsMerge
  <2> QED
    BY <2>6
<1>6. \A k \in Nat : k \in T => k + 1 \in T
  <2> TAKE k \in Nat
  <2> HAVE k \in T
  <2> SUFFICES ASSUME k + 1 <= n PROVE IsMerge(F[k + 1], c0, c1, k + 1, q, v)
    OBVIOUS
  <2>1. k <= n /\ k < n
    <3> HIDE DEF n
    <3> QED
      BY <1>2
  <2>2. IsMerge(F[k], c0, c1, k, q, v)
    BY <2>1
  <2>3. F[k + 1] = DistinctRound(c0, c1, mask, F[k])
    BY <1>4
  <2> QED
    BY <2>1, <2>2, <2>3, DistinctRoundMerges
<1>7. n \in T
  <2> HIDE DEF T, n
  <2> QED
    BY <1>2, <1>5, <1>6, SetInduction
<1>8. IsMerge(F[n], c0, c1, n, q, v)
  <2> HIDE DEF n
  <2> QED
    BY <1>2, <1>7
<1> DEFINE a == F[n].n0
           b == F[n].n1
           x0 == Len(c0)
           x1 == Len(c1)
<1>9. a \in 0 .. x0 /\ b \in 0 .. x1 /\ a + b = x0 + x1
  BY <1>8 DEF IsMerge
<1>10. a = Len(c0) /\ b = Len(c1)
  <2>1. a = x0 /\ b = x1
    <3>1. x0 \in Nat /\ x1 \in Nat
      BY <1>1
    <3> HIDE DEF a, b, x0, x1
    <3> QED
      BY <1>9, <3>1
  <2> QED
    BY <2>1
<1>11. IsSeq(m) /\ Len(m) = n
  BY <1>4, <1>8 DEF IsMerge
<1>12. Cardinality(UpTo(m, n, q, v)) = Cardinality(UpTo(c0, Len(c0), q, v)) + Cardinality(UpTo(c1, Len(c1), q, v))
  BY <1>4, <1>8, <1>10 DEF IsMerge
<1>13. \A c : IsSeq(c) => UpTo(c, Len(c), q, v) = Reading(c, q, v)
  <2> TAKE c
  <2> HAVE IsSeq(c)
  <2>1. DOMAIN c = 1 .. Len(c)
    BY SeqFacts
  <2> QED
    BY <2>1, Zenon DEF UpTo, Reading, Reads
<1> HIDE DEF m
<1>14. UpTo(m, n, q, v) = Reading(m, q, v)
  BY <1>11, <1>13
<1>15. UpTo(c0, Len(c0), q, v) = Reading(c0, q, v) /\ UpTo(c1, Len(c1), q, v) = Reading(c1, q, v)
  BY <1>13
<1> QED
  BY <1>11, <1>12, <1>14, <1>15 DEF m

\* merge_eq returns a sequence.
LEMMA MergeEqIsSeq ==
    ASSUME NEW c0, NEW c1, IsSeq(c0), IsSeq(c1), NEW q
    PROVE  IsSeq(MergeEq(c0, c1, q))
<1> DEFINE n == Len(c0) + Len(c1)
<1>1. n \in Nat
  <2>1. Len(c0) \in Nat /\ Len(c1) \in Nat
    BY SeqFacts
  <2>2. \A a, b \in Nat : a + b \in Nat
    OBVIOUS
  <2> QED
    BY <2>1, <2>2, Zenon
<1>2. PICK F : EqRun(F, c0, c1, q)
  BY EqLoop
<1>3. /\ F[0] = [n0 |-> 0, n1 |-> 0, items |-> <<>>]
      /\ \A k \in Nat : F[k + 1] = EqRound(c0, c1, q, F[k])
      /\ MergeEq(c0, c1, q) = F[n].items
  BY <1>2, Zenon DEF EqRun
<1> DEFINE T == {k \in Nat : IsSeq(F[k].items)}
<1>4. 0 \in T
  <2>1. F[0].items = <<>>
    BY <1>3
  <2> QED
    BY <2>1, EmptyIsSeq
<1>5. \A k \in Nat : k \in T => k + 1 \in T
  <2> TAKE k \in Nat
  <2> HAVE k \in T
  <2>1. \A s : \E e : EqRound(c0, c1, q, s) = s \/ EqRound(c0, c1, q, s).items = Append(s.items, e)
    BY DEF EqRound
  <2>2. F[k + 1] = EqRound(c0, c1, q, F[k])
    BY <1>3
  <2>3. PICK e : F[k + 1] = F[k] \/ F[k + 1].items = Append(F[k].items, e)
    BY <2>1, <2>2
  <2>4. IsSeq(Append(F[k].items, e))
    BY AppendIsSeq
  <2>5. IsSeq(F[k + 1].items)
    BY <2>3, <2>4
  <2> QED
    BY <2>5
<1>6. n \in T
  <2> HIDE DEF T, n
  <2> QED
    BY <1>1, <1>4, <1>5, SetInduction
<1> QED
  BY <1>3, <1>6

\* What is picked is a sequence of as many elements as there are positions.
LEMMA PickIsSeq ==
    ASSUME NEW run, NEW S, IsFiniteSet(S)
    PROVE  /\ Cardinality(S) \in Nat
           /\ IsSeq(Pick(run, S)) /\ Len(Pick(run, S)) = Cardinality(S)
           /\ DOMAIN Pick(run, S) = 1 .. Cardinality(S)
<1> DEFINE n == Cardinality(S)
           f == Pick(run, S)
<1>1. n \in Nat
  BY FS_CardinalityType
<1>2. f = [k \in 1 .. n |-> f[k]]
  BY DEF Pick
<1> HIDE DEF f, n
<1>3. IsSeq(f) /\ Len(f) = n /\ DOMAIN f = 1 .. n
  BY <1>1, <1>2, FunctionIsSeq
<1> QED
  BY <1>1, <1>3 DEF f, n

\* The elements of a run that read v are finitely many.
LEMMA ReadingFinite ==
    ASSUME NEW run, IsSeq(run), NEW q, NEW v
    PROVE  /\ IsFiniteSet(Reading(run, q, v))
           /\ Cardinality(Reading(run, q, v)) \in Nat
<1>1. IsFiniteSet(1 .. Len(run)) /\ DOMAIN run = 1 .. Len(run)
  BY SeqFacts, FS_Interval
<1>2. Reading(run, q, v) \subseteq 1 .. Len(run)
  BY <1>1 DEF Reading
<1>3. IsFiniteSet(Reading(run, q, v))
  BY <1>1, <1>2, FS_Subset
<1> QED
  BY <1>3, FS_CardinalityType

\* The elements that do not read TRUE read FALSE.
LEMMA ReadingSplits ==
    ASSUME NEW run, IsSeq(run), NEW q
    PROVE  /\ Cardinality(Reading(run, q, FALSE)) = Len(run) - Cardinality(Reading(run, q, TRUE))
           /\ Cardinality(Reading(run, q, TRUE)) \in Nat
           /\ Cardinality(Reading(run, q, FALSE)) \in Nat
           /\ Len(run) \in Nat
<1> DEFINE S == 1 .. Len(run)
           T == Reading(run, q, TRUE)
           F == Reading(run, q, FALSE)
<1>1. Len(run) \in Nat /\ DOMAIN run = S
  BY SeqFacts
<1>2. IsFiniteSet(S) /\ Cardinality(S) = Len(run)
  <2>1. \A n \in Nat : IsFiniteSet(1 .. n) /\ Cardinality(1 .. n) = n
    BY FS_Interval
  <2> QED
    BY <1>1, <2>1
<1>3. F = S \ T /\ S \cap T = T
  <2>1. \A k \in DOMAIN run : k \in F <=> k \notin T
    BY DEF Reading
  <2>2. F \subseteq DOMAIN run /\ T \subseteq DOMAIN run
    BY DEF Reading
  <2> HIDE DEF T, F, S
  <2> QED
    BY <1>1, <2>1, <2>2
<1>4. Cardinality(T) \in Nat /\ Cardinality(F) \in Nat
  BY ReadingFinite
<1> HIDE DEF S, T, F
<1>5. Cardinality(F) = Len(run) - Cardinality(T)
  <2>1. Cardinality(S \ T) = Cardinality(S) - Cardinality(S \cap T)
    BY <1>2, FS_Difference
  <2> QED
    BY <1>2, <1>3, <2>1
<1> QED
  BY <1>1, <1>4, <1>5 DEF T, F

\* Writing task and counting task agree.
Agree(count, write) == \A p \in 1 .. 2 : count[p] \in Nat /\ DOMAIN write[p] = 1 .. count[p]

\* do_repartition writes as many elements as its count said.
LEMMA RepartitionAgrees ==
    ASSUME NEW c, IsSeq(c[1]), IsSeq(c[2]), NEW q, NEW mask
    PROVE  Agree(DoRepartitionCount(c, q), DoRepartitionWrite(c, q, mask))
<1> DEFINE m == MergeDistinct(c[1], c[2], mask)
           T(s) == Cardinality(Reading(s, q, TRUE))
           F(s) == Cardinality(Reading(s, q, FALSE))
<1>1. IsSeq(m) /\ Len(m) = Len(c[1]) + Len(c[2]) /\ T(m) = T(c[1]) + T(c[2])
  <2>1. PICK a, b, v : a = c[1] /\ b = c[2] /\ v = TRUE
    OBVIOUS
  <2>2. IsSeq(a) /\ IsSeq(b)
    BY <2>1
  <2>3. /\ IsSeq(MergeDistinct(a, b, mask))
        /\ Len(MergeDistinct(a, b, mask)) = Len(a) + Len(b)
        /\ Cardinality(Reading(MergeDistinct(a, b, mask), q, v))
             = Cardinality(Reading(a, q, v)) + Cardinality(Reading(b, q, v))
    BY <2>2, MergeDistinctReads
  <2> QED
    BY <2>1, <2>3, Zenon
<1>2. DoRepartitionCount(c, q) = <<Len(c[1]) + Len(c[2]) - (T(c[1]) + T(c[2])), T(c[1]) + T(c[2])>>
  BY Zenon DEF DoRepartitionCount
<1>3. DoRepartitionWrite(c, q, mask) = <<Pick(m, Reading(m, q, FALSE)), Pick(m, Reading(m, q, TRUE))>>
  BY Zenon DEF DoRepartitionWrite
<1> HIDE DEF m
<1>4. F(m) = Len(m) - T(m) /\ T(m) \in Nat /\ F(m) \in Nat
  BY <1>1, ReadingSplits
<1>5. IsFiniteSet(Reading(m, q, FALSE)) /\ IsFiniteSet(Reading(m, q, TRUE))
  BY <1>1, ReadingFinite
<1>6. DOMAIN Pick(m, Reading(m, q, FALSE)) = 1 .. F(m) /\ DOMAIN Pick(m, Reading(m, q, TRUE)) = 1 .. T(m)
  BY <1>5, PickIsSeq
<1> HIDE DEF T, F
<1>7. DoRepartitionCount(c, q) = <<F(m), T(m)>>
  <2>1. /\ Len(c[1]) \in Nat /\ Len(c[2]) \in Nat
        /\ T(c[1]) \in Nat /\ T(c[2]) \in Nat
    BY ReadingSplits DEF T
  <2>2. PICK n1 \in Nat, n2 \in Nat, t1 \in Nat, t2 \in Nat :
            n1 = Len(c[1]) /\ n2 = Len(c[2]) /\ t1 = T(c[1]) /\ t2 = T(c[2])
    BY <2>1, Zenon
  <2>3. F(m) = (n1 + n2) - (t1 + t2)
    BY <1>1, <1>4, <2>2, Zenon
  <2>4. F(m) = n1 + n2 - (t1 + t2)
    BY <2>3
  <2>5. T(m) = t1 + t2
    BY <1>1, <2>2, Zenon
  <2>6. DoRepartitionCount(c, q) = <<n1 + n2 - (t1 + t2), t1 + t2>>
    BY <1>2, <2>2, Zenon
  <2> QED
    BY <2>4, <2>5, <2>6, Zenon
<1> DEFINE x == Pick(m, Reading(m, q, FALSE))
           y == Pick(m, Reading(m, q, TRUE))
           a == F(m)
           b == T(m)
<1>8. a \in Nat /\ b \in Nat /\ DOMAIN x = 1 .. a /\ DOMAIN y = 1 .. b
  BY <1>4, <1>6
<1>9. DoRepartitionCount(c, q) = <<a, b>> /\ DoRepartitionWrite(c, q, mask) = <<x, y>>
  BY <1>3, <1>7
<1> HIDE DEF x, y, a, b
<1> QED
  BY <1>8, <1>9 DEF Agree

\* So does do_u4.
LEMMA U4Agrees ==
    ASSUME NEW c, IsSeq(c[1]), IsSeq(c[2]), NEW q, NEW g
    PROVE  Agree(DoU4Count(c, q, g), DoU4Write(c, q, g))
<1> DEFINE m == MergeEq(c[1], c[2], q)
<1>1. IsSeq(m)
  BY MergeEqIsSeq
<1>2. \A p \in 1 .. 2 : DoU4Count(c, q, g)[p] = Cardinality(Left(m, g, p))
  BY DEF DoU4Count
<1>3. \A p \in 1 .. 2 : \E run : DoU4Write(c, q, g)[p] = Pick(run, Left(m, g, p))
  BY Zenon DEF DoU4Write
<1> HIDE DEF m
<1>4. IsFiniteSet(1 .. Len(m)) /\ DOMAIN m = 1 .. Len(m)
  <2>1. Len(m) \in Nat /\ DOMAIN m = 1 .. Len(m)
    BY <1>1, SeqFacts
  <2> QED
    BY <2>1, FS_Interval
<1>5. ASSUME NEW p \in 1 .. 2
      PROVE  DoU4Count(c, q, g)[p] \in Nat /\ DOMAIN DoU4Write(c, q, g)[p] = 1 .. DoU4Count(c, q, g)[p]
  <2>1. Left(m, g, p) \subseteq 1 .. Len(m)
    BY <1>4 DEF Left
  <2>2. IsFiniteSet(Left(m, g, p))
    BY <1>4, <2>1, FS_Subset
  <2>3. PICK run : DoU4Write(c, q, g)[p] = Pick(run, Left(m, g, p))
    BY <1>3
  <2>4. DOMAIN Pick(run, Left(m, g, p)) = 1 .. Cardinality(Left(m, g, p)) /\ Cardinality(Left(m, g, p)) \in Nat
    BY <2>2, PickIsSeq
  <2> QED
    BY <1>2, <2>3, <2>4
<1> QED
  BY <1>5, Zenon DEF Agree

\* So does do_measure.
LEMMA MeasureAgrees ==
    ASSUME NEW c, IsSeq(c[1]), IsSeq(c[2]), NEW q, NEW v \in BOOLEAN
    PROVE  Agree(DoMeasureCount(c, q, v), DoMeasureCopy(c, q, v))
<1> SUFFICES ASSUME NEW p \in 1 .. 2
             PROVE  /\ DoMeasureCount(c, q, v)[p] \in Nat
                    /\ DOMAIN DoMeasureCopy(c, q, v)[p] = 1 .. DoMeasureCount(c, q, v)[p]
  BY Zenon DEF Agree
<1> DEFINE S == Reading(c[p], q, v)
           n == Cardinality(Reading(c[p], q, TRUE))
<1>1. IsSeq(c[p])
  OBVIOUS
<1>2. DoMeasureCount(c, q, v)[p] = IF v THEN n ELSE Len(c[p]) - n
  BY DEF DoMeasureCount
<1>3. DOMAIN DoMeasureCopy(c, q, v)[p] = DOMAIN Pick(c[p], S)
  BY DEF DoMeasureCopy
<1>4. IsFiniteSet(S) /\ Cardinality(S) \in Nat
  BY <1>1, ReadingFinite
<1>5. DOMAIN Pick(c[p], S) = 1 .. Cardinality(S)
  BY <1>4, PickIsSeq
<1>6. Cardinality(S) = IF v THEN n ELSE Len(c[p]) - n
  <2>1. CASE v = TRUE
    BY <2>1
  <2>2. CASE v = FALSE
    BY <1>1, <2>2, ReadingSplits
  <2> QED
    BY <2>1, <2>2
<1> QED
  BY <1>2, <1>3, <1>4, <1>5, <1>6

\* So does the import of a dense vector.
LEMMA DenseAgrees ==
    ASSUME NEW i, tasks[i][1].lo \in Int, tasks[i][1].hi \in Int
    PROVE  Agree(<<Len(DenseChunk(i)), 0>>, <<DenseChunk(i), <<>> >>)
<1> DEFINE lo == tasks[i][1].lo
           n == tasks[i][1].hi - lo + 1
           all == [k \in 1 .. n |-> [bits |-> FromIndex(lo + k - 2), val |-> call.data[lo + k - 1]]]
           S == {k \in DOMAIN all : all[k].val # CZero}
<1>1. DenseChunk(i) = Pick(all, S)
  BY Zenon DEF DenseChunk
<1>2. IsFiniteSet(1 .. n)
  BY FS_Interval
<1>3. S \subseteq 1 .. n
  OBVIOUS
<1> HIDE DEF S, all
<1>4. IsFiniteSet(S)
  BY <1>2, <1>3, FS_Subset
<1>5. Len(DenseChunk(i)) \in Nat /\ DOMAIN DenseChunk(i) = 1 .. Len(DenseChunk(i))
  BY <1>1, <1>4, PickIsSeq
<1>6. DOMAIN <<>> = 1 .. 0
  BY EmptyIsSeq
<1> QED
  BY <1>5, <1>6 DEF Agree

\* The input of a task is a pair of sequences.
LEMMA InputIsSeq ==
    ASSUME NEW i, tasks[i] \in Tasks
    PROVE  /\ IsSeq(Input(i)[1]) /\ IsSeq(Input(i)[2])
           /\ Len(Input(i)[1]) = IF tasks[i][1].lo <= tasks[i][1].hi THEN tasks[i][1].hi - tasks[i][1].lo + 1 ELSE 0
<1> DEFINE src == IF Head(steps) = "import" THEN <<parts[1] \o parts[2], <<>> >> ELSE parts
<1>1. /\ Input(i)[1] = SubSeq(src[1], tasks[i][1].lo, tasks[i][1].hi)
      /\ Input(i)[2] = SubSeq(src[2], tasks[i][2].lo, tasks[i][2].hi)
  <2>1. 1 \in 1 .. 2 /\ 2 \in 1 .. 2
    OBVIOUS
  <2>2. Input(i) = [p \in 1 .. 2 |-> SubSeq(src[p], tasks[i][p].lo, tasks[i][p].hi)]
    BY Zenon DEF Input
  <2> HIDE DEF src
  <2> QED
    BY <2>1, <2>2, Zenon
<1>2. \A p \in 1 .. 2 : tasks[i][p].lo \in Int /\ tasks[i][p].hi \in Int
  BY DEF Tasks, Ranges
<1> HIDE DEF src
<1> QED
  BY <1>1, <1>2, SubSeqIsSeq

\* So every step that counts first writes what it counted.
LEMMA CountAgrees ==
    ASSUME NEW i, tasks[i] \in Tasks, NEW step \in Counted, step = "measure" => call.v \in BOOLEAN
    PROVE  Agree(CountOf(step, i), WriteOf(step, i))
<1>1. IsSeq(Input(i)[1]) /\ IsSeq(Input(i)[2])
  BY InputIsSeq
<1>2. CASE step = "repart"
  <2>1. CountOf(step, i) = DoRepartitionCount(Input(i), call.q)
    BY <1>2 DEF CountOf
  <2>2. WriteOf(step, i) = DoRepartitionWrite(Input(i), call.q, NoQubit)
    BY <1>2 DEF WriteOf
  <2> QED
    BY <1>1, <2>1, <2>2, RepartitionAgrees
<1>3. CASE step = "fixup"
  <2>1. CountOf(step, i) = DoRepartitionCount(Input(i), call.q)
    BY <1>3 DEF CountOf
  <2>2. WriteOf(step, i) = DoRepartitionWrite(Input(i), call.q, call.q)
    BY <1>3 DEF WriteOf
  <2> QED
    BY <1>1, <2>1, <2>2, RepartitionAgrees
<1>4. CASE step = "u4"
  <2>1. CountOf(step, i) = DoU4Count(Input(i), call.q, call.gate)
    BY <1>4 DEF CountOf
  <2>2. WriteOf(step, i) = DoU4Write(Input(i), call.q, call.gate)
    BY <1>4 DEF WriteOf
  <2> QED
    BY <1>1, <2>1, <2>2, U4Agrees
<1>5. CASE step = "measure"
  <2>1. CountOf(step, i) = DoMeasureCount(Input(i), call.q, call.v)
    BY <1>5 DEF CountOf
  <2>2. WriteOf(step, i) = DoMeasureCopy(Input(i), call.q, call.v)
    BY <1>5 DEF WriteOf
  <2> QED
    BY <1>1, <1>5, <2>1, <2>2, MeasureAgrees
<1>6. CASE step = "dense"
  <2>1. CountOf(step, i) = <<Len(DenseChunk(i)), 0>>
    BY <1>6 DEF CountOf
  <2>2. WriteOf(step, i) = <<DenseChunk(i), <<>> >>
    BY <1>6 DEF WriteOf
  <2>3. tasks[i][1].lo \in Int /\ tasks[i][1].hi \in Int
    BY DEF Tasks, Ranges
  <2> QED
    BY <2>1, <2>2, <2>3, DenseAgrees
<1> QED
  BY <1>2, <1>3, <1>4, <1>5, <1>6 DEF Counted

-----------------------------------------------------------------------------
(* Windows.  The prefix sums of the lengths tile the output.               *)

\* The windows before a task add up to a number.
LEMMA PrefixNat ==
    ASSUME NEW l, NEW p, NEW n \in Nat, \A i \in 1 .. n : l[i][p] \in Nat
    PROVE  \A k \in 0 .. n : Prefix(l, p, k) \in Nat
<1> DEFINE P(k) == Prefix(l, p, k)
           T == {k \in Nat : k <= n => P(k) \in Nat}
<1>1. P(0) = 0 /\ \A k \in Nat : P(k + 1) = P(k) + l[k + 1][p]
  BY PrefixLoop
<1> HIDE DEF P
<1>2. 0 \in T
  BY <1>1
<1>3. \A k \in Nat : k \in T => k + 1 \in T
  <2> TAKE k \in Nat
  <2> HAVE k \in T
  <2> SUFFICES ASSUME k + 1 <= n PROVE P(k + 1) \in Nat
    OBVIOUS
  <2>1. k <= n /\ k + 1 \in 1 .. n
    OBVIOUS
  <2>2. P(k) \in Nat /\ l[k + 1][p] \in Nat
    BY <2>1
  <2> QED
    BY <1>1, <2>2
<1>4. \A k \in Nat : k \in T
  <2> HIDE DEF T
  <2> QED
    BY <1>2, <1>3, SetInduction
<1>5. \A k \in 0 .. n : P(k) \in Nat
  BY <1>4
<1> QED
  BY <1>5 DEF P

\* The further the task, the more they are.
LEMMA PrefixMonotone ==
    ASSUME NEW l, NEW p, NEW n \in Nat, \A i \in 1 .. n : l[i][p] \in Nat,
           NEW j \in 0 .. n, NEW m \in 0 .. n, j <= m
    PROVE  Prefix(l, p, j) <= Prefix(l, p, m)
<1> DEFINE P(k) == Prefix(l, p, k)
           T == {k \in Nat : j <= k /\ k <= n => P(j) <= P(k)}
<1>1. P(0) = 0 /\ \A k \in Nat : P(k + 1) = P(k) + l[k + 1][p]
  BY PrefixLoop
<1>2. \A k \in 0 .. n : P(k) \in Nat
  BY PrefixNat
<1> HIDE DEF P
<1>3. 0 \in T
  <2>1. j <= 0 => j = 0
    OBVIOUS
  <2>2. 0 \in 0 .. n
    OBVIOUS
  <2> QED
    BY <1>2, <2>1, <2>2
<1>4. \A k \in Nat : k \in T => k + 1 \in T
  <2> TAKE k \in Nat
  <2> HAVE k \in T
  <2> SUFFICES ASSUME j <= k + 1, k + 1 <= n PROVE P(j) <= P(k + 1)
    OBVIOUS
  <2>1. CASE j = k + 1
    <3>1. P(k + 1) \in Nat
      BY <1>2, <2>1
    <3> QED
      BY <2>1, <3>1
  <2>2. CASE j # k + 1
    <3>1. j <= k /\ k <= n /\ k \in 0 .. n /\ k + 1 \in 1 .. n
      BY <2>2
    <3>2. P(j) <= P(k) /\ P(j) \in Nat /\ P(k) \in Nat /\ l[k + 1][p] \in Nat
      BY <1>2, <3>1
    <3> QED
      BY <1>1, <3>2
  <2> QED
    BY <2>1, <2>2
<1>5. m \in T
  <2> HIDE DEF T
  <2> QED
    BY <1>3, <1>4, SetInduction
<1>6. P(j) <= P(m)
  BY <1>5
<1> QED
  BY <1>6 DEF P

\* Every place belongs to a window.
LEMMA PrefixCovers ==
    ASSUME NEW l, NEW p, NEW n \in Nat, \A i \in 1 .. n : l[i][p] \in Nat
    PROVE  \A x \in 1 .. Prefix(l, p, n) : \E i \in 1 .. n : \E k \in 1 .. l[i][p] : x = Prefix(l, p, i - 1) + k
<1> DEFINE P(k) == Prefix(l, p, k)
           Covered(x, m) == \E i \in 1 .. m : \E k \in 1 .. l[i][p] : x = P(i - 1) + k
           T == {m \in Nat : m <= n => \A x \in 1 .. P(m) : Covered(x, m)}
<1>1. P(0) = 0 /\ \A k \in Nat : P(k + 1) = P(k) + l[k + 1][p]
  BY PrefixLoop
<1>2. \A k \in 0 .. n : P(k) \in Nat
  BY PrefixNat
<1> HIDE DEF P
<1>3. 0 \in T
  <2>1. 1 .. P(0) = {}
    BY <1>1
  <2> QED
    BY <2>1
<1>4. \A m \in Nat : m \in T => m + 1 \in T
  <2> TAKE m \in Nat
  <2> HAVE m \in T
  <2> SUFFICES ASSUME m + 1 <= n, NEW x \in 1 .. P(m + 1) PROVE Covered(x, m + 1)
    OBVIOUS
  <2>1. m <= n /\ m \in 0 .. n /\ m + 1 \in 1 .. n /\ m + 1 \in 1 .. (m + 1)
    OBVIOUS
  <2>2. P(m) \in Nat /\ l[m + 1][p] \in Nat /\ P(m + 1) = P(m) + l[m + 1][p]
    BY <1>1, <1>2, <2>1
  <2>3. CASE x <= P(m)
    <3>1. x \in 1 .. P(m)
      BY <2>2, <2>3
    <3>2. Covered(x, m)
      <4> HIDE DEF Covered
      <4> QED
        BY <2>1, <3>1
    <3>3. \A i \in 1 .. m : i \in 1 .. (m + 1)
      OBVIOUS
    <3> QED
      BY <3>2, <3>3, Zenon
  <2>4. CASE ~(x <= P(m))
    <3>1. x - P(m) \in 1 .. l[m + 1][p] /\ x = P(m) + (x - P(m))
      BY <2>2, <2>4
    <3>2. (m + 1) - 1 = m
      OBVIOUS
    <3> QED
      BY <2>1, <3>1, <3>2
  <2> QED
    BY <2>3, <2>4
<1>5. n \in T
  <2> HIDE DEF T
  <2> QED
    BY <1>3, <1>4, SetInduction
<1>6. \A x \in 1 .. P(n) : Covered(x, n)
  <2> HIDE DEF Covered
  <2> QED
    BY <1>5
<1> QED
  BY <1>6 DEF P

\* A window lies inside the output.
LEMMA PrefixInside ==
    ASSUME NEW l, NEW p, NEW n \in Nat, \A i \in 1 .. n : l[i][p] \in Nat,
           NEW i \in 1 .. n, NEW k \in 1 .. l[i][p]
    PROVE  /\ Prefix(l, p, i - 1) + k \in 1 .. Prefix(l, p, n)
           /\ Prefix(l, p, i - 1) \in Nat
           /\ Prefix(l, p, i - 1) + k <= Prefix(l, p, i)
<1> DEFINE P(j) == Prefix(l, p, j)
<1>1. i - 1 \in 0 .. n /\ i \in 0 .. n /\ n \in 0 .. n /\ i <= n /\ i - 1 \in Nat /\ (i - 1) + 1 = i
  OBVIOUS
<1>2. P(i - 1) \in Nat /\ P(i) \in Nat /\ P(n) \in Nat
  BY <1>1, PrefixNat
<1>3. P(i) = P(i - 1) + l[i][p]
  <2>1. P((i - 1) + 1) = P(i - 1) + l[(i - 1) + 1][p]
    BY <1>1, PrefixLoop
  <2> QED
    BY <1>1, <2>1
<1>4. P(i) <= P(n)
  BY <1>1, PrefixMonotone
<1>5. l[i][p] \in Nat
  OBVIOUS
<1> HIDE DEF P
<1>6. P(i - 1) + k \in 1 .. P(n) /\ P(i - 1) + k <= P(i)
  BY <1>2, <1>3, <1>4, <1>5
<1> QED
  BY <1>2, <1>6 DEF P

\* No two windows have a place in common.
Apart(l, p, n) ==
    \A i, j \in 1 .. n : \A k \in 1 .. l[i][p] : \A h \in 1 .. l[j][p] :
        Prefix(l, p, i - 1) + k = Prefix(l, p, j - 1) + h => i = j /\ k = h

\* The windows of two tasks have nothing in common.
LEMMA PrefixApart ==
    ASSUME NEW l, NEW p, NEW n \in Nat, \A i \in 1 .. n : l[i][p] \in Nat
    PROVE  Apart(l, p, n)
<1> SUFFICES ASSUME NEW i \in 1 .. n, NEW k \in 1 .. l[i][p], NEW j \in 1 .. n, NEW h \in 1 .. l[j][p],
                    Prefix(l, p, i - 1) + k = Prefix(l, p, j - 1) + h
             PROVE  i = j /\ k = h
  BY Zenon DEF Apart
<1> DEFINE P(m) == Prefix(l, p, m)
<1>1. /\ P(i - 1) \in Nat /\ P(i - 1) + k <= P(i)
      /\ P(j - 1) \in Nat /\ P(j - 1) + h <= P(j)
  BY PrefixInside
<1>2. i - 1 \in 0 .. n /\ j - 1 \in 0 .. n /\ i \in 0 .. n /\ j \in 0 .. n
  OBVIOUS
<1>3. i < j => P(i) <= P(j - 1)
  <2>1. i < j => i <= j - 1
    OBVIOUS
  <2> QED
    BY <1>2, <2>1, PrefixMonotone
<1>4. j < i => P(j) <= P(i - 1)
  <2>1. j < i => j <= i - 1
    OBVIOUS
  <2> QED
    BY <1>2, <2>1, PrefixMonotone
<1>5. P(i - 1) + k = P(j - 1) + h
  OBVIOUS
<1>6. P(i) \in Nat /\ P(j) \in Nat
  BY <1>2, PrefixNat
<1>7. l[i][p] \in Nat /\ l[j][p] \in Nat
  OBVIOUS
<1> HIDE DEF P
<1>8. k \in Nat \ {0} /\ h \in Nat \ {0}
  BY <1>7
<1>9. ~(i < j) /\ ~(j < i)
  BY <1>1, <1>3, <1>4, <1>5, <1>6, <1>8
<1>10. i = j
  BY <1>9
<1> QED
  BY <1>1, <1>5, <1>8, <1>10

\* What the counting loop returns: two lengths for every task.
LensTyped ==
    /\ IsSeq(lens)
    /\ \A i \in DOMAIN lens : \A p \in 1 .. 2 : lens[i][p] \in Nat

\* Where the windows begin and how long the buffer is.
LEMMA LensFacts ==
    ASSUME LensTyped
    PROVE  /\ Len(lens) \in Nat /\ DOMAIN lens = 1 .. Len(lens)
           /\ \A p \in 1 .. 2 : \A i \in 1 .. Len(lens) : lens[i][p] \in Nat
           /\ \A p \in 1 .. 2 : PartLen(p) = Prefix(lens, p, Len(lens)) /\ PartLen(p) \in Nat
           /\ OutLen = PartLen(1) + PartLen(2) /\ OutLen \in Nat
           /\ \A i : WindowStart(i, 1) = 0 + Prefix(lens, 1, i - 1)
           /\ \A i : WindowStart(i, 2) = PartLen(1) + Prefix(lens, 2, i - 1)
<1>1. Len(lens) \in Nat /\ DOMAIN lens = 1 .. Len(lens)
  BY SeqFacts DEF LensTyped
<1>2. \A p \in 1 .. 2 : \A i \in 1 .. Len(lens) : lens[i][p] \in Nat
  BY <1>1, Zenon DEF LensTyped
<1>3. \A p : PartLen(p) = Prefix(lens, p, Len(lens))
  BY Zenon DEF PartLen, Lens
<1>4. ASSUME NEW p \in 1 .. 2
      PROVE  PartLen(p) \in Nat
  <2>1. Len(lens) \in 0 .. Len(lens)
    BY <1>1
  <2>2. \A k \in 0 .. Len(lens) : Prefix(lens, p, k) \in Nat
    BY <1>1, <1>2, PrefixNat
  <2> QED
    BY <1>3, <2>1, <2>2
<1>5. OutLen = PartLen(1) + PartLen(2)
  BY Zenon DEF OutLen
<1>6. PartLen(1) \in Nat /\ PartLen(2) \in Nat
  BY <1>4
<1>7. OutLen \in Nat
  BY <1>5, <1>6
<1>8. \A i : WindowStart(i, 1) = 0 + Prefix(lens, 1, i - 1)
  BY DEF WindowStart, Lens
<1>9. \A i : WindowStart(i, 2) = PartLen(1) + Prefix(lens, 2, i - 1)
  BY DEF WindowStart, Lens
<1> QED
  BY <1>1, <1>2, <1>3, <1>4, <1>5, <1>7, <1>8, <1>9

\* A window lies in its part of the output.
LEMMA PlaceInside ==
    ASSUME LensTyped, NEW i \in 1 .. Len(lens), NEW p \in 1 .. 2, NEW k \in 1 .. lens[i][p]
    PROVE  /\ WindowStart(i, p) + k \in 1 .. OutLen
           /\ p = 1 <=> WindowStart(i, p) + k <= PartLen(1)
           /\ WindowStart(i, p) + k = (IF p = 2 THEN PartLen(1) ELSE 0) + (Prefix(lens, p, i - 1) + k)
<1> DEFINE n == Len(lens)
           a == Prefix(lens, p, i - 1)
<1>1. n \in Nat /\ \A j \in 1 .. n : lens[j][p] \in Nat
  BY LensFacts
<1>2. a + k \in 1 .. PartLen(p) /\ a \in Nat
  BY <1>1, PrefixInside, LensFacts
<1>3. PartLen(1) \in Nat /\ PartLen(2) \in Nat /\ OutLen = PartLen(1) + PartLen(2)
  BY LensFacts
<1>4. lens[i][p] \in Nat
  BY <1>1
<1>5. CASE p = 1
  <2>1. WindowStart(i, p) = 0 + a
    BY <1>5, LensFacts
  <2> HIDE DEF a
  <2>2. WindowStart(i, p) + k = a + k
    BY <1>2, <1>4, <2>1
  <2>3. a + k \in 1 .. OutLen /\ a + k <= PartLen(1) /\ a + k = 0 + (a + k)
    BY <1>2, <1>3, <1>4, <1>5
  <2> QED
    BY <1>5, <2>2, <2>3 DEF a
<1>6. CASE p = 2
  <2>1. WindowStart(i, p) = PartLen(1) + a
    BY <1>6, LensFacts
  <2> HIDE DEF a
  <2>2. WindowStart(i, p) + k = PartLen(1) + (a + k)
    BY <1>2, <1>3, <1>4, <2>1
  <2>3. PartLen(1) + (a + k) \in 1 .. OutLen
    BY <1>2, <1>3, <1>4, <1>6
  <2>4. ~(PartLen(1) + (a + k) <= PartLen(1))
    BY <1>2, <1>3, <1>4
  <2> QED
    BY <1>6, <2>2, <2>3, <2>4 DEF a
<1> QED
  BY <1>5, <1>6

\* No place belongs to two windows, nor twice to one.
LEMMA PlaceApart ==
    ASSUME LensTyped,
           NEW i \in 1 .. Len(lens), NEW p \in 1 .. 2, NEW k \in 1 .. lens[i][p],
           NEW j \in 1 .. Len(lens), NEW r \in 1 .. 2, NEW h \in 1 .. lens[j][r],
           WindowStart(i, p) + k = WindowStart(j, r) + h
    PROVE  i = j /\ p = r /\ k = h
<1>1. p = r
  <2>1. p = 1 <=> WindowStart(i, p) + k <= PartLen(1)
    BY PlaceInside
  <2>2. r = 1 <=> WindowStart(j, r) + h <= PartLen(1)
    BY PlaceInside
  <2> QED
    BY <2>1, <2>2
<1> DEFINE n == Len(lens)
           a == Prefix(lens, p, i - 1)
           b == Prefix(lens, p, j - 1)
           base == IF p = 2 THEN PartLen(1) ELSE 0
<1>2. n \in Nat /\ \A m \in 1 .. n : lens[m][p] \in Nat
  BY LensFacts
<1>3. h \in 1 .. lens[j][p]
  BY <1>1
<1>4. WindowStart(i, p) + k = base + (a + k) /\ WindowStart(j, p) + h = base + (b + h)
  <2>1. WindowStart(i, p) + k = base + (a + k)
    BY PlaceInside
  <2>2. WindowStart(j, p) + h = base + (b + h)
    BY <1>3, PlaceInside
  <2> QED
    BY <2>1, <2>2
<1>5. a \in Nat /\ b \in Nat
  BY <1>2, <1>3, PrefixInside
<1>6. base \in Nat
  BY LensFacts
<1>7. a + k = b + h
  <2>1. WindowStart(i, p) + k = WindowStart(j, p) + h
    BY <1>1
  <2>2. lens[i][p] \in Nat /\ lens[j][p] \in Nat
    BY <1>2
  <2>3. k \in Nat /\ h \in Nat
    BY <1>3, <2>2
  <2> HIDE DEF a, b, base
  <2> QED
    BY <1>4, <1>5, <1>6, <2>1, <2>3
<1>8. i = j /\ k = h
  <2>1. i \in 1 .. n /\ j \in 1 .. n /\ k \in 1 .. lens[i][p]
    OBVIOUS
  <2>2. Prefix(lens, p, i - 1) + k = Prefix(lens, p, j - 1) + h
    BY <1>7
  <2> HIDE DEF n
  <2>3. Apart(lens, p, n)
    BY <1>2, PrefixApart
  <2> QED
    BY <1>3, <2>1, <2>2, <2>3 DEF Apart
<1> QED
  BY <1>1, <1>8

\* Every place of the output belongs to a window.
LEMMA PlaceCovers ==
    ASSUME LensTyped, NEW x \in 1 .. OutLen
    PROVE  \E i \in 1 .. Len(lens) : \E p \in 1 .. 2 : \E k \in 1 .. lens[i][p] : x = WindowStart(i, p) + k
<1> DEFINE n == Len(lens)
<1>1. n \in Nat /\ \A p \in 1 .. 2 : \A j \in 1 .. n : lens[j][p] \in Nat
  BY LensFacts
<1>2. PartLen(1) \in Nat /\ PartLen(2) \in Nat /\ OutLen = PartLen(1) + PartLen(2)
  BY LensFacts
<1>3. ASSUME NEW p \in 1 .. 2, NEW y \in 1 .. PartLen(p)
      PROVE  \E i \in 1 .. n : \E k \in 1 .. lens[i][p] : y = Prefix(lens, p, i - 1) + k
  <2>1. \A j \in 1 .. n : lens[j][p] \in Nat
    BY <1>1
  <2>2. PartLen(p) = Prefix(lens, p, n)
    BY LensFacts
  <2>3. y \in 1 .. Prefix(lens, p, n)
    BY <2>2
  <2> QED
    BY <1>1, <2>1, <2>3, PrefixCovers
<1>4. CASE x <= PartLen(1)
  <2>1. x \in 1 .. PartLen(1)
    BY <1>2, <1>4
  <2>2. PICK i \in 1 .. n : \E k \in 1 .. lens[i][1] : x = Prefix(lens, 1, i - 1) + k
    BY <1>3, <2>1
  <2>3. PICK k \in 1 .. lens[i][1] : x = Prefix(lens, 1, i - 1) + k
    BY <2>2
  <2>4. x = (IF 1 = 2 THEN PartLen(1) ELSE 0) + (Prefix(lens, 1, i - 1) + k)
    BY <2>3
  <2>5. x = WindowStart(i, 1) + k
    BY <2>4, PlaceInside
  <2> QED
    BY <2>5
<1>5. CASE ~(x <= PartLen(1))
  <2>1. x - PartLen(1) \in 1 .. PartLen(2)
    BY <1>2, <1>5
  <2>2. PICK i \in 1 .. n : \E k \in 1 .. lens[i][2] : x - PartLen(1) = Prefix(lens, 2, i - 1) + k
    BY <1>3, <2>1
  <2>3. PICK k \in 1 .. lens[i][2] : x - PartLen(1) = Prefix(lens, 2, i - 1) + k
    BY <2>2
  <2>4. x = (IF 2 = 2 THEN PartLen(1) ELSE 0) + (Prefix(lens, 2, i - 1) + k)
    BY <1>2, <2>3
  <2>5. x = WindowStart(i, 2) + k
    BY <2>4, PlaceInside
  <2> QED
    BY <2>5
<1> QED
  BY <1>4, <1>5

\* A set that has one element for each of n places has n elements.
LEMMA OnePerPlace ==
    ASSUME NEW S, NEW n \in Nat,
           \A w \in S : w.at \in 1 .. n,
           \A v, w \in S : v.at = w.at => v = w,
           \A x \in 1 .. n : \E w \in S : w.at = x
    PROVE  Cardinality(S) = n
<1> DEFINE f == [x \in 1 .. n |-> CHOOSE w \in S : w.at = x]
<1>1. \A x \in 1 .. n : f[x] \in S /\ f[x].at = x
  OBVIOUS
<1>2. f \in [1 .. n -> S]
  BY <1>1
<1>3. \A w \in S : f[w.at] = w
  <2> HIDE DEF f
  <2> QED
    BY <1>1
<1> HIDE DEF f
<1>4. f \in Injection(1 .. n, S)
  BY <1>1, <1>2 DEF Injection, IsInjective
<1>5. f \in Surjection(1 .. n, S)
  BY <1>2, <1>3 DEF Surjection
<1>6. ExistsBijection(1 .. n, S)
  BY <1>4, <1>5 DEF ExistsBijection, Bijection
<1>7. IsFiniteSet(1 .. n) /\ Cardinality(1 .. n) = n
  BY FS_Interval
<1> QED
  BY <1>6, <1>7, FS_Bijection

-----------------------------------------------------------------------------
(* The inductive invariant                                                 *)

\* The steps of calls, with what they read of the call they belong to.
StepNames == Writes \cup {"const", "single", "apply", "sort", "sum", "normalize"}
KnownSteps ==
    {s \in StepNames : /\ s = "dense" => call.data \in Imports
                       /\ s = "measure" => call.v \in BOOLEAN}

VectorInv == Planned /\ cap \in Nat /\ oldCap \in Nat

StepsInv ==
    /\ steps \in Seq(KnownSteps)
    /\ phase \in {"plan", "count", "run"} => steps # <<>>
    /\ phase = "count" => Head(steps) \in Writes

\* A step that fills windows is counting or writing.
Filling(p, s) == p \in {"count", "run"} /\ Head(s) \in Writes

\* A task that has been counted returned what it will write.
LoopInv ==
    Filling(phase, steps) =>
        /\ tasks \in Seq(Tasks) /\ LensTyped /\ DOMAIN lens = DOMAIN tasks /\ todo \subseteq DOMAIN tasks
        /\ \A i \in DOMAIN tasks :
              phase = "run" \/ i \notin todo => Agree(lens[i], WriteOf(Head(steps), i))
        /\ phase = "count" /\ Head(steps) = "import" => todo = {}

\* What task i writes.
Written(i) ==
    UNION {{[at |-> WindowStart(i, p) + k, elt |-> WriteOf(Head(steps), i)[p][k], by |-> i] :
               k \in DOMAIN WriteOf(Head(steps), i)[p]} : p \in 1 .. 2}

\* The windows of the tasks that have run are filled, and nothing else.
OutInv ==
    IF phase = "run" /\ Head(steps) \in Writes
    THEN /\ out = UNION {Written(i) : i \in DOMAIN tasks \ todo}
         /\ outCap \in Nat /\ OutLen <= outCap
    ELSE out = {}

IInv == VectorInv /\ StepsInv /\ LoopInv /\ OutInv

\* What a task counts and writes is fixed as long as the input is.
LEMMA Stable ==
    ASSUME parts' = parts, call' = call, steps' = steps, tasks' = tasks
    PROVE  \A i : WriteOf(Head(steps), i)' = WriteOf(Head(steps), i)
<1> TAKE i
<1>1. Input(i)' = Input(i)
  BY DEF Input
<1>2. DenseChunk(i)' = DenseChunk(i)
  BY DEF DenseChunk
<1>3. \A e : Scaled(e)' = Scaled(e)
  BY DEF Scaled
<1>4. DoMeasureCopy(Input(i), call.q, call.v)' = DoMeasureCopy(Input(i), call.q, call.v)
  BY <1>1 DEF DoMeasureCopy, Scaled
<1>5. DoU4Write(Input(i), call.q, call.gate)' = DoU4Write(Input(i), call.q, call.gate)
  BY <1>1
<1>6. \A mask : DoRepartitionWrite(Input(i), call.q, mask)' = DoRepartitionWrite(Input(i), call.q, mask)
  BY <1>1
<1> QED
  BY <1>1, <1>2, <1>4, <1>5, <1>6 DEF WriteOf

\* None of this changes while the counts do not.
LEMMA StableLens ==
    ASSUME lens' = lens
    PROVE  /\ LensTyped' = LensTyped /\ OutLen' = OutLen
           /\ \A i : WindowStart(i, 1)' = WindowStart(i, 1) /\ WindowStart(i, 2)' = WindowStart(i, 2)
<1>1. \A p : PartLen(p)' = PartLen(p)
  BY DEF PartLen, Lens
<1>2. OutLen' = OutLen
  BY <1>1 DEF OutLen
<1>3. \A i, p : WindowStart(i, p)' = WindowStart(i, p)
  BY <1>1 DEF WindowStart, Lens
<1>4. LensTyped' = LensTyped
  BY DEF LensTyped
<1> QED
  BY <1>2, <1>3, <1>4

\* The elements task i writes, one for each place of its windows.
LEMMA WrittenPlaces ==
    ASSUME NEW i \in 1 .. Len(lens), Agree(lens[i], WriteOf(Head(steps), i))
    PROVE  /\ \A w \in Written(i) : \E p \in 1 .. 2 : \E k \in 1 .. lens[i][p] :
                 w = [at |-> WindowStart(i, p) + k, elt |-> WriteOf(Head(steps), i)[p][k], by |-> i]
           /\ \A p \in 1 .. 2 : \A k \in 1 .. lens[i][p] : \E w \in Written(i) : w.at = WindowStart(i, p) + k
<1> DEFINE w == WriteOf(Head(steps), i)
           E(p, k) == [at |-> WindowStart(i, p) + k, elt |-> w[p][k], by |-> i]
<1>1. \A p \in 1 .. 2 : DOMAIN w[p] = 1 .. lens[i][p]
  BY DEF Agree
<1>2. Written(i) = UNION {{E(p, k) : k \in DOMAIN w[p]} : p \in 1 .. 2}
  BY DEF Written
<1>3. \A p, k : E(p, k).at = WindowStart(i, p) + k
  OBVIOUS
<1> HIDE DEF w, E
<1>4. \A x : x \in Written(i) <=> \E p \in 1 .. 2 : \E k \in 1 .. lens[i][p] : x = E(p, k)
  <2> DEFINE A(p) == {E(p, k) : k \in DOMAIN w[p]}
  <2>1. \A x : x \in Written(i) <=> \E p \in 1 .. 2 : x \in A(p)
    <3>1. Written(i) = UNION {A(p) : p \in 1 .. 2}
      BY <1>2
    <3> HIDE DEF A
    <3> QED
      BY <3>1
  <2>2. \A p \in 1 .. 2 : \A x : x \in A(p) <=> \E k \in 1 .. lens[i][p] : x = E(p, k)
    BY <1>1
  <2> HIDE DEF A
  <2> QED
    BY <2>1, <2>2
<1>5. \A p \in 1 .. 2 : \A k \in 1 .. lens[i][p] : E(p, k) \in Written(i)
  BY <1>4
<1>6. \A p \in 1 .. 2 : \A k \in 1 .. lens[i][p] : \E x \in Written(i) : x.at = WindowStart(i, p) + k
  BY <1>3, <1>5
<1> QED
  BY <1>4, <1>6 DEF w, E

\* The inductive invariant says what is claimed of the windows.
LEMMA WindowsFollow == IInv => WindowsExact
<1> SUFFICES ASSUME VectorInv, StepsInv, LoopInv, OutInv, phase = "run" PROVE WindowsExact
  BY DEF IInv, WindowsExact
<1>1. CASE Head(steps) \notin Writes
  <2>1. out = {}
    BY <1>1 DEF OutInv
  <2> QED
    BY <1>1, <2>1 DEF WindowsExact
<1>2. CASE Head(steps) \in Writes
  <2> DEFINE n == Len(lens)
             E(i, p, k) == [at |-> WindowStart(i, p) + k, elt |-> WriteOf(Head(steps), i)[p][k], by |-> i]
  <2>1. LensTyped /\ DOMAIN lens = DOMAIN tasks /\ \A i \in DOMAIN tasks : Agree(lens[i], WriteOf(Head(steps), i))
    BY <1>2 DEF LoopInv, Filling
  <2>2. n \in Nat /\ DOMAIN tasks = 1 .. n
    BY <2>1, LensFacts
  <2>3. out = UNION {Written(i) : i \in DOMAIN tasks \ todo} /\ OutLen <= outCap
    BY <1>2 DEF OutInv
  <2>4. \A w : w \in out <=> \E i \in (1 .. n) \ todo : w \in Written(i)
    BY <2>2, <2>3
  <2>5. ASSUME NEW w \in out
        PROVE  \E i \in 1 .. n : \E p \in 1 .. 2 : \E k \in 1 .. lens[i][p] : w = E(i, p, k)
    <3>1. PICK i \in 1 .. n : w \in Written(i)
      BY <2>4
    <3>2. Agree(lens[i], WriteOf(Head(steps), i))
      BY <2>1, <2>2
    <3>3. \E p \in 1 .. 2 : \E k \in 1 .. lens[i][p] : w = E(i, p, k)
      BY <3>1, <3>2, WrittenPlaces, Zenon
    <3> QED
      BY <3>3
  <2>6. \A i, p, k : E(i, p, k).at = WindowStart(i, p) + k
    OBVIOUS
  <2> HIDE DEF E
  <2>7. ASSUME NEW w \in out
        PROVE  w.at \in 1 .. OutLen
    <3>1. PICK i \in 1 .. n : \E p \in 1 .. 2 : \E k \in 1 .. lens[i][p] : w = E(i, p, k)
      BY <2>5
    <3>2. PICK p \in 1 .. 2 : \E k \in 1 .. lens[i][p] : w = E(i, p, k)
      BY <3>1
    <3>3. PICK k \in 1 .. lens[i][p] : w = E(i, p, k)
      BY <3>2
    <3>4. WindowStart(i, p) + k \in 1 .. OutLen
      BY <2>1, PlaceInside
    <3> QED
      BY <2>6, <3>3, <3>4
  <2>8. ASSUME NEW w \in out, NEW x \in out, x.at = w.at
        PROVE  x = w
    <3>1. PICK i \in 1 .. n : \E p \in 1 .. 2 : \E k \in 1 .. lens[i][p] : w = E(i, p, k)
      BY <2>5
    <3>2. PICK p \in 1 .. 2 : \E k \in 1 .. lens[i][p] : w = E(i, p, k)
      BY <3>1
    <3>3. PICK k \in 1 .. lens[i][p] : w = E(i, p, k)
      BY <3>2
    <3>4. PICK j \in 1 .. n : \E r \in 1 .. 2 : \E h \in 1 .. lens[j][r] : x = E(j, r, h)
      BY <2>5
    <3>5. PICK r \in 1 .. 2 : \E h \in 1 .. lens[j][r] : x = E(j, r, h)
      BY <3>4
    <3>6. PICK h \in 1 .. lens[j][r] : x = E(j, r, h)
      BY <3>5
    <3>7. WindowStart(i, p) + k = WindowStart(j, r) + h
      BY <2>6, <2>8, <3>3, <3>6
    <3>8. i = j /\ p = r /\ k = h
      BY <2>1, <3>7, PlaceApart
    <3> QED
      BY <3>3, <3>6, <3>8
  <2>9. ASSUME todo = {}
        PROVE  Cardinality(out) = OutLen
    <3>1. ASSUME NEW x \in 1 .. OutLen
          PROVE  \E w \in out : w.at = x
      <4>1. PICK i \in 1 .. n : \E p \in 1 .. 2 : \E k \in 1 .. lens[i][p] : x = WindowStart(i, p) + k
        BY <2>1, PlaceCovers
      <4>2. Agree(lens[i], WriteOf(Head(steps), i))
        BY <2>1, <2>2
      <4>3. PICK w \in Written(i) : w.at = x
        BY <4>1, <4>2, WrittenPlaces
      <4>4. w \in out
        BY <2>4, <2>9
      <4> QED
        BY <4>3, <4>4
    <3>2. OutLen \in Nat
      BY <2>1, LensFacts
    <3> QED
      BY <2>7, <2>8, <3>1, <3>2, OnePerPlace
  <2> QED
    BY <1>2, <2>3, <2>7, <2>8, <2>9 DEF WindowsExact
<1> QED
  BY <1>1, <1>2

-----------------------------------------------------------------------------
(* The invariant holds at first and every step keeps it                    *)

\* A new vector has no loop in progress.
LEMMA InitInv == Init => IInv
<1> SUFFICES ASSUME Init PROVE IInv
  OBVIOUS
<1>1. VectorInv
  <2>1. parts[2] = <<>> /\ ctx \in Contexts /\ cap \in Nat /\ oldCap \in Nat
    BY DEF Init
  <2>2. PICK e : parts[1] = <<e>>
    BY DEF Init
  <2>3. IsSeq(parts[1])
    <3>1. parts[1] \in Seq({e})
      BY <2>2
    <3> QED
      BY <3>1 DEF IsSeq
  <2> QED
    BY <2>1, <2>3, EmptyIsSeq DEF VectorInv, Planned
<1>2. StepsInv
  <2>1. steps = <<>> /\ phase = "idle"
    BY DEF Init
  <2> QED
    BY <2>1 DEF StepsInv
<1>3. LoopInv /\ OutInv
  BY DEF Init, LoopInv, Filling, OutInv
<1> QED
  BY <1>1, <1>2, <1>3 DEF IInv

\* The steps that read nothing of the call.
PlainSteps == StepNames \ {"dense", "measure"}

\* Steps that ask nothing of the call are known ones.
LEMMA PlainKnown ==
    /\ Seq(PlainSteps) \subseteq Seq(KnownSteps)
    /\ Seq(PlainSteps) \subseteq Seq(KnownSteps')
<1>1. PlainSteps \subseteq KnownSteps /\ PlainSteps \subseteq KnownSteps'
  BY DEF PlainSteps, KnownSteps
<1> QED
  BY <1>1, SeqMonotonic

\* What all calls have in common when they start.
Starts ==
    /\ phase = "idle" /\ phase' = IF steps' = <<>> THEN "idle" ELSE "plan"
    /\ ctx' = ctx /\ out' = out

\* A call that plans known steps keeps the invariant.
LEMMA StartKeeps ==
    ASSUME IInv, Starts, steps' \in Seq(KnownSteps'), VectorInv'
    PROVE  IInv'
<1>1. StepsInv'
  BY DEF Starts, StepsInv
<1>2. LoopInv'
  BY DEF Starts, LoopInv, Filling
<1>3. OutInv'
  BY DEF IInv, Starts, OutInv
<1> QED
  BY <1>1, <1>2, <1>3 DEF IInv

\* set_partition plans such steps.
LEMMA PartitionSteps == \A q : SetPartition(q) \in Seq(PlainSteps)
<1>1. <<>> \in Seq(PlainSteps) /\ <<"repart">> \in Seq(PlainSteps)
  BY DEF PlainSteps, StepNames, Writes, Counted
<1> QED
  BY <1>1 DEF SetPartition

\* perform_u4 plans a partition and a gate.
LEMMA PerformU4Keeps == IInv /\ PerformU4 => IInv'
<1> SUFFICES ASSUME IInv, PerformU4 PROVE IInv'
  OBVIOUS
<1>1. PICK q \in Qubits, g \in Gates1 :
        /\ Begin([op |-> "u4", q |-> q, gate |-> g], SetPartition(q) \o <<"u4">>, ApplyU3(amp, q, g))
        /\ UNCHANGED <<parts, cap, oldCap>>
  BY Zenon DEF PerformU4
<1>2. Starts /\ steps' = SetPartition(q) \o <<"u4">>
  BY <1>1 DEF Begin, Starts, loopVars
<1>3. <<"u4">> \in Seq(PlainSteps)
  BY DEF PlainSteps, StepNames, Writes, Counted
<1>4. steps' \in Seq(KnownSteps')
  BY <1>2, <1>3, PartitionSteps, ConcatProperties, PlainKnown
<1>5. VectorInv'
  BY <1>1, <1>2 DEF IInv, VectorInv, Planned, Starts
<1> QED
  BY <1>2, <1>4, <1>5, StartKeeps

\* perform_sfree plans what the compiled code asks for.
LEMMA PerformSfreeKeeps == IInv /\ PerformSfree => IInv'
<1> SUFFICES ASSUME IInv, PerformSfree PROVE IInv'
  OBVIOUS
<1> DEFINE S(code, mod, q) == IF code = <<>> THEN <<>>
                              ELSE IF mod = {} THEN <<"const">>
                              ELSE IF q # NoQubit THEN SetPartition(q) \o <<"single", "fixup">>
                              ELSE <<"apply", "sort">>
           F(code, mod, q) ==
               /\ Begin([op |-> "sfree", q |-> q, code |-> code, shuffle |-> Shuffles(code), modified |-> mod],
                        S(code, mod, q),
                        Mapped(amp, {[from |-> b, to |-> RunCode(code, Element(b))] : b \in Basis}))
               /\ split' = (IF q # NoQubit THEN q ELSE split)
               /\ UNCHANGED <<parts, cap, oldCap>>
           G(code, mod) == \E q \in IF Cardinality(mod) = 1 THEN mod ELSE {NoQubit} : F(code, mod, q)
<1>1. \E ops \in Queues : \E code \in {CompileQueue(ops)} : \E mod \in {CodeWrites(code)} : G(code, mod)
  BY Zenon DEF PerformSfree
<1> HIDE DEF G
<1>2. PICK code, mod : G(code, mod)
  BY <1>1
<1> USE DEF G
<1> HIDE DEF F
<1>3. PICK q : F(code, mod, q)
  BY <1>2
<1> USE DEF F
<1> HIDE DEF S
<1>4. /\ \E c, a : Begin(c, S(code, mod, q), a)
      /\ UNCHANGED <<parts, cap, oldCap>>
  BY <1>3
<1>5. Starts /\ steps' = S(code, mod, q)
  BY <1>4 DEF Begin, Starts, loopVars
<1>6. /\ <<"single", "fixup">> \in Seq(PlainSteps) /\ <<"apply", "sort">> \in Seq(PlainSteps)
      /\ <<"const">> \in Seq(PlainSteps) /\ <<>> \in Seq(PlainSteps)
  BY DEF PlainSteps, StepNames, Writes, Counted
<1>7. SetPartition(q) \o <<"single", "fixup">> \in Seq(PlainSteps)
  BY <1>6, PartitionSteps, ConcatProperties
<1>8. steps' \in Seq(KnownSteps')
  BY <1>5, <1>6, <1>7, PlainKnown DEF S
<1>9. VectorInv'
  BY <1>4, <1>5 DEF IInv, VectorInv, Planned, Starts
<1> QED
  BY <1>5, <1>8, <1>9, StartKeeps

\* premeasure plans sums.
LEMMA PremeasureKeeps == IInv /\ Premeasure => IInv'
<1> SUFFICES ASSUME IInv, Premeasure PROVE IInv'
  OBVIOUS
<1>1. Starts /\ steps' = <<"sum">> /\ UNCHANGED vectorVars
  BY DEF Premeasure, Begin, Starts, loopVars
<1>2. steps' \in Seq(KnownSteps')
  <2>1. <<"sum">> \in Seq(PlainSteps)
    BY DEF PlainSteps, StepNames, Writes, Counted
  <2> QED
    BY <1>1, <2>1, PlainKnown
<1>3. VectorInv'
  BY <1>1 DEF IInv, VectorInv, Planned, Starts, vectorVars
<1> QED
  BY <1>1, <1>2, <1>3, StartKeeps

\* ensure_qubit and dyn_clone plan an import into a new vector.
LEMMA ImportKeeps == IInv /\ Import => IInv'
<1> SUFFICES ASSUME IInv, Import PROVE IInv'
  OBVIOUS
<1>1. Starts /\ steps' = <<"import">> /\ UNCHANGED vectorVars
  BY DEF Import, Begin, Starts, loopVars
<1>2. steps' \in Seq(KnownSteps')
  <2>1. <<"import">> \in Seq(PlainSteps)
    BY DEF PlainSteps, StepNames, Writes, Counted
  <2> QED
    BY <1>1, <2>1, PlainKnown
<1>3. VectorInv'
  BY <1>1 DEF IInv, VectorInv, Planned, Starts, vectorVars
<1> QED
  BY <1>1, <1>2, <1>3, StartKeeps

\* The spare buffer goes.
LEMMA TrimKeeps == IInv /\ Trim => IInv'
<1> SUFFICES ASSUME IInv, Trim PROVE IInv'
  OBVIOUS
<1>1. Starts /\ steps' = <<>> /\ oldCap' = 0 /\ UNCHANGED <<parts, cap>>
  BY DEF Trim, Begin, Starts, loopVars
<1>2. steps' \in Seq(KnownSteps')
  BY <1>1
<1>3. VectorInv'
  BY <1>1 DEF IInv, VectorInv, Planned, Starts
<1> QED
  BY <1>1, <1>2, <1>3, StartKeeps

\* measure plans a copy, or drops one part.
LEMMA MeasureKeeps == IInv /\ Measure => IInv'
<1> SUFFICES ASSUME IInv, Measure PROVE IInv'
  OBVIOUS
<1>1. PICK q \in Qubits, v \in BOOLEAN, scale \in {"1", "p"} :
        /\ \E a : Begin([op |-> "measure", q |-> q, v |-> v, scale |-> scale],
                         IF split # q THEN <<"measure">> ELSE IF scale = "1" THEN <<>> ELSE <<"normalize">>, a)
        /\ parts' = IF split # q THEN parts ELSE IF v THEN << <<>>, parts[2]>> ELSE <<parts[1], <<>> >>
        /\ UNCHANGED <<split, cap, oldCap>>
  BY DEF Measure
<1>2. /\ Starts /\ call'.v \in BOOLEAN
      /\ steps' = IF split # q THEN <<"measure">> ELSE IF scale = "1" THEN <<>> ELSE <<"normalize">>
  BY <1>1 DEF Begin, Starts, loopVars
<1>3. steps' \in Seq(KnownSteps')
  <2>1. "measure" \in KnownSteps'
    BY <1>2 DEF KnownSteps, StepNames, Writes, Counted
  <2>2. "normalize" \in KnownSteps'
    BY DEF KnownSteps, StepNames
  <2> HIDE DEF KnownSteps
  <2>3. <<"measure">> \in Seq(KnownSteps') /\ <<"normalize">> \in Seq(KnownSteps') /\ <<>> \in Seq(KnownSteps')
    BY <2>1, <2>2
  <2> QED
    BY <1>2, <2>3
<1>4. VectorInv'
  <2>1. IsSeq(parts[1]) /\ IsSeq(parts[2]) /\ IsSeq(<<>>)
    BY EmptyIsSeq DEF IInv, VectorInv, Planned
  <2>2. parts'[1] \in {parts[1], <<>>} /\ parts'[2] \in {parts[2], <<>>}
    BY <1>1
  <2>3. IsSeq(parts'[1]) /\ IsSeq(parts'[2])
    BY <2>1, <2>2
  <2> QED
    BY <1>1, <1>2, <2>3 DEF IInv, VectorInv, Planned, Starts
<1> QED
  BY <1>2, <1>3, <1>4, StartKeeps

\* A dense vector is imported in chunks.
LEMMA ImportDenseKeeps == IInv /\ ImportDense => IInv'
<1> SUFFICES ASSUME IInv, ImportDense PROVE IInv'
  OBVIOUS
<1>1. PICK data \in Imports :
        /\ \E a : Begin([op |-> "dense", data |-> data], <<"dense">>, a)
        /\ parts' = << <<[bits |-> {}, val |-> <<1, 0>>]>>, <<>> >>
        /\ cap' = 1 /\ oldCap' = 0
  BY DEF ImportDense
<1>2. Starts /\ call'.data \in Imports /\ steps' = <<"dense">>
  BY <1>1 DEF Begin, Starts, loopVars
<1>3. steps' \in Seq(KnownSteps')
  <2>1. "dense" \in KnownSteps'
    BY <1>2 DEF KnownSteps, StepNames, Writes, Counted
  <2> QED
    BY <1>2, <2>1
<1>4. VectorInv'
  <2>1. PICK e : parts'[1] = <<e>>
    BY <1>1
  <2>2. IsSeq(parts'[1])
    <3>1. parts'[1] \in Seq({e})
      BY <2>1
    <3> QED
      BY <3>1 DEF IsSeq
  <2>3. IsSeq(parts'[2])
    <3>1. parts'[2] = <<>>
      BY <1>1
    <3> QED
      BY <3>1, EmptyIsSeq
  <2> QED
    BY <1>1, <1>2, <2>2, <2>3 DEF IInv, VectorInv, Planned, Starts
<1> QED
  BY <1>2, <1>3, <1>4, StartKeeps

\* Where the steps of a call leave what is known of them alone.
LEMMA StepsKept ==
    ASSUME StepsInv, call' = call, steps' = steps,
           phase \in {"plan", "count", "run"}, phase' = "count" => Head(steps) \in Writes
    PROVE  StepsInv'
BY DEF StepsInv, KnownSteps

\* The end of a step.
LEMMA NextStepKeeps ==
    ASSUME IInv, phase \in {"count", "run"}, NextStep, call' = call, VectorInv'
    PROVE  IInv'
<1>1. steps \in Seq(KnownSteps) /\ steps # <<>>
  BY DEF IInv, StepsInv
<1>2. KnownSteps' = KnownSteps
  BY DEF KnownSteps
<1>3. steps' = Tail(steps) /\ phase' = (IF steps' = <<>> THEN "idle" ELSE "plan") /\ out' = {}
  BY DEF NextStep
<1>4. steps' \in Seq(KnownSteps')
  BY <1>1, <1>2, <1>3, HeadTailProperties
<1>5. StepsInv'
  BY <1>3, <1>4 DEF StepsInv
<1>6. LoopInv' /\ OutInv'
  BY <1>3 DEF LoopInv, Filling, OutInv
<1> QED
  BY <1>5, <1>6 DEF IInv

\* The lengths a plan starts with.
FirstLens(t, step) ==
    [i \in DOMAIN t |-> IF step = "import" THEN <<t[i][1].hi - t[i][1].lo + 1, 0>> ELSE <<0, 0>>]

\* Every task begins with counts that are numbers.
LEMMA FirstLensType ==
    ASSUME NEW t \in Seq(Tasks), NEW step,
           step = "import" => \A i \in DOMAIN t : t[i][1].hi - t[i][1].lo + 1 \in Nat
    PROVE  /\ IsSeq(FirstLens(t, step)) /\ DOMAIN FirstLens(t, step) = DOMAIN t
           /\ \A i \in DOMAIN FirstLens(t, step) : \A p \in 1 .. 2 : FirstLens(t, step)[i][p] \in Nat
<1> DEFINE l == FirstLens(t, step)
<1>1. Len(t) \in Nat /\ DOMAIN t = 1 .. Len(t)
  BY LenProperties
<1>2. DOMAIN l = DOMAIN t
  BY DEF FirstLens
<1>3. l = [i \in 1 .. Len(t) |-> l[i]]
  BY <1>1 DEF FirstLens
<1>4. IsSeq(l)
  BY <1>1, <1>3, FunctionIsSeq
<1>5. ASSUME NEW i \in DOMAIN t, NEW p \in 1 .. 2
      PROVE  l[i][p] \in Nat
  BY <1>1 DEF FirstLens
<1> QED
  BY <1>2, <1>4, <1>5

\* The next step is cut into tasks.
LEMMA PlanStepKeeps == IInv /\ PlanStep => IInv'
<1> SUFFICES ASSUME IInv, PlanStep PROVE IInv'
  OBVIOUS
<1> DEFINE step == Head(steps)
           f == PlanOf(step)
<1>1. /\ phase = "plan" /\ out' = out
      /\ ctx' = ctx /\ parts' = parts /\ cap' = cap /\ oldCap' = oldCap /\ call' = call /\ steps' = steps
  BY DEF PlanStep, vectorVars
<1>2. steps \in Seq(KnownSteps) /\ steps # <<>> /\ step \in KnownSteps
  BY <1>1, HeadTailProperties DEF IInv, StepsInv
<1>3. VectorInv'
  BY <1>1 DEF IInv, VectorInv, Planned
<1>4. out = {}
  BY <1>1 DEF IInv, OutInv
<1>5. CASE ~f.ok
  <2>1. phase' = "panic"
    BY <1>5 DEF PlanStep
  <2>2. StepsInv'
    BY <1>1, <2>1, StepsKept DEF IInv
  <2>3. LoopInv' /\ OutInv'
    BY <1>1, <1>4, <2>1 DEF LoopInv, Filling, OutInv
  <2> QED
    BY <1>3, <2>2, <2>3 DEF IInv
<1>6. CASE f.ok
  <2> DEFINE t == f.tasks
             L == FirstLens(t, step)
  <2>1. /\ phase' = IF step \in Writes THEN "count" ELSE "run"
        /\ tasks' = t /\ lens' = L
        /\ todo' = IF step = "import" THEN {} ELSE DOMAIN t
    BY <1>6, Zenon DEF PlanStep, FirstLens
  <2>2. StepsInv'
    BY <1>1, <2>1, StepsKept DEF IInv
  <2>3. OutInv'
    BY <1>1, <1>4, <2>1 DEF OutInv
  <2>4. CASE step \notin Writes
    <3>1. LoopInv'
      BY <1>1, <2>1, <2>4 DEF LoopInv, Filling
    <3> QED
      BY <1>3, <2>2, <2>3, <3>1 DEF IInv
  <2>5. CASE step \in Writes
    <3>1. step = "dense" => call.data \in Imports
      BY <1>2 DEF KnownSteps
    <3>2. Planned
      BY DEF IInv, VectorInv
    <3>3. /\ t \in Seq(Tasks)
          /\ step = "import" => \A i \in DOMAIN t : t[i][1].hi - t[i][1].lo + 1 \in Nat
      BY <1>6, <2>5, <3>1, <3>2, PlanType
    <3> HIDE DEF t
    <3>4. IsSeq(L) /\ DOMAIN L = DOMAIN t /\ \A i \in DOMAIN L : \A p \in 1 .. 2 : L[i][p] \in Nat
      BY <3>3, FirstLensType
    <3>5. LensTyped' /\ DOMAIN lens' = DOMAIN tasks' /\ tasks' \in Seq(Tasks) /\ todo' \subseteq DOMAIN tasks'
      <4> HIDE DEF L
      <4> QED
        BY <2>1, <3>3, <3>4 DEF LensTyped
    <3>6. phase' = "count" /\ Head(steps') = step
      BY <1>1, <2>1, <2>5
    <3>7. ASSUME NEW i \in DOMAIN tasks', i \notin todo'
          PROVE  Agree(lens'[i], WriteOf(Head(steps), i)')
      <4>1. step = "import" /\ i \in DOMAIN t
        BY <2>1, <3>7
      <4> DEFINE n == t[i][1].hi - t[i][1].lo + 1
                 r == SubSeq(parts'[1] \o parts'[2], t[i][1].lo, t[i][1].hi)
      <4>2. t[i] \in Tasks
        BY <3>3, <4>1, ElementOfSeq, LenProperties
      <4>3. t[i][1].lo \in Int /\ t[i][1].hi \in Int /\ n \in Nat
        BY <3>3, <4>1, <4>2 DEF Tasks, Ranges
      <4>4. Head(steps)' = "import"
        BY <3>6, <4>1
      <4>5. WriteOf(Head(steps), i)' = <<r, <<>> >>
        <5>1. WriteOf(Head(steps), i)' = <<Input(i)'[1], <<>> >>
          BY <4>4 DEF WriteOf
        <5>2. Input(i)'[1] = r
          <6>1. Input(i)' = [p \in 1 .. 2 |-> SubSeq(<<parts'[1] \o parts'[2], <<>> >>[p], t[i][p].lo, t[i][p].hi)]
            BY <2>1, <4>4 DEF Input
          <6>2. 1 \in 1 .. 2 /\ \A x, y : <<x, y>>[1] = x
            OBVIOUS
          <6> QED
            BY <6>1, <6>2, Zenon
        <5> QED
          BY <5>1, <5>2
      <4>6. IsSeq(r) /\ Len(r) = n
        BY <4>3, SubSeqIsSeq
      <4>7. DOMAIN r = 1 .. n
        BY <4>6, SeqFacts
      <4>8. DOMAIN <<>> = 1 .. 0
        BY EmptyIsSeq
      <4>9. lens'[i] = <<n, 0>>
        BY <2>1, <4>1 DEF FirstLens
      <4> HIDE DEF n, r
      <4> QED
        BY <4>3, <4>5, <4>7, <4>8, <4>9 DEF Agree
    <3>8. step = "import" => todo' = {}
      BY <2>1
    <3>9. LoopInv'
      BY <3>5, <3>6, <3>7, <3>8 DEF LoopInv
    <3> QED
      BY <1>3, <2>2, <2>3, <3>9 DEF IInv
  <2> QED
    BY <2>4, <2>5
<1> QED
  BY <1>5, <1>6

\* A counting task.
LEMMA CountTaskKeeps == \A i \in todo : IInv /\ CountTask(i) => IInv'
<1> SUFFICES ASSUME NEW i \in todo, IInv, CountTask(i) PROVE IInv'
  OBVIOUS
<1> DEFINE step == Head(steps)
           n == Len(lens)
<1>1. /\ phase = "count" /\ phase' = "count" /\ out' = out /\ tasks' = tasks
      /\ ctx' = ctx /\ parts' = parts /\ cap' = cap /\ oldCap' = oldCap /\ call' = call /\ steps' = steps
      /\ lens' = [lens EXCEPT ![i] = CountOf(step, i)] /\ todo' = todo \ {i}
  BY DEF CountTask, vectorVars
<1>2. VectorInv' /\ StepsInv'
  <2>1. VectorInv'
    BY <1>1 DEF IInv, VectorInv, Planned
  <2>2. StepsInv'
    BY <1>1, StepsKept DEF IInv, StepsInv
  <2> QED
    BY <2>1, <2>2
<1>3. OutInv'
  BY <1>1 DEF IInv, OutInv
<1>4. step \in KnownSteps /\ step \in Writes
  BY <1>1, HeadTailProperties DEF IInv, StepsInv
<1>5. /\ tasks \in Seq(Tasks) /\ LensTyped /\ DOMAIN lens = DOMAIN tasks /\ todo \subseteq DOMAIN tasks
      /\ \A j \in DOMAIN tasks : j \notin todo => Agree(lens[j], WriteOf(step, j))
      /\ step = "import" => todo = {}
  BY <1>1, <1>4 DEF IInv, LoopInv, Filling
<1>6. step \in Counted
  BY <1>4, <1>5 DEF Writes
<1>7. i \in DOMAIN tasks /\ tasks[i] \in Tasks
  BY <1>5, ElementOfSeq, LenProperties
<1>8. Agree(CountOf(step, i), WriteOf(step, i))
  BY <1>4, <1>6, <1>7, CountAgrees DEF KnownSteps
<1>9. n \in Nat /\ DOMAIN lens = 1 .. n
  BY <1>5, LensFacts
<1>10. /\ DOMAIN lens' = DOMAIN lens /\ lens'[i] = CountOf(step, i)
       /\ \A j \in DOMAIN lens : j # i => lens'[j] = lens[j]
       /\ lens' = [j \in 1 .. n |-> lens'[j]]
  BY <1>1, <1>5, <1>7, <1>9
<1>11. LensTyped'
  <2>1. IsSeq(lens')
    <3> HIDE DEF n
    <3> QED
      BY <1>9, <1>10, FunctionIsSeq
  <2>2. \A p \in 1 .. 2 : CountOf(step, i)[p] \in Nat
    BY <1>8 DEF Agree
  <2>3. \A j \in DOMAIN lens' : \A p \in 1 .. 2 : lens'[j][p] \in Nat
    <3> HIDE DEF n, step
    <3> QED
      BY <1>5, <1>10, <2>2 DEF LensTyped
  <2> QED
    BY <2>1, <2>3 DEF LensTyped
<1>12. \A j : WriteOf(Head(steps), j)' = WriteOf(step, j)
  BY <1>1, Stable
<1>13. ASSUME NEW j \in DOMAIN tasks', j \notin todo'
       PROVE  Agree(lens'[j], WriteOf(Head(steps), j)')
  <2>1. CASE j = i
    BY <1>8, <1>10, <1>12, <2>1
  <2>2. CASE j # i
    <3>1. j \in DOMAIN tasks /\ j \notin todo /\ lens'[j] = lens[j]
      BY <1>1, <1>5, <1>10, <1>13, <2>2
    <3>2. Agree(lens[j], WriteOf(step, j))
      BY <1>5, <3>1
    <3> QED
      BY <1>12, <3>1, <3>2
  <2> QED
    BY <2>1, <2>2
<1>14. LoopInv'
  <2>1. tasks' \in Seq(Tasks) /\ DOMAIN lens' = DOMAIN tasks' /\ todo' \subseteq DOMAIN tasks'
    BY <1>1, <1>5, <1>10
  <2>2. Head(steps') = "import" => todo' = {}
    BY <1>1, <1>5
  <2> HIDE DEF step
  <2> QED
    BY <1>1, <1>11, <1>13, <2>1, <2>2 DEF LoopInv
<1> QED
  BY <1>2, <1>3, <1>14 DEF IInv

\* A measurement that keeps everything makes no copy.
LEMMA KeepAllKeeps == IInv /\ KeepAll => IInv'
<1> SUFFICES ASSUME IInv, KeepAll PROVE IInv'
  OBVIOUS
<1>1. /\ phase = "count" /\ phase' = (IF steps' = <<>> THEN "idle" ELSE "plan")
      /\ steps' \in {<<>>, <<"normalize">>} /\ out' = out
      /\ ctx' = ctx /\ parts' = parts /\ cap' = cap /\ oldCap' = oldCap
  BY DEF KeepAll, vectorVars
<1>2. VectorInv'
  BY <1>1 DEF IInv, VectorInv, Planned
<1>3. steps' \in Seq(KnownSteps')
  <2>1. <<>> \in Seq(PlainSteps) /\ <<"normalize">> \in Seq(PlainSteps)
    BY DEF PlainSteps, StepNames, Writes, Counted
  <2> QED
    BY <1>1, <2>1, PlainKnown
<1>4. StepsInv'
  BY <1>1, <1>3 DEF StepsInv
<1>5. LoopInv' /\ OutInv'
  BY <1>1 DEF IInv, LoopInv, Filling, OutInv
<1> QED
  BY <1>2, <1>4, <1>5 DEF IInv

\* The larger of two.
LEMMA MaxOfTwo ==
    ASSUME NEW a \in Nat, NEW b \in Nat
    PROVE  Max({a, b}) \in Nat /\ a <= Max({a, b}) /\ b <= Max({a, b})
<1> DEFINE S == {a, b}
           w == a + b
<1>1. S \in SUBSET Nat /\ S # {} /\ w \in Nat /\ (\A k \in S : k <= w) /\ a \in S /\ b \in S
  OBVIOUS
<1> HIDE DEF S, w
<1>2. Max(S) \in S /\ \A k \in S : k <= Max(S)
  BY <1>1, MaxOf
<1>3. Max(S) \in Nat /\ a <= Max(S) /\ b <= Max(S)
  BY <1>1, <1>2
<1> QED
  BY <1>3 DEF S

\* The buffer gets the length that the counts add up to.
LEMMA ReserveKeeps == IInv /\ Reserve => IInv'
<1> SUFFICES ASSUME IInv, Reserve PROVE IInv'
  OBVIOUS
<1> DEFINE step == Head(steps)
           old == IF step = "import" THEN 0 ELSE oldCap
<1>1. /\ phase = "count" /\ phase' = "run" /\ todo = {} /\ todo' = DOMAIN tasks /\ out' = out
      /\ tasks' = tasks /\ lens' = lens /\ outCap' = Max({old, OutLen})
      /\ ctx' = ctx /\ parts' = parts /\ cap' = cap /\ oldCap' = 0 /\ call' = call /\ steps' = steps
  BY DEF Reserve
<1>2. VectorInv'
  BY <1>1 DEF IInv, VectorInv, Planned
<1>3. StepsInv' /\ step \in Writes
  BY <1>1, StepsKept DEF IInv, StepsInv
<1>4. /\ tasks \in Seq(Tasks) /\ LensTyped /\ DOMAIN lens = DOMAIN tasks
      /\ \A i \in DOMAIN tasks : Agree(lens[i], WriteOf(step, i))
  BY <1>1, <1>3 DEF IInv, LoopInv, Filling
<1>5. LensTyped' /\ OutLen' = OutLen
  BY <1>1, <1>4, StableLens
<1>6. \A i : WriteOf(Head(steps), i)' = WriteOf(step, i)
  BY <1>1, Stable
<1>7. LoopInv'
  <2>1. tasks' \in Seq(Tasks) /\ DOMAIN lens' = DOMAIN tasks' /\ todo' \subseteq DOMAIN tasks' /\ phase' # "count"
    BY <1>1, <1>4
  <2>2. \A i \in DOMAIN tasks' : Agree(lens'[i], WriteOf(Head(steps), i)')
    BY <1>1, <1>4, <1>6
  <2> QED
    BY <1>5, <2>1, <2>2 DEF LoopInv
<1>8. OutInv'
  <2>1. OutLen \in Nat /\ old \in Nat
    BY <1>4, LensFacts DEF IInv, VectorInv
  <2>2. outCap' \in Nat /\ OutLen' <= outCap'
    <3> HIDE DEF old
    <3> QED
      BY <1>1, <1>5, <2>1, MaxOfTwo
  <2>3. out' = {}
    BY <1>1 DEF IInv, OutInv
  <2>4. UNION {Written(i)' : i \in DOMAIN tasks' \ todo'} = {}
    BY <1>1
  <2> QED
    BY <1>1, <1>3, <2>2, <2>3, <2>4 DEF OutInv
<1> QED
  BY <1>2, <1>3, <1>7, <1>8 DEF IInv

\* A failed allocation empties the vector, and the call goes on.
LEMMA ReserveFailsKeeps == IInv /\ ReserveFails => IInv'
<1> SUFFICES ASSUME IInv, ReserveFails PROVE IInv'
  OBVIOUS
<1>1. /\ phase = "count" /\ NextStep /\ call' = call
      /\ ctx' = ctx /\ parts' = << <<>>, <<>> >> /\ cap' = 0 /\ oldCap' = 0
  BY DEF ReserveFails
<1>2. VectorInv'
  <2>1. parts'[1] = <<>> /\ parts'[2] = <<>>
    BY <1>1
  <2> QED
    BY <1>1, <2>1, EmptyIsSeq DEF IInv, VectorInv, Planned
<1> QED
  BY <1>1, <1>2, NextStepKeeps

\* A writing task.
LEMMA WriteTaskKeeps == \A i \in todo : IInv /\ WriteTask(i) => IInv'
<1> SUFFICES ASSUME NEW i \in todo, IInv, WriteTask(i) PROVE IInv'
  OBVIOUS
<1> DEFINE step == Head(steps)
<1>1. /\ phase = "run" /\ phase' = "run" /\ step \in Writes /\ todo' = todo \ {i}
      /\ tasks' = tasks /\ lens' = lens /\ outCap' = outCap
      /\ ctx' = ctx /\ parts' = parts /\ cap' = cap /\ oldCap' = oldCap /\ call' = call /\ steps' = steps
  BY DEF WriteTask, vectorVars
<1>2. out' = out \cup Written(i)
  BY DEF WriteTask, Written
<1>3. VectorInv' /\ StepsInv'
  <2>1. VectorInv'
    BY <1>1 DEF IInv, VectorInv, Planned
  <2>2. StepsInv'
    BY <1>1, StepsKept DEF IInv, StepsInv
  <2> QED
    BY <2>1, <2>2
<1>4. /\ tasks \in Seq(Tasks) /\ LensTyped /\ DOMAIN lens = DOMAIN tasks /\ todo \subseteq DOMAIN tasks
      /\ \A j \in DOMAIN tasks : Agree(lens[j], WriteOf(step, j))
  BY <1>1 DEF IInv, LoopInv, Filling
<1>5. /\ LensTyped' /\ OutLen' = OutLen
      /\ \A j : WindowStart(j, 1)' = WindowStart(j, 1) /\ WindowStart(j, 2)' = WindowStart(j, 2)
  BY <1>1, <1>4, StableLens
<1>6. \A j : WriteOf(Head(steps), j)' = WriteOf(step, j)
  BY <1>1, Stable
<1>7. LoopInv'
  <2>1. tasks' \in Seq(Tasks) /\ DOMAIN lens' = DOMAIN tasks' /\ todo' \subseteq DOMAIN tasks' /\ phase' # "count"
    BY <1>1, <1>4
  <2>2. \A j \in DOMAIN tasks' : Agree(lens'[j], WriteOf(Head(steps), j)')
    BY <1>1, <1>4, <1>6
  <2> QED
    BY <1>5, <2>1, <2>2 DEF LoopInv
<1>8. \A j : Written(j)' = Written(j)
  <2> TAKE j
  <2>1. \A p \in 1 .. 2 : WindowStart(j, p)' = WindowStart(j, p)
    BY <1>1 DEF WindowStart, PartLen, Lens
  <2> QED
    BY <1>6, <2>1 DEF Written
<1>9. OutInv'
  <2>1. out = UNION {Written(j) : j \in DOMAIN tasks \ todo} /\ outCap \in Nat /\ OutLen <= outCap
    BY <1>1 DEF IInv, OutInv
  <2>2. DOMAIN tasks' \ todo' = (DOMAIN tasks \ todo) \cup {i}
    BY <1>1, <1>4
  <2>3. out' = UNION {Written(j) : j \in DOMAIN tasks' \ todo'}
    BY <1>2, <2>1, <2>2
  <2>4. out' = UNION {Written(j)' : j \in DOMAIN tasks' \ todo'}
    BY <1>8, <2>3
  <2> QED
    BY <1>1, <1>5, <2>1, <2>4 DEF OutInv
<1> QED
  BY <1>3, <1>7, <1>9 DEF IInv

\* A task that works in place.
LEMMA InPlaceTaskKeeps == \A i \in todo : IInv /\ InPlaceTask(i) => IInv'
<1> SUFFICES ASSUME NEW i \in todo, IInv, InPlaceTask(i) PROVE IInv'
  OBVIOUS
<1>1. /\ phase = "run" /\ phase' = "run" /\ Head(steps) \notin Writes /\ out' = out
      /\ ctx' = ctx /\ cap' = cap /\ oldCap' = oldCap /\ call' = call /\ steps' = steps
  BY DEF InPlaceTask
<1>2. \A p \in 1 .. 2 : parts'[p] = [k \in DOMAIN parts[p] |-> parts'[p][k]]
  BY DEF InPlaceTask
<1>3. ASSUME NEW p \in 1 .. 2
      PROVE  IsSeq(parts'[p])
  <2>1. IsSeq(parts[p])
    BY DEF IInv, VectorInv, Planned
  <2>2. Len(parts[p]) \in Nat /\ DOMAIN parts[p] = 1 .. Len(parts[p])
    BY <2>1, SeqFacts
  <2> QED
    BY <1>2, <2>2, FunctionIsSeq
<1>4. VectorInv'
  BY <1>1, <1>3 DEF IInv, VectorInv, Planned
<1>5. StepsInv'
  BY <1>1, StepsKept DEF IInv, StepsInv
<1>6. LoopInv' /\ OutInv'
  BY <1>1 DEF IInv, LoopInv, Filling, OutInv
<1> QED
  BY <1>4, <1>5, <1>6 DEF IInv

\* The filled buffer becomes the vector.
LEMMA SetStateKeeps == IInv /\ SetState => IInv'
<1> SUFFICES ASSUME IInv, SetState PROVE IInv'
  OBVIOUS
<1> DEFINE mid == IF Head(steps) = "import" THEN Len(parts[1]) ELSE PartLen(1)
<1>1. /\ phase = "run" /\ Head(steps) \in Writes /\ NextStep /\ call' = call /\ ctx' = ctx
      /\ cap' = outCap /\ oldCap' = IF Head(steps) = "import" THEN 0 ELSE Max({cap, oldCap})
  BY DEF SetState
<1>2. PICK new : parts' = <<SubSeq(new, 1, mid), SubSeq(new, mid + 1, OutLen)>>
  BY Zenon DEF SetState
<1>3. LensTyped /\ outCap \in Nat
  BY <1>1 DEF IInv, LoopInv, Filling, OutInv
<1>4. mid \in Nat /\ OutLen \in Nat
  BY <1>3, LensFacts, LengthsType DEF IInv, VectorInv
<1>5. IsSeq(parts'[1]) /\ IsSeq(parts'[2])
  <2> HIDE DEF mid
  <2>1. IsSeq(SubSeq(new, 1, mid)) /\ IsSeq(SubSeq(new, mid + 1, OutLen))
    BY <1>4, SubSeqIsSeq
  <2> QED
    BY <1>2, <2>1
<1>6. cap' \in Nat /\ oldCap' \in Nat
  <2>1. cap \in Nat /\ oldCap \in Nat
    BY DEF IInv, VectorInv
  <2>2. Max({cap, oldCap}) \in Nat
    BY <2>1, MaxOfTwo
  <2> QED
    BY <1>1, <1>3, <2>2
<1>7. VectorInv'
  BY <1>1, <1>5, <1>6 DEF IInv, VectorInv, Planned
<1> QED
  BY <1>1, <1>7, NextStepKeeps

\* A loop that changed the vector in place is over.
LEMMA EndLoopKeeps == IInv /\ EndLoop => IInv'
<1> SUFFICES ASSUME IInv, EndLoop PROVE IInv'
  OBVIOUS
<1>1. /\ phase = "run" /\ NextStep /\ call' = call
      /\ ctx' = ctx /\ parts' = parts /\ cap' = cap /\ oldCap' = oldCap
  BY DEF EndLoop
<1>2. VectorInv'
  BY <1>1 DEF IInv, VectorInv, Planned
<1> QED
  BY <1>1, <1>2, NextStepKeeps

\* Nothing happens.
LEMMA StutterKeeps == IInv /\ UNCHANGED vars => IInv'
<1> SUFFICES ASSUME IInv, UNCHANGED vars PROVE IInv'
  OBVIOUS
<1>1. /\ ctx' = ctx /\ parts' = parts /\ cap' = cap /\ oldCap' = oldCap /\ call' = call /\ steps' = steps
      /\ phase' = phase /\ tasks' = tasks /\ todo' = todo /\ lens' = lens /\ out' = out /\ outCap' = outCap
  BY DEF vars, vectorVars, loopVars
<1>2. VectorInv'
  BY <1>1 DEF IInv, VectorInv, Planned
<1>3. StepsInv'
  BY <1>1 DEF IInv, StepsInv, KnownSteps
<1>4. LensTyped' = LensTyped /\ OutLen' = OutLen
  BY <1>1, StableLens
<1>5. \A i : WriteOf(Head(steps), i)' = WriteOf(Head(steps), i)
  BY <1>1, Stable
<1>6. LoopInv'
  <2>1. CASE ~Filling(phase, steps)
    BY <1>1, <2>1 DEF LoopInv, Filling
  <2>2. CASE Filling(phase, steps)
    <3>1. /\ tasks \in Seq(Tasks) /\ LensTyped /\ DOMAIN lens = DOMAIN tasks /\ todo \subseteq DOMAIN tasks
          /\ \A i \in DOMAIN tasks :
                phase = "run" \/ i \notin todo => Agree(lens[i], WriteOf(Head(steps), i))
          /\ phase = "count" /\ Head(steps) = "import" => todo = {}
      BY <2>2 DEF IInv, LoopInv
    <3> QED
      BY <1>1, <1>4, <1>5, <3>1 DEF LoopInv
  <2> QED
    BY <2>1, <2>2
<1>7. \A j : Written(j)' = Written(j)
  <2> TAKE j
  <2>1. \A p \in 1 .. 2 : WindowStart(j, p)' = WindowStart(j, p)
    BY <1>1 DEF WindowStart, PartLen, Lens
  <2> QED
    BY <1>5, <2>1 DEF Written
<1>8. OutInv'
  <2>1. CASE phase = "run" /\ Head(steps) \in Writes
    <3>1. out = UNION {Written(j) : j \in DOMAIN tasks \ todo} /\ outCap \in Nat /\ OutLen <= outCap
      BY <2>1 DEF IInv, OutInv
    <3>2. out' = UNION {Written(j)' : j \in DOMAIN tasks' \ todo'}
      BY <1>1, <1>7, <3>1
    <3> QED
      BY <1>1, <1>4, <2>1, <3>1, <3>2 DEF OutInv
  <2>2. CASE ~(phase = "run" /\ Head(steps) \in Writes)
    BY <1>1, <2>2 DEF IInv, OutInv
  <2> QED
    BY <2>1, <2>2
<1> QED
  BY <1>2, <1>3, <1>6, <1>8 DEF IInv

\* Every step of the vector keeps the invariant.
LEMMA NextKeeps == IInv /\ [Next]_vars => IInv'
<1>1. ASSUME IInv, Step PROVE IInv'
  <2>1. CASE \E i \in todo : CountTask(i) \/ WriteTask(i) \/ InPlaceTask(i)
    BY <1>1, <2>1, CountTaskKeeps, WriteTaskKeeps, InPlaceTaskKeeps
  <2>2. CASE PlanStep \/ KeepAll \/ Reserve \/ ReserveFails \/ SetState \/ EndLoop
    BY <1>1, <2>2, PlanStepKeeps, KeepAllKeeps, ReserveKeeps, ReserveFailsKeeps, SetStateKeeps, EndLoopKeeps
  <2> QED
    BY <1>1, <2>1, <2>2 DEF Step
<1>2. ASSUME IInv, PerformU4 \/ PerformSfree \/ Premeasure \/ Measure \/ ImportDense \/ Import \/ Trim
      PROVE  IInv'
  BY <1>2, PerformU4Keeps, PerformSfreeKeeps, PremeasureKeeps, MeasureKeeps, ImportDenseKeeps, ImportKeeps, TrimKeeps
<1> QED
  BY <1>1, <1>2, StutterKeeps DEF Next

\* Two parallel loops agree, whatever the vector, the configuration and the
\* order of the tasks: what the counting loop returned for a chunk is what the
\* writing loop pushes for it, so the writes that BufWriter does not check go to
\* places of their own, all inside the buffer, and leave no place unwritten.
THEOREM WindowsAlwaysExact == Spec => []WindowsExact
<1>1. Init => IInv
  BY InitInv
<1>2. IInv /\ [Next]_vars => IInv'
  BY NextKeeps
<1>3. IInv => WindowsExact
  BY WindowsFollow
<1> QED
  BY <1>1, <1>2, <1>3, PTL DEF Spec
=============================================================================
