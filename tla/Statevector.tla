---------------------------- MODULE Statevector -----------------------------
(***************************************************************************)
(* The state vector: src/src/statevector.rs with the merges of             *)
(* src/src/util.rs, the buffers of src/src/buffer.rs and the parallel      *)
(* loops PoolRef::map and Scope::for_each.                                 *)
(*                                                                         *)
(* A vector is two sorted runs of elements, split by one qubit.  A call    *)
(* goes through steps.  A step that changes the number of elements cuts    *)
(* its input into chunks, counts in parallel what every chunk will give,   *)
(* reserves one window of the output per chunk and then fills the windows  *)
(* in parallel, without any further check; the other steps change chunks   *)
(* in place.  The tasks of one loop run in any order on the pool and in    *)
(* their own order without it.                                             *)
(*                                                                         *)
(* Amplitudes are exact (see Gates).  Dividing by the square root of a     *)
(* probability is represented by a factor i, another map that can be       *)
(* undone: a division that is missing or made twice shows.                 *)
(***************************************************************************)
EXTENDS SfreeQueue

CONSTANTS
    ElementSize,  \* size_of::<Element<N>>()
    Contexts,     \* the configurations: threads and the sizes of Context
    ImportChunk,  \* CHUNK_SIZE of import() and import_dense()
    Gates1,       \* gates offered to perform_u4()
    Queues,       \* queues offered to perform_sfree()
    Imports,      \* dense vectors offered to import_dense()
    MaxCalls,     \* bound on the calls
    CompileQueue(_),  \* Queue::compile: the code made of a queue's operations
    RunCode(_, _),    \* Compiled::perform: what code does to an element
    CodeWrites(_)     \* Stat: the qubits code writes

ASSUME StatevectorAssumption ==
    /\ 0 \in Qubits
    /\ ElementSize \in Nat \ {0} /\ ImportChunk \in Nat \ {0} /\ MaxCalls \in Nat
    /\ Contexts \subseteq [threads : Nat \ {0}, chunk_size : Nat \ {0}, multithreading_threshold : Nat,
                           work_item_min_size : Nat \ {0}, work_item_max_size : Nat \ {0}]
    /\ Gates1 \subseteq {g \in U3 : ~IsSfree(g)}
    /\ \A data \in Imports : data \in Seq(Int \X Int)

VARIABLES
    ctx,      \* Context
    parts,    \* state: the two runs
    split,    \* partitioned_by
    cap,      \* elements the buffer of state has room for
    oldCap,   \* elements old_buf has room for
    call,     \* the call in progress, or the last one
    steps,    \* what is left of it, the current step first
    phase,    \* where the current step is
    tasks,    \* the chunks of the current loop
    todo,     \* the tasks that have not run
    pool,     \* use_pool
    lens,     \* what the counting loop returned
    out,      \* the buffer being written: the values written to each position
    outCap,   \* its room
    sums,     \* the two atomic sums of premeasure()
    amp,      \* history: the vector the calls ask for
    calls     \* history: number of calls

vectorVars == <<parts, split, cap, oldCap>>
loopVars == <<tasks, todo, pool, lens, out, outCap>>
vars == <<ctx, vectorVars, call, steps, phase, loopVars, sums, amp, calls>>

-----------------------------------------------------------------------------
(* Elements and their order                                                *)

\* BitSet as a number.
Rank == [b \in Basis |-> MapThenSumSet(LAMBDA q : 2^q, b)]

\* BitSet::from_index
FromIndex(k) == CHOOSE b \in Basis : Rank[b] = k

NoQubit == -1
Garbage == [bits |-> {}, val |-> CZero]   \* what unwritten memory may hold

\* The keys of a run: its bits, without the bit of qubit q if there is one.
Keys(run, q) == [k \in DOMAIN run |-> Rank[run[k].bits \ {q}]]

\* slice::sort_unstable_by_key and par_quicksort
Sorted(run, q) == SortSeq(run, LAMBDA d, e : Rank[d.bits \ {q}] < Rank[e.bits \ {q}])

Bit(e, q) == IF q \in e.bits THEN 1 ELSE 0

-----------------------------------------------------------------------------
(* src/src/util.rs                                                         *)

\* Fault: equal keys are not looked for, and may be torn apart.
MergeBoundariesTearing(k0, k1, target) ==
    LET n0 == CHOOSE n \in 0 .. Len(k0) :
                 /\ target - n \in 0 .. Len(k1)
                 /\ n > 0 /\ target - n < Len(k1) => k0[n] <= k1[target - n + 1]
                 /\ target - n > 0 /\ n < Len(k0) => k1[target - n] <= k0[n + 1]
    IN  <<n0, target - n0>>

\* The element of a singleton, which is computed once.
Only(S) == CHOOSE x \in S : TRUE

\* One round of merge_boundaries: s.lo .. s.hi are the sizes of the first run
\* that are left, s.on says that the search goes on.
BoundaryRound(k0, k1, target, s) ==
    LET n0 == (s.lo + s.hi) \div 2
        n1 == target - n0
        left == IF n0 > 0 /\ n1 < Len(k1) THEN k0[n0] - k1[n1 + 1] ELSE -1
        right == IF n1 > 0 /\ n0 < Len(k0) THEN k0[n0 + 1] - k1[n1] ELSE 1
        return(r) == [lo |-> s.lo, hi |-> s.hi, on |-> FALSE, ret |-> r]
        narrow(lo, hi) == [lo |-> lo, hi |-> hi, on |-> lo <= hi, ret |-> <<>>]
    IN  IF ~s.on THEN s
        ELSE IF left = 0 THEN return(<<n0 - 1, n1>>)
        ELSE IF left > 0 THEN narrow(s.lo, n0 - 1)
        ELSE IF right = 0 THEN return(<<n0, n1 - 1>>)
        ELSE IF right < 0 THEN narrow(n0 + 1, s.hi)
        ELSE return(<<n0, n1>>)

\* merge_boundaries: how much of two runs of keys makes up the first target
\* elements, without tearing equal keys apart.  The empty tuple is a failed
\* assertion.  A round that does not return leaves fewer sizes.
MergeBoundaries(k0, k1, target) ==
    LET Search[i \in Nat] ==
            IF i = 0 THEN [lo |-> Max({0, target - Len(k1)}), hi |-> Min({Len(k0), target}), on |-> TRUE, ret |-> <<>>]
            ELSE Only({BoundaryRound(d0, d1, target, s) : d0 \in {k0}, d1 \in {k1}, s \in {Search[i - 1]}})
    IN  Search[target + 1].ret

\* A task: a range of either run.
Task(lo0, hi0, lo1, hi1) == <<[lo |-> lo0, hi |-> hi0], [lo |-> lo1, hi |-> hi1]>>

\* One round of merge_chunk_pairs, which takes the next elements up to the first
\* upto of all.
ChunkPairsRound(k0, k1, upto, r) ==
    LET target == upto - (r.at0 + r.at1)
        cut(b) == IF b = <<>> THEN [ok |-> FALSE, at0 |-> r.at0, at1 |-> r.at1, pairs |-> r.pairs]
                  ELSE [ok |-> TRUE, at0 |-> r.at0 + b[1], at1 |-> r.at1 + b[2],
                        pairs |-> Append(r.pairs, Task(r.at0 + 1, r.at0 + b[1], r.at1 + 1, r.at1 + b[2]))]
    IN  IF ~r.ok \/ target <= 0 THEN r
        ELSE Only({cut(b) : b \in {MergeBoundaries(SubSeq(k0, r.at0 + 1, Len(k0)),
                                                   SubSeq(k1, r.at1 + 1, Len(k1)), target)}})

\* merge_chunk_pairs: both runs cut into about count pairs of ranges at the
\* same keys.
MergeChunkPairs(k0, k1, count) ==
    LET n == Len(k0) + Len(k1)
        Loop[i \in Nat] ==
            IF i = 0 THEN [ok |-> TRUE, at0 |-> 0, at1 |-> 0, pairs |-> <<>>]
            ELSE Only({ChunkPairsRound(k0, k1, (n * i) \div count, r) : r \in {Loop[i - 1]}})
        rest(r) == IF r.at0 + r.at1 = n THEN r
                   ELSE [ok |-> r.ok, at0 |-> r.at0, at1 |-> r.at1,
                         pairs |-> Append(r.pairs, Task(r.at0 + 1, Len(k0), r.at1 + 1, Len(k1)))]
    IN  Only({rest(r) : r \in {Loop[Max({1, count}) - 1]}})

\* One round of merge_distinct, which has taken s.n0 and s.n1 elements of the runs.
DistinctRound(c0, c1, q, s) ==
    IF /\ s.n0 < Len(c0)
       /\ s.n1 = Len(c1) \/ Rank[c0[s.n0 + 1].bits \ {q}] <= Rank[c1[s.n1 + 1].bits \ {q}]
    THEN [n0 |-> s.n0 + 1, n1 |-> s.n1, items |-> Append(s.items, c0[s.n0 + 1])]
    ELSE [n0 |-> s.n0, n1 |-> s.n1 + 1, items |-> Append(s.items, c1[s.n1 + 1])]

\* merge_distinct: two runs merged by their keys, the first one first.
MergeDistinct(c0, c1, q) ==
    LET Loop[k \in Nat] ==
            IF k = 0 THEN [n0 |-> 0, n1 |-> 0, items |-> <<>>]
            ELSE Only({DistinctRound(d0, d1, q, s) : d0 \in {c0}, d1 \in {c1}, s \in {Loop[k - 1]}})
    IN  Loop[Len(c0) + Len(c1)].items

\* One round of merge_eq, which has taken s.n0 and s.n1 elements of the runs.
EqRound(c0, c1, q, s) ==
    LET d == CASE s.n0 = Len(c0) -> 1
               [] s.n0 < Len(c0) /\ s.n1 = Len(c1) -> -1
               [] s.n0 < Len(c0) /\ s.n1 < Len(c1) ->
                    Rank[c0[s.n0 + 1].bits \ {q}] - Rank[c1[s.n1 + 1].bits \ {q}]
    IN  IF s.n0 = Len(c0) /\ s.n1 = Len(c1) THEN s
        ELSE [n0 |-> IF d <= 0 THEN s.n0 + 1 ELSE s.n0,
              n1 |-> IF d >= 0 THEN s.n1 + 1 ELSE s.n1,
              items |-> Append(s.items, <<IF d <= 0 THEN c0[s.n0 + 1] ELSE Garbage,
                                          IF d >= 0 THEN c1[s.n1 + 1] ELSE Garbage>>)]

\* merge_eq: MergeEq::Lhs, Rhs and Both as pairs; Garbage stands for nothing.
MergeEq(c0, c1, q) ==
    LET Loop[k \in Nat] ==
            IF k = 0 THEN [n0 |-> 0, n1 |-> 0, items |-> <<>>]
            ELSE Only({EqRound(d0, d1, q, s) : d0 \in {c0}, d1 \in {c1}, s \in {Loop[k - 1]}})
    IN  Loop[Len(c0) + Len(c1)].items

\* The elements of a run at some positions, in their order.
Pick(run, S) ==
    [k \in 1 .. Cardinality(S) |-> run[CHOOSE i \in S : Cardinality({j \in S : j <= i}) = k]]

-----------------------------------------------------------------------------
(* How a step is cut into tasks                                            *)

CeilDiv(n, d) == (n + d - 1) \div d
TotalLen == Len(parts[1]) + Len(parts[2])

\* for_common and for_merge: whether to use the pool, and into how many chunks
\* of at most size bytes to cut.
ForCommon(size) ==
    LET n == TotalLen * ElementSize
        per == CeilDiv(n, size * ctx.threads)
    IN  IF n < ctx.multithreading_threshold THEN [pool |-> FALSE, count |-> 1]
        ELSE IF ctx.threads <= 1 THEN [pool |-> FALSE, count |-> CeilDiv(n, size)]
        ELSE IF n <= ctx.work_item_min_size * ctx.threads
             THEN [pool |-> TRUE, count |-> CeilDiv(n, ctx.work_item_min_size)]
        ELSE [pool |-> TRUE, count |-> IF per <= 1 THEN ctx.threads ELSE ctx.threads * per]

\* Fault: the sizes are rounded down.
ForChunksRoundedDown(f) ==
    LET n == TotalLen
    IN  IF f.count <= 2 THEN [pool |-> FALSE, size |-> <<n, n>>]
        ELSE [pool |-> f.pool, size |-> <<n \div f.count, n \div f.count>>]

\* for_chunks: the sizes of the chunks of either run.
ForChunks(f) ==
    LET n0 == Len(parts[1])
        n1 == Len(parts[2])
        n == n0 + n1
        chunk == CHOOSE d \in 1 .. f.count :
                    /\ CeilDiv(n0, CeilDiv(n, d)) + CeilDiv(n1, CeilDiv(n, d)) <= f.count
                    /\ \A e \in (d + 1) .. f.count :
                          CeilDiv(n0, CeilDiv(n, e)) + CeilDiv(n1, CeilDiv(n, e)) > f.count
        size(m) == CeilDiv(m, CeilDiv(m, CeilDiv(n, chunk)))
    IN  IF f.count <= 2 THEN [pool |-> FALSE, size |-> <<n, n>>]
        ELSE IF n0 = 0 \/ n1 = 0 THEN [pool |-> f.pool, size |-> <<CeilDiv(n, f.count), CeilDiv(n, f.count)>>]
        ELSE [pool |-> f.pool, size |-> <<size(n0), size(n1)>>]

\* slice::chunks of run p, which must not be asked for chunks of size 0.
Chunks(p, len, c) ==
    [i \in 1 .. CeilDiv(len, c) |->
        LET lo == (i - 1) * c + 1
            hi == Min({i * c, len})
        IN  IF p = 1 THEN Task(lo, hi, 1, 0) ELSE Task(1, 0, lo, hi)]

PlanChunks(f) ==
    IF 0 \in {f.size[1], f.size[2]} THEN [ok |-> FALSE]
    ELSE [ok |-> TRUE, pool |-> f.pool,
          tasks |-> Chunks(1, Len(parts[1]), f.size[1]) \o Chunks(2, Len(parts[2]), f.size[2])]

\* do_subchunks
PlanMerge(q) ==
    LET f == ForCommon(ctx.work_item_max_size)
    IN  Only({IF ~m.ok THEN [ok |-> FALSE] ELSE [ok |-> TRUE, pool |-> f.pool, tasks |-> m.pairs] :
                 m \in {MergeChunkPairs(Keys(parts[1], q), Keys(parts[2], q), f.count)}})

\* The loop a step starts with.
PlanOf(step) ==
    CASE step = "repart" -> PlanMerge(NoQubit)
      [] step \in {"fixup", "u4"} -> PlanMerge(call.q)
      [] step \in {"const", "single", "apply"} -> PlanChunks(ForChunks(ForCommon(ctx.chunk_size)))
      [] step \in {"sum", "measure", "normalize"} -> PlanChunks(ForChunks(ForCommon(ctx.work_item_max_size)))
      [] step = "sort" ->
           [ok |-> TRUE, pool |-> TotalLen * ElementSize > ctx.multithreading_threshold,
            tasks |-> <<Task(1, Len(parts[1]), 1, 0), Task(1, 0, 1, Len(parts[2]))>>]
      [] step = "import" -> [ok |-> TRUE, pool |-> TRUE, tasks |-> Chunks(1, TotalLen, ImportChunk)]
      [] step = "dense" -> [ok |-> TRUE, pool |-> TRUE, tasks |-> Chunks(1, Len(call.data), ImportChunk)]

-----------------------------------------------------------------------------
(* What the tasks do                                                       *)

\* The input of task i: its ranges of the two runs, or of all elements.
Input(i) ==
    LET src == IF Head(steps) = "import" THEN <<parts[1] \o parts[2], <<>> >> ELSE parts
    IN  [p \in 1 .. 2 |-> SubSeq(src[p], tasks[i][p].lo, tasks[i][p].hi)]

\* The positions at which qubit q reads v.
Reading(run, q, v) == {k \in DOMAIN run : (q \in run[k].bits) = v}

\* The amplitudes gate g makes of a pair of elements that differ in one qubit.
Pair(g, d, e) == <<CAdd(CMul(U4(g, 0, 0), d.val), CMul(U4(g, 0, 1), e.val)),
                   CAdd(CMul(U4(g, 1, 0), d.val), CMul(U4(g, 1, 1), e.val))>>

\* Complex::accumulate says no: the two amplitudes cancel.
Cancels(m, val) == Garbage \notin {m[1], m[2]} /\ val = CZero

\* do_repartition_count
DoRepartitionCount(c, q) ==
    LET r == Cardinality(Reading(c[1], q, TRUE)) + Cardinality(Reading(c[2], q, TRUE))
    IN  <<Len(c[1]) + Len(c[2]) - r, r>>

\* do_repartition_write and do_repartition_fixup: merged by the keys without
\* qubit mask.
DoRepartitionWrite(c, q, mask) ==
    LET m == MergeDistinct(c[1], c[2], mask)
    IN  <<Pick(m, Reading(m, q, FALSE)), Pick(m, Reading(m, q, TRUE))>>

\* Fault: amplitudes that cancel are counted.
DoU4CountAll(c, q, g) == [p \in 1 .. 2 |-> Len(MergeEq(c[1], c[2], q))]

\* The pairs that leave an element in run p.
Left(m, g, p) == {k \in DOMAIN m : ~Cancels(m[k], Pair(g, m[k][1], m[k][2])[p])}

\* do_u4_count
DoU4Count(c, q, g) ==
    LET m == MergeEq(c[1], c[2], q)
    IN  [p \in 1 .. 2 |-> Cardinality(Left(m, g, p))]

\* do_u4_write
DoU4Write(c, q, g) ==
    LET m == MergeEq(c[1], c[2], q)
        bits(x, p) == IF x[p] # Garbage THEN x[p].bits ELSE SymDiff(x[3 - p].bits, {q})
        push(x, p) == [bits |-> bits(x, p), val |-> Pair(g, x[1], x[2])[p]]
    IN  [p \in 1 .. 2 |-> Pick([k \in DOMAIN m |-> push(m[k], p)], Left(m, g, p))]

\* Division by the scale of a measurement.
Scaled(e) == [e EXCEPT !.val = IF call.scale = "1" THEN @ ELSE CMul(Phase(PI_1_2), @)]

\* do_measure_count, do_measure_copy
DoMeasureCount(c, q, v) ==
    [p \in 1 .. 2 |->
        LET n == Cardinality(Reading(c[p], q, TRUE))
        IN  IF v THEN n ELSE Len(c[p]) - n]
DoMeasureCopy(c, q, v) ==
    [p \in 1 .. 2 |->
        LET kept == Pick(c[p], Reading(c[p], q, v))
        IN  [k \in DOMAIN kept |-> Scaled(kept[k])]]

\* import_dense: the amplitudes of a chunk that are not zero, with their index.
DenseChunk(i) ==
    LET lo == tasks[i][1].lo
        all == [k \in 1 .. (tasks[i][1].hi - lo + 1) |->
                   [bits |-> FromIndex(lo + k - 2), val |-> call.data[lo + k - 1]]]
    IN  Pick(all, {k \in DOMAIN all : all[k].val # CZero})

CountOf(step, i) ==
    CASE step \in {"repart", "fixup"} -> DoRepartitionCount(Input(i), call.q)
      [] step = "u4" -> DoU4Count(Input(i), call.q, call.gate)
      [] step = "measure" -> DoMeasureCount(Input(i), call.q, call.v)
      [] step = "dense" -> <<Len(DenseChunk(i)), 0>>

WriteOf(step, i) ==
    CASE step = "repart" -> DoRepartitionWrite(Input(i), call.q, NoQubit)
      [] step = "fixup" -> DoRepartitionWrite(Input(i), call.q, call.q)
      [] step = "u4" -> DoU4Write(Input(i), call.q, call.gate)
      [] step = "measure" -> DoMeasureCopy(Input(i), call.q, call.v)
      [] step = "dense" -> <<DenseChunk(i), <<>> >>
      [] step = "import" -> <<Input(i)[1], <<>> >>

\* do_sfree_apply, do_sfree_single: the compiled code on a chunk.  Branches
\* leave it in some other order (two of them stand for all), so it is sorted,
\* unless the whole run is sorted afterwards anyway.
PerformElement(e) ==
    LET r == RunCode(call.code, Element(e.bits))
    IN  [bits |-> r.bits, val |-> CMul(Phase(r.phase), e.val)]

SfreeChunk(run, order, step) ==
    LET done == [k \in DOMAIN run |-> PerformElement(run[k])]
        some == IF call.shuffle /\ order = "reversed" THEN Reverse(done) ELSE done
    IN  CASE call.shuffle /\ step = "const" -> Sorted(some, NoQubit)
          [] call.shuffle /\ step = "single" -> Sorted(some, call.q)
          [] ~call.shuffle \/ step = "apply" -> some

InPlaceOf(step, i, order) ==
    [p \in 1 .. 2 |->
        LET run == Input(i)[p]
        IN  CASE step \in {"const", "single", "apply"} -> SfreeChunk(run, order, step)
              [] step = "sort" -> Sorted(run, NoQubit)
              [] step = "normalize" -> [k \in DOMAIN run |-> Scaled(run[k])]
              [] step = "sum" -> run]

\* Fault: the runs are taken for the two values of the measured qubit.
SumOfRuns(step, i) ==
    [v \in 1 .. 2 |->
        IF step # "sum" THEN 0 ELSE FoldLeft(LAMBDA a, e : a + Norm(e.val), 0, Input(i)[v])]

\* do_premeasure
SumOf(step, i) ==
    [v \in 1 .. 2 |->
        IF step # "sum" THEN 0
        ELSE LET run == Input(i)[1] \o Input(i)[2]
             IN  FoldLeft(LAMBDA a, e : IF (call.q \in e.bits) = (v = 2) THEN a + Norm(e.val) ELSE a, 0, run)]
-----------------------------------------------------------------------------
(* Calls                                                                   *)

Zero == [b \in Basis |-> CZero]
Ground == [Zero EXCEPT ![{}] = <<1, 0>>]

Init ==
    /\ ctx \in Contexts
    /\ parts = << <<[bits |-> {}, val |-> <<1, 0>>]>>, <<>> >>
    /\ split = 0 /\ cap = 1 /\ oldCap = 0
    /\ call = [op |-> "new"] /\ steps = <<>> /\ phase = "idle"
    /\ tasks = <<>> /\ todo = {} /\ pool = FALSE /\ lens = <<>> /\ out = {} /\ outCap = 0
    /\ sums = <<0, 0>>
    /\ amp = Ground /\ calls = 0

\* A call c starts, with the steps s; the vector it asks for is a.
Begin(c, s, a) ==
    /\ phase = "idle" /\ calls < MaxCalls
    /\ call' = c /\ steps' = s /\ phase' = IF s = <<>> THEN "idle" ELSE "plan"
    /\ amp' = a /\ calls' = calls + 1 /\ sums' = <<0, 0>>
    /\ UNCHANGED <<ctx, loopVars>>

\* set_partition: a step of its own unless the vector is split by q already.
SetPartition(q) == IF split = q THEN <<>> ELSE <<"repart">>

PerformU4 ==
    \E q \in Qubits, g \in Gates1 :
        /\ Begin([op |-> "u4", q |-> q, gate |-> g], SetPartition(q) \o <<"u4">>, ApplyU3(amp, q, g))
        /\ split' = q
        /\ UNCHANGED <<parts, cap, oldCap>>

\* Stat: whether the code has branches.
Shuffles(code) == \E k \in DOMAIN code : code[k].type = "pseq"

PerformSfree ==
    \E ops \in Queues : \E code \in {CompileQueue(ops)} : \E mod \in {CodeWrites(code)} :
        \E q \in IF Cardinality(mod) = 1 THEN mod ELSE {NoQubit} :
            /\ Begin([op |-> "sfree", q |-> q, code |-> code, shuffle |-> Shuffles(code), modified |-> mod],
                     IF code = <<>> THEN <<>>
                     ELSE IF mod = {} THEN <<"const">>
                     ELSE IF q # NoQubit THEN SetPartition(q) \o <<"single", "fixup">>
                     ELSE <<"apply", "sort">>,
                     Mapped(amp, {[from |-> b, to |-> RunCode(code, Element(b))] : b \in Basis}))
            /\ split' = IF q # NoQubit THEN q ELSE split
            /\ UNCHANGED <<parts, cap, oldCap>>

Premeasure ==
    \E q \in Qubits :
        /\ Begin([op |-> "premeasure", q |-> q], <<"sum">>, amp)
        /\ UNCHANGED vectorVars

\* measure: a vector that is split by q just drops one run.  The scale is the
\* root of the probability of v, and 1 or not as an imported vector, which
\* need not have norm 1, has it.
Measure ==
    \E q \in Qubits, v \in BOOLEAN, scale \in {"1", "p"} :
        LET kept == [b \in Basis |-> IF (q \in b) = v THEN amp[b] ELSE CZero]
            c == [op |-> "measure", q |-> q, v |-> v, scale |-> scale]
        IN  /\ kept # Zero
            /\ Begin(c,
                     IF split # q THEN <<"measure">> ELSE IF c.scale = "1" THEN <<>> ELSE <<"normalize">>,
                     [b \in Basis |-> IF c.scale = "1" THEN kept[b] ELSE CMul(Phase(PI_1_2), kept[b])])
            /\ parts' = IF split # q THEN parts ELSE IF v THEN << <<>>, parts[2]>> ELSE <<parts[1], <<>> >>
            /\ UNCHANGED <<split, cap, oldCap>>

\* Simulator::import_dense: a new vector takes the place of the old one.
ImportDense ==
    \E data \in Imports :
        /\ Begin([op |-> "dense", data |-> data], <<"dense">>,
                 [b \in Basis |-> IF Rank[b] < Len(data) THEN data[Rank[b] + 1] ELSE CZero])
        /\ parts' = << <<[bits |-> {}, val |-> <<1, 0>>]>>, <<>> >>
        /\ split' = 0 /\ cap' = 1 /\ oldCap' = 0

\* ensure_qubit and dyn_clone: the vector is exported and imported into a new one.
Import ==
    /\ Begin([op |-> "import"], <<"import">>, amp)
    /\ UNCHANGED vectorVars

Trim ==
    /\ Begin([op |-> "trim"], <<>>, amp)
    /\ oldCap' = 0
    /\ UNCHANGED <<parts, split, cap>>

-----------------------------------------------------------------------------
(* Steps                                                                   *)

Counted == {"repart", "fixup", "u4", "measure", "dense"}
Writes == Counted \cup {"import"}

\* The step that follows; nothing is left behind by the loops.
NextStep ==
    /\ steps' = Tail(steps)
    /\ phase' = IF Tail(steps) = <<>> THEN "idle" ELSE "plan"
    /\ tasks' = <<>> /\ todo' = {} /\ pool' = FALSE /\ lens' = <<>> /\ out' = {} /\ outCap' = 0

\* The main thread cuts the input and opens the first loop.
PlanStep ==
    /\ phase = "plan"
    /\ \E f \in {PlanOf(Head(steps))} :
          IF ~f.ok THEN phase' = "panic" /\ UNCHANGED <<tasks, todo, pool, lens>>
          ELSE /\ phase' = IF Head(steps) \in Writes THEN "count" ELSE "run"
               /\ tasks' = f.tasks /\ pool' = f.pool
               /\ todo' = IF Head(steps) = "import" THEN {} ELSE DOMAIN f.tasks
               /\ lens' = [i \in DOMAIN f.tasks |->
                             IF Head(steps) = "import" THEN <<f.tasks[i][1].hi - f.tasks[i][1].lo + 1, 0>>
                             ELSE <<0, 0>>]
    /\ UNCHANGED <<ctx, vectorVars, call, steps, out, outCap, sums, amp, calls>>

\* Without a pool the tasks of a loop run where they are submitted.
OneByOne(i) == i = Min(todo)

\* A loop runs its tasks in any order on the pool, and one after the other if
\* the pool is not used.
MayRun(i) == (pool /\ ctx.threads > 1) \/ OneByOne(i)

\* PoolRef::map: the result of a task goes to the slot it was given.
CountTask(i) ==
    /\ phase = "count" /\ MayRun(i)
    /\ lens' = [lens EXCEPT ![i] = CountOf(Head(steps), i)]
    /\ todo' = todo \ {i}
    /\ UNCHANGED <<ctx, vectorVars, call, steps, phase, tasks, pool, out, outCap, sums, amp, calls>>

\* BufWriter::reserve_chunks: what the first k tasks put into run p.
Prefix(l, p, k) ==
    LET Sum[j \in Nat] == IF j = 0 THEN 0 ELSE Sum[j - 1] + l[j][p]
    IN  Sum[k]
Lens(p, k) == Prefix(lens, p, k)
PartLen(p) == Lens(p, Len(lens))
OutLen == PartLen(1) + PartLen(2)

\* measure() keeps everything: no copy is made.
AllKept == Head(steps) = "measure" /\ OutLen = TotalLen

KeepAll ==
    /\ phase = "count" /\ todo = {} /\ AllKept
    /\ \E rest \in {IF call.scale = "1" THEN <<>> ELSE <<"normalize">>} :
          /\ steps' = rest
          /\ phase' = IF rest = <<>> THEN "idle" ELSE "plan"
    /\ tasks' = <<>> /\ pool' = FALSE /\ lens' = <<>>
    /\ UNCHANGED <<ctx, vectorVars, call, todo, out, outCap, sums, amp, calls>>

\* BufWriter::reserve_chunks takes old_buf and makes it large enough.
Reserve ==
    /\ phase = "count" /\ todo = {} /\ ~AllKept
    /\ phase' = "run" /\ todo' = DOMAIN tasks
    /\ outCap' = Max({IF Head(steps) = "import" THEN 0 ELSE oldCap, OutLen})
    /\ oldCap' = 0
    /\ UNCHANGED <<ctx, parts, split, cap, call, steps, tasks, pool, lens, out, sums, amp, calls>>

\* There is no memory: the vector becomes empty, and the call goes on.
ReserveFails ==
    /\ phase = "count" /\ todo = {} /\ ~AllKept
    /\ OutLen > IF Head(steps) = "import" THEN 0 ELSE oldCap
    /\ parts' = << <<>>, <<>> >> /\ cap' = 0 /\ oldCap' = 0
    /\ split' = IF Head(steps) = "import" THEN 0 ELSE split
    /\ amp' = Zero
    /\ NextStep
    /\ UNCHANGED <<ctx, call, sums, calls>>

\* BufWriter::start and WriteBuf::next: where the window of task i begins.
WindowStart(i, p) == (IF p = 2 THEN PartLen(1) ELSE 0) + Lens(p, i - 1)

\* WriteChunk::push_unchecked, for everything task i writes.
WriteTask(i) ==
    /\ phase = "run" /\ Head(steps) \in Writes /\ MayRun(i)
    /\ \E w \in {WriteOf(Head(steps), i)} :
          out' = out \cup UNION {{[at |-> WindowStart(i, p) + k, elt |-> w[p][k], by |-> i] :
                                      k \in DOMAIN w[p]} : p \in 1 .. 2}
    /\ todo' = todo \ {i}
    /\ UNCHANGED <<ctx, vectorVars, call, steps, phase, tasks, pool, lens, outCap, sums, amp, calls>>

\* A task that changes its chunks in place, or adds up their probabilities.
InPlaceTask(i) ==
    /\ phase = "run" /\ Head(steps) \notin Writes /\ MayRun(i)
    /\ \E order \in {"kept", "reversed"} : \E w \in {InPlaceOf(Head(steps), i, order)} :
          parts' = [p \in 1 .. 2 |-> [k \in DOMAIN parts[p] |->
                        IF k \in tasks[i][p].lo .. tasks[i][p].hi THEN w[p][k - tasks[i][p].lo + 1] ELSE parts[p][k]]]
    /\ \E r \in {SumOf(Head(steps), i)} : sums' = <<sums[1] + r[1], sums[2] + r[2]>>
    /\ todo' = todo \ {i}
    /\ UNCHANGED <<ctx, split, cap, oldCap, call, steps, phase, tasks, pool, lens, out, outCap, amp, calls>>

\* BufWriter::finish and set_state: the new buffer becomes the state, the
\* buffer of the old one is kept for the next call.
SetState ==
    /\ phase = "run" /\ todo = {} /\ Head(steps) \in Writes
    /\ \E new \in {[k \in 1 .. OutLen |->
                       IF \E w \in out : w.at = k THEN (CHOOSE w \in out : w.at = k).elt ELSE Garbage]},
          mid \in {IF Head(steps) = "import" THEN Len(parts[1]) ELSE PartLen(1)} :
            parts' = <<SubSeq(new, 1, mid), SubSeq(new, mid + 1, OutLen)>>
    /\ cap' = outCap
    /\ oldCap' = IF Head(steps) = "import" THEN 0 ELSE Max({cap, oldCap})
    /\ split' = IF Head(steps) = "dense" THEN NoQubit ELSE split
    /\ NextStep
    /\ UNCHANGED <<ctx, call, sums, amp, calls>>

\* Fault: the runs pass for split by a qubit that was written.
EndLoopStillSplit ==
    /\ phase = "run" /\ todo = {} /\ Head(steps) \notin Writes
    /\ NextStep
    /\ UNCHANGED <<ctx, vectorVars, call, sums, amp, calls>>

\* The end of a loop that changed the vector in place.  After a sort the runs
\* are not split by a qubit that was written.
EndLoop ==
    /\ phase = "run" /\ todo = {} /\ Head(steps) \notin Writes
    /\ split' = IF Head(steps) = "sort" /\ split \in call.modified THEN NoQubit ELSE split
    /\ NextStep
    /\ UNCHANGED <<ctx, parts, cap, oldCap, call, sums, amp, calls>>

Step ==
    \/ PlanStep \/ KeepAll \/ Reserve \/ ReserveFails \/ SetState \/ EndLoop
    \/ \E i \in todo : CountTask(i) \/ WriteTask(i) \/ InPlaceTask(i)

Next ==
    \/ PerformU4 \/ PerformSfree \/ Premeasure \/ Measure \/ ImportDense \/ Import \/ Trim
    \/ Step

\* The pool runs what was submitted, and the caller goes on when it is done.
Spec == Init /\ [][Next]_vars /\ WF_vars(Step)
-----------------------------------------------------------------------------
(* Samples for maybe_eager_flush                                           *)

\* lookup: either run may hold the element.
Lookup(b) ==
    LET found == {e \in ToSet(parts[1]) \cup ToSet(parts[2]) : e.bits = b}
    IN  IF found = {} THEN Garbage ELSE CHOOSE e \in found : TRUE

\* Fault: an element without a partner counts once, as if the gate made one
\* element of each of the pair.
CollapseDeltaOnce(q, g, i) ==
    LET e == (parts[1] \o parts[2])[i + 1]
        f == Lookup(SymDiff(e.bits, {q}))
        val == IF q \in e.bits THEN Pair(g, f, e) ELSE Pair(g, e, f)
    IN  IF f = Garbage THEN 1
        ELSE -Cardinality({p \in 1 .. 2 : val[p] = CZero})

\* collapse_delta for the element lookup_random found at index i: twice what
\* gate g on qubit q adds to the number of elements, as far as the element and
\* its partner are concerned.
CollapseDelta(q, g, i) ==
    LET e == (parts[1] \o parts[2])[i + 1]
        f == Lookup(SymDiff(e.bits, {q}))
        val == IF q \in e.bits THEN Pair(g, f, e) ELSE Pair(g, e, f)
    IN  IF f = Garbage THEN 2
        ELSE -Cardinality({p \in 1 .. 2 : val[p] = CZero})

-----------------------------------------------------------------------------
(* Properties                                                              *)

\* The number of elements of a vector.
Size(a) == Cardinality({b \in Basis : a[b] # CZero})

\* Between calls the runs hold exactly the elements of the vector that the calls
\* ask for, each once; after a failed allocation there are none.
Represents ==
    phase = "idle" =>
        /\ TotalLen = Size(amp)
        /\ \A e \in ToSet(parts[1]) \cup ToSet(parts[2]) : e.val # CZero /\ e.val = amp[e.bits]

\* Whenever a step starts from its input, both runs are strictly ascending and,
\* if the vector is split by a qubit and not about to be, hold its two values:
\* every merge and every binary search relies on it.
RunsOrdered ==
    /\ phase = "idle" \/ (phase = "plan" /\ Head(steps) \notin {"fixup", "sort"}) =>
          \A p \in 1 .. 2 : \A j, k \in DOMAIN parts[p] :
              j < k => Rank[parts[p][j].bits] < Rank[parts[p][k].bits]
    /\ phase = "idle" /\ split # NoQubit =>
          \A p \in 1 .. 2 : \A k \in DOMAIN parts[p] : Bit(parts[p][k], split) = p - 1

\* The windows a loop fills without a check are sized by an earlier loop: no two
\* writes ever go to one place, none goes past the buffer, and when the loop ends
\* nothing is left unwritten.
WindowsExact ==
    phase = "run" =>
        /\ \A w \in out : w.at \in 1 .. OutLen /\ \A x \in out : x.at = w.at => x = w
        /\ OutLen <= outCap \/ Head(steps) \notin Writes
        /\ todo = {} /\ Head(steps) \in Writes => Cardinality(out) = OutLen

\* premeasure() returns the two probabilities, however the chunks are shared out.
SumsCorrect ==
    phase = "idle" /\ call.op = "premeasure" =>
        \A v \in 1 .. 2 :
            sums[v] = MapThenSumSet(LAMBDA b : Norm(amp[b]), {b \in Basis : (call.q \in b) = (v = 2)})

\* The samples that decide about flushing a gate early are unbiased: taken over
\* all elements they add up to twice the growth of the vector.
SamplesUnbiased ==
    phase = "idle" =>
        \A q \in Qubits, g \in Gates1 :
            MapThenSumSet(LAMBDA i : CollapseDelta(q, g, i), 0 .. (TotalLen - 1))
                = 2 * (Size(ApplyU3(amp, q, g)) - Size(amp))

\* Every call comes to its end.  As long as the vector has an element nothing
\* panics: neither the search for boundaries nor the cutting into chunks.
CallsEnd == phase # "idle" ~> phase = "idle" \/ (phase = "panic" /\ TotalLen = 0)

\* "On error, returns (false, NaN, NaN)" (Simulator::measure): asking for the
\* probabilities of a vector that was lost for want of memory returns.
MeasureReturns == call.op = "premeasure" => phase # "panic"
=============================================================================
