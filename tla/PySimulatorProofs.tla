------------------------- MODULE PySimulatorProofs --------------------------
(***************************************************************************)
(* Safety of the Python extension, for any number of threads, iterators,   *)
(* names and calls, and whatever the functions of the C interface return.  *)
(***************************************************************************)
EXTENDS PySimulator, TLAPS

\* The types the argument needs; what calls return is not among them.
ObjectType ==
    /\ exists \in BOOLEAN /\ home \in BOOLEAN
    /\ iter_obj \in Iterators \cup {NoIterator}
    /\ sim_obj \in [Iterators -> BOOLEAN]
    /\ iter \in [Iterators -> {"none", "valid", "stale"}]
    /\ held \subseteq Iterators /\ names \subseteq Names
    /\ pc \in [Threads -> {"python", "native", "back"}]
    /\ ended \in {"no", "panic", "fatal"}

\* The inductive invariant: each of the three properties needs the others.
IInv == ObjectType /\ ExclusiveUse /\ IteratorsValid /\ Lifetimes

\* What the steps change and the invariant reads.
shared == <<objectVars, pc, ended>>

-----------------------------------------------------------------------------
(* References                                                              *)

\* Nobody has a reference: no name, no call, no iterator.
LEMMA NoRefs ==
    ASSUME NEW n, NEW p, NEW so, Refs(n, p, so) = {}
    PROVE  /\ n = {}
           /\ \A t \in Threads : p[t] = "python"
           /\ \A i \in Iterators : ~so[i]
BY DEF Refs

\* Somebody has.
LEMMA SomeRef ==
    ASSUME NEW n, NEW p, NEW so, Refs(n, p, so) # {}
    PROVE  n # {} \/ (\E t \in Threads : p[t] # "python") \/ (\E i \in Iterators : so[i])
BY DEF Refs

\* Simulator_acquire always finds a second reference beside an iterator's.
LEMMA AcquireHasRefs ==
    ASSUME IInv, NEW t \in Threads, Calling(t)
    PROVE  RefsSuffice(t)
<1> SUFFICES ASSUME iter_obj # NoIterator
             PROVE  \E r, s \in Refs(names, pc, sim_obj) \cup {t} : r # s
    BY DEF RefsSuffice
<1>1. iter_obj \in Iterators /\ sim_obj[iter_obj]
    BY DEF IInv, ObjectType, IteratorsValid
<1>2. PICK n \in names : TRUE
    BY DEF Calling
<1>3. n \in Refs(names, pc, sim_obj) /\ iter_obj \in Refs(names, pc, sim_obj)
    BY <1>1, <1>2 DEF Refs
<1>4. n # iter_obj
    BY <1>1, <1>2, PyAssumption DEF PyAssumption, IInv, ObjectType
<1> QED BY <1>3, <1>4

\* While the simulator is lent no native iterator is left.
LEMMA LentHasNoIterator ==
    ASSUME IInv, ended = "no", ~home
    PROVE  iter_obj = NoIterator /\ iter = [i \in Iterators |-> "none"] /\ \A i \in Iterators : ~sim_obj[i]
BY DEF IInv, ObjectType, IteratorsValid

\* An iterator that is invalidated leaves none.
LEMMA InvalidateLeavesNone ==
    ASSUME IInv
    PROVE  /\ Invalidate(iter, iter_obj, "none") = [i \in Iterators |-> "none"]
           /\ Invalidate(sim_obj, iter_obj, FALSE) = [i \in Iterators |-> FALSE]
<1>1. \A i \in Iterators : i # iter_obj => iter[i] = "none" /\ sim_obj[i] = FALSE
    BY DEF IInv, ObjectType, IteratorsValid
<1>2. CASE iter_obj = NoIterator
    BY <1>1, <1>2, PyAssumption DEF PyAssumption, Invalidate, IInv, ObjectType
<1>3. CASE iter_obj # NoIterator
    BY <1>1, <1>3 DEF Invalidate, IInv, ObjectType
<1> QED BY <1>2, <1>3

\* Nothing is stale where nothing is left.
LEMMA TouchNone == Touch([i \in Iterators |-> "none"]) = [i \in Iterators |-> "none"]
BY DEF Touch

-----------------------------------------------------------------------------
(* The invariant                                                           *)

\* Before the first object is made nothing refers to anything.
LEMMA InitInv == Init => IInv
<1> SUFFICES ASSUME Init PROVE IInv
  OBVIOUS
<1>1. NoIterator \notin Iterators
  BY PyAssumption DEF PyAssumption
<1>2. ObjectType
  BY DEF Init, ObjectType
<1>3. ExclusiveUse
  BY DEF Init, ExclusiveUse
<1>4. IteratorsValid
  BY <1>1 DEF Init, IteratorsValid
<1>5. Lifetimes
  BY DEF Init, Lifetimes
<1> QED
  BY <1>2, <1>3, <1>4, <1>5 DEF IInv

\* Simulator_new gives its caller the only reference.
LEMMA NewInv == ASSUME IInv, NEW t \in Threads, NEW n \in Names, New(t, n) PROVE IInv'
<1>1. names = {} /\ iter_obj = NoIterator /\ \A u \in Threads : pc[u] = "python"
    BY DEF New, IInv, Lifetimes, ObjectType
<1>2. UNCHANGED <<iter_obj, sim_obj, iter, held, pc>>
    BY DEF New
<1>3. \/ ended' = "panic" /\ UNCHANGED <<exists, home, names>>
      \/ exists' = TRUE /\ home' = TRUE /\ names' = {n} /\ UNCHANGED ended
    BY DEF New
<1>4. ObjectType'
    BY <1>2, <1>3 DEF IInv, ObjectType
<1>5. ExclusiveUse'
    BY <1>1, <1>2, <1>3 DEF IInv, ExclusiveUse, ObjectType
<1>6. IteratorsValid'
    BY <1>1, <1>2, <1>3, PyAssumption DEF PyAssumption, IInv, IteratorsValid
<1>7. Lifetimes'
    BY <1>1, <1>2, <1>3 DEF IInv, Lifetimes
<1> QED BY <1>4, <1>5, <1>6, <1>7 DEF IInv

\* Simulator_acquire takes the native simulator and the iterator's pointer.
LEMMA BeginInv == ASSUME IInv, NEW t \in Threads, NEW c, Begin(t, c) PROVE IInv'
<1>1. RefsSuffice(t) /\ names # {} /\ home /\ ended = "no" /\ pc[t] = "python"
    BY AcquireHasRefs DEF Begin, Calling
<1>2. /\ home' = FALSE /\ iter_obj' = NoIterator
      /\ iter' = [i \in Iterators |-> "none"] /\ sim_obj' = [i \in Iterators |-> FALSE]
      /\ pc' = [pc EXCEPT ![t] = "native"] /\ UNCHANGED <<ended, exists, held, names>>
    BY <1>1, InvalidateLeavesNone DEF Begin, Acquire
<1>3. exists /\ \A u \in Threads : pc[u] = "python"
    BY <1>1 DEF IInv, ExclusiveUse
<1>4. ObjectType'
    BY <1>2 DEF IInv, ObjectType
<1>5. ExclusiveUse'
    BY <1>1, <1>2, <1>3 DEF IInv, ExclusiveUse, ObjectType
<1>6. IteratorsValid'
    BY <1>2, PyAssumption DEF PyAssumption, IteratorsValid
<1>7. Lifetimes'
    BY <1>1, <1>2, <1>3 DEF IInv, Lifetimes, ObjectType
<1> QED BY <1>4, <1>5, <1>6, <1>7 DEF IInv

\* The native call works on a simulator nobody else has.
LEMMA NativeInv == ASSUME IInv, NEW t \in Threads, Native(t) PROVE IInv'
<1>1. ended = "no" /\ pc[t] = "native" /\ ~home
    BY DEF Native, IInv, ExclusiveUse
<1>2. iter' = iter
    BY <1>1, LentHasNoIterator, TouchNone DEF Native
<1>3. /\ UNCHANGED <<exists, home, iter_obj, sim_obj, held, names>>
      /\ ended' \in {"no", "panic"} /\ pc' = [pc EXCEPT ![t] = "back"]
    BY <1>1 DEF Native
<1>4. ObjectType'
    BY <1>2, <1>3 DEF IInv, ObjectType
<1>5. ExclusiveUse'
    BY <1>1, <1>3 DEF IInv, ExclusiveUse, ObjectType
<1>6. IteratorsValid'
    BY <1>1, <1>2, <1>3 DEF IInv, IteratorsValid
<1>7. Lifetimes'
    BY <1>1, <1>3 DEF IInv, Lifetimes, ObjectType
<1> QED BY <1>4, <1>5, <1>6, <1>7 DEF IInv

\* Simulator_release puts it back, or frees it with the last reference.
LEMMA ReturnInv == ASSUME IInv, NEW t \in Threads, Return(t) PROVE IInv'
<1>1. ended = "no" /\ pc[t] = "back" /\ ~home /\ \A u \in Threads : u # t => pc[u] = "python"
    BY DEF Return, IInv, ExclusiveUse
<1>2. PICK i \in {NoIterator} \cup (Iterators \ held) : ReturnWith(t, i)
    BY <1>1 DEF Return
<1>3. iter_obj = NoIterator /\ iter = [j \in Iterators |-> "none"] /\ \A j \in Iterators : ~sim_obj[j]
    BY <1>1, LentHasNoIterator
<1> DEFINE so == IF i = NoIterator THEN sim_obj ELSE [sim_obj EXCEPT ![i] = TRUE]
           p == [pc EXCEPT ![t] = "python"]
<1>4. /\ sim_obj' = so /\ pc' = p
      /\ iter_obj' = IF i = NoIterator THEN iter_obj ELSE i
      /\ iter' = IF i = NoIterator THEN iter ELSE [iter EXCEPT ![i] = "valid"]
      /\ held' = IF i = NoIterator THEN held ELSE held \cup {i}
      /\ home' = (Refs(names, p, so) # {}) /\ exists' = (Refs(names, p, so) # {})
      /\ UNCHANGED <<names, ended>>
    BY <1>2 DEF ReturnWith
<1>5. \A u \in Threads : p[u] = "python"
    BY <1>1 DEF IInv, ObjectType
<1>6. \A j \in Iterators : so[j] <=> i = j
    BY <1>2, <1>3, PyAssumption DEF PyAssumption, IInv, ObjectType
<1>7. Refs(names, p, so) # {} <=> names # {} \/ i # NoIterator
    <2> HIDE DEF p, so
    <2>1. ASSUME Refs(names, p, so) = {} PROVE names = {} /\ i = NoIterator
        BY <1>2, <1>6, <2>1, NoRefs
    <2>2. ASSUME Refs(names, p, so) # {} PROVE names # {} \/ i # NoIterator
        BY <1>5, <1>6, <2>2, SomeRef, PyAssumption DEF PyAssumption
    <2> QED BY <2>1, <2>2
<1> HIDE DEF p
<1>8. ObjectType'
    <2>1. p \in [Threads -> {"python", "native", "back"}]
        BY DEF p, IInv, ObjectType
    <2>2. so \in [Iterators -> BOOLEAN]
        BY <1>2 DEF IInv, ObjectType
    <2> HIDE DEF so
    <2> QED BY <1>2, <1>4, <2>1, <2>2 DEF IInv, ObjectType
<1> HIDE DEF so
<1>9. ExclusiveUse'
    BY <1>1, <1>4, <1>5 DEF IInv, ExclusiveUse
<1>10. IteratorsValid'
    <2> SUFFICES ASSUME NEW j \in Iterators
                 PROVE  /\ iter'[j] # "stale"
                        /\ iter'[j] = "valid" <=> iter_obj' = j
                        /\ sim_obj'[j] <=> iter_obj' = j
                        /\ iter_obj' = j => j \in held' /\ (ended' = "no" => home')
        BY DEF IteratorsValid
    <2>1. iter_obj' = i
        BY <1>3, <1>4
    <2>2. iter'[j] = IF j = i THEN "valid" ELSE "none"
        BY <1>2, <1>3, <1>4, PyAssumption DEF PyAssumption
    <2>3. sim_obj'[j] <=> i = j
        BY <1>4, <1>6
    <2>4. i = j => j \in held' /\ home'
        BY <1>4, <1>7, PyAssumption DEF PyAssumption
    <2> QED BY <2>1, <2>2, <2>3, <2>4
<1>11. Lifetimes'
    BY <1>3, <1>4, <1>5, <1>7 DEF Lifetimes
<1> QED BY <1>8, <1>9, <1>10, <1>11 DEF IInv

\* A call under the interpreter lock finds the simulator at home.
LEMMA FastInv == ASSUME IInv, NEW t \in Threads, NEW c, Fast(t, c) PROVE IInv'
<1>1. RefsSuffice(t) /\ names # {} /\ home /\ ended = "no"
    BY AcquireHasRefs DEF Fast, Calling
<1>2. /\ iter_obj' = NoIterator /\ sim_obj' = [i \in Iterators |-> FALSE]
      /\ iter' = [i \in Iterators |-> "none"]
      /\ UNCHANGED <<exists, home, held, names, pc>>
    BY InvalidateLeavesNone, TouchNone DEF Fast, FastIterator
<1>3. ended' \in {"no", "panic"}
    BY <1>1 DEF Fast
<1>4. ObjectType'
    BY <1>2, <1>3 DEF IInv, ObjectType
<1>5. ExclusiveUse'
    BY <1>1, <1>2, <1>3 DEF IInv, ExclusiveUse
<1>6. IteratorsValid'
    BY <1>2, PyAssumption DEF PyAssumption, IteratorsValid
<1>7. Lifetimes'
    BY <1>1, <1>2, <1>3 DEF IInv, Lifetimes
<1> QED BY <1>4, <1>5, <1>6, <1>7 DEF IInv

\* The destructor of an iterator gives its reference back.
LEMMA DropIteratorInv == ASSUME IInv, NEW i \in Iterators, DropIterator(i) PROVE IInv'
<1>1. CASE ~sim_obj[i]
    <2>1. UNCHANGED <<iter, sim_obj, iter_obj, exists, home, ended, names, pc>> /\ held' = held \ {i} /\ iter_obj # i
        BY <1>1 DEF DropIterator, IInv, IteratorsValid
    <2>2. ObjectType'
        BY <2>1 DEF IInv, ObjectType
    <2> QED BY <2>1, <2>2 DEF IInv, ExclusiveUse, IteratorsValid, Lifetimes
<1>2. CASE sim_obj[i]
    <2> DEFINE so == [sim_obj EXCEPT ![i] = FALSE]
    <2>1. iter_obj = i /\ ended = "no" /\ home /\ exists /\ \A t \in Threads : pc[t] = "python"
        BY <1>2 DEF DropIterator, IInv, IteratorsValid, ExclusiveUse
    <2>2. so = [j \in Iterators |-> FALSE]
        BY <2>1 DEF IInv, ObjectType, IteratorsValid
    <2>3. /\ iter' = [j \in Iterators |-> "none"] /\ sim_obj' = [j \in Iterators |-> FALSE]
          /\ iter_obj' = NoIterator /\ held' = held \ {i} /\ UNCHANGED <<names, pc>>
          /\ Decref(Refs(names, pc, so), NoIterator)
        BY <1>2, <2>1, InvalidateLeavesNone DEF DropIterator
    <2>4. Refs(names, pc, so) = {} <=> names = {}
        BY <2>1, <2>2, NoRefs, SomeRef
    <2>5. /\ ended' = "no"
          /\ exists' = (names # {}) /\ home' = (names # {})
        BY <2>1, <2>3, <2>4 DEF Decref, IInv, ObjectType
    <2>6. ObjectType'
        BY <2>3, <2>5 DEF IInv, ObjectType
    <2>7. ExclusiveUse' /\ Lifetimes'
        BY <2>1, <2>3, <2>5 DEF ExclusiveUse, Lifetimes
    <2>8. IteratorsValid'
        BY <2>3, PyAssumption DEF PyAssumption, IteratorsValid
    <2> QED BY <2>6, <2>7, <2>8 DEF IInv
<1> QED BY <1>1, <1>2

\* So does a name that goes away.
LEMMA DropNameInv == ASSUME IInv, NEW n \in Names, DropName(n) PROVE IInv'
<1> DEFINE left == names \ {n}
<1>1. /\ ended = "no" /\ exists /\ names' = left
      /\ UNCHANGED <<iter_obj, sim_obj, held, pc>>
      /\ Decref(Refs(left, pc, sim_obj), iter_obj)
      /\ iter' = IF Refs(left, pc, sim_obj) = {} THEN Touch(iter) ELSE iter
    BY DEF DropName, IInv, Lifetimes
<1>2. CASE Refs(left, pc, sim_obj) = {}
    <2>1. left = {} /\ iter_obj = NoIterator /\ \A t \in Threads : pc[t] = "python"
        BY <1>2, NoRefs DEF IInv, ObjectType, IteratorsValid
    <2>2. home
        BY <1>1, <2>1 DEF IInv, ExclusiveUse
    <2>3. exists' = FALSE /\ home' = FALSE /\ ended' = "no"
        BY <1>1, <1>2, <2>1, <2>2 DEF Decref
    <2>4. iter = [i \in Iterators |-> "none"]
        BY <2>1, PyAssumption DEF PyAssumption, IInv, ObjectType, IteratorsValid
    <2>5. iter' = iter
        BY <1>1, <1>2, <2>4, TouchNone
    <2>6. ObjectType'
        BY <1>1, <2>3, <2>5 DEF IInv, ObjectType
    <2>7. ExclusiveUse' /\ Lifetimes'
        BY <1>1, <2>1, <2>3 DEF ExclusiveUse, Lifetimes
    <2>8. IteratorsValid'
        BY <1>1, <2>1, <2>5, PyAssumption DEF PyAssumption, IInv, IteratorsValid
    <2> QED BY <2>6, <2>7, <2>8 DEF IInv
<1>3. CASE Refs(left, pc, sim_obj) # {}
    <2>1. UNCHANGED <<exists, home, ended, iter>>
        BY <1>1, <1>3 DEF Decref
    <2>2. left # {} \/ iter_obj # NoIterator \/ \E t \in Threads : pc[t] # "python"
        BY <1>3, SomeRef, PyAssumption DEF PyAssumption, IInv, ObjectType, IteratorsValid
    <2>3. ObjectType'
        BY <1>1, <2>1 DEF IInv, ObjectType
    <2>4. ExclusiveUse' /\ IteratorsValid'
        BY <1>1, <2>1 DEF IInv, ExclusiveUse, IteratorsValid
    <2>5. Lifetimes'
        BY <1>1, <2>1, <2>2 DEF Lifetimes
    <2> QED BY <2>3, <2>4, <2>5 DEF IInv
<1> QED BY <1>2, <1>3

\* A further name is a further reference.
LEMMA CopyNameInv == ASSUME IInv, NEW n \in Names, CopyName(n) PROVE IInv'
<1>1. names # {} /\ names' = names \cup {n} /\ UNCHANGED <<exists, home, iter_obj, sim_obj, iter, held, pc, ended>>
    BY DEF CopyName
<1> QED BY <1>1 DEF IInv, ObjectType, ExclusiveUse, IteratorsValid, Lifetimes

\* Steps that change nothing the invariant reads.
LEMMA StutterInv == ASSUME IInv, UNCHANGED shared PROVE IInv'
BY DEF shared, objectVars, IInv, ObjectType, ExclusiveUse, IteratorsValid, Lifetimes

\* Every step of the extension keeps the invariant.
LEMMA StepInv == IInv /\ [Next]_vars => IInv'
<1> SUFFICES ASSUME IInv, [Next]_vars PROVE IInv'
    OBVIOUS
<1>1. ASSUME NEW t \in Threads, NEW n \in Names, New(t, n) PROVE IInv'
    BY <1>1, NewInv
<1>2. ASSUME NEW t \in Threads, NEW c \in SlowCalls \cup FastCalls, Refuse(t, c) \/ Concurrent(t, c) PROVE IInv'
    BY <1>2, StutterInv DEF Refuse, Concurrent, shared
<1>3. ASSUME NEW t \in Threads, NEW c \in SlowCalls, Begin(t, c) PROVE IInv'
    BY <1>3, BeginInv
<1>4. ASSUME NEW t \in Threads, Native(t) PROVE IInv'
    BY <1>4, NativeInv
<1>5. ASSUME NEW t \in Threads, Return(t) PROVE IInv'
    BY <1>5, ReturnInv
<1>6. ASSUME NEW t \in Threads, NEW c \in FastCalls, Fast(t, c) PROVE IInv'
    BY <1>6, FastInv
<1>7. ASSUME NEW t \in Threads, NEW i \in Iterators, IteratorNext(t, i) PROVE IInv'
    BY <1>7, StutterInv DEF IteratorNext, shared
<1>8. ASSUME NEW i \in Iterators, DropIterator(i) PROVE IInv'
    BY <1>8, DropIteratorInv
<1>9. ASSUME NEW n \in Names, CopyName(n) \/ DropName(n) PROVE IInv'
    BY <1>9, CopyNameInv, DropNameInv
<1>10. ASSUME Ended \/ UNCHANGED vars PROVE IInv'
    BY <1>10, StutterInv DEF Ended, vars, shared
<1> QED
    BY <1>1, <1>2, <1>3, <1>4, <1>5, <1>6, <1>7, <1>8, <1>9, <1>10 DEF Next

\* It holds in every state.
LEMMA Invariance == Spec => []IInv
BY InitInv, StepInv, PTL DEF Spec

-----------------------------------------------------------------------------
(* Panics                                                                  *)

\* What the checks of capi.rs leave to the assertions behind them: nothing but a
\* swap of a qubit with itself, and a pool without threads.
NoSelfSwap == \A c \in SlowCalls \cup FastCalls : c.op = "mcswap" => c.targets[1] # c.targets[2]
SomeThreads == 0 \notin ThreadCounts

\* The panics of a call leave an empty vector, and threads make the calls that
\* were offered.
PanicInv ==
    /\ PanicsOnlyAfterError
    /\ call \in [Threads -> SlowCalls \cup {NoCall}]
    /\ \A t \in Threads : pc[t] = "native" => call[t] \in SlowCalls

\* Arguments that passed the checks meet the assertions.
LEMMA CheckedAsserted ==
    ASSUME NEW c, Check(c) = "ok", c.op = "mcswap" => c.targets[1] # c.targets[2]
    PROVE  Asserted(c)
<1>1. ~\E k \in DOMAIN c.controls, j \in DOMAIN c.targets : c.controls[k] = c.targets[j]
    BY DEF Check
<1> QED BY <1>1 DEF Asserted

\* A flush panics only over an empty vector.
LEMMA FlushPanics ==
    ASSUME NEW s, NEW all, NEW r \in Flush(s, all)
    PROVE  /\ r \in [vec : {"ok", "empty"}, queued : SUBSET Queues, panic : BOOLEAN]
           /\ r.panic => r.vec = "empty"
BY DEF Flush

\* A gate panics over an empty vector only.
LEMMA GatePanics ==
    ASSUME NEW c, NEW s, NEW r \in Gate(c, s), r.panic
    PROVE  r.vec = "empty"
<1>1. \/ r = Outcome(WithQueued(s, "gate"), FALSE)
      \/ r = Outcome(s, FALSE)
      \/ \E f \in Flush(s, FALSE) : r = IF f.panic THEN f ELSE WithQueued(f, "op")
    BY Zenon DEF Gate
<1>2. r # Outcome(WithQueued(s, "gate"), FALSE) /\ r # Outcome(s, FALSE)
    BY DEF Outcome
<1>3. PICK f \in Flush(s, FALSE) : r = IF f.panic THEN f ELSE WithQueued(f, "op")
    BY <1>1, <1>2
<1>4. f \in [vec : {"ok", "empty"}, queued : SUBSET Queues, panic : BOOLEAN]
    BY FlushPanics
<1>5. f.panic
    BY <1>3, <1>4 DEF WithQueued
<1> QED BY <1>3, <1>5, FlushPanics

\* So do measure and qubit_probs.
LEMMA ProbabilitiesPanic ==
    ASSUME NEW c, NEW s, c.op \in {"measure", "probs"}, NEW r \in Probabilities(c, s), r.panic
    PROVE  r.vec = "empty"
<1>1. PICK f \in Flush(s, FALSE) :
          r \in CASE f.panic -> {f}
                  [] ~f.panic /\ f.vec = "empty" -> {f, [f EXCEPT !.panic = TRUE]}
                  [] f.vec = "ok" /\ c.op = "probs" -> {f}
                  [] f.vec = "ok" /\ c.op = "measure" -> {f, [f EXCEPT !.vec = "empty"]}
    BY Zenon DEF Probabilities
<1>2. /\ f \in [vec : {"ok", "empty"}, queued : SUBSET Queues, panic : BOOLEAN]
      /\ f.panic => f.vec = "empty"
    BY FlushPanics
<1>3. f.vec \in {"ok", "empty"} /\ "ok" # "empty" /\ "measure" # "probs"
    BY <1>2
<1>4. r = f \/ (f.vec = "empty" /\ r = [f EXCEPT !.panic = TRUE]) \/ r = [f EXCEPT !.vec = "empty"]
    BY <1>1, <1>2, <1>3, Zenon
<1> QED BY <1>2, <1>4

\* A call that passes the checks and panics has found or left an empty vector.
LEMMA CallPanics ==
    ASSUME NEW c \in SlowCalls \cup FastCalls, NoSelfSwap, NEW s, NEW o \in Call(c, s), o.panic
    PROVE  o.sim.vec = "empty"
<1>1. Check(c) = "ok"
    BY DEF Call
<1>2. PICK r \in Perform(c, s) : \E e \in Code(c, r) :
          o = [sim |-> [vec |-> r.vec, queued |-> r.queued], panic |-> r.panic, code |-> e]
    BY <1>1 DEF Call
<1>3. Asserted(c) /\ c.op \in Operations
    BY <1>1, CheckedAsserted, PyAssumption DEF NoSelfSwap, PyAssumption
<1>4. r.panic
    BY <1>2
<1>5. \/ r \in Gate(c, s)
      \/ c.op \in {"measure", "probs"} /\ r \in Probabilities(c, s)
      \/ r \in Flush(s, TRUE)
      \/ r = Outcome(s, FALSE)
      \/ r \in Replaced
    BY <1>2, <1>3, Zenon DEF Perform, Operations
<1>6. r # Outcome(s, FALSE) /\ r \notin Replaced
    BY <1>4 DEF Outcome, Replaced
<1>7. r.vec = "empty"
    <2>1. CASE r \in Gate(c, s)
        BY <1>4, <2>1, GatePanics
    <2>2. CASE c.op \in {"measure", "probs"} /\ r \in Probabilities(c, s)
        BY <1>4, <2>2, ProbabilitiesPanic
    <2>3. CASE r \in Flush(s, TRUE)
        BY <1>4, <2>3 DEF Flush
    <2> QED BY <1>5, <1>6, <2>1, <2>2, <2>3
<1> QED BY <1>2, <1>7

\* At the start no call has been made.
LEMMA PanicInit == Init => PanicInv
BY DEF Init, PanicInv, PanicsOnlyAfterError

\* Every step keeps it, unless a qubit is swapped with itself or no thread is asked for.
LEMMA PanicStep == NoSelfSwap /\ SomeThreads /\ IInv /\ PanicInv /\ [Next]_vars => PanicInv'
<1> SUFFICES ASSUME NoSelfSwap, SomeThreads, IInv, PanicInv, [Next]_vars PROVE PanicInv'
    OBVIOUS
<1>1. /\ call \in [Threads -> SlowCalls \cup {NoCall}] /\ pc \in [Threads -> {"python", "native", "back"}]
      /\ \A t \in Threads : pc[t] = "native" => call[t] \in SlowCalls
    BY DEF PanicInv, IInv, ObjectType
<1>2. ASSUME NEW t \in Threads, NEW n \in Names, New(t, n) PROVE PanicInv'
    <2>1. ended' = "no" /\ UNCHANGED <<pc, call>>
        BY <1>2 DEF New, SomeThreads
    <2> QED BY <1>1, <2>1 DEF PanicInv, PanicsOnlyAfterError
<1>3. ASSUME NEW t \in Threads, NEW c \in SlowCalls, Begin(t, c) PROVE PanicInv'
    <2>1. ended' # "panic"
        BY <1>3 DEF Begin, Calling
    <2>2. \/ pc' = [pc EXCEPT ![t] = "native"] /\ call' = [call EXCEPT ![t] = c]
          \/ UNCHANGED <<pc, call>>
        BY <1>3 DEF Begin
    <2> QED BY <1>1, <1>3, <2>1, <2>2 DEF PanicInv, PanicsOnlyAfterError
<1>4. ASSUME NEW t \in Threads, Native(t) PROVE PanicInv'
    <2>1. ended = "no" /\ pc' = [pc EXCEPT ![t] = "back"] /\ call' = call /\ call[t] \in SlowCalls
        BY <1>1, <1>4 DEF Native
    <2>2. PICK r \in Call(call[t], sim) : sim' = r.sim /\ ended' = IF r.panic THEN "panic" ELSE ended
        BY <1>4 DEF Native
    <2>3. r.panic => r.sim.vec = "empty"
        BY <2>1, CallPanics
    <2>4. PanicsOnlyAfterError'
        BY <2>1, <2>2, <2>3 DEF PanicsOnlyAfterError
    <2> QED BY <1>1, <2>1, <2>4 DEF PanicInv
<1>5. ASSUME NEW t \in Threads, Return(t) PROVE PanicInv'
    <2>1. ended' # "panic"
        BY <1>5 DEF Return, ReturnWith
    <2>2. \/ pc' = [pc EXCEPT ![t] = "python"] /\ call' = [call EXCEPT ![t] = NoCall]
          \/ UNCHANGED <<pc, call>>
        BY <1>5 DEF Return, ReturnWith
    <2> QED BY <1>1, <2>1, <2>2 DEF PanicInv, PanicsOnlyAfterError
<1>6. ASSUME NEW t \in Threads, NEW c \in FastCalls, Fast(t, c) PROVE PanicInv'
    <2>1. ended = "no" /\ UNCHANGED <<pc, call>>
        BY <1>6 DEF Fast, Calling
    <2>2. PICK r \in Call(c, sim) :
              sim' = r.sim /\ (ended' = "panic" => r.panic)
        BY <1>6, <2>1 DEF Fast
    <2>3. r.panic => r.sim.vec = "empty"
        BY CallPanics
    <2>4. PanicsOnlyAfterError'
        BY <2>2, <2>3 DEF PanicsOnlyAfterError
    <2> QED BY <1>1, <2>1, <2>4 DEF PanicInv
<1>7. ASSUME NEW i \in Iterators, DropIterator(i) PROVE PanicInv'
    <2>1. ended' # "panic" /\ UNCHANGED <<pc, call>>
        BY <1>7 DEF DropIterator, Decref
    <2> QED BY <1>1, <2>1 DEF PanicInv, PanicsOnlyAfterError
<1>8. ASSUME NEW n \in Names, CopyName(n) \/ DropName(n) PROVE PanicInv'
    <2>1. ended' # "panic" /\ UNCHANGED <<pc, call>>
        BY <1>8 DEF CopyName, DropName, Decref
    <2> QED BY <1>1, <2>1 DEF PanicInv, PanicsOnlyAfterError
<1>9. ASSUME UNCHANGED <<sim, pc, call, ended>> PROVE PanicInv'
    BY <1>9 DEF PanicInv, PanicsOnlyAfterError
<1> QED
    BY <1>2, <1>3, <1>4, <1>5, <1>6, <1>7, <1>8, <1>9
    DEF Next, Refuse, Concurrent, IteratorNext, Ended, vars

-----------------------------------------------------------------------------
(* Iterators and queued gates                                              *)

Flushed == [vec |-> "ok", queued |-> {}]

\* Between the flush of Simulator_iter and the iterator it makes nothing is
\* queued and nothing is lost.
FlushedInv ==
    /\ IteratorsFlushed
    /\ call = [t \in Threads |-> call[t]] /\ code = [t \in Threads |-> code[t]]
    /\ \A t \in Threads : pc[t] = "back" /\ call[t].op = "iter" /\ code[t] = "ok" => sim = Flushed

\* qblaze_flush leaves nothing queued, or reports that the vector was lost.
LEMMA FlushReports ==
    ASSUME NEW c, c.op = "iter", NEW s, NEW o \in Call(c, s), o.code = "ok"
    PROVE  o.sim = Flushed
<1>1. Check(c) = "ok"
    BY DEF Call
<1>2. PICK r \in Perform(c, s) : \E e \in Code(c, r) :
          o = [sim |-> [vec |-> r.vec, queued |-> r.queued], panic |-> r.panic, code |-> e]
    BY <1>1 DEF Call
<1>3. "ok" \in Code(c, r) /\ o.sim = [vec |-> r.vec, queued |-> r.queued]
    BY <1>2
<1>4. Asserted(c)
    BY DEF Asserted
<1>5. r \in Flush(s, TRUE)
    BY <1>2, <1>4 DEF Perform
<1>6. r.queued = {} /\ r.vec \in {"ok", "empty"}
    BY <1>5 DEF Flush
<1>7. r.vec # "empty"
    BY <1>3 DEF Code
<1> QED BY <1>3, <1>6, <1>7 DEF Flushed

\* At the start there is no iterator.
LEMMA FlushedInit == Init => FlushedInv
<1> SUFFICES ASSUME Init PROVE FlushedInv
    OBVIOUS
<1>1. \A t \in Threads : pc[t] = "python"
    BY DEF Init
<1>2. call = [t \in Threads |-> call[t]] /\ code = [t \in Threads |-> code[t]]
    BY DEF Init
<1> QED BY <1>1, <1>2 DEF Init, FlushedInv, IteratorsFlushed

\* Calls that change the simulator leave no iterator, and nobody else is between
\* a flush and the iterator that follows it.
LEMMA FlushedStep == IInv /\ FlushedInv /\ [Next]_vars => FlushedInv'
<1> SUFFICES ASSUME IInv, FlushedInv, [Next]_vars PROVE FlushedInv'
    OBVIOUS
<1>1. /\ call = [t \in Threads |-> call[t]] /\ code = [t \in Threads |-> code[t]]
      /\ \A t \in Threads : pc[t] = "back" /\ call[t].op = "iter" /\ code[t] = "ok" => sim = Flushed
      /\ pc \in [Threads -> {"python", "native", "back"}]
    BY DEF FlushedInv, IInv, ObjectType
<1>2. ASSUME NEW t \in Threads, NEW n \in Names, New(t, n) PROVE FlushedInv'
    <2>1. iter_obj = NoIterator /\ \A u \in Threads : pc[u] = "python"
        BY <1>2 DEF New, IInv, Lifetimes, ObjectType
    <2>2. UNCHANGED <<iter_obj, pc, call, code>>
        BY <1>2 DEF New
    <2> QED BY <1>1, <2>1, <2>2 DEF FlushedInv, IteratorsFlushed
<1>3. ASSUME NEW t \in Threads, NEW c \in SlowCalls, Begin(t, c) PROVE FlushedInv'
    <2>1. RefsSuffice(t)
        BY <1>3, AcquireHasRefs DEF Begin
    <2>2. /\ iter_obj' = NoIterator /\ pc' = [pc EXCEPT ![t] = "native"]
          /\ call' = [call EXCEPT ![t] = c] /\ UNCHANGED <<sim, code>>
        BY <1>3, <2>1 DEF Begin, Acquire
    <2>3. call' = [u \in Threads |-> call'[u]] /\ code' = [u \in Threads |-> code'[u]]
        BY <1>1, <2>2
    <2>4. ASSUME NEW u \in Threads, pc'[u] = "back", call'[u].op = "iter", code'[u] = "ok" PROVE sim' = Flushed
        <3>1. u # t /\ pc[u] = "back" /\ call[u].op = "iter" /\ code[u] = "ok"
            BY <1>1, <2>2, <2>4
        <3> QED BY <1>1, <2>2, <3>1
    <2> QED BY <2>2, <2>3, <2>4 DEF FlushedInv, IteratorsFlushed
<1>4. ASSUME NEW t \in Threads, Native(t) PROVE FlushedInv'
    <2>1. iter_obj = NoIterator /\ pc[t] = "native" /\ \A u \in Threads : u # t => pc[u] = "python"
        BY <1>4, LentHasNoIterator DEF Native, IInv, ExclusiveUse
    <2>2. PICK r \in Call(call[t], sim) : sim' = r.sim /\ code' = [code EXCEPT ![t] = r.code]
        BY <1>4 DEF Native
    <2>3. pc' = [pc EXCEPT ![t] = "back"] /\ UNCHANGED <<iter_obj, call>>
        BY <1>4 DEF Native
    <2>4. call' = [u \in Threads |-> call'[u]] /\ code' = [u \in Threads |-> code'[u]]
        BY <1>1, <2>2, <2>3
    <2>5. ASSUME NEW u \in Threads, pc'[u] = "back", call'[u].op = "iter", code'[u] = "ok" PROVE sim' = Flushed
        <3>1. u = t
            BY <1>1, <2>1, <2>3, <2>5
        <3>2. call[t].op = "iter" /\ r.code = "ok"
            BY <1>1, <2>2, <2>3, <2>5, <3>1
        <3> QED BY <2>2, <3>2, FlushReports
    <2> QED BY <2>1, <2>3, <2>4, <2>5 DEF FlushedInv, IteratorsFlushed
<1>5. ASSUME NEW t \in Threads, Return(t) PROVE FlushedInv'
    <2>1. pc[t] = "back" /\ ~home /\ iter_obj = NoIterator /\ \A u \in Threads : u # t => pc[u] = "python"
        BY <1>5, LentHasNoIterator DEF Return, IInv, ExclusiveUse
    <2>2. PICK i \in {NoIterator} \cup (Iterators \ held) :
              /\ i # NoIterator => call[t].op = "iter" /\ code[t] = "ok"
              /\ ReturnWith(t, i)
        BY <1>5, <2>1 DEF Return
    <2>3. /\ iter_obj' = (IF i = NoIterator THEN iter_obj ELSE i) /\ pc' = [pc EXCEPT ![t] = "python"]
          /\ call' = [call EXCEPT ![t] = NoCall] /\ code' = [code EXCEPT ![t] = "ok"] /\ sim' = sim
        BY <2>2 DEF ReturnWith
    <2>4. iter_obj' # NoIterator => sim' = Flushed
        BY <1>1, <2>1, <2>2, <2>3
    <2>5. \A u \in Threads : pc'[u] = "python"
        BY <1>1, <2>1, <2>3
    <2>6. call' = [u \in Threads |-> call'[u]] /\ code' = [u \in Threads |-> code'[u]]
        BY <1>1, <2>3
    <2> QED BY <2>4, <2>5, <2>6 DEF FlushedInv, IteratorsFlushed, Flushed
<1>6. ASSUME NEW t \in Threads, NEW c \in FastCalls, Fast(t, c) PROVE FlushedInv'
    <2>1. \A u \in Threads : pc[u] = "python"
        BY <1>6 DEF Fast, Calling, IInv, ExclusiveUse
    <2>2. iter_obj' = NoIterator /\ UNCHANGED <<pc, call, code>>
        BY <1>6 DEF Fast, FastIterator
    <2> QED BY <1>1, <2>1, <2>2 DEF FlushedInv, IteratorsFlushed
<1>7. ASSUME NEW i \in Iterators, DropIterator(i) PROVE FlushedInv'
    <2>1. iter_obj' \in {iter_obj, NoIterator} /\ UNCHANGED <<sim, pc, call, code>>
        BY <1>7 DEF DropIterator
    <2> QED BY <1>1, <2>1 DEF FlushedInv, IteratorsFlushed
<1>8. ASSUME UNCHANGED <<iter_obj, sim, pc, call, code>> PROVE FlushedInv'
    BY <1>8 DEF FlushedInv, IteratorsFlushed
<1> QED
    BY <1>2, <1>3, <1>4, <1>5, <1>6, <1>7, <1>8
    DEF Next, Refuse, Concurrent, IteratorNext, CopyName, DropName, Ended, vars, objectVars

-----------------------------------------------------------------------------
(* Theorems                                                                *)

\* However threads, names and iterators come and go, at most one thread has the
\* native simulator of mod.c's Simulator object, and no check that ends the
\* process (Py_FatalError, abort) fails.
THEOREM OneOwner == Spec => []ExclusiveUse
<1>1. IInv => ExclusiveUse BY DEF IInv
<1> QED BY <1>1, Invariance, PTL

\* An iterator that can still be advanced reads memory that is there and
\* unchanged: every call of mod.c invalidates it first.
THEOREM IteratorsSafe == Spec => []IteratorsValid
<1>1. IInv => IteratorsValid BY DEF IInv
<1> QED BY <1>1, Invariance, PTL

\* The native simulator is freed by the last reference, never before and never
\* later.
THEOREM LifetimesExact == Spec => []Lifetimes
<1>1. IInv => Lifetimes BY DEF IInv
<1> QED BY <1>1, Invariance, PTL

\* "If iterators exist, the simulator is flushed" (mod.c): an iterator that can be
\* advanced shows a vector that has not been lost and lacks the effect of no call,
\* although Simulator_iter flushes without the interpreter lock.
THEOREM IteratorsComplete == Spec => []IteratorsFlushed
<1>1. FlushedInv => IteratorsFlushed BY DEF FlushedInv
<1> QED BY <1>1, FlushedInit, FlushedStep, Invariance, PTL DEF Spec

\* Arguments that pass the checks of capi.rs and are neither a swap of a qubit
\* with itself nor a pool without threads meet every assertion of the simulator
\* about its arguments.  A process that panics has an empty vector, which a failed
\* allocation or the import of an all-zero buffer leaves.
THEOREM PanicsExplained ==
    NoSelfSwap /\ SomeThreads => (Spec => []PanicsOnlyAfterError)
<1>1. PanicInv => PanicsOnlyAfterError BY DEF PanicInv
<1> SUFFICES ASSUME NoSelfSwap, SomeThreads PROVE Spec => []PanicsOnlyAfterError
    OBVIOUS
<1>2. IInv /\ PanicInv /\ [Next]_vars => PanicInv'
    BY PanicStep
<1> QED BY <1>1, <1>2, PanicInit, Invariance, PTL DEF Spec
=============================================================================
