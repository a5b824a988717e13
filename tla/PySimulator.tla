---------------------------- MODULE PySimulator -----------------------------
(***************************************************************************)
(* The Python extension: src/python/mod.c over the C interface.  One       *)
(* simulator object, used by several threads, and the iterators made from  *)
(* it.                                                                     *)
(*                                                                         *)
(* A thread that runs Python code or code of the extension holds the       *)
(* interpreter lock, so what it does until it gives the lock up is one     *)
(* action.  Slow calls give it up for the time of the native call: Begin,  *)
(* Native and Return.  Meanwhile other threads may call the same object,   *)
(* advance and drop iterators and delete references.                       *)
(***************************************************************************)
EXTENDS CApi

CONSTANTS
    Threads,
    Names,        \* Python references to the simulator object
    Iterators,    \* iterator objects
    NoIterator,   \* NULL
    SlowCalls,    \* calls made without the interpreter lock
    FastCalls,    \* calls made with it
    ThreadCounts, \* values offered for the option thread_count
    NoCall

ASSUME PyAssumption ==
    /\ NoIterator \notin Iterators
    /\ Names \cap Threads = {} /\ Names \cap Iterators = {} /\ Threads \cap Iterators = {}
    /\ \A c \in SlowCalls \cup FastCalls : c.op \in Operations
    /\ NoCall \notin SlowCalls \cup FastCalls

VARIABLES
    exists,     \* the object and its native simulator exist
    home,       \* self->sim # NULL: the native simulator is not lent to a call
    iter_obj,   \* self->iter_obj
    sim_obj,    \* io->sim_obj # NULL, per iterator
    iter,       \* io->iter: "none", or a native iterator that is "valid" or "stale"
    held,       \* the iterators Python code refers to
    names,      \* the references Python code has to the simulator object
    sim,        \* the native simulator
    pc,         \* where a thread is: "python", "native", or "back" from there
    call,       \* the slow call of a thread
    code,       \* what the native call of a thread returned
    answer,     \* what Python code was told last
    ended       \* how the process ended, if it did

objectVars == <<exists, home, iter_obj, sim_obj, iter, held, names>>
vars == <<objectVars, sim, pc, call, code, answer, ended>>

Answers ==
    ErrorCodes \cup {"ok", "no exception", "Concurrent use", "Iterator invalidated", "Expected finite number"}

\* The state is well typed.
TypeOK ==
    /\ exists \in BOOLEAN /\ home \in BOOLEAN
    /\ iter_obj \in Iterators \cup {NoIterator}
    /\ sim_obj \in [Iterators -> BOOLEAN]
    /\ iter \in [Iterators -> {"none", "valid", "stale"}]
    /\ held \subseteq Iterators /\ names \subseteq Names
    /\ sim \in Simulators
    /\ pc \in [Threads -> {"python", "native", "back"}]
    /\ call \in [Threads -> SlowCalls \cup {NoCall}]
    /\ code \in [Threads -> ErrorCodes \cup {"ok"}]
    /\ answer \in Answers
    /\ ended \in {"no", "panic", "fatal"}

Init ==
    /\ exists = FALSE /\ home = FALSE /\ names = {}
    /\ iter_obj = NoIterator
    /\ sim_obj = [i \in Iterators |-> FALSE]
    /\ iter = [i \in Iterators |-> "none"]
    /\ held = {}
    /\ sim \in NewSimulators
    /\ pc = [t \in Threads |-> "python"]
    /\ call = [t \in Threads |-> NoCall]
    /\ code = [t \in Threads |-> "ok"]
    /\ answer = "ok"
    /\ ended = "no"

-----------------------------------------------------------------------------
(* References                                                              *)

\* Fault: an iterator has no reference to its simulator.
RefsNoIncref(n, p, so) == n \cup {t \in Threads : p[t] # "python"}

\* What Py_REFCNT of the simulator object counts: names, calls and iterators.
Refs(n, p, so) ==
    n \cup {t \in Threads : p[t] # "python"} \cup {i \in Iterators : so[i]}

\* The vector's memory changes or goes away.
Touch(f) == [i \in Iterators |-> IF f[i] = "none" THEN "none" ELSE "stale"]

\* Simulator_invalidate_iterator, but for the reference it gives back.
Invalidate(f, i, null) == IF i = NoIterator THEN f ELSE [f EXCEPT ![i] = null]

\* Py_DECREF of the simulator object, after which the references are r:
\* Simulator_dealloc, in which Simulator_acquire refuses a simulator that is
\* lent and an iterator that is left.
Decref(r, io) ==
    IF r # {} THEN UNCHANGED <<exists, home, ended>>
    ELSE IF ~home \/ io # NoIterator THEN ended' = "fatal" /\ UNCHANGED <<exists, home>>
    ELSE exists' = FALSE /\ home' = FALSE /\ UNCHANGED ended

-----------------------------------------------------------------------------
(* Calls                                                                   *)

\* A thread in Python code calls a method of the object.
Calling(t) == ended = "no" /\ pc[t] = "python" /\ names # {}

\* Simulator_new: the options are checked by assertions of Simulator::new.
New(t, n) ==
    /\ ended = "no" /\ ~exists /\ pc[t] = "python"
    /\ \E threads \in ThreadCounts :
          IF threads = 0 THEN ended' = "panic" /\ UNCHANGED <<exists, home, names, sim>>
          ELSE /\ exists' = TRUE /\ home' = TRUE /\ names' = {n}
               /\ sim' \in NewSimulators
               /\ UNCHANGED ended
    /\ UNCHANGED <<iter_obj, sim_obj, iter, held, pc, call, code, answer>>

\* decode_double refuses the arguments before anything else.
Refuse(t, c) ==
    /\ Calling(t) /\ ~c.finite
    /\ answer' = "Expected finite number"
    /\ UNCHANGED <<objectVars, sim, pc, call, code, ended>>

\* Simulator_acquire finds the simulator lent to a call.
Concurrent(t, c) ==
    /\ Calling(t) /\ c.finite /\ ~home
    /\ answer' = "Concurrent use"
    /\ UNCHANGED <<objectVars, sim, pc, call, code, ended>>

\* Fault: the pointer is read, not taken.
AcquireReads ==
    /\ home' = home
    /\ iter' = Invalidate(iter, iter_obj, "none")
    /\ sim_obj' = Invalidate(sim_obj, iter_obj, FALSE)
    /\ iter_obj' = NoIterator

\* Fault: the iterator is left alone.
AcquireKeepsIterator == home' = FALSE /\ UNCHANGED <<iter, sim_obj, iter_obj>>

\* Simulator_acquire: the pointer is taken, and an iterator loses its own.
Acquire ==
    /\ home' = FALSE
    /\ iter' = Invalidate(iter, iter_obj, "none")
    /\ sim_obj' = Invalidate(sim_obj, iter_obj, FALSE)
    /\ iter_obj' = NoIterator

\* Where Simulator_acquire invalidates an iterator Py_REFCNT must be at least 2.
\* The caller has a reference of its own.
RefsSuffice(t) ==
    iter_obj # NoIterator => \E r, s \in Refs(names, pc, sim_obj) \cup {t} : r # s

\* DO_SLOW and Simulator_iter up to Py_BEGIN_ALLOW_THREADS.
Begin(t, c) ==
    /\ Calling(t) /\ c.finite /\ home
    /\ IF RefsSuffice(t)
       THEN /\ Acquire
            /\ pc' = [pc EXCEPT ![t] = "native"]
            /\ call' = [call EXCEPT ![t] = c]
            /\ UNCHANGED ended
       ELSE ended' = "fatal" /\ UNCHANGED <<home, iter, sim_obj, iter_obj, pc, call>>
    /\ UNCHANGED <<exists, held, names, sim, code, answer>>

\* The native call, without the interpreter lock.
Native(t) ==
    /\ ended = "no" /\ pc[t] = "native"
    /\ \E r \in Call(call[t], sim) :
          /\ sim' = r.sim
          /\ code' = [code EXCEPT ![t] = r.code]
          /\ ended' = IF r.panic THEN "panic" ELSE ended
    /\ iter' = Touch(iter)
    /\ pc' = [pc EXCEPT ![t] = "back"]
    /\ UNCHANGED <<exists, home, iter_obj, sim_obj, held, names, call, answer>>

\* What Simulator_iter without an iterator to return tells Python code: nothing
\* where the flush failed, a lack of memory where the iterator found none.
NoIteratorAnswer(r) == IF r = "ok" THEN "MEMORY" ELSE "no exception"

\* Simulator_release, and the caller's reference ends.  Simulator_iter has made
\* an iterator before it releases, if there was memory for one.
ReturnWith(t, i) ==
    LET so == IF i = NoIterator THEN sim_obj ELSE [sim_obj EXCEPT ![i] = TRUE]
        p == [pc EXCEPT ![t] = "python"]
    IN  /\ sim_obj' = so
        /\ iter_obj' = IF i = NoIterator THEN iter_obj ELSE i
        /\ iter' = IF i = NoIterator THEN iter ELSE [iter EXCEPT ![i] = "valid"]
        /\ held' = IF i = NoIterator THEN held ELSE held \cup {i}
        /\ pc' = p
        /\ home' = (Refs(names, p, so) # {})
        /\ exists' = (Refs(names, p, so) # {})
        /\ call' = [call EXCEPT ![t] = NoCall]
        /\ code' = [code EXCEPT ![t] = "ok"]
        /\ answer' = IF call[t].op = "iter" /\ i = NoIterator THEN NoIteratorAnswer(code[t]) ELSE code[t]
        /\ UNCHANGED <<names, sim, ended>>

Return(t) ==
    /\ ended = "no" /\ pc[t] = "back"
    /\ IF home THEN ended' = "fatal" /\ UNCHANGED <<objectVars, sim, pc, call, code, answer>>
       ELSE \E i \in {NoIterator} \cup (Iterators \ held) :
               /\ i # NoIterator => call[t].op = "iter" /\ code[t] = "ok"
               /\ ReturnWith(t, i)

\* Fault: a gate is only queued, the vector stays, and so does the iterator.
FastIteratorKept(c) ==
    IF c.op = "u3" THEN UNCHANGED <<iter, sim_obj, iter_obj>>
    ELSE /\ iter' = Touch(Invalidate(iter, iter_obj, "none"))
         /\ sim_obj' = Invalidate(sim_obj, iter_obj, FALSE)
         /\ iter_obj' = NoIterator

\* Simulator_acquire takes the iterator's pointer before call c may touch the vector.
FastIterator(c) ==
    /\ iter' = Touch(Invalidate(iter, iter_obj, "none"))
    /\ sim_obj' = Invalidate(sim_obj, iter_obj, FALSE)
    /\ iter_obj' = NoIterator

\* A call that keeps the interpreter lock: Simulator_reset_state, clone, u3 and
\* its relatives, state_len and _perf.
Fast(t, c) ==
    /\ Calling(t) /\ c.finite /\ home
    /\ \E r \in Call(c, sim) :
          /\ sim' = r.sim
          /\ answer' = r.code
          /\ ended' = IF ~RefsSuffice(t) THEN "fatal" ELSE IF r.panic THEN "panic" ELSE ended
    /\ FastIterator(c)
    /\ UNCHANGED <<exists, home, held, names, pc, call, code>>

-----------------------------------------------------------------------------
(* References in Python code                                               *)

\* Iterator_next reads the vector, or finds the iterator invalidated.
IteratorNext(t, i) ==
    /\ ended = "no" /\ pc[t] = "python" /\ i \in held
    /\ answer' = IF iter[i] = "none" THEN "Iterator invalidated" ELSE "ok"
    /\ UNCHANGED <<objectVars, sim, pc, call, code, ended>>

\* Iterator_dealloc: the last reference to an iterator goes away.
DropIterator(i) ==
    /\ ended = "no" /\ i \in held
    /\ held' = held \ {i}
    /\ IF sim_obj[i]
       THEN /\ iter' = Invalidate(iter, i, "none")
            /\ sim_obj' = Invalidate(sim_obj, i, FALSE)
            /\ iter_obj' = NoIterator
            /\ Decref(Refs(names, pc, [sim_obj EXCEPT ![i] = FALSE]), NoIterator)
       ELSE UNCHANGED <<iter, sim_obj, iter_obj, exists, home, ended>>
    /\ UNCHANGED <<names, sim, pc, call, code, answer>>

\* Another name for the object, and one less.
CopyName(n) ==
    /\ ended = "no" /\ names # {}
    /\ names' = names \cup {n}
    /\ UNCHANGED <<exists, home, iter_obj, sim_obj, iter, held, sim, pc, call, code, answer, ended>>

DropName(n) ==
    /\ ended = "no" /\ n \in names
    /\ names' = names \ {n}
    /\ Decref(Refs(names \ {n}, pc, sim_obj), iter_obj)
    /\ iter' = IF Refs(names \ {n}, pc, sim_obj) = {} THEN Touch(iter) ELSE iter
    /\ UNCHANGED <<iter_obj, sim_obj, held, sim, pc, call, code, answer>>

\* The process has ended.
Ended == ended # "no" /\ UNCHANGED vars

Next ==
    \/ \E t \in Threads :
          \/ \E n \in Names : New(t, n)
          \/ \E c \in SlowCalls \cup FastCalls : Refuse(t, c) \/ Concurrent(t, c)
          \/ \E c \in SlowCalls : Begin(t, c)
          \/ Native(t) \/ Return(t)
          \/ \E c \in FastCalls : Fast(t, c)
          \/ \E i \in Iterators : IteratorNext(t, i)
    \/ \E i \in Iterators : DropIterator(i)
    \/ \E n \in Names : CopyName(n) \/ DropName(n)
    \/ Ended

Spec == Init /\ [][Next]_vars

-----------------------------------------------------------------------------
(* Properties                                                              *)

\* At most one thread has the native simulator, the object has not got it
\* meanwhile, and none of the checks that end the process (Py_FatalError, abort)
\* fails.
ExclusiveUse ==
    /\ \A t, u \in Threads : pc[t] # "python" /\ pc[u] # "python" => t = u
    /\ ended = "no" => (home <=> exists /\ \A t \in Threads : pc[t] = "python")
    /\ ended # "fatal"

\* An iterator that can still be advanced is the one its simulator knows, and
\* shows a vector that has not changed since: its memory is there.
IteratorsValid ==
    \A i \in Iterators :
        /\ iter[i] # "stale"
        /\ iter[i] = "valid" <=> iter_obj = i
        /\ sim_obj[i] <=> iter_obj = i
        /\ iter_obj = i => i \in held /\ (ended = "no" => home)

\* The simulator lives exactly as long as a name, a call or an iterator refers to
\* it; in the end nothing is left.
Lifetimes ==
    /\ ended = "no" =>
          (exists <=> names # {} \/ iter_obj # NoIterator \/ \E t \in Threads : pc[t] # "python")
    /\ names # {} => exists

\* "If iterators exist, the simulator is flushed" (mod.c, Simulator_clone), and
\* its vector has not been lost: an iterator shows the effect of every call that
\* was made before it, and none is queued while it can be advanced.
IteratorsFlushed == iter_obj # NoIterator => sim = [vec |-> "ok", queued |-> {}]

\* "Upon failure, most operations return one of the following error codes"
\* (qblaze.h): arguments that pass the checks of the C interface meet the
\* assertions behind it.  The process ends only over an empty vector, which a
\* failed allocation or the import of an all-zero buffer leaves.
PanicsOnlyAfterError == ended = "panic" => sim.vec = "empty"
=============================================================================
