------------------------------ MODULE TaskPool ------------------------------
(***************************************************************************)
(* What the thread pool of src/src/threading.rs promises to its users,     *)
(* whatever its synchronisation layer: PoolRef::scope runs a closure that  *)
(* submits work items, every submitted item is executed exactly once by    *)
(* one of the N threads, an item may submit further items to the same      *)
(* scope, scope() returns only when nothing submitted is left, and the     *)
(* pool is stopped only between scopes.                                    *)
(***************************************************************************)
EXTENDS Naturals, FiniteSets

CONSTANTS
    N,      \* number of threads, the thread that opens scopes included
    Items   \* the work items: the closures handed to submit_one, the
            \* elements of the iterators handed to for_each and map

VARIABLES
    phase,   \* "out", "scope" or "stopped": where the owner of the pool is
    todo,    \* items nobody has submitted yet
    queued,  \* submitted, not started
    running, \* started, not finished
    done     \* finished

vars == <<phase, todo, queued, running, done>>

Init ==
    /\ phase = "out"
    /\ todo = Items
    /\ queued = {}
    /\ running = {}
    /\ done = {}

\* PoolRef::scope enters.
BeginScope ==
    /\ phase = "out"
    /\ phase' = "scope"
    /\ UNCHANGED <<todo, queued, running, done>>

\* Scope::submit_one submits one item, Scope::for_each the elements of an
\* iterator; both are only possible while the scope lives.
Submit(S) ==
    /\ phase = "scope"
    /\ S # {}
    /\ S \subseteq todo
    /\ todo' = todo \ S
    /\ queued' = queued \cup S
    /\ UNCHANGED <<phase, running, done>>

\* A thread takes an item and runs it.
Start(i) ==
    /\ i \in queued
    /\ Cardinality(running) < N
    /\ queued' = queued \ {i}
    /\ running' = running \cup {i}
    /\ UNCHANGED <<phase, todo, done>>

Finish(i) ==
    /\ i \in running
    /\ running' = running \ {i}
    /\ done' = done \cup {i}
    /\ UNCHANGED <<phase, todo, queued>>

\* PoolRef::scope returns: only when all submitted items are finished.
Return ==
    /\ phase = "scope"
    /\ queued = {}
    /\ running = {}
    /\ phase' = "out"
    /\ UNCHANGED <<todo, queued, running, done>>

\* Drop for Pool.
Stop ==
    /\ phase = "out"
    /\ phase' = "stopped"
    /\ UNCHANGED <<todo, queued, running, done>>

Next ==
    \/ BeginScope
    \/ \E S \in SUBSET Items : Submit(S)
    \/ \E i \in Items : Start(i) \/ Finish(i)
    \/ Return
    \/ Stop

Spec == Init /\ [][Next]_vars

\* The pool owes that a scope returns; opening scopes, submitting and stopping
\* are the user's choice.
Returns == phase = "scope" ~> phase = "out"
=============================================================================
