----------------------------- MODULE PoolTasks ------------------------------
(***************************************************************************)
(* What the three synchronisation layers of the thread pool share: the     *)
(* threads, the task stack and the items, src/src/threading.rs.  The       *)
(* operators below are the parts of the layers' actions that work on the   *)
(* stack; a layer adds where the thread goes and what becomes of the lock. *)
(***************************************************************************)
EXTENDS Integers, Sequences, FiniteSets

CONSTANTS
    N,         \* State::n, the number of threads
    Items,     \* the work items that are ever submitted
    NoItem,    \* a thread that runs no item
    MaxScopes  \* bound on the number of scopes opened

\* Pool::new makes no State for a single thread.
ASSUME PoolAssumption ==
    /\ N \in Nat \ {0, 1}
    /\ NoItem \notin Items
    /\ MaxScopes \in Nat

Threads == 0 .. (N - 1)
Main == 0                    \* the thread that opens scopes and drops the pool
Workers == Threads \ {Main}

\* A SimpleTask holds one closure, a MultiTask an iterator.
Task == [kind : {"simple", "multi"}, items : SUBSET Items]
NoTask == [kind |-> "none", items |-> {}]

VARIABLES
    tasks,   \* State::tasks, the top of the stack is the last element
    pc,      \* where each thread is
    new,     \* the task it is submitting
    job,     \* the item it is running
    todo,    \* items not submitted yet
    done,    \* items whose closure has returned
    scopes   \* number of scopes opened

history == <<todo, done, scopes>>

\* The stack, what the threads carry and the history are well typed.
TaskType ==
    /\ tasks \in Seq(Task)
    /\ new \in [Threads -> Task \cup {NoTask}]
    /\ job \in [Threads -> Items \cup {NoItem}]
    /\ todo \in SUBSET Items
    /\ done \in SUBSET Items
    /\ scopes \in 0 .. MaxScopes

\* Pool::new: the main thread is outside of scopes, the workers are starting.
TaskInit ==
    /\ tasks = <<>>
    /\ pc = [t \in Threads |-> IF t = Main THEN "out" ELSE "start"]
    /\ new = [t \in Threads |-> NoTask]
    /\ job = [t \in Threads |-> NoItem]
    /\ todo = Items
    /\ done = {}
    /\ scopes = 0

Goto(t, l) == pc' = [pc EXCEPT ![t] = l]

-----------------------------------------------------------------------------
Top == tasks[Len(tasks)]
Pop == SubSeq(tasks, 1, Len(tasks) - 1)

\* Fault: the task is read and not popped.
TakeSimpleTwice(t) ==
    /\ tasks # <<>> /\ Top.kind = "simple"
    /\ \E i \in Top.items : job' = [job EXCEPT ![t] = i]
    /\ UNCHANGED <<tasks, new, history>>

\* SimpleTask::run: consume() pops the task; the closure runs when the lock is
\* dropped.
TakeSimple(t) ==
    /\ tasks # <<>> /\ Top.kind = "simple"
    /\ \E i \in Top.items : job' = [job EXCEPT ![t] = i]
    /\ tasks' = Pop
    /\ UNCHANGED <<new, history>>

\* MultiTask::run: the iterator yields an element; the task stays on top.
TakeElement(t) ==
    /\ tasks # <<>> /\ Top.kind = "multi"
    /\ \E i \in Top.items :
          /\ job' = [job EXCEPT ![t] = i]
          /\ tasks' = Append(Pop, [Top EXCEPT !.items = @ \ {i}])
    /\ UNCHANGED <<new, history>>

\* MultiTask::run at the end of the iterator: discard().
Discard ==
    /\ tasks # <<>> /\ Top.kind = "multi" /\ Top.items = {}
    /\ tasks' = Pop
    /\ UNCHANGED <<new, job, history>>

\* Scope::submit_one and Scope::for_each make a task of one or more items nobody has
\* submitted before.
NewTask(t) ==
    /\ \E k \in {"simple", "multi"}, S \in (SUBSET todo) \ {{}} :
          /\ k = "simple" => \E i \in S : S = {i}
          /\ new' = [new EXCEPT ![t] = [kind |-> k, items |-> S]]
          /\ todo' = todo \ S
    /\ UNCHANGED <<tasks, job, done, scopes>>

\* Lock::submit: the push.
PushTask(t) ==
    /\ tasks' = Append(tasks, new[t])
    /\ new' = [new EXCEPT ![t] = NoTask]
    /\ UNCHANGED <<job, history>>

\* The item's closure returns.
Finish(t) ==
    /\ done' = done \cup {job[t]}
    /\ job' = [job EXCEPT ![t] = NoItem]
    /\ UNCHANGED <<tasks, new, todo, scopes>>

\* PoolRef::scope calls its closure.
OpenScope ==
    /\ scopes < MaxScopes
    /\ scopes' = scopes + 1
    /\ UNCHANGED <<tasks, new, job, todo, done>>

-----------------------------------------------------------------------------
\* Where State::lock returns to: Lock::submit or the loop of run_all.
Locked(t) == IF new[t] # NoTask THEN "push" ELSE "run"

\* Where a thread goes when it has released the lock.
Released(t) == IF job[t] # NoItem THEN "exec" ELSE "closure"

\* Lock::submit and Lock::run_all of a thread that holds the lock, up to the
\* call that releases it.
LockedStep(t) ==
    \/ pc[t] = "push" /\ PushTask(t) /\ Goto(t, "unlock")
    \/ pc[t] = "run" /\ (TakeSimple(t) \/ TakeElement(t)) /\ Goto(t, "unlock")
    \/ pc[t] = "run" /\ Discard /\ UNCHANGED pc
    \/ pc[t] = "run" /\ tasks = <<>> /\ Goto(t, "idle") /\ UNCHANGED <<tasks, new, job, history>>

\* What a thread does in the closures it was given, up to the call of lock():
\* submit, return from an item, return from the scope's closure to State::main.
ClosureStep(t) ==
    \/ pc[t] \in {"closure", "exec"} /\ NewTask(t) /\ Goto(t, "lock")
    \/ pc[t] = "exec" /\ Finish(t) /\ Goto(t, "lock")
    \/ pc[t] = "closure" /\ Goto(t, "lock") /\ UNCHANGED <<tasks, new, job, history>>

-----------------------------------------------------------------------------
Stopped == pc[Main] \in {"stop_wake", "stopped"}
Queued ==
    (UNION {tasks[k].items : k \in DOMAIN tasks}) \cup (UNION {new[t].items : t \in Threads})
Running == {job[t] : t \in Threads} \ {NoItem}

\* When scope() has returned, everything submitted is finished and no worker
\* still refers to the scope's data.
ScopeComplete ==
    pc[Main] = "out" =>
        /\ done = Items \ todo
        /\ tasks = <<>>
        /\ \A t \in Workers : job[t] = NoItem /\ new[t] = NoTask

\* After Drop for Pool every worker ends.
WorkersExit == Stopped ~> \A t \in Workers : pc[t] = "exited"

\* Where the owner of the pool is.
Phase == IF pc[Main] = "out" THEN "out" ELSE IF Stopped THEN "stopped" ELSE "scope"

\* What the users of a pool may rely on.
Abstract ==
    INSTANCE TaskPool WITH
        phase <- Phase,
        queued <- Queued,
        running <- Running

\* Every step of the pool is one that its users may rely on: each item is started
\* once, by one of N threads, and finished inside its scope.
ImplementsPool == Abstract!Spec
=============================================================================
