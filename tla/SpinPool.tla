------------------------------ MODULE SpinPool ------------------------------
(***************************************************************************)
(* The thread pool with its spinning synchronisation layer:                *)
(* src/src/threading.rs over src/src/threading/sync_impl.spin.rs.  One     *)
(* word holds the lock, the "there is work" flag and the idle count, and   *)
(* threads that wait read it over and over.                                *)
(*                                                                         *)
(* A load followed by compare_exchange_weak is one action.  A load         *)
(* followed by a plain store is two.                                       *)
(***************************************************************************)
EXTENDS PoolTasks

\* The word: STATE_IDLE, STATE_LOCKED, STATE_WORK in its two low bits, the idle
\* count above them.
Word == [idle : 0 .. N, st : {"idle", "locked", "work"}]
W(n, s) == [idle |-> n, st |-> s]
STOPPING == W(0, "idle")     \* the number 0
AllIdle == W(N, "idle")

VARIABLES
    word,    \* State::sync
    v        \* each thread's local copy of the word

vars == <<tasks, pc, new, job, todo, done, scopes, word, v>>

Labels == {"out", "closure", "start", "lock", "push", "run", "unlock", "unlock_store",
           "exec", "idle", "idle_store", "waiting", "leave", "stopped", "exited"}

\* The state is well typed; the idle count never leaves 0 .. N.
TypeOK ==
    /\ TaskType
    /\ pc \in [Threads -> Labels]
    /\ word \in Word
    /\ v \in [Threads -> Word]

\* Pool::new and new(): the workers count as idle before they start.
Init ==
    /\ TaskInit
    /\ word = W(N - 1, "idle")
    /\ v = [t \in Threads |-> STOPPING]

-----------------------------------------------------------------------------
(* lock() and unlock()                                                     *)

\* An unlocked word is taken and loses its WORK flag.
Lock(t) ==
    /\ pc[t] = "lock"
    /\ word.st # "locked"
    /\ word' = [word EXCEPT !.st = "locked"]
    /\ Goto(t, Locked(t))
    /\ UNCHANGED <<tasks, new, job, history, v>>

\* unlock(): the load.
Unlock(t) ==
    /\ pc[t] = "unlock"
    /\ v' = [v EXCEPT ![t] = W(word.idle, IF tasks # <<>> THEN "work" ELSE "idle")]
    /\ Goto(t, "unlock_store")
    /\ UNCHANGED <<tasks, new, job, history, word>>

\* A plain store of a value computed from an earlier load, and the end of a call.
Store(t, l) ==
    /\ word' = v[t]
    /\ v' = [v EXCEPT ![t] = STOPPING]
    /\ Goto(t, l)
    /\ UNCHANGED <<tasks, new, job, history>>

UnlockStore(t) == pc[t] = "unlock_store" /\ Store(t, Released(t))

-----------------------------------------------------------------------------
(* start_work(), wait_work() and wait_main()                               *)

\* unlock_idle(): the load.
UnlockIdle(t) ==
    /\ pc[t] = "idle"
    /\ v' = [v EXCEPT ![t] = W(word.idle + 1, "idle")]
    /\ Goto(t, "idle_store")
    /\ UNCHANGED <<tasks, new, job, history, word>>

\* unlock_idle(): the store.  The main thread leaves when it was the last.
UnlockIdleStore(t) ==
    /\ pc[t] = "idle_store"
    /\ Store(t, IF t = Main /\ v[t] = AllIdle THEN "leave" ELSE "waiting")

\* Fault: the lock is taken although somebody holds it.
TakeWorkLocked(t) ==
    /\ word.st # "idle"
    /\ word' = W(word.idle - 1, "locked")
    /\ Goto(t, "run")

\* Fault: the thread that takes work is still counted as idle.
TakeWorkStillIdle(t) ==
    /\ word.st = "work"
    /\ word' = W(word.idle, "locked")
    /\ Goto(t, "run")

\* Take the lock of a word with work and stop being idle.
TakeWork(t) ==
    /\ word.st = "work"
    /\ word' = W(word.idle - 1, "locked")
    /\ Goto(t, "run")

\* An iteration of the waiting loops that finds something: work, the end of the
\* pool, or for the main thread that everybody is idle.
Wait(t) ==
    /\ pc[t] \in {"start", "waiting"}
    /\ \/ TakeWork(t)
       \/ t # Main /\ word = STOPPING /\ Goto(t, "exited") /\ UNCHANGED word
       \/ t = Main /\ word = AllIdle /\ Goto(t, "leave") /\ UNCHANGED word
    /\ UNCHANGED <<tasks, new, job, history, v>>

\* An iteration of a loop that finds nothing: hint::spin_loop().
Spin(t) ==
    /\ \/ pc[t] = "lock" /\ word.st = "locked"
       \/ /\ pc[t] \in {"start", "waiting"} /\ word.st # "work"
          /\ word # (IF t = Main THEN AllIdle ELSE STOPPING)
    /\ UNCHANGED vars

\* wait_main() stores v - IDLE_1 with v = AllIdle.
LeaveMain ==
    /\ pc[Main] = "leave"
    /\ word' = W(N - 1, "idle")
    /\ Goto(Main, "out")
    /\ UNCHANGED <<tasks, new, job, history, v>>

-----------------------------------------------------------------------------
(* The owner of the pool                                                   *)

BeginScope ==
    /\ pc[Main] = "out"
    /\ OpenScope
    /\ Goto(Main, "closure")
    /\ UNCHANGED <<word, v>>

\* Fault: the number of idle threads stays in the word.
StopKeepsCount ==
    /\ pc[Main] = "out"
    /\ word' = W(N - 1, "idle")
    /\ Goto(Main, "stopped")
    /\ UNCHANGED <<tasks, new, job, history, v>>

\* Drop for Pool: stop() stores STOPPING.
Stop ==
    /\ pc[Main] = "out"
    /\ word' = STOPPING
    /\ Goto(Main, "stopped")
    /\ UNCHANGED <<tasks, new, job, history, v>>

\* The pool is gone and all its threads have ended.
Terminated ==
    /\ pc[Main] = "stopped"
    /\ \A t \in Workers : pc[t] = "exited"
    /\ UNCHANGED vars

-----------------------------------------------------------------------------
\* What a thread does in the pool's own code.
PoolStep(t) ==
    \/ LockedStep(t) /\ UNCHANGED <<word, v>>
    \/ Lock(t) \/ Unlock(t) \/ UnlockStore(t) \/ UnlockIdle(t) \/ UnlockIdleStore(t) \/ Wait(t)
    \/ t = Main /\ LeaveMain

\* What it does in the closures it was given.
UserStep(t) == ClosureStep(t) /\ UNCHANGED <<word, v>>

Next ==
    \/ \E t \in Threads : PoolStep(t) \/ UserStep(t) \/ Spin(t)
    \/ BeginScope
    \/ Stop
    \/ Terminated

Spec == Init /\ [][Next]_vars

(***************************************************************************)
(* The operating system runs every thread; a spinning thread sees what     *)
(* stays true.  Nothing is assumed of who takes the lock first.  FairSpec  *)
(* lets an item run for ever; ClosuresReturn is what a property assumes    *)
(* that needs the closures to return.                                      *)
(***************************************************************************)
FairSpec == Spec /\ \A t \in Threads : WF_vars(PoolStep(t))
ClosuresReturn == \A t \in Threads : WF_vars(UserStep(t))

-----------------------------------------------------------------------------
(* Properties                                                              *)

HoldsLock(t) ==
    pc[t] \in {"push", "run", "unlock", "unlock_store", "idle", "idle_store"}

Idle == {t \in Threads : pc[t] \in {"start", "waiting", "leave"}}

\* At most one thread is between lock() and the store that releases the lock,
\* and the word says so.
MutualExclusion ==
    /\ \A t, u \in Threads : HoldsLock(t) /\ HoldsLock(u) => t = u
    /\ (\E t \in Threads : HoldsLock(t)) <=> word.st = "locked"

\* "The idle count only changes on lock/unlock or when exiting the main loop":
\* the word counts the threads that wait, although every release is a load and a
\* plain store, and a worker ends only after the pool was stopped.
IdleCount ==
    /\ ~Stopped => word.idle = Cardinality(Idle)
    /\ \A t \in Workers : pc[t] = "exited" => Stopped

\* The debug_assert! lines of sync_impl.spin.rs and the assertion of State::stop.
Asserts ==
    /\ \A t \in Threads :
        /\ pc[t] \in {"unlock", "idle"} => word.st = "locked"
        /\ pc[t] = "idle" => tasks = <<>>
        /\ pc[t] \in {"start", "waiting"} /\ word.st # "work" /\ ~(t # Main /\ word = STOPPING)
              => word.idle >= 1
    /\ pc[Main] = "leave" => word = AllIdle
    /\ pc[Main] = "out" => word = W(N - 1, "idle")
    /\ Stopped => tasks = <<>>

\* The word of sync_impl.spin.rs is exact, although every release of the lock is
\* a load and a plain store: lock, count, and what the assertions say of them.
WordExact == TypeOK /\ MutualExclusion /\ IdleCount /\ Asserts

\* If the closures return, so does every scope, whoever loses which race for the
\* lock.
ScopeReturns == ClosuresReturn => Abstract!Returns
=============================================================================
