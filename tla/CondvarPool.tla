---------------------------- MODULE CondvarPool -----------------------------
(***************************************************************************)
(* The thread pool with its portable synchronisation layer:                *)
(* src/src/threading.rs over src/src/threading/sync_impl.rs, a mutex that  *)
(* guards the idle count and one condition variable for both "there is     *)
(* work" and "everybody is idle".                                          *)
(*                                                                         *)
(* What a thread does while it holds the mutex is seen by others only when *)
(* it lets go, so a function that waits on the condition variable is one   *)
(* action from the lock to the wait.                                       *)
(***************************************************************************)
EXTENDS PoolTasks

\* The guarded number: the idle count, or bit 31.
STOPPING == N + 1

VARIABLES
    idle,      \* what StateInner::mtx guards
    holder,    \* the thread that holds the mutex, if any
    asleep,    \* the threads in Condvar::wait
    late       \* history: workers that went to sleep in front of queued tasks

sync == <<idle, holder, asleep, late>>
vars == <<tasks, pc, new, job, todo, done, scopes, idle, holder, asleep, late>>

Labels == {"out", "closure", "start", "lock", "push", "run", "unlock", "notify",
           "exec", "idle", "waiting", "stop_wake", "stopped", "exited"}

\* The state is well typed; the idle count never leaves 0 .. N while the pool
\* lives, so bit 31 is never set by counting.
TypeOK ==
    /\ TaskType
    /\ pc \in [Threads -> Labels]
    /\ idle \in 0 .. STOPPING
    /\ holder \in {{}} \cup {{t} : t \in Threads}
    /\ asleep \subseteq Threads
    /\ late \subseteq Workers

\* Pool::new and new(): the workers count as idle before they start.
Init ==
    /\ TaskInit
    /\ idle = N - 1
    /\ holder = {}
    /\ asleep = {}
    /\ late = {}

-----------------------------------------------------------------------------
(* The mutex and the condition variable                                    *)

\* Mutex::lock returns; the guard is in the hands of t.
Lock(t) ==
    /\ pc[t] = "lock"
    /\ holder = {}
    /\ holder' = {t}
    /\ Goto(t, Locked(t))
    /\ UNCHANGED <<tasks, new, job, history, idle, asleep, late>>

\* Condvar::wait lets go of the mutex and sleeps in one step.
CondWait(t, sleepers) ==
    /\ holder' = {}
    /\ asleep' = sleepers \cup {t}
    /\ Goto(t, "waiting")

\* Condvar::wait may return for no reason.
Spurious(t) ==
    /\ t \in asleep
    /\ asleep' = asleep \ {t}
    /\ late' = late \ {t}
    /\ UNCHANGED <<tasks, pc, new, job, history, idle, holder>>

-----------------------------------------------------------------------------
(* unlock()                                                                *)

\* Fault: the last idle thread is not notified.
NotifiesTwo == tasks # <<>> /\ idle > 1

\* Is there something to do and somebody to do it?
Notifies == tasks # <<>> /\ idle # 0

\* The mutex is dropped; the idle count that decides was read before.
Unlock(t) ==
    /\ pc[t] = "unlock"
    /\ holder' = {}
    /\ Goto(t, IF Notifies THEN "notify" ELSE Released(t))
    /\ UNCHANGED <<tasks, new, job, history, idle, asleep, late>>

\* Condvar::notify_one wakes any of the sleepers.
Notify(t) ==
    /\ pc[t] = "notify"
    /\ \/ \E u \in asleep : asleep' = asleep \ {u} /\ late' = late \ {u}
       \/ asleep = {} /\ UNCHANGED <<asleep, late>>
    /\ Goto(t, Released(t))
    /\ UNCHANGED <<tasks, new, job, history, idle, holder>>

-----------------------------------------------------------------------------
(* wait_work(), start_work() and wait_main()                               *)

\* Fault: the last thread to become idle tells nobody.
WokenByIdleNobody == {}

\* wait_work() notifies everybody when all threads are idle.
WokenByIdle == IF idle + 1 = N THEN asleep ELSE {}

WaitWork(t) ==
    /\ pc[t] = "idle" /\ t # Main
    /\ idle' = idle + 1
    /\ CondWait(t, asleep \ WokenByIdle)
    /\ late' = late \ WokenByIdle
    /\ UNCHANGED <<tasks, new, job, history>>

\* wait_main() leaves at once when the workers are idle.
WaitMain ==
    /\ pc[Main] = "idle"
    /\ \/ /\ idle + 1 = N
          /\ idle' = N - 1
          /\ holder' = {}
          /\ Goto(Main, "out")
          /\ UNCHANGED asleep
       \/ /\ idle + 1 # N
          /\ idle' = idle + 1
          /\ CondWait(Main, asleep)
    /\ UNCHANGED <<tasks, new, job, history, late>>

\* Fault: the thread that takes work is still counted as idle.
TakeWorkStillIdle(t) ==
    /\ tasks # <<>>
    /\ holder' = {t}
    /\ Goto(t, "run")
    /\ UNCHANGED <<idle, asleep, late>>

\* A thread that was woken and finds a task keeps the mutex.
TakeWork(t) ==
    /\ tasks # <<>>
    /\ idle' = idle - 1
    /\ holder' = {t}
    /\ Goto(t, "run")
    /\ UNCHANGED <<asleep, late>>

\* Condvar::wait returns with the mutex; the rest of the loop of lock_work() or
\* wait_main(), up to the next wait.
Woken(t) ==
    /\ pc[t] = "waiting" /\ t \notin asleep
    /\ holder = {}
    /\ \/ TakeWork(t)
       \/ /\ tasks = <<>> /\ t # Main /\ idle = STOPPING
          /\ Goto(t, "exited")
          /\ UNCHANGED sync
       \/ /\ tasks = <<>> /\ t = Main /\ idle = N
          /\ idle' = N - 1
          /\ Goto(t, "out")
          /\ UNCHANGED <<holder, asleep, late>>
       \/ /\ tasks = <<>> /\ idle # (IF t = Main THEN N ELSE STOPPING)
          /\ CondWait(t, asleep)
          /\ UNCHANGED <<idle, late>>
    /\ UNCHANGED <<tasks, new, job, history>>

\* start_work(): lock_work() waits before it looks at the stack for the first
\* time.
StartWork(t) ==
    /\ pc[t] = "start"
    /\ holder = {}
    /\ \/ /\ idle = STOPPING
          /\ Goto(t, "exited")
          /\ UNCHANGED sync
       \/ /\ idle # STOPPING
          /\ CondWait(t, asleep)
          /\ late' = IF tasks = <<>> THEN late ELSE late \cup {t}
          /\ UNCHANGED idle
    /\ UNCHANGED <<tasks, new, job, history>>

-----------------------------------------------------------------------------
(* The owner of the pool                                                   *)

BeginScope ==
    /\ pc[Main] = "out"
    /\ OpenScope
    /\ Goto(Main, "closure")
    /\ UNCHANGED sync

\* stop(), up to the drop of the mutex.
Stop ==
    /\ pc[Main] = "out"
    /\ holder = {}
    /\ idle' = STOPPING
    /\ Goto(Main, "stop_wake")
    /\ UNCHANGED <<tasks, new, job, history, holder, asleep, late>>

\* Fault: one worker is notified.
StopWakeOne ==
    /\ pc[Main] = "stop_wake"
    /\ \/ \E u \in asleep : asleep' = asleep \ {u}
       \/ asleep = {} /\ UNCHANGED asleep
    /\ late' = late \cap asleep'
    /\ Goto(Main, "stopped")
    /\ UNCHANGED <<tasks, new, job, history, idle, holder>>

StopWake ==
    /\ pc[Main] = "stop_wake"
    /\ asleep' = {}
    /\ late' = {}
    /\ Goto(Main, "stopped")
    /\ UNCHANGED <<tasks, new, job, history, idle, holder>>

\* The pool is gone and all its threads have ended.
Terminated ==
    /\ pc[Main] = "stopped"
    /\ \A t \in Workers : pc[t] = "exited"
    /\ UNCHANGED vars

-----------------------------------------------------------------------------
\* What a thread does in the pool's own code.
PoolStep(t) ==
    \/ LockedStep(t) /\ UNCHANGED sync
    \/ Lock(t) \/ Unlock(t) \/ Notify(t) \/ Woken(t)
    \/ t # Main /\ (StartWork(t) \/ WaitWork(t))
    \/ t = Main /\ (WaitMain \/ StopWake)

\* What it does in the closures it was given.
UserStep(t) == ClosureStep(t) /\ UNCHANGED sync

Next ==
    \/ \E t \in Threads : PoolStep(t) \/ UserStep(t) \/ Spurious(t)
    \/ BeginScope
    \/ Stop
    \/ Terminated

Spec == Init /\ [][Next]_vars

(***************************************************************************)
(* The operating system runs every thread that can go on, and a mutex that *)
(* stays free is taken.  Nothing is assumed of who takes it first or of    *)
(* which sleeper is notified.  FairSpec lets an item run for ever;         *)
(* ClosuresReturn is what a property assumes that needs them to return.    *)
(***************************************************************************)
FairSpec == Spec /\ \A t \in Threads : WF_vars(PoolStep(t))
ClosuresReturn == \A t \in Threads : WF_vars(UserStep(t))

-----------------------------------------------------------------------------
(* Properties                                                              *)

Idle == {t \in Threads : pc[t] \in {"start", "waiting"}}

\* The guarded number counts the threads that wait for work, whoever was woken
\* by whom, and a worker ends only after the pool was stopped.
IdleCount ==
    /\ idle = IF Stopped THEN STOPPING ELSE Cardinality(Idle)
    /\ \A t \in Workers : pc[t] = "exited" => Stopped

\* The assert! and debug_assert! lines of sync_impl.rs and threading.rs.
Asserts ==
    /\ \A t \in Threads : pc[t] = "idle" => idle # STOPPING /\ tasks = <<>>
    /\ pc[Main] = "waiting" => idle # STOPPING
    /\ pc[Main] = "out" => idle = N - 1
    /\ Stopped => tasks = <<>>

\* What sync_impl.rs keeps behind its mutex is exact: the number, and with it
\* every assertion about it.
CountExact == TypeOK /\ IdleCount /\ Asserts

\* No notification is lost: never for ever is an item queued while a thread
\* waits, other than a worker that went to sleep in start_work() without a look
\* at the stack.  The items that run may never return.
NoLostWakeup ==
    []<>(Idle \subseteq late \/ UNION {tasks[k].items : k \in DOMAIN tasks} = {})

\* If the closures return, so does every scope, whoever loses which race for the
\* lock.
ScopeReturns == ClosuresReturn => Abstract!Returns
=============================================================================
