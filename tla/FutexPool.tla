----------------------------- MODULE FutexPool ------------------------------
(***************************************************************************)
(* The thread pool with its default synchronisation layer on Linux:        *)
(* src/src/threading.rs over src/src/threading/sync_impl.futex.rs.  One    *)
(* 32-bit word holds the lock, the "there is work" flag and the number of  *)
(* idle threads; threads sleep on it with futex bit masks.                 *)
(*                                                                         *)
(* One action is one access to the shared word, one futex system call, or  *)
(* the code a thread runs on the task stack between two of them.  A load   *)
(* followed by compare_exchange_weak is one action: the exchange acts on   *)
(* the value it finds, and a failed exchange only makes the code look at   *)
(* that value.  A load followed by swap is two actions.                    *)
(***************************************************************************)
EXTENDS PoolTasks

CONSTANT MaxSpin             \* MAX_SPIN

ASSUME SpinAssumption == MaxSpin \in Nat

\* The word: STATE_IDLE, STATE_LOCKED, STATE_WORK, STATE_CONTENDED in its two
\* low bits, the idle count above them.
Word == [idle : 0 .. N, st : {"idle", "locked", "work", "contended"}]
W(n, s) == [idle |-> n, st |-> s]
STOPPING == W(0, "idle")     \* the number 0, also an unlocked word with no idle thread
AllIdleButOne == W(N - 1, "idle")  \* fault: one thread is still busy
AllIdle == W(N, "idle")
Unlocked == {"idle", "work"} \* v & LOCK_FLAG == 0

\* The bits of a futex mask: WAIT_LOCK, WAIT_WORK, WAIT_IDLE.
Masks == {"lock", "work", "idle"}

VARIABLES
    word,    \* State::sync
    v,       \* each thread's local copy of the word in lock, unlock, wait_*
    spin,    \* its local spin counter
    sleep    \* the mask it sleeps with in futex::wait, {} when it is awake

locals == <<v, spin>>
vars == <<word, tasks, pc, v, spin, sleep, new, job, todo, done, scopes>>

Labels == {"out", "closure", "start", "start_wait", "lock", "contend",
           "lock_wait", "push", "run", "unlock", "unlock_swap",
           "unlock_wake_lock", "unlock_wake_work", "exec", "idle", "idle_swap",
           "idle_wake_lock", "idle_wake_main", "wait", "reload",
           "stop_wake", "stopped", "exited"}

\* The synchronisation layer's word and every thread's locals are well typed.
SyncType ==
    /\ word \in Word
    /\ pc \in [Threads -> Labels]
    /\ v \in [Threads -> Word]
    /\ spin \in [Threads -> 0 .. MaxSpin]
    /\ sleep \in [Threads -> SUBSET Masks]

\* The state is well typed; in particular the idle count never leaves 0 .. N.
TypeOK == SyncType /\ TaskType

\* Pool::new: the word counts the N - 1 workers as idle before they start.
Init ==
    /\ TaskInit
    /\ word = W(N - 1, "idle")
    /\ v = [t \in Threads |-> STOPPING]
    /\ spin = [t \in Threads |-> MaxSpin]
    /\ sleep = [t \in Threads |-> {}]

-----------------------------------------------------------------------------
\* Awake in front of the code labelled l.
At(t, l) == pc[t] = l /\ sleep[t] = {}

\* A call returns: its locals are gone, the next call starts with MAX_SPIN.
Return(t, l) ==
    /\ Goto(t, l)
    /\ v' = [v EXCEPT ![t] = STOPPING]
    /\ spin' = [spin EXCEPT ![t] = MaxSpin]

\* futex::wait: the kernel compares and goes to sleep in one step.
FutexWait(t, mask) ==
    sleep' = [sleep EXCEPT ![t] = IF word = v[t] THEN mask ELSE {}]

Sleepers(mask) == {t \in Threads : sleep[t] \cap mask # {}}

\* futex::wake_one: some sleeper whose mask meets this one, if there is any.
FutexWakeOne(mask) ==
    \/ \E t \in Sleepers(mask) : sleep' = [sleep EXCEPT ![t] = {}]
    \/ Sleepers(mask) = {} /\ UNCHANGED sleep

\* futex::wake_all
FutexWakeAll(mask) ==
    sleep' = [t \in Threads |-> IF t \in Sleepers(mask) THEN {} ELSE sleep[t]]

\* A signal ends futex::wait early; every caller looks at the word again.
FutexInterrupt(t) ==
    /\ sleep[t] # {}
    /\ sleep' = [sleep EXCEPT ![t] = {}]
    /\ UNCHANGED <<word, tasks, pc, locals, new, job, history>>

-----------------------------------------------------------------------------
(* lock()                                                                  *)

\* First loop of lock(): take an unlocked word, losing its WORK flag; give
\* up on a contended one; spin on a locked one.
LockSpin(t) ==
    /\ At(t, "lock")
    /\ \/ /\ word.st \in Unlocked
          /\ word' = [word EXCEPT !.st = "locked"]
          /\ Return(t, Locked(t))
       \/ /\ word.st = "contended"
          /\ v' = [v EXCEPT ![t] = word]
          /\ Goto(t, "lock_wait")
          /\ UNCHANGED <<word, spin>>
       \/ /\ word.st = "locked" /\ spin[t] = 0
          /\ Goto(t, "contend")
          /\ UNCHANGED <<word, locals>>
       \/ /\ word.st = "locked" /\ spin[t] > 0
          /\ spin' = [spin EXCEPT ![t] = @ - 1]
          /\ UNCHANGED <<word, pc, v>>
    /\ UNCHANGED <<tasks, sleep, new, job, history>>

\* Second loop of lock(): mark the word contended, which takes the lock when
\* it was free and leaves the mark for the threads that still sleep.
LockContend(t) ==
    /\ At(t, "contend")
    /\ word' = [word EXCEPT !.st = "contended"]
    /\ \/ /\ word.st \in Unlocked
          /\ Return(t, Locked(t))
       \/ /\ word.st \notin Unlocked
          /\ v' = [v EXCEPT ![t] = word']
          /\ Goto(t, "lock_wait")
          /\ UNCHANGED spin
    /\ UNCHANGED <<tasks, sleep, new, job, history>>

\* The futex::wait of lock(); the thread looks at the word again afterwards.
LockWait(t) ==
    /\ At(t, "lock_wait")
    /\ FutexWait(t, {"lock"})
    /\ v' = [v EXCEPT ![t] = STOPPING]
    /\ Goto(t, "contend")
    /\ UNCHANGED <<word, tasks, spin, new, job, history>>

-----------------------------------------------------------------------------
(* unlock(): Lock::submit after the push, and Drop for Lock.               *)

\* Fault: the WORK flag is stored only when there is somebody to wake.
UnlockHidesWork(t) ==
    /\ At(t, "unlock")
    /\ v' = [v EXCEPT ![t] =
                 W(word.idle, IF tasks # <<>> /\ word.idle > 0 THEN "work" ELSE "idle")]
    /\ Goto(t, "unlock_swap")
    /\ UNCHANGED <<word, tasks, spin, sleep, new, job, history>>

\* The load; the caller holds the lock, so the idle count stands still until
\* the swap while other threads may still set the contention mark.
Unlock(t) ==
    /\ At(t, "unlock")
    /\ v' = [v EXCEPT ![t] = W(word.idle, IF tasks # <<>> THEN "work" ELSE "idle")]
    /\ Goto(t, "unlock_swap")
    /\ UNCHANGED <<word, tasks, spin, sleep, new, job, history>>

\* Fault: the last idle thread is not woken.
WantsTwoWorkers(t) == v[t].st = "work" /\ v[t].idle > 1

\* wake in unlock(): there is work and somebody is idle.
WantsWorker(t) == v[t].st = "work" /\ v[t].idle > 0

UnlockSwap(t) ==
    /\ At(t, "unlock_swap")
    /\ word' = v[t]
    /\ \/ /\ word.st = "contended"
          /\ Goto(t, "unlock_wake_lock")
          /\ UNCHANGED locals
       \/ /\ word.st # "contended" /\ WantsWorker(t)
          /\ Goto(t, "unlock_wake_work")
          /\ UNCHANGED locals
       \/ /\ word.st # "contended" /\ ~WantsWorker(t)
          /\ Return(t, Released(t))
    /\ UNCHANGED <<tasks, sleep, new, job, history>>

\* A thread woken to take the lock will wake the idle one when it unlocks.
UnlockWakeLock(t) ==
    /\ At(t, "unlock_wake_lock")
    /\ FutexWakeOne({"lock"})
    /\ \/ /\ Sleepers({"lock"}) = {} /\ WantsWorker(t)
          /\ Goto(t, "unlock_wake_work")
          /\ UNCHANGED locals
       \/ /\ Sleepers({"lock"}) # {} \/ ~WantsWorker(t)
          /\ Return(t, Released(t))
    /\ UNCHANGED <<word, tasks, new, job, history>>

UnlockWakeWork(t) ==
    /\ At(t, "unlock_wake_work")
    /\ FutexWakeOne({"work"})
    /\ Return(t, Released(t))
    /\ UNCHANGED <<word, tasks, new, job, history>>

-----------------------------------------------------------------------------
(* Lock::run_all, with the lock held                                       *)

\* SimpleTask::run and MultiTask::run drop the lock and run the closure.
RunSimple(t) ==
    /\ At(t, "run")
    /\ TakeSimple(t)
    /\ Goto(t, "unlock")
    /\ UNCHANGED <<word, locals, sleep>>

RunMulti(t) ==
    /\ At(t, "run")
    /\ TakeElement(t)
    /\ Goto(t, "unlock")
    /\ UNCHANGED <<word, locals, sleep>>

\* At the end of the iterator the lock is kept.
DiscardMulti(t) ==
    /\ At(t, "run")
    /\ Discard
    /\ UNCHANGED <<word, pc, locals, sleep>>

\* run_all() finds the stack empty; State::main and State::work go waiting.
RunNothing(t) ==
    /\ At(t, "run")
    /\ tasks = <<>>
    /\ Goto(t, "idle")
    /\ UNCHANGED <<word, tasks, locals, sleep, new, job, history>>

-----------------------------------------------------------------------------
(* Submitting and running items                                            *)

\* Scope::submit_one and Scope::for_each, from the scope's closure or from a
\* running item, up to the call of State::lock.
Submit(t) ==
    /\ At(t, "closure") \/ At(t, "exec")
    /\ NewTask(t)
    /\ Goto(t, "lock")
    /\ UNCHANGED <<word, locals, sleep>>

\* Lock::submit: push, then unlock(nonempty = true).
Push(t) ==
    /\ At(t, "push")
    /\ PushTask(t)
    /\ Goto(t, "unlock")
    /\ UNCHANGED <<word, locals, sleep>>

\* The item's closure returns and run() locks the state again.
FinishItem(t) ==
    /\ At(t, "exec")
    /\ Finish(t)
    /\ Goto(t, "lock")
    /\ UNCHANGED <<word, locals, sleep>>

-----------------------------------------------------------------------------
(* wait_work() and wait_main()                                             *)

\* Fault: unlock_idle() does not count the caller.
UnlockIdleNotCounted(t) ==
    /\ At(t, "idle")
    /\ v' = [v EXCEPT ![t] = W(word.idle, "idle")]
    /\ Goto(t, "idle_swap")
    /\ UNCHANGED <<word, tasks, spin, sleep, new, job, history>>

\* unlock_idle(): the load.
UnlockIdle(t) ==
    /\ At(t, "idle")
    /\ v' = [v EXCEPT ![t] = W(word.idle + 1, "idle")]
    /\ Goto(t, "idle_swap")
    /\ UNCHANGED <<word, tasks, spin, sleep, new, job, history>>

\* Fault: nobody tells the main thread.
NoWakeAfterUnlockIdle(t) == "wait"

\* wait_work() wakes the main thread when it was the last one busy.
AfterUnlockIdle(t) ==
    IF t # Main /\ v[t].idle = N THEN "idle_wake_main" ELSE "wait"

\* unlock_idle(): the swap.
UnlockIdleSwap(t) ==
    /\ At(t, "idle_swap")
    /\ word' = v[t]
    /\ Goto(t, IF word.st = "contended" THEN "idle_wake_lock" ELSE AfterUnlockIdle(t))
    /\ UNCHANGED <<tasks, locals, sleep, new, job, history>>

UnlockIdleWakeLock(t) ==
    /\ At(t, "idle_wake_lock")
    /\ FutexWakeOne({"lock"})
    /\ Goto(t, AfterUnlockIdle(t))
    /\ UNCHANGED <<word, tasks, locals, new, job, history>>

WakeMain(t) ==
    /\ At(t, "idle_wake_main")
    /\ FutexWakeOne({"idle"})
    /\ Goto(t, "wait")
    /\ UNCHANGED <<word, tasks, locals, new, job, history>>

WaitMask(t) == IF t = Main THEN {"work", "idle"} ELSE {"work"}

\* Top of the waiting loop: spin, or sleep while the word is still v.
Wait(t) ==
    /\ At(t, "wait")
    /\ ~(t = Main /\ v[t] = AllIdle)
    /\ \/ spin[t] > 0 /\ spin' = [spin EXCEPT ![t] = @ - 1] /\ UNCHANGED sleep
       \/ spin[t] = 0 /\ FutexWait(t, WaitMask(t)) /\ UNCHANGED spin
    /\ Goto(t, "reload")
    /\ UNCHANGED <<word, tasks, v, new, job, history>>

\* Fault: the test of sync_impl.spin.rs, v & STATE_WORK != 0, which here also
\* matches a contended lock.
TakeContended(t) ==
    /\ word.st \in {"work", "contended"}
    /\ word' = W(word.idle - 1, "locked")
    /\ Return(t, "run")

\* Fault: the thread takes the lock and is still counted as idle.
TakeStillIdle(t) ==
    /\ word.st = "work"
    /\ word' = W(word.idle, "locked")
    /\ Return(t, "run")

\* Take the lock of a word with work and stop being idle.
TakeWork(t) ==
    /\ word.st = "work"
    /\ word' = W(word.idle - 1, "locked")
    /\ Return(t, "run")

\* The rest of the loop body, for a worker and for the main thread.
Reload(t) ==
    /\ At(t, "reload")
    /\ \/ TakeWork(t)
       \/ /\ word.st # "work"
          /\ t # Main /\ word = STOPPING
          /\ Return(t, "exited")
          /\ UNCHANGED word
       \/ /\ word.st # "work"
          /\ ~(t # Main /\ word = STOPPING)
          /\ v' = [v EXCEPT ![t] = word]
          /\ spin' = [spin EXCEPT ![t] = IF word.st = "contended" THEN 0 ELSE @]
          /\ Goto(t, "wait")
          /\ UNCHANGED word
    /\ UNCHANGED <<tasks, sleep, new, job, history>>

\* Fault: the main thread leaves without storing v - IDLE_1.
LeaveStillIdle ==
    /\ At(Main, "wait")
    /\ v[Main] = AllIdle
    /\ Return(Main, "out")
    /\ UNCHANGED <<word, tasks, sleep, new, job, history>>

\* wait_main() sees everybody idle and leaves; the main thread is not idle
\* outside scopes.
LeaveMain ==
    /\ At(Main, "wait")
    /\ v[Main] = AllIdle
    /\ word' = W(N - 1, "idle")
    /\ Return(Main, "out")
    /\ UNCHANGED <<tasks, sleep, new, job, history>>

-----------------------------------------------------------------------------
(* start_work(): the first thing a worker does                             *)

StartWork(t) ==
    /\ At(t, "start")
    /\ \/ TakeWork(t)
       \/ /\ word = STOPPING
          /\ Return(t, "exited")
          /\ UNCHANGED word
       \/ /\ word.st # "work" /\ word # STOPPING
          /\ v' = [v EXCEPT ![t] = word]
          /\ Goto(t, "start_wait")
          /\ UNCHANGED <<word, spin>>
    /\ UNCHANGED <<tasks, sleep, new, job, history>>

StartWait(t) ==
    /\ At(t, "start_wait")
    /\ FutexWait(t, {"work"})
    /\ Return(t, "start")
    /\ UNCHANGED <<word, tasks, new, job, history>>

-----------------------------------------------------------------------------
(* The owner of the pool                                                   *)

\* PoolRef::scope calls its closure.
BeginScope ==
    /\ At(Main, "out")
    /\ OpenScope
    /\ Goto(Main, "closure")
    /\ UNCHANGED <<word, locals, sleep>>

\* The closure returns; scope() enters State::main.
EnterMain ==
    /\ At(Main, "closure")
    /\ Goto(Main, "lock")
    /\ UNCHANGED <<word, tasks, locals, sleep, new, job, history>>

\* Drop for Pool: stop() stores STOPPING, then wakes everybody.
Stop ==
    /\ At(Main, "out")
    /\ word' = STOPPING
    /\ Goto(Main, "stop_wake")
    /\ UNCHANGED <<tasks, locals, sleep, new, job, history>>

\* Fault: only threads waiting for the lock are woken.
StopWakeLock ==
    /\ At(Main, "stop_wake")
    /\ FutexWakeAll({"lock"})
    /\ Goto(Main, "stopped")
    /\ UNCHANGED <<word, tasks, locals, new, job, history>>

StopWake ==
    /\ At(Main, "stop_wake")
    /\ FutexWakeAll({"work", "lock"})
    /\ Goto(Main, "stopped")
    /\ UNCHANGED <<word, tasks, locals, new, job, history>>

\* The pool is gone and all its threads have ended.
Terminated ==
    /\ pc[Main] = "stopped"
    /\ \A t \in Workers : pc[t] = "exited"
    /\ UNCHANGED vars

-----------------------------------------------------------------------------
\* What a thread does in the pool's own code.
PoolStep(t) ==
    \/ LockSpin(t) \/ LockContend(t) \/ LockWait(t)
    \/ Unlock(t) \/ UnlockSwap(t) \/ UnlockWakeLock(t) \/ UnlockWakeWork(t)
    \/ RunSimple(t) \/ RunMulti(t) \/ DiscardMulti(t) \/ RunNothing(t) \/ Push(t)
    \/ UnlockIdle(t) \/ UnlockIdleSwap(t) \/ UnlockIdleWakeLock(t) \/ WakeMain(t)
    \/ Wait(t) \/ Reload(t)
    \/ t # Main /\ (StartWork(t) \/ StartWait(t))
    \/ t = Main /\ (LeaveMain \/ StopWake)

\* What it does in the closures it was given.
UserStep(t) == Submit(t) \/ FinishItem(t) \/ (t = Main /\ EnterMain)

Next ==
    \/ \E t \in Threads : PoolStep(t) \/ UserStep(t) \/ FutexInterrupt(t)
    \/ BeginScope
    \/ Stop
    \/ Terminated

Spec == Init /\ [][Next]_vars

(***************************************************************************)
(* The operating system runs every thread that is not asleep.  Nothing is  *)
(* assumed of interrupts, of who wins a race for the lock, or of which     *)
(* sleeper a wake-up picks, and neither opening a scope nor dropping the   *)
(* pool is owed.  FairSpec lets an item run for ever; ClosuresReturn is    *)
(* what a property assumes that needs the closures to return.              *)
(***************************************************************************)
FairSpec == Spec /\ \A t \in Threads : WF_vars(PoolStep(t))
ClosuresReturn == \A t \in Threads : WF_vars(UserStep(t))

-----------------------------------------------------------------------------
(* Safety                                                                  *)

HoldsLock(t) ==
    pc[t] \in {"push", "run", "unlock", "unlock_swap", "idle", "idle_swap"}

IsIdle(t) ==
    pc[t] \in {"start", "start_wait", "idle_wake_lock", "idle_wake_main", "wait", "reload"}

Idle == {t \in Threads : IsIdle(t)}

\* At most one thread is in the code between lock() and the swap that releases
\* it, the only code that touches the task stack, and the word says so.
MutualExclusion ==
    /\ \A t, u \in Threads : HoldsLock(t) /\ HoldsLock(u) => t = u
    /\ (\E t \in Threads : HoldsLock(t)) <=> word.st \notin Unlocked

\* The idle count of the word is the number of threads waiting for work,
\* workers that have not started yet included.
IdleCount == ~Stopped => word.idle = Cardinality(Idle)

\* unlock() and unlock_idle() store an idle count they loaded earlier: nobody
\* changes the count between the load and the swap.
CountNotStale ==
    \A t \in Threads :
        /\ pc[t] = "unlock_swap" => v[t].idle = word.idle
        /\ pc[t] = "idle_swap" => v[t].idle = word.idle + 1

\* A worker ends only because the pool was stopped, although STOPPING is also
\* the value of an unlocked word when every thread is busy.
ExitOnlyWhenStopped == \A t \in Workers : pc[t] = "exited" => Stopped

\* While nobody holds the lock, the WORK flag says whether the stack holds a
\* task: lock() clears it and every unlock must put it back.
WorkFlag ==
    word.st \in Unlocked /\ ~Stopped => (word.st = "work" <=> tasks # <<>>)

\* The assert! and debug_assert! lines of sync_impl.futex.rs and threading.rs.
Asserts ==
    /\ \A t \in Threads :
        /\ pc[t] = "lock_wait" => v[t].st = "contended"
        /\ pc[t] \in {"unlock", "idle"} => word.st \notin Unlocked
        /\ pc[t] \in {"start_wait", "wait"} => v[t].idle >= 1
        /\ pc[t] = "wait" => v[t].st # "work"
        /\ pc[t] = "idle" => tasks = <<>>
    /\ pc[Main] = "wait" => v[Main] = AllIdle \/ v[Main].idle < N
    /\ pc[Main] = "out" => word = W(N - 1, "idle")
    /\ Stopped => tasks = <<>>

-----------------------------------------------------------------------------
(* Liveness                                                                *)

\* No wake-up is lost: it is never so for ever that an item is queued while a
\* thread waits for work, even if the items that run never return.
NoLostWakeup ==
    []<>(Idle = {} \/ UNION {tasks[k].items : k \in DOMAIN tasks} = {})

\* If the closures return, so does every scope, whoever loses which race for the
\* lock.
ScopeReturns == ClosuresReturn => Abstract!Returns
=============================================================================
