------------------------- MODULE CondvarPoolProofs --------------------------
(***************************************************************************)
(* Proofs about CondvarPool for every number of threads, every set of      *)
(* items and any number of scopes: what the mutex guards is exact, and the *)
(* pool does what TaskPool promises.                                       *)
(***************************************************************************)
EXTENDS CondvarPool, PoolTasksProofs

HoldsMutex(t) == pc[t] \in {"push", "run", "unlock", "idle"}
IsIdle(t) == pc[t] \in {"start", "waiting"}

\* Where a thread is inside a scope and not waiting.
BusyLabels == {"closure", "lock", "push", "run", "unlock", "notify", "exec", "idle"}

\* The guard is in the hands of the thread whose code says so.
MutexInv == \A t \in Threads : HoldsMutex(t) <=> t \in holder

\* A thread that is about to wait has seen the stack empty and kept the mutex.
EmptyInv == \A t \in Threads : pc[t] = "idle" => tasks = <<>>

\* Outside a scope the main thread is alone.
OutsideInv ==
    pc[Main] = "out" => idle = N - 1 /\ tasks = <<>> /\ \A t \in Workers : IsIdle(t)

\* So it is after the pool was stopped.
StoppedInv ==
    Stopped => tasks = <<>> /\ \A t \in Workers : IsIdle(t) \/ pc[t] = "exited"

\* Which labels belong to the main thread and which to the workers.
RoleInv ==
    /\ pc[Main] \notin {"start", "exited"}
    /\ \A t \in Workers : pc[t] \notin {"out", "closure", "stop_wake", "stopped"}

\* Which threads carry an item or a task.
LoadInv ==
    \A t \in Threads :
        /\ pc[t] \in {"start", "waiting", "run", "idle", "out", "closure", "exited", "stop_wake", "stopped"}
              => job[t] = NoItem /\ new[t] = NoTask
        /\ pc[t] \in {"unlock", "notify", "exec"} => new[t] = NoTask /\ (t # Main => job[t] # NoItem)
        /\ pc[t] = "exec" => job[t] # NoItem
        /\ pc[t] = "push" => new[t] # NoTask
        /\ pc[t] \in {"lock", "push"} => (t # Main /\ new[t] # NoTask => job[t] # NoItem)
        /\ pc[t] = "lock" /\ new[t] = NoTask => job[t] = NoItem

\* The inductive invariant.
IInv ==
    /\ TypeOK
    /\ IdleCount
    /\ MutexInv
    /\ EmptyInv
    /\ OutsideInv
    /\ StoppedInv
    /\ RoleInv
    /\ LoadInv

-----------------------------------------------------------------------------
(* Frames                                                                  *)

\* A thread inside a scope keeps it open, and is not counted.
LEMMA Busy ==
    ASSUME IInv, NEW t \in Threads, pc[t] \in BusyLabels
    PROVE  /\ pc[Main] \notin {"out", "stop_wake", "stopped"}
           /\ idle = Cardinality(Idle) /\ idle \in 0 .. (N - 1)
<1>1. pc[Main] \notin {"out", "stop_wake", "stopped"}
  BY DEF IInv, OutsideInv, StoppedInv, Stopped, Workers, IsIdle, BusyLabels
<1>2. Idle \in SUBSET Threads /\ Idle # Threads
  BY DEF Idle, BusyLabels
<1>3. idle = Cardinality(Idle)
  BY <1>1 DEF IInv, IdleCount, Stopped
<1> QED
  BY <1>1, <1>2, <1>3, ThreadCount, PoolAssumption

\* While the pool lives the guarded number is a count and a thread that waits is
\* counted.
LEMMA Waiting ==
    ASSUME IInv, NEW t \in Threads, IsIdle(t), ~Stopped
    PROVE  idle = Cardinality(Idle) /\ idle \in 1 .. N
<1>1. Idle \in SUBSET Threads /\ Idle # {}
  BY DEF Idle, IsIdle
<1>2. idle = Cardinality(Idle)
  BY DEF IInv, IdleCount
<1> QED
  BY <1>1, <1>2, ThreadCount, PoolAssumption

\* A thread moves inside a scope.
LEMMA BusyFrame ==
    ASSUME IInv, NEW t \in Threads, NEW l \in BusyLabels,
           pc[t] \in BusyLabels, Goto(t, l), idle' = idle, l = "closure" => t = Main
    PROVE  IdleCount' /\ OutsideInv' /\ StoppedInv' /\ RoleInv' /\ PhaseKept
<1>1. pc \in [Threads -> Labels] /\ Main \in Threads
  BY ThreadsFinite DEF IInv, TypeOK
<1>2. pc' = [pc EXCEPT ![t] = l]
  BY DEF Goto
<1>3. pc[Main] \notin {"out", "stop_wake", "stopped"} /\ pc'[Main] \notin {"out", "stop_wake", "stopped"}
  BY <1>1, <1>2, Busy DEF BusyLabels
<1>4. Idle' = Idle /\ \A u \in Workers : pc'[u] # "exited"
  <2>1. \A u \in Workers : pc[u] # "exited"
    BY <1>3 DEF IInv, IdleCount, Stopped
  <2> QED
    BY <1>1, <1>2, <2>1 DEF Idle, BusyLabels, Workers
<1>5. IdleCount'
  BY <1>3, <1>4 DEF IInv, IdleCount, Stopped
<1>6. OutsideInv' /\ StoppedInv' /\ PhaseKept
  BY <1>3 DEF OutsideInv, StoppedInv, Stopped, PhaseKept
<1>7. RoleInv'
  BY <1>1, <1>2 DEF IInv, RoleInv, Workers, BusyLabels
<1> QED
  BY <1>5, <1>6, <1>7

\* A worker keeps waiting, or the pool was stopped and it ends.
LEMMA IdleFrame ==
    ASSUME IInv, NEW t \in Threads, t # Main, IsIdle(t), idle' = idle, tasks' = tasks,
           Goto(t, "waiting") \/ (idle = STOPPING /\ Goto(t, "exited"))
    PROVE  IdleCount' /\ OutsideInv' /\ StoppedInv' /\ RoleInv' /\ PhaseKept
<1>1. pc \in [Threads -> Labels] /\ Main \in Threads
  BY ThreadsFinite DEF IInv, TypeOK
<1>2. pc'[Main] = pc[Main] /\ \A u \in Threads : u # t => pc'[u] = pc[u]
  BY <1>1 DEF Goto
<1>3. PhaseKept
  BY <1>2 DEF PhaseKept, Stopped
<1>4. CASE Goto(t, "waiting")
  <2>1. pc'[t] = "waiting"
    BY <1>1, <1>4 DEF Goto
  <2>2. Idle' = Idle
    BY <1>2, <2>1 DEF Idle, IsIdle
  <2>3. IdleCount'
    <3>1. \A u \in Workers : pc'[u] = "exited" => pc[u] = "exited"
      BY <1>2, <2>1 DEF Workers
    <3> QED
      BY <1>2, <2>2, <3>1 DEF IInv, IdleCount, Stopped
  <2> QED
    BY <1>2, <1>3, <2>1, <2>3 DEF IInv, OutsideInv, StoppedInv, RoleInv, Stopped, Workers, IsIdle
<1>5. CASE idle = STOPPING /\ Goto(t, "exited")
  <2>1. pc'[t] = "exited"
    BY <1>1, <1>5 DEF Goto
  <2>2. Stopped
    <3>1. ASSUME ~Stopped PROVE FALSE
      BY <1>5, <3>1, Waiting, PoolAssumption DEF STOPPING
    <3> QED
      BY <3>1
  <2>3. pc'[Main] # "out" /\ Stopped'
    BY <1>2, <2>2 DEF Stopped
  <2>4. IdleCount'
    BY <2>2, <2>3 DEF IInv, IdleCount
  <2> QED
    BY <1>2, <1>3, <2>1, <2>2, <2>3, <2>4 DEF IInv, OutsideInv, StoppedInv, RoleInv, Workers, IsIdle
<1> QED
  BY <1>4, <1>5

-----------------------------------------------------------------------------
(* The invariant is inductive                                              *)

\* Lock::submit and Lock::run_all, with the mutex held.
LEMMA LockedInv ==
    ASSUME IInv, NEW t \in Threads, LockedStep(t), UNCHANGED sync
    PROVE  IInv'
<1>1. TaskType /\ pc \in [Threads -> Labels] /\ LoadInv /\ MutexInv
  BY DEF IInv, TypeOK
<1>2. PICK l \in {"unlock", "run", "idle"} : Goto(t, l)
  BY <1>1 DEF LockedStep, Goto
<1>3. pc[t] \in {"push", "run"} /\ t \in holder
  BY <1>1 DEF LockedStep, MutexInv, HoldsMutex
<1>4. IdleCount' /\ OutsideInv' /\ StoppedInv' /\ RoleInv'
  BY <1>2, <1>3, BusyFrame DEF BusyLabels, sync
<1>5. TaskType'
  BY <1>1, TaskTypeStep DEF LockedStep, LoadInv
<1>6. TypeOK'
  BY <1>2, <1>5 DEF IInv, TypeOK, Goto, Labels, sync
<1>7. MutexInv'
  BY <1>1, <1>2, <1>3 DEF MutexInv, HoldsMutex, Goto, sync
<1>8. EmptyInv'
  <2>1. \A u \in Threads : u # t => ~HoldsMutex(u)
    BY <1>1, <1>3 DEF IInv, TypeOK, MutexInv
  <2>2. pc'[t] = "idle" => tasks' = <<>>
    BY <1>1 DEF LockedStep, Goto
  <2> QED
    BY <1>1, <1>2, <2>1, <2>2 DEF EmptyInv, HoldsMutex, Goto
<1>9. LoadInv'
  <2>1. CASE pc[t] = "push" /\ PushTask(t) /\ Goto(t, "unlock")
    BY <1>1, <2>1 DEF LoadInv, PushTask, Goto, TaskType
  <2>2. CASE pc[t] = "run" /\ TakeSimple(t) /\ Goto(t, "unlock")
    <3>1. PICK i \in Top.items : job' = [job EXCEPT ![t] = i] /\ new' = new
      BY <2>2 DEF TakeSimple
    <3>2. i # NoItem
      BY <1>1, <2>2, PopType, PoolAssumption DEF TaskType, TakeSimple
    <3> QED
      BY <1>1, <2>2, <3>1, <3>2 DEF LoadInv, Goto, TaskType
  <2>3. CASE pc[t] = "run" /\ TakeElement(t) /\ Goto(t, "unlock")
    <3>1. PICK i \in Top.items : job' = [job EXCEPT ![t] = i] /\ new' = new
      BY <2>3 DEF TakeElement
    <3>2. i # NoItem
      BY <1>1, <2>3, PopType, PoolAssumption DEF TaskType, TakeElement
    <3> QED
      BY <1>1, <2>3, <3>1, <3>2 DEF LoadInv, Goto, TaskType
  <2>4. CASE pc[t] = "run" /\ Discard /\ UNCHANGED pc
    BY <1>1, <2>4 DEF LoadInv, Discard
  <2>5. CASE pc[t] = "run" /\ tasks = <<>> /\ Goto(t, "idle") /\ UNCHANGED <<tasks, new, job, history>>
    BY <1>1, <2>5 DEF LoadInv, Goto
  <2> QED
    BY <2>1, <2>2, <2>3, <2>4, <2>5 DEF LockedStep
<1> QED
  BY <1>4, <1>6, <1>7, <1>8, <1>9 DEF IInv

\* The closures, without the mutex.
LEMMA ClosureInv ==
    ASSUME IInv, NEW t \in Threads, ClosureStep(t), UNCHANGED sync
    PROVE  IInv'
<1>1. TaskType /\ pc \in [Threads -> Labels] /\ LoadInv /\ MutexInv
  BY DEF IInv, TypeOK
<1>2. pc[t] \in {"closure", "exec"} /\ Goto(t, "lock") /\ tasks' = tasks
  BY DEF ClosureStep, NewTask, Finish
<1>3. IdleCount' /\ OutsideInv' /\ StoppedInv' /\ RoleInv'
  BY <1>2, BusyFrame DEF BusyLabels, sync
<1>4. TaskType'
  BY <1>1, TaskTypeStep DEF ClosureStep, LoadInv
<1>5. TypeOK'
  BY <1>2, <1>4 DEF IInv, TypeOK, Goto, Labels, sync
<1>6. MutexInv' /\ EmptyInv'
  BY <1>1, <1>2 DEF IInv, MutexInv, EmptyInv, HoldsMutex, Goto, sync
<1>7. LoadInv'
  <2>1. CASE NewTask(t)
    <3>1. PICK x : new' = [new EXCEPT ![t] = x] /\ job' = job /\ x # NoTask
      <4>1. PICK k \in {"simple", "multi"}, S \in (SUBSET todo) \ {{}} :
                new' = [new EXCEPT ![t] = [kind |-> k, items |-> S]]
        BY <2>1 DEF NewTask
      <4>2. [kind |-> k, items |-> S] # NoTask
        BY <4>1 DEF NoTask
      <4> QED
        BY <2>1, <4>1, <4>2 DEF NewTask
    <3>2. t # Main => job[t] # NoItem
      BY <1>1, <1>2 DEF LoadInv, IInv, RoleInv, Workers
    <3> QED
      BY <1>1, <1>2, <3>1, <3>2 DEF LoadInv, Goto, TaskType
  <2>2. CASE Finish(t)
    BY <1>1, <1>2, <2>2 DEF LoadInv, Goto, Finish, TaskType
  <2>3. CASE pc[t] = "closure" /\ UNCHANGED <<tasks, new, job, history>>
    BY <1>1, <1>2, <2>3 DEF LoadInv, Goto
  <2> QED
    BY <2>1, <2>2, <2>3 DEF ClosureStep
<1> QED
  BY <1>3, <1>5, <1>6, <1>7 DEF IInv

\* Mutex::lock returns.
LEMMA LockInv ==
    ASSUME IInv, NEW t \in Threads, Lock(t)
    PROVE  IInv'
<1>1. TaskType /\ pc \in [Threads -> Labels] /\ LoadInv /\ MutexInv
  BY DEF IInv, TypeOK
<1>2. /\ pc[t] = "lock" /\ holder = {} /\ holder' = {t} /\ Goto(t, Locked(t))
      /\ UNCHANGED <<tasks, new, job, todo, done, scopes, idle, asleep, late>>
  BY DEF Lock, history
<1>3. Locked(t) \in {"push", "run"}
  BY DEF Locked
<1>4. IdleCount' /\ OutsideInv' /\ StoppedInv' /\ RoleInv'
  BY <1>2, <1>3, BusyFrame DEF BusyLabels
<1>5. TypeOK'
  BY <1>2, <1>3 DEF IInv, TypeOK, TaskType, Goto, Labels
<1>6. MutexInv' /\ EmptyInv'
  BY <1>1, <1>2, <1>3 DEF IInv, MutexInv, EmptyInv, HoldsMutex, Goto
<1>7. LoadInv'
  BY <1>1, <1>2 DEF LoadInv, Goto, Locked
<1> QED
  BY <1>4, <1>5, <1>6, <1>7 DEF IInv

\* The mutex is dropped, and perhaps a thread notified.
LEMMA ReleaseInv ==
    ASSUME IInv, NEW t \in Threads, Unlock(t) \/ Notify(t)
    PROVE  IInv'
<1>1. TaskType /\ pc \in [Threads -> Labels] /\ LoadInv /\ MutexInv
  BY DEF IInv, TypeOK
<1>2. /\ pc[t] \in {"unlock", "notify"}
      /\ UNCHANGED <<tasks, new, job, todo, done, scopes, idle>>
      /\ asleep' \subseteq asleep /\ late' \subseteq late
  BY DEF Unlock, Notify, history
<1>3. PICK l \in {"notify", "exec", "closure"} :
        /\ Goto(t, l)
        /\ l = "exec" => job[t] # NoItem
        /\ l = "closure" => job[t] = NoItem
  BY DEF Unlock, Notify, Released
<1>4. l = "closure" => t = Main
  BY <1>1, <1>2, <1>3 DEF LoadInv
<1>5. IdleCount' /\ OutsideInv' /\ StoppedInv' /\ RoleInv'
  BY <1>2, <1>3, <1>4, BusyFrame DEF BusyLabels
<1>6. holder' = holder \ {t}
  <2>1. CASE Unlock(t)
    BY <1>1, <2>1 DEF IInv, TypeOK, Unlock, MutexInv, HoldsMutex
  <2>2. CASE Notify(t)
    BY <1>1, <2>2 DEF Notify, MutexInv, HoldsMutex
  <2> QED
    BY <2>1, <2>2
<1>7. holder' \in {{}} \cup {{u} : u \in Threads}
  BY <1>6 DEF IInv, TypeOK
<1>8. TypeOK'
  BY <1>2, <1>3, <1>7 DEF IInv, TypeOK, TaskType, Goto, Labels
<1>9. MutexInv' /\ EmptyInv'
  BY <1>1, <1>2, <1>3, <1>6 DEF IInv, MutexInv, EmptyInv, HoldsMutex, Goto
<1>10. LoadInv'
  BY <1>1, <1>2, <1>3 DEF LoadInv, Goto
<1> QED
  BY <1>5, <1>8, <1>9, <1>10 DEF IInv

\* A thread that holds the mutex counts itself as idle, lets go and sleeps.
LEMMA SleepInv ==
    ASSUME IInv, NEW t \in Threads, pc[t] = "idle", idle' = idle + 1,
           NEW S \in SUBSET asleep, CondWait(t, S), late' \subseteq late,
           UNCHANGED <<tasks, new, job, history>>
    PROVE  IInv'
<1>1. TaskType /\ pc \in [Threads -> Labels] /\ LoadInv /\ MutexInv /\ EmptyInv /\ RoleInv
  BY DEF IInv, TypeOK
<1>2. /\ holder' = {} /\ asleep' = S \cup {t} /\ pc' = [pc EXCEPT ![t] = "waiting"]
      /\ UNCHANGED <<tasks, new, job, todo, done, scopes>>
  BY DEF CondWait, Goto, history
<1>3. /\ pc[Main] \notin {"out", "stop_wake", "stopped"}
      /\ idle = Cardinality(Idle) /\ idle \in 0 .. (N - 1)
  BY Busy DEF BusyLabels
<1>4. pc'[Main] \notin {"out", "stop_wake", "stopped"}
  BY <1>1, <1>2, <1>3, ThreadsFinite
<1>5. IdleCount'
  <2>1. Idle' = Idle \cup {t} /\ t \notin Idle /\ Idle \in SUBSET Threads
    BY <1>1, <1>2 DEF Idle
  <2>2. idle' = Cardinality(Idle')
    BY <1>3, <2>1, ThreadUpDown
  <2>3. \A u \in Workers : pc'[u] # "exited"
    BY <1>1, <1>2, <1>3 DEF IInv, IdleCount, Stopped, Workers
  <2> QED
    BY <1>4, <2>2, <2>3 DEF IdleCount, Stopped
<1>6. OutsideInv' /\ StoppedInv'
  BY <1>4 DEF OutsideInv, StoppedInv, Stopped
<1>7. idle' \in 0 .. STOPPING
  BY <1>3, PoolAssumption DEF STOPPING
<1>8. TypeOK'
  BY <1>2, <1>7 DEF IInv, TypeOK, TaskType, Labels
<1>9. MutexInv'
  <2>1. holder = {t}
    BY <1>1 DEF IInv, TypeOK, MutexInv, HoldsMutex
  <2> QED
    BY <1>1, <1>2, <2>1 DEF MutexInv, HoldsMutex
<1>10. EmptyInv'
  BY <1>1, <1>2 DEF EmptyInv
<1>11. RoleInv'
  BY <1>1, <1>2 DEF RoleInv, Workers
<1>12. LoadInv'
  BY <1>1, <1>2 DEF LoadInv
<1> QED
  BY <1>5, <1>6, <1>8, <1>9, <1>10, <1>11, <1>12 DEF IInv

\* All others wait: the main thread stops being counted and leaves.
LEMMA LeaveInv ==
    ASSUME IInv, pc[Main] \in {"idle", "waiting"}, tasks = <<>>,
           Cardinality(Idle \cup {Main}) = N, idle' = N - 1, holder' = {}, Goto(Main, "out"),
           \A u \in Threads : u # Main => u \notin holder,
           UNCHANGED <<tasks, new, job, history, asleep, late>>
    PROVE  IInv'
<1>1. TaskType /\ pc \in [Threads -> Labels] /\ LoadInv /\ MutexInv /\ EmptyInv /\ RoleInv /\ Main \in Threads
  BY ThreadsFinite DEF IInv, TypeOK
<1>2. /\ pc' = [pc EXCEPT ![Main] = "out"]
      /\ UNCHANGED <<tasks, new, job, todo, done, scopes, asleep, late>>
  BY DEF Goto, history
<1>3. Idle \cup {Main} = Threads
  <2>1. Idle \cup {Main} \in SUBSET Threads
    BY <1>1 DEF Idle
  <2> QED
    BY <2>1, ThreadCount, PoolAssumption
<1>4. Idle' = Threads \ {Main} /\ \A t \in Workers : pc'[t] \in {"start", "waiting"}
  BY <1>1, <1>2, <1>3 DEF Idle, Workers
<1>5. IdleCount'
  <2>1. Cardinality(Idle') = N - 1
    BY <1>1, <1>4, ThreadsFinite, ThreadUpDown
  <2> QED
    BY <1>1, <1>2, <1>4, <2>1 DEF IdleCount, Stopped
<1>6. OutsideInv' /\ StoppedInv'
  BY <1>1, <1>2, <1>4 DEF OutsideInv, StoppedInv, Stopped, IsIdle
<1>7. TypeOK'
  <2>1. idle' \in 0 .. STOPPING
    BY PoolAssumption DEF STOPPING
  <2> QED
    BY <1>2, <2>1 DEF IInv, TypeOK, TaskType, Labels
<1>8. MutexInv' /\ EmptyInv'
  BY <1>1, <1>2 DEF MutexInv, EmptyInv, HoldsMutex
<1>9. RoleInv' /\ LoadInv'
  BY <1>1, <1>2 DEF RoleInv, LoadInv, Workers
<1> QED
  BY <1>5, <1>6, <1>7, <1>8, <1>9 DEF IInv

\* wait_work() and wait_main(), up to the wait.
LEMMA WaitInv ==
    ASSUME IInv, NEW t \in Threads, WaitWork(t) \/ WaitMain
    PROVE  IInv'
<1>1. CASE WaitWork(t)
  BY <1>1, SleepInv DEF WaitWork
<1>2. CASE WaitMain
  <2>1. Main \in Threads /\ pc[Main] = "idle" /\ UNCHANGED <<tasks, new, job, history, late>>
    BY <1>2, ThreadsFinite DEF WaitMain
  <2>2. CASE idle + 1 # N /\ idle' = idle + 1 /\ CondWait(Main, asleep)
    BY <2>1, <2>2, SleepInv
  <2>3. CASE idle + 1 = N /\ idle' = N - 1 /\ holder' = {} /\ Goto(Main, "out") /\ UNCHANGED asleep
    <3>1. idle = Cardinality(Idle)
      BY <2>1, Busy DEF BusyLabels
    <3>2. Idle \in SUBSET Threads /\ Main \notin Idle
      BY <2>1 DEF Idle
    <3>3. Cardinality(Idle \cup {Main}) = N
      BY <2>1, <2>3, <3>1, <3>2, ThreadUpDown, PoolAssumption
    <3>4. tasks = <<>>
      BY <2>1 DEF IInv, EmptyInv
    <3>5. \A u \in Threads : u # Main => u \notin holder
      BY <2>1 DEF IInv, MutexInv, HoldsMutex, TypeOK
    <3> QED
      BY <2>1, <2>3, <3>3, <3>4, <3>5, LeaveInv
  <2> QED
    BY <1>2, <2>2, <2>3 DEF WaitMain
<1> QED
  BY <1>1, <1>2

\* A thread that was woken finds a task, keeps the mutex and is no longer counted.
LEMMA TakeWorkInv ==
    ASSUME IInv, NEW t \in Threads, pc[t] = "waiting", holder = {}, TakeWork(t),
           UNCHANGED <<tasks, new, job, history>>
    PROVE  IInv'
<1>1. TaskType /\ pc \in [Threads -> Labels] /\ LoadInv /\ MutexInv /\ EmptyInv /\ RoleInv
  BY DEF IInv, TypeOK
<1>2. /\ tasks # <<>> /\ idle' = idle - 1 /\ holder' = {t} /\ pc' = [pc EXCEPT ![t] = "run"]
      /\ UNCHANGED <<tasks, new, job, todo, done, scopes, asleep, late>>
  BY DEF TakeWork, Goto, history
<1>3. pc[Main] \notin {"out", "stop_wake", "stopped"} /\ ~Stopped
  BY <1>2 DEF IInv, OutsideInv, StoppedInv, Stopped
<1>4. pc'[Main] \notin {"out", "stop_wake", "stopped"}
  BY <1>1, <1>2, <1>3, ThreadsFinite
<1>5. idle = Cardinality(Idle) /\ idle \in 1 .. N
  BY <1>3, Waiting DEF IsIdle
<1>6. IdleCount'
  <2>1. Idle' = Idle \ {t} /\ t \in Idle /\ Idle \in SUBSET Threads
    BY <1>1, <1>2 DEF Idle
  <2>2. idle' = Cardinality(Idle')
    BY <1>2, <1>5, <2>1, ThreadUpDown
  <2>3. \A u \in Workers : pc'[u] # "exited"
    BY <1>1, <1>2, <1>3 DEF IInv, IdleCount, Workers
  <2> QED
    BY <1>4, <2>2, <2>3 DEF IdleCount, Stopped
<1>7. OutsideInv' /\ StoppedInv'
  BY <1>4 DEF OutsideInv, StoppedInv, Stopped
<1>8. TypeOK'
  <2>1. idle' \in 0 .. STOPPING
    BY <1>2, <1>5, PoolAssumption DEF STOPPING
  <2> QED
    BY <1>2, <2>1 DEF IInv, TypeOK, TaskType, Labels
<1>9. MutexInv' /\ EmptyInv'
  BY <1>1, <1>2 DEF MutexInv, EmptyInv, HoldsMutex
<1>10. RoleInv' /\ LoadInv'
  BY <1>1, <1>2 DEF RoleInv, LoadInv, Workers
<1> QED
  BY <1>6, <1>7, <1>8, <1>9, <1>10 DEF IInv

\* A worker takes the mutex, finds nothing and waits again, or ends.
LEMMA IdleInv ==
    ASSUME IInv, NEW t \in Threads, t # Main, IsIdle(t), holder' = holder, idle' = idle,
           Goto(t, "waiting") \/ (idle = STOPPING /\ Goto(t, "exited")),
           asleep' \subseteq asleep \cup {t}, late' \subseteq late \cup {t},
           UNCHANGED <<tasks, new, job, history>>
    PROVE  IInv'
<1>1. TaskType /\ pc \in [Threads -> Labels] /\ LoadInv /\ MutexInv /\ EmptyInv
  BY DEF IInv, TypeOK
<1>2. PICK l \in {"waiting", "exited"} : pc' = [pc EXCEPT ![t] = l]
  BY DEF Goto
<1>3. UNCHANGED <<tasks, new, job, todo, done, scopes>>
  BY DEF history
<1>4. IdleCount' /\ OutsideInv' /\ StoppedInv' /\ RoleInv'
  BY IdleFrame
<1>5. TypeOK'
  BY <1>2, <1>3 DEF IInv, TypeOK, TaskType, Labels, Workers
<1>6. MutexInv' /\ EmptyInv'
  BY <1>1, <1>2, <1>3 DEF MutexInv, EmptyInv, HoldsMutex, IsIdle
<1>7. LoadInv'
  BY <1>1, <1>2, <1>3 DEF LoadInv, IsIdle
<1> QED
  BY <1>4, <1>5, <1>6, <1>7 DEF IInv

\* Only the sleepers change.
LEMMA AsleepInv ==
    ASSUME IInv, asleep' \subseteq Threads, late' \subseteq Workers,
           UNCHANGED <<tasks, pc, new, job, history, idle, holder>>
    PROVE  IInv'
<1>1. UNCHANGED <<tasks, pc, new, job, todo, done, scopes, idle, holder>>
  BY DEF history
<1>2. TypeOK'
  BY <1>1 DEF IInv, TypeOK, TaskType
<1>3. IdleCount'
  BY <1>1 DEF IInv, IdleCount, Stopped, Idle
<1>4. OutsideInv' /\ StoppedInv'
  BY <1>1 DEF IInv, OutsideInv, StoppedInv, Stopped, IsIdle
<1>5. MutexInv' /\ EmptyInv' /\ RoleInv' /\ LoadInv'
  BY <1>1 DEF IInv, MutexInv, EmptyInv, HoldsMutex, RoleInv, LoadInv
<1> QED
  BY <1>2, <1>3, <1>4, <1>5 DEF IInv

\* Condvar::wait returns.
LEMMA WokenInv ==
    ASSUME IInv, NEW t \in Threads, Woken(t)
    PROVE  IInv'
<1>1. /\ pc[t] = "waiting" /\ holder = {} /\ IsIdle(t)
      /\ UNCHANGED <<tasks, new, job, history>>
  BY DEF Woken, IsIdle
<1>2. pc \in [Threads -> Labels] /\ TypeOK
  BY DEF IInv, TypeOK
<1>3. CASE TakeWork(t)
  BY <1>1, <1>3, TakeWorkInv
<1>4. CASE tasks = <<>> /\ t # Main /\ idle = STOPPING /\ Goto(t, "exited") /\ UNCHANGED sync
  BY <1>1, <1>4, IdleInv DEF sync
<1>5. CASE /\ tasks = <<>> /\ t = Main /\ idle = N /\ idle' = N - 1
           /\ Goto(t, "out") /\ UNCHANGED <<holder, asleep, late>>
  <2>1. ~Stopped
    BY <1>1, <1>5 DEF Stopped
  <2>2. Cardinality(Idle) = N /\ Idle \cup {Main} = Idle
    BY <1>1, <1>5, <2>1, Waiting DEF Idle
  <2> QED
    BY <1>1, <1>5, <2>2, LeaveInv
<1>6. CASE tasks = <<>> /\ CondWait(t, asleep) /\ UNCHANGED <<idle, late>>
  <2>1. holder' = holder /\ asleep' = asleep \cup {t} /\ Goto(t, "waiting")
    BY <1>1, <1>6 DEF CondWait
  <2>2. pc' = pc
    BY <1>1, <1>2, <2>1 DEF Goto
  <2>3. asleep' \subseteq Threads /\ late' \subseteq Workers
    BY <1>2, <1>6, <2>1 DEF TypeOK
  <2> QED
    BY <1>1, <1>6, <2>1, <2>2, <2>3, AsleepInv
<1> QED
  BY <1>3, <1>4, <1>5, <1>6 DEF Woken

\* start_work().
LEMMA StartWorkInv ==
    ASSUME IInv, NEW t \in Threads, t # Main, StartWork(t)
    PROVE  IInv'
<1>1. /\ IsIdle(t) /\ holder' = holder /\ idle' = idle
      /\ asleep' \subseteq asleep \cup {t} /\ late' \subseteq late \cup {t}
      /\ Goto(t, "waiting") \/ (idle = STOPPING /\ Goto(t, "exited"))
      /\ UNCHANGED <<tasks, new, job, history>>
  BY DEF StartWork, IsIdle, CondWait, sync
<1> QED
  BY <1>1, IdleInv

\* The owner of the pool opens a scope or drops the pool.
LEMMA OwnerInv ==
    ASSUME IInv, BeginScope \/ Stop \/ StopWake
    PROVE  IInv'
<1>1. /\ TaskType /\ pc \in [Threads -> Labels] /\ LoadInv /\ MutexInv /\ EmptyInv /\ RoleInv
      /\ OutsideInv /\ StoppedInv /\ IdleCount /\ Main \in Threads /\ Main \notin Workers
  BY ThreadsFinite DEF IInv, TypeOK, Workers
<1>2. /\ UNCHANGED <<tasks, new, job, todo, done, holder>>
      /\ pc[Main] \in {"out", "stop_wake"}
      /\ pc' = [pc EXCEPT ![Main] = pc'[Main]]
      /\ pc'[Main] \in {"closure", "stop_wake", "stopped"}
      /\ \A t \in Workers : pc'[t] = pc[t]
  BY <1>1 DEF BeginScope, OpenScope, Stop, StopWake, Goto, history, sync, Workers
<1>3. TypeOK'
  <2>1. TaskType'
    BY <1>1, TaskTypeStep DEF BeginScope, Stop, StopWake
  <2>2. pc' \in [Threads -> Labels]
    BY <1>1, <1>2 DEF Labels
  <2>3. idle' \in 0 .. STOPPING /\ holder' \in {{}} \cup {{u} : u \in Threads}
    BY <1>2, PoolAssumption DEF IInv, TypeOK, BeginScope, Stop, StopWake, sync, STOPPING
  <2>4. asleep' \subseteq Threads /\ late' \subseteq Workers
    BY DEF IInv, TypeOK, BeginScope, Stop, StopWake, sync
  <2> QED
    BY <2>1, <2>2, <2>3, <2>4 DEF TypeOK
<1>4. IdleCount'
  <2>1. CASE BeginScope
    <3>1. ~Stopped /\ ~Stopped' /\ idle' = idle
      BY <1>1, <2>1 DEF BeginScope, Goto, Stopped, sync
    <3>2. Idle' = Idle
      BY <1>1, <1>2 DEF Idle, Workers
    <3> QED
      BY <1>1, <1>2, <3>1, <3>2 DEF IdleCount
  <2>2. CASE Stop \/ StopWake
    <3>1. Stopped' /\ idle' = STOPPING
      BY <1>1, <2>2 DEF Stop, StopWake, Goto, Stopped, IdleCount
    <3> QED
      BY <3>1 DEF IdleCount
  <2> QED
    BY <2>1, <2>2
<1>5. OutsideInv' /\ StoppedInv'
  <2>1. tasks = <<>> /\ \A t \in Workers : IsIdle(t) \/ pc[t] = "exited"
    BY <1>1, <1>2 DEF OutsideInv, StoppedInv, Stopped
  <2> QED
    BY <1>2, <2>1 DEF OutsideInv, StoppedInv, IsIdle
<1>6. MutexInv' /\ EmptyInv'
  BY <1>1, <1>2 DEF MutexInv, EmptyInv, HoldsMutex
<1>7. RoleInv' /\ LoadInv'
  BY <1>1, <1>2 DEF RoleInv, LoadInv, Workers
<1> QED
  BY <1>3, <1>4, <1>5, <1>6, <1>7 DEF IInv

\* The invariant holds at the start.
LEMMA InitInv == Init => IInv
<1> SUFFICES ASSUME Init PROVE IInv
  OBVIOUS
<1>1. /\ tasks = <<>> /\ pc = [t \in Threads |-> IF t = Main THEN "out" ELSE "start"]
      /\ new = [t \in Threads |-> NoTask] /\ job = [t \in Threads |-> NoItem]
      /\ todo = Items /\ done = {} /\ scopes = 0
      /\ idle = N - 1 /\ holder = {} /\ asleep = {} /\ late = {}
  BY DEF Init, TaskInit
<1>2. TypeOK
  <2>1. tasks \in Seq(Task)
    BY <1>1
  <2>2. idle \in 0 .. STOPPING /\ scopes \in 0 .. MaxScopes
    BY <1>1, PoolAssumption DEF STOPPING
  <2> QED
    BY <1>1, <2>1, <2>2 DEF TypeOK, TaskType, Labels
<1>3. pc[Main] = "out" /\ \A t \in Workers : pc[t] = "start"
  BY <1>1, ThreadsFinite DEF Workers
<1>4. IdleCount
  <2>1. Idle = Threads \ {Main}
    BY <1>1 DEF Idle
  <2>2. Cardinality(Idle) = N - 1
    BY <2>1, ThreadsFinite, ThreadUpDown
  <2> QED
    BY <1>1, <1>3, <2>2 DEF IdleCount, Stopped
<1>5. MutexInv /\ EmptyInv /\ LoadInv
  BY <1>1 DEF MutexInv, EmptyInv, LoadInv, HoldsMutex
<1>6. OutsideInv /\ StoppedInv /\ RoleInv
  BY <1>1, <1>3 DEF OutsideInv, StoppedInv, RoleInv, Stopped, IsIdle
<1> QED
  BY <1>2, <1>4, <1>5, <1>6 DEF IInv

\* Every step preserves it.
LEMMA StepInv == IInv /\ [Next]_vars => IInv'
<1> SUFFICES ASSUME IInv, [Next]_vars PROVE IInv'
  OBVIOUS
<1>1. ASSUME NEW t \in Threads, PoolStep(t) PROVE IInv'
  BY <1>1, LockedInv, LockInv, ReleaseInv, WokenInv, StartWorkInv, WaitInv, OwnerInv DEF PoolStep
<1>2. ASSUME NEW t \in Threads, UserStep(t) PROVE IInv'
  BY <1>2, ClosureInv DEF UserStep
<1>3. ASSUME NEW t \in Threads, Spurious(t) PROVE IInv'
  <2>1. asleep' \subseteq Threads /\ late' \subseteq Workers
    BY <1>3 DEF Spurious, IInv, TypeOK
  <2> QED
    BY <1>3, <2>1, AsleepInv DEF Spurious
<1>4. CASE UNCHANGED vars
  <2>1. asleep' \subseteq Threads /\ late' \subseteq Workers
    BY <1>4 DEF vars, IInv, TypeOK
  <2> QED
    BY <1>4, <2>1, AsleepInv DEF vars, history
<1> QED
  BY <1>1, <1>2, <1>3, <1>4, OwnerInv DEF Next, Terminated

\* The invariant holds in every state of the pool.
LEMMA Invariance == Spec => []IInv
BY InitInv, StepInv, PTL DEF Spec

-----------------------------------------------------------------------------
(* The theorems                                                            *)

\* What the mutex of sync_impl.rs guards is exact for every number of threads:
\* it counts the threads that wait, whoever was woken by whom, spuriously or not,
\* and the assertions of sync_impl.rs and threading.rs hold.
THEOREM CountSound == Spec => []CountExact
<1>1. IInv => CountExact
  <2> SUFFICES ASSUME IInv PROVE Asserts
    BY DEF CountExact, IInv
  <2>1. ASSUME NEW t \in Threads, pc[t] = "idle" PROVE idle # STOPPING /\ tasks = <<>>
    BY <2>1, Busy, PoolAssumption DEF BusyLabels, STOPPING, IInv, EmptyInv
  <2>2. ASSUME pc[Main] = "waiting" PROVE idle # STOPPING
    BY <2>2, Waiting, ThreadsFinite, PoolAssumption DEF STOPPING, IsIdle, Stopped
  <2> QED
    BY <2>1, <2>2 DEF Asserts, IInv, OutsideInv, StoppedInv
<1> QED
  BY <1>1, Invariance, PTL

\* The pool's owner, and a worker between two waits.
LEMMA OwnerSteps ==
    ASSUME IInv, Placed,
           \/ WaitMain \/ StopWake \/ BeginScope \/ Stop
           \/ Woken(Main)
    PROVE  Placed' /\ Allowed
<1>1. pc \in [Threads -> Labels] /\ LoadInv /\ Main \in Threads
  BY ThreadsFinite DEF IInv, TypeOK
<1>2. UNCHANGED <<tasks, new, job, todo, done>>
  BY DEF WaitMain, StopWake, BeginScope, OpenScope, Stop, Woken, history
<1>3. ASSUME WaitMain \/ Woken(Main), pc'[Main] = "out"
      PROVE  Placed' /\ Allowed
  <2>1. pc[Main] \in {"idle", "waiting"} /\ ~Stopped
    BY <1>3 DEF WaitMain, Woken, Stopped
  <2>2. OutsideInv'
    <3>1. IInv'
      BY <1>1, <1>3, WaitInv, WokenInv
    <3> QED
      BY <3>1 DEF IInv
  <2>3. \A t \in Workers : pc'[t] \in {"start", "waiting"}
    BY <1>3, <2>2 DEF OutsideInv, IsIdle
  <2>4. \A t \in Workers : pc'[t] = pc[t]
    BY <1>1, <1>3 DEF WaitMain, Woken, TakeWork, CondWait, Goto, Workers
  <2>5. \A t \in Threads : job[t] = NoItem /\ new[t] = NoTask
    BY <1>1, <2>1, <2>3, <2>4 DEF LoadInv, Workers
  <2>6. tasks = <<>>
    BY <1>2, <1>3, <2>2 DEF OutsideInv
  <2> QED
    BY <1>2, <1>3, <2>1, <2>5, <2>6, NothingLeft, OwnerStep
<1>4. ASSUME WaitMain \/ Woken(Main), pc'[Main] # "out"
      PROVE  Placed' /\ Allowed
  <2>1. PhaseKept
    BY <1>1, <1>4 DEF WaitMain, Woken, TakeWork, CondWait, Goto, Stopped, PhaseKept
  <2> QED
    BY <1>2, <2>1, HiddenStep
<1>5. CASE StopWake
  <2>1. PhaseKept
    BY <1>1, <1>5 DEF StopWake, Goto, Stopped, PhaseKept
  <2> QED
    BY <1>2, <2>1, HiddenStep
<1>6. CASE BeginScope
  <2>1. pc[Main] = "out" /\ pc'[Main] # "out" /\ ~Stopped'
    BY <1>1, <1>6 DEF BeginScope, Goto, Stopped
  <2> QED
    BY <1>2, <2>1, OwnerStep
<1>7. CASE Stop
  <2>1. pc[Main] = "out" /\ Stopped'
    BY <1>1, <1>7 DEF Stop, Goto, Stopped
  <2> QED
    BY <1>2, <2>1, OwnerStep
<1> QED
  BY <1>3, <1>4, <1>5, <1>6, <1>7

\* Steps that only touch the mutex, the count and the sleepers.
LEMMA SyncSteps ==
    ASSUME IInv, Placed, NEW t \in Threads,
           \/ Lock(t) \/ Unlock(t) \/ Notify(t)
           \/ t # Main /\ (Woken(t) \/ StartWork(t) \/ WaitWork(t))
    PROVE  Placed' /\ Allowed
<1>1. pc \in [Threads -> Labels]
  BY DEF IInv, TypeOK
<1>2. UNCHANGED <<tasks, new, job, todo, done>>
  BY DEF Lock, Unlock, Notify, Woken, StartWork, WaitWork, history
<1>3. /\ \A u \in Threads : u # t => pc'[u] = pc[u]
      /\ {pc[t], pc'[t]} \cap {"out", "stop_wake", "stopped"} = {}
  <2>1. CASE Lock(t) \/ Unlock(t) \/ Notify(t)
    BY <1>1, <2>1 DEF Lock, Unlock, Notify, Locked, Released, Goto
  <2>2. CASE t # Main /\ (Woken(t) \/ StartWork(t) \/ WaitWork(t))
    BY <1>1, <2>2 DEF Woken, StartWork, WaitWork, TakeWork, CondWait, Goto
  <2> QED
    BY <2>1, <2>2
<1> QED
  BY <1>2, <1>3, PhaseFrame, HiddenStep

\* Steps that move items.
LEMMA ItemSteps ==
    ASSUME IInv, Placed, NEW t \in Threads, LockedStep(t) \/ ClosureStep(t)
    PROVE  Placed' /\ Allowed
<1>1. pc \in [Threads -> Labels] /\ TaskType /\ LoadInv
  BY DEF IInv, TypeOK
<1>2. pc[Main] # "out" /\ ~Stopped
  BY Busy DEF LockedStep, ClosureStep, BusyLabels, Stopped
<1>3. PhaseKept
  <2>1. /\ \A u \in Threads : u # t => pc'[u] = pc[u]
        /\ {pc[t], pc'[t]} \cap {"out", "stop_wake", "stopped"} = {}
    BY <1>1 DEF LockedStep, ClosureStep, Goto
  <2> QED
    BY <2>1, PhaseFrame
<1>4. CASE LockedStep(t)
  <2>1. /\ pc[t] = "push" => new[t] # NoTask
        /\ pc[t] = "run" => job[t] = NoItem
    BY <1>1 DEF LoadInv
  <2>2. CASE UNCHANGED <<tasks, new, job, history>>
    BY <1>3, <2>2, HiddenStep DEF history
  <2> QED
    BY <1>1, <1>3, <1>4, <2>1, <2>2, PushTaskStep, TakeSimpleStep, TakeElementStep, DiscardStep
    DEF LockedStep
<1>5. CASE ClosureStep(t)
  <2>1. /\ pc[t] \in {"closure", "exec"} => new[t] = NoTask
        /\ pc[t] = "exec" => job[t] # NoItem
    BY <1>1 DEF LoadInv
  <2>2. CASE UNCHANGED <<tasks, new, job, history>>
    BY <1>3, <2>2, HiddenStep DEF history
  <2> QED
    BY <1>1, <1>2, <1>3, <1>5, <2>1, <2>2, NewTaskStep, FinishStep DEF ClosureStep
<1> QED
  BY <1>4, <1>5

\* Every step of the pool is one of TaskPool's, or users cannot see it.
LEMMA RefinementStep == IInv /\ Placed /\ [Next]_vars => Placed' /\ Allowed
<1> SUFFICES ASSUME IInv, Placed, [Next]_vars
             PROVE  Placed' /\ Allowed
  OBVIOUS
<1>1. ASSUME NEW t \in Threads, PoolStep(t) \/ UserStep(t)
      PROVE  Placed' /\ Allowed
  BY <1>1, SyncSteps, ItemSteps, OwnerSteps DEF PoolStep, UserStep
<1>2. ASSUME NEW t \in Threads, Spurious(t)
      PROVE  Placed' /\ Allowed
  BY <1>2, HiddenStep DEF Spurious, history, PhaseKept, Stopped
<1>3. CASE UNCHANGED vars
  BY <1>3, HiddenStep DEF vars, PhaseKept, Stopped
<1> QED
  BY <1>1, <1>2, <1>3, OwnerSteps DEF Next, Terminated

\* The pool over sync_impl.rs does what its users may rely on: every item is
\* started once, by one of N threads, and finished before its scope returns.
THEOREM Refinement == Spec => ImplementsPool
<1>1. Init => Placed /\ Abstract!Init
  BY PlacedInit DEF Init
<1>2. IInv /\ Placed /\ [Next]_vars => Placed' /\ [Abstract!Next]_(Abstract!vars)
  BY RefinementStep DEF Allowed
<1> QED
  BY <1>1, <1>2, Invariance, PTL DEF Spec, ImplementsPool, Abstract!Spec

\* When PoolRef::scope has returned, every submitted item has run and no worker
\* holds anything of the scope.
THEOREM ScopeSound == Spec => []ScopeComplete
<1>1. IInv /\ Placed => ScopeComplete
  <2> SUFFICES ASSUME IInv, Placed, pc[Main] = "out"
               PROVE  /\ done = Items \ todo /\ tasks = <<>>
                      /\ \A t \in Workers : job[t] = NoItem /\ new[t] = NoTask
    BY DEF ScopeComplete
  <2>1. tasks = <<>> /\ \A t \in Workers : IsIdle(t)
    BY DEF IInv, OutsideInv
  <2>2. \A t \in Threads : job[t] = NoItem /\ new[t] = NoTask
    <3>1. LoadInv
      BY DEF IInv
    <3> QED
      BY <2>1, <3>1 DEF LoadInv, Workers, IsIdle
  <2> QED
    BY <2>1, <2>2, NothingLeft DEF Workers
<1>2. Init => Placed
  BY PlacedInit DEF Init
<1>3. IInv /\ Placed /\ [Next]_vars => Placed'
  BY RefinementStep
<1> QED
  BY <1>1, <1>2, <1>3, Invariance, PTL DEF Spec
====
