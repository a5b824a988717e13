--------------------------- MODULE SpinPoolProofs ---------------------------
(***************************************************************************)
(* Proofs about SpinPool for every number of threads, every set of items   *)
(* and any number of scopes: the word is exact although every release of   *)
(* the lock is a load and a plain store, and the pool does what TaskPool   *)
(* promises.                                                               *)
(***************************************************************************)
EXTENDS SpinPool, PoolTasksProofs

IsIdle(t) == pc[t] \in {"start", "waiting"}

\* Where a thread is inside a scope and not waiting.
BusyLabels ==
    {"closure", "lock", "push", "run", "unlock", "unlock_store", "exec", "idle", "idle_store"}

\* What a thread that holds the lock has loaded and is about to store is still
\* right: nobody changed the word or the stack in between.
CopyInv ==
    \A t \in Threads :
        /\ pc[t] = "unlock_store" => v[t] = W(word.idle, IF tasks # <<>> THEN "work" ELSE "idle")
        /\ pc[t] = "idle_store" => v[t] = W(word.idle + 1, "idle")

\* The WORK flag of a word that is not locked tells whether there are tasks.
WorkInv == word.st # "locked" /\ ~Stopped => (word.st = "work" <=> tasks # <<>>)

\* A thread that is about to wait has seen the stack empty and kept the lock.
EmptyInv == \A t \in Threads : pc[t] \in {"idle", "idle_store"} => tasks = <<>>

\* Once the main thread has seen that everybody is idle, it stays so.
LeaveInv == pc[Main] = "leave" => word = AllIdle

\* Outside a scope the main thread is alone.
OutsideInv ==
    pc[Main] = "out" =>
        word = W(N - 1, "idle") /\ tasks = <<>> /\ \A t \in Workers : IsIdle(t)

\* So it is after the pool was stopped.
StoppedInv ==
    Stopped =>
        word = STOPPING /\ tasks = <<>> /\ \A t \in Workers : IsIdle(t) \/ pc[t] = "exited"

\* Which labels belong to the main thread and which to the workers.
RoleInv ==
    /\ pc[Main] \notin {"start", "exited"}
    /\ \A t \in Workers : pc[t] \notin {"out", "closure", "leave", "stopped"}

\* Which threads carry an item or a task.
LoadInv ==
    \A t \in Threads :
        /\ pc[t] \in {"start", "waiting", "leave", "run", "idle", "idle_store", "out", "closure",
                      "exited", "stopped"}
              => job[t] = NoItem /\ new[t] = NoTask
        /\ pc[t] \in {"unlock", "unlock_store", "exec"}
              => new[t] = NoTask /\ (t # Main => job[t] # NoItem)
        /\ pc[t] = "exec" => job[t] # NoItem
        /\ pc[t] = "push" => new[t] # NoTask
        /\ pc[t] \in {"lock", "push"} => (t # Main /\ new[t] # NoTask => job[t] # NoItem)
        /\ pc[t] = "lock" /\ new[t] = NoTask => job[t] = NoItem

\* The inductive invariant.
IInv ==
    /\ TypeOK
    /\ MutualExclusion
    /\ IdleCount
    /\ CopyInv
    /\ WorkInv
    /\ EmptyInv
    /\ LeaveInv
    /\ OutsideInv
    /\ StoppedInv
    /\ RoleInv
    /\ LoadInv

-----------------------------------------------------------------------------
(* Frames                                                                  *)

\* A thread inside a scope keeps it open, and is not counted.
LEMMA Busy ==
    ASSUME IInv, NEW t \in Threads, pc[t] \in BusyLabels
    PROVE  /\ pc[Main] \notin {"out", "leave", "stop_wake", "stopped"} /\ ~Stopped
           /\ word.idle = Cardinality(Idle) /\ word.idle \in 0 .. (N - 1)
<1>1. pc[Main] \notin {"out", "stop_wake", "stopped"} /\ ~Stopped
  BY DEF IInv, OutsideInv, StoppedInv, Stopped, Workers, IsIdle, BusyLabels
<1>2. Idle \in SUBSET Threads /\ Idle # Threads
  BY DEF Idle, BusyLabels
<1>3. word.idle = Cardinality(Idle)
  BY <1>1 DEF IInv, IdleCount
<1>4. word.idle \in 0 .. (N - 1)
  BY <1>2, <1>3, ThreadCount, PoolAssumption
<1>5. pc[Main] # "leave"
  BY <1>4, PoolAssumption DEF IInv, LeaveInv, AllIdle, W
<1> QED
  BY <1>1, <1>3, <1>4, <1>5

\* While the pool lives a thread that waits is counted.
LEMMA Waiting ==
    ASSUME IInv, NEW t \in Threads, t \in Idle, ~Stopped
    PROVE  word.idle = Cardinality(Idle) /\ word.idle \in 1 .. N
<1>1. Idle \in SUBSET Threads /\ Idle # {}
  BY DEF Idle
<1>2. word.idle = Cardinality(Idle)
  BY DEF IInv, IdleCount
<1> QED
  BY <1>1, <1>2, ThreadCount, PoolAssumption

\* Whoever holds the lock is alone.
LEMMA Alone ==
    ASSUME IInv, NEW t \in Threads, HoldsLock(t)
    PROVE  word.st = "locked" /\ \A u \in Threads : u # t => ~HoldsLock(u)
BY DEF IInv, MutualExclusion

\* Nobody holds the lock of a word that does not say so.
LEMMA Free ==
    ASSUME IInv, word.st # "locked"
    PROVE  \A u \in Threads : ~HoldsLock(u)
BY DEF IInv, MutualExclusion

\* A thread moves inside a scope and the count stays.
LEMMA BusyFrame ==
    ASSUME IInv, NEW t \in Threads, NEW l \in BusyLabels,
           pc[t] \in BusyLabels, Goto(t, l), word'.idle = word.idle, l = "closure" => t = Main
    PROVE  IdleCount' /\ LeaveInv' /\ OutsideInv' /\ StoppedInv' /\ RoleInv'
<1>1. pc \in [Threads -> Labels] /\ Main \in Threads
  BY ThreadsFinite DEF IInv, TypeOK
<1>2. pc' = [pc EXCEPT ![t] = l]
  BY DEF Goto
<1>3. ~Stopped /\ pc'[Main] \notin {"out", "leave", "stop_wake", "stopped"}
  BY <1>1, <1>2, Busy DEF BusyLabels
<1>4. Idle' = Idle /\ \A u \in Workers : pc'[u] # "exited"
  <2>1. \A u \in Workers : pc[u] # "exited"
    BY <1>3 DEF IInv, IdleCount
  <2> QED
    BY <1>1, <1>2, <2>1 DEF Idle, BusyLabels, Workers
<1>5. IdleCount'
  BY <1>3, <1>4 DEF IInv, IdleCount
<1>6. LeaveInv' /\ OutsideInv' /\ StoppedInv'
  BY <1>3 DEF LeaveInv, OutsideInv, StoppedInv, Stopped
<1>7. RoleInv'
  BY <1>1, <1>2 DEF IInv, RoleInv, Workers, BusyLabels
<1> QED
  BY <1>5, <1>6, <1>7

-----------------------------------------------------------------------------
(* The invariant is inductive                                              *)

\* Lock::submit and Lock::run_all, with the lock held.
LEMMA LockedInv ==
    ASSUME IInv, NEW t \in Threads, LockedStep(t), UNCHANGED <<word, v>>
    PROVE  IInv'
<1>1. TaskType /\ pc \in [Threads -> Labels] /\ LoadInv
  BY DEF IInv, TypeOK
<1>2. PICK l \in {"unlock", "run", "idle"} : Goto(t, l)
  BY <1>1 DEF LockedStep, Goto
<1>3. pc[t] \in {"push", "run"} /\ HoldsLock(t)
  BY DEF LockedStep, HoldsLock
<1>4. word.st = "locked" /\ \A u \in Threads : u # t => ~HoldsLock(u)
  BY <1>3, Alone
<1>5. IdleCount' /\ LeaveInv' /\ OutsideInv' /\ StoppedInv' /\ RoleInv'
  BY <1>2, <1>3, BusyFrame DEF BusyLabels
<1>6. TypeOK'
  <2>1. TaskType'
    BY <1>1, TaskTypeStep DEF LockedStep, LoadInv
  <2> QED
    BY <1>2, <2>1 DEF IInv, TypeOK, Goto, Labels
<1>7. MutualExclusion'
  BY <1>1, <1>2, <1>4 DEF MutualExclusion, HoldsLock, Goto
<1>8. CopyInv' /\ WorkInv'
  BY <1>1, <1>2, <1>4 DEF CopyInv, WorkInv, HoldsLock, Goto
<1>9. EmptyInv'
  <2>1. pc'[t] = "idle" => tasks' = <<>>
    BY <1>1 DEF LockedStep, Goto
  <2> QED
    BY <1>1, <1>2, <1>4, <2>1 DEF EmptyInv, HoldsLock, Goto
<1>10. LoadInv'
  <2>1. CASE pc[t] = "push" /\ PushTask(t) /\ Goto(t, "unlock")
    BY <1>1, <2>1 DEF LoadInv, PushTask, Goto, TaskType
  <2>2. CASE pc[t] = "run" /\ (TakeSimple(t) \/ TakeElement(t)) /\ Goto(t, "unlock")
    <3>1. PICK i \in Top.items : job' = [job EXCEPT ![t] = i] /\ new' = new
      BY <2>2 DEF TakeSimple, TakeElement
    <3>2. i # NoItem
      BY <1>1, <2>2, PopType, PoolAssumption DEF TaskType, TakeSimple, TakeElement
    <3> QED
      BY <1>1, <2>2, <3>1, <3>2 DEF LoadInv, Goto, TaskType
  <2>3. CASE pc[t] = "run" /\ Discard /\ UNCHANGED pc
    BY <1>1, <2>3 DEF LoadInv, Discard
  <2>4. CASE pc[t] = "run" /\ tasks = <<>> /\ Goto(t, "idle") /\ UNCHANGED <<tasks, new, job, history>>
    BY <1>1, <2>4 DEF LoadInv, Goto
  <2> QED
    BY <2>1, <2>2, <2>3, <2>4 DEF LockedStep
<1> QED
  BY <1>5, <1>6, <1>7, <1>8, <1>9, <1>10 DEF IInv

\* The closures, without the lock.
LEMMA ClosureInv ==
    ASSUME IInv, NEW t \in Threads, ClosureStep(t), UNCHANGED <<word, v>>
    PROVE  IInv'
<1>1. /\ TaskType /\ pc \in [Threads -> Labels] /\ LoadInv /\ MutualExclusion
      /\ CopyInv /\ WorkInv /\ EmptyInv
  BY DEF IInv, TypeOK
<1>2. pc[t] \in {"closure", "exec"} /\ pc' = [pc EXCEPT ![t] = "lock"] /\ tasks' = tasks
  BY DEF ClosureStep, NewTask, Finish, Goto
<1>3. IdleCount' /\ LeaveInv' /\ OutsideInv' /\ StoppedInv' /\ RoleInv'
  BY <1>2, BusyFrame DEF BusyLabels, Goto
<1>4. TypeOK'
  <2>1. TaskType'
    BY <1>1, TaskTypeStep DEF ClosureStep, LoadInv
  <2> QED
    BY <1>2, <2>1 DEF IInv, TypeOK, Labels
<1>5. MutualExclusion' /\ CopyInv' /\ EmptyInv'
  BY <1>1, <1>2 DEF MutualExclusion, CopyInv, EmptyInv, HoldsLock
<1>6. WorkInv'
  BY <1>1, <1>2, Busy DEF WorkInv, BusyLabels
<1>7. LoadInv'
  <2>1. CASE NewTask(t)
    <3>1. PICK x : new' = [new EXCEPT ![t] = x] /\ job' = job /\ x # NoTask
      <4>1. PICK k \in {"simple", "multi"}, S \in (SUBSET todo) \ {{}} :
                new' = [new EXCEPT ![t] = [kind |-> k, items |-> S]]
        BY <2>1 DEF NewTask
      <4>2. [kind |-> k, items |-> S] # NoTask
        BY <4>1 DEF NoTask
      <4> QED
        BY <2>1, <4>1, <4>2 DEF NewTask
    <3>2. t # Main => job[t] # NoItem
      BY <1>1, <1>2 DEF LoadInv, IInv, RoleInv, Workers
    <3> QED
      BY <1>1, <1>2, <3>1, <3>2 DEF LoadInv, TaskType
  <2>2. CASE Finish(t)
    BY <1>1, <1>2, <2>2 DEF LoadInv, Finish, TaskType
  <2>3. CASE pc[t] = "closure" /\ UNCHANGED <<tasks, new, job, history>>
    BY <1>1, <1>2, <2>3 DEF LoadInv
  <2> QED
    BY <2>1, <2>2, <2>3 DEF ClosureStep
<1> QED
  BY <1>3, <1>4, <1>5, <1>6, <1>7 DEF IInv

\* lock().
LEMMA LockInv ==
    ASSUME IInv, NEW t \in Threads, Lock(t)
    PROVE  IInv'
<1>1. TaskType /\ pc \in [Threads -> Labels] /\ LoadInv /\ EmptyInv /\ word \in Word
  BY DEF IInv, TypeOK
<1>2. /\ pc[t] = "lock" /\ word.st # "locked" /\ pc' = [pc EXCEPT ![t] = Locked(t)]
      /\ word' \in Word /\ word'.st = "locked" /\ word'.idle = word.idle
      /\ UNCHANGED <<tasks, new, job, todo, done, scopes, v>>
  BY <1>1 DEF Lock, Goto, history, Word
<1>3. Locked(t) \in {"push", "run"}
  BY DEF Locked
<1>4. \A u \in Threads : ~HoldsLock(u)
  BY <1>2, Free
<1>5. IdleCount' /\ LeaveInv' /\ OutsideInv' /\ StoppedInv' /\ RoleInv'
  BY <1>2, <1>3, BusyFrame DEF BusyLabels, Goto
<1>6. TypeOK'
  BY <1>2, <1>3 DEF IInv, TypeOK, TaskType, Labels
<1>7. MutualExclusion' /\ CopyInv' /\ EmptyInv' /\ WorkInv'
  BY <1>1, <1>2, <1>3, <1>4 DEF MutualExclusion, CopyInv, EmptyInv, WorkInv, HoldsLock
<1>8. LoadInv'
  BY <1>1, <1>2 DEF LoadInv, Locked
<1> QED
  BY <1>5, <1>6, <1>7, <1>8 DEF IInv

\* unlock() and unlock_idle(): the load, with the lock held.
LEMMA LoadWordInv ==
    ASSUME IInv, NEW t \in Threads, Unlock(t) \/ UnlockIdle(t)
    PROVE  IInv'
<1>1. /\ TaskType /\ pc \in [Threads -> Labels] /\ LoadInv /\ EmptyInv
      /\ word \in Word /\ v \in [Threads -> Word]
  BY DEF IInv, TypeOK
<1>2. /\ pc[t] \in {"unlock", "idle"} /\ HoldsLock(t)
      /\ UNCHANGED <<tasks, new, job, todo, done, scopes, word>>
  BY DEF Unlock, UnlockIdle, HoldsLock, history
<1>3. word.st = "locked" /\ \A u \in Threads : u # t => ~HoldsLock(u)
  BY <1>2, Alone
<1>4. word.idle \in 0 .. (N - 1)
  BY <1>2, Busy DEF BusyLabels
<1>5. PICK l \in {"unlock_store", "idle_store"} :
        /\ pc' = [pc EXCEPT ![t] = l]
        /\ l = "unlock_store" => pc[t] = "unlock" /\ v' = [v EXCEPT ![t] = W(word.idle, IF tasks # <<>> THEN "work" ELSE "idle")]
        /\ l = "idle_store" => pc[t] = "idle" /\ v' = [v EXCEPT ![t] = W(word.idle + 1, "idle")]
  BY DEF Unlock, UnlockIdle, Goto
<1>6. IdleCount' /\ LeaveInv' /\ OutsideInv' /\ StoppedInv' /\ RoleInv'
  BY <1>2, <1>5, BusyFrame DEF BusyLabels, Goto
<1>7. TypeOK'
  <2>1. /\ W(word.idle, IF tasks # <<>> THEN "work" ELSE "idle") \in Word
        /\ W(word.idle + 1, "idle") \in Word
    BY <1>4, PoolAssumption DEF W, Word
  <2> QED
    BY <1>1, <1>2, <1>5, <2>1 DEF TypeOK, TaskType, Labels
<1>8. MutualExclusion' /\ WorkInv'
  BY <1>1, <1>2, <1>3, <1>5 DEF MutualExclusion, WorkInv, HoldsLock
<1>9. CopyInv'
  BY <1>1, <1>2, <1>3, <1>5 DEF CopyInv, HoldsLock
<1>10. EmptyInv' /\ LoadInv'
  BY <1>1, <1>2, <1>5 DEF EmptyInv, LoadInv
<1> QED
  BY <1>6, <1>7, <1>8, <1>9, <1>10 DEF IInv

\* A store of a word that is not locked, by the thread that holds the lock.
LEMMA StoreFrame ==
    ASSUME IInv, NEW t \in Threads, HoldsLock(t), NEW l \in Labels, Store(t, l),
           l \in {"exec", "closure", "waiting", "leave"},
           v[t].st = (IF tasks # <<>> THEN "work" ELSE "idle")
    PROVE  TypeOK' /\ MutualExclusion' /\ CopyInv' /\ WorkInv' /\ EmptyInv'
<1>1. TaskType /\ pc \in [Threads -> Labels] /\ EmptyInv /\ v \in [Threads -> Word]
  BY DEF IInv, TypeOK
<1>2. /\ word' = v[t] /\ v' = [v EXCEPT ![t] = STOPPING] /\ pc' = [pc EXCEPT ![t] = l]
      /\ UNCHANGED <<tasks, new, job, todo, done, scopes>>
  BY DEF Store, Goto, history
<1>3. \A u \in Threads : u # t => ~HoldsLock(u)
  BY Alone
<1>4. TypeOK'
  <2>1. STOPPING \in Word
    BY PoolAssumption DEF STOPPING, W, Word
  <2> QED
    BY <1>1, <1>2, <2>1 DEF TypeOK, TaskType
<1>5. MutualExclusion' /\ CopyInv'
  BY <1>1, <1>2, <1>3 DEF MutualExclusion, CopyInv, HoldsLock
<1>6. WorkInv' /\ EmptyInv'
  BY <1>1, <1>2 DEF WorkInv, EmptyInv
<1> QED
  BY <1>4, <1>5, <1>6

\* unlock(): the store.
LEMMA UnlockStoreInv ==
    ASSUME IInv, NEW t \in Threads, UnlockStore(t)
    PROVE  IInv'
<1>1. TaskType /\ pc \in [Threads -> Labels] /\ LoadInv /\ CopyInv
  BY DEF IInv, TypeOK
<1>2. /\ pc[t] = "unlock_store" /\ HoldsLock(t) /\ Store(t, Released(t)) /\ word' = v[t]
      /\ UNCHANGED <<tasks, new, job>> /\ Goto(t, Released(t))
  BY DEF UnlockStore, Store, HoldsLock
<1>3. Released(t) \in {"exec", "closure"} /\ (Released(t) = "closure" => t = Main)
  BY <1>1, <1>2 DEF Released, LoadInv
<1>4. v[t].idle = word.idle /\ v[t].st = (IF tasks # <<>> THEN "work" ELSE "idle")
  BY <1>1, <1>2 DEF CopyInv, W
<1>5. IdleCount' /\ LeaveInv' /\ OutsideInv' /\ StoppedInv' /\ RoleInv'
  BY <1>2, <1>3, <1>4, BusyFrame DEF BusyLabels
<1>6. TypeOK' /\ MutualExclusion' /\ CopyInv' /\ WorkInv' /\ EmptyInv'
  BY <1>2, <1>3, <1>4, StoreFrame DEF Labels
<1>7. LoadInv'
  <2>1. \/ Released(t) = "exec" /\ job[t] # NoItem
        \/ Released(t) = "closure" /\ job[t] = NoItem
    BY DEF Released
  <2> QED
    BY <1>1, <1>2, <2>1 DEF LoadInv, Goto
<1> QED
  BY <1>5, <1>6, <1>7 DEF IInv

\* unlock_idle(): the store.
LEMMA UnlockIdleStoreInv ==
    ASSUME IInv, NEW t \in Threads, UnlockIdleStore(t)
    PROVE  IInv'
<1>1. TaskType /\ pc \in [Threads -> Labels] /\ LoadInv /\ CopyInv /\ EmptyInv /\ RoleInv /\ Main \in Threads
  BY ThreadsFinite DEF IInv, TypeOK
<1>2. PICK l \in {"waiting", "leave"} :
        /\ Store(t, l)
        /\ l = "leave" => t = Main /\ v[t] = AllIdle
  BY DEF UnlockIdleStore
<1>3. /\ pc[t] = "idle_store" /\ HoldsLock(t) /\ word' = v[t]
      /\ UNCHANGED <<tasks, new, job>> /\ pc' = [pc EXCEPT ![t] = l]
  BY <1>2 DEF UnlockIdleStore, Store, HoldsLock, Goto
<1>4. v[t].idle = word.idle + 1 /\ v[t].st = (IF tasks # <<>> THEN "work" ELSE "idle")
  BY <1>1, <1>3 DEF CopyInv, EmptyInv, W
<1>5. /\ pc[Main] \notin {"out", "leave", "stop_wake", "stopped"} /\ ~Stopped
      /\ word.idle = Cardinality(Idle)
  BY <1>3, Busy DEF BusyLabels
<1>6. pc'[Main] \notin {"out", "stop_wake", "stopped"}
  BY <1>1, <1>3, <1>5
<1>7. IdleCount'
  <2>1. Idle' = Idle \cup {t} /\ t \notin Idle /\ Idle \in SUBSET Threads
    BY <1>1, <1>3 DEF Idle
  <2>2. word'.idle = Cardinality(Idle')
    BY <1>3, <1>4, <1>5, <2>1, ThreadUpDown
  <2>3. \A u \in Workers : pc'[u] # "exited"
    BY <1>1, <1>3, <1>5 DEF IInv, IdleCount, Workers
  <2> QED
    BY <2>2, <2>3 DEF IdleCount
<1>8. LeaveInv'
  BY <1>1, <1>2, <1>3, <1>5 DEF LeaveInv
<1>9. OutsideInv' /\ StoppedInv'
  BY <1>6 DEF OutsideInv, StoppedInv, Stopped
<1>10. TypeOK' /\ MutualExclusion' /\ CopyInv' /\ WorkInv' /\ EmptyInv'
  BY <1>2, <1>3, <1>4, StoreFrame DEF Labels
<1>11. RoleInv' /\ LoadInv'
  BY <1>1, <1>2, <1>3 DEF RoleInv, LoadInv, Workers
<1> QED
  BY <1>7, <1>8, <1>9, <1>10, <1>11 DEF IInv

\* The waiting loops.
LEMMA WaitInv ==
    ASSUME IInv, NEW t \in Threads, Wait(t)
    PROVE  IInv'
<1>1. /\ TaskType /\ pc \in [Threads -> Labels] /\ LoadInv /\ CopyInv /\ EmptyInv /\ RoleInv
      /\ WorkInv /\ LeaveInv /\ OutsideInv /\ StoppedInv /\ word \in Word /\ v \in [Threads -> Word]
      /\ Main \in Threads
  BY ThreadsFinite DEF IInv, TypeOK
<1>2. /\ pc[t] \in {"start", "waiting"} /\ t \in Idle
      /\ UNCHANGED <<tasks, new, job, todo, done, scopes, v>>
  BY DEF Wait, Idle, history
<1>3. CASE TakeWork(t)
  <2>1. word.st = "work" /\ word' = W(word.idle - 1, "locked") /\ pc' = [pc EXCEPT ![t] = "run"]
    BY <1>3 DEF TakeWork, Goto
  <2>2. pc[Main] \notin {"out", "leave", "stop_wake", "stopped"} /\ ~Stopped
    BY <1>1, <2>1 DEF OutsideInv, LeaveInv, StoppedInv, Stopped, STOPPING, AllIdle, W
  <2>3. pc'[Main] \notin {"out", "leave", "stop_wake", "stopped"}
    BY <1>1, <2>1, <2>2
  <2>4. word.idle = Cardinality(Idle) /\ word.idle \in 1 .. N
    BY <1>2, <2>2, Waiting
  <2>5. word'.idle = word.idle - 1 /\ word'.st = "locked" /\ word' \in Word
    BY <2>1, <2>4, PoolAssumption DEF W, Word
  <2>6. IdleCount'
    <3>1. Idle' = Idle \ {t} /\ Idle \in SUBSET Threads
      BY <1>1, <2>1 DEF Idle
    <3>2. word'.idle = Cardinality(Idle')
      BY <1>2, <2>4, <2>5, <3>1, ThreadUpDown
    <3>3. \A u \in Workers : pc'[u] # "exited"
      BY <1>1, <2>1, <2>2 DEF IInv, IdleCount, Workers
    <3> QED
      BY <3>2, <3>3 DEF IdleCount
  <2>7. LeaveInv' /\ OutsideInv' /\ StoppedInv'
    BY <2>3 DEF LeaveInv, OutsideInv, StoppedInv, Stopped
  <2>8. TypeOK'
    BY <1>1, <1>2, <2>1, <2>5 DEF TypeOK, TaskType, Labels
  <2>9. \A u \in Threads : ~HoldsLock(u)
    BY <2>1, Free
  <2>10. MutualExclusion' /\ CopyInv' /\ WorkInv' /\ EmptyInv'
    BY <1>1, <1>2, <2>1, <2>5, <2>9 DEF MutualExclusion, CopyInv, WorkInv, EmptyInv, HoldsLock
  <2>11. RoleInv' /\ LoadInv'
    BY <1>1, <1>2, <2>1 DEF RoleInv, LoadInv, Workers
  <2> QED
    BY <2>6, <2>7, <2>8, <2>10, <2>11 DEF IInv
<1>4. CASE t # Main /\ word = STOPPING /\ Goto(t, "exited") /\ UNCHANGED word
  <2>1. pc' = [pc EXCEPT ![t] = "exited"] /\ pc'[Main] = pc[Main] /\ word' = word
    BY <1>1, <1>4 DEF Goto
  <2>2. Stopped /\ Stopped'
    <3>1. ASSUME ~Stopped PROVE FALSE
      BY <1>2, <1>4, <3>1, Waiting, PoolAssumption DEF STOPPING, W
    <3> QED
      BY <2>1, <3>1 DEF Stopped
  <2>3. pc'[Main] \notin {"out", "leave"}
    BY <2>1, <2>2 DEF Stopped
  <2>4. IdleCount' /\ LeaveInv' /\ OutsideInv' /\ WorkInv'
    BY <2>2, <2>3 DEF IdleCount, LeaveInv, OutsideInv, WorkInv
  <2>5. StoppedInv'
    BY <1>1, <1>2, <2>1, <2>2 DEF StoppedInv, IsIdle, Workers
  <2>6. TypeOK'
    BY <1>1, <1>2, <2>1 DEF TypeOK, TaskType, Labels
  <2>7. MutualExclusion' /\ CopyInv' /\ EmptyInv'
    BY <1>1, <1>2, <2>1 DEF IInv, MutualExclusion, CopyInv, EmptyInv, HoldsLock
  <2>8. RoleInv' /\ LoadInv'
    BY <1>1, <1>2, <1>4, <2>1 DEF RoleInv, LoadInv, Workers
  <2> QED
    BY <2>4, <2>5, <2>6, <2>7, <2>8 DEF IInv
<1>5. CASE t = Main /\ word = AllIdle /\ Goto(t, "leave") /\ UNCHANGED word
  <2>1. pc' = [pc EXCEPT ![Main] = "leave"] /\ pc'[Main] = "leave" /\ word' = word /\ pc[Main] \in {"start", "waiting"}
    BY <1>1, <1>2, <1>5 DEF Goto
  <2>2. ~Stopped /\ ~Stopped'
    BY <2>1 DEF Stopped
  <2>3. Idle' = Idle /\ \A u \in Workers : pc'[u] = pc[u]
    BY <1>1, <2>1 DEF Idle, Workers
  <2>4. IdleCount'
    BY <2>1, <2>2, <2>3 DEF IInv, IdleCount
  <2>5. LeaveInv' /\ OutsideInv' /\ StoppedInv' /\ WorkInv'
    BY <1>1, <1>2, <1>5, <2>1, <2>2 DEF LeaveInv, OutsideInv, StoppedInv, WorkInv
  <2>6. TypeOK'
    BY <1>1, <1>2, <2>1 DEF TypeOK, TaskType, Labels
  <2>7. MutualExclusion' /\ CopyInv' /\ EmptyInv'
    BY <1>1, <1>2, <2>1 DEF IInv, MutualExclusion, CopyInv, EmptyInv, HoldsLock
  <2>8. RoleInv' /\ LoadInv'
    BY <1>1, <1>2, <2>1 DEF RoleInv, LoadInv, Workers
  <2> QED
    BY <2>4, <2>5, <2>6, <2>7, <2>8 DEF IInv
<1> QED
  BY <1>3, <1>4, <1>5 DEF Wait

\* wait_main() stores v - IDLE_1 and returns: all others still wait.
LEMMA LeaveMainInv ==
    ASSUME IInv, LeaveMain
    PROVE  IInv' /\ tasks = <<>> /\ \A t \in Workers : IsIdle(t)
<1>1. /\ TaskType /\ pc \in [Threads -> Labels] /\ LoadInv /\ CopyInv /\ EmptyInv /\ RoleInv
      /\ WorkInv /\ word = AllIdle /\ v \in [Threads -> Word] /\ Main \in Threads
  BY ThreadsFinite DEF IInv, TypeOK, LeaveInv, LeaveMain
<1>2. /\ pc[Main] = "leave" /\ word' = W(N - 1, "idle") /\ pc' = [pc EXCEPT ![Main] = "out"]
      /\ UNCHANGED <<tasks, new, job, todo, done, scopes, v>>
  BY DEF LeaveMain, Goto, history
<1>3. ~Stopped /\ ~Stopped' /\ pc'[Main] = "out"
  BY <1>1, <1>2 DEF Stopped
<1>4. word.idle = N /\ word.st = "idle" /\ word'.idle = N - 1 /\ word'.st = "idle" /\ word' \in Word
  BY <1>1, <1>2, PoolAssumption DEF AllIdle, W, Word
<1>5. Idle = Threads
  <2>1. Idle \in SUBSET Threads /\ Cardinality(Idle) = N
    BY <1>3, <1>4 DEF IInv, IdleCount, Idle
  <2> QED
    BY <2>1, ThreadCount, PoolAssumption
<1>6. /\ Idle' = Threads \ {Main}
      /\ \A t \in Workers : IsIdle(t) /\ pc'[t] = pc[t]
  BY <1>1, <1>2, <1>5 DEF Idle, Workers, IsIdle, RoleInv
<1>7. tasks = <<>>
  BY <1>1, <1>3, <1>4 DEF WorkInv
<1>8. IdleCount'
  <2>1. Cardinality(Idle') = N - 1
    BY <1>1, <1>6, ThreadsFinite, ThreadUpDown
  <2>2. \A t \in Workers : pc'[t] # "exited"
    BY <1>6 DEF IsIdle
  <2> QED
    BY <1>4, <2>1, <2>2 DEF IdleCount
<1>9. LeaveInv' /\ OutsideInv' /\ StoppedInv' /\ WorkInv'
  BY <1>2, <1>3, <1>4, <1>6, <1>7 DEF LeaveInv, OutsideInv, StoppedInv, WorkInv, IsIdle
<1>10. TypeOK'
  BY <1>1, <1>2, <1>4 DEF TypeOK, TaskType, Labels
<1>11. MutualExclusion' /\ CopyInv' /\ EmptyInv'
  <2>1. \A u \in Threads : ~HoldsLock(u)
    BY <1>4, Free
  <2>2. \A u \in Threads : ~HoldsLock(u)'
    BY <1>1, <1>2, <2>1 DEF HoldsLock
  <2> QED
    BY <1>4, <2>2 DEF MutualExclusion, CopyInv, EmptyInv, HoldsLock
<1>12. RoleInv' /\ LoadInv'
  BY <1>1, <1>2 DEF RoleInv, LoadInv, Workers
<1> QED
  BY <1>6, <1>7, <1>8, <1>9, <1>10, <1>11, <1>12 DEF IInv

\* The owner of the pool opens a scope or drops the pool.
LEMMA OwnerInv ==
    ASSUME IInv, BeginScope \/ Stop
    PROVE  IInv'
<1>1. /\ TaskType /\ pc \in [Threads -> Labels] /\ LoadInv /\ CopyInv /\ EmptyInv /\ RoleInv
      /\ OutsideInv /\ IdleCount /\ WorkInv /\ word \in Word /\ v \in [Threads -> Word]
      /\ Main \in Threads /\ Main \notin Workers
  BY ThreadsFinite DEF IInv, TypeOK, Workers
<1>2. /\ UNCHANGED <<tasks, new, job, todo, done, v>>
      /\ pc[Main] = "out" /\ pc'[Main] \in {"closure", "stopped"}
      /\ pc' = [pc EXCEPT ![Main] = pc'[Main]]
      /\ \A t \in Workers : pc'[t] = pc[t]
  BY <1>1 DEF BeginScope, OpenScope, Stop, Goto, history, Workers
<1>3. word = W(N - 1, "idle") /\ tasks = <<>> /\ \A t \in Workers : IsIdle(t)
  BY <1>1, <1>2 DEF OutsideInv
<1>4. /\ word' \in Word /\ word'.st = "idle" /\ word.st = "idle"
      /\ pc'[Main] = "closure" => word' = word
      /\ pc'[Main] = "stopped" => word' = STOPPING
  BY <1>1, <1>3, PoolAssumption DEF BeginScope, Stop, Goto, STOPPING, W, Word
<1>5. TypeOK'
  <2>1. TaskType'
    BY <1>1, TaskTypeStep DEF BeginScope, Stop
  <2> QED
    BY <1>1, <1>2, <1>4, <2>1 DEF TypeOK, Labels
<1>6. IdleCount'
  <2>1. CASE pc'[Main] = "closure"
    <3>1. ~Stopped
      BY <1>2 DEF Stopped
    <3>2. Idle' = Idle
      BY <1>1, <1>2, <2>1 DEF Idle, Workers
    <3> QED
      BY <1>1, <1>2, <1>4, <2>1, <3>1, <3>2 DEF IdleCount
  <2>2. CASE pc'[Main] = "stopped"
    BY <2>2 DEF IdleCount, Stopped
  <2> QED
    BY <1>2, <2>1, <2>2
<1>7. LeaveInv' /\ OutsideInv' /\ StoppedInv' /\ WorkInv'
  BY <1>2, <1>3, <1>4 DEF LeaveInv, OutsideInv, StoppedInv, WorkInv, Stopped, IsIdle
<1>8. MutualExclusion' /\ CopyInv' /\ EmptyInv'
  <2>1. \A u \in Threads : ~HoldsLock(u)
    BY <1>4, Free
  <2>2. \A u \in Threads : ~HoldsLock(u)'
    BY <1>1, <1>2, <2>1 DEF HoldsLock
  <2> QED
    BY <1>4, <2>2 DEF MutualExclusion, CopyInv, EmptyInv, HoldsLock
<1>9. RoleInv' /\ LoadInv'
  BY <1>1, <1>2 DEF RoleInv, LoadInv, Workers
<1> QED
  BY <1>5, <1>6, <1>7, <1>8, <1>9 DEF IInv

\* Nothing changes.
LEMMA StutterInv == IInv /\ UNCHANGED vars => IInv'
<1> SUFFICES ASSUME IInv, UNCHANGED vars PROVE IInv'
  OBVIOUS
<1>1. UNCHANGED <<tasks, pc, new, job, todo, done, scopes, word, v>>
  BY DEF vars
<1>2. TypeOK' /\ MutualExclusion'
  BY <1>1 DEF IInv, TypeOK, TaskType, MutualExclusion, HoldsLock
<1>3. IdleCount'
  BY <1>1 DEF IInv, IdleCount, Stopped, Idle
<1>4. CopyInv' /\ WorkInv' /\ EmptyInv' /\ LeaveInv'
  BY <1>1 DEF IInv, CopyInv, WorkInv, EmptyInv, LeaveInv, Stopped
<1>5. OutsideInv' /\ StoppedInv' /\ RoleInv' /\ LoadInv'
  BY <1>1 DEF IInv, OutsideInv, StoppedInv, RoleInv, LoadInv, Stopped, IsIdle
<1> QED
  BY <1>2, <1>3, <1>4, <1>5 DEF IInv

\* The invariant holds at the start.
LEMMA InitInv == Init => IInv
<1> SUFFICES ASSUME Init PROVE IInv
  OBVIOUS
<1>1. /\ tasks = <<>> /\ pc = [t \in Threads |-> IF t = Main THEN "out" ELSE "start"]
      /\ new = [t \in Threads |-> NoTask] /\ job = [t \in Threads |-> NoItem]
      /\ todo = Items /\ done = {} /\ scopes = 0
      /\ word = W(N - 1, "idle") /\ v = [t \in Threads |-> STOPPING]
  BY DEF Init, TaskInit
<1>2. word \in Word /\ STOPPING \in Word /\ word.idle = N - 1 /\ word.st = "idle"
  BY <1>1, PoolAssumption DEF Word, W, STOPPING
<1>3. TypeOK
  <2>1. tasks \in Seq(Task) /\ scopes \in 0 .. MaxScopes
    BY <1>1, PoolAssumption
  <2> QED
    BY <1>1, <1>2, <2>1 DEF TypeOK, TaskType, Labels
<1>4. pc[Main] = "out" /\ \A t \in Workers : pc[t] = "start"
  BY <1>1, ThreadsFinite DEF Workers
<1>5. IdleCount
  <2>1. Idle = Threads \ {Main}
    BY <1>1 DEF Idle
  <2>2. Cardinality(Idle) = N - 1
    BY <2>1, ThreadsFinite, ThreadUpDown
  <2> QED
    BY <1>2, <1>4, <2>2 DEF IdleCount
<1>6. MutualExclusion /\ CopyInv /\ EmptyInv /\ LoadInv
  BY <1>1, <1>2 DEF MutualExclusion, CopyInv, EmptyInv, LoadInv, HoldsLock
<1>7. WorkInv /\ LeaveInv /\ OutsideInv /\ StoppedInv /\ RoleInv
  BY <1>1, <1>2, <1>4 DEF WorkInv, LeaveInv, OutsideInv, StoppedInv, RoleInv, Stopped, IsIdle
<1> QED
  BY <1>3, <1>5, <1>6, <1>7 DEF IInv

\* Every step preserves it.
LEMMA StepInv == IInv /\ [Next]_vars => IInv'
<1> SUFFICES ASSUME IInv, [Next]_vars PROVE IInv'
  OBVIOUS
<1>1. ASSUME NEW t \in Threads, PoolStep(t) PROVE IInv'
  BY <1>1, LockedInv, LockInv, LoadWordInv, UnlockStoreInv, UnlockIdleStoreInv, WaitInv, LeaveMainInv
  DEF PoolStep
<1>2. ASSUME NEW t \in Threads, UserStep(t) PROVE IInv'
  BY <1>2, ClosureInv DEF UserStep
<1>3. ASSUME NEW t \in Threads, Spin(t) PROVE IInv'
  BY <1>3, StutterInv DEF Spin
<1>4. CASE Terminated \/ UNCHANGED vars
  BY <1>4, StutterInv DEF Terminated
<1> QED
  BY <1>1, <1>2, <1>3, <1>4, OwnerInv DEF Next

\* The invariant holds in every state of the pool.
LEMMA Invariance == Spec => []IInv
BY InitInv, StepInv, PTL DEF Spec

-----------------------------------------------------------------------------
(* The theorems                                                            *)

\* The word of sync_impl.spin.rs is exact for every number of threads, although
\* every release of the lock is a load and a plain store: the lock excludes, the
\* count counts, and the debug_assert! lines hold.
THEOREM WordSound == Spec => []WordExact
<1>1. IInv => WordExact
  <2> SUFFICES ASSUME IInv PROVE Asserts
    BY DEF WordExact, IInv
  <2>1. ASSUME NEW t \in Threads, pc[t] \in {"unlock", "idle"} PROVE word.st = "locked"
    BY <2>1, Alone DEF HoldsLock
  <2>2. ASSUME NEW t \in Threads, pc[t] \in {"start", "waiting"}, ~(t # Main /\ word = STOPPING)
        PROVE  word.idle >= 1
    <3>1. ~Stopped
      BY <2>2 DEF IInv, StoppedInv, Stopped
    <3>2. t \in Idle
      BY <2>2 DEF Idle
    <3> QED
      BY <3>1, <3>2, Waiting, PoolAssumption
  <2> QED
    BY <2>1, <2>2 DEF Asserts, IInv, EmptyInv, LeaveInv, OutsideInv, StoppedInv
<1> QED
  BY <1>1, Invariance, PTL

\* Steps that only touch the word and the local copies.
LEMMA SyncSteps ==
    ASSUME IInv, Placed, NEW t \in Threads,
           Lock(t) \/ Unlock(t) \/ UnlockStore(t) \/ UnlockIdle(t) \/ UnlockIdleStore(t) \/ Wait(t)
    PROVE  Placed' /\ Allowed
<1>1. pc \in [Threads -> Labels]
  BY DEF IInv, TypeOK
<1>2. UNCHANGED <<tasks, new, job, todo, done>>
  BY DEF Lock, Unlock, UnlockStore, UnlockIdle, UnlockIdleStore, Store, Wait, history
<1>3. /\ \A u \in Threads : u # t => pc'[u] = pc[u]
      /\ {pc[t], pc'[t]} \cap {"out", "stop_wake", "stopped"} = {}
  <2>1. CASE Lock(t) \/ Unlock(t) \/ UnlockIdle(t) \/ Wait(t)
    BY <1>1, <2>1 DEF Lock, Unlock, UnlockIdle, Wait, TakeWork, Locked, Goto
  <2>2. CASE UnlockStore(t) \/ UnlockIdleStore(t)
    BY <1>1, <2>2 DEF UnlockStore, UnlockIdleStore, Store, Released, Goto
  <2> QED
    BY <2>1, <2>2
<1> QED
  BY <1>2, <1>3, PhaseFrame, HiddenStep

\* Steps that move items.
LEMMA ItemSteps ==
    ASSUME IInv, Placed, NEW t \in Threads, LockedStep(t) \/ ClosureStep(t)
    PROVE  Placed' /\ Allowed
<1>1. pc \in [Threads -> Labels] /\ TaskType /\ LoadInv
  BY DEF IInv, TypeOK
<1>2. pc[Main] # "out" /\ ~Stopped
  BY Busy DEF LockedStep, ClosureStep, BusyLabels
<1>3. PhaseKept
  <2>1. /\ \A u \in Threads : u # t => pc'[u] = pc[u]
        /\ {pc[t], pc'[t]} \cap {"out", "stop_wake", "stopped"} = {}
    BY <1>1 DEF LockedStep, ClosureStep, Goto
  <2> QED
    BY <2>1, PhaseFrame
<1>4. CASE LockedStep(t)
  <2>1. /\ pc[t] = "push" => new[t] # NoTask
        /\ pc[t] = "run" => job[t] = NoItem
    BY <1>1 DEF LoadInv
  <2>2. CASE UNCHANGED <<tasks, new, job, history>>
    BY <1>3, <2>2, HiddenStep DEF history
  <2> QED
    BY <1>1, <1>3, <1>4, <2>1, <2>2, PushTaskStep, TakeSimpleStep, TakeElementStep, DiscardStep
    DEF LockedStep
<1>5. CASE ClosureStep(t)
  <2>1. /\ pc[t] \in {"closure", "exec"} => new[t] = NoTask
        /\ pc[t] = "exec" => job[t] # NoItem
    BY <1>1 DEF LoadInv
  <2>2. CASE UNCHANGED <<tasks, new, job, history>>
    BY <1>3, <2>2, HiddenStep DEF history
  <2> QED
    BY <1>1, <1>2, <1>3, <1>5, <2>1, <2>2, NewTaskStep, FinishStep DEF ClosureStep
<1> QED
  BY <1>4, <1>5

\* Steps of the owner of the pool.
LEMMA OwnerSteps ==
    ASSUME IInv, Placed, LeaveMain \/ BeginScope \/ Stop
    PROVE  Placed' /\ Allowed
<1>1. pc \in [Threads -> Labels] /\ LoadInv /\ Main \in Threads
  BY ThreadsFinite DEF IInv, TypeOK
<1>2. UNCHANGED <<tasks, new, job, todo, done>>
  BY DEF LeaveMain, BeginScope, OpenScope, Stop, history
<1>3. CASE LeaveMain
  <2>1. pc[Main] = "leave" /\ ~Stopped /\ pc'[Main] = "out"
    BY <1>1, <1>3 DEF LeaveMain, Goto, Stopped
  <2>2. tasks = <<>> /\ \A t \in Workers : IsIdle(t)
    BY <1>3, LeaveMainInv
  <2>3. \A t \in Threads : job[t] = NoItem /\ new[t] = NoTask
    BY <1>1, <2>1, <2>2 DEF LoadInv, Workers, IsIdle
  <2> QED
    BY <1>2, <2>1, <2>2, <2>3, NothingLeft, OwnerStep
<1>4. CASE BeginScope
  <2>1. pc[Main] = "out" /\ pc'[Main] # "out" /\ ~Stopped'
    BY <1>1, <1>4 DEF BeginScope, Goto, Stopped
  <2> QED
    BY <1>2, <2>1, OwnerStep
<1>5. CASE Stop
  <2>1. pc[Main] = "out" /\ Stopped'
    BY <1>1, <1>5 DEF Stop, Goto, Stopped
  <2> QED
    BY <1>2, <2>1, OwnerStep
<1> QED
  BY <1>3, <1>4, <1>5

\* Every step of the pool is one of TaskPool's, or users cannot see it.
LEMMA RefinementStep == IInv /\ Placed /\ [Next]_vars => Placed' /\ Allowed
<1> SUFFICES ASSUME IInv, Placed, [Next]_vars
             PROVE  Placed' /\ Allowed
  OBVIOUS
<1>1. ASSUME NEW t \in Threads, PoolStep(t) \/ UserStep(t)
      PROVE  Placed' /\ Allowed
  BY <1>1, SyncSteps, ItemSteps, OwnerSteps DEF PoolStep, UserStep
<1>2. CASE UNCHANGED vars
  BY <1>2, HiddenStep DEF vars, PhaseKept, Stopped
<1> QED
  BY <1>1, <1>2, OwnerSteps DEF Next, Spin, Terminated

\* The pool over sync_impl.spin.rs does what its users may rely on: every item
\* is started once, by one of N threads, and finished before its scope returns.
THEOREM Refinement == Spec => ImplementsPool
<1>1. Init => Placed /\ Abstract!Init
  BY PlacedInit DEF Init
<1>2. IInv /\ Placed /\ [Next]_vars => Placed' /\ [Abstract!Next]_(Abstract!vars)
  BY RefinementStep DEF Allowed
<1> QED
  BY <1>1, <1>2, Invariance, PTL DEF Spec, ImplementsPool, Abstract!Spec
====
