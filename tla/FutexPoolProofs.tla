--------------------------- MODULE FutexPoolProofs --------------------------
(***************************************************************************)
(* Proofs about FutexPool for every number of threads, every set of items, *)
(* every spin limit and any number of scopes: its invariants, that it does *)
(* what TaskPool promises, and that a scope returns only when everything   *)
(* submitted to it has run.                                                *)
(***************************************************************************)
EXTENDS FutexPool, PoolTasksProofs

\* What a thread between the load and the swap of unlock() or unlock_idle()
\* is about to store, and what wait_*() was called with.
SwapInv ==
    \A t \in Threads :
        /\ pc[t] = "unlock_swap" => v[t].st = IF tasks # <<>> THEN "work" ELSE "idle"
        /\ pc[t] = "idle_swap" => v[t].st = "idle"
        /\ pc[t] \in {"idle", "idle_swap"} => tasks = <<>>

\* The main thread acts on a word it loaded earlier: once every thread was
\* idle and no work was left, nothing changes until it leaves.
SeenIdle ==
    pc[Main] \in {"idle_wake_lock", "wait"} /\ v[Main] = AllIdle => word = AllIdle

\* Outside a scope the main thread is alone.
OutsideInv ==
    pc[Main] = "out" =>
        /\ word = W(N - 1, "idle")
        /\ tasks = <<>>
        /\ \A t \in Workers : IsIdle(t)

\* So it is after the pool was stopped.
StoppedInv ==
    Stopped =>
        /\ word = STOPPING
        /\ tasks = <<>>
        /\ \A t \in Workers : IsIdle(t) \/ pc[t] = "exited"

\* Which labels belong to the main thread and which to the workers.
RoleInv ==
    /\ pc[Main] \notin {"start", "start_wait", "idle_wake_main", "exited"}
    /\ \A t \in Workers :
        pc[t] \notin {"out", "closure", "stop_wake", "stopped"}

InUnlock(t) ==
    pc[t] \in {"unlock", "unlock_swap", "unlock_wake_lock", "unlock_wake_work", "exec"}
InLock(t) == pc[t] \in {"lock", "contend", "lock_wait"}

\* Which threads carry an item or a task.
LoadInv ==
    \A t \in Threads :
        /\ IsIdle(t) \/ pc[t] \in {"run", "idle", "idle_swap", "out", "closure", "exited",
                                   "stop_wake", "stopped"}
              => job[t] = NoItem /\ new[t] = NoTask
        /\ InUnlock(t) => new[t] = NoTask
        /\ pc[t] = "exec" => job[t] # NoItem
        /\ pc[t] = "push" => new[t] # NoTask
        /\ InUnlock(t) /\ t # Main => job[t] # NoItem
        /\ InLock(t) \/ pc[t] = "push" => (t # Main /\ new[t] # NoTask => job[t] # NoItem)
        /\ InLock(t) /\ new[t] = NoTask => job[t] = NoItem

IInv ==
    /\ TypeOK
    /\ MutualExclusion
    /\ IdleCount
    /\ CountNotStale
    /\ SwapInv
    /\ WorkFlag
    /\ SeenIdle
    /\ OutsideInv
    /\ StoppedInv
    /\ ExitOnlyWhenStopped
    /\ RoleInv
    /\ LoadInv
-----------------------------------------------------------------------------
(* Counting idle threads                                                   *)

\* The set of idle threads is a finite set of at most N threads, and of N
\* only when it is all of them.
LEMMA IdleBounds ==
    /\ IsFiniteSet(Idle)
    /\ Cardinality(Idle) \in 0 .. N
    /\ Cardinality(Idle) = N => Idle = Threads
    /\ \A t \in Threads : IsIdle(t) => Cardinality(Idle) >= 1
    /\ \A t \in Threads : ~IsIdle(t) => Cardinality(Idle) <= N - 1
<1>1. Idle \in SUBSET Threads
  BY DEF Idle
<1>2. /\ IsFiniteSet(Idle)
      /\ Cardinality(Idle) <= N
      /\ Cardinality(Idle) = N => Idle = Threads
  BY <1>1, ThreadsFinite, FS_Subset
<1>3. Cardinality(Idle) \in Nat
  BY <1>2, FS_CardinalityType
<1>4. ASSUME NEW t \in Threads, IsIdle(t)
      PROVE  Cardinality(Idle) >= 1
  <2>1. Idle # {}
    BY <1>4 DEF Idle
  <2>2. Cardinality(Idle) # 0
    BY <1>2, <2>1, FS_EmptySet
  <2> QED
    BY <1>3, <2>2
<1>5. ASSUME NEW t \in Threads, ~IsIdle(t)
      PROVE  Cardinality(Idle) <= N - 1
  <2>1. Idle # Threads
    BY <1>5 DEF Idle
  <2> QED
    BY <1>2, <1>3, <2>1, PoolAssumption
<1> QED
  BY <1>2, <1>3, <1>4, <1>5, PoolAssumption

\* One more thread waits for work.
LEMMA IdleUp ==
    ASSUME NEW t \in Threads, ~IsIdle(t), IsIdle(t)',
           \A u \in Threads \ {t} : IsIdle(u)' <=> IsIdle(u)
    PROVE  Cardinality(Idle)' = Cardinality(Idle) + 1
<1>1. Idle' = Idle \cup {t} /\ t \notin Idle
  BY DEF Idle
<1> QED
  BY <1>1, IdleBounds, FS_AddElement

\* One thread less waits for work.
LEMMA IdleDown ==
    ASSUME NEW t \in Threads, IsIdle(t), ~IsIdle(t)',
           \A u \in Threads \ {t} : IsIdle(u)' <=> IsIdle(u)
    PROVE  Cardinality(Idle)' = Cardinality(Idle) - 1
<1>1. Idle' = Idle \ {t} /\ t \in Idle
  BY DEF Idle
<1> QED
  BY <1>1, IdleBounds, FS_RemoveElement

\* Nothing changes for the idle threads.
LEMMA IdleSame ==
    ASSUME \A u \in Threads : IsIdle(u)' <=> IsIdle(u)
    PROVE  Cardinality(Idle)' = Cardinality(Idle)
BY DEF Idle

-----------------------------------------------------------------------------
(* The invariant is inductive                                              *)

\* A step that leaves the word and the stack alone and moves no thread into
\* or out of the lock or the waiting loops.
LEMMA QuietStep ==
    ASSUME MutualExclusion, IdleCount, WorkFlag,
           word' = word, tasks' = tasks,
           \A u \in Threads : HoldsLock(u)' <=> HoldsLock(u),
           \A u \in Threads : IsIdle(u)' <=> IsIdle(u),
           Stopped' <=> Stopped
    PROVE  MutualExclusion' /\ IdleCount' /\ WorkFlag'
<1>1. MutualExclusion'
  BY DEF MutualExclusion
<1>2. IdleCount'
  BY IdleSame DEF IdleCount
<1>3. WorkFlag'
  BY DEF WorkFlag
<1> QED
  BY <1>1, <1>2, <1>3

\* The value 0 is a word.
LEMMA StoppingType == STOPPING \in Word
BY PoolAssumption DEF STOPPING, Word, W

\* A step that does not disturb the threads in front of a swap.
LEMMA SwapFrame ==
    ASSUME CountNotStale, SwapInv, tasks' = tasks, word'.idle = word.idle,
           \A u \in Threads : pc'[u] \in {"unlock_swap", "idle", "idle_swap"}
                                 => pc[u] = pc'[u] /\ v'[u] = v[u]
    PROVE  CountNotStale' /\ SwapInv'
BY DEF CountNotStale, SwapInv

\* A thread that is neither waiting for work nor outside the pool's code keeps
\* the scope open and is not counted as idle.
LEMMA Busy ==
    ASSUME IInv, NEW t \in Threads, ~IsIdle(t),
           pc[t] \notin {"out", "stop_wake", "stopped", "exited"}
    PROVE  /\ pc[Main] \notin {"out", "stop_wake", "stopped"}
           /\ word.idle <= N - 1
           /\ word # AllIdle
<1>1. OutsideInv BY DEF IInv
<1>2. StoppedInv BY DEF IInv
<1>3. IdleCount BY DEF IInv
<1>4. pc[Main] \notin {"out", "stop_wake", "stopped"}
  BY <1>1, <1>2 DEF OutsideInv, StoppedInv, Stopped, Workers
<1>5. word.idle = Cardinality(Idle)
  BY <1>3, <1>4 DEF IdleCount, Stopped
<1>6. Cardinality(Idle) \in 0 .. N /\ Cardinality(Idle) <= N - 1
  BY IdleBounds
<1> QED
  BY <1>4, <1>5, <1>6, PoolAssumption DEF AllIdle, W

\* A thread that waits for work is counted as idle until the pool is stopped.
LEMMA Waiting ==
    ASSUME IInv, NEW t \in Threads, IsIdle(t), ~Stopped
    PROVE  word.idle >= 1
<1>1. IdleCount BY DEF IInv
<1>2. Cardinality(Idle) >= 1
  BY IdleBounds
<1> QED
  BY <1>1, <1>2 DEF IdleCount

\* A waiting thread takes the lock together with the work.
LEMMA TakeWorkInv ==
    ASSUME IInv, NEW t \in Threads, pc[t] \in {"reload", "start"}, TakeWork(t),
           UNCHANGED <<tasks, sleep, new, job, history>>
    PROVE  IInv'
<1>a. SyncType BY DEF IInv, TypeOK
<1>z. TaskType BY DEF IInv, TypeOK
<1>b. MutualExclusion BY DEF IInv
<1>c. IdleCount BY DEF IInv
<1>d. CountNotStale BY DEF IInv
<1>e. SwapInv BY DEF IInv
<1>g. SeenIdle BY DEF IInv
<1>h. OutsideInv BY DEF IInv
<1>i. StoppedInv BY DEF IInv
<1>j. ExitOnlyWhenStopped BY DEF IInv
<1>k. RoleInv BY DEF IInv
<1>l. LoadInv BY DEF IInv
<1>m. Main \in Threads BY PoolAssumption DEF Threads, Main
<1>n. /\ word.st = "work"
      /\ word' = W(word.idle - 1, "locked")
      /\ pc' = [pc EXCEPT ![t] = "run"]
      /\ v' = [v EXCEPT ![t] = STOPPING]
      /\ spin' = [spin EXCEPT ![t] = MaxSpin]
  BY DEF TakeWork, Return, Goto
<1>1. /\ pc[Main] \notin {"out", "stop_wake", "stopped"}
      /\ pc[Main]' \notin {"out", "stop_wake", "stopped"}
      /\ word # AllIdle
  BY <1>a, <1>h, <1>i, <1>m, <1>n
     DEF SyncType, OutsideInv, StoppedInv, Stopped, STOPPING, AllIdle, W
<1>2. IsIdle(t) /\ ~Stopped
  BY <1>1 DEF IsIdle, Stopped
<1>3. word.idle >= 1
  BY <1>2, Waiting
<1>4. SyncType'
  <2>1. word' \in Word
    BY <1>a, <1>n, <1>3, PoolAssumption DEF SyncType, Word, W
  <2> QED
    BY <1>a, <1>n, <2>1, PoolAssumption, SpinAssumption DEF SyncType, Word, W, STOPPING, Labels
<1>5. TaskType'
  BY <1>z DEF TaskType, history
<1>6. MutualExclusion'
  BY <1>a, <1>b, <1>n DEF SyncType, W, MutualExclusion, HoldsLock, Unlocked
<1>7. IdleCount'
  <2>1. ~IsIdle(t)' /\ \A u \in Threads \ {t} : IsIdle(u)' <=> IsIdle(u)
    BY <1>a, <1>n DEF SyncType, IsIdle
  <2>2. word'.idle = word.idle - 1
    BY <1>n DEF W
  <2> QED
    BY <1>c, <1>2, <2>1, <2>2, IdleDown DEF IdleCount
<1>8. CountNotStale' /\ SwapInv'
  <2>1. \A u \in Threads : ~HoldsLock(u)
    BY <1>b, <1>n DEF MutualExclusion, Unlocked
  <2> QED
    BY <1>a, <1>n, <2>1 DEF SyncType, HoldsLock, CountNotStale, SwapInv
<1>9. WorkFlag'
  BY <1>n DEF WorkFlag, W, Unlocked
<1>10. SeenIdle'
  BY <1>a, <1>g, <1>m, <1>n, <1>1 DEF SyncType, SeenIdle
<1>11. OutsideInv' /\ StoppedInv'
  BY <1>1 DEF OutsideInv, StoppedInv, Stopped
<1>12. ExitOnlyWhenStopped'
  BY <1>a, <1>j, <1>n, <1>1 DEF SyncType, ExitOnlyWhenStopped, Stopped, Workers
<1>13. RoleInv'
  BY <1>a, <1>k, <1>m, <1>n DEF SyncType, RoleInv, Workers
<1>14. LoadInv'
  BY <1>a, <1>l, <1>n DEF SyncType, LoadInv, IsIdle, InUnlock, InLock
<1> QED
  BY <1>4, <1>5, <1>6, <1>7, <1>8, <1>9, <1>10, <1>11, <1>12, <1>13, <1>14 DEF IInv, TypeOK

\* A worker that reads STOPPING is counted as idle, so the pool was stopped.
LEMMA ExitInv ==
    ASSUME IInv, NEW t \in Threads, t # Main, pc[t] \in {"reload", "start"},
           word = STOPPING, Return(t, "exited"), UNCHANGED word,
           UNCHANGED <<tasks, sleep, new, job, history>>
    PROVE  IInv'
<1>a. SyncType BY DEF IInv, TypeOK
<1>z. TaskType BY DEF IInv, TypeOK
<1>b. MutualExclusion BY DEF IInv
<1>e. SwapInv BY DEF IInv
<1>d. CountNotStale BY DEF IInv
<1>g. SeenIdle BY DEF IInv
<1>h. OutsideInv BY DEF IInv
<1>i. StoppedInv BY DEF IInv
<1>j. ExitOnlyWhenStopped BY DEF IInv
<1>k. RoleInv BY DEF IInv
<1>l. LoadInv BY DEF IInv
<1>m. Main \in Threads BY PoolAssumption DEF Threads, Main
<1>n. /\ pc' = [pc EXCEPT ![t] = "exited"]
      /\ v' = [v EXCEPT ![t] = STOPPING]
      /\ spin' = [spin EXCEPT ![t] = MaxSpin]
  BY DEF Return, Goto
<1>1. Stopped
  <2> SUFFICES ASSUME ~Stopped PROVE FALSE
    OBVIOUS
  <2>1. IsIdle(t)
    BY DEF IsIdle
  <2>2. word.idle >= 1
    BY <2>1, Waiting
  <2> QED
    BY <2>2 DEF STOPPING, W
<1>2. Stopped'
  BY <1>a, <1>m, <1>n, <1>1 DEF SyncType, Stopped
<1>3. SyncType' /\ TaskType'
  <2>1. SyncType'
    BY <1>a, <1>n, PoolAssumption, SpinAssumption DEF SyncType, Word, W, STOPPING, Labels
  <2>2. TaskType'
    BY <1>z DEF TaskType, history
  <2> QED
    BY <2>1, <2>2
<1>4. MutualExclusion'
  BY <1>a, <1>b, <1>n DEF SyncType, MutualExclusion, HoldsLock
<1>5. IdleCount' /\ WorkFlag' /\ ExitOnlyWhenStopped'
  BY <1>2 DEF IdleCount, WorkFlag, ExitOnlyWhenStopped
<1>6. CountNotStale' /\ SwapInv'
  BY <1>a, <1>d, <1>e, <1>n DEF SyncType, CountNotStale, SwapInv
<1>7. SeenIdle' /\ OutsideInv' /\ StoppedInv'
  BY <1>a, <1>i, <1>m, <1>n, <1>1
     DEF SyncType, SeenIdle, OutsideInv, StoppedInv, Stopped, IsIdle, Workers
<1>8. RoleInv' /\ LoadInv'
  BY <1>a, <1>k, <1>l, <1>m, <1>n
     DEF SyncType, RoleInv, LoadInv, IsIdle, InUnlock, InLock, Workers
<1> QED
  BY <1>3, <1>4, <1>5, <1>6, <1>7, <1>8 DEF IInv, TypeOK

\* Every step of the pool preserves the invariant: one case per action.
LEMMA Step == IInv /\ [Next]_vars => IInv'
<1> SUFFICES ASSUME IInv, [Next]_vars
             PROVE  IInv'
  OBVIOUS
<1>a. SyncType BY DEF IInv, TypeOK
<1>z. TaskType BY DEF IInv, TypeOK
<1>b. MutualExclusion BY DEF IInv
<1>c. IdleCount BY DEF IInv
<1>d. CountNotStale BY DEF IInv
<1>e. SwapInv BY DEF IInv
<1>f. WorkFlag BY DEF IInv
<1>g. SeenIdle BY DEF IInv
<1>h. OutsideInv BY DEF IInv
<1>i. StoppedInv BY DEF IInv
<1>j. ExitOnlyWhenStopped BY DEF IInv
<1>k. RoleInv BY DEF IInv
<1>l. LoadInv BY DEF IInv
<1>m. Main \in Threads BY PoolAssumption DEF Threads, Main
<1>1. ASSUME NEW t \in Threads, LockSpin(t)
      PROVE  IInv'
  <2>0. /\ pc[Main] \notin {"out", "stop_wake", "stopped"}
        /\ word.idle <= N - 1
        /\ word # AllIdle
    BY <1>1, Busy DEF LockSpin, At, IsIdle
  <2>1. SyncType'
    <3>1. word' \in Word /\ sleep' \in [Threads -> SUBSET Masks]
      BY <1>1, <1>a DEF SyncType, Word, LockSpin, locals
    <3>2. pc' \in [Threads -> Labels]
      BY <1>1, <1>a DEF SyncType, Labels, LockSpin, Locked, Return, Goto
    <3>3. v' \in [Threads -> Word]
      BY <1>1, <1>a, StoppingType DEF SyncType, LockSpin, locals, Return
    <3>4. spin' \in [Threads -> 0 .. MaxSpin]
      BY <1>1, <1>a, SpinAssumption DEF SyncType, LockSpin, locals, Return
    <3> QED
      BY <3>1, <3>2, <3>3, <3>4 DEF SyncType
  <2>1a. TaskType'
    BY <1>1, <1>z DEF TaskType, LockSpin, Locked, locals, history, Return,
       Goto, At
  <2>2. MutualExclusion'
    BY <1>1, <1>a, <1>b DEF SyncType, Word, W, MutualExclusion, HoldsLock,
       Unlocked, LockSpin, Locked, locals, history, Return, Goto, At
  <2>3. IdleCount'
    <3>1. \A u \in Threads : IsIdle(u)' <=> IsIdle(u)
      BY <1>1, <1>a, <1>m DEF SyncType, IsIdle, LockSpin, Locked, locals,
       history, Return, Goto, At
    <3>2. word'.idle = word.idle /\ ~Stopped
      BY <1>1, <1>a, <1>d, <2>0 DEF SyncType, Word, CountNotStale, Stopped,
       LockSpin, Locked, locals, history, Return, Goto, At
    <3> QED
      BY <1>c, <3>1, <3>2, IdleSame DEF IdleCount
  <2>3a. WorkFlag'
    BY <1>1, <1>a, <1>b, <1>e, <1>f, <2>0 DEF SyncType, Word, W, WorkFlag,
       MutualExclusion, SwapInv, HoldsLock, Unlocked, Stopped, LockSpin,
       Locked, locals, history, Return, Goto, At
  <2>4. CountNotStale' /\ SwapInv'
    <3>1. \A u \in Threads : pc'[u] \in {"unlock_swap", "idle", "idle_swap"}
                                => pc[u] = pc'[u] /\ v'[u] = v[u]
      BY <1>1, <1>a DEF SyncType, LockSpin, Locked, locals, Return, Goto, At
    <3>2. tasks' = tasks /\ word'.idle = word.idle
      BY <1>1, <1>a DEF SyncType, Word, LockSpin
    <3> QED
      BY <1>d, <1>e, <3>1, <3>2, SwapFrame
  <2>5. SeenIdle'
    BY <1>1, <1>a, <1>g, <1>m, <2>0 DEF SyncType, SeenIdle, LockSpin,
       Locked, locals, history, Return, Goto, At
  <2>6. OutsideInv' /\ StoppedInv'
    BY <1>1, <1>a, <1>m, <2>0 DEF SyncType, OutsideInv, StoppedInv, Stopped,
       LockSpin, Locked, locals, history, Return, Goto, At
  <2>6a. ExitOnlyWhenStopped'
    BY <1>1, <1>a, <1>j, <1>m, <2>0 DEF SyncType, ExitOnlyWhenStopped,
       Stopped, Workers, LockSpin, Locked, locals, history, Return, Goto, At
  <2>7. RoleInv'
    BY <1>1, <1>a, <1>k, <1>l, <1>m DEF SyncType, RoleInv, LoadInv,
       InUnlock, Workers, LockSpin, Locked, locals, history, Return, Goto,
       At
  <2>8. LoadInv'
    BY <1>1, <1>a, <1>l, <1>z DEF SyncType, TaskType, LoadInv, IsIdle,
       InUnlock, InLock, LockSpin, Locked, locals, history, Return, Goto, At
  <2> QED
    BY <2>1, <2>1a, <2>2, <2>3, <2>3a, <2>4, <2>5, <2>6, <2>6a, <2>7, <2>8 DEF IInv, TypeOK
<1>2. ASSUME NEW t \in Threads, LockContend(t)
      PROVE  IInv'
  <2>0. /\ pc[Main] \notin {"out", "stop_wake", "stopped"}
        /\ word.idle <= N - 1
        /\ word # AllIdle
    BY <1>2, Busy DEF LockContend, At, IsIdle
  <2>1. SyncType'
    <3>1. word' \in Word
      BY <1>2, <1>a DEF SyncType, Word, LockContend
    <3> QED
      BY <1>2, <1>a, <3>1, StoppingType, PoolAssumption, SpinAssumption DEF SyncType, Labels,
       LockContend, Locked, history, Return, Goto, At
  <2>1a. TaskType'
    BY <1>2, <1>z DEF TaskType, LockContend, Locked, history, Return, Goto,
       At
  <2>2. MutualExclusion'
    BY <1>2, <1>a, <1>b DEF SyncType, Word, W, MutualExclusion, HoldsLock,
       Unlocked, LockContend, Locked, history, Return, Goto, At
  <2>3. IdleCount'
    <3>1. \A u \in Threads : IsIdle(u)' <=> IsIdle(u)
      BY <1>2, <1>a, <1>m DEF SyncType, IsIdle, LockContend, Locked, history,
       Return, Goto, At
    <3>2. word'.idle = word.idle /\ ~Stopped
      BY <1>2, <1>a, <1>d, <2>0 DEF SyncType, Word, CountNotStale, Stopped,
       LockContend, Locked, history, Return, Goto, At
    <3> QED
      BY <1>c, <3>1, <3>2, IdleSame DEF IdleCount
  <2>3a. WorkFlag'
    BY <1>2, <1>a, <1>b, <1>e, <1>f, <2>0 DEF SyncType, Word, W, WorkFlag,
       MutualExclusion, SwapInv, HoldsLock, Unlocked, Stopped, LockContend,
       Locked, history, Return, Goto, At
  <2>4. CountNotStale' /\ SwapInv'
    <3>1. \A u \in Threads : pc'[u] \in {"unlock_swap", "idle", "idle_swap"}
                                => pc[u] = pc'[u] /\ v'[u] = v[u]
      BY <1>2, <1>a DEF SyncType, LockContend, Locked, Return, Goto, At
    <3>2. tasks' = tasks /\ word'.idle = word.idle
      BY <1>2, <1>a DEF SyncType, Word, LockContend
    <3> QED
      BY <1>d, <1>e, <3>1, <3>2, SwapFrame
  <2>5. SeenIdle'
    BY <1>2, <1>a, <1>g, <1>m, <2>0 DEF SyncType, SeenIdle, LockContend,
       Locked, history, Return, Goto, At
  <2>6. OutsideInv' /\ StoppedInv'
    BY <1>2, <1>a, <1>m, <2>0 DEF SyncType, OutsideInv, StoppedInv, Stopped,
       LockContend, Locked, history, Return, Goto, At
  <2>6a. ExitOnlyWhenStopped'
    BY <1>2, <1>a, <1>j, <1>m, <2>0 DEF SyncType, ExitOnlyWhenStopped,
       Stopped, Workers, LockContend, Locked, history, Return, Goto, At
  <2>7. RoleInv'
    BY <1>2, <1>a, <1>k, <1>l, <1>m DEF SyncType, RoleInv, LoadInv,
       InUnlock, Workers, LockContend, Locked, history, Return, Goto, At
  <2>8. LoadInv'
    BY <1>2, <1>a, <1>l, <1>z DEF SyncType, TaskType, LoadInv, IsIdle,
       InUnlock, InLock, LockContend, Locked, history, Return, Goto, At
  <2> QED
    BY <2>1, <2>1a, <2>2, <2>3, <2>3a, <2>4, <2>5, <2>6, <2>6a, <2>7, <2>8 DEF IInv, TypeOK
<1>3. ASSUME NEW t \in Threads, LockWait(t)
      PROVE  IInv'
  <2>0. /\ pc[Main] \notin {"out", "stop_wake", "stopped"}
        /\ word.idle <= N - 1
        /\ word # AllIdle
    BY <1>3, Busy DEF LockWait, At, IsIdle
  <2>1. SyncType'
    BY <1>3, <1>a, PoolAssumption DEF SyncType, Word, W, STOPPING, Labels,
       Masks, LockWait, FutexWait, history, Goto, At
  <2>1a. TaskType'
    BY <1>3, <1>z DEF TaskType, LockWait, FutexWait, history, Goto, At
  <2>2. /\ word' = word /\ tasks' = tasks
        /\ \A u \in Threads : HoldsLock(u)' <=> HoldsLock(u)
        /\ \A u \in Threads : IsIdle(u)' <=> IsIdle(u)
        /\ Stopped' <=> Stopped
    BY <1>3, <1>a, <1>k, <1>l, <1>m DEF SyncType, HoldsLock, IsIdle,
       Stopped, RoleInv, LoadInv, InUnlock, Workers, LockWait, FutexWait,
       history, Goto, At
  <2>3. MutualExclusion' /\ IdleCount' /\ WorkFlag'
    BY <1>b, <1>c, <1>f, <2>2, QuietStep
  <2>4. CountNotStale' /\ SwapInv'
    BY <1>3, <1>a, <1>d, <1>e DEF SyncType, Word, W, CountNotStale, SwapInv,
       LockWait, FutexWait, history, Goto, At
  <2>5. SeenIdle'
    BY <1>3, <1>a, <1>g, <1>m, <2>0 DEF SyncType, SeenIdle, LockWait,
       FutexWait, history, Goto, At
  <2>6. OutsideInv' /\ StoppedInv'
    BY <1>3, <1>a, <1>m, <2>0 DEF SyncType, OutsideInv, StoppedInv, Stopped,
       LockWait, FutexWait, history, Goto, At
  <2>6a. ExitOnlyWhenStopped'
    BY <1>3, <1>a, <1>j, <1>m, <2>0 DEF SyncType, ExitOnlyWhenStopped,
       Stopped, Workers, LockWait, FutexWait, history, Goto, At
  <2>7. RoleInv'
    BY <1>3, <1>a, <1>k, <1>l, <1>m DEF SyncType, RoleInv, LoadInv,
       InUnlock, Workers, LockWait, FutexWait, history, Goto, At
  <2>8. LoadInv'
    BY <1>3, <1>a, <1>l, <1>z DEF SyncType, TaskType, LoadInv, IsIdle,
       InUnlock, InLock, LockWait, FutexWait, history, Goto, At
  <2> QED
    BY <2>1, <2>1a, <2>3, <2>4, <2>5, <2>6, <2>6a, <2>7, <2>8 DEF IInv, TypeOK
<1>4. ASSUME NEW t \in Threads, Unlock(t)
      PROVE  IInv'
  <2>0. /\ pc[Main] \notin {"out", "stop_wake", "stopped"}
        /\ word.idle <= N - 1
        /\ word # AllIdle
    BY <1>4, Busy DEF Unlock, At, IsIdle
  <2>1. SyncType'
    BY <1>4, <1>a, PoolAssumption DEF SyncType, Word, W, STOPPING, Labels,
       Unlock, history, Goto, At
  <2>1a. TaskType'
    BY <1>4, <1>z DEF TaskType, Unlock, history, Goto, At
  <2>2. /\ word' = word /\ tasks' = tasks
        /\ \A u \in Threads : HoldsLock(u)' <=> HoldsLock(u)
        /\ \A u \in Threads : IsIdle(u)' <=> IsIdle(u)
        /\ Stopped' <=> Stopped
    BY <1>4, <1>a, <1>k, <1>l, <1>m DEF SyncType, HoldsLock, IsIdle,
       Stopped, RoleInv, LoadInv, InUnlock, Workers, Unlock, history, Goto,
       At
  <2>3. MutualExclusion' /\ IdleCount' /\ WorkFlag'
    BY <1>b, <1>c, <1>f, <2>2, QuietStep
  <2>4. CountNotStale' /\ SwapInv'
    BY <1>4, <1>a, <1>d, <1>e DEF SyncType, Word, W, CountNotStale, SwapInv,
       Unlock, history, Goto, At
  <2>5. SeenIdle'
    BY <1>4, <1>a, <1>g, <1>m, <2>0 DEF SyncType, SeenIdle, Unlock, history,
       Goto, At
  <2>6. OutsideInv' /\ StoppedInv'
    BY <1>4, <1>a, <1>m, <2>0 DEF SyncType, OutsideInv, StoppedInv, Stopped,
       Unlock, history, Goto, At
  <2>6a. ExitOnlyWhenStopped'
    BY <1>4, <1>a, <1>j, <1>m, <2>0 DEF SyncType, ExitOnlyWhenStopped,
       Stopped, Workers, Unlock, history, Goto, At
  <2>7. RoleInv'
    BY <1>4, <1>a, <1>k, <1>l, <1>m DEF SyncType, RoleInv, LoadInv,
       InUnlock, Workers, Unlock, history, Goto, At
  <2>8. LoadInv'
    BY <1>4, <1>a, <1>l, <1>z DEF SyncType, TaskType, LoadInv, IsIdle,
       InUnlock, InLock, Unlock, history, Goto, At
  <2> QED
    BY <2>1, <2>1a, <2>3, <2>4, <2>5, <2>6, <2>6a, <2>7, <2>8 DEF IInv, TypeOK
<1>5. ASSUME NEW t \in Threads, UnlockSwap(t)
      PROVE  IInv'
  <2>0. /\ pc[Main] \notin {"out", "stop_wake", "stopped"}
        /\ word.idle <= N - 1
        /\ word # AllIdle
    BY <1>5, Busy DEF UnlockSwap, At, IsIdle
  <2>1. SyncType'
    <3>1. word' \in Word
      BY <1>5, <1>a DEF SyncType, Word, UnlockSwap
    <3> QED
      BY <1>5, <1>a, <3>1, StoppingType, PoolAssumption, SpinAssumption DEF SyncType, Labels,
       UnlockSwap, Released, locals, history, Return, Goto, At
  <2>1a. TaskType'
    BY <1>5, <1>z DEF TaskType, UnlockSwap, WantsWorker, Released, locals,
       history, Return, Goto, At
  <2>2. MutualExclusion'
    <3>1. v[t].st \in Unlocked
      BY <1>5, <1>e DEF UnlockSwap, At, SwapInv, Unlocked
    <3> QED
      BY <1>5, <1>a, <1>b, <3>1 DEF SyncType, MutualExclusion, HoldsLock,
       UnlockSwap, Released, locals, history, Return, Goto, At
  <2>3. IdleCount'
    <3>1. \A u \in Threads : IsIdle(u)' <=> IsIdle(u)
      BY <1>5, <1>a, <1>m DEF SyncType, IsIdle, UnlockSwap, WantsWorker,
       Released, locals, history, Return, Goto, At
    <3>2. word'.idle = word.idle /\ ~Stopped
      BY <1>5, <1>a, <1>d, <2>0 DEF SyncType, Word, CountNotStale, Stopped,
       UnlockSwap, WantsWorker, Released, locals, history, Return, Goto, At
    <3> QED
      BY <1>c, <3>1, <3>2, IdleSame DEF IdleCount
  <2>3a. WorkFlag'
    BY <1>5, <1>a, <1>b, <1>e, <1>f, <2>0 DEF SyncType, Word, W, WorkFlag,
       MutualExclusion, SwapInv, HoldsLock, Unlocked, Stopped, UnlockSwap,
       WantsWorker, Released, locals, history, Return, Goto, At
  <2>4. CountNotStale' /\ SwapInv'
    <3>1. /\ pc'[t] \notin {"unlock_swap", "idle_swap", "idle"}
          /\ \A u \in Threads : u # t => pc'[u] = pc[u] /\ v'[u] = v[u]
      BY <1>5, <1>a DEF SyncType, UnlockSwap, Released, locals, history, Return, Goto, At
    <3>2. \A u \in Threads : u # t => pc[u] \notin {"unlock_swap", "idle_swap", "idle"}
      BY <1>5, <1>b DEF MutualExclusion, HoldsLock, UnlockSwap, At
    <3> QED
      BY <3>1, <3>2 DEF CountNotStale, SwapInv
  <2>5. SeenIdle'
    BY <1>5, <1>a, <1>g, <1>m, <2>0 DEF SyncType, SeenIdle, UnlockSwap,
       WantsWorker, Released, locals, history, Return, Goto, At
  <2>6. OutsideInv' /\ StoppedInv'
    BY <1>5, <1>a, <1>m, <2>0 DEF SyncType, OutsideInv, StoppedInv, Stopped,
       UnlockSwap, WantsWorker, Released, locals, history, Return, Goto, At
  <2>6a. ExitOnlyWhenStopped'
    BY <1>5, <1>a, <1>j, <1>m, <2>0 DEF SyncType, ExitOnlyWhenStopped,
       Stopped, Workers, UnlockSwap, WantsWorker, Released, locals, history,
       Return, Goto, At
  <2>7. RoleInv'
    BY <1>5, <1>a, <1>k, <1>l, <1>m DEF SyncType, RoleInv, LoadInv,
       InUnlock, Workers, UnlockSwap, WantsWorker, Released, locals,
       history, Return, Goto, At
  <2>8. LoadInv'
    BY <1>5, <1>a, <1>l, <1>z DEF SyncType, TaskType, LoadInv, IsIdle,
       InUnlock, InLock, UnlockSwap, WantsWorker, Released, locals, history,
       Return, Goto, At
  <2> QED
    BY <2>1, <2>1a, <2>2, <2>3, <2>3a, <2>4, <2>5, <2>6, <2>6a, <2>7, <2>8 DEF IInv, TypeOK
<1>6. ASSUME NEW t \in Threads, UnlockWakeLock(t)
      PROVE  IInv'
  <2>0. /\ pc[Main] \notin {"out", "stop_wake", "stopped"}
        /\ word.idle <= N - 1
        /\ word # AllIdle
    BY <1>6, Busy DEF UnlockWakeLock, At, IsIdle
  <2>1. SyncType'
    <3>1. sleep' \in [Threads -> SUBSET Masks]
      BY <1>6, <1>a DEF SyncType, UnlockWakeLock, FutexWakeOne
    <3> QED
      BY <1>6, <1>a, <3>1, StoppingType, PoolAssumption, SpinAssumption DEF SyncType, Labels,
       UnlockWakeLock, Released, locals, history, Return, Goto, At
  <2>1a. TaskType'
    BY <1>6, <1>z DEF TaskType, UnlockWakeLock, FutexWakeOne, WantsWorker,
       Released, locals, history, Return, Goto, At
  <2>2. /\ word' = word /\ tasks' = tasks
        /\ \A u \in Threads : HoldsLock(u)' <=> HoldsLock(u)
        /\ \A u \in Threads : IsIdle(u)' <=> IsIdle(u)
        /\ Stopped' <=> Stopped
    BY <1>6, <1>a, <1>k, <1>l, <1>m DEF SyncType, HoldsLock, IsIdle,
       Stopped, RoleInv, LoadInv, InUnlock, Workers, UnlockWakeLock,
       FutexWakeOne, WantsWorker, Released, locals, history, Return, Goto,
       At
  <2>3. MutualExclusion' /\ IdleCount' /\ WorkFlag'
    BY <1>b, <1>c, <1>f, <2>2, QuietStep
  <2>4. CountNotStale' /\ SwapInv'
    <3>1. \A u \in Threads : pc'[u] \in {"unlock_swap", "idle", "idle_swap"}
                                => pc[u] = pc'[u] /\ v'[u] = v[u]
      BY <1>6, <1>a DEF SyncType, UnlockWakeLock, Released, locals, Return,
       Goto, At
    <3>2. tasks' = tasks /\ word'.idle = word.idle
      BY <1>6, <1>a DEF SyncType, Word, UnlockWakeLock
    <3> QED
      BY <1>d, <1>e, <3>1, <3>2, SwapFrame
  <2>5. SeenIdle'
    BY <1>6, <1>a, <1>g, <1>m, <2>0 DEF SyncType, SeenIdle, UnlockWakeLock,
       FutexWakeOne, WantsWorker, Released, locals, history, Return, Goto,
       At
  <2>6. OutsideInv' /\ StoppedInv'
    BY <1>6, <1>a, <1>m, <2>0 DEF SyncType, OutsideInv, StoppedInv, Stopped,
       UnlockWakeLock, FutexWakeOne, WantsWorker, Released, locals, history,
       Return, Goto, At
  <2>6a. ExitOnlyWhenStopped'
    BY <1>6, <1>a, <1>j, <1>m, <2>0 DEF SyncType, ExitOnlyWhenStopped,
       Stopped, Workers, UnlockWakeLock, FutexWakeOne, WantsWorker,
       Released, locals, history, Return, Goto, At
  <2>7. RoleInv'
    BY <1>6, <1>a, <1>k, <1>l, <1>m DEF SyncType, RoleInv, LoadInv,
       InUnlock, Workers, UnlockWakeLock, FutexWakeOne, WantsWorker,
       Released, locals, history, Return, Goto, At
  <2>8. LoadInv'
    BY <1>6, <1>a, <1>l, <1>z DEF SyncType, TaskType, LoadInv, IsIdle,
       InUnlock, InLock, UnlockWakeLock, FutexWakeOne, WantsWorker,
       Released, locals, history, Return, Goto, At
  <2> QED
    BY <2>1, <2>1a, <2>3, <2>4, <2>5, <2>6, <2>6a, <2>7, <2>8 DEF IInv, TypeOK
<1>7. ASSUME NEW t \in Threads, UnlockWakeWork(t)
      PROVE  IInv'
  <2>0. /\ pc[Main] \notin {"out", "stop_wake", "stopped"}
        /\ word.idle <= N - 1
        /\ word # AllIdle
    BY <1>7, Busy DEF UnlockWakeWork, At, IsIdle
  <2>1. SyncType'
    BY <1>7, <1>a, PoolAssumption, SpinAssumption DEF SyncType, Word, W, STOPPING, Labels,
       UnlockWakeWork, FutexWakeOne, Released, history, Return, Goto, At
  <2>1a. TaskType'
    BY <1>7, <1>z DEF TaskType, UnlockWakeWork, FutexWakeOne, Released,
       history, Return, Goto, At
  <2>2. /\ word' = word /\ tasks' = tasks
        /\ \A u \in Threads : HoldsLock(u)' <=> HoldsLock(u)
        /\ \A u \in Threads : IsIdle(u)' <=> IsIdle(u)
        /\ Stopped' <=> Stopped
    BY <1>7, <1>a, <1>k, <1>l, <1>m DEF SyncType, HoldsLock, IsIdle,
       Stopped, RoleInv, LoadInv, InUnlock, Workers, UnlockWakeWork,
       FutexWakeOne, Released, history, Return, Goto, At
  <2>3. MutualExclusion' /\ IdleCount' /\ WorkFlag'
    BY <1>b, <1>c, <1>f, <2>2, QuietStep
  <2>4. CountNotStale' /\ SwapInv'
    BY <1>7, <1>a, <1>d, <1>e DEF SyncType, Word, W, CountNotStale, SwapInv,
       UnlockWakeWork, FutexWakeOne, Released, history, Return, Goto, At
  <2>5. SeenIdle'
    BY <1>7, <1>a, <1>g, <1>m, <2>0 DEF SyncType, SeenIdle, UnlockWakeWork,
       FutexWakeOne, Released, history, Return, Goto, At
  <2>6. OutsideInv' /\ StoppedInv'
    BY <1>7, <1>a, <1>m, <2>0 DEF SyncType, OutsideInv, StoppedInv, Stopped,
       UnlockWakeWork, FutexWakeOne, Released, history, Return, Goto, At
  <2>6a. ExitOnlyWhenStopped'
    BY <1>7, <1>a, <1>j, <1>m, <2>0 DEF SyncType, ExitOnlyWhenStopped,
       Stopped, Workers, UnlockWakeWork, FutexWakeOne, Released, history,
       Return, Goto, At
  <2>7. RoleInv'
    BY <1>7, <1>a, <1>k, <1>l, <1>m DEF SyncType, RoleInv, LoadInv,
       InUnlock, Workers, UnlockWakeWork, FutexWakeOne, Released, history,
       Return, Goto, At
  <2>8. LoadInv'
    BY <1>7, <1>a, <1>l, <1>z DEF SyncType, TaskType, LoadInv, IsIdle,
       InUnlock, InLock, UnlockWakeWork, FutexWakeOne, Released, history,
       Return, Goto, At
  <2> QED
    BY <2>1, <2>1a, <2>3, <2>4, <2>5, <2>6, <2>6a, <2>7, <2>8 DEF IInv, TypeOK
<1>8. ASSUME NEW t \in Threads, RunSimple(t)
      PROVE  IInv'
  <2>0. /\ pc[Main] \notin {"out", "stop_wake", "stopped"}
        /\ word.idle <= N - 1
        /\ word # AllIdle
    BY <1>8, Busy DEF RunSimple, TakeSimple, At, IsIdle
  <2>1. SyncType'
    BY <1>8, <1>a, PoolAssumption DEF SyncType, Word, W, STOPPING, Labels,
       RunSimple, TakeSimple, Top, Pop, locals, history, Goto, At
  <2>1a. TaskType'
    BY <1>8, <1>z, PopType DEF TaskType, RunSimple, TakeSimple, locals, history, Goto,
       At
  <2>2. MutualExclusion'
    BY <1>8, <1>a, <1>b DEF SyncType, Word, W, MutualExclusion, HoldsLock,
       Unlocked, RunSimple, TakeSimple, Top, Pop, locals, history, Goto, At
  <2>3. IdleCount'
    <3>1. \A u \in Threads : IsIdle(u)' <=> IsIdle(u)
      BY <1>8, <1>a, <1>m DEF SyncType, IsIdle, RunSimple, TakeSimple, Top, Pop, locals,
       history, Goto, At
    <3>2. word'.idle = word.idle /\ ~Stopped
      BY <1>8, <1>a, <1>d, <2>0 DEF SyncType, Word, CountNotStale, Stopped,
       RunSimple, TakeSimple, Top, Pop, locals, history, Goto, At
    <3> QED
      BY <1>c, <3>1, <3>2, IdleSame DEF IdleCount
  <2>3a. WorkFlag'
    BY <1>8, <1>a, <1>b, <1>e, <1>f, <2>0 DEF SyncType, Word, W, WorkFlag,
       MutualExclusion, SwapInv, HoldsLock, Unlocked, Stopped, RunSimple, TakeSimple,
       Top, Pop, locals, history, Goto, At
  <2>4. CountNotStale' /\ SwapInv'
    BY <1>8, <1>a, <1>b, <1>d, <1>e DEF SyncType, Word, W, MutualExclusion,
       HoldsLock, CountNotStale, SwapInv, RunSimple, TakeSimple, Top, Pop, locals,
       history, Goto, At
  <2>5. SeenIdle'
    BY <1>8, <1>a, <1>g, <1>m, <2>0 DEF SyncType, SeenIdle, RunSimple, TakeSimple, Top,
       Pop, locals, history, Goto, At
  <2>6. OutsideInv' /\ StoppedInv'
    BY <1>8, <1>a, <1>m, <2>0 DEF SyncType, OutsideInv, StoppedInv, Stopped,
       RunSimple, TakeSimple, Top, Pop, locals, history, Goto, At
  <2>6a. ExitOnlyWhenStopped'
    BY <1>8, <1>a, <1>j, <1>m, <2>0 DEF SyncType, ExitOnlyWhenStopped,
       Stopped, Workers, RunSimple, TakeSimple, Top, Pop, locals, history, Goto, At
  <2>7. RoleInv'
    BY <1>8, <1>a, <1>k, <1>l, <1>m DEF SyncType, RoleInv, LoadInv,
       InUnlock, Workers, RunSimple, TakeSimple, Top, Pop, locals, history, Goto, At
  <2>8. LoadInv'
    BY <1>8, <1>a, <1>l, <1>z, PopType, PoolAssumption DEF SyncType,
       TaskType, LoadInv, IsIdle, InUnlock, InLock, RunSimple, TakeSimple, locals,
       history, Goto, At
  <2> QED
    BY <2>1, <2>1a, <2>2, <2>3, <2>3a, <2>4, <2>5, <2>6, <2>6a, <2>7, <2>8 DEF IInv, TypeOK
<1>9. ASSUME NEW t \in Threads, RunMulti(t)
      PROVE  IInv'
  <2>0. /\ pc[Main] \notin {"out", "stop_wake", "stopped"}
        /\ word.idle <= N - 1
        /\ word # AllIdle
    BY <1>9, Busy DEF RunMulti, TakeElement, At, IsIdle
  <2>1. SyncType'
    BY <1>9, <1>a, PoolAssumption DEF SyncType, Word, W, STOPPING, Labels,
       RunMulti, TakeElement, Top, Pop, locals, history, Goto, At
  <2>1a. TaskType'
    BY <1>9, <1>z, TaskTypeStep DEF RunMulti
  <2>2. MutualExclusion'
    BY <1>9, <1>a, <1>b DEF SyncType, Word, W, MutualExclusion, HoldsLock,
       Unlocked, RunMulti, TakeElement, Top, Pop, locals, history, Goto, At
  <2>3. IdleCount'
    <3>1. \A u \in Threads : IsIdle(u)' <=> IsIdle(u)
      BY <1>9, <1>a, <1>m DEF SyncType, IsIdle, RunMulti, TakeElement, Top, Pop, locals,
       history, Goto, At
    <3>2. word'.idle = word.idle /\ ~Stopped
      BY <1>9, <1>a, <1>d, <2>0 DEF SyncType, Word, CountNotStale, Stopped,
       RunMulti, TakeElement, Top, Pop, locals, history, Goto, At
    <3> QED
      BY <1>c, <3>1, <3>2, IdleSame DEF IdleCount
  <2>3a. WorkFlag'
    BY <1>9, <1>a, <1>b, <1>e, <1>f, <2>0 DEF SyncType, Word, W, WorkFlag,
       MutualExclusion, SwapInv, HoldsLock, Unlocked, Stopped, RunMulti, TakeElement,
       Top, Pop, locals, history, Goto, At
  <2>4. CountNotStale' /\ SwapInv'
    BY <1>9, <1>a, <1>b, <1>d, <1>e DEF SyncType, Word, W, MutualExclusion,
       HoldsLock, CountNotStale, SwapInv, RunMulti, TakeElement, Top, Pop, locals,
       history, Goto, At
  <2>5. SeenIdle'
    BY <1>9, <1>a, <1>g, <1>m, <2>0 DEF SyncType, SeenIdle, RunMulti, TakeElement, Top,
       Pop, locals, history, Goto, At
  <2>6. OutsideInv' /\ StoppedInv'
    BY <1>9, <1>a, <1>m, <2>0 DEF SyncType, OutsideInv, StoppedInv, Stopped,
       RunMulti, TakeElement, Top, Pop, locals, history, Goto, At
  <2>6a. ExitOnlyWhenStopped'
    BY <1>9, <1>a, <1>j, <1>m, <2>0 DEF SyncType, ExitOnlyWhenStopped,
       Stopped, Workers, RunMulti, TakeElement, Top, Pop, locals, history, Goto, At
  <2>7. RoleInv'
    BY <1>9, <1>a, <1>k, <1>l, <1>m DEF SyncType, RoleInv, LoadInv,
       InUnlock, Workers, RunMulti, TakeElement, Top, Pop, locals, history, Goto, At
  <2>8. LoadInv'
    BY <1>9, <1>a, <1>l, <1>z, PopType, PoolAssumption DEF SyncType,
       TaskType, LoadInv, IsIdle, InUnlock, InLock, RunMulti, TakeElement, locals,
       history, Goto, At
  <2> QED
    BY <2>1, <2>1a, <2>2, <2>3, <2>3a, <2>4, <2>5, <2>6, <2>6a, <2>7, <2>8 DEF IInv, TypeOK
<1>10. ASSUME NEW t \in Threads, DiscardMulti(t)
      PROVE  IInv'
  <2>0. /\ pc[Main] \notin {"out", "stop_wake", "stopped"}
        /\ word.idle <= N - 1
        /\ word # AllIdle
    BY <1>10, Busy DEF DiscardMulti, Discard, At, IsIdle
  <2>1. SyncType'
    BY <1>10, <1>a, PoolAssumption DEF SyncType, Word, W, STOPPING, Labels,
       DiscardMulti, Discard, Top, Pop, locals, history, At
  <2>1a. TaskType'
    BY <1>10, <1>z, PopType DEF TaskType, DiscardMulti, Discard, locals, history, At
  <2>2. MutualExclusion'
    BY <1>10, <1>a, <1>b DEF SyncType, Word, W, MutualExclusion, HoldsLock,
       Unlocked, DiscardMulti, Discard, Top, Pop, locals, history, At
  <2>3. IdleCount'
    <3>1. \A u \in Threads : IsIdle(u)' <=> IsIdle(u)
      BY <1>10, <1>a, <1>m DEF SyncType, IsIdle, DiscardMulti, Discard, Top, Pop,
       locals, history, At
    <3>2. word'.idle = word.idle /\ ~Stopped
      BY <1>10, <1>a, <1>d, <2>0 DEF SyncType, Word, CountNotStale, Stopped,
       DiscardMulti, Discard, Top, Pop, locals, history, At
    <3> QED
      BY <1>c, <3>1, <3>2, IdleSame DEF IdleCount
  <2>3a. WorkFlag'
    BY <1>10, <1>a, <1>b, <1>e, <1>f, <2>0 DEF SyncType, Word, W, WorkFlag,
       MutualExclusion, SwapInv, HoldsLock, Unlocked, Stopped, DiscardMulti, Discard,
       Top, Pop, locals, history, At
  <2>4. CountNotStale' /\ SwapInv'
    BY <1>10, <1>a, <1>b, <1>d, <1>e DEF SyncType, Word, W, MutualExclusion,
       HoldsLock, CountNotStale, SwapInv, DiscardMulti, Discard, Top, Pop, locals,
       history, At
  <2>5. SeenIdle'
    BY <1>10, <1>a, <1>g, <1>m, <2>0 DEF SyncType, SeenIdle, DiscardMulti, Discard,
       Top, Pop, locals, history, At
  <2>6. OutsideInv' /\ StoppedInv'
    BY <1>10, <1>a, <1>m, <2>0 DEF SyncType, OutsideInv, StoppedInv,
       Stopped, DiscardMulti, Discard, Top, Pop, locals, history, At
  <2>6a. ExitOnlyWhenStopped'
    BY <1>10, <1>a, <1>j, <1>m, <2>0 DEF SyncType, ExitOnlyWhenStopped,
       Stopped, Workers, DiscardMulti, Discard, Top, Pop, locals, history, At
  <2>7. RoleInv'
    BY <1>10, <1>a, <1>k, <1>l, <1>m DEF SyncType, RoleInv, LoadInv,
       InUnlock, Workers, DiscardMulti, Discard, Top, Pop, locals, history, At
  <2>8. LoadInv'
    BY <1>10, <1>a, <1>l, <1>z DEF SyncType, TaskType, LoadInv, IsIdle,
       InUnlock, InLock, DiscardMulti, Discard, Top, Pop, locals, history, At
  <2> QED
    BY <2>1, <2>1a, <2>2, <2>3, <2>3a, <2>4, <2>5, <2>6, <2>6a, <2>7, <2>8 DEF IInv, TypeOK
<1>11. ASSUME NEW t \in Threads, RunNothing(t)
      PROVE  IInv'
  <2>0. /\ pc[Main] \notin {"out", "stop_wake", "stopped"}
        /\ word.idle <= N - 1
        /\ word # AllIdle
    BY <1>11, Busy DEF RunNothing, At, IsIdle
  <2>1. SyncType'
    BY <1>11, <1>a, PoolAssumption DEF SyncType, Word, W, STOPPING, Labels,
       RunNothing, locals, history, Goto, At
  <2>1a. TaskType'
    BY <1>11, <1>z DEF TaskType, RunNothing, locals, history, Goto, At
  <2>2. /\ word' = word /\ tasks' = tasks
        /\ \A u \in Threads : HoldsLock(u)' <=> HoldsLock(u)
        /\ \A u \in Threads : IsIdle(u)' <=> IsIdle(u)
        /\ Stopped' <=> Stopped
    BY <1>11, <1>a, <1>k, <1>l, <1>m DEF SyncType, HoldsLock, IsIdle,
       Stopped, RoleInv, LoadInv, InUnlock, Workers, RunNothing, locals,
       history, Goto, At
  <2>3. MutualExclusion' /\ IdleCount' /\ WorkFlag'
    BY <1>b, <1>c, <1>f, <2>2, QuietStep
  <2>4. CountNotStale' /\ SwapInv'
    BY <1>11, <1>a, <1>d, <1>e DEF SyncType, Word, W, CountNotStale,
       SwapInv, RunNothing, locals, history, Goto, At
  <2>5. SeenIdle'
    BY <1>11, <1>a, <1>g, <1>m, <2>0 DEF SyncType, SeenIdle, RunNothing,
       locals, history, Goto, At
  <2>6. OutsideInv' /\ StoppedInv'
    BY <1>11, <1>a, <1>m, <2>0 DEF SyncType, OutsideInv, StoppedInv,
       Stopped, RunNothing, locals, history, Goto, At
  <2>6a. ExitOnlyWhenStopped'
    BY <1>11, <1>a, <1>j, <1>m, <2>0 DEF SyncType, ExitOnlyWhenStopped,
       Stopped, Workers, RunNothing, locals, history, Goto, At
  <2>7. RoleInv'
    BY <1>11, <1>a, <1>k, <1>l, <1>m DEF SyncType, RoleInv, LoadInv,
       InUnlock, Workers, RunNothing, locals, history, Goto, At
  <2>8. LoadInv'
    BY <1>11, <1>a, <1>l, <1>z DEF SyncType, TaskType, LoadInv, IsIdle,
       InUnlock, InLock, RunNothing, locals, history, Goto, At
  <2> QED
    BY <2>1, <2>1a, <2>3, <2>4, <2>5, <2>6, <2>6a, <2>7, <2>8 DEF IInv, TypeOK
<1>12. ASSUME NEW t \in Threads, Submit(t)
      PROVE  IInv'
  <2>0. /\ pc[Main] \notin {"out", "stop_wake", "stopped"}
        /\ word.idle <= N - 1
        /\ word # AllIdle
    BY <1>12, Busy DEF Submit, NewTask, At, IsIdle
  <2>1. SyncType'
    BY <1>12, <1>a, PoolAssumption DEF SyncType, Word, W, STOPPING, Labels,
       Submit, NewTask, locals, Goto, At
  <2>1a. TaskType'
    BY <1>12, <1>z DEF TaskType, Task, Submit, NewTask, locals, Goto, At
  <2>2. /\ word' = word /\ tasks' = tasks
        /\ \A u \in Threads : HoldsLock(u)' <=> HoldsLock(u)
        /\ \A u \in Threads : IsIdle(u)' <=> IsIdle(u)
        /\ Stopped' <=> Stopped
    BY <1>12, <1>a, <1>k, <1>l, <1>m DEF SyncType, HoldsLock, IsIdle,
       Stopped, RoleInv, LoadInv, InUnlock, Workers, Submit, NewTask, locals, Goto,
       At
  <2>3. MutualExclusion' /\ IdleCount' /\ WorkFlag'
    BY <1>b, <1>c, <1>f, <2>2, QuietStep
  <2>4. CountNotStale' /\ SwapInv'
    BY <1>12, <1>a, <1>d, <1>e DEF SyncType, Word, W, CountNotStale,
       SwapInv, Submit, NewTask, locals, Goto, At
  <2>5. SeenIdle'
    BY <1>12, <1>a, <1>g, <1>m, <2>0 DEF SyncType, SeenIdle, Submit, NewTask, locals,
       Goto, At
  <2>6. OutsideInv' /\ StoppedInv'
    BY <1>12, <1>a, <1>m, <2>0 DEF SyncType, OutsideInv, StoppedInv,
       Stopped, Submit, NewTask, locals, Goto, At
  <2>6a. ExitOnlyWhenStopped'
    BY <1>12, <1>a, <1>j, <1>m, <2>0 DEF SyncType, ExitOnlyWhenStopped,
       Stopped, Workers, Submit, NewTask, locals, Goto, At
  <2>7. RoleInv'
    BY <1>12, <1>a, <1>k, <1>l, <1>m DEF SyncType, RoleInv, LoadInv,
       InUnlock, Workers, Submit, NewTask, locals, Goto, At
  <2>8. LoadInv'
    <3>1. new'[t] # NoTask /\ \A u \in Threads \ {t} : new'[u] = new[u]
      BY <1>12, <1>z DEF TaskType, NoTask, Submit, NewTask
    <3>2. /\ pc[t] \in {"closure", "exec"} /\ pc' = [pc EXCEPT ![t] = "lock"] /\ job' = job
          /\ t # Main => job[t] # NoItem
      BY <1>12, <1>k, <1>l DEF RoleInv, LoadInv, Workers, Submit, NewTask, At, Goto
    <3> QED
      BY <1>a, <1>l, <3>1, <3>2 DEF SyncType, LoadInv, IsIdle, InUnlock,
       InLock
  <2> QED
    BY <2>1, <2>1a, <2>3, <2>4, <2>5, <2>6, <2>6a, <2>7, <2>8 DEF IInv, TypeOK
<1>13. ASSUME NEW t \in Threads, Push(t)
      PROVE  IInv'
  <2>0. /\ pc[Main] \notin {"out", "stop_wake", "stopped"}
        /\ word.idle <= N - 1
        /\ word # AllIdle
    BY <1>13, Busy DEF Push, PushTask, At, IsIdle
  <2>1. SyncType'
    BY <1>13, <1>a, PoolAssumption DEF SyncType, Word, W, STOPPING, Labels,
       Push, PushTask, locals, history, Goto, At
  <2>1a. TaskType'
    BY <1>13, <1>l, <1>z, AppendProperties DEF TaskType, LoadInv, NoTask,
       Push, PushTask, locals, history, Goto, At
  <2>2. MutualExclusion'
    BY <1>13, <1>a, <1>b DEF SyncType, Word, W, MutualExclusion, HoldsLock,
       Unlocked, Push, PushTask, locals, history, Goto, At
  <2>3. IdleCount'
    <3>1. \A u \in Threads : IsIdle(u)' <=> IsIdle(u)
      BY <1>13, <1>a, <1>m DEF SyncType, IsIdle, Push, PushTask, locals, history, Goto,
       At
    <3>2. word'.idle = word.idle /\ ~Stopped
      BY <1>13, <1>a, <1>d, <2>0 DEF SyncType, Word, CountNotStale, Stopped,
       Push, PushTask, locals, history, Goto, At
    <3> QED
      BY <1>c, <3>1, <3>2, IdleSame DEF IdleCount
  <2>3a. WorkFlag'
    BY <1>13, <1>a, <1>b, <1>e, <1>f, <2>0 DEF SyncType, Word, W, WorkFlag,
       MutualExclusion, SwapInv, HoldsLock, Unlocked, Stopped, Push, PushTask, locals,
       history, Goto, At
  <2>4. CountNotStale' /\ SwapInv'
    BY <1>13, <1>a, <1>b, <1>d, <1>e DEF SyncType, Word, W, MutualExclusion,
       HoldsLock, CountNotStale, SwapInv, Push, PushTask, locals, history, Goto, At
  <2>5. SeenIdle'
    BY <1>13, <1>a, <1>g, <1>m, <2>0 DEF SyncType, SeenIdle, Push, PushTask, locals,
       history, Goto, At
  <2>6. OutsideInv' /\ StoppedInv'
    BY <1>13, <1>a, <1>m, <2>0 DEF SyncType, OutsideInv, StoppedInv,
       Stopped, Push, PushTask, locals, history, Goto, At
  <2>6a. ExitOnlyWhenStopped'
    BY <1>13, <1>a, <1>j, <1>m, <2>0 DEF SyncType, ExitOnlyWhenStopped,
       Stopped, Workers, Push, PushTask, locals, history, Goto, At
  <2>7. RoleInv'
    BY <1>13, <1>a, <1>k, <1>l, <1>m DEF SyncType, RoleInv, LoadInv,
       InUnlock, Workers, Push, PushTask, locals, history, Goto, At
  <2>8. LoadInv'
    BY <1>13, <1>a, <1>l, <1>z DEF SyncType, TaskType, LoadInv, IsIdle,
       InUnlock, InLock, Push, PushTask, locals, history, Goto, At
  <2> QED
    BY <2>1, <2>1a, <2>2, <2>3, <2>3a, <2>4, <2>5, <2>6, <2>6a, <2>7, <2>8 DEF IInv, TypeOK
<1>14. ASSUME NEW t \in Threads, FinishItem(t)
      PROVE  IInv'
  <2>0. /\ pc[Main] \notin {"out", "stop_wake", "stopped"}
        /\ word.idle <= N - 1
        /\ word # AllIdle
    BY <1>14, Busy DEF FinishItem, Finish, At, IsIdle
  <2>1. SyncType'
    BY <1>14, <1>a, PoolAssumption DEF SyncType, Word, W, STOPPING, Labels,
       FinishItem, Finish, locals, Goto, At
  <2>1a. TaskType'
    BY <1>14, <1>l, <1>z DEF TaskType, LoadInv, FinishItem, Finish, locals, Goto, At
  <2>2. /\ word' = word /\ tasks' = tasks
        /\ \A u \in Threads : HoldsLock(u)' <=> HoldsLock(u)
        /\ \A u \in Threads : IsIdle(u)' <=> IsIdle(u)
        /\ Stopped' <=> Stopped
    BY <1>14, <1>a, <1>k, <1>l, <1>m DEF SyncType, HoldsLock, IsIdle,
       Stopped, RoleInv, LoadInv, InUnlock, Workers, FinishItem, Finish, locals,
       Goto, At
  <2>3. MutualExclusion' /\ IdleCount' /\ WorkFlag'
    BY <1>b, <1>c, <1>f, <2>2, QuietStep
  <2>4. CountNotStale' /\ SwapInv'
    BY <1>14, <1>a, <1>d, <1>e DEF SyncType, Word, W, CountNotStale,
       SwapInv, FinishItem, Finish, locals, Goto, At
  <2>5. SeenIdle'
    BY <1>14, <1>a, <1>g, <1>m, <2>0 DEF SyncType, SeenIdle, FinishItem, Finish,
       locals, Goto, At
  <2>6. OutsideInv' /\ StoppedInv'
    BY <1>14, <1>a, <1>m, <2>0 DEF SyncType, OutsideInv, StoppedInv,
       Stopped, FinishItem, Finish, locals, Goto, At
  <2>6a. ExitOnlyWhenStopped'
    BY <1>14, <1>a, <1>j, <1>m, <2>0 DEF SyncType, ExitOnlyWhenStopped,
       Stopped, Workers, FinishItem, Finish, locals, Goto, At
  <2>7. RoleInv'
    BY <1>14, <1>a, <1>k, <1>l, <1>m DEF SyncType, RoleInv, LoadInv,
       InUnlock, Workers, FinishItem, Finish, locals, Goto, At
  <2>8. LoadInv'
    BY <1>14, <1>a, <1>l, <1>z DEF SyncType, TaskType, LoadInv, IsIdle,
       InUnlock, InLock, FinishItem, Finish, locals, Goto, At
  <2> QED
    BY <2>1, <2>1a, <2>3, <2>4, <2>5, <2>6, <2>6a, <2>7, <2>8 DEF IInv, TypeOK
<1>15. ASSUME NEW t \in Threads, UnlockIdle(t)
      PROVE  IInv'
  <2>0. /\ pc[Main] \notin {"out", "stop_wake", "stopped"}
        /\ word.idle <= N - 1
        /\ word # AllIdle
    BY <1>15, Busy DEF UnlockIdle, At, IsIdle
  <2>1. SyncType'
    BY <1>15, <1>a, <2>0, PoolAssumption DEF SyncType, Word, W, STOPPING,
       Labels, UnlockIdle, history, Goto, At
  <2>1a. TaskType'
    BY <1>15, <1>z DEF TaskType, UnlockIdle, history, Goto, At
  <2>2. /\ word' = word /\ tasks' = tasks
        /\ \A u \in Threads : HoldsLock(u)' <=> HoldsLock(u)
        /\ \A u \in Threads : IsIdle(u)' <=> IsIdle(u)
        /\ Stopped' <=> Stopped
    BY <1>15, <1>a, <1>k, <1>l, <1>m DEF SyncType, HoldsLock, IsIdle,
       Stopped, RoleInv, LoadInv, InUnlock, Workers, UnlockIdle, history,
       Goto, At
  <2>3. MutualExclusion' /\ IdleCount' /\ WorkFlag'
    BY <1>b, <1>c, <1>f, <2>2, QuietStep
  <2>4. CountNotStale' /\ SwapInv'
    BY <1>15, <1>a, <1>d, <1>e DEF SyncType, Word, W, CountNotStale,
       SwapInv, UnlockIdle, history, Goto, At
  <2>5. SeenIdle'
    BY <1>15, <1>a, <1>g, <1>m, <2>0 DEF SyncType, SeenIdle, UnlockIdle,
       history, Goto, At
  <2>6. OutsideInv' /\ StoppedInv'
    BY <1>15, <1>a, <1>m, <2>0 DEF SyncType, OutsideInv, StoppedInv,
       Stopped, UnlockIdle, history, Goto, At
  <2>6a. ExitOnlyWhenStopped'
    BY <1>15, <1>a, <1>j, <1>m, <2>0 DEF SyncType, ExitOnlyWhenStopped,
       Stopped, Workers, UnlockIdle, history, Goto, At
  <2>7. RoleInv'
    BY <1>15, <1>a, <1>k, <1>l, <1>m DEF SyncType, RoleInv, LoadInv,
       InUnlock, Workers, UnlockIdle, history, Goto, At
  <2>8. LoadInv'
    BY <1>15, <1>a, <1>l, <1>z DEF SyncType, TaskType, LoadInv, IsIdle,
       InUnlock, InLock, UnlockIdle, history, Goto, At
  <2> QED
    BY <2>1, <2>1a, <2>3, <2>4, <2>5, <2>6, <2>6a, <2>7, <2>8 DEF IInv, TypeOK
<1>16. ASSUME NEW t \in Threads, UnlockIdleSwap(t)
      PROVE  IInv'
  <2>0. /\ pc[Main] \notin {"out", "stop_wake", "stopped"}
        /\ word.idle <= N - 1
        /\ word # AllIdle
    BY <1>16, Busy DEF UnlockIdleSwap, At, IsIdle
  <2>1. SyncType'
    BY <1>16, <1>a, PoolAssumption DEF SyncType, Word, W, STOPPING, Labels,
       UnlockIdleSwap, AfterUnlockIdle, locals, history, Goto, At
  <2>1a. TaskType'
    BY <1>16, <1>z DEF TaskType, UnlockIdleSwap, AfterUnlockIdle, locals,
       history, Goto, At
  <2>2. MutualExclusion'
    BY <1>16, <1>a, <1>b, <1>e DEF SwapInv, SyncType, Word, W,
       MutualExclusion, HoldsLock, Unlocked, UnlockIdleSwap,
       AfterUnlockIdle, locals, history, Goto, At
  <2>3. IdleCount'
    <3>1. ~IsIdle(t) /\ IsIdle(t)' /\ \A u \in Threads \ {t} : IsIdle(u)' <=> IsIdle(u)
      BY <1>16, <1>a DEF SyncType, IsIdle, UnlockIdleSwap, AfterUnlockIdle,
       locals, history, Goto, At
    <3>2. word'.idle = word.idle + 1 /\ ~Stopped
      BY <1>16, <1>a, <1>d, <2>0 DEF SyncType, Word, CountNotStale, Stopped,
       UnlockIdleSwap, AfterUnlockIdle, locals, history, Goto, At
    <3> QED
      BY <1>c, <3>1, <3>2, IdleUp DEF IdleCount
  <2>3a. WorkFlag'
    BY <1>16, <1>a, <1>b, <1>e, <1>f, <2>0 DEF SyncType, Word, W, WorkFlag,
       MutualExclusion, SwapInv, HoldsLock, Unlocked, Stopped,
       UnlockIdleSwap, AfterUnlockIdle, locals, history, Goto, At
  <2>4. CountNotStale' /\ SwapInv'
    BY <1>16, <1>a, <1>b, <1>d, <1>e DEF SyncType, Word, W, MutualExclusion,
       HoldsLock, CountNotStale, SwapInv, UnlockIdleSwap, AfterUnlockIdle,
       locals, history, Goto, At
  <2>5. SeenIdle'
    BY <1>16, <1>a, <1>g, <1>m, <2>0 DEF SyncType, SeenIdle, UnlockIdleSwap,
       AfterUnlockIdle, locals, history, Goto, At
  <2>6. OutsideInv' /\ StoppedInv'
    BY <1>16, <1>a, <1>m, <2>0 DEF SyncType, OutsideInv, StoppedInv,
       Stopped, UnlockIdleSwap, AfterUnlockIdle, locals, history, Goto, At
  <2>6a. ExitOnlyWhenStopped'
    BY <1>16, <1>a, <1>j, <1>m, <2>0 DEF SyncType, ExitOnlyWhenStopped,
       Stopped, Workers, UnlockIdleSwap, AfterUnlockIdle, locals, history,
       Goto, At
  <2>7. RoleInv'
    BY <1>16, <1>a, <1>k, <1>l, <1>m DEF SyncType, RoleInv, LoadInv,
       InUnlock, Workers, UnlockIdleSwap, AfterUnlockIdle, locals, history,
       Goto, At
  <2>8. LoadInv'
    BY <1>16, <1>a, <1>l, <1>z DEF SyncType, TaskType, LoadInv, IsIdle,
       InUnlock, InLock, UnlockIdleSwap, AfterUnlockIdle, locals, history,
       Goto, At
  <2> QED
    BY <2>1, <2>1a, <2>2, <2>3, <2>3a, <2>4, <2>5, <2>6, <2>6a, <2>7, <2>8 DEF IInv, TypeOK
<1>17. ASSUME NEW t \in Threads, UnlockIdleWakeLock(t)
      PROVE  IInv'
  <2>1. SyncType'
    BY <1>17, <1>a, PoolAssumption DEF SyncType, Word, W, STOPPING, Labels,
       UnlockIdleWakeLock, FutexWakeOne, AfterUnlockIdle, locals, history,
       Goto, At
  <2>1a. TaskType'
    BY <1>17, <1>z DEF TaskType, UnlockIdleWakeLock, FutexWakeOne,
       AfterUnlockIdle, locals, history, Goto, At
  <2>2. /\ word' = word /\ tasks' = tasks
        /\ \A u \in Threads : HoldsLock(u)' <=> HoldsLock(u)
        /\ \A u \in Threads : IsIdle(u)' <=> IsIdle(u)
        /\ Stopped' <=> Stopped
    BY <1>17, <1>a, <1>k, <1>l, <1>m DEF SyncType, HoldsLock, IsIdle,
       Stopped, RoleInv, LoadInv, InUnlock, Workers, UnlockIdleWakeLock,
       FutexWakeOne, AfterUnlockIdle, locals, history, Goto, At
  <2>3. MutualExclusion' /\ IdleCount' /\ WorkFlag'
    BY <1>b, <1>c, <1>f, <2>2, QuietStep
  <2>4. CountNotStale' /\ SwapInv'
    BY <1>17, <1>a, <1>d, <1>e DEF SyncType, Word, W, CountNotStale,
       SwapInv, UnlockIdleWakeLock, FutexWakeOne, AfterUnlockIdle, locals,
       history, Goto, At
  <2>5. SeenIdle'
    BY <1>17, <1>a, <1>g, <1>k, <1>m, PoolAssumption DEF RoleInv, SyncType,
       Word, SeenIdle, AllIdle, W, UnlockIdleWakeLock, FutexWakeOne,
       AfterUnlockIdle, locals, history, Goto, At
  <2>6. OutsideInv' /\ StoppedInv'
    BY <1>17, <1>a, <1>h, <1>i, <1>k, <1>m DEF SyncType, OutsideInv,
       StoppedInv, RoleInv, IsIdle, Stopped, Workers, UnlockIdleWakeLock,
       FutexWakeOne, AfterUnlockIdle, locals, history, Goto, At
  <2>6a. ExitOnlyWhenStopped'
    BY <1>17, <1>a, <1>j, <1>m DEF SyncType, ExitOnlyWhenStopped, Stopped,
       Workers, UnlockIdleWakeLock, FutexWakeOne, AfterUnlockIdle, locals,
       history, Goto, At
  <2>7. RoleInv'
    BY <1>17, <1>a, <1>k, <1>l, <1>m DEF SyncType, RoleInv, LoadInv,
       InUnlock, Workers, UnlockIdleWakeLock, FutexWakeOne, AfterUnlockIdle,
       locals, history, Goto, At
  <2>8. LoadInv'
    BY <1>17, <1>a, <1>l, <1>z DEF SyncType, TaskType, LoadInv, IsIdle,
       InUnlock, InLock, UnlockIdleWakeLock, FutexWakeOne, AfterUnlockIdle,
       locals, history, Goto, At
  <2> QED
    BY <2>1, <2>1a, <2>3, <2>4, <2>5, <2>6, <2>6a, <2>7, <2>8 DEF IInv, TypeOK
<1>18. ASSUME NEW t \in Threads, WakeMain(t)
      PROVE  IInv'
  <2>1. SyncType'
    BY <1>18, <1>a, PoolAssumption DEF SyncType, Word, W, STOPPING, Labels,
       WakeMain, FutexWakeOne, locals, history, Goto, At
  <2>1a. TaskType'
    BY <1>18, <1>z DEF TaskType, WakeMain, FutexWakeOne, locals, history,
       Goto, At
  <2>2. /\ word' = word /\ tasks' = tasks
        /\ \A u \in Threads : HoldsLock(u)' <=> HoldsLock(u)
        /\ \A u \in Threads : IsIdle(u)' <=> IsIdle(u)
        /\ Stopped' <=> Stopped
    BY <1>18, <1>a, <1>k, <1>l, <1>m DEF SyncType, HoldsLock, IsIdle,
       Stopped, RoleInv, LoadInv, InUnlock, Workers, WakeMain, FutexWakeOne,
       locals, history, Goto, At
  <2>3. MutualExclusion' /\ IdleCount' /\ WorkFlag'
    BY <1>b, <1>c, <1>f, <2>2, QuietStep
  <2>4. CountNotStale' /\ SwapInv'
    BY <1>18, <1>a, <1>d, <1>e DEF SyncType, Word, W, CountNotStale,
       SwapInv, WakeMain, FutexWakeOne, locals, history, Goto, At
  <2>5. SeenIdle'
    BY <1>18, <1>a, <1>g, <1>k, <1>m, PoolAssumption DEF RoleInv, SyncType,
       Word, SeenIdle, AllIdle, W, WakeMain, FutexWakeOne, locals, history,
       Goto, At
  <2>6. OutsideInv' /\ StoppedInv'
    BY <1>18, <1>a, <1>h, <1>i, <1>k, <1>m DEF SyncType, OutsideInv,
       StoppedInv, RoleInv, IsIdle, Stopped, Workers, WakeMain,
       FutexWakeOne, locals, history, Goto, At
  <2>6a. ExitOnlyWhenStopped'
    BY <1>18, <1>a, <1>j, <1>m DEF SyncType, ExitOnlyWhenStopped, Stopped,
       Workers, WakeMain, FutexWakeOne, locals, history, Goto, At
  <2>7. RoleInv'
    BY <1>18, <1>a, <1>k, <1>l, <1>m DEF SyncType, RoleInv, LoadInv,
       InUnlock, Workers, WakeMain, FutexWakeOne, locals, history, Goto, At
  <2>8. LoadInv'
    BY <1>18, <1>a, <1>l, <1>z DEF SyncType, TaskType, LoadInv, IsIdle,
       InUnlock, InLock, WakeMain, FutexWakeOne, locals, history, Goto, At
  <2> QED
    BY <2>1, <2>1a, <2>3, <2>4, <2>5, <2>6, <2>6a, <2>7, <2>8 DEF IInv, TypeOK
<1>19. ASSUME NEW t \in Threads, Wait(t)
      PROVE  IInv'
  <2>1. SyncType'
    BY <1>19, <1>a, PoolAssumption, SpinAssumption DEF SyncType, Word, W, STOPPING, Labels,
       Masks, Wait, FutexWait, WaitMask, history, Goto, At
  <2>1a. TaskType'
    BY <1>19, <1>z DEF TaskType, Wait, FutexWait, WaitMask, history, Goto,
       At
  <2>2. /\ word' = word /\ tasks' = tasks
        /\ \A u \in Threads : HoldsLock(u)' <=> HoldsLock(u)
        /\ \A u \in Threads : IsIdle(u)' <=> IsIdle(u)
        /\ Stopped' <=> Stopped
    BY <1>19, <1>a, <1>k, <1>l, <1>m DEF SyncType, HoldsLock, IsIdle,
       Stopped, RoleInv, LoadInv, InUnlock, Workers, Wait, FutexWait,
       WaitMask, history, Goto, At
  <2>3. MutualExclusion' /\ IdleCount' /\ WorkFlag'
    BY <1>b, <1>c, <1>f, <2>2, QuietStep
  <2>4. CountNotStale' /\ SwapInv'
    BY <1>19, <1>a, <1>d, <1>e DEF SyncType, Word, W, CountNotStale,
       SwapInv, Wait, FutexWait, WaitMask, history, Goto, At
  <2>5. SeenIdle'
    BY <1>19, <1>a, <1>g, <1>k, <1>m, PoolAssumption DEF RoleInv, SyncType,
       Word, SeenIdle, AllIdle, W, Wait, FutexWait, WaitMask, history, Goto,
       At
  <2>6. OutsideInv' /\ StoppedInv'
    BY <1>19, <1>a, <1>h, <1>i, <1>k, <1>m DEF SyncType, OutsideInv,
       StoppedInv, RoleInv, IsIdle, Stopped, Workers, Wait, FutexWait,
       WaitMask, history, Goto, At
  <2>6a. ExitOnlyWhenStopped'
    BY <1>19, <1>a, <1>j, <1>m DEF SyncType, ExitOnlyWhenStopped, Stopped,
       Workers, Wait, FutexWait, WaitMask, history, Goto, At
  <2>7. RoleInv'
    BY <1>19, <1>a, <1>k, <1>l, <1>m DEF SyncType, RoleInv, LoadInv,
       InUnlock, Workers, Wait, FutexWait, WaitMask, history, Goto, At
  <2>8. LoadInv'
    BY <1>19, <1>a, <1>l, <1>z DEF SyncType, TaskType, LoadInv, IsIdle,
       InUnlock, InLock, Wait, FutexWait, WaitMask, history, Goto, At
  <2> QED
    BY <2>1, <2>1a, <2>3, <2>4, <2>5, <2>6, <2>6a, <2>7, <2>8 DEF IInv, TypeOK
<1>20. ASSUME NEW t \in Threads, Reload(t)
      PROVE  IInv'
  <2>1. CASE TakeWork(t)
    BY <1>20, <2>1, TakeWorkInv DEF Reload, At
  <2>2. CASE /\ t # Main /\ word = STOPPING
             /\ Return(t, "exited")
             /\ UNCHANGED word
    BY <1>20, <2>2, ExitInv DEF Reload, At
  <2>3. CASE /\ ~(t # Main /\ word = STOPPING)
             /\ word.st # "work"
             /\ v' = [v EXCEPT ![t] = word]
             /\ spin' = [spin EXCEPT ![t] = IF word.st = "contended" THEN 0 ELSE @]
             /\ Goto(t, "wait")
             /\ UNCHANGED word
    <3>1. UNCHANGED <<tasks, sleep, new, job, todo, done, scopes>> /\ pc[t] = "reload"
      BY <1>20 DEF Reload, At, history
    <3>2. SyncType'
      BY <1>a, <2>3, <3>1, PoolAssumption, SpinAssumption DEF SyncType, Word, Labels, Goto
    <3>3. TaskType'
      BY <1>z, <3>1 DEF TaskType
    <3>4. /\ \A u \in Threads : HoldsLock(u)' <=> HoldsLock(u)
          /\ \A u \in Threads : IsIdle(u)' <=> IsIdle(u)
          /\ Stopped' <=> Stopped
      BY <1>a, <1>m, <2>3, <3>1 DEF SyncType, HoldsLock, IsIdle, Stopped, Goto
    <3>5. MutualExclusion' /\ IdleCount' /\ WorkFlag'
      BY <1>b, <1>c, <1>f, <2>3, <3>1, <3>4, QuietStep
    <3>6. CountNotStale' /\ SwapInv'
      BY <1>a, <1>d, <1>e, <2>3, <3>1 DEF SyncType, CountNotStale, SwapInv, Goto
    <3>7. SeenIdle'
      BY <1>a, <1>g, <1>m, <2>3, <3>1 DEF SyncType, SeenIdle, Goto
    <3>8. OutsideInv' /\ StoppedInv' /\ ExitOnlyWhenStopped'
      BY <1>a, <1>h, <1>i, <1>j, <1>m, <2>3, <3>1
         DEF SyncType, OutsideInv, StoppedInv, ExitOnlyWhenStopped, Stopped, IsIdle, Workers, Goto
    <3>9. RoleInv' /\ LoadInv'
      BY <1>a, <1>k, <1>l, <1>m, <2>3, <3>1
         DEF SyncType, RoleInv, LoadInv, IsIdle, InUnlock, InLock, Workers, Goto
    <3> QED
      BY <3>2, <3>3, <3>5, <3>6, <3>7, <3>8, <3>9 DEF IInv, TypeOK
  <2> QED
    BY <1>20, <2>1, <2>2, <2>3 DEF Reload
<1>21. ASSUME NEW t \in Threads, t # Main, StartWork(t)
      PROVE  IInv'
  <2>1. CASE TakeWork(t)
    BY <1>21, <2>1, TakeWorkInv DEF StartWork, At
  <2>2. CASE word = STOPPING /\ Return(t, "exited") /\ UNCHANGED word
    BY <1>21, <2>2, ExitInv DEF StartWork, At
  <2>3. CASE /\ v' = [v EXCEPT ![t] = word]
             /\ Goto(t, "start_wait")
             /\ UNCHANGED <<word, spin>>
    <3>1. UNCHANGED <<tasks, sleep, new, job, todo, done, scopes>> /\ pc[t] = "start"
      BY <1>21 DEF StartWork, At, history
    <3>2. SyncType'
      BY <1>a, <2>3, <3>1, PoolAssumption DEF SyncType, Word, Labels, Goto
    <3>3. TaskType'
      BY <1>z, <3>1 DEF TaskType
    <3>4. /\ \A u \in Threads : HoldsLock(u)' <=> HoldsLock(u)
          /\ \A u \in Threads : IsIdle(u)' <=> IsIdle(u)
          /\ Stopped' <=> Stopped
      BY <1>a, <1>m, <2>3, <3>1 DEF SyncType, HoldsLock, IsIdle, Stopped, Goto
    <3>5. MutualExclusion' /\ IdleCount' /\ WorkFlag'
      BY <1>b, <1>c, <1>f, <2>3, <3>1, <3>4, QuietStep
    <3>6. CountNotStale' /\ SwapInv'
      BY <1>a, <1>d, <1>e, <2>3, <3>1 DEF SyncType, CountNotStale, SwapInv, Goto
    <3>7. SeenIdle'
      BY <1>a, <1>g, <1>m, <1>21, <2>3, <3>1 DEF SyncType, SeenIdle, Goto
    <3>8. OutsideInv' /\ StoppedInv' /\ ExitOnlyWhenStopped'
      BY <1>a, <1>h, <1>i, <1>j, <1>m, <2>3, <3>1
         DEF SyncType, OutsideInv, StoppedInv, ExitOnlyWhenStopped, Stopped, IsIdle, Workers, Goto
    <3>9. RoleInv' /\ LoadInv'
      BY <1>a, <1>k, <1>l, <1>m, <1>21, <2>3, <3>1
         DEF SyncType, RoleInv, LoadInv, IsIdle, InUnlock, InLock, Workers, Goto
    <3> QED
      BY <3>2, <3>3, <3>5, <3>6, <3>7, <3>8, <3>9 DEF IInv, TypeOK
  <2> QED
    BY <1>21, <2>1, <2>2, <2>3 DEF StartWork
<1>22. ASSUME NEW t \in Threads, t # Main, StartWait(t)
      PROVE  IInv'
  <2>1. SyncType'
    BY <1>22, <1>a, PoolAssumption, SpinAssumption DEF SyncType, Word, W, STOPPING, Labels,
       Masks, StartWait, FutexWait, history, Return, Goto, At
  <2>1a. TaskType'
    BY <1>22, <1>z DEF TaskType, StartWait, FutexWait, history, Return,
       Goto, At
  <2>2. /\ word' = word /\ tasks' = tasks
        /\ \A u \in Threads : HoldsLock(u)' <=> HoldsLock(u)
        /\ \A u \in Threads : IsIdle(u)' <=> IsIdle(u)
        /\ Stopped' <=> Stopped
    BY <1>22, <1>a, <1>k, <1>l, <1>m DEF SyncType, HoldsLock, IsIdle,
       Stopped, RoleInv, LoadInv, InUnlock, Workers, StartWait, FutexWait,
       history, Return, Goto, At
  <2>3. MutualExclusion' /\ IdleCount' /\ WorkFlag'
    BY <1>b, <1>c, <1>f, <2>2, QuietStep
  <2>4. CountNotStale' /\ SwapInv'
    BY <1>22, <1>a, <1>d, <1>e DEF SyncType, Word, W, CountNotStale,
       SwapInv, StartWait, FutexWait, history, Return, Goto, At
  <2>5. SeenIdle'
    BY <1>22, <1>a, <1>g, <1>k, <1>m, PoolAssumption DEF RoleInv, SyncType,
       Word, SeenIdle, AllIdle, W, StartWait, FutexWait, history, Return,
       Goto, At
  <2>6. OutsideInv' /\ StoppedInv'
    BY <1>22, <1>a, <1>h, <1>i, <1>k, <1>m DEF SyncType, OutsideInv,
       StoppedInv, RoleInv, IsIdle, Stopped, Workers, StartWait, FutexWait,
       history, Return, Goto, At
  <2>6a. ExitOnlyWhenStopped'
    BY <1>22, <1>a, <1>j, <1>m DEF SyncType, ExitOnlyWhenStopped, Stopped,
       Workers, StartWait, FutexWait, history, Return, Goto, At
  <2>7. RoleInv'
    BY <1>22, <1>a, <1>k, <1>l, <1>m DEF SyncType, RoleInv, LoadInv,
       InUnlock, Workers, StartWait, FutexWait, history, Return, Goto, At
  <2>8. LoadInv'
    BY <1>22, <1>a, <1>l, <1>z DEF SyncType, TaskType, LoadInv, IsIdle,
       InUnlock, InLock, StartWait, FutexWait, history, Return, Goto, At
  <2> QED
    BY <2>1, <2>1a, <2>3, <2>4, <2>5, <2>6, <2>6a, <2>7, <2>8 DEF IInv, TypeOK
<1>23. ASSUME NEW t \in Threads, FutexInterrupt(t)
      PROVE  IInv'
  <2>1. SyncType'
    BY <1>23, <1>a, PoolAssumption DEF SyncType, Word, W, STOPPING, Labels,
       Masks, FutexInterrupt, locals, history
  <2>1a. TaskType'
    BY <1>23, <1>z DEF TaskType, FutexInterrupt, locals, history
  <2>2. /\ word' = word /\ tasks' = tasks
        /\ \A u \in Threads : HoldsLock(u)' <=> HoldsLock(u)
        /\ \A u \in Threads : IsIdle(u)' <=> IsIdle(u)
        /\ Stopped' <=> Stopped
    BY <1>23, <1>a, <1>k, <1>l, <1>m DEF SyncType, HoldsLock, IsIdle,
       Stopped, RoleInv, LoadInv, InUnlock, Workers, FutexInterrupt, locals,
       history
  <2>3. MutualExclusion' /\ IdleCount' /\ WorkFlag'
    BY <1>b, <1>c, <1>f, <2>2, QuietStep
  <2>4. CountNotStale' /\ SwapInv'
    BY <1>23, <1>a, <1>d, <1>e DEF SyncType, Word, W, CountNotStale,
       SwapInv, FutexInterrupt, locals, history
  <2>5. SeenIdle'
    BY <1>23, <1>a, <1>g, <1>k, <1>m, PoolAssumption DEF RoleInv, SyncType,
       Word, SeenIdle, AllIdle, W, FutexInterrupt, locals, history
  <2>6. OutsideInv' /\ StoppedInv'
    BY <1>23, <1>a, <1>h, <1>i, <1>k, <1>m DEF SyncType, OutsideInv,
       StoppedInv, RoleInv, IsIdle, Stopped, Workers, FutexInterrupt,
       locals, history
  <2>6a. ExitOnlyWhenStopped'
    BY <1>23, <1>a, <1>j, <1>m DEF SyncType, ExitOnlyWhenStopped, Stopped,
       Workers, FutexInterrupt, locals, history
  <2>7. RoleInv'
    BY <1>23, <1>a, <1>k, <1>l, <1>m DEF SyncType, RoleInv, LoadInv,
       InUnlock, Workers, FutexInterrupt, locals, history
  <2>8. LoadInv'
    BY <1>23, <1>a, <1>l, <1>z DEF SyncType, TaskType, LoadInv, IsIdle,
       InUnlock, InLock, FutexInterrupt, locals, history
  <2> QED
    BY <2>1, <2>1a, <2>3, <2>4, <2>5, <2>6, <2>6a, <2>7, <2>8 DEF IInv, TypeOK
<1>24. ASSUME LeaveMain
      PROVE  IInv'
  <2>1. /\ pc[Main] = "wait" /\ pc' = [pc EXCEPT ![Main] = "out"]
        /\ word = AllIdle /\ word' = W(N - 1, "idle")
        /\ v' = [v EXCEPT ![Main] = STOPPING]
        /\ spin' = [spin EXCEPT ![Main] = MaxSpin]
        /\ UNCHANGED <<tasks, sleep, new, job, todo, done, scopes>>
    BY <1>24, <1>g DEF LeaveMain, SeenIdle, At, Return, Goto, history
  <2>2. ~Stopped /\ Idle = Threads
    BY <1>c, <2>1, IdleBounds DEF IdleCount, Stopped, AllIdle, W
  <2>3. \A t \in Threads : IsIdle(t)
    BY <2>2 DEF Idle
  <2>4. tasks = <<>>
    BY <1>f, <2>1, <2>2 DEF WorkFlag, Unlocked, AllIdle, W
  <2>5. SyncType'
    <3>1. word' \in Word
      BY <2>1, PoolAssumption DEF Word, W
    <3>2. pc' \in [Threads -> Labels]
      BY <1>a, <2>1 DEF SyncType, Labels
    <3>3. v' \in [Threads -> Word]
      BY <1>a, <2>1, StoppingType DEF SyncType
    <3>4. spin' \in [Threads -> 0 .. MaxSpin]
      <4>1. spin \in [Threads -> 0 .. MaxSpin] /\ spin' = [spin EXCEPT ![Main] = MaxSpin]
        BY <1>a, <2>1 DEF SyncType
      <4>2. MaxSpin \in 0 .. MaxSpin
        BY PoolAssumption, SpinAssumption
      <4> QED
        BY <4>1, <4>2
    <3>5. sleep' \in [Threads -> SUBSET Masks]
      BY <1>a, <2>1 DEF SyncType
    <3> QED
      BY <3>1, <3>2, <3>3, <3>4, <3>5 DEF SyncType
  <2>6. TaskType'
    BY <1>z, <2>1 DEF TaskType
  <2>7. MutualExclusion' /\ CountNotStale' /\ SwapInv'
    <3>1. \A t \in Threads : pc'[t] = "out" \/ IsIdle(t)'
      BY <1>a, <2>1, <2>3 DEF SyncType, IsIdle
    <3> QED
      BY <2>1, <3>1 DEF MutualExclusion, CountNotStale, SwapInv, HoldsLock, IsIdle, Unlocked, W
  <2>8. IdleCount'
    <3>1. IsIdle(Main) /\ ~IsIdle(Main)' /\ \A u \in Threads \ {Main} : IsIdle(u)' <=> IsIdle(u)
      BY <1>a, <1>m, <2>1 DEF SyncType, IsIdle
    <3>2. Cardinality(Idle)' = N - 1
      BY <1>c, <1>m, <2>1, <2>2, <3>1, IdleDown DEF IdleCount, AllIdle, W
    <3> QED
      BY <2>1, <3>2 DEF IdleCount, W
  <2>9. WorkFlag' /\ SeenIdle'
    BY <1>a, <1>m, <2>1, <2>4 DEF SyncType, WorkFlag, SeenIdle, Unlocked, W
  <2>10. OutsideInv' /\ StoppedInv'
    BY <1>a, <1>m, <2>1, <2>3, <2>4
       DEF SyncType, OutsideInv, StoppedInv, Stopped, IsIdle, Workers, Main
  <2>11. ExitOnlyWhenStopped' /\ RoleInv' /\ LoadInv'
    BY <1>a, <1>j, <1>k, <1>l, <1>m, <2>1, <2>2
       DEF SyncType, ExitOnlyWhenStopped, Stopped, RoleInv, LoadInv, IsIdle, InUnlock, InLock, Workers
  <2> QED
    BY <2>5, <2>6, <2>7, <2>8, <2>9, <2>10, <2>11 DEF IInv, TypeOK
<1>25. ASSUME BeginScope
      PROVE  IInv'
  <2>1. SyncType'
    BY <1>25, <1>a, PoolAssumption DEF SyncType, Word, W, STOPPING, Labels,
       BeginScope, OpenScope, locals, Goto, At
  <2>1a. TaskType'
    BY <1>25, <1>z, PoolAssumption DEF TaskType, BeginScope, OpenScope, locals, Goto,
       At
  <2>2. /\ word' = word /\ tasks' = tasks
        /\ \A u \in Threads : HoldsLock(u)' <=> HoldsLock(u)
        /\ \A u \in Threads : IsIdle(u)' <=> IsIdle(u)
        /\ Stopped' <=> Stopped
    BY <1>25, <1>a, <1>k, <1>l, <1>m DEF SyncType, HoldsLock, IsIdle,
       Stopped, RoleInv, LoadInv, InUnlock, Workers, BeginScope, OpenScope, locals,
       Goto, At
  <2>3. MutualExclusion' /\ IdleCount' /\ WorkFlag'
    BY <1>b, <1>c, <1>f, <2>2, QuietStep
  <2>4. CountNotStale' /\ SwapInv'
    BY <1>25, <1>a, <1>d, <1>e DEF SyncType, Word, W, CountNotStale,
       SwapInv, BeginScope, OpenScope, locals, Goto, At
  <2>5. SeenIdle'
    BY <1>25, <1>a, <1>g, <1>k, <1>m, PoolAssumption DEF RoleInv, SyncType,
       Word, SeenIdle, AllIdle, W, BeginScope, OpenScope, locals, Goto, At
  <2>6. OutsideInv' /\ StoppedInv'
    BY <1>25, <1>a, <1>h, <1>i, <1>k, <1>m DEF SyncType, OutsideInv,
       StoppedInv, RoleInv, IsIdle, Stopped, Workers, BeginScope, OpenScope, locals,
       Goto, At
  <2>6a. ExitOnlyWhenStopped'
    BY <1>25, <1>a, <1>j, <1>m DEF SyncType, ExitOnlyWhenStopped, Stopped,
       Workers, BeginScope, OpenScope, locals, Goto, At
  <2>7. RoleInv'
    BY <1>25, <1>a, <1>k, <1>l, <1>m DEF SyncType, RoleInv, LoadInv,
       InUnlock, Workers, BeginScope, OpenScope, locals, Goto, At
  <2>8. LoadInv'
    BY <1>25, <1>a, <1>l, <1>z DEF SyncType, TaskType, LoadInv, IsIdle,
       InUnlock, InLock, BeginScope, OpenScope, locals, Goto, At
  <2> QED
    BY <2>1, <2>1a, <2>3, <2>4, <2>5, <2>6, <2>6a, <2>7, <2>8 DEF IInv, TypeOK
<1>26. ASSUME EnterMain
      PROVE  IInv'
  <2>0. /\ pc[Main] \notin {"out", "stop_wake", "stopped"}
        /\ word.idle <= N - 1
        /\ word # AllIdle
    BY <1>26, <1>m, Busy DEF EnterMain, At, IsIdle
  <2>1. SyncType'
    BY <1>26, <1>a, PoolAssumption DEF SyncType, Word, W, STOPPING, Labels,
       EnterMain, locals, history, Goto, At
  <2>1a. TaskType'
    BY <1>26, <1>z DEF TaskType, EnterMain, locals, history, Goto, At
  <2>2. /\ word' = word /\ tasks' = tasks
        /\ \A u \in Threads : HoldsLock(u)' <=> HoldsLock(u)
        /\ \A u \in Threads : IsIdle(u)' <=> IsIdle(u)
        /\ Stopped' <=> Stopped
    BY <1>26, <1>a, <1>k, <1>l, <1>m DEF SyncType, HoldsLock, IsIdle,
       Stopped, RoleInv, LoadInv, InUnlock, Workers, EnterMain, locals,
       history, Goto, At
  <2>3. MutualExclusion' /\ IdleCount' /\ WorkFlag'
    BY <1>b, <1>c, <1>f, <2>2, QuietStep
  <2>4. CountNotStale' /\ SwapInv'
    BY <1>26, <1>a, <1>d, <1>e DEF SyncType, Word, W, CountNotStale,
       SwapInv, EnterMain, locals, history, Goto, At
  <2>5. SeenIdle'
    BY <1>26, <1>a, <1>g, <1>m, <2>0 DEF SyncType, SeenIdle, EnterMain,
       locals, history, Goto, At
  <2>6. OutsideInv' /\ StoppedInv'
    BY <1>26, <1>a, <1>m, <2>0 DEF SyncType, OutsideInv, StoppedInv,
       Stopped, EnterMain, locals, history, Goto, At
  <2>6a. ExitOnlyWhenStopped'
    BY <1>26, <1>a, <1>j, <1>m, <2>0 DEF SyncType, ExitOnlyWhenStopped,
       Stopped, Workers, EnterMain, locals, history, Goto, At
  <2>7. RoleInv'
    BY <1>26, <1>a, <1>k, <1>l, <1>m DEF SyncType, RoleInv, LoadInv,
       InUnlock, Workers, EnterMain, locals, history, Goto, At
  <2>8. LoadInv'
    BY <1>26, <1>a, <1>l, <1>z DEF SyncType, TaskType, LoadInv, IsIdle,
       InUnlock, InLock, EnterMain, locals, history, Goto, At
  <2> QED
    BY <2>1, <2>1a, <2>3, <2>4, <2>5, <2>6, <2>6a, <2>7, <2>8 DEF IInv, TypeOK
<1>27. ASSUME Stop
      PROVE  IInv'
  <2>1. /\ pc[Main] = "out" /\ pc' = [pc EXCEPT ![Main] = "stop_wake"]
        /\ word' = STOPPING
        /\ UNCHANGED <<tasks, v, spin, sleep, new, job, todo, done, scopes>>
    BY <1>27 DEF Stop, At, Goto, locals, history
  <2>2. tasks = <<>> /\ \A t \in Workers : IsIdle(t)
    BY <1>h, <2>1 DEF OutsideInv
  <2>3. Stopped'
    BY <1>a, <1>m, <2>1 DEF SyncType, Stopped
  <2>4. pc'[Main] = "stop_wake" /\ \A t \in Workers : pc'[t] = pc[t]
    BY <1>a, <1>m, <2>1 DEF SyncType, Workers
  <2>5. SyncType'
    BY <1>a, <2>1, StoppingType DEF SyncType, Labels
  <2>6. TaskType'
    BY <1>z, <2>1 DEF TaskType
  <2>7. MutualExclusion' /\ CountNotStale' /\ SwapInv'
    BY <2>1, <2>2, <2>4
       DEF MutualExclusion, CountNotStale, SwapInv, HoldsLock, IsIdle, Workers, Unlocked, W, STOPPING
  <2>8. IdleCount' /\ WorkFlag' /\ ExitOnlyWhenStopped'
    BY <2>3 DEF IdleCount, WorkFlag, ExitOnlyWhenStopped
  <2>9. SeenIdle' /\ OutsideInv' /\ StoppedInv'
    BY <2>1, <2>2, <2>4 DEF SeenIdle, OutsideInv, StoppedInv, IsIdle
  <2>10. RoleInv' /\ LoadInv'
    BY <1>a, <1>k, <1>l, <1>m, <2>1
       DEF SyncType, RoleInv, LoadInv, IsIdle, InUnlock, InLock, Workers
  <2> QED
    BY <2>5, <2>6, <2>7, <2>8, <2>9, <2>10 DEF IInv, TypeOK
<1>28. ASSUME StopWake
      PROVE  IInv'
  <2>1. SyncType'
    BY <1>28, <1>a, PoolAssumption DEF SyncType, Word, W, STOPPING, Labels,
       StopWake, FutexWakeAll, locals, history, Goto, At
  <2>1a. TaskType'
    BY <1>28, <1>z DEF TaskType, StopWake, FutexWakeAll, locals, history,
       Goto, At
  <2>2. /\ word' = word /\ tasks' = tasks
        /\ \A u \in Threads : HoldsLock(u)' <=> HoldsLock(u)
        /\ \A u \in Threads : IsIdle(u)' <=> IsIdle(u)
        /\ Stopped' <=> Stopped
    BY <1>28, <1>a, <1>k, <1>l, <1>m DEF SyncType, HoldsLock, IsIdle,
       Stopped, RoleInv, LoadInv, InUnlock, Workers, StopWake, FutexWakeAll,
       locals, history, Goto, At
  <2>3. MutualExclusion' /\ IdleCount' /\ WorkFlag'
    BY <1>b, <1>c, <1>f, <2>2, QuietStep
  <2>4. CountNotStale' /\ SwapInv'
    BY <1>28, <1>a, <1>d, <1>e DEF SyncType, Word, W, CountNotStale,
       SwapInv, StopWake, FutexWakeAll, locals, history, Goto, At
  <2>5. SeenIdle'
    BY <1>28, <1>a, <1>g, <1>k, <1>m, PoolAssumption DEF RoleInv, SyncType,
       Word, SeenIdle, AllIdle, W, StopWake, FutexWakeAll, locals, history,
       Goto, At
  <2>6. OutsideInv' /\ StoppedInv'
    BY <1>28, <1>a, <1>h, <1>i, <1>k, <1>m DEF SyncType, OutsideInv,
       StoppedInv, RoleInv, IsIdle, Stopped, Workers, StopWake,
       FutexWakeAll, locals, history, Goto, At
  <2>6a. ExitOnlyWhenStopped'
    BY <1>28, <1>a, <1>j, <1>m DEF SyncType, ExitOnlyWhenStopped, Stopped,
       Workers, StopWake, FutexWakeAll, locals, history, Goto, At
  <2>7. RoleInv'
    BY <1>28, <1>a, <1>k, <1>l, <1>m DEF SyncType, RoleInv, LoadInv,
       InUnlock, Workers, StopWake, FutexWakeAll, locals, history, Goto, At
  <2>8. LoadInv'
    BY <1>28, <1>a, <1>l, <1>z DEF SyncType, TaskType, LoadInv, IsIdle,
       InUnlock, InLock, StopWake, FutexWakeAll, locals, history, Goto, At
  <2> QED
    BY <2>1, <2>1a, <2>3, <2>4, <2>5, <2>6, <2>6a, <2>7, <2>8 DEF IInv, TypeOK
<1>29. CASE UNCHANGED vars
  <2>1. IdleCount'
    BY <1>29, <1>c DEF vars, IdleCount, Idle, IsIdle, Stopped
  <2>2. SyncType' /\ TaskType'
    BY <1>29, <1>a, <1>z DEF vars, SyncType, TaskType
  <2>3. MutualExclusion' /\ CountNotStale' /\ SwapInv' /\ WorkFlag'
    BY <1>29, <1>b, <1>d, <1>e, <1>f
       DEF vars, MutualExclusion, HoldsLock, CountNotStale, SwapInv, WorkFlag, Stopped
  <2>4. SeenIdle' /\ OutsideInv' /\ StoppedInv' /\ ExitOnlyWhenStopped'
    BY <1>29, <1>g, <1>h, <1>i, <1>j
       DEF vars, SeenIdle, OutsideInv, StoppedInv, ExitOnlyWhenStopped, Stopped, IsIdle
  <2>5. RoleInv' /\ LoadInv'
    BY <1>29, <1>k, <1>l DEF vars, RoleInv, LoadInv, IsIdle, InUnlock, InLock
  <2> QED
    BY <2>1, <2>2, <2>3, <2>4, <2>5 DEF IInv, TypeOK
<1> QED
  <2>1. ASSUME NEW t \in Threads, PoolStep(t)
        PROVE  IInv'
    BY <2>1, <1>1, <1>2, <1>3, <1>4, <1>5, <1>6, <1>7, <1>8, <1>9, <1>10, <1>11,
       <1>13, <1>15, <1>16, <1>17, <1>18, <1>19, <1>20, <1>21, <1>22, <1>24, <1>28
       DEF PoolStep
  <2>2. ASSUME NEW t \in Threads, UserStep(t)
        PROVE  IInv'
    BY <2>2, <1>12, <1>14, <1>26 DEF UserStep
  <2> QED
    BY <2>1, <2>2, <1>23, <1>25, <1>27, <1>29 DEF Next, Terminated

\* The invariant holds when Pool::new has started the workers.
LEMMA InitInv == Init => IInv
<1> SUFFICES ASSUME Init
             PROVE  IInv
  OBVIOUS
<1>m. Main \in Threads BY PoolAssumption DEF Threads, Main
<1>1. /\ word = W(N - 1, "idle") /\ tasks = <<>>
      /\ pc = [t \in Threads |-> IF t = Main THEN "out" ELSE "start"]
      /\ v = [t \in Threads |-> STOPPING]
      /\ spin = [t \in Threads |-> MaxSpin]
      /\ sleep = [t \in Threads |-> {}]
  BY DEF Init, TaskInit
<1>2. /\ new = [t \in Threads |-> NoTask] /\ job = [t \in Threads |-> NoItem]
      /\ todo = Items /\ done = {} /\ scopes = 0
  BY DEF Init, TaskInit
<1>3. SyncType
  <2>1. word \in Word
    BY <1>1, PoolAssumption DEF Word, W
  <2>2. pc \in [Threads -> Labels]
    BY <1>1 DEF Labels
  <2>3. v \in [Threads -> Word]
    BY <1>1, StoppingType
  <2>4. spin \in [Threads -> 0 .. MaxSpin] /\ sleep \in [Threads -> SUBSET Masks]
    BY <1>1, PoolAssumption, SpinAssumption
  <2> QED
    BY <2>1, <2>2, <2>3, <2>4 DEF SyncType
<1>4. TaskType
  BY <1>1, <1>2, PoolAssumption DEF TaskType
<1>5. pc[Main] = "out" /\ \A t \in Workers : pc[t] = "start"
  BY <1>1, <1>m DEF Workers
<1>6. word.idle = N - 1 /\ word.st = "idle"
  BY <1>1 DEF W
<1>7. IdleCount
  <2>1. Idle = Threads \ {Main}
    BY <1>5, <1>m DEF Idle, IsIdle, Workers
  <2>2. Cardinality(Idle) = N - 1
    BY <2>1, <1>m, ThreadsFinite, FS_RemoveElement
  <2> QED
    BY <1>6, <2>2 DEF IdleCount
<1>8. MutualExclusion /\ CountNotStale /\ SwapInv
  BY <1>5, <1>6 DEF MutualExclusion, HoldsLock, Unlocked, CountNotStale, SwapInv, Workers
<1>9. WorkFlag /\ SeenIdle /\ OutsideInv /\ StoppedInv /\ ExitOnlyWhenStopped
  BY <1>1, <1>5, <1>6
     DEF WorkFlag, SeenIdle, OutsideInv, StoppedInv, ExitOnlyWhenStopped, Stopped, IsIdle
<1>10. RoleInv
  BY <1>5 DEF RoleInv
<1>11. LoadInv
  BY <1>2, <1>5 DEF LoadInv, IsIdle, InUnlock, InLock, Workers
<1> QED
  BY <1>3, <1>4, <1>7, <1>8, <1>9, <1>10, <1>11 DEF IInv, TypeOK

\* The inductive invariant holds in every state of the pool.
THEOREM Invariance == Spec => []IInv
<1>1. Init => IInv
  BY InitInv
<1>2. IInv /\ [Next]_vars => IInv'
  BY Step
<1> QED
  BY <1>1, <1>2, PTL DEF Spec

\* Every variable keeps its type: in particular idle + 1 in unlock_idle() and
\* idle - 1 in the waiting loops never leave 0 .. n.
THEOREM TypeCorrect == Spec => []TypeOK
<1>1. IInv => TypeOK
  BY DEF IInv
<1> QED
  BY <1>1, Invariance, PTL

\* The word is a correct lock: only one thread is between lock() and the swap
\* that releases it.
THEOREM LockExclusive == Spec => []MutualExclusion
<1>1. IInv => MutualExclusion
  BY DEF IInv
<1> QED
  BY <1>1, Invariance, PTL

\* The idle count of the word is exact until stop() overwrites it, and what
\* unlock() and unlock_idle() loaded is still the count when they store it.
THEOREM CountExact == Spec => [](IdleCount /\ CountNotStale)
<1>1. IInv => IdleCount /\ CountNotStale
  BY DEF IInv
<1> QED
  BY <1>1, Invariance, PTL

\* The WORK flag of an unlocked word is true of the task stack.
THEOREM WorkFlagExact == Spec => []WorkFlag
<1>1. IInv => WorkFlag
  BY DEF IInv
<1> QED
  BY <1>1, Invariance, PTL

\* No worker mistakes a word without idle threads for STOPPING.
THEOREM NoEarlyExit == Spec => []ExitOnlyWhenStopped
<1>1. IInv => ExitOnlyWhenStopped
  BY DEF IInv
<1> QED
  BY <1>1, Invariance, PTL

-----------------------------------------------------------------------------
(* The assertions of the code                                              *)

\* What a thread holds in its local copy of the word while it waits.
WaitInv ==
    \A t \in Threads :
        /\ pc[t] = "lock_wait" => v[t].st = "contended"
        /\ pc[t] \in {"start_wait", "wait", "idle_wake_lock", "idle_wake_main"} => v[t].idle >= 1
        /\ pc[t] \in {"wait", "idle_wake_lock", "idle_wake_main"}
              => v[t].st # "work" /\ (v[t] = AllIdle \/ v[t].idle < N)

\* A step of t that leaves the locals of the others alone and those of t right.
LEMMA WaitFrame ==
    ASSUME WaitInv, NEW t \in Threads,
           \A u \in Threads : u # t => pc'[u] = pc[u] /\ v'[u] = v[u],
           \/ pc'[t] \notin {"lock_wait", "start_wait", "wait", "idle_wake_lock", "idle_wake_main"}
           \/ pc'[t] = "lock_wait" /\ v'[t].st = "contended"
           \/ pc'[t] = "start_wait" /\ v'[t].idle >= 1
           \/ /\ pc'[t] \in {"wait", "idle_wake_lock", "idle_wake_main"}
              /\ v'[t].idle >= 1 /\ v'[t].st # "work" /\ (v'[t] = AllIdle \/ v'[t].idle < N)
    PROVE  WaitInv'
BY DEF WaitInv, AllIdle, W

\* A thread that waits sees a word that counts it, and all N threads only in a
\* word that nobody has locked.
LEMMA WaitingWord ==
    ASSUME IInv, NEW t \in Threads, IsIdle(t), word.st # "work", t = Main \/ word # STOPPING
    PROVE  word.idle >= 1 /\ (word = AllIdle \/ word.idle < N)
<1>1. SyncType /\ IdleCount /\ MutualExclusion /\ StoppedInv
  BY DEF IInv, TypeOK
<1>2. ~Stopped
  BY <1>1 DEF StoppedInv, Stopped, IsIdle
<1>3. word.idle >= 1
  BY <1>2, Waiting
<1>4. CASE word.idle = N
  <2>1. Idle = Threads
    BY <1>1, <1>2, <1>4, IdleBounds DEF IdleCount
  <2>2. \A u \in Threads : ~HoldsLock(u)
    BY <2>1 DEF Idle, IsIdle, HoldsLock
  <2>3. word.st = "idle"
    BY <1>1, <2>2 DEF MutualExclusion, SyncType, Word, Unlocked
  <2> QED
    BY <1>1, <1>3, <1>4, <2>3 DEF SyncType, Word, AllIdle, W
<1>5. CASE word.idle # N
  <2>1. word.idle \in 0 .. N
    BY <1>1 DEF SyncType, Word
  <2>2. word.idle < N
    BY <1>5, <2>1, PoolAssumption
  <2> QED
    BY <1>3, <2>2
<1> QED
  BY <1>4, <1>5

\* Every step of the pool keeps what is known of waiting threads.
LEMMA WaitStep == IInv /\ WaitInv /\ [Next]_vars => WaitInv'
<1> SUFFICES ASSUME IInv, WaitInv, [Next]_vars
             PROVE  WaitInv'
  OBVIOUS
<1>a. SyncType BY DEF IInv, TypeOK
<1>m. Main \in Threads BY ThreadsFinite
<1>1. ASSUME NEW t \in Threads, LockSpin(t) \/ LockContend(t) \/ LockWait(t)
      PROVE  WaitInv'
  <2>1. \A u \in Threads : u # t => pc'[u] = pc[u] /\ v'[u] = v[u]
    BY <1>1, <1>a DEF SyncType, LockSpin, LockContend, LockWait, Return, Goto, locals
  <2>2. \/ pc'[t] \in {"lock", "contend", "push", "run"}
        \/ pc'[t] = "lock_wait" /\ v'[t].st = "contended"
    BY <1>1, <1>a DEF SyncType, Word, LockSpin, LockContend, LockWait, Return, Goto, locals, Locked, At
  <2> QED
    BY <2>1, <2>2, WaitFrame
<1>2. ASSUME NEW t \in Threads, Unlock(t) \/ UnlockSwap(t) \/ UnlockWakeLock(t) \/ UnlockWakeWork(t)
      PROVE  WaitInv'
  <2>1. \A u \in Threads : u # t => pc'[u] = pc[u] /\ v'[u] = v[u]
    BY <1>2, <1>a DEF SyncType, Unlock, UnlockSwap, UnlockWakeLock, UnlockWakeWork, Return, Goto, locals
  <2>2. pc'[t] \in {"unlock_swap", "unlock_wake_lock", "unlock_wake_work", "exec", "closure"}
    BY <1>2, <1>a
       DEF SyncType, Unlock, UnlockSwap, UnlockWakeLock, UnlockWakeWork, Return, Goto, Released
  <2> QED
    BY <2>1, <2>2, WaitFrame
<1>3. ASSUME NEW t \in Threads,
             RunSimple(t) \/ RunMulti(t) \/ DiscardMulti(t) \/ RunNothing(t) \/ Push(t)
               \/ Submit(t) \/ FinishItem(t) \/ UnlockIdle(t)
      PROVE  WaitInv'
  <2>1. \A u \in Threads : u # t => pc'[u] = pc[u] /\ v'[u] = v[u]
    BY <1>3, <1>a DEF SyncType, RunSimple, RunMulti, DiscardMulti, RunNothing, Push, Submit,
       FinishItem, UnlockIdle, Goto, locals
  <2>2. pc'[t] \in {"unlock", "run", "idle", "lock", "idle_swap"}
    BY <1>3, <1>a DEF SyncType, RunSimple, RunMulti, DiscardMulti, RunNothing, Push, Submit,
       FinishItem, UnlockIdle, Goto, At
  <2> QED
    BY <2>1, <2>2, WaitFrame
<1>4. ASSUME NEW t \in Threads, UnlockIdleSwap(t)
      PROVE  WaitInv'
  <2>1. \A u \in Threads : u # t => pc'[u] = pc[u] /\ v'[u] = v[u]
    BY <1>4, <1>a DEF SyncType, UnlockIdleSwap, Goto, locals
  <2>2. pc'[t] \in {"wait", "idle_wake_lock", "idle_wake_main"} /\ v'[t] = v[t]
    BY <1>4, <1>a DEF SyncType, UnlockIdleSwap, Goto, locals, AfterUnlockIdle
  <2>3. v[t].st = "idle" /\ v[t].idle = word.idle + 1
    BY <1>4 DEF IInv, SwapInv, CountNotStale, UnlockIdleSwap, At
  <2>4. v[t].idle >= 1 /\ (v[t] = AllIdle \/ v[t].idle < N)
    <3>1. v[t] \in Word /\ v[t].idle \in 0 .. N /\ word.idle \in 0 .. N
      BY <1>a DEF SyncType, Word
    <3>2. v[t].idle = N => v[t] = AllIdle
      BY <2>3, <3>1 DEF Word, AllIdle, W
    <3>3. v[t].idle >= 1 /\ (v[t].idle = N \/ v[t].idle < N)
      BY <2>3, <3>1, PoolAssumption
    <3> QED
      BY <3>2, <3>3
  <2> QED
    BY <2>1, <2>2, <2>3, <2>4, WaitFrame
<1>5. ASSUME NEW t \in Threads, UnlockIdleWakeLock(t) \/ WakeMain(t)
      PROVE  WaitInv'
  <2>1. \A u \in Threads : u # t => pc'[u] = pc[u] /\ v'[u] = v[u]
    BY <1>5, <1>a DEF SyncType, UnlockIdleWakeLock, WakeMain, Goto, locals
  <2>2. pc'[t] \in {"wait", "idle_wake_main"} /\ v'[t] = v[t]
    BY <1>5, <1>a DEF SyncType, UnlockIdleWakeLock, WakeMain, Goto, locals, AfterUnlockIdle
  <2>3. pc[t] \in {"idle_wake_lock", "idle_wake_main"}
    BY <1>5 DEF UnlockIdleWakeLock, WakeMain, At
  <2>4. v[t].idle >= 1 /\ v[t].st # "work" /\ (v[t] = AllIdle \/ v[t].idle < N)
    BY <2>3 DEF WaitInv
  <2> QED
    BY <2>1, <2>2, <2>4, WaitFrame
<1>6. ASSUME NEW t \in Threads, Wait(t) \/ (t # Main /\ StartWait(t))
      PROVE  WaitInv'
  <2>1. \A u \in Threads : u # t => pc'[u] = pc[u] /\ v'[u] = v[u]
    BY <1>6, <1>a DEF SyncType, Wait, StartWait, Return, Goto
  <2>2. pc'[t] \in {"reload", "start"}
    BY <1>6, <1>a DEF SyncType, Wait, StartWait, Return, Goto
  <2> QED
    BY <2>1, <2>2, WaitFrame
<1>7. ASSUME NEW t \in Threads, Reload(t) \/ (t # Main /\ StartWork(t))
      PROVE  WaitInv'
  <2>1. \A u \in Threads : u # t => pc'[u] = pc[u] /\ v'[u] = v[u]
    BY <1>7, <1>a DEF SyncType, Reload, StartWork, TakeWork, Return, Goto
  <2>2. IsIdle(t)
    BY <1>7 DEF Reload, StartWork, At, IsIdle
  <2>3. CASE pc'[t] \in {"run", "exited"}
    BY <2>1, <2>3, WaitFrame
  <2>4. CASE pc'[t] \notin {"run", "exited"}
    <3>1. /\ pc'[t] \in {"wait", "start_wait"} /\ v'[t] = word /\ word.st # "work"
          /\ t = Main \/ word # STOPPING
      BY <1>7, <1>a, <2>4 DEF SyncType, Reload, StartWork, TakeWork, Return, Goto
    <3> QED
      BY <2>1, <2>2, <3>1, WaitingWord, WaitFrame
  <2> QED
    BY <2>3, <2>4
<1>8. CASE LeaveMain \/ StopWake \/ EnterMain \/ BeginScope \/ Stop
  <2>1. \A u \in Threads : u # Main => pc'[u] = pc[u] /\ v'[u] = v[u]
    BY <1>8, <1>a, <1>m DEF SyncType, LeaveMain, StopWake, EnterMain, BeginScope, Stop, Return, Goto, locals
  <2>2. pc'[Main] \in {"out", "stopped", "lock", "closure", "stop_wake"}
    BY <1>8, <1>a, <1>m DEF SyncType, LeaveMain, StopWake, EnterMain, BeginScope, Stop, Return, Goto
  <2> QED
    BY <1>m, <2>1, <2>2, WaitFrame
<1>9. ASSUME NEW t \in Threads, FutexInterrupt(t)
      PROVE  WaitInv'
  BY <1>9 DEF FutexInterrupt, locals, WaitInv, AllIdle, W
<1>10. CASE UNCHANGED vars
  BY <1>10 DEF vars, WaitInv, AllIdle, W
<1> QED
  BY <1>1, <1>2, <1>3, <1>4, <1>5, <1>6, <1>7, <1>8, <1>9, <1>10
     DEF Next, PoolStep, UserStep, Terminated

\* No assert! or debug_assert! of sync_impl.futex.rs and threading.rs fails: what
\* the waiting loops hold in v counts the caller, and is exact where it says that
\* everybody is idle.
THEOREM AssertsHold == Spec => []Asserts
<1>1. Init => WaitInv
  BY ThreadsFinite DEF Init, TaskInit, WaitInv
<1>2. IInv /\ WaitInv => Asserts
  <2> SUFFICES ASSUME IInv, WaitInv PROVE Asserts
    OBVIOUS
  <2>1. ASSUME NEW t \in Threads
        PROVE  /\ pc[t] = "lock_wait" => v[t].st = "contended"
               /\ pc[t] \in {"unlock", "idle"} => word.st \notin Unlocked
               /\ pc[t] \in {"start_wait", "wait"} => v[t].idle >= 1
               /\ pc[t] = "wait" => v[t].st # "work"
               /\ pc[t] = "idle" => tasks = <<>>
    <3>1. MutualExclusion /\ SwapInv
      BY DEF IInv
    <3> QED
      BY <3>1 DEF WaitInv, MutualExclusion, HoldsLock, SwapInv
  <2>2. pc[Main] = "wait" => v[Main] = AllIdle \/ v[Main].idle < N
    BY ThreadsFinite DEF WaitInv
  <2>3. /\ pc[Main] = "out" => word = W(N - 1, "idle")
        /\ Stopped => tasks = <<>>
    BY DEF IInv, OutsideInv, StoppedInv
  <2> QED
    BY <2>1, <2>2, <2>3 DEF Asserts
<1> QED
  BY <1>1, <1>2, WaitStep, Invariance, PTL DEF Spec

-----------------------------------------------------------------------------
(* The pool implements TaskPool                                            *)

\* When every thread is idle nothing is queued and nothing runs.
LEMMA AllIdleMeansDone ==
    ASSUME IInv, Placed, word = AllIdle, ~Stopped
    PROVE  /\ Queued = {} /\ Running = {}
<1>1. Idle = Threads
  <2>1. word.idle = N /\ Idle \in SUBSET Threads
    BY DEF AllIdle, W, Idle
  <2>2. Cardinality(Idle) = N
    BY <2>1 DEF IInv, IdleCount
  <2> QED
    BY <2>1, <2>2, ThreadCount, PoolAssumption
<1>2. \A t \in Threads : job[t] = NoItem /\ new[t] = NoTask
  <2>1. LoadInv
    BY DEF IInv
  <2> QED
    BY <1>1, <2>1 DEF LoadInv, Idle
<1>3. tasks = <<>>
  <2>1. word.st = "idle" /\ WorkFlag
    BY DEF AllIdle, W, IInv
  <2> QED
    BY <2>1 DEF WorkFlag, Unlocked
<1> QED
  BY <1>2, <1>3, NothingLeft

\* Steps that only touch the word, the locals and the sleepers.
LEMMA SyncSteps ==
    ASSUME IInv, Placed, NEW t \in Threads,
           \/ LockSpin(t) \/ LockContend(t) \/ LockWait(t)
           \/ Unlock(t) \/ UnlockSwap(t) \/ UnlockWakeLock(t) \/ UnlockWakeWork(t)
           \/ RunNothing(t) \/ UnlockIdle(t) \/ UnlockIdleSwap(t) \/ UnlockIdleWakeLock(t)
           \/ WakeMain(t) \/ Wait(t) \/ Reload(t) \/ StartWork(t) \/ StartWait(t)
    PROVE  Placed' /\ Allowed
<1>1. SyncType
  BY DEF IInv, TypeOK
<1>2. CASE LockSpin(t) \/ LockContend(t) \/ LockWait(t)
  <2>1. /\ UNCHANGED <<tasks, new, job, todo, done>>
        /\ \A u \in Threads : u # t => pc'[u] = pc[u]
        /\ {pc[t], pc'[t]} \cap {"out", "stop_wake", "stopped"} = {}
    BY <1>1, <1>2 DEF SyncType, LockSpin, LockContend, LockWait, At, Goto, Return, Locked, history
  <2> QED
    BY <2>1, PhaseFrame, HiddenStep
<1>3. CASE Unlock(t) \/ UnlockSwap(t) \/ UnlockWakeLock(t) \/ UnlockWakeWork(t)
  <2>1. /\ UNCHANGED <<tasks, new, job, todo, done>>
        /\ \A u \in Threads : u # t => pc'[u] = pc[u]
        /\ {pc[t], pc'[t]} \cap {"out", "stop_wake", "stopped"} = {}
    BY <1>1, <1>3 DEF SyncType, Unlock, UnlockSwap, UnlockWakeLock, UnlockWakeWork, At, Goto,
       Return, Released, history
  <2> QED
    BY <2>1, PhaseFrame, HiddenStep
<1>4. CASE RunNothing(t) \/ UnlockIdle(t) \/ UnlockIdleSwap(t) \/ UnlockIdleWakeLock(t) \/ WakeMain(t)
  <2>1. /\ UNCHANGED <<tasks, new, job, todo, done>>
        /\ \A u \in Threads : u # t => pc'[u] = pc[u]
        /\ {pc[t], pc'[t]} \cap {"out", "stop_wake", "stopped"} = {}
    BY <1>1, <1>4 DEF SyncType, RunNothing, UnlockIdle, UnlockIdleSwap, UnlockIdleWakeLock, WakeMain,
       AfterUnlockIdle, At, Goto, history
  <2> QED
    BY <2>1, PhaseFrame, HiddenStep
<1>5. CASE Wait(t) \/ Reload(t) \/ StartWork(t) \/ StartWait(t)
  <2>1. /\ UNCHANGED <<tasks, new, job, todo, done>>
        /\ \A u \in Threads : u # t => pc'[u] = pc[u]
        /\ {pc[t], pc'[t]} \cap {"out", "stop_wake", "stopped"} = {}
    BY <1>1, <1>5 DEF SyncType, Wait, Reload, StartWork, StartWait, TakeWork, At, Goto, Return, history
  <2> QED
    BY <2>1, PhaseFrame, HiddenStep
<1> QED
  BY <1>2, <1>3, <1>4, <1>5

\* Steps that move items.
LEMMA ItemSteps ==
    ASSUME IInv, Placed, NEW t \in Threads,
           \/ RunSimple(t) \/ RunMulti(t) \/ DiscardMulti(t)
           \/ Push(t) \/ Submit(t) \/ FinishItem(t)
    PROVE  Placed' /\ Allowed
<1>1. SyncType /\ TaskType /\ LoadInv
  BY DEF IInv, TypeOK
<1>2. pc[Main] # "out" /\ ~Stopped
  <2>1. ~IsIdle(t) /\ pc[t] \notin {"out", "stop_wake", "stopped", "exited"}
    BY DEF RunSimple, RunMulti, DiscardMulti, Push, Submit, FinishItem, At, IsIdle
  <2> QED
    BY <2>1, Busy DEF Stopped
<1>3. PhaseKept
  <2>1. /\ \A u \in Threads : u # t => pc'[u] = pc[u]
        /\ {pc[t], pc'[t]} \cap {"out", "stop_wake", "stopped"} = {}
    BY <1>1 DEF SyncType, RunSimple, RunMulti, DiscardMulti, Push, Submit, FinishItem, At, Goto
  <2> QED
    BY <2>1, PhaseFrame
<1>4. CASE RunSimple(t) \/ RunMulti(t)
  <2>1. job[t] = NoItem
    BY <1>1, <1>4 DEF RunSimple, RunMulti, At, LoadInv
  <2> QED
    BY <1>1, <1>3, <1>4, <2>1, TakeSimpleStep, TakeElementStep DEF RunSimple, RunMulti
<1>5. CASE DiscardMulti(t)
  BY <1>1, <1>3, <1>5, DiscardStep DEF DiscardMulti
<1>6. CASE Push(t)
  <2>1. new[t] # NoTask
    BY <1>1, <1>6 DEF Push, At, LoadInv
  <2> QED
    BY <1>1, <1>3, <1>6, <2>1, PushTaskStep DEF Push
<1>7. CASE Submit(t)
  <2>1. new[t] = NoTask
    BY <1>1, <1>7 DEF Submit, At, LoadInv, InUnlock
  <2> QED
    BY <1>1, <1>2, <1>3, <1>7, <2>1, NewTaskStep DEF Submit
<1>8. CASE FinishItem(t)
  <2>1. job[t] # NoItem
    BY <1>1, <1>8 DEF FinishItem, At, LoadInv
  <2> QED
    BY <1>1, <1>3, <1>8, <2>1, FinishStep DEF FinishItem
<1> QED
  BY <1>4, <1>5, <1>6, <1>7, <1>8

\* Steps of the owner of the pool.
LEMMA OwnerSteps ==
    ASSUME IInv, Placed, LeaveMain \/ StopWake \/ BeginScope \/ EnterMain \/ Stop
    PROVE  Placed' /\ Allowed
<1>1. SyncType /\ Main \in Threads
  BY ThreadsFinite DEF IInv, TypeOK
<1>2. UNCHANGED <<tasks, new, job, todo, done>>
  BY DEF LeaveMain, StopWake, BeginScope, OpenScope, EnterMain, Stop, history
<1>3. CASE LeaveMain
  <2>1. pc[Main] # "out" /\ ~Stopped /\ pc'[Main] = "out"
    BY <1>1, <1>3 DEF SyncType, LeaveMain, At, Return, Goto, Stopped
  <2>2. word = AllIdle
    BY <1>3 DEF IInv, SeenIdle, LeaveMain, At
  <2> QED
    BY <1>2, <2>1, <2>2, AllIdleMeansDone, OwnerStep
<1>4. CASE StopWake \/ EnterMain
  <2>1. PhaseKept
    BY <1>1, <1>4 DEF SyncType, StopWake, EnterMain, At, Goto, Stopped, PhaseKept
  <2> QED
    BY <1>2, <2>1, HiddenStep
<1>5. CASE BeginScope
  <2>1. pc[Main] = "out" /\ pc'[Main] # "out" /\ ~Stopped'
    BY <1>1, <1>5 DEF SyncType, BeginScope, At, Goto, Stopped
  <2> QED
    BY <1>2, <2>1, OwnerStep
<1>6. CASE Stop
  <2>1. pc[Main] = "out" /\ Stopped'
    BY <1>1, <1>6 DEF SyncType, Stop, At, Goto, Stopped
  <2> QED
    BY <1>2, <2>1, OwnerStep
<1> QED
  BY <1>3, <1>4, <1>5, <1>6

\* Every step of the pool is one of TaskPool's, or users cannot see it.
LEMMA RefinementStep == IInv /\ Placed /\ [Next]_vars => Placed' /\ Allowed
<1> SUFFICES ASSUME IInv, Placed, [Next]_vars
             PROVE  Placed' /\ Allowed
  OBVIOUS
<1>1. ASSUME NEW t \in Threads, PoolStep(t) \/ UserStep(t)
      PROVE  Placed' /\ Allowed
  BY <1>1, SyncSteps, ItemSteps, OwnerSteps DEF PoolStep, UserStep
<1>2. ASSUME NEW t \in Threads, FutexInterrupt(t)
      PROVE  Placed' /\ Allowed
  BY <1>2, HiddenStep DEF FutexInterrupt, history, PhaseKept, Stopped
<1>3. CASE UNCHANGED vars
  BY <1>3, HiddenStep DEF vars, PhaseKept, Stopped
<1> QED
  BY <1>1, <1>2, <1>3, OwnerSteps DEF Next, Terminated

\* The pool over sync_impl.futex.rs does what its users may rely on: every item
\* is started once, by one of N threads, and finished before its scope returns.
THEOREM Refinement == Spec => ImplementsPool
<1>1. Init => Placed /\ Abstract!Init
  BY PlacedInit DEF Init
<1>2. IInv /\ Placed /\ [Next]_vars => Placed' /\ [Abstract!Next]_(Abstract!vars)
  BY RefinementStep DEF Allowed
<1> QED
  BY <1>1, <1>2, Invariance, PTL DEF Spec, ImplementsPool, Abstract!Spec

\* When PoolRef::scope has returned, every submitted item has run and no worker
\* holds anything of the scope: the stack is empty and all others are idle.
THEOREM ScopeSound == Spec => []ScopeComplete
<1>1. IInv /\ Placed => ScopeComplete
  <2> SUFFICES ASSUME IInv, Placed, pc[Main] = "out"
               PROVE  /\ done = Items \ todo /\ tasks = <<>>
                      /\ \A t \in Workers : job[t] = NoItem /\ new[t] = NoTask
    BY DEF ScopeComplete
  <2>1. tasks = <<>> /\ \A t \in Workers : IsIdle(t)
    BY DEF IInv, OutsideInv
  <2>2. \A t \in Threads : job[t] = NoItem /\ new[t] = NoTask
    <3>1. LoadInv
      BY DEF IInv
    <3> QED
      BY <2>1, <3>1 DEF LoadInv, Workers
  <2> QED
    BY <2>1, <2>2, NothingLeft DEF Workers
<1>2. Init => Placed
  BY PlacedInit DEF Init
<1>3. IInv /\ Placed /\ [Next]_vars => Placed'
  BY RefinementStep
<1> QED
  BY <1>1, <1>2, <1>3, Invariance, PTL DEF Spec
====
