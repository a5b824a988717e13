-------------------------- MODULE PoolTasksProofs ---------------------------
(***************************************************************************)
(* What the proofs about the three synchronisation layers share.  Items    *)
(* move from the user to the stack, to a thread and to the finished ones,  *)
(* and are never in two places: a move is a step of TaskPool.              *)
(***************************************************************************)
EXTENDS PoolTasks, FiniteSetTheorems, SequenceTheorems, TLAPS

-----------------------------------------------------------------------------
(* Counting threads                                                        *)

\* There are N threads, the main one among them.
LEMMA ThreadsFinite == IsFiniteSet(Threads) /\ Cardinality(Threads) = N /\ Main \in Threads
BY PoolAssumption, FS_Interval DEF Threads, Main

\* A set of threads has between 0 and N elements, and the limits only if it is
\* empty or full.
LEMMA ThreadCount ==
    ASSUME NEW S \in SUBSET Threads
    PROVE  /\ IsFiniteSet(S)
           /\ Cardinality(S) \in 0 .. N
           /\ S # Threads => Cardinality(S) <= N - 1
           /\ S # {} => Cardinality(S) >= 1
<1>1. /\ IsFiniteSet(S)
      /\ Cardinality(S) <= N
      /\ Cardinality(S) = N => S = Threads
  BY ThreadsFinite, FS_Subset
<1>2. Cardinality(S) \in Nat
  BY <1>1, FS_CardinalityType
<1>3. Cardinality(S) = 0 <=> S = {}
  BY <1>1, FS_EmptySet
<1> QED
  BY <1>1, <1>2, <1>3, PoolAssumption

\* One thread more, one less.
LEMMA ThreadUpDown ==
    ASSUME NEW S \in SUBSET Threads, NEW t \in Threads
    PROVE  /\ t \notin S => Cardinality(S \cup {t}) = Cardinality(S) + 1
           /\ t \in S => Cardinality(S \ {t}) = Cardinality(S) - 1
BY ThreadCount, FS_AddElement, FS_RemoveElement

-----------------------------------------------------------------------------
(* Where items are                                                         *)

\* The items of the tasks on a stack, and of the tasks being submitted.
StackItems(s) == UNION {s[k].items : k \in DOMAIN s}
NewItems == UNION {new[t].items : t \in Threads}

\* A SimpleTask carries exactly one closure.
OneClosure(x) == x.kind = "simple" => \E i \in Items : x.items = {i}

SimpleInv ==
    /\ \A k \in DOMAIN tasks : OneClosure(tasks[k])
    /\ \A t \in Threads : OneClosure(new[t])

\* No item is in two tasks of a stack.
StackDistinct(s) == \A k, l \in DOMAIN s : k # l => s[k].items \cap s[l].items = {}

\* No item is in two places.
Distinct ==
    /\ StackDistinct(tasks)
    /\ \A t, u \in Threads : t # u => new[t].items \cap new[u].items = {}
    /\ StackItems(tasks) \cap NewItems = {}
    /\ \A t, u \in Threads : t # u /\ job[t] = job[u] => job[t] = NoItem
    /\ Queued \cap Running = {}

\* Everything submitted is queued, running or finished.
Accounted == Queued \cup Running \cup done = Items \ todo

Placed == SimpleInv /\ Distinct /\ Accounted

-----------------------------------------------------------------------------
(* The stack                                                               *)

\* Taking the top task off the stack.
LEMMA PopType ==
    ASSUME tasks \in Seq(Task), tasks # <<>>
    PROVE  Top \in Task /\ Pop \in Seq(Task) /\ Top.items \subseteq Items
<1>1. Len(tasks) \in Nat /\ Len(tasks) >= 1
  BY LenProperties, EmptySeq
<1>2. Top \in Task
  BY <1>1, ElementOfSeq DEF Top
<1>3. Pop \in Seq(Task)
  BY <1>1, SubSeqProperties DEF Pop
<1> QED
  BY <1>2, <1>3 DEF Task

\* Pushing a task adds its items.
LEMMA StackPush ==
    ASSUME NEW s \in Seq(Task), NEW x \in Task
    PROVE  /\ StackItems(Append(s, x)) = StackItems(s) \cup x.items
           /\ \A k \in DOMAIN Append(s, x) : Append(s, x)[k] = x \/ (k \in DOMAIN s /\ Append(s, x)[k] = s[k])
           /\ StackDistinct(s) /\ x.items \cap StackItems(s) = {} => StackDistinct(Append(s, x))
<1> DEFINE r == Append(s, x)
<1>1. /\ DOMAIN s = 1 .. Len(s) /\ Len(s) \in Nat
      /\ DOMAIN r = 1 .. (Len(s) + 1)
      /\ \A k \in 1 .. Len(s) : r[k] = s[k]
      /\ r[Len(s) + 1] = x
  BY AppendProperties, LenProperties
<1>2. \A k : k \in 1 .. (Len(s) + 1) <=> k \in 1 .. Len(s) \/ k = Len(s) + 1
  BY <1>1
<1> HIDE DEF r
<1>3. ASSUME NEW i PROVE (i \in StackItems(r)) <=> (i \in StackItems(s) \/ i \in x.items)
  <2>1. i \in StackItems(r) <=> \E k \in DOMAIN r : i \in r[k].items
    BY DEF StackItems
  <2>2. i \in StackItems(s) <=> \E k \in DOMAIN s : i \in s[k].items
    BY DEF StackItems
  <2>3. (\E k \in DOMAIN r : i \in r[k].items)
          <=> (\E k \in 1 .. Len(s) : i \in s[k].items) \/ i \in x.items
    BY <1>1, <1>2
  <2> QED
    BY <1>1, <2>1, <2>2, <2>3
<1>4. ASSUME StackDistinct(s), x.items \cap StackItems(s) = {}
      PROVE  StackDistinct(r)
  <2> SUFFICES ASSUME NEW k \in DOMAIN r, NEW l \in DOMAIN r, k # l, NEW i \in r[k].items, i \in r[l].items
               PROVE  FALSE
    BY DEF StackDistinct
  <2>1. CASE k \in 1 .. Len(s) /\ l \in 1 .. Len(s)
    BY <1>1, <1>4, <2>1 DEF StackDistinct
  <2>2. CASE k = Len(s) + 1 /\ l \in 1 .. Len(s)
    BY <1>1, <1>4, <2>2 DEF StackItems
  <2>3. CASE l = Len(s) + 1 /\ k \in 1 .. Len(s)
    BY <1>1, <1>4, <2>3 DEF StackItems
  <2> QED
    BY <1>1, <1>2, <2>1, <2>2, <2>3
<1>5. \A k \in DOMAIN r : r[k] = x \/ (k \in DOMAIN s /\ r[k] = s[k])
  BY <1>1, <1>2
<1> QED
  BY <1>3, <1>4, <1>5 DEF r

\* Popping one removes them.
LEMMA StackPop ==
    ASSUME tasks \in Seq(Task), tasks # <<>>
    PROVE  /\ StackItems(tasks) = StackItems(Pop) \cup Top.items
           /\ \A k \in DOMAIN Pop : k \in DOMAIN tasks /\ Pop[k] = tasks[k]
           /\ Len(tasks) \in DOMAIN tasks
           /\ StackDistinct(tasks) => StackDistinct(Pop) /\ Top.items \cap StackItems(Pop) = {}
<1>1. Len(tasks) \in Nat /\ Len(tasks) >= 1 /\ DOMAIN tasks = 1 .. Len(tasks)
  BY LenProperties, EmptySeq
<1>2. /\ Len(tasks) \in DOMAIN tasks
      /\ DOMAIN Pop = 1 .. (Len(tasks) - 1)
      /\ \A k \in 1 .. (Len(tasks) - 1) : Pop[k] = tasks[k]
  BY <1>1, SubSeqProperties DEF Pop
<1>3. \A k : k \in 1 .. Len(tasks) <=> k \in 1 .. (Len(tasks) - 1) \/ k = Len(tasks)
  BY <1>1
<1>4. ASSUME NEW i
      PROVE  i \in StackItems(tasks) <=> i \in StackItems(Pop) \/ i \in Top.items
  <2>1. i \in StackItems(tasks) <=> \E k \in DOMAIN tasks : i \in tasks[k].items
    BY DEF StackItems
  <2>2. i \in StackItems(Pop) <=> \E k \in DOMAIN Pop : i \in Pop[k].items
    BY DEF StackItems
  <2>3. (\E k \in DOMAIN tasks : i \in tasks[k].items)
          <=> (\E k \in DOMAIN Pop : i \in tasks[k].items) \/ i \in tasks[Len(tasks)].items
    BY <1>1, <1>2, <1>3
  <2> QED
    BY <1>1, <1>2, <2>1, <2>2, <2>3 DEF Top
<1>5. Len(tasks) \notin DOMAIN Pop
  BY <1>1, <1>2
<1>6. \A k \in DOMAIN Pop : k \in DOMAIN tasks /\ Pop[k] = tasks[k]
  BY <1>1, <1>2, <1>3
<1>7. ASSUME StackDistinct(tasks)
      PROVE  StackDistinct(Pop) /\ Top.items \cap StackItems(Pop) = {}
  <2>1. StackDistinct(Pop)
    BY <1>6, <1>7 DEF StackDistinct
  <2>2. ASSUME NEW k \in DOMAIN Pop PROVE Top.items \cap Pop[k].items = {}
    BY <1>2, <1>5, <1>6, <1>7 DEF StackDistinct, Top
  <2> QED
    BY <2>1, <2>2 DEF StackItems
<1> QED
  BY <1>2, <1>4, <1>6, <1>7

-----------------------------------------------------------------------------
(* What the threads carry                                                  *)

\* A free thread starts an item, a thread is done with one.
LEMMA RunningUpdate ==
    ASSUME TaskType, Distinct, NEW t \in Threads, NEW i \in Items
    PROVE  /\ job[t] = NoItem /\ job' = [job EXCEPT ![t] = i]
                => Running' = Running \cup {i} /\ Cardinality(Running) < N
           /\ job[t] = i /\ job' = [job EXCEPT ![t] = NoItem]
                => Running' = Running \ {i}
<1>0. job \in [Threads -> Items \cup {NoItem}] /\ NoItem \notin Items
  BY PoolAssumption DEF TaskType
<1>1. ASSUME job[t] = NoItem, job' = [job EXCEPT ![t] = i]
      PROVE  Running' = Running \cup {i}
  <2>1. ASSUME NEW x PROVE x \in Running' <=> x \in Running \cup {i}
    BY <1>0, <1>1 DEF Running
  <2> QED
    BY <2>1
<1>2. ASSUME job[t] = i, job' = [job EXCEPT ![t] = NoItem]
      PROVE  Running' = Running \ {i}
  <2>1. \A u \in Threads : u # t => job[u] # i
    BY <1>0, <1>2 DEF Distinct
  <2>2. ASSUME NEW x PROVE x \in Running' <=> x \in Running \ {i}
    BY <1>0, <1>2, <2>1 DEF Running
  <2> QED
    BY <2>2
<1>3. ASSUME job[t] = NoItem
      PROVE  Cardinality(Running) < N
  <2> DEFINE B == {u \in Threads : job[u] # NoItem}
             f == [u \in B |-> job[u]]
  <2>1. B \in SUBSET Threads /\ B # Threads
    BY <1>3
  <2>2. IsFiniteSet(B) /\ Cardinality(B) <= N - 1
    BY <2>1, ThreadCount
  <2>3. f \in Surjection(B, Running)
    BY <1>0 DEF Surjection, Running
  <2>4. IsFiniteSet(Running) /\ Cardinality(Running) <= Cardinality(B)
    BY <2>2, <2>3, FS_Surjection
  <2> QED
    BY <2>2, <2>4, FS_CardinalityType, PoolAssumption
<1> QED
  BY <1>1, <1>2, <1>3

\* A thread begins to submit a task, and has pushed it.
LEMMA NewUpdate ==
    ASSUME TaskType, Distinct, NEW t \in Threads, NEW x \in Task
    PROVE  /\ new[t] = NoTask /\ new' = [new EXCEPT ![t] = x]
                => NewItems' = NewItems \cup x.items
           /\ new[t] = x /\ new' = [new EXCEPT ![t] = NoTask]
                => NewItems' = NewItems \ x.items
<1>0. new \in [Threads -> Task \cup {NoTask}] /\ NoTask.items = {}
  BY DEF TaskType, NoTask
<1>1. ASSUME new[t] = NoTask, new' = [new EXCEPT ![t] = x]
      PROVE  NewItems' = NewItems \cup x.items
  <2>1. ASSUME NEW i PROVE i \in NewItems' <=> i \in NewItems \/ i \in x.items
    <3>1. i \in NewItems <=> \E u \in Threads : i \in new[u].items
      BY DEF NewItems
    <3>2. i \in NewItems' <=> \E u \in Threads : i \in new'[u].items
      BY DEF NewItems
    <3>3. new'[t] = x /\ \A u \in Threads \ {t} : new'[u] = new[u]
      BY <1>0, <1>1
    <3> QED
      BY <1>0, <1>1, <3>1, <3>2, <3>3
  <2> QED
    BY <2>1
<1>2. ASSUME new[t] = x, new' = [new EXCEPT ![t] = NoTask]
      PROVE  NewItems' = NewItems \ x.items
  <2>1. ASSUME NEW i PROVE i \in NewItems' <=> i \in NewItems /\ i \notin x.items
    <3>1. i \in NewItems <=> \E u \in Threads : i \in new[u].items
      BY DEF NewItems
    <3>2. i \in NewItems' <=> \E u \in Threads : i \in new'[u].items
      BY DEF NewItems
    <3>3. new'[t] = NoTask /\ \A u \in Threads \ {t} : new'[u] = new[u]
      BY <1>0, <1>2
    <3>4. \A u \in Threads \ {t} : i \in new[u].items => i \notin x.items
      BY <1>2 DEF Distinct
    <3> QED
      BY <1>0, <1>2, <3>1, <3>2, <3>3, <3>4
  <2> QED
    BY <2>1
<1> QED
  BY <1>1, <1>2

\* The queued items are those on the stack and those being submitted.
LEMMA QueuedIs == Queued = StackItems(tasks) \cup NewItems /\ Queued' = StackItems(tasks') \cup NewItems'
BY DEF Queued, StackItems, NewItems

-----------------------------------------------------------------------------
(* Steps of TaskPool                                                       *)

\* The owner of the pool stays where TaskPool says it is.
PhaseKept == (pc'[Main] = "out" <=> pc[Main] = "out") /\ (Stopped' <=> Stopped)

\* A step that users of the pool may see, or one they cannot see.
Allowed == [Abstract!Next]_(Abstract!vars)

\* A thread that is inside a scope before and after its step keeps the phase.
LEMMA PhaseFrame ==
    ASSUME NEW t \in Threads,
           \A u \in Threads : u # t => pc'[u] = pc[u],
           {pc[t], pc'[t]} \cap {"out", "stop_wake", "stopped"} = {}
    PROVE  PhaseKept
BY ThreadsFinite DEF PhaseKept, Stopped

\* TaskPool counts as everybody does.
LEMMA AbstractCount == ASSUME NEW S PROVE Abstract!Cardinality(S) = Cardinality(S)
BY DEF Abstract!Cardinality, Cardinality

\* A step that moves no item.
LEMMA HiddenStep ==
    ASSUME Placed, PhaseKept, UNCHANGED <<tasks, new, job, todo, done>>
    PROVE  Placed' /\ Allowed
<1>1. SimpleInv'
  BY DEF Placed, SimpleInv, OneClosure
<1>2. /\ Queued' = Queued /\ Running' = Running
      /\ NewItems' = NewItems /\ StackItems(tasks') = StackItems(tasks)
  BY DEF Queued, Running, NewItems
<1>3. Distinct' /\ Accounted'
  BY <1>2 DEF Placed, Distinct, Accounted, StackDistinct, StackItems
<1>4. UNCHANGED Abstract!vars
  BY <1>2 DEF Abstract!vars, Phase, PhaseKept
<1> QED
  BY <1>1, <1>3, <1>4 DEF Placed, Allowed

\* SimpleTask::run moves the task's one item from the stack to the thread.
LEMMA TakeSimpleStep ==
    ASSUME TaskType, Placed, PhaseKept, NEW t \in Threads, job[t] = NoItem, TakeSimple(t)
    PROVE  Placed' /\ Allowed
<1>1. tasks \in Seq(Task) /\ tasks # <<>>
  BY DEF TaskType, TakeSimple
<1>2. PICK i \in Top.items : job' = [job EXCEPT ![t] = i]
  BY DEF TakeSimple
<1>3. Top.kind = "simple" /\ tasks' = Pop /\ UNCHANGED <<new, todo, done>>
  BY DEF TakeSimple, history
<1>4. i \in Items /\ Top.items = {i}
  <2>1. OneClosure(Top)
    BY <1>1, StackPop DEF Placed, SimpleInv, Top
  <2> QED
    BY <1>1, <1>2, <1>3, <2>1, PopType DEF OneClosure
<1>5. Running' = Running \cup {i} /\ Cardinality(Running) < N
  BY <1>2, <1>4, RunningUpdate DEF Placed
<1>6. /\ StackItems(tasks) = StackItems(tasks') \cup {i} /\ i \notin StackItems(tasks')
      /\ StackDistinct(tasks') /\ NewItems' = NewItems
  BY <1>1, <1>3, <1>4, StackPop DEF Placed, Distinct, NewItems
<1>7. i \in Queued /\ Queued' = Queued \ {i} /\ i \notin Running
  BY <1>6, QueuedIs DEF Placed, Distinct
<1>8. Accounted'
  BY <1>3, <1>5, <1>7 DEF Placed, Accounted
<1>9. SimpleInv'
  BY <1>1, <1>3, StackPop DEF Placed, SimpleInv, OneClosure
<1>10. Distinct'
  <2>1. \A u, w \in Threads : u # w => new'[u].items \cap new'[w].items = {}
    BY <1>3 DEF Placed, Distinct
  <2>2. StackItems(tasks)' \cap NewItems' = {} /\ StackDistinct(tasks)'
    BY <1>6 DEF Placed, Distinct, StackItems, StackDistinct
  <2>3. \A u, w \in Threads : u # w /\ job'[u] = job'[w] => job'[u] = NoItem
    BY <1>2, <1>4, <1>7 DEF Placed, Distinct, TaskType, Running
  <2>4. Queued' \cap Running' = {}
    BY <1>5, <1>7 DEF Placed, Distinct
  <2> QED
    BY <2>1, <2>2, <2>3, <2>4 DEF Distinct
<1>11. Abstract!Start(i)
  BY <1>3, <1>5, <1>7, AbstractCount DEF Abstract!Start, Phase, PhaseKept
<1> QED
  BY <1>4, <1>8, <1>9, <1>10, <1>11 DEF Placed, Allowed, Abstract!Next

\* MultiTask::run moves one of the iterator's items and leaves the others.
LEMMA TakeElementStep ==
    ASSUME TaskType, Placed, PhaseKept, NEW t \in Threads, job[t] = NoItem, TakeElement(t)
    PROVE  Placed' /\ Allowed
<1>1. tasks \in Seq(Task) /\ tasks # <<>>
  BY DEF TaskType, TakeElement
<1>2. PICK i \in Top.items : /\ job' = [job EXCEPT ![t] = i]
                             /\ tasks' = Append(Pop, [Top EXCEPT !.items = @ \ {i}])
  BY DEF TakeElement
<1> DEFINE x == [Top EXCEPT !.items = @ \ {i}]
<1>3. Top.kind = "multi" /\ UNCHANGED <<new, todo, done>>
  BY DEF TakeElement, history
<1>4. /\ i \in Items /\ Top \in Task /\ Pop \in Seq(Task)
      /\ x \in Task /\ x.kind = "multi" /\ x.items = Top.items \ {i}
  BY <1>1, <1>2, <1>3, PopType DEF Task
<1> HIDE DEF x
<1>5. Running' = Running \cup {i} /\ Cardinality(Running) < N
  BY <1>2, <1>4, RunningUpdate DEF Placed
<1>6. tasks' = Append(Pop, x)
  BY <1>2 DEF x
<1>7. /\ StackItems(tasks) = StackItems(Pop) \cup Top.items
      /\ StackDistinct(Pop) /\ Top.items \cap StackItems(Pop) = {}
  BY <1>1, StackPop DEF Placed, Distinct
<1>8. /\ StackItems(tasks') = StackItems(Pop) \cup x.items
      /\ StackDistinct(tasks')
  BY <1>4, <1>6, <1>7, StackPush
<1>9. StackItems(tasks') = StackItems(tasks) \ {i} /\ i \in StackItems(tasks) /\ NewItems' = NewItems
  BY <1>2, <1>3, <1>4, <1>7, <1>8 DEF NewItems
<1>10. i \in Queued /\ Queued' = Queued \ {i} /\ i \notin Running
  BY <1>9, QueuedIs DEF Placed, Distinct
<1>11. Accounted'
  BY <1>3, <1>5, <1>10 DEF Placed, Accounted
<1>12. SimpleInv'
  <2>1. \A k \in DOMAIN tasks' : OneClosure(tasks'[k])
    BY <1>1, <1>4, <1>6, StackPop, StackPush DEF Placed, SimpleInv, OneClosure
  <2> QED
    BY <1>3, <2>1 DEF Placed, SimpleInv, OneClosure
<1>13. Distinct'
  <2>1. \A u, w \in Threads : u # w => new'[u].items \cap new'[w].items = {}
    BY <1>3 DEF Placed, Distinct
  <2>2. StackItems(tasks)' \cap NewItems' = {} /\ StackDistinct(tasks)'
    BY <1>8, <1>9 DEF Placed, Distinct, StackItems, StackDistinct
  <2>3. \A u, w \in Threads : u # w /\ job'[u] = job'[w] => job'[u] = NoItem
    BY <1>2, <1>4, <1>10 DEF Placed, Distinct, TaskType, Running
  <2>4. Queued' \cap Running' = {}
    BY <1>5, <1>10 DEF Placed, Distinct
  <2> QED
    BY <2>1, <2>2, <2>3, <2>4 DEF Distinct
<1>14. Abstract!Start(i)
  BY <1>3, <1>5, <1>10, AbstractCount DEF Abstract!Start, Phase, PhaseKept
<1> QED
  BY <1>4, <1>11, <1>12, <1>13, <1>14 DEF Placed, Allowed, Abstract!Next

\* Discard pops a task whose iterator is exhausted.
LEMMA DiscardStep ==
    ASSUME TaskType, Placed, PhaseKept, Discard
    PROVE  Placed' /\ Allowed
<1>1. tasks \in Seq(Task)
  BY DEF TaskType
<1>2. /\ tasks # <<>> /\ Top.items = {} /\ tasks' = Pop
      /\ UNCHANGED <<new, job, todo, done>>
  BY DEF Discard, history
<1>3. StackItems(tasks') = StackItems(tasks) /\ StackDistinct(tasks')
  BY <1>1, <1>2, StackPop DEF Placed, Distinct
<1>4. NewItems' = NewItems /\ Running' = Running /\ Queued' = Queued
  BY <1>2, <1>3, QueuedIs DEF NewItems, Running
<1>5. Accounted' /\ Distinct'
  BY <1>2, <1>3, <1>4 DEF Placed, Accounted, Distinct, StackItems, StackDistinct
<1>6. SimpleInv'
  BY <1>1, <1>2, StackPop DEF Placed, SimpleInv, OneClosure
<1>7. UNCHANGED Abstract!vars
  BY <1>2, <1>4 DEF Abstract!vars, Phase, PhaseKept
<1> QED
  BY <1>5, <1>6, <1>7 DEF Placed, Allowed

\* Submitting takes items nobody has seen before.
LEMMA NewTaskStep ==
    ASSUME TaskType, Placed, PhaseKept, pc[Main] # "out", ~Stopped,
           NEW t \in Threads, new[t] = NoTask, NewTask(t)
    PROVE  Placed' /\ Allowed
<1>1. PICK k \in {"simple", "multi"}, S \in (SUBSET todo) \ {{}} :
          /\ k = "simple" => \E i \in S : S = {i}
          /\ new' = [new EXCEPT ![t] = [kind |-> k, items |-> S]]
          /\ todo' = todo \ S
  BY DEF NewTask
<1> DEFINE x == [kind |-> k, items |-> S]
<1>2. /\ x \in Task /\ x.items = S /\ S # {} /\ S \subseteq todo /\ todo \subseteq Items
      /\ OneClosure(x)
  <2>1. S # {} /\ S \subseteq todo /\ todo \subseteq Items
    BY <1>1 DEF TaskType
  <2>2. x \in Task /\ x.items = S
    BY <1>1, <2>1 DEF Task
  <2>3. OneClosure(x)
    BY <1>1, <2>1 DEF OneClosure
  <2> QED
    BY <2>1, <2>2, <2>3
<1> HIDE DEF x
<1>3. UNCHANGED <<tasks, job, done>>
  BY DEF NewTask
<1>4. /\ new' = [new EXCEPT ![t] = x] /\ new'[t] = x
      /\ \A u \in Threads \ {t} : new'[u] = new[u]
  BY <1>1 DEF x, TaskType
<1>5. NewItems' = NewItems \cup S
  BY <1>2, <1>4, NewUpdate DEF Placed
<1>6. Running' = Running /\ StackItems(tasks') = StackItems(tasks) /\ Queued' = Queued \cup S
  BY <1>3, <1>5, QueuedIs DEF Running
<1>7. S \cap (Queued \cup Running \cup done) = {}
  BY <1>2 DEF Placed, Accounted
<1>8. Accounted'
  BY <1>1, <1>2, <1>3, <1>6 DEF Placed, Accounted
<1>9. SimpleInv'
  BY <1>2, <1>3, <1>4 DEF Placed, SimpleInv, OneClosure
<1>10. Distinct'
  <2>1. ASSUME NEW u \in Threads, NEW w \in Threads, u # w
        PROVE  new'[u].items \cap new'[w].items = {}
    <3>1. \A y \in Threads : new[y].items \cap S = {}
      BY <1>7, QueuedIs DEF NewItems
    <3> QED
      BY <1>2, <1>4, <2>1, <3>1 DEF Placed, Distinct
  <2>2. StackItems(tasks)' \cap NewItems' = {} /\ StackDistinct(tasks)'
    BY <1>3, <1>5, <1>7, QueuedIs DEF Placed, Distinct, StackItems, StackDistinct
  <2>3. \A u, w \in Threads : u # w /\ job'[u] = job'[w] => job'[u] = NoItem
    BY <1>3 DEF Placed, Distinct
  <2>4. Queued' \cap Running' = {}
    BY <1>6, <1>7 DEF Placed, Distinct
  <2> QED
    BY <2>1, <2>2, <2>3, <2>4 DEF Distinct
<1>11. Abstract!Submit(S)
  BY <1>1, <1>2, <1>3, <1>6 DEF Abstract!Submit, Phase, PhaseKept
<1>12. S \in SUBSET Items
  BY <1>2
<1> QED
  BY <1>8, <1>9, <1>10, <1>11, <1>12 DEF Placed, Allowed, Abstract!Next

\* The push moves the new task to the stack.
LEMMA PushTaskStep ==
    ASSUME TaskType, Placed, PhaseKept, NEW t \in Threads, new[t] # NoTask, PushTask(t)
    PROVE  Placed' /\ Allowed
<1>1. new[t] \in Task /\ tasks \in Seq(Task)
  BY DEF TaskType
<1>2. /\ tasks' = Append(tasks, new[t]) /\ new' = [new EXCEPT ![t] = NoTask]
      /\ UNCHANGED <<job, todo, done>>
  BY DEF PushTask, history
<1>3. new'[t] = NoTask /\ \A u \in Threads \ {t} : new'[u] = new[u]
  BY <1>2 DEF TaskType
<1>4. NewItems' = NewItems \ new[t].items /\ new[t].items \subseteq NewItems
  BY <1>1, <1>2, NewUpdate DEF Placed, NewItems
<1>5. /\ StackItems(tasks') = StackItems(tasks) \cup new[t].items
      /\ StackDistinct(tasks')
  BY <1>1, <1>2, <1>4, StackPush DEF Placed, Distinct
<1>6. Running' = Running /\ Queued' = Queued
  BY <1>2, <1>4, <1>5, QueuedIs DEF Running
<1>7. Accounted'
  BY <1>2, <1>6 DEF Placed, Accounted
<1>8. SimpleInv'
  <2>1. \A k \in DOMAIN tasks' : OneClosure(tasks'[k])
    BY <1>1, <1>2, StackPush DEF Placed, SimpleInv
  <2>2. \A u \in Threads : OneClosure(new'[u])
    BY <1>3 DEF Placed, SimpleInv, OneClosure, NoTask
  <2> QED
    BY <2>1, <2>2 DEF SimpleInv, OneClosure
<1>9. Distinct'
  <2>1. \A u, w \in Threads : u # w => new'[u].items \cap new'[w].items = {}
    BY <1>3 DEF Placed, Distinct, NoTask
  <2>2. StackItems(tasks)' \cap NewItems' = {} /\ StackDistinct(tasks)'
    BY <1>4, <1>5 DEF Placed, Distinct, StackItems, StackDistinct
  <2>3. \A u, w \in Threads : u # w /\ job'[u] = job'[w] => job'[u] = NoItem
    BY <1>2 DEF Placed, Distinct
  <2>4. Queued' \cap Running' = {}
    BY <1>6 DEF Placed, Distinct
  <2> QED
    BY <2>1, <2>2, <2>3, <2>4 DEF Distinct
<1>10. UNCHANGED Abstract!vars
  BY <1>2, <1>6 DEF Abstract!vars, Phase, PhaseKept
<1> QED
  BY <1>7, <1>8, <1>9, <1>10 DEF Placed, Allowed

\* An item's closure returns.
LEMMA FinishStep ==
    ASSUME TaskType, Placed, PhaseKept, NEW t \in Threads, job[t] # NoItem, Finish(t)
    PROVE  Placed' /\ Allowed
<1>1. job[t] \in Items /\ job[t] \in Running
  BY DEF TaskType, Running
<1>2. /\ done' = done \cup {job[t]} /\ job' = [job EXCEPT ![t] = NoItem]
      /\ UNCHANGED <<tasks, new, todo>>
  BY DEF Finish
<1>3. Running' = Running \ {job[t]}
  BY <1>1, <1>2, RunningUpdate DEF Placed
<1>4. Queued' = Queued /\ NewItems' = NewItems /\ StackItems(tasks') = StackItems(tasks)
  BY <1>2 DEF Queued, NewItems
<1>5. Accounted'
  BY <1>1, <1>2, <1>3, <1>4 DEF Placed, Accounted
<1>6. SimpleInv'
  BY <1>2 DEF Placed, SimpleInv, OneClosure
<1>7. Distinct'
  <2>1. \A u, w \in Threads : u # w => new'[u].items \cap new'[w].items = {}
    BY <1>2 DEF Placed, Distinct
  <2>2. StackItems(tasks)' \cap NewItems' = {} /\ StackDistinct(tasks)'
    BY <1>2, <1>4 DEF Placed, Distinct, StackItems, StackDistinct
  <2>3. \A u, w \in Threads : u # w /\ job'[u] = job'[w] => job'[u] = NoItem
    BY <1>2 DEF Placed, Distinct, TaskType
  <2>4. Queued' \cap Running' = {}
    BY <1>3, <1>4 DEF Placed, Distinct
  <2> QED
    BY <2>1, <2>2, <2>3, <2>4 DEF Distinct
<1>8. Abstract!Finish(job[t])
  BY <1>1, <1>2, <1>3, <1>4 DEF Abstract!Finish, Phase, PhaseKept
<1> QED
  BY <1>1, <1>5, <1>6, <1>7, <1>8 DEF Placed, Allowed, Abstract!Next

\* The owner of the pool opens a scope, returns from one, or stops the pool.
LEMMA OwnerStep ==
    ASSUME Placed, UNCHANGED <<tasks, new, job, todo, done>>,
           \/ pc[Main] = "out" /\ pc'[Main] # "out" /\ ~Stopped'
           \/ pc[Main] # "out" /\ ~Stopped /\ Queued = {} /\ Running = {} /\ pc'[Main] = "out"
           \/ pc[Main] = "out" /\ Stopped'
    PROVE  Placed' /\ Allowed
<1>1. SimpleInv'
  BY DEF Placed, SimpleInv, OneClosure
<1>2. /\ Queued' = Queued /\ Running' = Running
      /\ NewItems' = NewItems /\ StackItems(tasks') = StackItems(tasks)
  BY DEF Queued, Running, NewItems
<1>3. Distinct' /\ Accounted'
  BY <1>2 DEF Placed, Distinct, Accounted, StackDistinct, StackItems
<1>4. ASSUME pc[Main] = "out" /\ pc'[Main] # "out" /\ ~Stopped'
      PROVE  Allowed
  <2>1. Abstract!BeginScope
    BY <1>2, <1>4 DEF Abstract!BeginScope, Phase
  <2> QED
    BY <2>1 DEF Allowed, Abstract!Next
<1>5. ASSUME pc[Main] # "out" /\ ~Stopped /\ Queued = {} /\ Running = {} /\ pc'[Main] = "out"
      PROVE  Allowed
  <2>1. Abstract!Return
    BY <1>2, <1>5 DEF Abstract!Return, Phase
  <2> QED
    BY <2>1 DEF Allowed, Abstract!Next
<1>6. ASSUME pc[Main] = "out" /\ Stopped'
      PROVE  Allowed
  <2>1. pc'[Main] # "out"
    BY <1>6 DEF Stopped
  <2>2. Abstract!Stop
    BY <1>2, <1>6, <2>1 DEF Abstract!Stop, Phase
  <2> QED
    BY <2>2 DEF Allowed, Abstract!Next
<1> QED
  BY <1>1, <1>3, <1>4, <1>5, <1>6 DEF Placed

\* Nothing is submitted yet when the pool is made.
LEMMA PlacedInit == TaskInit => Placed /\ Abstract!Init
<1> SUFFICES ASSUME TaskInit PROVE Placed /\ Abstract!Init
  OBVIOUS
<1>1. /\ tasks = <<>> /\ new = [t \in Threads |-> NoTask] /\ pc[Main] = "out"
      /\ job = [t \in Threads |-> NoItem] /\ todo = Items /\ done = {}
  BY ThreadsFinite DEF TaskInit
<1>2. SimpleInv
  BY <1>1 DEF SimpleInv, OneClosure, NoTask
<1>3. Queued = {} /\ StackItems(tasks) = {}
  BY <1>1 DEF Queued, NoTask, StackItems
<1>4. Running = {}
  BY <1>1 DEF Running
<1>5. Distinct
  BY <1>1, <1>3, <1>4 DEF Distinct, StackDistinct, NoTask
<1>6. Accounted
  BY <1>1, <1>3, <1>4 DEF Accounted
<1> QED
  BY <1>1, <1>2, <1>3, <1>4, <1>5, <1>6 DEF Placed, Abstract!Init, Phase

\* A thread that carries nothing holds nothing of a scope.
LEMMA NothingLeft ==
    ASSUME Placed, tasks = <<>>, \A t \in Threads : job[t] = NoItem /\ new[t] = NoTask
    PROVE  Queued = {} /\ Running = {} /\ done = Items \ todo
<1>1. Queued = {}
  BY DEF Queued, NoTask
<1>2. Running = {}
  BY DEF Running
<1> QED
  BY <1>1, <1>2 DEF Placed, Accounted

\* The types of what the operators of PoolTasks change.
LEMMA TaskTypeStep ==
    ASSUME TaskType, NEW t \in Threads,
           \/ TakeSimple(t) \/ TakeElement(t) \/ Discard \/ NewTask(t)
           \/ PushTask(t) /\ new[t] # NoTask
           \/ Finish(t) /\ job[t] # NoItem
           \/ OpenScope
           \/ UNCHANGED <<tasks, new, job, history>>
    PROVE  TaskType'
<1>1. CASE TakeSimple(t) \/ Discard
  BY <1>1, PopType DEF TakeSimple, Discard, TaskType, history
<1>2. CASE TakeElement(t)
  <2>1. PICK i \in Top.items : /\ job' = [job EXCEPT ![t] = i]
                               /\ tasks' = Append(Pop, [Top EXCEPT !.items = @ \ {i}])
    BY <1>2 DEF TakeElement
  <2>2. /\ Top \in Task /\ Pop \in Seq(Task) /\ i \in Items
        /\ UNCHANGED <<new, todo, done, scopes>>
    BY <1>2, <2>1, PopType DEF TakeElement, TaskType, history
  <2>3. [Top EXCEPT !.items = @ \ {i}] \in Task
    BY <2>2 DEF Task
  <2>4. tasks' \in Seq(Task)
    BY <2>1, <2>2, <2>3, AppendProperties
  <2> QED
    BY <2>1, <2>2, <2>4 DEF TaskType
<1>3. CASE NewTask(t)
  <2>1. PICK k \in {"simple", "multi"}, S \in (SUBSET todo) \ {{}} :
            /\ new' = [new EXCEPT ![t] = [kind |-> k, items |-> S]]
            /\ todo' = todo \ S
    BY <1>3 DEF NewTask
  <2>2. [kind |-> k, items |-> S] \in Task
    BY <2>1 DEF TaskType, Task
  <2> QED
    BY <1>3, <2>1, <2>2 DEF NewTask, TaskType
<1>4. CASE PushTask(t) /\ new[t] # NoTask
  <2>1. tasks' \in Seq(Task)
    BY <1>4, AppendProperties DEF PushTask, TaskType
  <2> QED
    BY <1>4, <2>1 DEF PushTask, TaskType, history
<1>5. CASE Finish(t) /\ job[t] # NoItem
  BY <1>5 DEF Finish, TaskType
<1>6. CASE OpenScope
  BY <1>6, PoolAssumption DEF OpenScope, TaskType
<1>7. CASE UNCHANGED <<tasks, new, job, history>>
  BY <1>7 DEF TaskType, history
<1> QED
  BY <1>1, <1>2, <1>3, <1>4, <1>5, <1>6, <1>7
====
