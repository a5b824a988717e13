# A TLA+ verification of qblaze

qblaze is a simulator of quantum circuits for sparse states, a Rust library
with a C API and a Python extension. Four parts of it are hard to get right and
hard to test: the thread pool, whose lock, flags and counters live in one
32-bit word on which threads sleep; the gate queues, which keep gates back,
compose them, move them past each other and compile them, so that the state
vector sees another circuit than the one that was asked for; the state vector,
which cuts every operation into tasks that fill windows of one buffer without a
check; and the interfaces, through which several Python threads share a
simulator and its iterators. This directory models those parts, checks them with
TLC and proves, with TLAPS, the safety of the pool for every number of threads, that
the tasks of the state vector fill their windows exactly for every vector and
configuration, that gates are moved past the queue only where they commute with it, and
the safety of the Python extension for all threads, names and calls.

Contents: [inventory](#inventory) · [modules](#modules) · [runs](#runs) ·
[findings](#findings) · [proofs](#proofs) · [limits](#limits-of-the-models) · [plan](#plan)

## Inventory

| Component | State | Operations | What makes it correct |
|---|---|---|---|
| Thread pool (`threading.rs`) | a stack of tasks, the number of threads | `scope`, `submit_one`, `for_each`, `map`, drop of the pool | every item runs exactly once, inside its scope; `scope()` returns only when nothing submitted is left, and always returns |
| Futex layer (`sync_impl.futex.rs`, `futex.rs`) | one word: lock state, WORK flag, idle count | `lock`, `unlock`, `start_work`, `wait_work`, `wait_main`, `stop` | exclusion; exact idle count and flag; no lost wake-up; workers end after the drop and not before |
| Condition variable layer (`sync_impl.rs`), spinning layer (`sync_impl.spin.rs`) | as above | as above | as above |
| Simulator (`simulator.rs`) | state vector, one pending gate per qubit with three marks, queue of superposition-free gates | `u3`, `ctl_x`, `ctl_swap`, `ctl_phase`, `measure`, `qubit_probs`, `flush`, `reset_state`, `import_dense` | vector, queue and pending gates together are the circuit so far; reported probabilities are those of the circuit |
| Superposition-free queue (`sfree/`) | operations, the qubits they read and write | push, `blocks`, `compile` | the compiled form does what the operations do; what `blocks` lets pass commutes |
| Gates (`u3.rs`, `u4.rs`, `angle.rs`, `complex.rs`) | none | `new`, `compose`, `adjoint`, three decompositions | agree with the matrices |
| Qubits and controls (`qubit.rs`, `qubit_set.rs`, `bitset.rs`) | inline or boxed bit sets | set operations | agree with sets |
| State vector (`statevector.rs`, `util.rs`) | two sorted runs of elements, the qubit that splits them, a spare buffer | `perform_u4`, `perform_sfree`, `premeasure`, `measure`, `collapse_delta`, `export`, `import`, `import_dense`, `trim` | a function from basis elements to amplitudes, the same for every number of threads; runs stay sorted and split; no call hangs |
| Buffers, arena (`buffer.rs`, `arena.rs`) | mapped memory, a write position, blocks | reserve windows, write, allocate, release | windows are disjoint and filled exactly; releases nest |
| Quicksort (`shamelessly_stolen_from_libstd.rs`) | none | sort, partition | sorted permutation |
| C API (`capi.rs`, `qblaze.h`) | a handle | argument checks, error codes | arguments that pass the checks meet the assertions behind them |
| Python extension (`python/mod.c`), Qiskit adapter (`qiskit.py`) | handle, owner, iterators | calls with and without the interpreter lock | one thread at a time uses a simulator; an iterator never outlives what it reads and lacks the effect of no call; nothing is freed early or leaked |
| Configuration (`config.rs`, `context.rs`) | limits | read once | — |

How they interact. The Python extension calls the C API, which calls the
`Simulator`. The simulator collects gates in its queues and hands them, when it
must, to the state vector (`perform_u4`, `perform_sfree`). The state vector
splits each operation into tasks that it gives to the pool inside a `scope`; the
closures borrow the vector's data, so a scope that returned early would leave
threads writing to memory that is no longer there. Workers share only the task
stack (under the lock) and the word of the synchronisation layer.

What is hard. In the pool: a lock, a flag and a counter share a word that is
loaded, changed and swapped in separate steps; wake-ups are passed from thread
to thread; the number that means "stopping" is also a legal state of a busy
pool; tasks are submitted from inside tasks. In the queues: each call may look
at, move past, compose, or apply what earlier calls left behind, in an order
that depends on random samples and on the order of a hash map. In the state
vector: a counting pass fixes the sizes of windows that a second pass fills in
parallel; chunks are cut at positions found by a binary search that must not tear
equal keys apart; an allocation may fail in the middle of a call. In the Python
extension: the interpreter lock is released in the middle of a call while names,
iterators and other calls come and go. `PROJECT.json`
lists these hazards line by line, with the property that covers each one.

## Modules

| Module | Models |
|---|---|
| `TaskPool` | what a user of the pool may rely on: items are submitted, started, finished; a scope returns when nothing is left |
| `PoolTasks` | what the three synchronisation layers share: threads, task stack, items (`threading.rs`), and the properties that do not depend on the layer |
| `PoolTasksProofs` | the lemmas about them that the proofs about all three layers use |
| `FutexPool` | `threading.rs` over `sync_impl.futex.rs`, one action per access to the word or system call |
| `FutexPoolProofs` | the proofs about it |
| `CondvarPool` | `threading.rs` over `sync_impl.rs`, one action per critical section or notification |
| `CondvarPoolProofs` | the proofs about it |
| `SpinPool` | `threading.rs` over `sync_impl.spin.rs`, one action per access to the word |
| `SpinPoolProofs` | the proofs about it |
| `Gates` | angles, U3 gates, their matrices, controls, and state vectors over Gaussian integers |
| `GateAlgebra` | sequences of gates composed by `U3::compose` next to the product of their matrices |
| `SfreeQueue` | the queue, `blocks`, and what its operations do to an element |
| `SfreeCode` | `compile_seq`, what the compiled code does to an element, and its statistics |
| `SfreeCompiler` | arbitrary queues, pushed and compiled |
| `Simulator` | `simulator.rs`: one action per call, over `SfreeQueue` and `Gates` |
| `SimulatorProofs` | the proofs about it |
| `Statevector` | `statevector.rs` over `util.rs`, `buffer.rs` and the parallel loops: one action per call, per step of the main thread and per task |
| `StatevectorProofs` | the proofs about it |
| `NaturalSets` | induction over sets of numbers and other facts that the last two modules of proofs need |
| `CApi` | `capi.rs`: what every function may do with a simulator, as a set of outcomes |
| `PySimulator` | `python/mod.c` over `CApi`: threads, the simulator object, its iterators and references |
| `PySimulatorProofs` | the inductive invariant and the theorems of the Python extension |
| `MCFutexPool`, `MCSfreeCompiler`, `MCSimulator`, `MCStatevector`, `MCPySimulator` | the values of the constants for TLC |

Definitions whose comment begins with "Fault:" are not part of any
specification. Each is a copy of the definition that follows it with one
plausible mistake, and replaces it to show that a property can tell the two
apart; `PROJECT.json` pairs them with the properties.

### FutexPool

`word` is the futex word, a record of the idle count and the two low bits. Of
the variables of `PoolTasks`, `tasks` is the task stack, `pc[t]` the place where thread `t` is, `v[t]` and
`spin[t]` its locals, `sleep[t]` the mask it sleeps with, `new[t]` and `job[t]`
the task it submits and the item it runs. Thread 0 is the one that opens scopes
and drops the pool. `todo`, `done` and `scopes` are history.

| Code | Actions |
|---|---|
| `lock()` | `LockSpin`, `LockContend`, `LockWait` |
| `unlock()` | `Unlock` (the load), `UnlockSwap`, `UnlockWakeLock`, `UnlockWakeWork` |
| `unlock_idle()` | `UnlockIdle`, `UnlockIdleSwap`, `UnlockIdleWakeLock` |
| `wait_work()`, `wait_main()` | the three above, `WakeMain`, `Wait`, `Reload`, `LeaveMain` |
| `start_work()`, `stop()` | `StartWork`, `StartWait`; `Stop`, `StopWake` |
| `Lock::run_all`, `SimpleTask::run`, `MultiTask::run` | `RunSimple`, `RunMulti`, `DiscardMulti`, `RunNothing`, `FinishItem` |
| `submit_one`, `for_each`, `Lock::submit` | `Submit`, `Push` |
| `scope()` | `BeginScope`, `EnterMain` |
| the kernel | `FutexWait` (compare and sleep in one step), `FutexWakeOne` (any matching sleeper), `FutexWakeAll`, `FutexInterrupt` |

A load followed by `compare_exchange_weak` is one action, because the exchange
acts on the value it finds and a failure only makes the loop look again. A load
followed by `swap` is two, and what happens between them is the subject of
`CountNotStale`, a part of the inductive invariant (see [proofs](#proofs)).

Fairness. `FairSpec` gives every thread weak fairness for its steps in the pool's
own code: the operating system runs a thread that is not asleep. Nothing is
assumed of who wins a race for the lock, of which sleeper a wake-up picks or of
interrupts, and neither opening a scope nor dropping the pool is owed. Nor do
closures have to return: an item may run for ever. `ScopeReturns`, which needs it,
says so in its premise `ClosuresReturn`.

### CondvarPool and SpinPool

`threading.rs` is compiled with one of three synchronisation layers, and the
three modules extend `PoolTasks` with one each. The actions on the stack and the
items are the same; what differs is the lock, the idle count and the waiting.

`CondvarPool`: `idle` is the number the mutex guards, `holder` the owner of the
mutex, `asleep` the threads in `Condvar::wait`. What a thread does under the mutex
is seen by others only when it lets go, so `WaitWork`, `WaitMain`, `StartWork` and
`Woken` run from the lock (or the return of the wait) to the next wait.
`unlock()` drops the mutex before it notifies: `Unlock` and `Notify` are separate.
`Notify` wakes any sleeper, the main thread included, or nobody; `Spurious` wakes
one for no reason, as often as it likes.

`lock_work()` waits *before* it looks at the stack. A worker in `start_work()` may
therefore go to sleep in front of queued tasks, after a notification that found
nobody asleep, and stay asleep while the other threads are busy. The tasks are
not lost: whoever runs out of work takes them, and the next notification may wake
the worker; only parallelism is. The variable `late` remembers such workers, and
`NoLostWakeup` excuses exactly those.

`SpinPool`: `word` is the same word without the contended state, `v[t]` a thread's
local copy between the load and the plain store of `unlock()` and `unlock_idle()`.
An iteration that finds nothing is `Spin`, which changes nothing.

The fairness is that of `FutexPool`: each thread is run, a mutex or word that stays
free is taken, and nothing is assumed of who is first. `Spurious` and `Spin` are
owed by nobody, so no property depends on them.

### Gates, SfreeQueue, SfreeCode, Simulator

Angles are multiples of a quarter turn. With those, every gate's matrix has
entries 0, ±1, ±i up to a common factor, `from_yzy` takes only its exact
branches, and the model computes without rounding. A state vector is a function
from sets of qubits (those that read 1) to Gaussian integers, compared up to a
factor (`SameRay`), as the code defines a gate up to a global phase; `Reduce`
divides common factors out and keeps the numbers small.

A control is a function from qubits to wanted values. An operation of the queue
is an X on a set of qubits, a swap or a phase, under a control. `Compile` is
`compile_seq` with `select_control`, its splits (`Pseq`), waiting toggles and
moved phases.

A call of the simulator is one action: a `Simulator` is borrowed mutably for the
call. `Preflush` is `_preflush` with the implementations of the trait `Preflush`
as `FromRz` and its siblings, `DoFlush` is `_flush`, the `Do...` operators are
the public functions. `ideal` is the reference: the vector to which every gate
is applied the moment it is asked for. `maybe_eager_flush` depends on the size
of the vector and on random samples, so the model lets it answer anything: the
sets `E` and `F` of a call are the qubits on which it says yes before and after
the queue is performed. `Compiled(ops)` is what the compiled queue does to each
element: a constant, so that the proofs hold for any compiler; the runs give it
`CompiledGraph` of `SfreeCode`, the one of the code. `Widths` are the widths a vector can have, `Biases`
stands for the 2^64 values of `measure`'s random input.

### Statevector

`parts` are the two runs of `state`, `split` is `partitioned_by`, `cap` and
`oldCap` the room in the two buffers. A call is split into `steps`, and a step into
phases:

| Phase | Code | Actions |
|---|---|---|
| a call begins | `perform_u4`, `perform_sfree`, `premeasure`, `measure`, `import_dense`, `export` and `import`, `trim` | `PerformU4`, `PerformSfree`, `Premeasure`, `Measure`, `ImportDense`, `Import`, `Trim` |
| the input is cut into tasks | `for_common`, `for_chunks`, `do_subchunks` with `merge_chunk_pairs` and `merge_boundaries` | `PlanStep` |
| the tasks count what they will write | `PoolRef::map` over `do_repartition_count`, `do_u4_count`, `do_measure_count` | `CountTask`, `KeepAll` |
| one window per task is reserved | `BufWriter::reserve_chunks`, `clear` on failure | `Reserve`, `ReserveFails` |
| the tasks fill their windows, or change their chunks in place | `for_each` over `do_..._write`, `do_measure_copy`, `do_sfree_apply`, `do_sfree_single`, `do_sort`, `do_premeasure`, `normalize` | `WriteTask`, `InPlaceTask` |
| the buffers are exchanged | `BufWriter::finish`, `set_state` | `SetState`, `EndLoop` |

Tasks of a loop run in any order if the pool is used and has more than one thread,
and in their own order otherwise (`MayRun`): what a pool promises its users is the
subject of `TaskPool`, so the state vector's model takes tasks as atomic. They
touch disjoint memory, which is what `WindowsExact` shows for the writes, and two
atomic sums. A buffer under construction is the set of writes made to it (`out`);
a position nobody wrote holds garbage. `amp` is the reference: the vector as a
function, to which each call is applied at once.

Amplitudes are Gaussian integers, compared with zero where the code compares with
a rounding threshold. Division by the root of a probability is represented by a
factor i, and whether it is 1 is left open. The order in which the branches of a
compiled queue leave the elements of a chunk is one of two that stand for all.
Samples of `lookup_random` are taken over all elements.

The loops of `util.rs` and the prefix sums of `reserve_chunks` are recursive functions
with one operator for a round (`BoundaryRound`, `ChunkPairsRound`, `DistinctRound`,
`EqRound`). The compiler comes in as three constants, `CompileQueue`, `RunCode` and
`CodeWrites`; the runs give them `Compile`, `Perform` and `Modified` of `SfreeCode`, and
the proofs hold for any.

Fairness: weak fairness of the steps of a call in progress, which is what the
pool's liveness properties (`ScopeReturns`) and a running main thread give.

### CApi and PySimulator

`CApi` keeps of a simulator whether its vector is empty (`is_error()`) and which of
its two queues hold something, and describes a call by what its checks tell apart.
`Check` is the checks in their order, `Asserted` the assertions of the simulator
that an argument could violate, `Flush`, `Gate`, `Probabilities` and `Replaced`
what the simulator may do, `Code` what `wrap_err` returns. That an empty vector
panics in `premeasure` and `perform_sfree`, and that an allocation may fail in any
flush or collapse, is taken from `Statevector`.

`PySimulator` has one simulator object. `home` says that `self->sim` is not NULL,
`iter_obj` and `sim_obj` are the pointers between the object and its iterator,
`iter[i]` says whether a native iterator exists and whether the memory it reads is
still the one it was made for, `names` and `held` are the references Python code
has. A thread that holds the interpreter lock does not let go in the middle of a
fast call, so `Fast`, `IteratorNext`, `DropIterator`, `DropName` and `New` are one
action each. `DO_SLOW` and `Simulator_iter` are three: `Begin` (with
`Simulator_acquire`, which also takes the iterator's pointer away), `Native`
without the lock, and `Return` with `Simulator_release`. `Concurrent` is the
refused call. References are counted by who has them (`Refs`): names, calls and
iterators; `Decref` is the destructor with the two checks that end the process.

No fairness is assumed: all that is said of the extension is safety. The
interpreter lock itself is not a variable, so that its threads pass it on is
neither modelled nor checked; that native calls come back is `CallsEnd` of
`Statevector`.

## Runs

| Run | Specification, bounds | Shows |
|---|---|---|
| `futex_safety` | 3 threads, 3 items, 2 scopes, `MAX_SPIN` 1 | `TypeOK`, `MutualExclusion`, `IdleCount`, `ExitOnlyWhenStopped`, `WorkFlag`, `ScopeComplete`, and `Asserts`: every assertion of the code |
| `futex_live` | 3 threads, 2 items, 1 scope, fair | `ImplementsPool`: each step is one of `TaskPool`; `NoLostWakeup`, even if running items never return; `WorkersExit`; `ScopeReturns`, if closures return |
| `condvar_pool` | 3 threads, 3 items, 2 scopes, fair | for `CondvarPool`: `CountExact` (types, idle count, assertions) and the four properties of `futex_live`, with the exception of `late` workers |
| `spin_pool` | 4 threads, 3 items, 2 scopes, fair | for `SpinPool`: `WordExact` (types, exclusion, idle count, assertions), `ImplementsPool`, `ScopeReturns`, `WorkersExit` |
| `gate_algebra` | all 24 gates, sequences of any length | `AlgebraCorrect`: composition and inverse agree with the matrices; `DecompositionsCorrect`: so do the decompositions, and where one says `None`, there is none |
| `sfree` | 3 qubits, 10 operations, queues of up to 5 | `CompileCorrect`: compiled and queued form agree on every element up to one phase |
| `simulator_pair` | 2 qubits, all controls, 3 gates, 2 angles, 3 calls, all eager choices | `Faithful`, `QueuesTidy` (no mark survives a call, `flush()` leaves nothing), `InBounds`, `BlocksSound` (what `blocks` lets pass commutes with the queue), `ReportsTrue` |
| `simulator_triple` | 3 qubits, controls on up to three, 4 calls | `Faithful` where controls are retargeted behind Hadamard gates |
| `statevector` | 3 qubits, 3 calls, 3 configurations with 1, 2 and 3 threads, fair | `Represents`: the runs hold the vector the calls ask for; `RunsOrdered`: sorted, and split by `partitioned_by`; `WindowsExact`: every reserved position is written once, none beside it; `SumsCorrect`; `SamplesUnbiased`; `CallsEnd`: every call ends, and only an empty vector panics |
| `python` | 2 threads, 2 names, 2 iterators, 23 calls | `ExclusiveUse`, `IteratorsValid`, `Lifetimes`; `IteratorsFlushed`: nothing is queued and nothing lost while an iterator can be advanced; `PanicsOnlyAfterError`: checked arguments meet the assertions, and only an empty vector panics |
| `measure_after_error`, `self_swap` | as the two above, smaller | violated: see [findings](#findings) |

Why the bounds are enough to be interesting.

* Three threads are the least with which one holds the lock, one waits for it
  and one is idle: the case in which `unlock()` must choose whom to wake. Two
  items can be queued while a third runs and submits. Two scopes let a late
  wake-up of the first arrive in the second. A spin limit of 1 has both the
  spinning and the sleeping path; more only delays the second.
* A split of the compiler needs a few operations with a common control. The
  source splits from 5 on (`THRES_PART_DO`); the runs use 1, so that queues of
  five operations contain nested splits. `THRES_PART_FAIL` is as in the source.
* The simulator's interesting cases need a pending gate, a call that moves past
  it and a third that depends on both. Calls are counted since the vector was
  last set, by `reset_state` or `import_dense`; the imported vectors have no
  symmetry that could hide a wrong gate. The vector starts with room for qubit 0
  alone, so that it must be widened.

* Three calls on the state vector let one set it up (an import or a gate), one
  move it and one depend on it. Sizes count elements and chunks are one to three
  elements long, so that eight elements make several chunks per thread; all three
  branches of `for_common` and of `for_chunks` are taken. One of the imported
  vectors makes a Hadamard gate cancel amplitudes, so that counted and merged
  lengths differ. The six queues write no qubit, one and several, with and
  without branches.
* Two threads are enough for one to be refused while the other is out, two
  iterators for one to replace the other, two names for one to be deleted while
  the other is used.

`futex_safety` is checked up to a permutation of the items, which the
specification never tells apart. The temporal runs use no symmetry. Deadlock is
checked in all runs but `statevector`, which stops when its calls are used up or
the process has panicked (that no call hangs is `CallsEnd`); a pool that was dropped and whose threads have ended
stutters (`Terminated`), and a thread that spins takes a step.

## Findings

Two runs show where the program does not do what its documentation says.

* `measure_after_error`. `Simulator::measure` "returns (false, NaN, NaN)" on error
  (`simulator.rs:191`). When an allocation has failed the vector is empty,
  `for_chunks` (`statevector.rs:142`) computes chunks of size 0, and
  `slice::chunks(0)` in `premeasure` panics. `perform_sfree` meets the same, even in
  the very call whose `set_partition` lost the vector.
* `self_swap`. `qblaze.h` promises error codes, among them
  `QBLAZE_ERR_QUBIT_USAGE` for "Invalid qubit usage". `qblaze_apply_mcswap` does not
  compare its targets; equal ones reach `assert!(q1 != q2)` in
  `Simulator::ctl_swap`, and a panic in an `extern "C"` function ends the process.

Met while modelling, without a run of their own: an option of 0 threads reaches an
assertion of `Simulator::new` where the header says that NULL is returned;
`qblaze_copy_amplitudes` leaves the places of absent amplitudes as they were;
importing an empty or all-zero vector is reported as a lack of memory;
`Simulator_iter` returns NULL without setting an exception when it fails after
`Simulator_acquire`; a clone starts with the default qubit count.

## Proofs

### The pool

The theorems hold for every `N >= 2`, every set of items, every spin limit and any
number of scopes (`PoolAssumption` and `SpinAssumption`, evaluated by TLC in every
run of a pool).

| Module | Theorem | States |
|---|---|---|
| `FutexPoolProofs` | `TypeCorrect` | `TypeOK`; in particular `word.idle` stays in `0 .. N`, so `v - IDLE_1` never underflows into the other bits |
| | `LockExclusive` | at most one thread holds the lock, and the word says so |
| | `CountExact` | the idle count is the number of idle threads, and no stale count is ever swapped in |
| | `WorkFlagExact` | a free word has the WORK flag exactly if the stack is not empty |
| | `NoEarlyExit` | workers end only after the pool was stopped |
| | `AssertsHold` | no assertion of the code fails |
| | `Refinement` | the pool implements `TaskPool` |
| | `ScopeSound` | when `scope()` has returned, everything submitted is done and no worker holds an item |
| `CondvarPoolProofs` | `CountSound` | `CountExact`: types, idle count, assertions |
| | `Refinement`, `ScopeSound` | as for the futex pool |
| `SpinPoolProofs` | `WordSound` | `WordExact`: types, exclusion, idle count, assertions |
| | `Refinement` | as for the futex pool |

Two inductive invariants carry each layer: `IInv` says what the layer's word (or
number) means, and `Placed` where the items are. They are proved in this order,
because a scope may be left only when nothing is left in it, which `IInv` shows.

`IInv` of the futex pool. None of the properties is inductive alone. `IInv` is their
conjunction with

* `SwapInv`: what a thread between load and swap is about to store;
* `SeenIdle`: once the main thread has seen everybody idle, the word stays so
  until it leaves. This is why the plain store at the end of `wait_main` is
  correct, and with it the idle count;
* `OutsideInv`, `StoppedInv`: outside a scope, and after the drop, all workers
  are idle (or ended) and the stack is empty. Only with this does the number 0
  mean "stopping": a worker that looks for it is itself counted as idle, so as
  long as the pool lives the word it reads cannot be 0;
* `RoleInv`, `LoadInv`: which labels a thread can be at, and at which of them it
  carries an item or a task.

`Step` takes the actions of `Next` one by one. The counting arguments are in the
lemmas `IdleUp`, `IdleDown` and `IdleSame`; `QuietStep`, `SwapFrame`, `Busy` and
`Waiting` hold what several actions share. The assertions about a thread's local
copy of the word need one fact more, `WaitInv`: the copy with which a thread goes to
sleep counts the thread itself, has no WORK flag, and is either the word of a pool
that is idle throughout or counts fewer than `N`. It is proved on top of `IInv`,
because that the copy counts the thread follows from the exact idle count.

`IInv` of the two other layers has the same parts, where the layer has them. The
condition variable layer has `MutexInv` (the mutex is in the hands of the thread
whose code says so) and `EmptyInv` (who is about to wait has seen the stack empty)
instead of the word's. The spinning layer has `CopyInv` in the place of `SwapInv`: it
releases the lock by a load and a plain store, so the invariant says that what was
loaded is still right at the store, for which nobody else may write to a locked word;
`LeaveInv` is its `SeenIdle`.

`Placed` (in `PoolTasksProofs`) says that a simple task holds one closure
(`SimpleInv`), that no item is in two places, be it two tasks of the stack, a task
being submitted, a thread or the finished items (`Distinct`), and that what was
submitted is queued, running or done (`Accounted`). `Distinct` is what makes the
refinement true: the abstract pool starts an item that is queued *and takes it out of
the queue*, which an item that sat in two tasks would not leave. One lemma per way of
moving an item (`TakeSimpleStep`, `TakeElementStep`, `DiscardStep`, `NewTaskStep`,
`PushTaskStep`, `FinishStep`) shows that it keeps `Placed` and maps to a step of
`TaskPool`; `OwnerStep` does so for opening, leaving and dropping, and `HiddenStep`
for every step that moves none. None mentions a lock, so each layer only shows which
of its actions is which, and that its scope is left with everybody idle
(`NothingLeft`).

### The simulator

`SimulatorProofs` proves, for any qubits, controls, gates, widths and number of calls
(`QubitsAssumption`, `SimulatorAssumption`, `ImportAssumption`: there are qubits, and
for each of them, for the configured width and for every imported vector there is a
vector wide enough):

| Theorem | States |
|---|---|
| `RoomForEveryGate` | `InBounds`: no gate and no queue is performed on a qubit past the end of the vector |
| `NothingLeftBehind` | `QueuesTidy`: no mark outlives its call, and after `flush()` no gate is pending and the queue is empty |
| `PassingGatesCommute` | `BlocksSound`: a gate that `Queue::blocks` lets pass commutes with everything queued |

All follow from the invariant `Tidy` (`AlwaysTidy`). It says little about a state
between calls; the argument is about the inside of a call. `IsSim` holds at every
point of one: the queue's read and write sets and the pending gates name existing
qubits, pending gates are in the normal form of `U3::new`, every operation of the queue
is recorded in the read and write sets and does not write its own controls (`Ops`,
`Recorded`), the vector has a width that there is, and nothing went past its end so far.
Each part of a call has a lemma that it keeps `IsSim` and what else it changes:
`PreflushSim` (only the gate it looks at, applied only if the vector has its qubit),
`TryEagerSim` and `TryEagerAgainSim` (gates may go, the others keep `must_flush`),
`EnsureQubitsSim` (afterwards there is room for all that must go and for the queue),
`FlushPendingSim`, and `DoFlushSim` for all of `_flush`. The point of `EnsureQubitsSim`
is that `_flush` decides what to make room for before the queue is performed and
the second eager pass runs, so the set of gates that must go may only shrink in between.

The loops are recursive functions: `_preflush_ctl` over the qubits of a control and
`flush` over the keys of the hash map. `LoopExists` shows that they are defined at
all, by induction over their prefixes; the induction is over a set of numbers
(`SetInduction`, from the well-foundedness of `<`), because the library's induction
theorems are about predicates. `AllSim` is the loop of `flush`: whatever the order,
every gate it has been to is gone or marked `must_flush`, and no key is left out
(`OrderIsOnto`, a one-to-one sequence as long as the set), so that `_flush` finds
nothing to keep. The choices `E` and `F` of the eager flushes and the compiled queue
are arbitrary in all of this.

`BlocksSound` is about queues of any length. `OpsRun` gives the fold over the
operations as a run of elements, again by induction over a set of numbers. Each
operation undoes itself (`OpUndone`: it does not write what it reads, except for a swap,
which is its own inverse), so a queue maps the basis one to one (`QueueMap`). A qubit that no
operation writes keeps its value (`QueueKeeps`), and toggling one that none reads
is the same before the queue as after it, phase included (`QueueIgnores`). What `blocks`
lets pass on a qubit is therefore diagonal if the qubit is read and has equal rows up to
their order if it is written (`PassingGates`, from `to_rz_rx`), and `Passing` multiplies this
out for each of the four cases. That the queue is one the lemmas apply to is
`Tidy`: it needs that decomposed gates give angles (`Decomposed`), that composed gates
are gates (`GateTypes`), and that the loop over a control never leaves the qubit of a
retargeted Z among its own controls (`Within`, `PreflushItemAcc`).

### The state vector

`StatevectorProofs` proves, for any qubits, gates, queues, imported vectors, sizes of
chunks, numbers of threads and calls (`QubitsAssumption`, `StatevectorAssumption`: the
sizes of a configuration are not 0, gates given to `perform_u4` are not
superposition-free, imported vectors consist of amplitudes), and for any compiler:

| Theorem | States |
|---|---|
| `WindowsAlwaysExact` | `WindowsExact`: the reserved positions fit into the buffer, no two tasks write the same one, nothing is written beside them, and when the loop is over each has been written once |

The writers check nothing (`push_unchecked`), so this is the memory safety of every
step that changes the number of elements. `IInv` is the conjunction of

* `VectorInv`: the runs are sequences, the configuration is one of those allowed;
* `StepsInv`: the call goes through known steps, and only steps that fill windows count;
* `LoopInv`: the tasks are pairs of ranges, and *every task that has been counted
  returned the length of what it will write*, for either run. The two loops run the
  same merge, but separately; that they agree is shown for each kind of step
  (`RepartitionAgrees`, `U4Agrees`, `MeasureAgrees`, `DenseAgrees`, together
  `CountAgrees`). For the first this needs that `merge_distinct` hands out every element
  of both chunks exactly once (`MergeDistinctReads`), because the counting loop counts
  the chunks without merging them;
* `OutInv`: the buffer holds exactly what the tasks that have run write, each at its
  window, and the buffer is as long as the windows together.

From there it is arithmetic: the sums of the counted lengths grow with the index
(`PrefixMonotone`), so windows of different tasks or runs lie apart (`PlaceApart`),
inside the buffer (`PlaceInside`) and cover it (`PlaceCovers`). The order of the tasks
plays no part, so neither do the number of threads and the scheduling of the pool.
Recursive functions exist by `LoopExists`, an induction over a set of numbers like
the one of the simulator.

### The Python extension

`PySimulatorProofs` proves, for any sets of threads, names, iterators and calls
(`PyAssumption`):

| Theorem | States |
|---|---|
| `OneOwner` | at most one thread has the native simulator, and no check that ends the process fails |
| `IteratorsSafe` | an iterator that can be advanced is the one its simulator knows, and reads memory that is there and unchanged |
| `LifetimesExact` | the native simulator exists exactly as long as a name, a call or an iterator refers to it |
| `IteratorsComplete` | while an iterator can be advanced nothing is queued and the vector has not been lost |
| `PanicsExplained` | if nobody swaps a qubit with itself and nobody asks for 0 threads, native code panics only over an empty vector |

Its `IInv` is the conjunction of the first three with the types. Each needs the others:
a call may touch the vector because acquiring the simulator has taken the pointer
from the only iterator; the check of `Py_REFCNT` in `Simulator_acquire` passes
because that iterator and the caller's name are two references; the destructor
finds the simulator at home because a call in progress is a reference itself.
The proof of these three never looks into `Call`, so they hold for every outcome of the C
interface, panics included.

`IteratorsComplete` looks into one call only, the flush of `Simulator_iter`, which
leaves nothing queued or reports an error (`FlushReports`). Its invariant
`FlushedInv` says that this is still so when the thread has the interpreter lock
again: by `IInv` nobody else has the simulator meanwhile, and by the same argument
every later call takes the iterator away before it queues anything. The comment
"If iterators exist, the simulator is flushed" (`mod.c:388`) is this theorem. It is
not implied by `IteratorsSafe`, since a gate that is only queued moves no memory.

`PanicsExplained` is about the outcomes. `CallPanics` goes through the functions of the
C interface: arguments that pass `Check` satisfy `Asserted` (`CheckedAsserted`), and
the flushes, gates and probabilities behind them panic over an empty vector only. Its
two hypotheses `NoSelfSwap` and `SomeThreads` are the two cases that the checks of
`capi.rs` leave to assertions, both named under [findings](#findings); the run
`self_swap` shows what happens without the first. The theorem says that there is
no third. That a flush panics over an empty vector only is how `Flush` is defined,
after what `CallsEnd` shows for `Statevector`; the content of the theorem is that the
checks meet the assertions. A vector is emptied by a failed allocation or by the
import of an all-zero buffer.

### Only model-checked

* Liveness (`NoLostWakeup`, `ScopeReturns`, `WorkersExit`, `CallsEnd`)
  is out of this prover's reach.
* What the gates, the compiler, the simulator and the state vector compute
  (`AlgebraCorrect`, `CompileCorrect`, `Faithful`, `ReportsTrue`,
  `Represents`, ...). Their definitions compute over data recursively (`Reduce`, `Perform`,
  `CompileSeq`, ...), and their meaning for every input would need an
  induction over data. `SfreeCode` is also written with recursive operators, which the
  prover does not take; that is why `Simulator` and `Statevector` have the compiler as
  constants.

## Limits of the models

* Memory is sequentially consistent. That the main thread leaves `wait_main`
  after relaxed accesses only is outside the model.
* The memory layout of the task stack and panics in closures (which poison the
  mutex of `sync_impl.rs`) are not modelled. A pool of one thread has no state and
  runs closures where they are submitted (`OneByOne` in `Statevector`). `PoolRef::map` is modelled in
  `Statevector`, with the one round that an iterator of known length takes.
* Angles other than quarter turns, rounding and the general branch of `from_yzy`
  are not modelled; nor is `Angle::round`, which keeps quarter turns as they are.
* `Simulator` takes the state vector as a function and never loses it;
  `Statevector` shows that it is one, and what happens when it is lost, but takes
  gates one at a time. `CApi` joins the two without the gates. The three are
  separate because their product is out of TLC's reach.
* In `Statevector` the widths of bit sets are left out (`import` copies the words
  that are there), sizes in bytes count elements, and the multiplication
  `total_len * size_of` does not overflow. The allocation of one element in
  `StatevectorImpl::new` does not fail (`CApi` has that case); the empty vector it
  would leave is reached through the other allocations. Left out is
  the debug assertion `count > 0` of
  `merge_chunk_pairs`; counts come from `for_common`, which returns at least 1
  unless the vector is empty.
* Sorting stands for `par_quicksort` and `sort_unstable_by_key`, which come from
  the standard library.
* Of the Python extension the decoding of arguments (other than numbers that are
  not finite), the interpreter lock's own scheduling, the buffers lent by other objects, the module set-up and garbage
  collection inside `Iterator_next` are left out.
* Not modelled: the system calls behind a buffer, the bump allocator (which is
  only ever filled and dropped whole), the representations of qubit sets and
  controls, the detection of caches and processors, the log of performance events,
  and the Qiskit adapter, which translates Qiskit's own classes into calls.

## Plan

1. `TaskPool`, `FutexPool` and their proofs — done.
2. `Gates`, `GateAlgebra`, `SfreeQueue`, `SfreeCompiler`, `Simulator` — done.
3. `CondvarPool` (`sync_impl.rs`) and `SpinPool` (`sync_impl.spin.rs`): two more
   implementations of `TaskPool`, with the same questions — done.
4. `Statevector`: partitions and chunks, merges, windows, memory errors — done.
5. `CApi` and `PySimulator`: argument checks against what the simulator asserts,
   ownership across the interpreter lock, iterators — done.
6. Proofs about the two other layers, `Asserts`, the refinement of `TaskPool` by all
   three, the panics behind the C interface, and the parts of `Simulator` that do not
   depend on amplitudes, `BlocksSound`, and `WindowsExact` of `Statevector` — done. Next: `RunsOrdered`,
   which needs that `merge_distinct` gives its output in the order of the keys.
7. A store-buffer model of the exit of `wait_main`.
8. Data structures as pure algorithms: the task stack, inline and boxed qubit sets
   and controls, `partition_by`.
