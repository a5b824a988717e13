--------------------------- MODULE SfreeCompiler ----------------------------
(***************************************************************************)
(* The compiler of src/src/sfree/queue.rs run on queues of any contents:   *)
(* operations are pushed one at a time, and every queue on the way is      *)
(* compiled and compared with its operations.                              *)
(***************************************************************************)
EXTENDS SfreeCode

CONSTANTS
    Operations,   \* what may be pushed
    MaxOps        \* bound on the length of the queue

ASSUME CompilerAssumption == MaxOps \in Nat

VARIABLES
    queue,   \* sfree_queue
    code     \* what compile() made of the queue; dropped when it was performed

vars == <<queue, code>>

Init == queue = EmptyQueue /\ code = <<>>

PushOp ==
    /\ Len(queue.ops) < MaxOps
    /\ \E op \in Operations : queue' = Push(queue, op)
    /\ code' = <<>>

\* Queue::compile takes the operations and clears reads and writes.
CompileQueue ==
    /\ queue.ops # <<>>
    /\ code' = Compile(queue.ops)
    /\ queue' = EmptyQueue

Next == PushOp \/ CompileQueue

Spec == Init /\ [][Next]_vars

-----------------------------------------------------------------------------
(* Properties                                                              *)

\* The compiled code maps every element as the operations do, up to one phase
\* for all elements: toggles that wait, branches and moved phases never show.
CompileCorrect ==
    [][queue' = EmptyQueue =>
          \E g \in Angle : \A b \in Basis :
              LET want == PerformOps(queue.ops, Element(b))
              IN  Perform(code', Element(b)) = [want EXCEPT !.phase = Turn(@ + g)]]_vars
=============================================================================
