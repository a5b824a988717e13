--------------------------- MODULE MCStatevector ----------------------------
EXTENDS Statevector, SfreeCode

\* One thread; two threads that share few elements, and so many that several
\* chunks fall to each; sizes count elements.
MCContexts ==
    LET c(t, chunk, thres, min, max) ==
            [threads |-> t, chunk_size |-> chunk, multithreading_threshold |-> thres,
             work_item_min_size |-> min, work_item_max_size |-> max]
    IN  {c(1, 2, 2, 1, 3), c(2, 1, 2, 1, 2), c(3, 2, 3, 2, 1)}

\* A dense vector in which a Hadamard gate on qubit 0 cancels amplitudes, and
\* one with gaps.
MCImports ==
    {<< <<1, 0>>, <<1, 0>>, <<2, 1>>, <<-2, -1>>, <<0, 3>>, <<0, 0>>, <<1, 1>>, <<4, 0>> >>,
     << <<0, 0>>, <<1, 0>>, <<0, 0>>, <<0, 0>>, <<1, 0>>, <<0, 2>>, <<3, 0>> >>}

\* Queues whose code writes no qubit, one or several, with and without branches
\* (a branch takes one further operation here).
MCQueues ==
    {<<OpPhase(Single(1, TRUE), PI_1_2)>>,
     <<OpPhase(Single(1, TRUE), PI_1_2), OpPhase(WithQubit(Single(1, TRUE), 0, FALSE), PI)>>,
     <<OpX(Single(0, TRUE), {2})>>,
     <<OpX(Single(0, FALSE), {1}), OpX(WithQubit(Single(0, FALSE), 2, TRUE), {1})>>,
     <<OpSwap(Single(1, TRUE), 0, 2)>>,
     <<OpX(Single(2, TRUE), {0}), OpX(Single(2, FALSE), {1})>>}

MCGates == {GateH}

MCPartFail == -2
=============================================================================
