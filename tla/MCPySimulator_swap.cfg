SPECIFICATION Spec
CONSTANTS
    MaxQubit = 1
    Threads = {t1, t2}
    Names = {n1}
    Iterators = {i1}
    NoIterator = NoIterator
    SlowCalls <- MCSelfSwap
    FastCalls <- MCFastCalls
    ThreadCounts = {1}
    NoCall = NoCall
INVARIANTS
    PanicsOnlyAfterError
