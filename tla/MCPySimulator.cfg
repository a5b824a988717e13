SPECIFICATION Spec
CONSTANTS
    MaxQubit = 1
    Threads = {t1, t2}
    Names = {n1, n2}
    Iterators = {i1, i2}
    NoIterator = NoIterator
    SlowCalls <- MCSlowCalls
    FastCalls <- MCFastCalls
    ThreadCounts = {1}
    NoCall = NoCall
INVARIANTS
    ExclusiveUse
    IteratorsValid
    Lifetimes
    IteratorsFlushed
    PanicsOnlyAfterError
