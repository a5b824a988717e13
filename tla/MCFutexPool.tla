---------------------------- MODULE MCFutexPool -----------------------------
(* Small instances of FutexPool for TLC.                                    *)
EXTENDS FutexPool, TLC

\* Items are interchangeable; used by the runs that check invariants only.
ItemSymmetry == Permutations(Items)
=============================================================================
