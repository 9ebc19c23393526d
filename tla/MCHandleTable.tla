---------------------------- MODULE MCHandleTable ----------------------------
(* Bounded instances of HandleTable for TLC. *)
EXTENDS HandleTable, TLC

CONSTANTS t1, t2

TwoThreads == {t1, t2}

\* No definition tells one thread from another.
Symmetry == Permutations(Threads)
=============================================================================
