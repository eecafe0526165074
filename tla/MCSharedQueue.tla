----------------------------- MODULE MCSharedQueue -----------------------------
(* Bounds: every thread may push, pop and try to pop; three elements and three *)
(* threads allow two sleepers with several wakeups on their way.  No symmetry, *)
(* because of the liveness property.                                           *)
EXTENDS SharedQueue

CONSTANTS t1, t2, t3, a, b, c

MCThreads == {t1, t2, t3}
MCItems == {a, b, c}
================================================================================
