------------------------------ MODULE MCLogWorker ------------------------------
(* Bounds: two clients of which one destroys the LogWorker, and either two      *)
(* sinks and two messages, or one sink that is called through its handle.       *)
EXTENDS LogWorker, TLC

CONSTANTS c1, c2, k1, k2, m1, m2

Symm == Permutations(Sinks) \cup Permutations(Msgs)
================================================================================
