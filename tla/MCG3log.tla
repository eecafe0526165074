-------------------------------- MODULE MCG3log --------------------------------
(* Bounds: two threads; either two LogWorkers, two messages and a fatal one, or *)
(* one LogWorker, two fatal messages and a hook of the program's.               *)
EXTENDS G3log, TLC

CONSTANTS t1, t2, w1, w2, h1, m1, m2, f1, f2

Symm == Permutations(Threads) \cup Permutations(Workers) \cup Permutations(Hooks)
          \cup Permutations(FatalMsgs) \cup Permutations(Msgs \ FatalMsgs)
================================================================================
