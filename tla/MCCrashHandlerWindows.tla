------------------------- MODULE MCCrashHandlerWindows -------------------------
(* Bounds: two threads of the program, a signal of each kind, an exception that *)
(* the runtime turns into a signal, and one of C++; two crashes and the crashes *)
(* they lead to; handlers installed twice.                                      *)
EXTENDS CrashHandlerWindows

CONSTANTS t1, t2, bg, abrt, segv, av, cpp

MCSignalOf == [e \in {av, cpp} |-> IF e = av THEN segv ELSE None]
================================================================================
