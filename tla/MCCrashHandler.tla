---------------------------- MODULE MCCrashHandler -----------------------------
(* Bounds: two signals, two threads of the program and the LogWorker's, as many *)
(* set-up calls as install, replace and give back a handler twice.              *)
EXTENDS CrashHandler

CONSTANTS abrt, term, main, aux, bg
================================================================================
