------------------------------ MODULE MCLogLevels ------------------------------
(* Bounds: the four default levels by rank, 1, 3, 5 and 10, and two levels of   *)
(* the program, below and above WARNING, which may be added or logged without.  *)
EXTENDS LogLevels

MCLevels == {1, 3, 4, 5, 6, 10}
MCDefaults == {1, 3, 5, 10}
================================================================================
