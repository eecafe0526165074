------------------------------- MODULE MCActive --------------------------------
(* Bounds: the worker, the owner and one more client, three tasks besides the  *)
(* destructor's; a task may itself send.  Enough for a task to be sent before, *)
(* while and after the destructor's, and for a notification to be overtaken.   *)
EXTENDS ActiveRefinement

CONSTANTS w, o, s, a, b, c

MCThreads == {w, o, s}
MCItems == {a, b, c, Done}
================================================================================
