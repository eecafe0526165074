----------------------------- MODULE ActiveObject ------------------------------
(******************************************************************************)
(* What kjellkod::Active (src/src/g3log/active.hpp) promises to the code that *)
(* uses it, without queue, condition variable or thread: tasks handed over    *)
(* before the destructor is entered run one at a time, in the order in which  *)
(* they were handed over, and the destructor returns only when the last of    *)
(* them has run; a task handed over later never runs.                         *)
(*                                                                            *)
(* Active implements this module (ActiveRefinement), and LogWorker is written *)
(* in terms of it: one step per task, destruction as a task at the end.       *)
(******************************************************************************)
EXTENDS Integers, Sequences, Functions

CONSTANT Tasks

VARIABLES accepted,  \* the tasks handed over before the destructor was entered
          ran,       \* how many of them have run
          late,      \* the tasks handed over after that
          state      \* "open", "closing": in the destructor, "closed"

avars == <<accepted, ran, late, state>>

Init == /\ accepted = <<>>
        /\ ran = 0
        /\ late = {}
        /\ state = "open"

Submit(i) == /\ i \notin Range(accepted) \cup late
             /\ \/ /\ state = "open"
                   /\ accepted' = Append(accepted, i)
                   /\ UNCHANGED late
                \/ /\ state = "closing"
                   /\ late' = late \cup {i}
                   /\ UNCHANGED accepted
             /\ UNCHANGED <<ran, state>>

Run == /\ ran < Len(accepted)
       /\ ran' = ran + 1
       /\ UNCHANGED <<accepted, late, state>>

Close == /\ state = "open"
         /\ state' = "closing"
         /\ UNCHANGED <<accepted, ran, late>>

Return == /\ state = "closing"
          /\ ran = Len(accepted)
          /\ state' = "closed"
          /\ UNCHANGED <<accepted, ran, late>>

Next == (\E i \in Tasks : Submit(i)) \/ Run \/ Close \/ Return

SafeSpec == Init /\ [][Next]_avars
Spec == SafeSpec /\ WF_avars(Run) /\ WF_avars(Return)
================================================================================
