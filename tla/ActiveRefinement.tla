--------------------------- MODULE ActiveRefinement ----------------------------
(* Active implements ActiveObject: the tasks accepted are those before Done in *)
(* the order of the pushes, and the destructor closes and returns as a whole.  *)
EXTENDS Active

Stopping == life # "alive"

(* Where the destructor's own task is among the elements p. *)
PlaceOfDone(p) == CHOOSE n \in 1..Len(p) : p[n] = Done

(* Number of tasks sent before the destructor's own. *)
Accepted == IF Stopping THEN PlaceOfDone(pushed) - 1 ELSE Len(pushed)

(* The variables of ActiveObject. *)
accepted == SubSeq(pushed, 1, Accepted)
ran == IF Finished < Accepted THEN Finished ELSE Accepted
late == {pushed[n] : n \in (Accepted + 2)..Len(pushed)}
state == CASE life = "alive" -> "open"
           [] life \in {"stopping", "joined"} -> "closing"
           [] OTHER -> "closed"

AO == INSTANCE ActiveObject
        WITH accepted <- accepted, ran <- ran, late <- late, state <- state

(* The queue, the condition variable and the destructor's task together give  *)
(* what ActiveObject promises, progress included.                             *)
ImplementsActiveObject == AO!Spec
================================================================================
