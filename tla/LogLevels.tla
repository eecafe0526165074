------------------------------- MODULE LogLevels -------------------------------
(******************************************************************************)
(* Dynamic logging levels: src/src/loglevels.cpp and g3log/loglevels.hpp,     *)
(* built with G3_DYNAMIC_LOGGING.                                             *)
(*                                                                            *)
(* g_log_levels maps the value of a level to its status and to the level it   *)
(* stands for.  LOG tests a level with operator[], which inserts an unknown   *)
(* value as {disabled, INFO}.  The functions that change many levels walk the *)
(* map element by element while other threads log; such a walk is a loop here.*)
(* Insertions race with a walk and with each other on a std::map: a LOG call  *)
(* of an unknown level is made here only while nobody walks.                  *)
(******************************************************************************)
EXTENDS Integers, FiniteSets, FiniteSetsExt, Functions

CONSTANTS Levels,    \* the values of the levels that the program uses
          Defaults,  \* those in g_log_level_defaults
          INFO,      \* the value in a default-constructed LoggingLevel
          None

ASSUME LogLevelsAssumption == /\ Levels \subseteq Nat /\ IsFiniteSet(Levels)
                              /\ INFO \in Defaults /\ Defaults \subseteq Levels
                              /\ None \notin Levels

VARIABLES g_log_levels,  \* level value -> [status, level]
          todo,          \* the keys that the walk under way has not reached
          walk,          \* that walk: what it does to each element
          \* history
          wanted,        \* the status last asked for, by level
          stray          \* an unknown level was logged since the last reset

vars == <<g_log_levels, todo, walk, wanted, stray>>

Walks == [op : {"highest"}, from : Levels] \cup [op : {"all"}, status : BOOLEAN]

(* Every element stands for a level that is in the map as well. *)
TypeOK == /\ DOMAIN g_log_levels \subseteq Levels
          /\ \A l \in DOMAIN g_log_levels : 
                g_log_levels[l] \in [status : BOOLEAN, level : DOMAIN g_log_levels]
          /\ todo \subseteq DOMAIN g_log_levels
          /\ walk \in Walks \cup {None}
          /\ DOMAIN wanted \subseteq Levels /\ Range(wanted) \subseteq BOOLEAN
          /\ stray \in BOOLEAN

Element(l, status) == [status |-> status, level |-> l]

With(f, l, x) == [k \in DOMAIN f \cup {l} |-> IF k = l THEN x ELSE f[k]]

(* g_log_level_defaults *)
DefaultLevels == [l \in Defaults |-> Element(l, TRUE)]

Init == /\ g_log_levels = DefaultLevels
        /\ todo = {} /\ walk = None
        /\ wanted = [l \in Defaults |-> TRUE]
        /\ stray = FALSE

Known(l) == l \in DOMAIN g_log_levels

--------------------------------------------------------------------------------
(* only_change_at_initialization *)

AddLogLevel(l, enabled) == /\ todo = {}
                           /\ g_log_levels' = With(g_log_levels, l, Element(l, enabled))
                           /\ wanted' = With(wanted, l, enabled)
                           /\ UNCHANGED <<todo, walk, stray>>

Reset == /\ todo = {}
         /\ g_log_levels' = DefaultLevels
         /\ wanted' = [l \in Defaults |-> TRUE]
         /\ stray' = FALSE
         /\ UNCHANGED <<todo, walk>>

--------------------------------------------------------------------------------
(* log_levels *)

(* set: an unknown level is left alone. *)
SetElement(l, enabled) == IF Known(l) THEN With(g_log_levels, l, Element(l, enabled))
                                      ELSE g_log_levels

Set(l, enabled) == /\ todo = {} /\ Known(l)
                   /\ g_log_levels' = SetElement(l, enabled)
                   /\ wanted' = With(wanted, l, enabled)
                   /\ UNCHANGED <<todo, walk, stray>>

(* What setHighest makes of a level.  Mutant: off by one. *)
AboveOnly(l, from) == l > from
AtLeast(l, from) == l >= from

(* setHighest begins its loop.  Mutant: everything is switched off first. *)
SetHighestFromScratch(from) == 
   /\ todo = {} /\ Known(from)
   /\ todo' = DOMAIN g_log_levels
   /\ walk' = [op |-> "highest", from |-> from]
   /\ g_log_levels' = [l \in DOMAIN g_log_levels |-> Element(g_log_levels[l].level, FALSE)]
   /\ wanted' = [l \in DOMAIN wanted |-> l >= from]
   /\ UNCHANGED stray

SetHighest(from) == /\ todo = {} /\ Known(from)
                    /\ todo' = DOMAIN g_log_levels
                    /\ walk' = [op |-> "highest", from |-> from]
                    /\ wanted' = [l \in DOMAIN wanted |-> l >= from]
                    /\ UNCHANGED <<g_log_levels, stray>>

(* enableAll and disableAll begin theirs. *)
SetAll(status) == /\ todo = {}
                  /\ todo' = DOMAIN g_log_levels
                  /\ walk' = [op |-> "all", status |-> status]
                  /\ wanted' = [l \in DOMAIN wanted |-> status]
                  /\ UNCHANGED <<g_log_levels, stray>>

(* The loop's next element, in the order of the map: setHighest calls enable  *)
(* or disable with the level that the element stands for, the others store    *)
(* the status in the element itself.                                          *)
WalkOn == /\ todo # {}
          /\ LET l == Min(todo) IN
             /\ todo' = todo \ {l}
             /\ g_log_levels' = IF walk.op = "highest"
                                THEN SetElement(g_log_levels[l].level, AtLeast(l, walk.from))
                                ELSE [g_log_levels EXCEPT ![l].status = walk.status]
          /\ walk' = IF todo' = {} THEN None ELSE walk
          /\ UNCHANGED <<wanted, stray>>

--------------------------------------------------------------------------------
(* LoggingLevel(). *)
DefaultConstructed == Element(INFO, FALSE)

(* logLevel: LOG with a level that is not in the map inserts a default         *)
(* LoggingLevel.  A known level is only read.                                  *)
LogUnknown(l) == /\ todo = {} /\ ~Known(l)
                 /\ g_log_levels' = With(g_log_levels, l, DefaultConstructed)
                 /\ stray' = TRUE
                 /\ UNCHANGED <<todo, walk, wanted>>

Next == \/ \E l \in Levels : \/ \E enabled \in BOOLEAN : AddLogLevel(l, enabled) \/ Set(l, enabled)
                             \/ SetHighest(l)
                             \/ LogUnknown(l)
        \/ \E status \in BOOLEAN : SetAll(status)
        \/ Reset
        \/ WalkOn

Spec == Init /\ [][Next]_vars

--------------------------------------------------------------------------------
(* The levels whose status the program can rely on: all that it has added or   *)
(* set, but not INFO once an unknown level was logged: the element made for    *)
(* that level stands for INFO, and setHighest switches INFO by its key.        *)
Reliable == DOMAIN wanted \ (IF stray THEN {INFO} ELSE {})

(* Between calls every level that was added or set has the status that the     *)
(* calls so far have asked for, setHighest and its loop included, whatever     *)
(* unknown levels are logged in between.                                       *)
StatusAsWanted ==
   todo = {} => \A l \in Reliable : g_log_levels[l].status = wanted[l]

(* While setHighest, enableAll or disableAll walks the levels, a level that    *)
(* has the right status already keeps it: a LOG call made meanwhile is neither *)
(* dropped nor let through if it would be the same before and after.           *)
NoGlitch ==
   [][\A l \in Reliable : 
         (todo \cup todo') # {} /\ g_log_levels[l].status = wanted'[l]
            => g_log_levels'[l].status = wanted'[l]]_vars

(* "log levels below will be disabled, log levels equal or higher will be      *)
(* enabled" (loglevels.hpp:171-172), for all levels that the program has added *)
(* or set: not for INFO once a level that is unknown was logged.               *)
SetHighestAsDocumented ==
   [][walk # None /\ walk.op = "highest" /\ walk' = None =>
         \A l \in DOMAIN wanted : g_log_levels'[l].status <=> l >= walk.from]_vars
================================================================================
