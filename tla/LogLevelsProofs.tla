---------------------------- MODULE LogLevelsProofs -----------------------------
(* Proofs about LogLevels, for any finite set of levels.  While setHighest,    *)
(* enableAll or disableAll walks the map, the elements it has passed have the  *)
(* status that was asked for, and the walk gives the others theirs; an element *)
(* made by operator[] for an unknown level can only disturb INFO, for which it *)
(* stands.                                                                     *)
EXTENDS LogLevels, NaturalsInduction, WellFoundedInduction, TLAPS

(* The walk goes on with an element that is still to do.                       *)
LEMMA MinIsMember == ASSUME NEW S \in SUBSET Nat, S # {} PROVE Min(S) \in S
<1> DEFINE R == OpToRel(<, Nat)
<1>1. IsWellFoundedOn(R, Nat)
  BY NatLessThanWellFounded
<1>2. R = {pair \in Nat \X Nat : pair[1] < pair[2]}
  BY DEF OpToRel
<1> HIDE DEF R
<1>3. PICK x \in S : \A y \in S : ~ (<<y, x>> \in R)
  BY <1>1, WFMin
<1>4. ASSUME NEW y \in S PROVE x <= y
  <2>1. x \in Nat /\ y \in Nat /\ ~ (<<y, x>> \in R)
    BY <1>3
  <2> QED BY <1>2, <2>1
<1> QED BY <1>4 DEF Min

--------------------------------------------------------------------------------
(* A level that was added or set stands for itself; any other one in the map   *)
(* was logged without being known and stands for INFO.                         *)
EachStandsForItself ==
   /\ INFO \in DOMAIN wanted /\ DOMAIN wanted \subseteq DOMAIN g_log_levels
   /\ \A l \in DOMAIN wanted : g_log_levels[l].level = l
   /\ \A l \in DOMAIN g_log_levels \ DOMAIN wanted : stray /\ g_log_levels[l].level = INFO

(* What the walk does to an element is what was asked for its level. *)
WalkMakesItSo ==
   todo # {} => /\ walk \in Walks
                /\ \A l \in DOMAIN wanted :
                      wanted[l] = (IF walk.op = "highest" THEN l >= walk.from ELSE walk.status)

PassedAsWanted ==
   \A l \in Reliable \ todo : g_log_levels[l].status = wanted[l]

LevelsInv == TypeOK /\ EachStandsForItself /\ WalkMakesItSo /\ PassedAsWanted

(* The walk's next step gives its element the status that was asked for, and   *)
(* takes it from no other reliable one.                                        *)
LEMMA WalkOnIsRight ==
  ASSUME LevelsInv, WalkOn
  PROVE  /\ LevelsInv'
         /\ \A k \in Reliable : 
               g_log_levels'[k].status \in {wanted[k], g_log_levels[k].status}
<1> USE LogLevelsAssumption
<1> DEFINE l == Min(todo)
           at == g_log_levels[l].level
<1>1. /\ l \in todo /\ l \in DOMAIN g_log_levels /\ l \in Levels
      /\ at \in DOMAIN g_log_levels
      /\ todo' = todo \ {l} /\ wanted' = wanted /\ stray' = stray
      /\ walk' \in {walk, None} /\ (todo' # {} => walk' = walk)
      /\ walk \in Walks
  BY MinIsMember DEF LevelsInv, TypeOK, WalkOn, WalkMakesItSo
<1>2. CASE walk.op = "highest"
  <2>1. /\ g_log_levels' = With(g_log_levels, at, Element(at, l >= walk.from))
        /\ DOMAIN g_log_levels' = DOMAIN g_log_levels
        /\ \A k \in DOMAIN g_log_levels : 
              g_log_levels'[k] = IF k = at THEN Element(at, l >= walk.from) ELSE g_log_levels[k]
    BY <1>1, <1>2 DEF WalkOn, SetElement, Known, AtLeast, With
  <2>2. TypeOK'
    <3>1. Element(at, l >= walk.from) \in [status : BOOLEAN, level : DOMAIN g_log_levels]
      <4>1. CASE l >= walk.from
        BY <1>1, <4>1 DEF Element
      <4>2. CASE ~ (l >= walk.from)
        BY <1>1, <4>2 DEF Element
      <4> QED BY <4>1, <4>2
    <3> QED BY <1>1, <2>1, <3>1 DEF LevelsInv, TypeOK
  <2>3. EachStandsForItself'
    BY <1>1, <2>1 DEF LevelsInv, EachStandsForItself, Element
  <2>4. WalkMakesItSo'
    BY <1>1 DEF LevelsInv, WalkMakesItSo
  <2>5. CASE l \in DOMAIN wanted
    BY <1>1, <1>2, <2>1, <2>2, <2>3, <2>4, <2>5 
       DEF LevelsInv, PassedAsWanted, EachStandsForItself, Reliable, Element, WalkMakesItSo
  <2>6. CASE l \notin DOMAIN wanted
    BY <1>1, <1>2, <2>1, <2>2, <2>3, <2>4, <2>6 
       DEF LevelsInv, PassedAsWanted, EachStandsForItself, Reliable, Element
  <2> QED BY <2>5, <2>6
<1>3. CASE walk.op # "highest"
  <2>1. /\ g_log_levels' = [g_log_levels EXCEPT ![l].status = walk.status]
        /\ DOMAIN g_log_levels' = DOMAIN g_log_levels
        /\ walk.status \in BOOLEAN
        /\ \A k \in DOMAIN g_log_levels : 
              g_log_levels'[k] = IF k = l THEN [status |-> walk.status, level |-> at]
                                          ELSE g_log_levels[k]
    BY <1>1, <1>3 DEF WalkOn, Walks, LevelsInv, TypeOK
  <2>2. TypeOK'
    <3>1. ASSUME NEW k \in DOMAIN g_log_levels
          PROVE  g_log_levels'[k] \in [status : BOOLEAN, level : DOMAIN g_log_levels]
      <4>1. CASE k = l
        <5>1. walk.status \in BOOLEAN /\ at \in DOMAIN g_log_levels
          BY <1>1, <2>1
        <5>2. [status |-> walk.status, level |-> at] \in [status : BOOLEAN, level : DOMAIN g_log_levels]
          BY <5>1, Zenon
        <5> QED BY <2>1, <4>1, <5>2
      <4>2. CASE k # l
        BY <2>1, <4>2 DEF LevelsInv, TypeOK
      <4> QED BY <4>1, <4>2
    <3> QED BY <1>1, <2>1, <3>1 DEF LevelsInv, TypeOK
  <2>3. EachStandsForItself'
    BY <1>1, <2>1 DEF LevelsInv, TypeOK, EachStandsForItself, Element
  <2>4. WalkMakesItSo'
    BY <1>1 DEF LevelsInv, WalkMakesItSo
  <2> QED
    BY <1>1, <1>3, <2>1, <2>2, <2>3, <2>4
       DEF LevelsInv, TypeOK, PassedAsWanted, EachStandsForItself, Reliable, WalkMakesItSo
<1> QED BY <1>2, <1>3

(* Every other call keeps the invariant as well. *)
LEMMA LevelsInvInductive == /\ Init => LevelsInv
                            /\ LevelsInv /\ [Next]_vars => LevelsInv'
<1> USE LogLevelsAssumption
<1>1. ASSUME Init PROVE LevelsInv
  <2>1. TypeOK
    BY <1>1 DEF Init, DefaultLevels, Element, TypeOK, Range
  <2> QED BY <1>1, <2>1 DEF Init, DefaultLevels, Element, LevelsInv, EachStandsForItself,
            WalkMakesItSo, PassedAsWanted, Reliable
<1>2. ASSUME LevelsInv, [Next]_vars PROVE LevelsInv'
  <2> USE <1>2 DEF LevelsInv
  <2>1. ASSUME NEW l \in Levels, NEW enabled \in BOOLEAN, AddLogLevel(l, enabled) PROVE LevelsInv'
    <3>1. TypeOK'
      BY <2>1 DEF AddLogLevel, With, Element, TypeOK, Range
    <3> QED BY <2>1, <3>1 DEF AddLogLevel, With, Element, EachStandsForItself, WalkMakesItSo,
              PassedAsWanted, Reliable
  <2>2. ASSUME NEW l \in Levels, NEW enabled \in BOOLEAN, Set(l, enabled) PROVE LevelsInv'
    <3>1. TypeOK'
      BY <2>2 DEF Set, SetElement, Known, With, Element, TypeOK, Range
    <3> QED BY <2>2, <3>1 DEF Set, SetElement, Known, With, Element, EachStandsForItself,
              WalkMakesItSo, PassedAsWanted, Reliable
  <2>3. ASSUME NEW l \in Levels, SetHighest(l) PROVE LevelsInv'
    <3>1. Range(wanted') \subseteq BOOLEAN
      <4>1. ASSUME NEW k \in DOMAIN wanted PROVE wanted'[k] \in BOOLEAN
        <5>1. wanted'[k] = (k >= l)
          BY <2>3 DEF SetHighest
        <5>2. CASE k >= l
          BY <5>1, <5>2
        <5>3. CASE ~ (k >= l)
          BY <5>1, <5>3
        <5> QED BY <5>2, <5>3
      <4>2. DOMAIN wanted' = DOMAIN wanted
        BY <2>3 DEF SetHighest
      <4> QED BY <4>1, <4>2, Zenon DEF Range
    <3>2. TypeOK'
      BY <2>3, <3>1 DEF SetHighest, Known, Walks, TypeOK
    <3>3. EachStandsForItself' /\ PassedAsWanted'
      BY <2>3 DEF SetHighest, EachStandsForItself, PassedAsWanted, Reliable
    <3>4. WalkMakesItSo'
      <4>1. walk' = [op |-> "highest", from |-> l] /\ l \in Levels
        BY <2>3 DEF SetHighest
      <4>2. walk'.op = "highest" /\ walk'.from = l /\ walk' \in Walks
        BY <4>1 DEF Walks
      <4> QED BY <2>3, <4>2 DEF SetHighest, WalkMakesItSo
    <3> QED BY <3>2, <3>3, <3>4
  <2>4. ASSUME NEW l \in Levels, LogUnknown(l) PROVE LevelsInv'
    <3>1. TypeOK'
      BY <2>4 DEF LogUnknown, Known, With, DefaultConstructed, Element, TypeOK, EachStandsForItself
    <3> QED BY <2>4, <3>1 DEF LogUnknown, Known, With, DefaultConstructed, Element,
              EachStandsForItself, WalkMakesItSo, PassedAsWanted, Reliable
  <2>5. ASSUME NEW status \in BOOLEAN, SetAll(status) PROVE LevelsInv'
    <3>1. Range(wanted') \subseteq BOOLEAN
      BY <2>5 DEF SetAll, Range
    <3>2. TypeOK'
      <4>1. walk' = [op |-> "all", status |-> status]
        BY <2>5 DEF SetAll
      <4>2. walk' \in [op : {"all"}, status : BOOLEAN]
        BY <4>1
      <4>3. walk' \in Walks
        BY <4>2, Zenon DEF Walks
      <4> QED BY <2>5, <3>1, <4>3 DEF SetAll, TypeOK
    <3>3. EachStandsForItself' /\ PassedAsWanted'
      BY <2>5 DEF SetAll, EachStandsForItself, PassedAsWanted, Reliable
    <3>4. WalkMakesItSo'
      <4>1. walk' = [op |-> "all", status |-> status]
        BY <2>5 DEF SetAll
      <4>2. walk'.op # "highest" /\ walk'.status = status /\ walk' \in Walks
        BY <4>1 DEF Walks
      <4> QED BY <2>5, <4>2 DEF SetAll, WalkMakesItSo
    <3> QED BY <3>2, <3>3, <3>4
  <2>6. CASE Reset
    BY <2>6 DEF Reset, DefaultLevels, Element, TypeOK, EachStandsForItself, WalkMakesItSo,
         PassedAsWanted, Reliable, Range
  <2>7. CASE WalkOn
    BY <2>7, WalkOnIsRight
  <2>8. CASE UNCHANGED vars
    BY <2>8 DEF vars, TypeOK, EachStandsForItself, WalkMakesItSo, PassedAsWanted, Reliable
  <2> QED BY <2>1, <2>2, <2>3, <2>4, <2>5, <2>6, <2>7, <2>8 DEF Next
<1> QED BY <1>1, <1>2

--------------------------------------------------------------------------------
(* The map, the walk and what the calls asked for keep their types: every      *)
(* element, whoever made it, stands for a level that is in the map as well, so *)
(* that setHighest finds what it looks up while it walks.                      *)
THEOREM TypeCorrect == Spec => []TypeOK
<1>1. LevelsInv => TypeOK
  BY DEF LevelsInv
<1> QED BY <1>1, LevelsInvInductive, PTL DEF Spec

(* Between calls every level has the status that the calls so far have asked   *)
(* for, whatever unknown levels were logged (but for INFO, once one was).      *)
THEOREM StatusAlwaysAsWanted == Spec => []StatusAsWanted
<1>1. LevelsInv => StatusAsWanted
  BY DEF LevelsInv, PassedAsWanted, StatusAsWanted
<1> QED BY <1>1, LevelsInvInductive, PTL DEF Spec

(* While setHighest, enableAll or disableAll walks the levels, no LOG call sees *)
(* a status that is neither the one before nor the one asked for: a level that *)
(* has the right one keeps it.                                                 *)
THEOREM NeverGlitches == Spec => NoGlitch
<1> DEFINE Keeps == \A l \in Reliable :
              (todo \cup todo') # {} /\ g_log_levels[l].status = wanted'[l]
                  => g_log_levels'[l].status = wanted'[l]
<1>1. ASSUME LevelsInv, Next PROVE Keeps \/ UNCHANGED vars
  <2>1. CASE WalkOn
    <3>1. wanted' = wanted
      BY <2>1 DEF WalkOn
    <3> QED BY <1>1, <2>1, <3>1, WalkOnIsRight
  <2>2. CASE todo' # {} /\ ~WalkOn
    BY <1>1, <2>2 DEF Next, AddLogLevel, Set, SetHighest, LogUnknown, SetAll, Reset
  <2>3. CASE todo' = {} /\ ~WalkOn
    BY <1>1, <2>3 DEF Next, AddLogLevel, Set, SetHighest, LogUnknown, SetAll, Reset
  <2> QED BY <2>1, <2>2, <2>3
<1>2. LevelsInv /\ [Next]_vars => [Keeps]_vars
  BY <1>1
<1> QED BY <1>2, LevelsInvInductive, PTL DEF Spec, NoGlitch
================================================================================
