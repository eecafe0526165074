------------------------- MODULE CrashHandlerWindowsProofs ---------------------
(* Proofs about CrashHandlerWindows, for any threads, signals and exceptions,  *)
(* any number of events and any depth of the stacks.  First what a step does   *)
(* to the stack of a thread, then to the actions of signals; each part of the  *)
(* invariant follows from these, not from the actions one by one.              *)
EXTENDS CrashHandlerWindows, SequenceTheorems, FiniteSetTheorems, TLAPS

(* What a step does to the stack of a thread: it changes where the frame on    *)
(* top is, adds a frame, does both, takes one away, or unwinds all of them.    *)
Elsewhere(t) == \A u \in All \ {t} : stack'[u] = stack[u]
SameFrame(t, n) == stack'[t][n].kind = stack[t][n].kind /\ stack'[t][n].id = stack[t][n].id
Below(t) == \A n \in 1..(Len(stack[t]) - 1) : stack'[t][n] = stack[t][n]

MovesTo(t, at) ==
   /\ Elsewhere(t) /\ Len(stack'[t]) = Len(stack[t]) /\ Below(t)
   /\ SameFrame(t, Len(stack[t])) /\ stack'[t][Len(stack[t])].at = at

Opens(t, f) ==
   /\ Elsewhere(t) /\ Len(stack'[t]) = Len(stack[t]) + 1
   /\ \A n \in 1..Len(stack[t]) : stack'[t][n] = stack[t][n]
   /\ stack'[t][Len(stack[t]) + 1] = f

MovesAndOpens(t, at, f) ==
   /\ Elsewhere(t) /\ Len(stack'[t]) = Len(stack[t]) + 1 /\ Below(t)
   /\ SameFrame(t, Len(stack[t])) /\ stack'[t][Len(stack[t])].at = at
   /\ stack'[t][Len(stack[t]) + 1] = f

Closes(t) ==
   /\ Elsewhere(t) /\ Len(stack'[t]) = Len(stack[t]) - 1 /\ Below(t)

(* The frames of a thread. *)
LEMMA StackTypes ==
  ASSUME StacksOK, NEW t \in All
  PROVE  /\ stack[t] \in Seq(Frames) /\ Len(stack[t]) \in Nat /\ DOMAIN stack[t] = 1..Len(stack[t])
         /\ \A n \in 1..Len(stack[t]) : stack[t][n] \in Frames
         /\ stack[t] # <<>> => Len(stack[t]) \in 1..Len(stack[t]) /\ Len(stack[t]) # 0
         /\ stack[t] = <<>> => Len(stack[t]) = 0
<1>1. stack[t] \in Seq(Frames)
  BY DEF StacksOK
<1> QED BY <1>1, LenProperties, EmptySeq

(* At moves the frame on top and keeps what it is. *)
LEMMA AtMoves ==
  ASSUME StacksOK, NEW t \in All, stack[t] # <<>>, NEW at \in Places
  PROVE  /\ At(t, at) \in [All -> Seq(Frames)]
         /\ stack' = At(t, at) => MovesTo(t, at)
<1> DEFINE k == Len(stack[t])
           f == [stack[t][k] EXCEPT !.at = at]
<1>1. k \in 1..Len(stack[t]) /\ stack[t] \in Seq(Frames) /\ stack[t][k] \in Frames /\ k \in Nat
  BY StackTypes
<1>2. f \in Frames /\ f.kind = stack[t][k].kind /\ f.id = stack[t][k].id /\ f.at = at
  BY <1>1 DEF Frames
<1>3. At(t, at) = [stack EXCEPT ![t] = [stack[t] EXCEPT ![k] = f]]
  BY DEF At, StacksOK
<1>4. [stack[t] EXCEPT ![k] = f] \in Seq(Frames) /\ Len([stack[t] EXCEPT ![k] = f]) = k
  BY <1>1, <1>2, ExceptSeq
<1>5. At(t, at) \in [All -> Seq(Frames)]
  BY <1>3, <1>4 DEF StacksOK
<1>6. ASSUME stack' = At(t, at)
      PROVE  MovesTo(t, at)
  <2>1. stack'[t] = [stack[t] EXCEPT ![k] = f] /\ Elsewhere(t)
    BY <1>3, <1>6 DEF StacksOK, Elsewhere
  <2>2. DOMAIN stack[t] = 1..k
    BY StackTypes
  <2> QED BY <1>1, <1>2, <1>4, <2>1, <2>2 DEF MovesTo, Below, SameFrame
<1> QED BY <1>5, <1>6

(* The same when it also gives the exception to a handler. *)
LEMMA GivenMoves ==
  ASSUME StacksOK, NEW t \in All, stack[t] # <<>>, NEW at \in Places,
         NEW h \in Handles \cup {Filter}
  PROVE  /\ Given(t, h, at) \in [All -> Seq(Frames)]
         /\ stack' = Given(t, h, at) => MovesTo(t, at)
<1> DEFINE k == Len(stack[t])
           f == [stack[t][k] EXCEPT !.at = at, !.given = @ \cup {h}]
<1>1. k \in 1..Len(stack[t]) /\ stack[t] \in Seq(Frames) /\ stack[t][k] \in Frames /\ k \in Nat
  BY StackTypes
<1>2. f \in Frames /\ f.kind = stack[t][k].kind /\ f.id = stack[t][k].id /\ f.at = at
  BY <1>1 DEF Frames
<1>3. Given(t, h, at) = [stack EXCEPT ![t] = [stack[t] EXCEPT ![k] = f]]
  BY <1>1 DEF Given, StacksOK
<1>4. [stack[t] EXCEPT ![k] = f] \in Seq(Frames) /\ Len([stack[t] EXCEPT ![k] = f]) = k
  BY <1>1, <1>2, ExceptSeq
<1>5. Given(t, h, at) \in [All -> Seq(Frames)]
  BY <1>3, <1>4 DEF StacksOK
<1>6. ASSUME stack' = Given(t, h, at)
      PROVE  MovesTo(t, at)
  <2>1. stack'[t] = [stack[t] EXCEPT ![k] = f] /\ Elsewhere(t)
    BY <1>3, <1>6 DEF StacksOK, Elsewhere
  <2>2. DOMAIN stack[t] = 1..k
    BY StackTypes
  <2> QED BY <1>1, <1>2, <1>4, <2>1, <2>2 DEF MovesTo, Below, SameFrame
<1> QED BY <1>5, <1>6

(* Push adds a frame and keeps those below. *)
LEMMA PushOpens ==
  ASSUME StacksOK, NEW t \in All, NEW f \in Frames
  PROVE  /\ Push(stack, t, f) \in [All -> Seq(Frames)]
         /\ stack' = Push(stack, t, f) => Opens(t, f)
<1>1. stack[t] \in Seq(Frames) /\ Append(stack[t], f) \in Seq(Frames)
  BY StackTypes, AppendProperties
<1>2. Push(stack, t, f) \in [All -> Seq(Frames)]
  BY <1>1 DEF Push, StacksOK
<1>3. stack' = Push(stack, t, f) => stack'[t] = Append(stack[t], f) /\ Elsewhere(t)
  BY DEF Push, StacksOK, Elsewhere
<1> QED BY <1>1, <1>2, <1>3, AppendProperties DEF Opens

(* A handler that runs on top of a frame that has moved. *)
LEMMA PushAfterMove ==
  ASSUME StacksOK, NEW t \in All, stack[t] # <<>>, NEW at \in Places, NEW f \in Frames,
         NEW stacks \in [All -> Seq(Frames)],
         \A u \in All \ {t} : stacks[u] = stack[u],
         Len(stacks[t]) = Len(stack[t]),
         \A n \in 1..(Len(stack[t]) - 1) : stacks[t][n] = stack[t][n],
         stacks[t][Len(stack[t])].kind = stack[t][Len(stack[t])].kind,
         stacks[t][Len(stack[t])].id = stack[t][Len(stack[t])].id,
         stacks[t][Len(stack[t])].at = at
  PROVE  /\ Push(stacks, t, f) \in [All -> Seq(Frames)]
         /\ stack' = Push(stacks, t, f) => MovesAndOpens(t, at, f)
<1>1. stacks[t] \in Seq(Frames) /\ Append(stacks[t], f) \in Seq(Frames)
  BY AppendProperties
<1>2. Push(stacks, t, f) \in [All -> Seq(Frames)]
  BY <1>1 DEF Push
<1>3. stack' = Push(stacks, t, f) => stack'[t] = Append(stacks[t], f) /\ Elsewhere(t)
  BY DEF Push, Elsewhere
<1>4. Len(stack[t]) \in 1..Len(stack[t]) /\ Len(stack[t]) \in Nat
  BY StackTypes
<1>5. /\ Len(Append(stacks[t], f)) = Len(stack[t]) + 1
      /\ Append(stacks[t], f)[Len(stack[t]) + 1] = f
      /\ \A n \in 1..Len(stack[t]) : Append(stacks[t], f)[n] = stacks[t][n]
  BY <1>1, AppendProperties
<1>6. ASSUME stack' = Push(stacks, t, f)
      PROVE  MovesAndOpens(t, at, f)
  <2>1. stack'[t] = Append(stacks[t], f)
    BY <1>3, <1>6
  <2>2. \A n \in 1..(Len(stack[t]) - 1) : stack'[t][n] = stack[t][n]
    BY <1>4, <1>5, <2>1
  <2>3. stack'[t][Len(stack[t])] = stacks[t][Len(stack[t])]
    BY <1>4, <1>5, <2>1
  <2> QED BY <1>3, <1>5, <1>6, <2>1, <2>2, <2>3 DEF MovesAndOpens, Below, SameFrame
<1> QED BY <1>2, <1>6

(* Popped takes the frame on top away. *)
LEMMA PoppedCloses ==
  ASSUME StacksOK, NEW t \in All, stack[t] # <<>>
  PROVE  /\ Popped(t) \in [All -> Seq(Frames)]
         /\ stack' = Popped(t) => Closes(t)
<1> DEFINE k == Len(stack[t])
           rest == SubSeq(stack[t], 1, k - 1)
<1>1. k \in 1..Len(stack[t]) /\ stack[t] \in Seq(Frames) /\ k \in Nat
  BY StackTypes
<1>2. rest \in Seq(Frames) /\ Len(rest) = k - 1 /\ \A n \in 1..(k - 1) : rest[n] = stack[t][n]
  BY <1>1, SubSeqProperties
<1>3. Popped(t) = [stack EXCEPT ![t] = rest]
  BY DEF Popped
<1>4. Popped(t) \in [All -> Seq(Frames)]
  BY <1>2, <1>3 DEF StacksOK
<1>5. stack' = Popped(t) => stack'[t] = rest /\ Elsewhere(t)
  BY <1>3 DEF StacksOK, Elsewhere
<1> QED BY <1>2, <1>4, <1>5 DEF Closes, Below

--------------------------------------------------------------------------------
(* initializeLogging installs beyond the bound on the other calls, but once.   *)
HandleInv == once \/ handle <= MaxInstalls

(* A thread that is to raise has restored, and the signal it is to raise has   *)
(* its default action unless a thread installed its handlers since.            *)
RaiseInv ==
   \A t \in All : \A n \in 1..Len(stack[t]) :
      /\ stack[t][n].at \in {"raise", "raised"} => past.restored
      /\ stack[t][n].at = "raise" => /\ stack[t][n].id \in Signals
                                     /\ past.late \/ action[t][stack[t][n].id] = "default"

(* The frames that the actions make. *)
LEMMA FrameTypes ==
  ASSUME NEW kind \in {"log", "signal", "exception", "exit"},
         NEW id \in Signals \cup Exceptions, NEW at \in Places,
         kind \in {"log", "signal"} => id \in Signals,
         kind = "exception" => id \in Exceptions
  PROVE  /\ Frame(kind, id, at) \in Frames
         /\ Frame(kind, id, at).kind = kind /\ Frame(kind, id, at).id = id
         /\ Frame(kind, id, at).at = at
BY DEF Frame, Frames

(* signal() leaves actions of signals. *)
LEMMA SetActionTypes ==
  ASSUME InstalledOK, NEW t \in All, NEW set, NEW to \in {"g3", "default"}
  PROVE  SetAction(t, set, to) \in [All -> [Signals -> {"g3", "default"}]]
BY DEF SetAction, InstalledOK

(* After SIGNAL_HANDLER_VERIFY the handlers of the thread are installed. *)
LEMMA InstallTypes ==
  ASSUME InstalledOK, NEW t \in All, InstallSignalHandlerForThread(t)
  PROVE  /\ action' \in [All -> [Signals -> {"g3", "default"}]]
         /\ installed' \in [All -> BOOLEAN] /\ installed'[t]
         /\ \A u \in All : installed[u] => installed'[u]
<1>1. CASE installed[t]
  BY <1>1 DEF InstallSignalHandlerForThread, InstalledOK
<1>2. CASE ~installed[t]
  <2>1. action' \in [All -> [Signals -> {"g3", "default"}]]
    BY <1>2, SetActionTypes DEF InstallSignalHandlerForThread
  <2>2. installed' = [installed EXCEPT ![t] = TRUE] /\ installed \in [All -> BOOLEAN]
    BY <1>2 DEF InstallSignalHandlerForThread, InstalledOK
  <2> QED BY <2>1, <2>2
<1> QED BY <1>1, <1>2

(* The handles that AddVectoredExceptionHandler gives never run out, for        *)
(* initializeLogging installs once.                                             *)
LEMMA InstalledStep ==
  ASSUME TypeOK, HandleInv, RaiseInv, [Next]_vars PROVE InstalledOK' /\ HandleInv'
<1> USE DEF HandleInv
<1>1. ASSUME NEW t \in All, RestoreFatalHandlingToDefault(t), process' = process,
             UNCHANGED <<once, active>>, block' \in BOOLEAN
      PROVE  InstalledOK' /\ HandleInv'
  BY <1>1, SetActionTypes DEF RestoreFatalHandlingToDefault, TypeOK, InstalledOK
<1>2. ASSUME NEW t \in All, InstallSignalHandlerForThread(t),
             UNCHANGED <<once, active, block, filter, previous, vectored, handle, process>>
      PROVE  InstalledOK' /\ HandleInv'
  BY <1>2, InstallTypes DEF TypeOK, InstalledOK
<1>3. ASSUME NEW t \in All, NEW s \in Signals, NEW stacks, Raise(t, s, stacks),
             UNCHANGED <<once, active, block>>
      PROVE  InstalledOK' /\ HandleInv'
  BY <1>3, SetActionTypes DEF Raise, Ends, handlers, TypeOK, InstalledOK
<1>4. ASSUME UNCHANGED <<once, handlers>>, active' \in BOOLEAN, block' \in BOOLEAN,
             process' \in {process, "ended"}
      PROVE  InstalledOK' /\ HandleInv'
  BY <1>4 DEF handlers, TypeOK, InstalledOK
<1>5. ASSUME NEW t \in Threads, InstallCrashHandler(t), UNCHANGED <<block, process>>,
             once' \in BOOLEAN, active' \in BOOLEAN,
             handle + 1 \in Handles, once' \/ handle + 1 <= MaxInstalls
      PROVE  InstalledOK' /\ HandleInv'
  <2>1. t \in All
    BY DEF All
  <2>2. InstallSignalHandlerForThread(t)
    BY <1>5 DEF InstallCrashHandler
  <2> QED BY <1>5, <2>1, <2>2, InstallTypes DEF InstallCrashHandler, TypeOK, InstalledOK
<1>6. handle \in Nat /\ MaxInstalls \in Nat
  BY WindowsAssumption DEF TypeOK, InstalledOK, Handles
<1>7. ASSUME NEW t \in Threads, InitializeLogging(t) PROVE InstalledOK' /\ HandleInv'
  <2>1. CASE once
    BY <1>7, <1>4, <2>1 DEF InitializeLogging, TypeOK, InstalledOK
  <2>2. CASE ~once
    <3>1. handle + 1 \in Handles
      BY <1>6, <2>2 DEF Handles
    <3> QED BY <1>5, <1>7, <2>2, <3>1 DEF InitializeLogging, TypeOK, InstalledOK
  <2> QED BY <2>1, <2>2
<1>8. ASSUME NEW t \in Threads, InstallAgain(t) PROVE InstalledOK' /\ HandleInv'
  <2>1. handle + 1 \in Handles /\ handle + 1 <= MaxInstalls
    BY <1>6, <1>8 DEF Handles, InstallAgain
  <2> QED BY <1>5, <1>8, <2>1 DEF InstallAgain, TypeOK, InstalledOK
<1>9. ASSUME NEW t \in Threads, Log(t) PROVE InstalledOK' /\ HandleInv'
  BY <1>9, <1>2 DEF Log, All
<1>10. ASSUME NEW t \in Threads, LogFatal(t) \/ \E e \in Exceptions : Fault(t, e)
       PROVE  InstalledOK' /\ HandleInv'
  BY <1>10, <1>4 DEF LogFatal, Fault, Crash, TypeOK, InstalledOK
<1>11. ASSUME NEW t \in Threads, NEW s \in Signals, RaiseSignal(t, s)
       PROVE  InstalledOK' /\ HandleInv'
  BY <1>11, <1>3 DEF RaiseSignal, Crash, All
<1>12. CASE ShutDown \/ BgFatal
  BY <1>12, <1>4 DEF ShutDown, BgFatal, TypeOK, InstalledOK
<1>13. ASSUME NEW t \in All, Vectored(t) \/ Unhandled(t) PROVE InstalledOK' /\ HandleInv'
  BY <1>13, <1>1, <1>4 DEF Vectored, Unhandled, VectorExceptionHandling, Handled, Ends,
                           TypeOK, InstalledOK
<1>14. ASSUME NEW t \in All,
              Except(t) \/ NobodyHandles(t) \/ Dump(t) \/ Walk(t) \/ Gone(t) \/ Released(t)
              \/ ExitReturns(t) \/ Relock(t) \/ WalkFaults(t)
       PROVE  InstalledOK' /\ HandleInv'
  BY <1>14, <1>4 DEF Except, NobodyHandles, Dump, Walk, Gone, Released, ExitReturns, Relock,
                     WalkFaults, Handled, InCall, Ends, TypeOK, InstalledOK
<1>15. ASSUME NEW t \in All, Runtime(t) PROVE InstalledOK' /\ HandleInv'
  <2> DEFINE s == SignalOf[Top(t).id]
  <2>1. CASE s # None /\ action[t][s] = "g3"
    <3>1. Top(t).id \in Exceptions
      BY <1>15, StackTypes DEF Runtime, Handled, In, Top, Frames, TypeOK
    <3>2. s \in Signals
      BY <2>1, <3>1, WindowsAssumption DEF Signals
    <3> QED BY <1>15, <2>1, <3>2, <1>3 DEF Runtime, Handled
  <2>2. CASE ~(s # None /\ action[t][s] = "g3")
    BY <1>15, <2>2, <1>4 DEF Runtime, Handled, TypeOK, InstalledOK
  <2> QED BY <2>1, <2>2
<1>16. ASSUME NEW t \in All, Save(t) PROVE InstalledOK' /\ HandleInv'
  BY <1>16, <1>2 DEF Save, InCall
<1>17. ASSUME NEW t \in All, Exit(t) PROVE InstalledOK' /\ HandleInv'
  BY <1>17, <1>1 DEF Exit, InCall, TypeOK, InstalledOK
<1>18. ASSUME NEW t \in All, ExitRaises(t) PROVE InstalledOK' /\ HandleInv'
  <2>1. Top(t).id \in Signals
    BY <1>18, StackTypes DEF ExitRaises, InCall, In, Top, RaiseInv, TypeOK
  <2> QED BY <1>18, <1>3, <2>1 DEF ExitRaises, InCall
<1>19. CASE UNCHANGED vars
  BY <1>19, <1>4 DEF vars, TypeOK, InstalledOK
<1> QED BY <1>7, <1>8, <1>9, <1>10, <1>11, <1>12, <1>13, <1>14, <1>15, <1>16, <1>17, <1>18,
           <1>19 DEF Next, GoesOn

(* The callers of a fatal event are let go after handlers were restored.      *)
BlockInv == block \/ past.restored

Rests == UNCHANGED <<stack, holder>>
Starts(t) == /\ stack[t] = <<>> /\ holder' = holder
             /\ \E f \in Frames : f.at \in {"dump", "handlers", "restore"} /\ Opens(t, f)
Proceeds(t) == /\ stack[t] # <<>> /\ Top(t).at # "walk" /\ holder' = holder
               /\ \E at \in Places \ {"walk", "gone", "raised", "raise"} : MovesTo(t, at)
TurnsToRaise(t) == /\ stack[t] # <<>> /\ Top(t).at # "walk" /\ holder' = holder /\ past'.restored
                   /\ Top(t).id \in Signals /\ action'[t][Top(t).id] = "default"
                   /\ MovesTo(t, "raise")
Locks(t) == stack[t] # <<>> /\ holder = None /\ holder' = t /\ MovesTo(t, "walk")
Unlocks(t) == stack[t] # <<>> /\ Top(t).at = "walk" /\ holder' = None /\ MovesTo(t, "save")
Unwinds(t) == /\ stack[t] # <<>> /\ Top(t).kind = "exception" /\ holder # t /\ holder' = holder
              /\ Elsewhere(t) /\ stack'[t] = <<>>
Crashes(t) == /\ stack[t] # <<>> /\ Top(t).at \in {"walk", "gone"} /\ holder' = holder
              /\ \E f \in Frames : f.kind = "exception" /\ f.at = "handlers" /\ Opens(t, f)
Calls(t) == /\ stack[t] # <<>> /\ Top(t).at # "walk" /\ holder' = holder
            /\ \E f \in Frames, at \in {"handlers", "gone", "raised"} :
                  /\ f.kind \in {"signal", "exit"} /\ f.at \in {"dump", "restore"}
                  /\ at = "raised" => past.restored
                  /\ MovesAndOpens(t, at, f)
Leaves(t) == /\ stack[t] # <<>> /\ Top(t).at # "walk" /\ holder' = holder /\ past'.restored
             /\ Closes(t)

StackStep(t) == \/ Starts(t) \/ Proceeds(t) \/ TurnsToRaise(t) \/ Locks(t) \/ Unlocks(t)
                \/ Unwinds(t) \/ Crashes(t) \/ Calls(t) \/ Leaves(t)

(* Where a thread is, its frame on top says. *)
LEMMA InIsOnTop ==
  ASSUME StacksOK, NEW t \in All, NEW at, In(t, at)
  PROVE  stack[t] # <<>> /\ Top(t) \in Frames /\ Top(t).at = at
BY StackTypes DEF In, Top

(* What raising a signal does to the stacks. *)
LEMMA RaisePushes ==
  ASSUME NEW t \in All, NEW s \in Signals, NEW stacks, Raise(t, s, stacks)
  PROVE  stack' = stack \/ stack' = Push(stacks, t, Frame("signal", s, "dump"))
BY DEF Raise, Ends

(* The same for a frame that At has moved. *)
LEMMA PushAfterAt ==
  ASSUME StacksOK, NEW t \in All, stack[t] # <<>>, NEW at \in Places, NEW f \in Frames
  PROVE  /\ Push(At(t, at), t, f) \in [All -> Seq(Frames)]
         /\ stack' = Push(At(t, at), t, f) => MovesAndOpens(t, at, f)
<1> DEFINE k == Len(stack[t])
           g == [stack[t][k] EXCEPT !.at = at]
           stacks == At(t, at)
<1>1. k \in 1..Len(stack[t]) /\ stack[t] \in Seq(Frames) /\ stack[t][k] \in Frames
      /\ DOMAIN stack[t] = 1..k
  BY StackTypes
<1>2. g \in Frames /\ g.kind = stack[t][k].kind /\ g.id = stack[t][k].id /\ g.at = at
  BY <1>1 DEF Frames
<1>3. stacks = [stack EXCEPT ![t] = [stack[t] EXCEPT ![k] = g]]
  BY DEF At, StacksOK
<1>4. [stack[t] EXCEPT ![k] = g] \in Seq(Frames) /\ Len([stack[t] EXCEPT ![k] = g]) = k
  BY <1>1, <1>2, ExceptSeq
<1>5. stacks \in [All -> Seq(Frames)] /\ stacks[t] = [stack[t] EXCEPT ![k] = g]
      /\ \A u \in All \ {t} : stacks[u] = stack[u]
  BY <1>3, <1>4 DEF StacksOK
<1>6. /\ Len(stacks[t]) = k /\ \A n \in 1..(k - 1) : stacks[t][n] = stack[t][n]
      /\ stacks[t][k] = g
  BY <1>1, <1>4, <1>5
<1> HIDE DEF stacks, g
<1>7. /\ Push(stacks, t, f) \in [All -> Seq(Frames)]
      /\ stack' = Push(stacks, t, f) => MovesAndOpens(t, at, f)
  BY <1>2, <1>5, <1>6, PushAfterMove
<1> QED BY <1>7 DEF stacks

(* The instruction of an exception is to be run again after a signal's handler. *)
LEMMA PushWhenRunAgain ==
  ASSUME StacksOK, NEW t \in All, stack[t] # <<>>, NEW f \in Frames,
         stack' = Push([stack EXCEPT ![t][Len(stack[t])].at = "handlers",
                                     ![t][Len(stack[t])].given = {}], t, f)
  PROVE  stack' \in [All -> Seq(Frames)] /\ MovesAndOpens(t, "handlers", f)
<1> DEFINE k == Len(stack[t])
           g == [stack[t][k] EXCEPT !.at = "handlers", !.given = {}]
           stacks == [stack EXCEPT ![t][Len(stack[t])].at = "handlers",
                                   ![t][Len(stack[t])].given = {}]
<1>1. k \in 1..Len(stack[t]) /\ stack[t] \in Seq(Frames) /\ stack[t][k] \in Frames
      /\ DOMAIN stack[t] = 1..k
  BY StackTypes
<1>2. g \in Frames /\ g.kind = stack[t][k].kind /\ g.id = stack[t][k].id /\ g.at = "handlers"
  BY <1>1 DEF Frames, Places
<1>3. stacks = [stack EXCEPT ![t] = [stack[t] EXCEPT ![k] = g]]
  BY <1>1 DEF StacksOK
<1>4. [stack[t] EXCEPT ![k] = g] \in Seq(Frames) /\ Len([stack[t] EXCEPT ![k] = g]) = k
  BY <1>1, <1>2, ExceptSeq
<1>5. stacks \in [All -> Seq(Frames)] /\ stacks[t] = [stack[t] EXCEPT ![k] = g]
      /\ \A u \in All \ {t} : stacks[u] = stack[u]
  BY <1>3, <1>4 DEF StacksOK
<1>6. /\ Len(stacks[t]) = k /\ \A n \in 1..(k - 1) : stacks[t][n] = stack[t][n]
      /\ stacks[t][k] = g
  BY <1>1, <1>4, <1>5
<1>7. stack' = Push(stacks, t, f)
  OBVIOUS
<1> HIDE DEF stacks, g
<1>8. "handlers" \in Places
  BY DEF Places
<1>9. /\ Push(stacks, t, f) \in [All -> Seq(Frames)]
      /\ stack' = Push(stacks, t, f) => MovesAndOpens(t, "handlers", f)
  BY <1>2, <1>5, <1>6, <1>8, PushAfterMove
<1> QED BY <1>7, <1>9

(* Each step leaves all stacks alone or does one of the above to one of them. *)
LEMMA StepOfAStack ==
  ASSUME TypeOK, RaiseInv, BlockInv, [Next]_vars
  PROVE  stack' \in [All -> Seq(Frames)] /\ (Rests \/ \E t \in All : StackStep(t))
<1> USE DEF StackStep
<1>0. StacksOK /\ Threads \subseteq All /\ Worker \in All
  BY DEF TypeOK, All
<1>1. CASE UNCHANGED <<stack, holder>>
  BY <1>0, <1>1 DEF Rests, StacksOK
<1>2. ASSUME NEW t \in All, NEW f \in Frames, stack[t] = <<>>, holder' = holder,
             f.at \in {"dump", "handlers", "restore"}, stack' = Push(stack, t, f)
      PROVE  stack' \in [All -> Seq(Frames)] /\ Starts(t)
  BY <1>0, <1>2, PushOpens DEF Starts
<1>3. ASSUME NEW t \in Threads, LogFatal(t)
      PROVE  stack' \in [All -> Seq(Frames)] /\ Starts(t)
  <2>1. Frame("log", SIGABRT, "dump") \in Frames /\ Frame("log", SIGABRT, "dump").at = "dump"
    BY FrameTypes, WindowsAssumption DEF Signals, Places
  <2> QED BY <1>0, <1>2, <1>3, <2>1 DEF LogFatal, Crash, Idle
<1>4. ASSUME NEW t \in Threads, NEW s \in Signals, RaiseSignal(t, s)
      PROVE  stack' \in [All -> Seq(Frames)] /\ (Rests \/ Starts(t))
  <2>1. Frame("signal", s, "dump") \in Frames /\ Frame("signal", s, "dump").at = "dump"
    BY FrameTypes DEF Places
  <2>2. stack[t] = <<>> /\ holder' = holder /\ Raise(t, s, stack)
    BY <1>4 DEF RaiseSignal, Crash, Idle
  <2>3. stack' = stack \/ stack' = Push(stack, t, Frame("signal", s, "dump"))
    BY <1>0, <2>2, RaisePushes
  <2>4. CASE stack' = stack
    BY <1>0, <2>2, <2>4 DEF Rests, StacksOK
  <2>5. CASE stack' = Push(stack, t, Frame("signal", s, "dump"))
    BY <1>0, <1>2, <2>1, <2>2, <2>5
  <2> QED BY <2>3, <2>4, <2>5
<1>5. ASSUME NEW t \in Threads, NEW e \in Exceptions, Fault(t, e)
      PROVE  stack' \in [All -> Seq(Frames)] /\ Starts(t)
  <2>1. /\ Frame("exception", e, "handlers") \in Frames
        /\ Frame("exception", e, "handlers").at = "handlers"
    BY FrameTypes DEF Places
  <2> QED BY <1>0, <1>2, <1>5, <2>1 DEF Fault, Crash, Idle
<1>6. ASSUME BgFatal
      PROVE  stack' \in [All -> Seq(Frames)] /\ Starts(Worker)
  <2>1. Head(queue) \in Signals \cup Exceptions
    BY <1>6, HeadTailProperties DEF BgFatal, TypeOK, StacksOK
  <2>2. /\ Frame("exit", Head(queue), "restore") \in Frames
        /\ Frame("exit", Head(queue), "restore").at = "restore"
    BY <2>1, FrameTypes DEF Places
  <2> QED BY <1>0, <1>2, <1>6, <2>2 DEF BgFatal, Idle
<1>7. ASSUME NEW t \in All, NEW at \in Places \ {"walk", "gone", "raised", "raise"},
             stack[t] # <<>>, Top(t).at # "walk", holder' = holder,
             \/ stack' = At(t, at)
             \/ \E h \in Handles \cup {Filter} : stack' = Given(t, h, at)
      PROVE  stack' \in [All -> Seq(Frames)] /\ Proceeds(t)
  BY <1>0, <1>7, AtMoves, GivenMoves DEF Proceeds
<1>8. ASSUME NEW t \in All, Vectored(t)
      PROVE  stack' \in [All -> Seq(Frames)] /\ Proceeds(t)
  <2>1. stack[t] # <<>> /\ Top(t).at = "handlers" /\ holder' = holder
    BY <1>0, <1>8, InIsOnTop DEF Vectored, Handled
  <2>2. vectored \subseteq Handles /\ {"dump", "handlers", "except"} \subseteq Places
    BY DEF TypeOK, InstalledOK, Places
  <2>3. \/ stack' = At(t, "except")
        \/ \E h \in Handles \cup {Filter} :
              stack' = Given(t, h, "dump") \/ stack' = Given(t, h, "handlers")
    BY <1>8, <2>2 DEF Vectored, VectorExceptionHandling
  <2> QED BY <1>7, <2>1, <2>2, <2>3
<1>9. ASSUME NEW t \in All, Except(t)
      PROVE  stack' \in [All -> Seq(Frames)] /\ (Unwinds(t) \/ Proceeds(t))
  <2>1. stack[t] # <<>> /\ Top(t).at = "except" /\ holder' = holder /\ Top(t).kind = "exception"
    BY <1>0, <1>9, InIsOnTop DEF Except, Handled
  <2>2. CASE holder # t /\ stack' = [stack EXCEPT ![t] = <<>>]
    <3>1. stack' \in [All -> Seq(Frames)]
      BY <1>0, <2>2, EmptySeq DEF StacksOK
    <3> QED BY <1>0, <2>1, <2>2, <3>1 DEF Unwinds, Elsewhere, StacksOK
  <2>3. CASE stack' = At(t, "runtime")
    BY <1>7, <2>1, <2>3 DEF Places
  <2> QED BY <1>9, <2>2, <2>3 DEF Except
<1>10. ASSUME NEW t \in All, Runtime(t)
       PROVE  stack' \in [All -> Seq(Frames)] /\ (Rests \/ Calls(t) \/ Proceeds(t))
  <2>1. /\ stack[t] # <<>> /\ Top(t).at = "runtime" /\ holder' = holder
        /\ Top(t).id \in Exceptions /\ Top(t) \in Frames
    BY <1>0, <1>10, InIsOnTop DEF Runtime, Handled, Frames
  <2> DEFINE s == SignalOf[Top(t).id]
             stacks == [stack EXCEPT ![t][Len(stack[t])].at = "handlers",
                                     ![t][Len(stack[t])].given = {}]
  <2>2. CASE s # None /\ action[t][s] = "g3"
    <3>1. s \in Signals
      BY <2>1, <2>2, WindowsAssumption DEF Signals
    <3>2. Frame("signal", s, "dump") \in Frames /\ Frame("signal", s, "dump").at = "dump"
          /\ Frame("signal", s, "dump").kind = "signal"
      BY <3>1, FrameTypes DEF Places
    <3>3. Raise(t, s, stacks)
      BY <1>10, <2>2 DEF Runtime
    <3>4. stack' = stack \/ stack' = Push(stacks, t, Frame("signal", s, "dump"))
      BY <3>1, <3>3, RaisePushes
    <3>5. CASE stack' = stack
      BY <1>0, <2>1, <3>5 DEF Rests, StacksOK
    <3>6. CASE stack' = Push(stacks, t, Frame("signal", s, "dump"))
      <4>1. stack' \in [All -> Seq(Frames)]
            /\ MovesAndOpens(t, "handlers", Frame("signal", s, "dump"))
        BY <1>0, <2>1, <3>2, <3>6, PushWhenRunAgain
      <4> QED BY <2>1, <3>2, <4>1 DEF Calls
    <3> QED BY <3>4, <3>5, <3>6
  <2>3. CASE ~(s # None /\ action[t][s] = "g3")
    <3>1. stack' = At(t, "filter")
      BY <1>10, <2>3 DEF Runtime
    <3> QED BY <1>7, <2>1, <3>1 DEF Places
  <2> QED BY <2>2, <2>3
<1>11. ASSUME NEW t \in All, Unhandled(t)
       PROVE  stack' \in [All -> Seq(Frames)] /\ (Rests \/ Proceeds(t))
  <2>1. stack[t] # <<>> /\ Top(t).at = "filter" /\ holder' = holder
    BY <1>0, <1>11, InIsOnTop DEF Unhandled, Handled
  <2>2. CASE stack' = Given(t, Filter, "dump")
    BY <1>7, <2>1, <2>2 DEF Places
  <2>3. CASE stack' = stack
    BY <1>0, <2>1, <2>3 DEF Rests, StacksOK
  <2> QED BY <1>11, <2>2, <2>3 DEF Unhandled, Ends
<1>12. ASSUME NEW t \in All, Dump(t)
       PROVE  stack' \in [All -> Seq(Frames)] /\ (Locks(t) \/ Proceeds(t))
  <2>1. stack[t] # <<>> /\ Top(t).at = "dump"
    BY <1>0, <1>12, InIsOnTop DEF Dump, InCall
  <2>2. CASE stack' = At(t, "save") /\ holder' = holder
    BY <1>7, <2>1, <2>2 DEF Places
  <2>3. CASE stack' = At(t, "walk") /\ holder = None /\ holder' = t
    BY <1>0, <2>1, <2>3, AtMoves DEF Places, Locks
  <2> QED BY <1>12, <2>2, <2>3 DEF Dump
<1>13. ASSUME NEW t \in All, Walk(t)
       PROVE  stack' \in [All -> Seq(Frames)] /\ Unlocks(t)
  <2>1. stack[t] # <<>> /\ Top(t).at = "walk"
    BY <1>0, <1>13, InIsOnTop DEF Walk, InCall
  <2> QED BY <1>0, <1>13, <2>1, AtMoves DEF Walk, Places, Unlocks
<1>14. /\ Frame("exception", AccessViolation, "handlers") \in Frames
       /\ Frame("exception", AccessViolation, "handlers").at = "handlers"
       /\ Frame("exception", AccessViolation, "handlers").kind = "exception"
  BY FrameTypes, WindowsAssumption DEF Places, Exceptions
<1>15. ASSUME NEW t \in All, WalkFaults(t)
       PROVE  stack' \in [All -> Seq(Frames)] /\ Crashes(t)
  <2>1. stack[t] # <<>> /\ Top(t).at = "walk" /\ holder' = holder
    BY <1>0, <1>15, InIsOnTop DEF WalkFaults, InCall
  <2> QED BY <1>0, <1>14, <1>15, <2>1, PushOpens DEF WalkFaults, Crashes
<1>16. ASSUME NEW t \in All, Gone(t)
       PROVE  stack' \in [All -> Seq(Frames)] /\ (Rests \/ Crashes(t) \/ Proceeds(t))
  <2>1. stack[t] # <<>> /\ Top(t).at = "gone" /\ holder' = holder
    BY <1>0, <1>16, InIsOnTop DEF Gone, InCall
  <2>4. CASE stack' = At(t, "blocked")
    BY <1>7, <2>1, <2>4 DEF Places
  <2>2. CASE stack' = stack
    BY <1>0, <2>1, <2>2 DEF Rests, StacksOK
  <2>3. CASE stack' = Push(stack, t, Frame("exception", AccessViolation, "handlers"))
    BY <1>0, <1>14, <2>1, <2>3, PushOpens DEF Crashes
  <2> QED BY <1>16, <2>2, <2>3, <2>4 DEF Gone, Ends
<1>17. ASSUME NEW t \in All, Save(t)
       PROVE  stack' \in [All -> Seq(Frames)] /\ (Proceeds(t) \/ Calls(t))
  <2>1. stack[t] # <<>> /\ Top(t).at = "save" /\ holder' = holder /\ Top(t) \in Frames
    BY <1>0, <1>17, InIsOnTop DEF Save, InCall
  <2>2. CASE stack' = At(t, "blocked")
    BY <1>7, <2>1, <2>2 DEF Places
  <2>3. CASE stack' = Push(At(t, "gone"), t, Frame("exit", Top(t).id, "restore"))
    <3> DEFINE f == Frame("exit", Top(t).id, "restore")
    <3>1. f \in Frames /\ f.kind = "exit" /\ f.at = "restore"
      BY <2>1, FrameTypes DEF Places, Frames
    <3> HIDE DEF f
    <3>2. stack' \in [All -> Seq(Frames)] /\ MovesAndOpens(t, "gone", f)
      BY <1>0, <2>1, <2>3, <3>1, PushAfterAt DEF Places, f
    <3> QED BY <2>1, <3>1, <3>2 DEF Calls
  <2> QED BY <1>17, <2>2, <2>3 DEF Save
<1>18. ASSUME NEW t \in All, stack[t] # <<>>, Top(t).at # "walk", holder' = holder, past'.restored,
              stack' = Popped(t)
       PROVE  stack' \in [All -> Seq(Frames)] /\ Leaves(t)
  BY <1>0, <1>18, PoppedCloses DEF Leaves
<1>19. ASSUME NEW t \in All, Released(t)
       PROVE  stack' \in [All -> Seq(Frames)] /\ (Proceeds(t) \/ Leaves(t))
  <2>1. stack[t] # <<>> /\ Top(t).at = "blocked" /\ holder' = holder /\ past'.restored
    BY <1>0, <1>19, InIsOnTop DEF Released, InCall, BlockInv
  <2>2. CASE stack' = Popped(t)
    BY <1>18, <2>1, <2>2
  <2>3. CASE stack' = At(t, "end") \/ stack' = At(t, "handlers")
    BY <1>7, <2>1, <2>3 DEF Places
  <2> QED BY <1>19, <2>2, <2>3 DEF Released, Returned
<1>20. ASSUME NEW t \in All, Exit(t)
       PROVE  stack' \in [All -> Seq(Frames)] /\ (Leaves(t) \/ TurnsToRaise(t))
  <2>1. stack[t] # <<>> /\ Top(t).at = "restore" /\ holder' = holder /\ Top(t) \in Frames
    BY <1>0, <1>20, InIsOnTop DEF Exit, InCall
  <2>2. past'.restored
    BY <1>20 DEF Exit, Restored, TypeOK, PastOK
  <2>3. CASE stack' = Popped(t)
    BY <1>18, <2>1, <2>2, <2>3
  <2>4. CASE Top(t).id \notin Exceptions /\ stack' = At(t, "raise")
    <3>1. Top(t).id \in Signals
      BY <2>1, <2>4 DEF Frames
    <3>2. action'[t][Top(t).id] = "default"
      BY <1>20, <3>1 DEF Exit, RestoreFatalHandlingToDefault, SetAction
    <3>3. stack' \in [All -> Seq(Frames)] /\ MovesTo(t, "raise")
      BY <1>0, <2>1, <2>4, AtMoves DEF Places
    <3> QED BY <2>1, <2>2, <3>1, <3>2, <3>3 DEF TurnsToRaise
  <2> QED BY <1>20, <2>3, <2>4 DEF Exit
<1>21. ASSUME NEW t \in All, ExitRaises(t)
       PROVE  stack' \in [All -> Seq(Frames)] /\ (Rests \/ Calls(t))
  <2>1. /\ stack[t] # <<>> /\ Top(t).at = "raise" /\ holder' = holder /\ Top(t) \in Frames
        /\ Raise(t, Top(t).id, At(t, "raised"))
    BY <1>0, <1>21, InIsOnTop DEF ExitRaises, InCall
  <2>2. Top(t).id \in Signals /\ past.restored
    BY <1>0, <2>1, StackTypes DEF RaiseInv, Top
  <2> DEFINE f == Frame("signal", Top(t).id, "dump")
  <2>3. f \in Frames /\ f.kind = "signal" /\ f.at = "dump"
    BY <2>2, FrameTypes DEF Places
  <2> HIDE DEF f
  <2>4. stack' = stack \/ stack' = Push(At(t, "raised"), t, f)
    BY <2>1, <2>2, RaisePushes DEF f
  <2>5. CASE stack' = stack
    BY <1>0, <2>1, <2>5 DEF Rests, StacksOK
  <2>6. CASE stack' = Push(At(t, "raised"), t, f)
    <3>1. stack' \in [All -> Seq(Frames)] /\ MovesAndOpens(t, "raised", f)
      BY <1>0, <2>1, <2>3, <2>6, PushAfterAt DEF Places
    <3> QED BY <2>1, <2>2, <2>3, <3>1 DEF Calls
  <2> QED BY <2>4, <2>5, <2>6
<1>22. ASSUME NEW t \in All, ExitReturns(t)
       PROVE  stack' \in [All -> Seq(Frames)] /\ Leaves(t)
  <2>1. stack[t] # <<>> /\ Top(t).at = "raised" /\ holder' = holder
    BY <1>0, <1>22, InIsOnTop DEF ExitReturns, InCall
  <2>2. past'.restored
    BY <1>0, <1>22, <2>1, StackTypes DEF RaiseInv, Top, ExitReturns
  <2> QED BY <1>18, <1>22, <2>1, <2>2 DEF ExitReturns
<1>23. CASE \/ \E t \in Threads : InitializeLogging(t) \/ InstallAgain(t) \/ Log(t)
            \/ \E t \in All : NobodyHandles(t) \/ Relock(t)
            \/ ShutDown \/ UNCHANGED vars
  BY <1>1, <1>23 DEF InitializeLogging, InstallAgain, Log, NobodyHandles, Handled, Relock, Ends,
                     ShutDown, vars
<1> QED BY <1>0, <1>3, <1>4, <1>5, <1>6, <1>8, <1>9, <1>10, <1>11, <1>12, <1>13, <1>15, <1>16,
           <1>17, <1>19, <1>20, <1>21, <1>22, <1>23 DEF Next, GoesOn

--------------------------------------------------------------------------------
(* The history grows. *)
LEMMA PastStep ==
  ASSUME TypeOK, [Next]_vars
  PROVE  /\ PastOK'
         /\ past.restored => past'.restored
         /\ past.late => past'.late
         /\ past.flushed => past'.flushed
         /\ past.nested => past'.nested
         /\ past.unlogged => past'.unlogged
         /\ past'.crashed = past.crashed \/ \E t \in Threads : past'.crashed = past.crashed \cup {t}
<1> DEFINE Grows(p) == /\ p \in [flushed : BOOLEAN, restored : BOOLEAN, unlogged : BOOLEAN,
                                 late : BOOLEAN, nested : BOOLEAN,
                                 crashed : SUBSET Threads, logged : SUBSET All]
                       /\ past.restored => p.restored
                       /\ past.late => p.late
                       /\ past.flushed => p.flushed
                       /\ past.nested => p.nested
                       /\ past.unlogged => p.unlogged
                       /\ \/ p.crashed = past.crashed
                          \/ \E t \in Threads : p.crashed = past.crashed \cup {t}
<1>1. Grows(past)
  BY DEF TypeOK, PastOK
<1>2. Grows(Late) /\ Grows(Restored) /\ Grows([past EXCEPT !.flushed = TRUE])
      /\ Grows([past EXCEPT !.nested = TRUE])
  BY DEF TypeOK, PastOK, Late, Restored
<1>3. \A t \in Threads : Grows([past EXCEPT !.crashed = @ \cup {t}])
  BY DEF TypeOK, PastOK
<1>4. \A t \in All : Grows(Verified(t)) /\ Grows([Verified(t) EXCEPT !.unlogged = TRUE])
  BY DEF TypeOK, PastOK, Verified, Late
<1>5. Threads \subseteq All /\ events \in 0..MaxEvents /\ MaxEvents \in Nat
  BY WindowsAssumption DEF All, TypeOK, PastOK
<1>6. events' \in 0..MaxEvents
  <2>1. events' = events \/ (events < MaxEvents /\ events' = events + 1)
    BY DEF Next, GoesOn, InitializeLogging, InstallAgain, Log, LogFatal, RaiseSignal, Fault,
           Crash, ShutDown, BgFatal, Vectored, Except, Runtime, Unhandled, NobodyHandles, Handled, Dump,
           Walk, Save, Gone, Released, Exit, ExitRaises, ExitReturns, Relock, WalkFaults, InCall,
           vars
  <2> QED BY <1>5, <2>1
<1>7. Grows(past')
  <2>1. CASE \E t \in Threads : InitializeLogging(t) \/ InstallAgain(t)
    <3>1. past' = past \/ past' = Late
      BY <2>1 DEF InitializeLogging, InstallAgain
    <3>2. CASE past' = past
      BY <1>1, <3>2
    <3>3. CASE past' = Late
      BY <1>2, <3>3
    <3> QED BY <3>1, <3>2, <3>3
  <2>2. CASE \/ \E t \in Threads : Log(t)
             \/ \E t \in All : Save(t)
    <3>1. PICK t \in All : Log(t) \/ Save(t)
      BY <1>5, <2>2
    <3>2. past' = Verified(t) \/ past' = [Verified(t) EXCEPT !.unlogged = TRUE]
      BY <3>1 DEF Log, Save
    <3>3. CASE past' = Verified(t)
      BY <1>4, <3>3
    <3>4. CASE past' = [Verified(t) EXCEPT !.unlogged = TRUE]
      BY <1>4, <3>4
    <3> QED BY <3>2, <3>3, <3>4
  <2>3. CASE \E t \in Threads : \/ LogFatal(t)
                                \/ \E s \in Signals : RaiseSignal(t, s)
                                \/ \E e \in Exceptions : Fault(t, e)
    BY <1>3, <2>3 DEF LogFatal, RaiseSignal, Fault, Crash
  <2>4. CASE BgFatal \/ \E t \in All : WalkFaults(t)
    BY <1>2, <2>4 DEF BgFatal, WalkFaults
  <2>5. CASE \E t \in All : Vectored(t) \/ Unhandled(t) \/ Exit(t)
    BY <1>1, <1>2, <2>5 DEF Vectored, VectorExceptionHandling, Unhandled, Exit
  <2>6. CASE past' = past
    BY <1>1, <2>6
  <2> QED BY <2>1, <2>2, <2>3, <2>4, <2>5, <2>6
         DEF Next, GoesOn, ShutDown, Except, Runtime, NobodyHandles, Dump, Walk, Gone, Released,
             ExitRaises, ExitReturns, Relock, vars
<1> QED BY <1>6, <1>7 DEF PastOK

(* The stacks, the queue and the mutex of stackdump keep their types. *)
LEMMA StacksStep ==
  ASSUME TypeOK, RaiseInv, BlockInv, [Next]_vars
  PROVE  StacksOK'
<1>1. stack' \in [All -> Seq(Frames)]
  BY StepOfAStack
<1>2. queue' \in Seq(Signals \cup Exceptions)
  <2>1. queue \in Seq(Signals \cup Exceptions)
    BY DEF TypeOK, StacksOK
  <2>2. CASE BgFatal
    BY <2>1, <2>2, HeadTailProperties DEF BgFatal
  <2>3. ASSUME NEW t \in All, Save(t) \/ Gone(t)
        PROVE  queue' \in Seq(Signals \cup Exceptions)
    <3>1. Top(t).id \in Signals \cup Exceptions
      BY <2>3, InIsOnTop DEF Save, Gone, InCall, TypeOK, Frames
    <3> QED BY <2>1, <2>3, <3>1, AppendProperties DEF Save, Gone
  <2>4. CASE queue' = queue
    BY <2>1, <2>4
  <2> QED BY <2>2, <2>3, <2>4
         DEF Next, GoesOn, InitializeLogging, InstallAgain, Log, LogFatal, RaiseSignal, Fault,
             Crash, ShutDown, Vectored, Except, Runtime, Unhandled, NobodyHandles, Handled, Dump, Walk,
             Released, Exit, ExitRaises, ExitReturns, Relock, WalkFaults, vars
<1>3. dumps' \in [All -> 0..2] /\ holder' \in All \cup {None}
  <2>1. dumps \in [All -> 0..2] /\ holder \in All \cup {None}
    BY DEF TypeOK, StacksOK
  <2>2. \/ UNCHANGED <<dumps, holder>>
        \/ dumps' = dumps /\ holder' = None
        \/ \E t \in All : dumps[t] < 2 /\ dumps' = [dumps EXCEPT ![t] = @ + 1] /\ holder' = t
    BY DEF Next, GoesOn, InitializeLogging, InstallAgain, Log, LogFatal, RaiseSignal, Fault,
           Crash, ShutDown, BgFatal, Vectored, Except, Runtime, Unhandled, NobodyHandles, Handled, Dump,
           Walk, Save, Gone, Released, Exit, ExitRaises, ExitReturns, Relock, WalkFaults, InCall,
           vars
  <2>3. ASSUME NEW t \in All, dumps[t] < 2, dumps' = [dumps EXCEPT ![t] = @ + 1]
        PROVE  dumps' \in [All -> 0..2]
    <3>1. dumps[t] \in 0..2 /\ dumps[t] + 1 \in 0..2
      BY <2>1, <2>3
    <3> QED BY <2>1, <2>3, <3>1
  <2> QED BY <2>1, <2>2, <2>3
<1> QED BY <1>1, <1>2, <1>3 DEF StacksOK

(* Whoever ends the blocking of the callers has restored handlers. *)
LEMMA BlockStep ==
  ASSUME TypeOK, BlockInv, [Next]_vars
  PROVE  BlockInv'
<1>1. ASSUME NEW t \in All, Exit(t) PROVE past'.restored
  BY <1>1 DEF Exit, Restored, TypeOK, PastOK
<1>2. block' = block \/ past'.restored
  BY <1>1 DEF Next, GoesOn, InitializeLogging, InstallAgain, Log, LogFatal, RaiseSignal, Fault,
           Crash, ShutDown, BgFatal, Vectored, Except, Runtime, Unhandled, NobodyHandles, Handled, Dump,
           Walk, Save, Gone, Released, ExitRaises, ExitReturns, Relock, WalkFaults, InCall,
           vars
<1> QED BY <1>2, PastStep DEF BlockInv

--------------------------------------------------------------------------------
(* Only the thread that holds the mutex of stackdump walks, and in one frame.  *)
WalkInv ==
   \A t \in All : \A n \in 1..Len(stack[t]) : stack[t][n].at = "walk" =>
      /\ holder = t
      /\ \A m \in 1..Len(stack[t]) : stack[t][m].at = "walk" => m = n

(* A thread calls a LogWorker that is not there after it has restored.         *)
GoneInv == \A t \in All : In(t, "gone") => past.restored

(* Until handlers are restored an exception comes to a thread in a handler     *)
(* only while it walks a stack.                                                *)
NestInv ==
   ~past.restored =>
      \A t \in All : \A n \in 2..Len(stack[t]) :
         stack[t][n].kind = "exception" => stack[t][n - 1].at = "walk"

(* The lengths of a stack before and after a step. *)
LEMMA StackLengths ==
  ASSUME TypeOK, TypeOK', NEW t \in All
  PROVE  /\ Len(stack[t]) \in Nat /\ Len(stack'[t]) \in Nat
         /\ stack[t] # <<>> <=> Len(stack[t]) # 0
         /\ stack'[t] # <<>> <=> Len(stack'[t]) # 0
<1>1. stack[t] \in Seq(Frames) /\ stack'[t] \in Seq(Frames)
  BY DEF TypeOK, StacksOK
<1> QED BY <1>1, LenProperties, EmptySeq

(* The mutex of stackdump keeps other threads, and other frames, from walking. *)
LEMMA WalkStep ==
  ASSUME TypeOK, TypeOK', WalkInv, Rests \/ \E t \in All : StackStep(t)
  PROVE  WalkInv'
<1> USE DEF WalkInv
<1>1. CASE Rests
  BY <1>1 DEF Rests
<1>2. ASSUME NEW t \in All, StackStep(t)
      PROVE  WalkInv'
  <2> DEFINE k == Len(stack[t])
  <2>1. k \in Nat /\ Len(stack'[t]) \in Nat /\ (stack[t] # <<>> <=> k # 0)
    BY StackLengths
  <2> DEFINE Fewer == \A n \in 1..Len(stack'[t]) : stack'[t][n].at = "walk" =>
                         n \in 1..k /\ stack[t][n].at = "walk"
  <2>11. Elsewhere(t) /\ holder' = holder /\ Fewer => WalkInv'
    BY DEF Elsewhere
  <2>2. CASE Starts(t)
    BY <2>1, <2>2 DEF Starts, Opens, Elsewhere
  <2>3. CASE Proceeds(t)
    BY <2>1, <2>3 DEF Proceeds, MovesTo, Elsewhere, Below, Top
  <2>4. CASE TurnsToRaise(t)
    BY <2>1, <2>4 DEF TurnsToRaise, MovesTo, Elsewhere, Below, Top
  <2>5. CASE Locks(t)
    <3>1. \A u \in All : \A n \in 1..Len(stack[u]) : stack[u][n].at # "walk"
      BY <2>5, WindowsAssumption DEF Locks
    <3> QED BY <2>1, <2>5, <3>1 DEF Locks, MovesTo, Elsewhere, Below
  <2>6. CASE Unlocks(t)
    <3>1. holder = t /\ \A n \in 1..(k - 1) : stack[t][n].at # "walk"
      BY <2>1, <2>6 DEF Unlocks, Top
    <3> QED BY <2>1, <2>6, <3>1, WindowsAssumption DEF Unlocks, MovesTo, Elsewhere, Below
  <2>7. CASE Unwinds(t)
    BY <2>1, <2>7, EmptySeq DEF Unwinds, Elsewhere
  <2>8. CASE Crashes(t)
    <3>1. PICK f \in Frames : f.at = "handlers" /\ Opens(t, f)
      BY <2>8 DEF Crashes
    <3>2. Fewer
      BY <2>1, <3>1 DEF Opens
    <3> QED BY <2>8, <2>11, <3>1, <3>2 DEF Crashes, Opens
  <2>9. CASE Calls(t)
    <3>1. PICK f \in Frames, at \in {"handlers", "gone", "raised"} :
             f.at \in {"dump", "restore"} /\ MovesAndOpens(t, at, f)
      BY <2>9 DEF Calls
    <3>2. Fewer
      BY <2>1, <3>1 DEF MovesAndOpens, Below
    <3> QED BY <2>9, <2>11, <3>1, <3>2 DEF Calls, MovesAndOpens
  <2>10. CASE Leaves(t)
    <3>1. Fewer
      BY <2>1, <2>10 DEF Leaves, Closes, Below
    <3> QED BY <2>10, <2>11, <3>1 DEF Leaves, Closes
  <2> QED BY <1>2, <2>2, <2>3, <2>4, <2>5, <2>6, <2>7, <2>8, <2>9, <2>10 DEF StackStep
<1> QED BY <1>1, <1>2

(* The exit above such a call has restored when the call is on top again. *)
LEMMA GoneStep ==
  ASSUME TypeOK, TypeOK', GoneInv, past.restored => past'.restored,
         Rests \/ \E t \in All : StackStep(t)
  PROVE  GoneInv'
<1> USE DEF GoneInv, In
<1>1. CASE Rests
  BY <1>1 DEF Rests
<1>2. ASSUME NEW t \in All, StackStep(t)
      PROVE  GoneInv'
  <2> DEFINE k == Len(stack[t])
  <2>1. k \in Nat /\ Len(stack'[t]) \in Nat /\ (stack[t] # <<>> <=> k # 0)
    BY StackLengths
  <2>2. CASE Starts(t)
    BY <2>1, <2>2 DEF Starts, Opens, Elsewhere
  <2>3. CASE Proceeds(t) \/ TurnsToRaise(t) \/ Locks(t) \/ Unlocks(t)
    BY <2>1, <2>3 DEF Proceeds, TurnsToRaise, Locks, Unlocks, MovesTo, Elsewhere
  <2>4. CASE Unwinds(t)
    BY <2>4 DEF Unwinds, Elsewhere
  <2>5. CASE Crashes(t)
    BY <2>1, <2>5 DEF Crashes, Opens, Elsewhere
  <2>6. CASE Calls(t)
    BY <2>1, <2>6 DEF Calls, MovesAndOpens, Elsewhere
  <2>7. CASE Leaves(t)
    BY <2>7 DEF Leaves
  <2> QED BY <1>2, <2>2, <2>3, <2>4, <2>5, <2>6, <2>7 DEF StackStep
<1> QED BY <1>1, <1>2

(* A signal opens a frame on an exception, an exception none on a signal but   *)
(* for the two cases of Crashes.                                                *)
LEMMA NestStep ==
  ASSUME TypeOK, TypeOK', NestInv, GoneInv, past.restored => past'.restored,
         Rests \/ \E t \in All : StackStep(t)
  PROVE  NestInv'
<1> USE DEF NestInv
<1>1. CASE Rests
  BY <1>1 DEF Rests
<1>2. ASSUME NEW t \in All, StackStep(t), ~past.restored
      PROVE  NestInv'
  <2> DEFINE k == Len(stack[t])
  <2>1. k \in Nat /\ Len(stack'[t]) \in Nat /\ (stack[t] # <<>> <=> k # 0)
    BY StackLengths
  <2> DEFINE Nested == \A n \in 2..Len(stack'[t]) : stack'[t][n].kind = "exception" =>
                          stack'[t][n - 1].at = "walk"
  <2>8. Elsewhere(t) /\ Nested => NestInv'
    BY <1>2 DEF Elsewhere
  <2>2. CASE Starts(t)
    BY <1>2, <2>1, <2>2 DEF Starts, Opens, Elsewhere
  <2>3. CASE Proceeds(t) \/ TurnsToRaise(t) \/ Locks(t) \/ Unlocks(t)
    <3>1. PICK at \in Places : MovesTo(t, at)
      BY <2>3 DEF Proceeds, TurnsToRaise, Locks, Unlocks, Places
    <3>2. \A n \in 2..k : /\ stack'[t][n].kind = stack[t][n].kind
                         /\ stack'[t][n - 1] = stack[t][n - 1]
      BY <2>1, <3>1 DEF MovesTo, Below, SameFrame
    <3>3. Nested
      BY <1>2, <2>1, <3>1, <3>2 DEF MovesTo
    <3> QED BY <2>8, <3>1, <3>3 DEF MovesTo
  <2>4. CASE Unwinds(t)
    BY <1>2, <2>1, <2>4, EmptySeq DEF Unwinds, Elsewhere
  <2>5. CASE Crashes(t)
    <3>1. stack[t][k].at = "walk"
      BY <1>2, <2>1, <2>5 DEF Crashes, GoneInv, In, Top
    <3>2. PICK f \in Frames : Opens(t, f)
      BY <2>5 DEF Crashes
    <3>3. \A n \in 2..k : stack'[t][n] = stack[t][n] /\ stack'[t][n - 1] = stack[t][n - 1]
      BY <2>1, <3>2 DEF Opens
    <3>4. k \in 1..k /\ stack'[t][k].at = "walk"
      BY <2>1, <2>5, <3>1, <3>2 DEF Opens, Crashes
    <3>5. ASSUME NEW n \in 2..Len(stack'[t]), stack'[t][n].kind = "exception"
          PROVE  stack'[t][n - 1].at = "walk"
      <4>1. CASE n \in 2..k
        BY <1>2, <3>3, <3>5, <4>1
      <4>2. CASE n = k + 1
        BY <2>1, <3>4, <4>2
      <4> QED BY <2>1, <3>2, <4>1, <4>2 DEF Opens
    <3> QED BY <2>8, <3>2, <3>5 DEF Opens
  <2>6. CASE Calls(t)
    <3>1. PICK f \in Frames, at \in {"handlers", "gone", "raised"} :
             f.kind \in {"signal", "exit"} /\ MovesAndOpens(t, at, f)
      BY <2>6 DEF Calls
    <3>2. /\ \A n \in 1..(k - 1) : stack'[t][n] = stack[t][n]
          /\ stack'[t][k].kind = stack[t][k].kind
          /\ Len(stack'[t]) = k + 1 /\ stack'[t][k + 1].kind # "exception"
      BY <3>1 DEF MovesAndOpens, Below, SameFrame
    <3>3. ASSUME NEW n \in 2..Len(stack'[t]), stack'[t][n].kind = "exception"
          PROVE  stack'[t][n - 1].at = "walk"
      <4>1. n \in 2..k /\ n - 1 \in 1..(k - 1)
        BY <2>1, <3>2, <3>3
      <4>2. stack[t][n].kind = "exception" /\ stack'[t][n - 1] = stack[t][n - 1]
        BY <2>1, <3>2, <3>3, <4>1
      <4> QED BY <1>2, <4>1, <4>2
    <3> QED BY <2>8, <3>1, <3>3 DEF MovesAndOpens
  <2>7. CASE Leaves(t)
    BY <2>7 DEF Leaves
  <2> QED BY <1>2, <2>2, <2>3, <2>4, <2>5, <2>6, <2>7 DEF StackStep
<1> QED BY <1>1, <1>2

--------------------------------------------------------------------------------
(* A thread is in the handler of a signal. *)
HasSignal(t, s) == \E n \in 1..Len(stack[t]) : stack[t][n].kind = "signal" /\ stack[t][n].id = s

(* What a step does to the actions of the signals. *)
Restores == past'.restored /\ installed' = installed
               /\ \E t \in All : action' = SetAction(t, Signals, "default")
Installs == \E t \in All : /\ ~installed[t] /\ installed' = [installed EXCEPT ![t] = TRUE]
                           /\ action' = SetAction(t, Signals, "g3")
                           /\ past.restored => past'.late
Raises == installed' = installed /\ \E t \in All, s \in Signals :
             /\ action' = SetAction(t, {s}, "default")
             /\ past.restored \/ HasSignal(t, s)'
ActionStep == UNCHANGED <<action, installed>> \/ Restores \/ Installs \/ Raises

(* Each step does one of these to the actions. *)
LEMMA StepOfTheActions ==
  ASSUME TypeOK, RaiseInv, [Next]_vars
  PROVE  ActionStep
<1> USE DEF ActionStep
<1>0. StacksOK /\ Threads \subseteq All /\ Worker \in All /\ past.restored \in BOOLEAN
  BY DEF TypeOK, All, PastOK
<1>1. ASSUME NEW t \in All, InstallSignalHandlerForThread(t),
             ~installed[t] /\ past.restored => past'.late
      PROVE  ActionStep
  BY <1>1 DEF InstallSignalHandlerForThread, Installs
<1>2. Late.late = (past.late \/ past.restored)
  BY DEF Late, TypeOK, PastOK
<1>3. ASSUME NEW t \in All, ~installed[t], past.restored
      PROVE  Verified(t).late /\ [Verified(t) EXCEPT !.unlogged = TRUE].late
  BY <1>2, <1>3 DEF Verified, Late, TypeOK, PastOK
<1>4. ASSUME NEW t \in Threads, InitializeLogging(t) \/ InstallAgain(t)
      PROVE  ActionStep
  BY <1>0, <1>1, <1>2, <1>4 DEF InitializeLogging, InstallAgain, InstallCrashHandler, handlers
<1>5. ASSUME NEW t \in All, Log(t) \/ Save(t)
      PROVE  ActionStep
  BY <1>1, <1>3, <1>5 DEF Log, Save
<1>6. ASSUME NEW t \in All, RestoreFatalHandlingToDefault(t), past' = Restored
      PROVE  ActionStep
  <2>1. past'.restored
    BY <1>6 DEF Restored, TypeOK, PastOK
  <2> QED BY <1>6, <2>1 DEF RestoreFatalHandlingToDefault, Restores
<1>7. ASSUME NEW t \in All, Vectored(t) \/ Unhandled(t) \/ Exit(t)
      PROVE  ActionStep
  BY <1>6, <1>7 DEF Vectored, VectorExceptionHandling, Unhandled, Exit, Ends, handlers
<1>8. ASSUME NEW t \in All, NEW s \in Signals, NEW stacks, Raise(t, s, stacks),
             stack' = Push(stacks, t, Frame("signal", s, "dump"))
                => past.restored \/ HasSignal(t, s)'
      PROVE  ActionStep
  BY <1>8 DEF Raise, Ends, handlers, Raises
<1>9. ASSUME NEW s \in Signals
      PROVE  /\ Frame("signal", s, "dump") \in Frames
             /\ Frame("signal", s, "dump").kind = "signal" /\ Frame("signal", s, "dump").id = s
  BY FrameTypes DEF Places
<1>10. ASSUME NEW t \in Threads, NEW s \in Signals, RaiseSignal(t, s)
       PROVE  ActionStep
  <2>1. ASSUME stack' = Push(stack, t, Frame("signal", s, "dump")) PROVE HasSignal(t, s)'
    <3>1. Opens(t, Frame("signal", s, "dump")) /\ Len(stack[t]) \in Nat
      BY <1>0, <1>9, <2>1, PushOpens, StackTypes
    <3> QED BY <1>9, <3>1 DEF Opens, HasSignal
  <2> QED BY <1>0, <1>8, <1>10, <2>1 DEF RaiseSignal
<1>11. ASSUME NEW t \in All, Runtime(t)
       PROVE  ActionStep
  <2>0. stack[t] # <<>> /\ Top(t).id \in Exceptions
    BY <1>0, <1>11, InIsOnTop DEF Runtime, Handled, Frames
  <2>3. PICK s \in Signals \cup {None} : s = SignalOf[Top(t).id]
    BY <2>0, WindowsAssumption DEF Signals
  <2> DEFINE stacks == [stack EXCEPT ![t][Len(stack[t])].at = "handlers",
                                     ![t][Len(stack[t])].given = {}]
  <2>1. CASE s # None /\ action[t][s] = "g3"
    <3>1. stack[t] # <<>>
      BY <2>0
    <3>2. s \in Signals
      BY <2>1
    <3>3. ASSUME stack' = Push(stacks, t, Frame("signal", s, "dump")) PROVE HasSignal(t, s)'
      <4>1. MovesAndOpens(t, "handlers", Frame("signal", s, "dump")) /\ Len(stack[t]) \in Nat
        BY <1>0, <1>9, <3>1, <3>2, <3>3, PushWhenRunAgain, StackTypes
      <4> QED BY <1>9, <3>2, <4>1 DEF MovesAndOpens, HasSignal
    <3>4. Raise(t, s, stacks)
      BY <1>11, <2>1, <2>3 DEF Runtime
    <3> HIDE DEF stacks
    <3> QED BY <1>8, <3>2, <3>3, <3>4
  <2>2. CASE ~(s # None /\ action[t][s] = "g3")
    BY <1>11, <2>2, <2>3 DEF Runtime, handlers
  <2> QED BY <2>1, <2>2
<1>12. ASSUME NEW t \in All, ExitRaises(t)
       PROVE  ActionStep
  <2>1. /\ stack[t] # <<>> /\ Top(t).at = "raise" /\ Raise(t, Top(t).id, At(t, "raised"))
    BY <1>0, <1>12, InIsOnTop DEF ExitRaises, InCall
  <2>2. Top(t).id \in Signals /\ past.restored
    BY <1>0, <2>1, StackTypes DEF RaiseInv, Top
  <2> QED BY <1>8, <2>1, <2>2
<1>13. CASE UNCHANGED handlers
  BY <1>13 DEF handlers
<1>14. ASSUME NEW t \in Threads, LogFatal(t) \/ \E e \in Exceptions : Fault(t, e)
       PROVE  ActionStep
  BY <1>13, <1>14 DEF LogFatal, Fault
<1>15. ASSUME NEW t \in All,
              Except(t) \/ NobodyHandles(t) \/ Dump(t) \/ Walk(t) \/ Gone(t) \/ Released(t)
              \/ ExitReturns(t) \/ Relock(t) \/ WalkFaults(t)
       PROVE  ActionStep
  BY <1>13, <1>15 DEF Except, NobodyHandles, Dump, Walk, Gone, Released, ExitReturns, Relock,
                      WalkFaults, Ends
<1>16. CASE ShutDown \/ BgFatal \/ UNCHANGED vars
  BY <1>13, <1>16 DEF ShutDown, BgFatal, vars
<1> QED BY <1>0, <1>4, <1>5, <1>7, <1>10, <1>11, <1>12, <1>14, <1>15, <1>16 DEF Next, GoesOn

(* The actions after signal(). *)
LEMMA SetActionValues ==
  ASSUME NEW t \in All, NEW set, NEW to, action' = SetAction(t, set, to),
         NEW u \in All, NEW s \in Signals
  PROVE  action'[u][s] = IF s \in set /\ (u = t \/ s \in SharedSignals) THEN to ELSE action[u][s]
BY DEF SetAction

(* Handlers restored stay so for the thread that is about to raise, or a thread *)
(* has installed its own since.                                                 *)
LEMMA RaiseStep ==
  ASSUME TypeOK, TypeOK', RaiseInv, ActionStep, Rests \/ \E t \in All : StackStep(t),
         past.restored => past'.restored, past.late => past'.late
  PROVE  RaiseInv'
<1>1. ASSUME NEW u \in All, NEW s \in Signals, past.restored, action[u][s] = "default"
      PROVE  past'.late \/ action'[u][s] = "default"
  <2>1. CASE Restores
    BY <1>1, <2>1, SetActionValues DEF Restores
  <2>2. CASE Raises
    <3>1. PICK t \in All, set \in SUBSET Signals : action' = SetAction(t, set, "default")
      BY <2>2 DEF Raises
    <3> QED BY <1>1, <3>1, SetActionValues
  <2>3. CASE UNCHANGED <<action, installed>> \/ Installs
    BY <1>1, <2>3 DEF Installs
  <2> QED BY <2>1, <2>2, <2>3 DEF ActionStep
<1> DEFINE Raised(u, n) ==
       /\ stack'[u][n].at \in {"raise", "raised"} => past'.restored
       /\ stack'[u][n].at = "raise" => /\ stack'[u][n].id \in Signals
                                       /\ past'.late \/ action'[u][stack'[u][n].id] = "default"
<1>2. ASSUME NEW u \in All, NEW n \in 1..Len(stack[u]), stack'[u][n] = stack[u][n]
      PROVE  Raised(u, n)
  BY <1>1, <1>2 DEF RaiseInv
<1>3. CASE Rests
  BY <1>2, <1>3 DEF Rests, RaiseInv
<1>4. ASSUME NEW t \in All, StackStep(t)
      PROVE  RaiseInv'
  <2> DEFINE k == Len(stack[t])
  <2>1. k \in Nat /\ Len(stack'[t]) \in Nat /\ (stack[t] # <<>> <=> k # 0)
    BY StackLengths
  <2>2. ASSUME Elsewhere(t), \A n \in 1..Len(stack'[t]) : Raised(t, n)
        PROVE  RaiseInv'
    <3>1. \A u \in All \ {t} : \A n \in 1..Len(stack'[u]) : Raised(u, n)
      BY <1>2, <2>2 DEF Elsewhere
    <3> QED BY <2>2, <3>1 DEF RaiseInv
  <2>3. CASE Starts(t)
    <3>1. PICK f \in Frames : f.at \in {"dump", "handlers", "restore"} /\ Opens(t, f)
      BY <2>3 DEF Starts
    <3>2. \A n \in 1..Len(stack'[t]) : Raised(t, n)
      BY <2>1, <2>3, <3>1 DEF Starts, Opens
    <3> QED BY <2>2, <3>1, <3>2 DEF Opens
  <2>4. ASSUME NEW at, MovesTo(t, at), Raised(t, k)
        PROVE  RaiseInv'
    <3>1. \A n \in 1..(k - 1) : Raised(t, n)
      BY <1>2, <2>1, <2>4 DEF MovesTo, Below
    <3>2. \A n \in 1..Len(stack'[t]) : Raised(t, n)
      BY <2>1, <2>4, <3>1 DEF MovesTo
    <3> QED BY <2>2, <2>4, <3>2 DEF MovesTo
  <2>5. CASE Proceeds(t) \/ Locks(t) \/ Unlocks(t)
    <3>1. PICK at : MovesTo(t, at) /\ at \notin {"raise", "raised"}
      BY <2>5 DEF Proceeds, Locks, Unlocks
    <3>2. Raised(t, k)
      BY <3>1 DEF MovesTo
    <3> QED BY <2>4, <3>1, <3>2
  <2>6. CASE TurnsToRaise(t)
    <3>1. MovesTo(t, "raise") /\ Raised(t, k)
      BY <2>6 DEF TurnsToRaise, MovesTo, SameFrame, Top
    <3> QED BY <2>4, <3>1
  <2>7. CASE Unwinds(t)
    <3>1. \A n \in 1..Len(stack'[t]) : Raised(t, n)
      BY <2>7, EmptySeq DEF Unwinds
    <3> QED BY <2>2, <2>7, <3>1 DEF Unwinds
  <2>8. CASE Crashes(t)
    <3>1. PICK f \in Frames : f.at = "handlers" /\ Opens(t, f)
      BY <2>8 DEF Crashes
    <3>2. \A n \in 1..k : Raised(t, n)
      BY <1>2, <3>1 DEF Opens
    <3>3. Raised(t, k + 1)
      BY <3>1 DEF Opens
    <3>4. \A n \in 1..Len(stack'[t]) : Raised(t, n)
      BY <2>1, <3>1, <3>2, <3>3 DEF Opens
    <3> QED BY <2>2, <3>1, <3>4 DEF Opens
  <2>9. CASE Calls(t)
    <3>1. PICK f \in Frames, at \in {"handlers", "gone", "raised"} :
             /\ f.at \in {"dump", "restore"} /\ MovesAndOpens(t, at, f)
             /\ at = "raised" => past.restored
      BY <2>9 DEF Calls
    <3>2. \A n \in 1..(k - 1) : Raised(t, n)
      BY <1>2, <2>1, <3>1 DEF MovesAndOpens, Below
    <3>3. Raised(t, k)
      BY <3>1 DEF MovesAndOpens
    <3>4. Raised(t, k + 1)
      BY <3>1 DEF MovesAndOpens
    <3>5. \A n \in 1..Len(stack'[t]) : Raised(t, n)
      BY <2>1, <3>1, <3>2, <3>3, <3>4 DEF MovesAndOpens
    <3> QED BY <2>2, <3>1, <3>5 DEF MovesAndOpens
  <2>10. CASE Leaves(t)
    <3>1. \A n \in 1..Len(stack'[t]) : Raised(t, n)
      BY <1>2, <2>1, <2>10 DEF Leaves, Closes, Below
    <3> QED BY <2>2, <2>10, <3>1 DEF Leaves, Closes
  <2> QED BY <1>4, <2>3, <2>5, <2>6, <2>7, <2>8, <2>9, <2>10 DEF StackStep
<1> QED BY <1>3, <1>4

(* A thread that has made a LOG call has installed its handlers. *)
LoggedInv == \A t \in past.logged : installed[t]

(* What CoveredUntilRestored says of a thread that made a LOG call holds of    *)
(* each that has installed its handlers.                                       *)
CoverInv ==
   ~past.restored =>
      /\ once => filter = "g3" /\ vectored # {}
      /\ \A t \in All : installed[t] =>
            \A s \in Signals : action[t][s] = "g3" \/ BeingHandled(t, s)

(* Handlers once installed for a thread stay installed. *)
LEMMA LoggedStep ==
  ASSUME TypeOK, TypeOK', LoggedInv, ActionStep, [Next]_vars
  PROVE  LoggedInv'
<1> USE DEF LoggedInv
<1>1. \A t \in All : installed[t] => installed'[t]
  <2>1. installed \in [All -> BOOLEAN]
    BY DEF TypeOK, InstalledOK
  <2>2. CASE Installs
    BY <2>1, <2>2 DEF Installs
  <2>3. CASE UNCHANGED <<action, installed>> \/ Restores \/ Raises
    BY <2>3 DEF Restores, Raises
  <2> QED BY <2>2, <2>3 DEF ActionStep
<1>2. past.logged \subseteq All /\ Threads \subseteq All
  BY DEF TypeOK, PastOK, All
<1>3. ASSUME NEW t \in All, InstallSignalHandlerForThread(t)
      PROVE  installed'[t]
  BY <1>3, InstallTypes DEF TypeOK
<1>4. ASSUME past'.logged = past.logged
      PROVE  LoggedInv'
  BY <1>1, <1>2, <1>4
<1>5. ASSUME NEW t \in All, Log(t) \/ Save(t)
      PROVE  LoggedInv'
  <2>1. past'.logged = past.logged \cup {t}
    BY <1>5 DEF Log, Save, Verified, Late, TypeOK, PastOK
  <2>2. installed'[t]
    BY <1>3, <1>5 DEF Log, Save
  <2> QED BY <1>1, <1>2, <2>1, <2>2
<1>6. ASSUME past' \in {past, Late, Restored}
      PROVE  LoggedInv'
  <2>1. past'.logged = past.logged
    BY <1>6 DEF Late, Restored, TypeOK, PastOK
  <2> QED BY <1>4, <2>1
<1>7. CASE \E t \in Threads : InitializeLogging(t) \/ InstallAgain(t)
  BY <1>6, <1>7 DEF InitializeLogging, InstallAgain
<1>8. CASE \E t \in Threads : \/ LogFatal(t)
                              \/ \E s \in Signals : RaiseSignal(t, s)
                              \/ \E e \in Exceptions : Fault(t, e)
  <2>1. past'.logged = past.logged
    BY <1>8 DEF LogFatal, RaiseSignal, Fault, Crash, TypeOK, PastOK
  <2> QED BY <1>4, <2>1
<1>9. CASE BgFatal \/ \E t \in All : WalkFaults(t)
  <2>1. past'.logged = past.logged
    BY <1>9 DEF BgFatal, WalkFaults, TypeOK, PastOK
  <2> QED BY <1>4, <2>1
<1>10. CASE \E t \in All : Vectored(t) \/ Unhandled(t) \/ Exit(t)
  BY <1>6, <1>10 DEF Vectored, VectorExceptionHandling, Unhandled, Exit
<1>11. CASE past' = past
  BY <1>6, <1>11
<1> QED BY <1>2, <1>5, <1>7, <1>8, <1>9, <1>10, <1>11
       DEF Next, GoesOn, ShutDown, Except, Runtime, NobodyHandles, Dump, Walk, Gone, Released,
           ExitRaises, ExitReturns, Relock, vars

(* The handlers of exceptions stay until they are restored. *)
LEMMA FilterStep ==
  ASSUME TypeOK, [Next]_vars, ~past'.restored
  PROVE  \/ UNCHANGED <<once, filter, vectored>>
         \/ filter' = "g3" /\ vectored' # {}
<1>1. ASSUME NEW t \in Threads, InitializeLogging(t) \/ InstallAgain(t)
      PROVE  \/ UNCHANGED <<once, filter, vectored>>
             \/ filter' = "g3" /\ vectored' # {}
  BY <1>1 DEF InitializeLogging, InstallAgain, InstallCrashHandler, handlers
<1>2. ASSUME NEW t \in All, Vectored(t) \/ Unhandled(t) \/ Exit(t), past' # Restored
      PROVE  UNCHANGED <<once, filter, vectored>>
  BY <1>2 DEF Vectored, VectorExceptionHandling, Unhandled, Exit, Ends, Handled, handlers
<1>3. past' # Restored
  BY DEF Restored, TypeOK, PastOK
<1>4. ASSUME NEW t \in All, NEW s, NEW stacks, Raise(t, s, stacks)
      PROVE  UNCHANGED <<filter, vectored>>
  BY <1>4 DEF Raise, Ends, handlers
<1>5. ASSUME \/ \E t \in Threads : Log(t) \/ LogFatal(t) \/ \E e \in Exceptions : Fault(t, e)
             \/ \E t \in All : \/ Except(t) \/ NobodyHandles(t) \/ Dump(t) \/ Walk(t) \/ Save(t)
                               \/ Gone(t) \/ Released(t) \/ ExitReturns(t) \/ Relock(t)
                               \/ WalkFaults(t)
             \/ ShutDown \/ BgFatal \/ UNCHANGED vars
      PROVE  UNCHANGED <<once, filter, vectored>>
  BY <1>5 DEF Log, LogFatal, Fault, Crash, Except, NobodyHandles, Dump, Walk, Save, Gone, Released,
              ExitReturns, Relock, WalkFaults, ShutDown, BgFatal, Ends, Handled, InCall, handlers,
              vars
<1>6. ASSUME \/ \E t \in Threads, s \in Signals : RaiseSignal(t, s)
             \/ \E t \in All : Runtime(t) \/ ExitRaises(t)
      PROVE  UNCHANGED <<once, filter, vectored>>
  <2>1. Threads \subseteq All
    BY DEF All
  <2>2. once' = once
    BY <1>6 DEF RaiseSignal, Crash, Runtime, ExitRaises, Handled, InCall
  <2>3. (\E t \in All : \E s, stacks : Raise(t, s, stacks)) \/ UNCHANGED handlers
    BY <1>6, <2>1 DEF RaiseSignal, Runtime, ExitRaises
  <2> QED BY <1>4, <2>2, <2>3 DEF handlers
<1> QED BY <1>1, <1>2, <1>3, <1>5, <1>6 DEF Next, GoesOn, All

(* Until handlers are restored no handler of a signal returns.                 *)
LEMMA SignalsStayHandled ==
  ASSUME TypeOK, TypeOK', WalkInv, NestInv, ~past.restored, ~past'.restored,
         Rests \/ \E t \in All : StackStep(t),
         NEW u \in All, NEW s, HasSignal(u, s)
  PROVE  HasSignal(u, s)'
<1>1. PICK n \in 1..Len(stack[u]) : stack[u][n].kind = "signal" /\ stack[u][n].id = s
  BY DEF HasSignal
<1>2. CASE stack'[u] = stack[u]
  BY <1>2 DEF HasSignal
<1>3. CASE StackStep(u)
  <2> DEFINE k == Len(stack[u])
  <2>1. k \in Nat /\ Len(stack'[u]) \in Nat /\ (stack[u] # <<>> <=> k # 0)
    BY StackLengths
  <2>2. ASSUME n \in 1..Len(stack'[u]), SameFrame(u, n)
        PROVE  HasSignal(u, s)'
    BY <1>1, <2>2 DEF HasSignal, SameFrame
  <2>3. ASSUME NEW at, MovesTo(u, at)
        PROVE  HasSignal(u, s)'
    <3>1. n \in 1..(k - 1) \/ n = k
      BY <2>1
    <3> QED BY <2>2, <2>3, <3>1 DEF MovesTo, Below, SameFrame
  <2>4. ASSUME NEW f, Opens(u, f)
        PROVE  HasSignal(u, s)'
    BY <2>1, <2>2, <2>4 DEF Opens, SameFrame
  <2>5. ASSUME NEW f, NEW at, MovesAndOpens(u, at, f)
        PROVE  HasSignal(u, s)'
    <3>1. n \in 1..(k - 1) \/ n = k
      BY <2>1
    <3>2. n \in 1..Len(stack'[u])
      BY <2>1, <2>5 DEF MovesAndOpens
    <3> QED BY <2>2, <2>5, <3>1, <3>2 DEF MovesAndOpens, Below, SameFrame
  <2>6. ~Unwinds(u)
    <3> SUFFICES ASSUME Unwinds(u) PROVE FALSE
      OBVIOUS
    <3>1. stack[u] # <<>> /\ stack[u][k].kind = "exception" /\ holder # u
      BY DEF Unwinds, Top
    <3>2. n # k /\ k \in 2..k /\ k - 1 \in 1..k
      BY <1>1, <2>1, <3>1
    <3>3. stack[u][k - 1].at = "walk"
      BY <3>1, <3>2 DEF NestInv
    <3> QED BY <3>1, <3>2, <3>3 DEF WalkInv
  <2>7. ~Leaves(u)
    BY DEF Leaves
  <2> QED BY <1>3, <2>3, <2>4, <2>5, <2>6, <2>7
         DEF StackStep, Starts, Proceeds, TurnsToRaise, Locks, Unlocks, Crashes, Calls
<1>4. ASSUME NEW t \in All \ {u}, StackStep(t)
      PROVE  stack'[u] = stack[u]
  BY <1>4 DEF StackStep, Starts, Proceeds, TurnsToRaise, Locks, Unlocks, Unwinds, Crashes, Calls,
              Leaves, Opens, MovesTo, MovesAndOpens, Closes, Elsewhere
<1> QED BY <1>2, <1>3, <1>4 DEF Rests

(* Restoring aside, an action becomes the default only while its signal is     *)
(* handled, and the handler is still there.                                     *)
LEMMA CoverStep ==
  ASSUME TypeOK, TypeOK', WalkInv, NestInv, CoverInv, ActionStep, [Next]_vars,
         Rests \/ \E t \in All : StackStep(t), past.restored => past'.restored
  PROVE  CoverInv'
<1> SUFFICES ASSUME ~past'.restored PROVE CoverInv'
  BY DEF CoverInv
<1>1. ~past.restored
  OBVIOUS
<1>2. once' => filter' = "g3" /\ vectored' # {}
  BY <1>1, FilterStep DEF CoverInv
<1>3. ASSUME NEW u \in All, NEW s \in Signals, BeingHandled(u, s)
      PROVE  BeingHandled(u, s)'
  <2>1. PICK v \in All : (v = u \/ s \in SharedSignals) /\ HasSignal(v, s)
    BY <1>3 DEF BeingHandled, HasSignal
  <2>2. HasSignal(v, s)'
    BY <1>1, <2>1, SignalsStayHandled
  <2> QED BY <2>1, <2>2 DEF BeingHandled, HasSignal
<1>4. ASSUME NEW u \in All, installed'[u], NEW s \in Signals
      PROVE  action'[u][s] = "g3" \/ BeingHandled(u, s)'
  <2>1. installed[u] => action[u][s] = "g3" \/ BeingHandled(u, s)'
    BY <1>1, <1>3 DEF CoverInv
  <2>2. CASE UNCHANGED <<action, installed>>
    BY <1>4, <2>1, <2>2
  <2>3. CASE Installs
    <3>1. PICK t \in All : installed' = [installed EXCEPT ![t] = TRUE]
                           /\ action' = SetAction(t, Signals, "g3")
      BY <2>3 DEF Installs
    <3>2. u # t => installed[u]
      BY <1>4, <3>1 DEF TypeOK, InstalledOK
    <3>3. action'[u][s] = IF u = t \/ s \in SharedSignals THEN "g3" ELSE action[u][s]
      BY <3>1, SetActionValues
    <3> QED BY <2>1, <3>2, <3>3
  <2>4. CASE Raises
    <3>1. PICK t \in All, r \in Signals : action' = SetAction(t, {r}, "default") /\ HasSignal(t, r)'
      BY <1>1, <2>4 DEF Raises
    <3>2. installed[u]
      BY <1>4, <2>4 DEF Raises
    <3>3. CASE s = r /\ (u = t \/ s \in SharedSignals)
      BY <3>1, <3>3 DEF BeingHandled, HasSignal
    <3>4. CASE ~(s = r /\ (u = t \/ s \in SharedSignals))
      <4>1. action'[u][s] = action[u][s]
        BY <3>1, <3>4, SetActionValues
      <4> QED BY <2>1, <3>2, <4>1
    <3> QED BY <3>3, <3>4
  <2> QED BY <2>2, <2>3, <2>4 DEF ActionStep, Restores
<1> QED BY <1>2, <1>4 DEF CoverInv

--------------------------------------------------------------------------------
(* Nothing has happened yet that ends the calm: no message was flushed, none    *)
(* met a LogWorker that is not there, no stack dump crashed.                    *)
Quiet == ~past.flushed /\ ~past.nested /\ ~past.unlogged

(* The places of a thread whose process is on its way to the end. *)
Exiting == {"gone", "restore", "raise", "raised"}

(* Until then only crashes have put threads into handlers, all callers stay    *)
(* blocked and nothing exits ...                                                *)
QuietInv ==
   Quiet => /\ block
            /\ \A t \in All : stack[t] # <<>> => t \in past.crashed
            /\ \A t \in All : \A n \in 1..Len(stack[t]) : stack[t][n].at \notin Exiting

(* ... and a message that waits has a thread that waits with it.  The process   *)
(* was ended by another one.                                                    *)
WaitInv ==
   Quiet /\ queue # <<>> =>
      \E t \in All : In(t, "blocked") /\ (process = "ended" => past.crashed \ {t} # {})

(* Threads crash one by one. *)
CrashedInv == IsFiniteSet(past.crashed)

(* A step of a thread that has crashed and is not blocked; it may block.       *)
QuietMove(t) ==
   /\ Elsewhere(t) /\ t \in past'.crashed /\ ~In(t, "blocked")
   /\ \A n \in 1..Len(stack'[t]) : stack'[t][n].at \notin Exiting
   /\ queue' = queue \/ (In(t, "blocked")' /\ process' = "running")

(* A frame that moves or is added elsewhere brings no thread to an exit. *)
LEMMA QuietStacks ==
  ASSUME TypeOK, TypeOK', NEW t \in All,
         \A n \in 1..Len(stack[t]) : stack[t][n].at \notin Exiting
  PROVE  /\ \A at \in Places : at \notin Exiting /\ MovesTo(t, at) =>
               \A n \in 1..Len(stack'[t]) : stack'[t][n].at \notin Exiting
         /\ \A f \in Frames : f.at \notin Exiting /\ Opens(t, f) =>
               \A n \in 1..Len(stack'[t]) : stack'[t][n].at \notin Exiting
         /\ \A f \in Frames : f.at \notin Exiting /\ MovesAndOpens(t, "handlers", f) =>
               \A n \in 1..Len(stack'[t]) : stack'[t][n].at \notin Exiting
<1> DEFINE k == Len(stack[t])
<1>1. k \in Nat /\ Len(stack'[t]) \in Nat
  BY StackLengths
<1>2. ASSUME NEW at \in Places, at \notin Exiting, MovesTo(t, at)
      PROVE  \A n \in 1..Len(stack'[t]) : stack'[t][n].at \notin Exiting
  BY <1>1, <1>2 DEF MovesTo, Below
<1>3. ASSUME NEW f \in Frames, f.at \notin Exiting, Opens(t, f)
      PROVE  \A n \in 1..Len(stack'[t]) : stack'[t][n].at \notin Exiting
  BY <1>1, <1>3 DEF Opens
<1>4. ASSUME NEW f \in Frames, f.at \notin Exiting, MovesAndOpens(t, "handlers", f)
      PROVE  \A n \in 1..Len(stack'[t]) : stack'[t][n].at \notin Exiting
  <2>1. stack'[t][k].at \notin Exiting /\ stack'[t][k + 1].at \notin Exiting
    BY <1>4 DEF MovesAndOpens, Exiting
  <2>2. \A n \in 1..Len(stack'[t]) : n \in 1..(k - 1) \/ n = k \/ n = k + 1
    BY <1>1, <1>4 DEF MovesAndOpens
  <2>3. \A n \in 1..(k - 1) : stack'[t][n] = stack[t][n] /\ n \in 1..k
    BY <1>1, <1>4 DEF MovesAndOpens, Below
  <2> QED BY <2>1, <2>2, <2>3
<1> QED BY <1>2, <1>3, <1>4

(* Until then each step is such a move, or leaves stacks and messages alone. *)
LEMMA StepWhenQuiet ==
  ASSUME TypeOK, TypeOK', QuietInv, [Next]_vars, Quiet, Quiet', past.crashed \subseteq past'.crashed
  PROVE  /\ block' = block
         /\ \/ UNCHANGED <<stack, queue, process>>
            \/ \E t \in All : QuietMove(t)
<1> USE DEF Exiting
<1>0. StacksOK /\ StacksOK' /\ Threads \subseteq All /\ Worker \in All
  BY DEF TypeOK, All
<1>00. block /\ \A t \in All : /\ stack[t] # <<>> => t \in past.crashed
                               /\ \A n \in 1..Len(stack[t]) : stack[t][n].at \notin Exiting
  BY DEF QuietInv
<1>1. ASSUME NEW t \in All, NEW at \in Exiting, In(t, at) PROVE FALSE
  BY <1>0, <1>00, <1>1, StackTypes DEF In
<1>2. ASSUME NEW t \in All, NEW at, In(t, at), at # "blocked"
      PROVE  stack[t] # <<>> /\ ~In(t, "blocked") /\ t \in past'.crashed
  BY <1>00, <1>2 DEF In
<1>3. ASSUME NEW t \in All, stack' = stack, queue' = queue, t \in past'.crashed,
             ~In(t, "blocked")
      PROVE  QuietMove(t)
  BY <1>00, <1>3 DEF QuietMove, Elsewhere
<1>4. ASSUME NEW t \in All, t \in past'.crashed, ~In(t, "blocked"),
             queue' = queue \/ (In(t, "blocked")' /\ process' = "running"),
             \/ \E at \in Places \ Exiting : MovesTo(t, at)
             \/ \E f \in Frames : f.at \notin Exiting /\ Opens(t, f)
             \/ \E f \in Frames : f.at \notin Exiting /\ MovesAndOpens(t, "handlers", f)
      PROVE  QuietMove(t)
  <2>1. \A n \in 1..Len(stack'[t]) : stack'[t][n].at \notin Exiting
    BY <1>00, <1>4, QuietStacks
  <2>2. Elsewhere(t)
    BY <1>4 DEF MovesTo, Opens, MovesAndOpens
  <2> HIDE DEF Exiting
  <2> QED BY <1>4, <2>1, <2>2 DEF QuietMove
<1>5. ASSUME NEW t \in All, NEW at, In(t, at), at # "blocked", queue' = queue,
             NEW to \in Places \ Exiting,
             \/ stack' = At(t, to)
             \/ \E h \in Handles \cup {Filter} : stack' = Given(t, h, to)
      PROVE  QuietMove(t)
  BY <1>0, <1>2, <1>4, <1>5, AtMoves, GivenMoves
<1>6. ASSUME NEW t \in Threads, Crash(t)
      PROVE  block' = block /\ queue' = queue /\ ~In(t, "blocked") /\ t \in past'.crashed
  BY <1>6 DEF Crash, Idle, In, TypeOK, PastOK
<1>7. ASSUME NEW t \in Threads, LogFatal(t)
      PROVE  block' = block /\ QuietMove(t)
  <2>1. Frame("log", SIGABRT, "dump") \in Frames /\ Frame("log", SIGABRT, "dump").at = "dump"
    BY FrameTypes, WindowsAssumption DEF Signals, Places
  <2>2. Opens(t, Frame("log", SIGABRT, "dump"))
    BY <1>0, <1>7, <2>1, PushOpens DEF LogFatal
  <2> QED BY <1>0, <1>4, <1>6, <1>7, <2>1, <2>2 DEF LogFatal
<1>8. ASSUME NEW t \in Threads, NEW e \in Exceptions, Fault(t, e)
      PROVE  block' = block /\ QuietMove(t)
  <2>1. /\ Frame("exception", e, "handlers") \in Frames
        /\ Frame("exception", e, "handlers").at = "handlers"
    BY FrameTypes DEF Places
  <2>2. Opens(t, Frame("exception", e, "handlers"))
    BY <1>0, <1>8, <2>1, PushOpens DEF Fault
  <2> QED BY <1>0, <1>4, <1>6, <1>8, <2>1, <2>2 DEF Fault
<1>9. \A s \in Signals : Frame("signal", s, "dump") \in Frames
                         /\ Frame("signal", s, "dump").at = "dump"
  BY FrameTypes DEF Places
<1>10. ASSUME NEW t \in Threads, NEW s \in Signals, RaiseSignal(t, s)
       PROVE  block' = block /\ QuietMove(t)
  <2>1. Crash(t) /\ Raise(t, s, stack)
    BY <1>10 DEF RaiseSignal
  <2>2. stack' = stack \/ stack' = Push(stack, t, Frame("signal", s, "dump"))
    BY <1>0, <2>1, RaisePushes
  <2>3. CASE stack' = stack
    BY <1>0, <1>3, <1>6, <2>1, <2>3
  <2>4. CASE stack' = Push(stack, t, Frame("signal", s, "dump"))
    <3>1. Opens(t, Frame("signal", s, "dump"))
      BY <1>0, <1>9, <2>4, PushOpens
    <3> QED BY <1>0, <1>4, <1>6, <1>9, <2>1, <3>1
  <2> QED BY <2>2, <2>3, <2>4
<1>11. ASSUME NEW t \in All, Vectored(t)
       PROVE  block' = block /\ QuietMove(t)
  <2>1. In(t, "handlers") /\ queue' = queue /\ block' = block
    BY <1>11 DEF Vectored, Handled
  <2>2. vectored \subseteq Handles /\ {"dump", "handlers", "except"} \subseteq Places \ Exiting
    BY DEF TypeOK, InstalledOK, Places
  <2>3. \/ stack' = At(t, "except")
        \/ \E h \in Handles \cup {Filter} :
              stack' = Given(t, h, "dump") \/ stack' = Given(t, h, "handlers")
    BY <1>11, <2>2 DEF Vectored, VectorExceptionHandling
  <2> QED BY <1>5, <2>1, <2>2, <2>3
<1>12. ASSUME NEW t \in All, Except(t)
       PROVE  block' = block /\ QuietMove(t)
  <2>1. In(t, "except") /\ queue' = queue /\ block' = block
    BY <1>12 DEF Except, Handled
  <2>2. CASE stack' = [stack EXCEPT ![t] = <<>>]
    <3>1. Elsewhere(t) /\ stack'[t] = <<>> /\ Len(stack'[t]) = 0
      BY <1>0, <2>2, EmptySeq DEF Elsewhere, StacksOK
    <3> QED BY <1>2, <2>1, <3>1 DEF QuietMove
  <2>3. CASE stack' = At(t, "runtime")
    BY <1>5, <2>1, <2>3 DEF Places
  <2> QED BY <1>12, <2>2, <2>3 DEF Except
<1>13. ASSUME NEW t \in All, Runtime(t)
       PROVE  block' = block /\ QuietMove(t)
  <2>1. In(t, "runtime") /\ queue' = queue /\ block' = block
    BY <1>13 DEF Runtime, Handled
  <2>2. stack[t] # <<>> /\ Top(t).id \in Exceptions
    BY <1>0, <1>13, InIsOnTop DEF Runtime, Handled, Frames
  <2> DEFINE s == SignalOf[Top(t).id]
             stacks == [stack EXCEPT ![t][Len(stack[t])].at = "handlers",
                                     ![t][Len(stack[t])].given = {}]
  <2>3. CASE s # None /\ action[t][s] = "g3"
    <3>1. s \in Signals
      BY <2>2, <2>3, WindowsAssumption DEF Signals
    <3>2. stack' = stack \/ stack' = Push(stacks, t, Frame("signal", s, "dump"))
      BY <1>13, <2>3, <3>1, RaisePushes DEF Runtime
    <3>3. CASE stack' = stack
      BY <1>2, <1>3, <2>1, <3>3
    <3>4. CASE stack' = Push(stacks, t, Frame("signal", s, "dump"))
      <4>1. MovesAndOpens(t, "handlers", Frame("signal", s, "dump"))
        BY <1>0, <1>9, <2>2, <3>1, <3>4, PushWhenRunAgain
      <4>2. Frame("signal", s, "dump") \in Frames
            /\ Frame("signal", s, "dump").at \notin Exiting
        BY <1>9, <3>1
      <4> HIDE DEF s
      <4> QED BY <1>2, <1>4, <2>1, <4>1, <4>2
    <3> QED BY <3>2, <3>3, <3>4
  <2>4. CASE ~(s # None /\ action[t][s] = "g3")
    <3>1. stack' = At(t, "filter")
      BY <1>13, <2>4 DEF Runtime
    <3> QED BY <1>5, <2>1, <3>1 DEF Places
  <2> QED BY <2>3, <2>4
<1>14. ASSUME NEW t \in All, Unhandled(t)
       PROVE  block' = block /\ QuietMove(t)
  <2>1. In(t, "filter") /\ queue' = queue /\ block' = block
    BY <1>14 DEF Unhandled, Handled
  <2>2. CASE stack' = Given(t, Filter, "dump")
    BY <1>5, <2>1, <2>2 DEF Places
  <2>3. CASE stack' = stack
    BY <1>2, <1>3, <2>1, <2>3
  <2> QED BY <1>14, <2>2, <2>3 DEF Unhandled, Ends
<1>15. ASSUME NEW t \in All, NobodyHandles(t) \/ Relock(t)
       PROVE  block' = block /\ QuietMove(t)
  <2>1. (In(t, "end") \/ In(t, "dump")) /\ queue' = queue /\ block' = block /\ stack' = stack
    BY <1>15 DEF NobodyHandles, Relock, Handled, InCall, Ends
  <2> QED BY <1>2, <1>3, <2>1
<1>16. ASSUME NEW t \in All, Dump(t) \/ Walk(t)
       PROVE  block' = block /\ QuietMove(t)
  <2>1. /\ In(t, "dump") \/ In(t, "walk")
        /\ queue' = queue /\ block' = block
        /\ stack' = At(t, "save") \/ stack' = At(t, "walk")
    BY <1>16 DEF Dump, Walk, InCall
  <2> QED BY <1>5, <2>1 DEF Places
<1>17. ASSUME NEW t \in All, Save(t)
       PROVE  block' = block /\ QuietMove(t)
  <2>1. In(t, "save") /\ block' = block /\ process' = "running"
    BY <1>17 DEF Save, InCall
  <2>2. [Verified(t) EXCEPT !.unlogged = TRUE].unlogged
    BY DEF Verified, Late, TypeOK, PastOK
  <2>3. stack' = At(t, "blocked")
    BY <1>17, <2>2 DEF Save, Quiet
  <2>4. MovesTo(t, "blocked") /\ stack[t] # <<>>
    BY <1>0, <1>2, <2>1, <2>3, AtMoves DEF Places
  <2>5. In(t, "blocked")'
    BY <1>0, <2>4, StackLengths DEF MovesTo, In
  <2> QED BY <1>2, <1>4, <2>1, <2>4, <2>5 DEF Places
<1>18. ASSUME NEW t \in All,
              Gone(t) \/ Released(t) \/ Exit(t) \/ ExitRaises(t) \/ ExitReturns(t)
       PROVE  FALSE
  BY <1>00, <1>1, <1>18 DEF Gone, Released, Exit, ExitRaises, ExitReturns, InCall
<1>19. ~BgFatal /\ \A t \in All : ~WalkFaults(t)
  BY DEF BgFatal, WalkFaults, Quiet, TypeOK, PastOK
<1>20. CASE \/ \E t \in Threads : InitializeLogging(t) \/ InstallAgain(t) \/ Log(t)
            \/ ShutDown \/ UNCHANGED vars
  BY <1>20 DEF InitializeLogging, InstallAgain, Log, ShutDown, vars
<1> QED BY <1>0, <1>7, <1>8, <1>10, <1>11, <1>12, <1>13, <1>14, <1>15, <1>16, <1>17, <1>18, <1>19,
           <1>20 DEF Next, GoesOn

(* The thread that waits with a message waits on, whoever else goes on. *)
LEMMA QuietStep ==
  ASSUME TypeOK, TypeOK', QuietInv, WaitInv, [Next]_vars, Quiet' => Quiet,
         past.crashed \subseteq past'.crashed
  PROVE  QuietInv' /\ WaitInv'
<1> SUFFICES ASSUME Quiet' PROVE QuietInv' /\ WaitInv'
  BY DEF QuietInv, WaitInv
<1>1. block' = block /\ (UNCHANGED <<stack, queue, process>> \/ \E t \in All : QuietMove(t))
  BY StepWhenQuiet
<1>2. block /\ \A t \in All : /\ stack[t] # <<>> => t \in past.crashed
                              /\ \A n \in 1..Len(stack[t]) : stack[t][n].at \notin Exiting
  BY DEF QuietInv
<1>3. CASE UNCHANGED <<stack, queue, process>>
  <2>1. QuietInv'
    BY <1>1, <1>2, <1>3 DEF QuietInv
  <2>2. \A t \in All : In(t, "blocked")' = In(t, "blocked")
    BY <1>3 DEF In
  <2> QED BY <1>3, <2>1, <2>2 DEF WaitInv
<1>4. ASSUME NEW t \in All, QuietMove(t)
      PROVE  QuietInv' /\ WaitInv'
  <2>1. QuietInv'
    BY <1>1, <1>2, <1>4 DEF QuietInv, QuietMove, Elsewhere
  <2>2. ASSUME queue' = queue, queue # <<>>
        PROVE  WaitInv'
    <3>1. PICK u \in All : In(u, "blocked")
      BY <2>2 DEF WaitInv
    <3>2. u # t
      BY <1>4, <3>1 DEF QuietMove
    <3>3. In(u, "blocked")'
      BY <1>4, <3>1, <3>2 DEF QuietMove, Elsewhere, In
    <3>4. t \in past'.crashed \ {u}
      BY <1>4, <3>2 DEF QuietMove
    <3> QED BY <3>3, <3>4 DEF WaitInv
  <2>3. ASSUME In(t, "blocked")', process' = "running"
        PROVE  WaitInv'
    BY <2>3 DEF WaitInv
  <2>4. CASE queue' = <<>>
    BY <2>1, <2>4 DEF WaitInv
  <2>5. queue' = queue \/ (In(t, "blocked")' /\ process' = "running")
    BY <1>4 DEF QuietMove
  <2> QED BY <2>1, <2>2, <2>3, <2>4, <2>5
<1> QED BY <1>1, <1>3, <1>4

--------------------------------------------------------------------------------
(* The inductive invariant. *)
WindowsInv == /\ TypeOK /\ HandleInv /\ BlockInv /\ WalkInv /\ RaiseInv /\ GoneInv /\ NestInv
              /\ LoggedInv /\ CoverInv /\ CrashedInv /\ QuietInv /\ WaitInv

(* WindowsInv holds in every reachable state. *)
THEOREM Invariant == SafeSpec => []WindowsInv
<1>1. Init => WindowsInv
  <2> SUFFICES ASSUME Init PROVE WindowsInv
    OBVIOUS
  <2>1. \A t \in All : stack[t] = <<>> /\ Len(stack[t]) = 0
    BY EmptySeq DEF Init
  <2>7. HandleInv /\ BlockInv
    BY WindowsAssumption DEF Init, HandleInv, BlockInv
  <2>8. action \in [All -> [Signals -> {"g3", "default"}]] /\ installed \in [All -> BOOLEAN]
    BY DEF Init
  <2>2. InstalledOK
    BY <2>8 DEF Init, InstalledOK
  <2>3. StacksOK
    BY EmptySeq DEF Init, StacksOK
  <2>4. PastOK
    BY WindowsAssumption DEF Init, PastOK, Nothing
  <2>5. WalkInv /\ RaiseInv /\ GoneInv /\ NestInv
    BY <2>1 DEF WalkInv, RaiseInv, GoneInv, NestInv, In
  <2>6. LoggedInv /\ CoverInv
    BY DEF Init, LoggedInv, CoverInv, Nothing
  <2>9. CrashedInv /\ QuietInv /\ WaitInv
    BY <2>1, FS_EmptySet DEF Init, CrashedInv, QuietInv, WaitInv, Nothing
  <2> QED BY <2>2, <2>3, <2>4, <2>5, <2>6, <2>7, <2>9 DEF WindowsInv, TypeOK
<1>2. WindowsInv /\ [Next]_vars => WindowsInv'
  <2> SUFFICES ASSUME WindowsInv, [Next]_vars PROVE WindowsInv'
    OBVIOUS
  <2>1. /\ TypeOK /\ HandleInv /\ BlockInv /\ WalkInv /\ RaiseInv /\ GoneInv /\ NestInv
        /\ LoggedInv /\ CoverInv /\ CrashedInv /\ QuietInv /\ WaitInv
    BY DEF WindowsInv
  <2>2. TypeOK' /\ HandleInv'
    BY <2>1, InstalledStep, StacksStep, PastStep DEF TypeOK
  <2>3. /\ past.restored => past'.restored
        /\ past.late => past'.late
    BY <2>1, PastStep
  <2>4. Rests \/ \E t \in All : StackStep(t)
    BY <2>1, StepOfAStack
  <2>5. ActionStep
    BY <2>1, StepOfTheActions
  <2>6. BlockInv' /\ WalkInv' /\ RaiseInv'
    BY <2>1, <2>2, <2>3, <2>4, <2>5, BlockStep, WalkStep, RaiseStep
  <2>7. GoneInv' /\ NestInv'
    BY <2>1, <2>2, <2>3, <2>4, GoneStep, NestStep
  <2>8. LoggedInv' /\ CoverInv'
    BY <2>1, <2>2, <2>3, <2>4, <2>5, LoggedStep, CoverStep
  <2>9. /\ Quiet' => Quiet
        /\ past'.crashed = past.crashed \/ \E t \in Threads : past'.crashed = past.crashed \cup {t}
    BY <2>1, PastStep DEF Quiet
  <2>10. CrashedInv'
    BY <2>1, <2>9, FS_AddElement DEF CrashedInv
  <2>11. QuietInv' /\ WaitInv'
    BY <2>1, <2>2, <2>9, QuietStep
  <2> QED BY <2>2, <2>6, <2>7, <2>8, <2>10, <2>11 DEF WindowsInv
<1> QED BY <1>1, <1>2, PTL DEF SafeSpec

(* Every variable keeps its type: the frames of threads, the handles and the   *)
(* history, for stacks of any depth.                                            *)
THEOREM TypeCorrect == SafeSpec => []TypeOK
<1>1. WindowsInv => TypeOK
  BY DEF WindowsInv
<1> QED BY <1>1, Invariant, PTL

(* A signal that a thread raises to end the process has its default action,    *)
(* whoever restored and whichever handlers ran before, unless a thread         *)
(* installed its handlers after that (exitWithDefaultSignalHandler).           *)
THEOREM RaisedSignalsEndTheProcess == SafeSpec => []RaisedWithDefaultAction
<1>1. WindowsInv => RaisedWithDefaultAction
  <2> SUFFICES ASSUME WindowsInv, NEW t \in All, In(t, "raise"), ~past.late
               PROVE  action[t][Top(t).id] = "default"
    BY DEF RaisedWithDefaultAction
  <2>1. stack[t] # <<>> /\ Len(stack[t]) \in 1..Len(stack[t])
    BY StackTypes DEF In, WindowsInv, TypeOK
  <2> QED BY <2>1 DEF In, Top, WindowsInv, RaiseInv
<1> QED BY <1>1, Invariant, PTL

(* Until a fatal event has handlers restored, each thread that has made a LOG  *)
(* call is covered for every signal it is not handling, and an exception finds *)
(* g3log's filter and a vectored handler.                                      *)
THEOREM ThreadsThatLogAreCovered == SafeSpec => []CoveredUntilRestored
<1>1. WindowsInv => CoveredUntilRestored
  <2>1. TypeOK => past.logged \subseteq All
    BY DEF TypeOK, PastOK
  <2> QED BY <2>1 DEF WindowsInv, CoverInv, LoggedInv, CoveredUntilRestored
<1> QED BY <1>1, Invariant, PTL

(* If a single thread crashes, its message is flushed before the process ends, *)
(* however its signals and exceptions lead from one handler to another: whoever *)
(* has sent a message is blocked, so another thread ended the process.          *)
THEOREM SingleCrashIsFlushed == SafeSpec => []FlushedBeforeTheEnd
<1>1. WindowsInv => FlushedBeforeTheEnd
  <2> SUFFICES ASSUME WindowsInv, process = "ended", queue # <<>>, Quiet
               PROVE  Cardinality(past.crashed) # 1
    BY DEF FlushedBeforeTheEnd, Quiet
  <2>1. PICK t \in All : In(t, "blocked") /\ past.crashed \ {t} # {}
    BY DEF WindowsInv, WaitInv
  <2>2. t \in past.crashed
    BY <2>1 DEF WindowsInv, QuietInv, In
  <2>3. PICK u \in past.crashed : u # t
    BY <2>1
  <2>4. ASSUME Cardinality(past.crashed) = 1 PROVE FALSE
    <3>1. IsFiniteSet(past.crashed)
      BY DEF WindowsInv, CrashedInv
    <3>2. PICK v : past.crashed = {v}
      BY <2>4, <3>1, FS_Singleton
    <3> QED BY <2>2, <2>3, <3>2
  <2> QED BY <2>4
<1> QED BY <1>1, Invariant, PTL
================================================================================
