--------------------------- MODULE CrashHandlerProofs ---------------------------
(* Proofs about CrashHandler, for any signals and threads and any set that     *)
(* g3log handles by default.                                                   *)
EXTENDS CrashHandler, SequenceTheorems, TLAPS

(* Where signalHandler is installed there is a saved action to go back to, and *)
(* it is never signalHandler itself: but for a first initializeLogging after   *)
(* an overrideSetupSignals (twice).                                            *)
SavedIsAnother == 
   ~twice => /\ \A s \in Signals : disp[s] = "g3" => s \in gSignals \cap DOMAIN saved
             /\ \A s \in DOMAIN saved : saved[s] # "g3"

(* From the restore in exitWithDefaultSignalHandler up to its kill no signal   *)
(* is handled by signalHandler.                                                *)
ReadyToKill == 
   step = "kill" => exiter # None /\ (~twice => \A s \in Signals : disp[s] # "g3")

HandlerInv == /\ TypeOK
              /\ exiter # None => signal \in Signals
              /\ SavedIsAnother
              /\ ReadyToKill

--------------------------------------------------------------------------------
(* overrideSetupSignals leaves the handler on exactly the signals of the new   *)
(* set, each with another action saved; or on none, if that set is the old one.*)
LEMMA OverrideKeepsOthers ==
  ASSUME HandlerInv, NEW set \in SUBSET Signals, Override(set)
  PROVE  /\ DOMAIN saved' \subseteq Signals /\ Range(saved') \subseteq Dispositions
         /\ disp' \in [Signals -> Dispositions]
         /\ ~twice => /\ \A s \in Signals : disp'[s] = "g3" => s \in set \cap DOMAIN saved'
                      /\ \A s \in DOMAIN saved' : saved'[s] # "g3"
                      /\ set = gSignals => \A s \in Signals : disp'[s] # "g3"
<1> DEFINE r == RestoreAll(Now, gSignals)
           i == Install(r, set)
<1>1. /\ DOMAIN r.saved = DOMAIN saved \ gSignals
      /\ \A s \in DOMAIN r.saved : r.saved[s] = saved[s]
      /\ \A s \in Signals : 
            r.disp[s] = IF s \in gSignals \cap DOMAIN saved THEN saved[s] ELSE disp[s]
      /\ DOMAIN r.disp = Signals
      /\ r.disp = [s \in Signals |-> r.disp[s]]
  BY DEF RestoreAll, Now
<1>2. /\ DOMAIN i.saved = DOMAIN r.saved \cup set
      /\ \A s \in DOMAIN i.saved : i.saved[s] = IF s \in set THEN r.disp[s] ELSE r.saved[s]
      /\ \A s \in Signals : i.disp[s] = IF s \in set THEN "g3" ELSE r.disp[s]
      /\ DOMAIN i.disp = Signals
      /\ i.disp = [s \in Signals |-> i.disp[s]]
  BY DEF Install
<1>3. \/ set = gSignals /\ saved' = r.saved /\ disp' = r.disp
      \/ set # gSignals /\ saved' = i.saved /\ disp' = i.disp
  BY DEF Override, Becomes
<1> HIDE DEF r, i
<1>4. /\ DOMAIN saved \subseteq Signals /\ \A s \in DOMAIN saved : saved[s] \in Dispositions
      /\ disp \in [Signals -> Dispositions] /\ gSignals \subseteq Signals
      /\ SavedIsAnother
  BY DEF HandlerInv, TypeOK, Range
<1>5. ~twice => \A s \in Signals : r.disp[s] # "g3"
  BY <1>1, <1>4 DEF SavedIsAnother
<1>6. \A s \in DOMAIN saved' : saved'[s] \in Dispositions
  BY <1>1, <1>2, <1>3, <1>4
<1>7. disp' \in [Signals -> Dispositions]
  BY <1>1, <1>2, <1>3, <1>4 DEF Dispositions
<1>8. DOMAIN saved' \subseteq Signals /\ Range(saved') \subseteq Dispositions
  BY <1>1, <1>2, <1>3, <1>4, <1>6 DEF Range
<1>9. ~twice => /\ \A s \in Signals : disp'[s] = "g3" => s \in set \cap DOMAIN saved'
                /\ \A s \in DOMAIN saved' : saved'[s] # "g3"
                /\ set = gSignals => \A s \in Signals : disp'[s] # "g3"
  BY <1>1, <1>2, <1>3, <1>4, <1>5 DEF SavedIsAnother
<1> QED BY <1>7, <1>8, <1>9

--------------------------------------------------------------------------------
(* The set-up calls. *)
LEMMA SetUpPreserves ==
  ASSUME HandlerInv, MaySetUp,
         \/ InitializeLogging \/ ShutDownLogging
         \/ \E set \in SUBSET Signals : OverrideSetupSignals(set)
         \/ \E s \in Signals : RestoreSignalHandler(s) \/ UserHandler(s)
  PROVE  HandlerInv'
<1> USE CrashHandlerAssumption
<1>1. /\ exiter' = exiter /\ signal' = signal /\ step' = step /\ blocked' = blocked
      /\ asleep' = asleep /\ queue' = queue /\ process' = process
      /\ exiter = None /\ calls' = calls + 1 /\ calls < MaxCalls
  BY DEF MaySetUp, fatal
<1>2. calls' \in 0..MaxCalls
  BY <1>1 DEF HandlerInv, TypeOK
<1>3. ReadyToKill' /\ (exiter' # None => signal' \in Signals)
  BY <1>1 DEF HandlerInv, ReadyToKill
<1>4. /\ DOMAIN saved \subseteq Signals /\ \A s \in DOMAIN saved : saved[s] \in Dispositions
      /\ disp \in [Signals -> Dispositions] /\ gSignals \subseteq Signals
  BY DEF HandlerInv, TypeOK, Range
<1> DEFINE Setup == /\ gSignals' \subseteq Signals
                    /\ DOMAIN saved' \subseteq Signals /\ Range(saved') \subseteq Dispositions
                    /\ disp' \in [Signals -> Dispositions]
                    /\ SavedIsAnother'
<1> DEFINE Flags == active' \in BOOLEAN /\ once' \in BOOLEAN /\ twice' \in BOOLEAN
<1>5. SUFFICES Setup /\ Flags
  BY <1>1, <1>2, <1>3 DEF HandlerInv, TypeOK
<1>6. CASE InitializeLogging
  <2>1. Setup
    <3>1. CASE once
      BY <1>4, <1>6, <3>1 DEF InitializeLogging, HandlerInv, TypeOK, SavedIsAnother
    <3>2. CASE ~once
      <4> DEFINE i == Install(Now, gSignals)
      <4>1. /\ DOMAIN i.saved = DOMAIN saved \cup gSignals
            /\ \A s \in DOMAIN i.saved : i.saved[s] = IF s \in gSignals THEN disp[s] ELSE saved[s]
            /\ \A s \in Signals : i.disp[s] = IF s \in gSignals THEN "g3" ELSE disp[s]
            /\ i.disp = [s \in Signals |-> i.disp[s]]
        BY DEF Install, Now
      <4>2. saved' = i.saved /\ disp' = i.disp /\ gSignals' = gSignals
        BY <1>6, <3>2 DEF InitializeLogging, Becomes
      <4>3. ~twice' => ~twice /\ \A s \in gSignals : disp[s] # "g3"
        BY <1>6, <3>2 DEF InitializeLogging
      <4> HIDE DEF i
      <4>4. disp' \in [Signals -> Dispositions]
        BY <1>4, <4>1, <4>2 DEF Dispositions
      <4>5. DOMAIN saved' \subseteq Signals /\ Range(saved') \subseteq Dispositions
        BY <1>4, <4>1, <4>2 DEF Range
      <4>6. SavedIsAnother'
        BY <1>4, <4>1, <4>2, <4>3 DEF HandlerInv, SavedIsAnother
      <4> QED BY <1>4, <4>2, <4>4, <4>5, <4>6
    <3> QED BY <3>1, <3>2
  <2>2. twice' \in BOOLEAN
    BY <1>6, Zenon DEF InitializeLogging, HandlerInv, TypeOK
  <2>3. active' \in BOOLEAN /\ once' \in BOOLEAN
    BY <1>6 DEF InitializeLogging
  <2> QED BY <2>1, <2>2, <2>3
<1>7. ASSUME NEW set \in SUBSET Signals, OverrideSetupSignals(set) PROVE Setup /\ Flags
  <2>1. Override(set) /\ gSignals' = set /\ active' = active /\ once' = once /\ twice' = twice
    BY <1>7 DEF OverrideSetupSignals
  <2>2. Setup
    BY <1>4, <2>1, OverrideKeepsOthers DEF SavedIsAnother
  <2> QED BY <2>1, <2>2 DEF HandlerInv, TypeOK
<1>8. ASSUME NEW s \in Signals, RestoreSignalHandler(s) PROVE Setup /\ Flags
  <2> DEFINE r == RestoreAll(Now, {s})
  <2>1. /\ DOMAIN r.saved = DOMAIN saved \ {s}
        /\ \A x \in DOMAIN r.saved : r.saved[x] = saved[x]
        /\ \A x \in Signals : r.disp[x] = IF x \in {s} \cap DOMAIN saved THEN saved[x] ELSE disp[x]
        /\ r.disp = [x \in Signals |-> r.disp[x]]
    BY DEF RestoreAll, Now
  <2>2. /\ saved' = r.saved /\ disp' = r.disp
        /\ gSignals' = gSignals /\ active' = active /\ once' = once /\ twice' = twice
    BY <1>8 DEF RestoreSignalHandler, Becomes
  <2> HIDE DEF r
  <2>3. disp' \in [Signals -> Dispositions]
    BY <1>4, <2>1, <2>2
  <2>4. DOMAIN saved' \subseteq Signals /\ Range(saved') \subseteq Dispositions
    BY <1>4, <2>1, <2>2 DEF Range
  <2>5. SavedIsAnother'
    BY <1>4, <2>1, <2>2 DEF HandlerInv, SavedIsAnother
  <2> QED BY <1>4, <2>2, <2>3, <2>4, <2>5 DEF HandlerInv, TypeOK
<1>9. ASSUME NEW s \in Signals, UserHandler(s) PROVE Setup /\ Flags
  BY <1>4, <1>9 DEF UserHandler, HandlerInv, TypeOK, SavedIsAnother, Dispositions
<1>10. CASE ShutDownLogging
  BY <1>10 DEF ShutDownLogging, HandlerInv, TypeOK, SavedIsAnother
<1> QED BY <1>6, <1>7, <1>8, <1>9, <1>10

(* The steps of threads that are hit by a signal or log a fatal message. *)
LEMMA HandlePreserves ==
  ASSUME HandlerInv, UNCHANGED setup, NEW t \in Threads, NEW s \in Signals,
         exiter = None \/ step = "kill",
         Handle(t, s) \/ (PushFatal(t, s) /\ UNCHANGED <<blocked, process>>)
  PROVE  HandlerInv'
<1> USE CrashHandlerAssumption
<1>1. /\ gSignals' = gSignals /\ saved' = saved /\ disp' = disp /\ twice' = twice
      /\ active' = active /\ once' = once /\ calls' = calls
  BY DEF setup
<1>2. SavedIsAnother'
  BY <1>1 DEF HandlerInv, SavedIsAnother
<1>3. Append(queue, s) \in Seq(Signals)
  BY AppendProperties DEF HandlerInv, TypeOK
<1>4. /\ blocked' \in [Threads -> SUBSET Signals] /\ asleep' \subseteq Threads
      /\ queue' \in Seq(Signals)
      /\ process' \in {"running", "killed", "exited"}
  BY <1>3 DEF HandlerInv, TypeOK, Handle, PushFatal
<1>5. /\ exiter' \in Threads \cup {None} /\ signal' \in Signals \cup {None}
      /\ step' \in {"restore", "kill", "exit"}
      /\ exiter' # None => signal' \in Signals
      /\ step' # "kill" \/ (step = "kill" /\ exiter = None)
  BY DEF HandlerInv, TypeOK, Handle, PushFatal, ReadyToKill
<1> QED BY <1>1, <1>2, <1>4, <1>5 DEF HandlerInv, TypeOK, ReadyToKill

(* Every step of the program, of the threads hit by a signal and of the fatal  *)
(* exit keeps the invariant.                                                   *)
LEMMA HandlerInvInductive == /\ Init => HandlerInv
                             /\ HandlerInv /\ [Next]_vars => HandlerInv'
<1> USE CrashHandlerAssumption
<1>1. ASSUME Init PROVE HandlerInv
  <2>1. /\ DOMAIN saved = {} /\ Range(saved) = {} /\ queue \in Seq(Signals)
    BY <1>1, EmptySeq DEF Init, Range
  <2>2. disp \in [Signals -> Dispositions] /\ \A s \in Signals : disp[s] # "g3"
    BY <1>1 DEF Init, Dispositions
  <2>3. TypeOK
    <3>1. active \in BOOLEAN /\ once \in BOOLEAN /\ twice \in BOOLEAN
      BY <1>1 DEF Init
    <3>2. calls \in 0..MaxCalls
      BY <1>1 DEF Init
    <3>3. /\ gSignals \subseteq Signals /\ blocked \in [Threads -> SUBSET Signals]
          /\ asleep \subseteq Threads
      BY <1>1 DEF Init
    <3>4. /\ exiter \in Threads \cup {None} /\ signal \in Signals \cup {None}
          /\ step \in {"restore", "kill", "exit"} /\ process \in {"running", "killed", "exited"}
      BY <1>1 DEF Init
    <3> QED BY <2>1, <2>2, <3>1, <3>2, <3>3, <3>4 DEF TypeOK
  <2> QED BY <1>1, <2>2, <2>3 DEF Init, HandlerInv, SavedIsAnother, ReadyToKill
<1>2. ASSUME HandlerInv, [Next]_vars PROVE HandlerInv'
  <2>1. CASE \/ InitializeLogging \/ ShutDownLogging
             \/ \E set \in SUBSET Signals : OverrideSetupSignals(set)
             \/ \E s \in Signals : RestoreSignalHandler(s) \/ UserHandler(s)
    <3>1. MaySetUp
      BY <2>1 DEF InitializeLogging, ShutDownLogging, OverrideSetupSignals, RestoreSignalHandler,
                  UserHandler
    <3> QED BY <1>2, <2>1, <3>1, SetUpPreserves
  <2>2. ASSUME NEW t \in Threads, LogFatal(t) PROVE HandlerInv'
    BY <1>2, <2>2, HandlePreserves DEF LogFatal
  <2>3. ASSUME NEW t \in Threads, NEW s \in Signals, Caught(t, s) PROVE HandlerInv'
    BY <1>2, <2>3, HandlePreserves DEF Caught
  <2>4. CASE BgFatal
    <3>1. Head(queue) \in Signals /\ queue' \in Seq(Signals)
      BY <1>2, <2>4, HeadTailProperties DEF BgFatal, HandlerInv, TypeOK
    <3> QED BY <1>2, <2>4, <3>1 DEF BgFatal, setup, HandlerInv, TypeOK, SavedIsAnother, ReadyToKill
  <2>5. CASE ExitRestores
    <3>1. gSignals \in SUBSET Signals /\ Override(gSignals)
      BY <1>2, <2>5 DEF ExitRestores, HandlerInv, TypeOK
    <3> QED BY <1>2, <2>5, <3>1, OverrideKeepsOthers
            DEF ExitRestores, HandlerInv, TypeOK, SavedIsAnother, ReadyToKill
  <2>6. CASE Kill
    <3>1. ASSUME NEW t \in Existing, Handle(t, signal) PROVE HandlerInv'
      <4>1. t \in Threads /\ signal \in Signals /\ step = "kill" /\ UNCHANGED setup
        BY <1>2, <2>6 DEF Kill, Existing, HandlerInv
      <4> QED BY <1>2, <3>1, <4>1, HandlePreserves
    <3>2. CASE step' = "exit" /\ UNCHANGED <<process, blocked, asleep, queue, exiter, signal>>
      BY <1>2, <2>6, <3>2 DEF Kill, setup, HandlerInv, TypeOK, SavedIsAnother, ReadyToKill
    <3> QED BY <2>6, <3>1, <3>2 DEF Kill
  <2>7. CASE Exit
    BY <1>2, <2>7 DEF Exit, setup, HandlerInv, TypeOK, SavedIsAnother, ReadyToKill
  <2>8. CASE UNCHANGED vars
    BY <1>2, <2>8 DEF vars, setup, fatal, HandlerInv, TypeOK, SavedIsAnother, ReadyToKill
  <2> QED BY <1>2, <2>1, <2>2, <2>3, <2>4, <2>5, <2>6, <2>7, <2>8
          DEF Next, ExitWithDefaultSignalHandler
<1> QED BY <1>1, <1>2

--------------------------------------------------------------------------------
(* The tables of handlers, the masks of the threads and the fatal exit keep    *)
(* their types: gSavedSigActions never has an action for a signal that is not  *)
(* one, and the fatal exit has a thread and a signal once it has begun.        *)
THEOREM TypeCorrect == SafeSpec => []TypeOK
<1>1. HandlerInv => TypeOK
  BY DEF HandlerInv
<1> QED BY <1>1, HandlerInvInductive, PTL DEF SafeSpec

(* When kill sends the fatal signal again, signalHandler is not there to catch *)
(* it, whatever the program has overridden, restored and handled itself (but   *)
(* for an override before the first initializeLogging).                        *)
THEOREM AlwaysToThePreviousHandler == SafeSpec => []ReemittedToPreviousHandler
<1>1. HandlerInv => ReemittedToPreviousHandler
  BY DEF HandlerInv, ReadyToKill, ReemittedToPreviousHandler
<1> QED BY <1>1, HandlerInvInductive, PTL DEF SafeSpec

(* signalHandler is installed for signals of the current set only: what an     *)
(* overrideSetupSignals drops it gives back (with the same exception).         *)
THEOREM HandlesOnlyItsOwnSignals == SafeSpec => []OnlyItsOwnSignals
<1>1. HandlerInv => OnlyItsOwnSignals
  BY DEF HandlerInv, SavedIsAnother, OnlyItsOwnSignals
<1> QED BY <1>1, HandlerInvInductive, PTL DEF SafeSpec
================================================================================
