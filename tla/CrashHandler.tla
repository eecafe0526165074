----------------------------- MODULE CrashHandler ------------------------------
(******************************************************************************)
(* Fatal signals on Unix: src/src/crashhandler_unix.cpp with the calls that   *)
(* g3log.cpp and logworker.cpp make into it.                                  *)
(*                                                                            *)
(* A signal has a disposition for the whole process and is handled by one     *)
(* thread that does not block it; while signalHandler runs, that thread       *)
(* blocks the signal, and as signalHandler sleeps for good it never unblocks  *)
(* it.  The fatal message goes to the LogWorker's thread, which puts the old  *)
(* dispositions back and sends the signal again; without a LogWorker the      *)
(* thread does so itself.                                                     *)
(*                                                                            *)
(* The set-up calls are atomic here and are not made while a fatal message is *)
(* on its way: gSavedSigActions is not protected against that.                *)
(******************************************************************************)
EXTENDS Integers, Sequences, Functions

CONSTANTS Signals,   \* the signals that matter to the program
          SIGABRT,   \* the signal of LOG(FATAL) and CHECK
          kSignals,  \* those of them that g3log handles by default
          Threads,   \* the threads of the program and the LogWorker's
          Worker,    \* the LogWorker's thread
          MaxCalls,  \* bound on the set-up calls
          None

ASSUME CrashHandlerAssumption == /\ kSignals \subseteq Signals /\ SIGABRT \in Signals
                                 /\ Worker \in Threads
                                 /\ None \notin Signals \cup Threads
                                 /\ MaxCalls \in Nat

Dispositions == {"default", "user", "g3"}

VARIABLES gSignals,  \* the signals that g3log is to handle
          saved,     \* gSavedSigActions
          disp,      \* disp[s]: what the process does on signal s
          active,    \* a LogWorker is initialised
          once,      \* g_initialize_flag
          blocked,   \* blocked[t]: the signals that thread t blocks
          asleep,    \* the threads that sleep in signalHandler
          queue,     \* the signals of the fatal messages sent to the LogWorker
          exiter,    \* the thread in exitWithDefaultSignalHandler, or None
          signal,    \* its signal_number, or None
          step,      \* and what it does next: "restore", "kill", "exit"
          process,   \* "running", "killed" by a signal, or "exited" by itself
          calls,     \* set-up calls made, for MaxCalls
          twice      \* history: handlers installed over those of an earlier override

setup == <<gSignals, saved, disp, active, once, calls, twice>>
fatal == <<blocked, asleep, queue, exiter, signal, step, process>>
vars  == <<setup, fatal>>

TypeOK == /\ gSignals \subseteq Signals
          /\ DOMAIN saved \subseteq Signals /\ Range(saved) \subseteq Dispositions
          /\ disp \in [Signals -> Dispositions]
          /\ active \in BOOLEAN /\ once \in BOOLEAN /\ calls \in 0..MaxCalls /\ twice \in BOOLEAN
          /\ blocked \in [Threads -> SUBSET Signals] /\ asleep \subseteq Threads
          /\ queue \in Seq(Signals)
          /\ exiter \in Threads \cup {None} /\ signal \in Signals \cup {None}
          /\ step \in {"restore", "kill", "exit"}
          /\ process \in {"running", "killed", "exited"}

Init == /\ gSignals = kSignals /\ saved = <<>>
        /\ disp \in [Signals -> {"default", "user"}]
        /\ active = FALSE /\ once = FALSE /\ calls = 0 /\ twice = FALSE
        /\ blocked = [t \in Threads |-> {}] /\ asleep = {} /\ queue = <<>>
        /\ exiter = None /\ signal = None /\ step = "restore"
        /\ process = "running"

--------------------------------------------------------------------------------
(* The operations on dispositions, on a record of saved and disp. *)

(* installSignalHandler: the previous action of each signal is saved. *)
Install(d, set) == 
   [saved |-> [s \in DOMAIN d.saved \cup set |-> IF s \in set THEN d.disp[s] ELSE d.saved[s]],
    disp  |-> [s \in Signals |-> IF s \in set THEN "g3" ELSE d.disp[s]]]

(* restoreSignalHandler for every signal of a set; a saved action is used once.*)
RestoreAll(d, set) == 
   [saved |-> [s \in DOMAIN d.saved \ set |-> d.saved[s]],
    disp  |-> [s \in Signals |-> IF s \in set \cap DOMAIN d.saved
                                 THEN d.saved[s] ELSE d.disp[s]]]

Now == [saved |-> saved, disp |-> disp]

Becomes(d) == saved' = d.saved /\ disp' = d.disp

(* Mutants: the test for the same set comes first; nothing is restored. *)
OverrideUnlessSame(set) == 
   Becomes(IF set = gSignals THEN Now ELSE Install(RestoreAll(Now, gSignals), set))

OverrideOnTop(set) == 
   Becomes(IF set = gSignals THEN RestoreAll(Now, gSignals) ELSE Install(Now, set))

(* overrideSetupSignals stops after the restore if the set is the one it has. *)
Override(set) == LET restored == RestoreAll(Now, gSignals) IN
                 Becomes(IF set = gSignals THEN restored ELSE Install(restored, set))

--------------------------------------------------------------------------------
(* Set-up calls *)
Running == process = "running"

MaySetUp == /\ Running /\ asleep = {} /\ queue = <<>> /\ exiter = None
            /\ calls < MaxCalls /\ calls' = calls + 1
            /\ UNCHANGED fatal

InitializeLogging == /\ MaySetUp
                     /\ ~active /\ active' = TRUE
                     /\ once' = TRUE
                     /\ IF once THEN UNCHANGED <<saved, disp>> ELSE Becomes(Install(Now, gSignals))
                     /\ twice' = (twice \/ (~once /\ \E s \in gSignals : disp[s] = "g3"))
                     /\ UNCHANGED gSignals

(* ~LogWorker leaves the signals as they are. *)
ShutDownLogging == /\ MaySetUp
                   /\ active /\ active' = FALSE
                   /\ UNCHANGED <<gSignals, saved, disp, once, twice>>

OverrideSetupSignals(set) == /\ MaySetUp
                             /\ Override(set)
                             /\ gSignals' = set
                             /\ UNCHANGED <<active, once, twice>>

RestoreSignalHandler(s) == /\ MaySetUp
                           /\ Becomes(RestoreAll(Now, {s}))
                           /\ UNCHANGED <<gSignals, active, once, twice>>

(* The program sets a handler of its own. *)
UserHandler(s) == /\ MaySetUp
                  /\ disp' = [disp EXCEPT ![s] = "user"]
                  /\ UNCHANGED <<gSignals, saved, active, once, twice>>

--------------------------------------------------------------------------------
(* The LogWorker and its thread are there while they are the active ones. *)
Existing == IF active THEN Threads ELSE Threads \ {Worker}

(* pushFatalMessageToLogger on thread t, which does not come back. *)
PushFatal(t, s) == 
   \/ /\ active
      /\ queue' = Append(queue, s)
      /\ asleep' = asleep \cup {t}
      /\ step' = IF exiter = None THEN step ELSE "exit"
      /\ UNCHANGED <<exiter, signal>>
   \/ /\ ~active
      /\ exiter' = t /\ signal' = s /\ step' = "restore"
      /\ UNCHANGED <<queue, asleep>>

(* Thread t handles signal s; signalHandler logs a fatal message. *)
Handle(t, s) == 
   \/ /\ disp[s] = "g3"
      /\ blocked' = [blocked EXCEPT ![t] = @ \cup {s}]
      /\ PushFatal(t, s)
      /\ UNCHANGED process
   \/ /\ disp[s] # "g3"
      /\ process' = IF disp[s] = "default" THEN "killed" ELSE process
      /\ step' = IF exiter = None THEN step ELSE "exit"
      /\ UNCHANGED <<blocked, asleep, queue, exiter, signal>>

(* A fault in thread t, or a signal from outside that the kernel gives to t.  *)
Caught(t, s) == /\ Running /\ exiter = None
                /\ t \in Existing \ asleep
                /\ Handle(t, s)
                /\ UNCHANGED setup

(* LOG(FATAL) or a failed CHECK in thread t. *)
LogFatal(t) == /\ Running /\ exiter = None
               /\ t \in Existing \ asleep
               /\ PushFatal(t, SIGABRT)
               /\ UNCHANGED <<setup, blocked, process>>

(* bgFatal on the LogWorker's thread, once the sinks have been flushed. *)
BgFatal == /\ Running /\ exiter = None
           /\ Worker \notin asleep /\ queue # <<>>
           /\ queue' = Tail(queue)
           /\ exiter' = Worker /\ signal' = Head(queue)
           /\ UNCHANGED <<setup, blocked, asleep, step, process>>

(* exitWithDefaultSignalHandler *)
ExitRestores == /\ Running /\ exiter # None /\ step = "restore"
                /\ Override(gSignals)
                /\ step' = "kill"
                /\ UNCHANGED <<gSignals, active, once, calls, twice, blocked, asleep, queue,
                               exiter, signal, process>>

(* kill(getpid(), signal_number): some thread that does not block the signal, *)
(* the caller perhaps; otherwise it stays pending.                            *)
Kill == /\ Running /\ exiter # None /\ step = "kill"
        /\ \/ \E t \in Existing : signal \notin blocked[t] /\ Handle(t, signal)
           \/ /\ \A t \in Existing : signal \in blocked[t]
              /\ step' = "exit"
              /\ UNCHANGED <<process, blocked, asleep, queue, exiter, signal>>
        /\ UNCHANGED setup

Exit == /\ Running /\ exiter # None /\ step = "exit"
        /\ exiter \notin asleep
        /\ process' = "exited"
        /\ UNCHANGED <<setup, blocked, asleep, queue, exiter, signal, step>>

ExitWithDefaultSignalHandler == ExitRestores \/ Kill \/ Exit

Next == \/ InitializeLogging \/ ShutDownLogging
        \/ \E set \in SUBSET Signals : OverrideSetupSignals(set)
        \/ \E s \in Signals : RestoreSignalHandler(s) \/ UserHandler(s)
        \/ \E t \in Threads : LogFatal(t) \/ \E s \in Signals : Caught(t, s)
        \/ BgFatal
        \/ ExitWithDefaultSignalHandler

SafeSpec == Init /\ [][Next]_vars

(* The LogWorker's thread and the exiting thread go on unless they sleep; no  *)
(* signal has to come.                                                        *)
Fairness == WF_vars(BgFatal) /\ WF_vars(ExitWithDefaultSignalHandler)

Spec == SafeSpec /\ Fairness

--------------------------------------------------------------------------------
(* "g3log re-emits the fatal signal after it has restored the previous signal  *)
(* handler for that signal" (API.markdown): when kill is called the signal does*)
(* not lead back into signalHandler, whatever overrides, restores and handlers *)
(* of its own the program has made before - unless overrideSetupSignals came   *)
(* before the first initializeLogging, which then installs signalHandler once  *)
(* more and saves it as its own predecessor.                                   *)
ReemittedToPreviousHandler == step = "kill" /\ ~twice => disp[signal] # "g3"

(* Dropping a signal from the set gives it back: signalHandler is never        *)
(* installed for a signal that g3log is not to handle (with the same exception).*)
OnlyItsOwnSignals == ~twice => \A s \in Signals : disp[s] = "g3" => s \in gSignals

(* A signal that signalHandler caught, or a fatal message of its own, ends the *)
(* process: "sleep forever until the application has exited (after message     *)
(* flush)" (logmessage.hpp:141-142), unless the LogWorker's own thread was put *)
(* to sleep before it came to a fatal message: nobody else can end the process.*)
(* If signalHandler is its own predecessor it may happen in the fatal exit.    *)
CaughtSignalEndsProcess ==
   asleep # {} ~> (~Running \/ twice \/ (Worker \in asleep /\ exiter = None))

--------------------------------------------------------------------------------
(* What the documents promise and the code does not keep *)

(* The first of the properties above as API.markdown:334 has it, also for an   *)
(* overrideSetupSignals before the first initializeLogging.                    *)
AlwaysReemitted == step = "kill" => disp[signal] # "g3"

(* The last one as logmessage.hpp:141-142 has it, also for a fatal signal that *)
(* the kernel gives to the LogWorker's own thread.                             *)
SleepsUntilExit == asleep # {} ~> (~Running \/ twice)
================================================================================
