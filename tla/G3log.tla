--------------------------------- MODULE G3log ---------------------------------
(******************************************************************************)
(* The global state of src/src/g3log.cpp and every call that touches it:      *)
(* LOG before and after initializeLogging, the fatal pipeline with its        *)
(* pre-logging hook, initializeLogging itself, and the shutdown that          *)
(* ~LogWorker makes.                                                          *)
(*                                                                            *)
(* g_logger_instance is a plain pointer that the LOG calls read without a     *)
(* lock, so a step here is the code between two accesses to shared state. A   *)
(* LogWorker is reduced to the messages it has accepted, in order, and the    *)
(* number it has executed (modules ActiveObject and LogWorker say why).       *)
(******************************************************************************)
EXTENDS Integers, Sequences, FiniteSets, Functions

CONSTANTS Threads,    \* the threads of the program
          Workers,    \* the LogWorker objects it makes
          Msgs,       \* each is logged at most once
          FatalMsgs,  \* those with a fatal level
          Hooks,      \* the functions passed to setFatalPreLoggingHook, each once
          Warning,    \* the message about shutting down the wrong LogWorker
          None        \* nullptr

ASSUME G3logAssumption == /\ FatalMsgs \subseteq Msgs
                          /\ Warning \notin Msgs /\ None # "clear"
                          /\ {None, "clear"} \cap (Threads \cup Workers \cup Msgs \cup {Warning}) = {}
                          /\ Hooks \cap {"empty", "nothing"} = {}

VARIABLES logger,    \* g_logger_instance
          mutex,     \* the thread that holds g_logging_init_mutex, or None
          handling,  \* installCrashHandler has been called
          first,     \* g_first_uninitialized_msg
          setOnce,   \* g_set_first_uninitialized_flag
          saveOnce,  \* g_save_first_uninitialized_flag
          hook,      \* g_fatal_pre_logging_hook: "empty", "nothing" or one of Hooks
          counter,   \* g_fatal_hook_recursive_counter
          mock,      \* g_fatal_to_g3logworker_function_ptr throws, as in unit tests
          life,      \* life[w]: "alive", "draining", "joining" (_bg is null), "gone"
          sent,      \* sent[w]: the messages that save and fatal of w have queued,
                     \* and the task of removeAllSinks, "clear"
          ran,       \* ran[w]: how many of them the worker's thread has executed
          ended,     \* "no", or how the process ended
          pc,        \* where each thread is
          cur,       \* cur[t]: the message of the LOG call of t
          mine,      \* mine[t]: the LogWorker that t initialises or destroys
          seen,      \* seen[t]: what t last read in g_logger_instance
          myhook,    \* myhook[t]: the local fatalhook
          \* history
          logged,    \* the messages whose LOG call has begun
          home,      \* home[m]: the active LogWorker when it began
          stored,    \* the first uninitialized message
          disorder,  \* a logger came or went while another thread was in a call
          hookRuns,  \* hookRuns[h]: how often hook h was run
          nested,    \* threads whose hook crashed and became a fatal call itself
          forgot,    \* threads in a fatal call whose count was reset meanwhile
          flagged,   \* the messages with the warning of a recursive crash
          threw      \* a LOG call ended with bad_function_call

firstvar == <<first, setOnce, saveOnce>>
hooks    == <<hook, counter, mock>>
globals  == <<logger, mutex, handling, firstvar, hooks>>
workers  == <<life, sent, ran>>
locals   == <<pc, cur, mine, seen, myhook>>
logs     == <<logged, home, stored, disorder>>
crashes  == <<hookRuns, nested, forgot, flagged, threw>>
history  == <<logs, crashes>>
vars == <<globals, workers, ended, locals, history>>

InFatal    == {"take", "count", "hook", "warn"}
InLog      == InFatal \cup {"check", "store", "annotate", "save"}
InInit     == {"init", "init_first", "init_publish", "init_hook", "init_counter"}
InShutDown == {"d_check", "d_shut"}
InDtor     == {"d_flush", "d_wait", "d_join"}

PCs == InLog \cup InInit \cup InShutDown \cup InDtor \cup {"idle", "asleep"}

GlobalsOK == /\ logger \in Workers \cup {None} /\ mutex \in Threads \cup {None}
             /\ first \in Msgs \cup {Warning, None}
             /\ {handling, setOnce, saveOnce, mock} \subseteq BOOLEAN
             /\ hook \in Hooks \cup {"empty", "nothing"} /\ counter \in Nat
             /\ ended \in {"no", "fatal", "killed", "failure", "no_worker", "no_message"}

WorkersOK == /\ life \in [Workers -> {"alive", "draining", "joining", "gone"}]
             /\ sent \in [Workers -> Seq(Msgs \cup {Warning, "clear"})]
             /\ ran \in [Workers -> Nat]
             /\ \A w \in Workers : ran[w] <= Len(sent[w])

LocalsOK == /\ pc \in [Threads -> PCs]
            /\ cur \in [Threads -> Msgs \cup {Warning, None}]
            /\ mine \in [Threads -> Workers \cup {None}]
            /\ seen \in [Threads -> Workers \cup {None}]
            /\ myhook \in [Threads -> Hooks \cup {"empty", "nothing"}]

HistoryOK == /\ logged \subseteq Msgs /\ home \in [Msgs -> Workers \cup {None}]
             /\ stored \in Msgs \cup {Warning, None}
             /\ {disorder, threw} \subseteq BOOLEAN
             /\ hookRuns \in [Hooks -> Nat]
             /\ nested \subseteq Threads /\ forgot \subseteq Threads
             /\ flagged \subseteq FatalMsgs

TypeOK == GlobalsOK /\ WorkersOK /\ LocalsOK /\ HistoryOK

(* Static initialisation; the LogWorkers exist and none is active. *)
Init == /\ logger = None /\ mutex = None /\ handling = FALSE
        /\ first = None /\ setOnce = FALSE /\ saveOnce = FALSE
        /\ hook = "empty" /\ counter = 0 /\ mock = FALSE
        /\ life = [w \in Workers |-> "alive"]
        /\ sent = [w \in Workers |-> <<>>] /\ ran = [w \in Workers |-> 0]
        /\ ended = "no"
        /\ pc = [t \in Threads |-> "idle"]
        /\ cur = [t \in Threads |-> None]
        /\ mine = [t \in Threads |-> None] /\ seen = [t \in Threads |-> None]
        /\ myhook = [t \in Threads |-> "nothing"]
        /\ logged = {} /\ home = [m \in Msgs |-> None] /\ stored = None
        /\ disorder = FALSE /\ hookRuns = [h \in Hooks |-> 0]
        /\ nested = {} /\ forgot = {} /\ flagged = {} /\ threw = FALSE

--------------------------------------------------------------------------------
At(t, l) == pc[t] = l /\ ended = "no"
Goto(t, l) == pc' = [pc EXCEPT ![t] = l]
Step(t, from, to) == At(t, from) /\ Goto(t, to)

(* History: a LOG call of the program and a change of the logger overlap. *)
Disturbs == disorder' = (disorder \/ \E u \in Threads : mine[u] # None)

Intrudes(t) == disorder' = (disorder \/ \E u \in Threads \ {t} : pc[u] \notin {"idle", "asleep"})

(* Mutant: messages are dropped while others wait. *)
AcceptOrDrop(w, m) ==
   /\ sent' = IF Len(sent[w]) - ran[w] < 1 THEN [sent EXCEPT ![w] = Append(@, m)] ELSE sent
   /\ UNCHANGED <<life, ran>>

(* LogWorker::save and ::fatal: a task for _impl._bg, which must exist. *)
Accepts(w) == w # None /\ life[w] \in {"alive", "draining"}
Accept(w, m) == sent' = [sent EXCEPT ![w] = Append(@, m)] /\ UNCHANGED <<life, ran>>

(* ~LogCapture returns, to ~LogWorker if the call was made there. *)
LogReturns(t) == /\ Goto(t, IF mine[t] = None THEN "idle" ELSE "d_flush")
                 /\ cur' = [cur EXCEPT ![t] = None]

--------------------------------------------------------------------------------
(* saveMessage *)

Log(t, m) == /\ At(t, "idle")
             /\ m \notin logged
             /\ Disturbs
             /\ Goto(t, IF m \in FatalMsgs THEN "take" ELSE "check")
             /\ cur' = [cur EXCEPT ![t] = m]
             /\ logged' = logged \cup {m}
             /\ home' = [home EXCEPT ![m] = logger]
             /\ UNCHANGED <<globals, workers, crashes, ended, mine, seen, myhook, stored>>

(* What is left in g_fatal_pre_logging_hook.  Mutant: the hook itself. *)
HookAgain == hook
NoHook == "nothing"

(* setFatalPreLoggingHook, a swap under its own mutex. *)
TakeHook(t) == /\ Step(t, "take", "count")
               /\ myhook' = [myhook EXCEPT ![t] = hook]
               /\ hook' = NoHook
               /\ UNCHANGED <<firstvar, workers, history, logger, mutex, handling, counter, mock,
                              ended, cur, mine, seen>>

Count(t) == /\ Step(t, "count", "hook")
            /\ counter' = counter + 1
            /\ forgot' = IF t \in nested THEN forgot ELSE forgot \ {t}
            /\ UNCHANGED <<firstvar, workers, logs, logger, mutex, handling, hook, mock, ended, cur,
                           mine, seen, myhook, hookRuns, nested, flagged, threw>>

CountRun(t) == hookRuns' = [h \in Hooks |-> IF h = myhook[t] THEN hookRuns[h] + 1
                                            ELSE hookRuns[h]]

(* fatalhook() returns. *)
RunHook(t) == /\ myhook[t] # "empty"
              /\ Step(t, "hook", "warn")
              /\ CountRun(t)
              /\ UNCHANGED <<globals, workers, logs, ended, cur, mine, seen, myhook, nested, forgot,
                             flagged, threw>>

(* An empty std::function throws out of saveMessage and ~LogCapture. *)
RunEmptyHook(t) == /\ myhook[t] = "empty"
                   /\ At(t, "hook")
                   /\ LogReturns(t)
                   /\ threw' = TRUE
                   /\ UNCHANGED <<globals, workers, logs, ended, mine, seen, myhook, hookRuns,
                                  nested, forgot, flagged>>

(* The user's hook crashes: signalHandler makes another fatal LOG call of it, *)
(* on top of this one; without a handler the process dies.                    *)
HookCrashes(t, m) == /\ myhook[t] \in Hooks
                     /\ At(t, "hook")
                     /\ m \in FatalMsgs \ logged
                     /\ CountRun(t)
                     /\ IF handling
                        THEN /\ Goto(t, "take")
                             /\ cur' = [cur EXCEPT ![t] = m]
                             /\ nested' = nested \cup {t}
                             /\ logged' = logged \cup {m}
                             /\ UNCHANGED ended
                        ELSE /\ ended' = "killed"
                             /\ UNCHANGED <<pc, cur, nested, logged>>
                     /\ UNCHANGED <<globals, workers, mine, seen, myhook, home, stored, disorder,
                                    forgot, flagged, threw>>

(* A crash within a crash was counted.  Mutant: off by one. *)
ThirdCrash == counter > 2
Recursive == counter > 1

(* The warning of a recursive crash, then fatalCall: a unit test's handler    *)
(* throws, which unwinds every LOG call on the stack.                         *)
Warn(t) == /\ At(t, "warn")
           /\ flagged' = IF Recursive THEN flagged \cup {cur[t]} ELSE flagged
           /\ IF mock THEN /\ LogReturns(t)
                           /\ nested' = nested \ {t}
                      ELSE /\ Goto(t, "check")
                           /\ UNCHANGED <<cur, nested>>
           /\ UNCHANGED <<globals, workers, logs, ended, mine, seen, myhook, hookRuns, forgot,
                          threw>>

--------------------------------------------------------------------------------
(* pushMessageToLogger and pushFatalMessageToLogger *)

IsFatal(t) == cur[t] \in FatalMsgs

(* Mutant: without a logger a fatal message is handled like any other. *)
NeverExits(t) == FALSE
ExitsUninitialized(t) == logger = None /\ IsFatal(t)

(* isLoggingInitialized(); a fatal message without a logger ends the process. *)
CheckLogger(t) == /\ At(t, "check")
                  /\ seen' = [seen EXCEPT ![t] = logger]
                  /\ \/ logger # None /\ Goto(t, "save") /\ UNCHANGED ended
                     \/ ExitsUninitialized(t) /\ ended' = "killed" /\ UNCHANGED pc
                     \/ /\ logger = None /\ ~ExitsUninitialized(t)
                        /\ Goto(t, "store")
                        /\ UNCHANGED ended
                  /\ UNCHANGED <<globals, workers, history, cur, mine, myhook>>

(* The first uninitialized message is kept; every other one waits until this  *)
(* call_once is over and is dropped.                                          *)
StoreFirst(t) == /\ ~setOnce
                 /\ Step(t, "store", "annotate")
                 /\ setOnce' = TRUE
                 /\ first' = cur[t] /\ stored' = cur[t]
                 /\ UNCHANGED <<hooks, workers, crashes, logger, mutex, handling, saveOnce, ended,
                                cur, mine, seen, myhook, logged, home, disorder>>

Drop(t) == /\ setOnce /\ \A u \in Threads : pc[u] # "annotate"
           /\ At(t, "store") /\ LogReturns(t)
           /\ UNCHANGED <<globals, workers, history, ended, mine, seen, myhook>>

(* "LOGGER NOT INITIALIZED" is written into *g_first_uninitialized_msg, which *)
(* initializeLogging may have moved to the LogWorker meanwhile.               *)
Annotate(t) == /\ At(t, "annotate")
               /\ IF first = cur[t]
                  THEN LogReturns(t) /\ UNCHANGED ended
                  ELSE ended' = "no_message" /\ UNCHANGED <<pc, cur>>
               /\ UNCHANGED <<globals, workers, history, mine, seen, myhook>>

(* g_logger_instance->save or ->fatal: the pointer tested before or, since    *)
(* nothing synchronises the two reads, the one that is there now. After fatal *)
(* the thread sleeps for good.                                                *)
SaveToLogger(t) == /\ At(t, "save")
                   /\ \E w \in {seen[t], logger} :
                      \/ /\ Accepts(w)
                         /\ Accept(w, cur[t])
                         /\ IF IsFatal(t) THEN Goto(t, "asleep") /\ UNCHANGED cur
                                          ELSE LogReturns(t)
                         /\ UNCHANGED ended
                      \/ /\ ~Accepts(w)
                         /\ ended' = "no_worker"
                         /\ UNCHANGED <<workers, pc, cur>>
                   /\ UNCHANGED <<globals, history, mine, seen, myhook>>

--------------------------------------------------------------------------------
(* initializeLogging: the crash handler once, then the rest under the mutex. *)

InitializeLogging(t, w) == /\ At(t, "idle") /\ Intrudes(t)
                           /\ w # None => life[w] = "alive" /\ \A u \in Threads : mine[u] # w
                           /\ handling' = TRUE
                           /\ mine' = [mine EXCEPT ![t] = w]
                           /\ Goto(t, "init")
                           /\ UNCHANGED <<firstvar, hooks, workers, crashes, logger, mutex, ended,
                                          cur, seen, myhook, logged, home, stored>>

(* Mutant: no test for an active logger. *)
IsAnyLogWorker(t) == mine[t] # None
MayInitialize(t) == logger = None /\ mine[t] # None

(* A second initialisation, or one with nullptr, exits the process. *)
InitLock(t) == /\ At(t, "init") /\ mutex = None
               /\ IF MayInitialize(t)
                  THEN mutex' = t /\ Goto(t, "init_first") /\ UNCHANGED ended
                  ELSE ended' = "failure" /\ UNCHANGED <<mutex, pc>>
               /\ UNCHANGED <<firstvar, hooks, workers, history, logger, handling, cur, mine, seen,
                              myhook>>

(* Mutant: the first message is copied each time. *)
InitCopyFirst(t) == /\ Step(t, "init_first", "init_publish")
                    /\ IF first # None THEN Accept(mine[t], first) ELSE UNCHANGED workers
                    /\ UNCHANGED <<globals, history, ended, cur, mine, seen, myhook>>

InitSaveFirst(t) == /\ Step(t, "init_first", "init_publish")
                    /\ saveOnce' = TRUE
                    /\ IF ~saveOnce /\ first # None
                       THEN Accept(mine[t], first) /\ first' = None
                       ELSE UNCHANGED <<workers, first>>
                    /\ UNCHANGED <<hooks, history, logger, mutex, handling, setOnce, ended, cur,
                                   mine, seen, myhook>>

InitPublish(t) == /\ Step(t, "init_publish", "init_hook")
                  /\ logger' = mine[t]
                  /\ UNCHANGED <<firstvar, hooks, workers, history, mutex, handling, ended, cur,
                                 mine, seen, myhook>>

InitHook(t) == /\ Step(t, "init_hook", "init_counter")
               /\ hook' = "nothing"
               /\ UNCHANGED <<firstvar, workers, history, logger, mutex, handling, counter, mock,
                              ended, cur, mine, seen, myhook>>

(* The end of the lock_guard. *)
Unlock == mutex' = None

InitCounter(t) == /\ Step(t, "init_counter", "idle")
                  /\ counter' = 0
                  /\ Unlock
                  /\ mine' = [mine EXCEPT ![t] = None]
                  /\ forgot' = {u \in Threads : pc[u] \in {"hook", "warn"} \/ u \in nested}
                  /\ UNCHANGED <<firstvar, workers, logs, logger, handling, hook, mock, ended, cur,
                                 seen, myhook, hookRuns, nested, flagged, threw>>

SetFatalPreLoggingHook(t, h) ==
   /\ At(t, "idle")
   /\ hookRuns[h] = 0 /\ hook # h /\ \A u \in Threads : myhook[u] # h
   /\ hook' = h
   /\ UNCHANGED <<firstvar, workers, locals, history, logger, mutex, handling, counter, mock,
                  ended>>

(* Not synchronised: only while no fatal call is under way. *)
SetFatalExitHandler(t) == /\ At(t, "idle")
                          /\ \A u \in Threads : pc[u] \notin InFatal
                          /\ ~mock /\ mock' = TRUE
                          /\ UNCHANGED <<firstvar, workers, locals, history, logger, mutex,
                                         handling, hook, counter, ended>>

--------------------------------------------------------------------------------
(* ~LogWorker: shutDownLoggingForActiveOnly, which tests without the mutex;   *)
(* then the flush and the end of the worker thread.                           *)

Destroy(t, w) == /\ At(t, "idle") /\ Intrudes(t)
                 /\ life[w] = "alive" /\ \A u \in Threads : mine[u] # w
                 /\ mine' = [mine EXCEPT ![t] = w]
                 /\ Goto(t, "d_check")
                 /\ UNCHANGED <<globals, workers, crashes, ended, cur, seen, myhook, logged, home,
                                stored>>

(* Another LogWorker is active: a LOG(WARNING), and it stays active. *)
ShutDownCheck(t) == /\ At(t, "d_check")
                    /\ IF logger \notin {None, mine[t]}
                       THEN /\ cur' = [cur EXCEPT ![t] = Warning]
                            /\ Goto(t, "check")
                       ELSE Goto(t, "d_shut") /\ UNCHANGED cur
                    /\ UNCHANGED <<globals, workers, history, ended, mine, seen, myhook>>

(* Mutant: the pointer stays. *)
StillThere == logger
NoLogger == None

ShutDownLogging(t) == /\ Step(t, "d_shut", "d_flush") /\ mutex = None
                      /\ logger' = NoLogger
                      /\ UNCHANGED <<firstvar, hooks, workers, history, mutex, handling, ended, cur,
                                     mine, seen, myhook>>

(* removeAllSinks is a task like any other, and the wait is for its end. *)
DtorRemoveAllSinks(t) == /\ Step(t, "d_flush", "d_wait")
                         /\ life' = [life EXCEPT ![mine[t]] = "draining"]
                         /\ sent' = [sent EXCEPT ![mine[t]] = Append(@, "clear")]
                         /\ UNCHANGED <<globals, history, ran, ended, cur, mine, seen, myhook>>

(* _impl._bg.reset(nullptr) sets the pointer to null and then joins. *)
DtorReset(t) == /\ Step(t, "d_wait", "d_join")
                /\ \E n \in 1..ran[mine[t]] : sent[mine[t]][n] = "clear"
                /\ life' = [life EXCEPT ![mine[t]] = "joining"]
                /\ UNCHANGED <<globals, history, sent, ran, ended, cur, mine, seen, myhook>>

DtorReturns(t) == /\ Step(t, "d_join", "idle")
                  /\ ran[mine[t]] = Len(sent[mine[t]])
                  /\ life' = [life EXCEPT ![mine[t]] = "gone"]
                  /\ mine' = [mine EXCEPT ![t] = None]
                  /\ UNCHANGED <<globals, history, sent, ran, ended, cur, seen, myhook>>

(* The worker's thread runs bgSave, or bgFatal, which ends the process. *)
BgRuns(w) == /\ ended = "no" /\ life[w] # "gone"
             /\ ran[w] < Len(sent[w])
             /\ ran' = [ran EXCEPT ![w] = @ + 1]
             /\ ended' = IF sent[w][ran[w] + 1] \in FatalMsgs THEN "fatal" ELSE "no"
             /\ UNCHANGED <<globals, locals, history, life, sent>>

--------------------------------------------------------------------------------
Fatality(t) == TakeHook(t) \/ Count(t) \/ RunHook(t) \/ RunEmptyHook(t) \/ Warn(t)

Pushing(t) == CheckLogger(t) \/ StoreFirst(t) \/ Drop(t) \/ Annotate(t) \/ SaveToLogger(t)

Initializing(t) == InitLock(t) \/ InitSaveFirst(t) \/ InitPublish(t) \/ InitHook(t) \/ InitCounter(t)

Destroying(t) == ShutDownCheck(t) \/ ShutDownLogging(t) \/ DtorRemoveAllSinks(t) \/ DtorReset(t)
                   \/ DtorReturns(t)

GoesOn(t) == Fatality(t) \/ Pushing(t) \/ Initializing(t) \/ Destroying(t)

Next == \/ \E t \in Threads : \/ \E m \in Msgs : Log(t, m) \/ HookCrashes(t, m)
                              \/ \E w \in Workers \cup {None} : InitializeLogging(t, w)
                              \/ \E w \in Workers : Destroy(t, w)
                              \/ \E h \in Hooks : SetFatalPreLoggingHook(t, h)
                              \/ SetFatalExitHandler(t)
                              \/ GoesOn(t)
        \/ \E w \in Workers : BgRuns(w)

SafeSpec == Init /\ [][Next]_vars

(* A thread inside a call goes on, unless it waits for the mutex or for the   *)
(* worker, and the worker executes what it has accepted.                      *)
Fairness == /\ \A t \in Threads : WF_vars(GoesOn(t))
            /\ \A w \in Workers : WF_vars(BgRuns(w))

Spec == SafeSpec /\ Fairness
--------------------------------------------------------------------------------
(* A hook that the user set runs at most once, however many threads crash      *)
(* together, and also when the hook itself crashes: saveMessage swaps it out   *)
(* before it calls it ("let's not do recursive crashing", g3log.cpp:189).      *)
HookRunsAtMostOnce == \A h \in Hooks : hookRuns[h] <= 1

(* A crash inside the hook is reported as such, with other threads crashing,   *)
(* unless initializeLogging reset the counter in between.                      *)
RecursiveCrashIsFlagged ==
   \A t \in nested \ forgot : 
      pc[t] \in {"check", "save", "asleep"} => cur[t] \in flagged

(* One LogWorker never takes over from another: initializeLogging exits the    *)
(* process instead, however it races other initialisations and shutdowns.      *)
NeverReplaced == [][logger # None /\ logger' # None => logger' = logger]_vars

(* No message reaches a LogWorker twice, or two of them: the first             *)
(* uninitialized one is moved, not copied, and if it reaches a LogWorker it is *)
(* ahead of all that is logged through that one.                               *)
Positions == UNION {{w} \X {n \in DOMAIN sent[w] : sent[w][n] \in Msgs} : w \in Workers}
SentOnceAndFirstOneFirst ==
   \A p \in Positions : 
      /\ \A q \in Positions : sent[p[1]][p[2]] = sent[q[1]][q[2]] => p = q
      /\ sent[p[1]][p[2]] = stored => p[2] = 1

(* If clients do not log while a logger comes or goes (disorder), the plain    *)
(* pointer is good enough: no call ends up in a LogWorker that is going or     *)
(* gone, and no first message is moved away under the thread that writes it.   *)
NoCallIntoTheVoid == ended \in {"no_worker", "no_message"} => disorder

(* With such clients, what is logged while a LogWorker is active reaches that  *)
(* one, and has been executed when its destructor returns.                     *)
ReachesItsLogger ==
   \A m \in logged \ FatalMsgs : 
      ~disorder /\ home[m] # None /\ (\A t \in Threads : cur[t] # m) =>
      \E n \in DOMAIN sent[home[m]] : /\ sent[home[m]][n] = m
                                      /\ life[home[m]] = "gone" => n <= ran[home[m]]

(* Every fatal call ends the process, unless it throws (a unit test's handler, *)
(* an empty hook): with or without a logger, whatever hook is set, and with a  *)
(* LogWorker that is being destroyed.                                          *)
FatalCallsEndTheProcess ==
   \A t \in Threads : pc[t] = "take" ~> (ended # "no" \/ threw \/ mock)

--------------------------------------------------------------------------------
(* What comments promise and the code does not keep *)

(* shutDownLoggingForActiveOnly is called by ~LogWorker, "thus ensuring that   *)
(* no further LOG(...) calls can happen to a non-existing LogWorker"           *)
(* (g3log.cpp:153-154): not those that have tested the pointer already.        *)
NoCallAfterShutDown == ended # "no_worker"

(* For another LogWorker than the active one, "this call is just ignored and   *)
(* the logging continues to be active" (g3log.cpp:155-156): the test is made   *)
(* without the mutex, and a LogWorker initialised after it is shut down.       *)
OthersStayActive ==
   [][logger # None /\ logger' = None => \E t \in Threads : pc[t] = "d_shut" /\ mine[t] = logger]_vars

(* "Uninitialized messages are ignored but does not CHECK/crash the logger"    *)
(* (g3log.cpp:240): initializeLogging may move the first one away while it is  *)
(* still being written to.                                                     *)
UninitializedNeverCrashes == ended # "no_message"

(* The hook "default does nothing" (g3log.cpp:102): until initializeLogging    *)
(* has run it is an empty function, whose call throws.                         *)
HookDoesNothingByDefault == ~threw
================================================================================
