------------------------------- MODULE G3logProofs ------------------------------
(* Proofs about G3log, for any threads, LogWorkers, messages and hooks. The    *)
(* theorems need no fairness: they are about SafeSpec.                         *)
EXTENDS G3log, SequenceTheorems, TLAPS

(* A hook is in one place, the global or one thread's local, until it has run. *)
HookInv ==
   /\ hook \in Hooks => hookRuns[hook] = 0
   /\ \A t \in Threads : myhook[t] \in Hooks =>
         /\ hook # myhook[t]
         /\ \A u \in Threads : myhook[u] = myhook[t] => u = t
         /\ pc[t] \in {"count", "hook"} /\ ended = "no" => hookRuns[myhook[t]] = 0
   /\ HookRunsAtMostOnce

(* A thread counts before it calls its hook, and the fatal call of a hook that *)
(* crashed counts on top of that; only then is the hook one that can run.      *)
FlagInv ==
   /\ \A t \in Threads :
         /\ pc[t] \in {"count", "hook"} => hook # "empty"
         /\ pc[t] \in {"hook", "warn"} /\ t \notin forgot => counter > 0
   /\ \A t \in nested :
         /\ hook # "empty" /\ myhook[t] # "empty"
         /\ pc[t] \in InFatal \cup {"check", "save", "asleep"}
         /\ cur[t] \in FatalMsgs
         /\ t \notin forgot => /\ pc[t] \in InFatal => counter > 0
                               /\ pc[t] \in {"hook", "warn"} => counter > 1
   /\ RecursiveCrashIsFlagged

(* Between its test and its end initializeLogging has the mutex, and until it  *)
(* publishes its LogWorker there is no other one.                              *)
MutexInv ==
   \A t \in Threads :
      /\ pc[t] \in InInit \ {"init"} => mutex = t /\ mine[t] # None
      /\ pc[t] \in {"init_first", "init_publish"} => logger = None

(* A LogWorker is initialised or destroyed by one thread at a time, which logs *)
(* nothing but the warning meanwhile; its life follows its destructor.         *)
WorkerInv ==
   \A t \in Threads :
      /\ pc[t] \in InFatal => cur[t] \in FatalMsgs
      /\ pc[t] \in InLog \cup {"asleep"} <=> cur[t] # None
      /\ pc[t] \in {"idle", "asleep"} => mine[t] = None
      /\ pc[t] \in InShutDown \cup InDtor => mine[t] # None
      /\ mine[t] # None =>
            /\ cur[t] \notin Msgs /\ pc[t] \notin InFatal
            /\ \A u \in Threads : mine[u] = mine[t] => u = t
            /\ life[mine[t]] = CASE pc[t] = "d_wait" -> "draining"
                                 [] pc[t] = "d_join" -> "joining"
                                 [] OTHER -> "alive"

(* Where the messages are.  A message is on its way in one thread, or it is    *)
(* the first uninitialized one, or it has been queued, once; until that first  *)
(* one has been moved, no LogWorker has been given anything.                   *)
SentInv ==
   /\ \A w \in Workers : \A n \in DOMAIN sent[w] : sent[w][n] \in Msgs =>
         /\ sent[w][n] \in logged /\ sent[w][n] # first
         /\ sent[w][n] = stored => n = 1
         /\ \A t \in Threads : cur[t] = sent[w][n] => pc[t] \in {"asleep", "annotate"}
         /\ \A v \in Workers : \A k \in DOMAIN sent[v] : sent[v][k] = sent[w][n] => v = w /\ k = n
   /\ \A t \in Threads :
         /\ cur[t] \in Msgs => /\ cur[t] \in logged
                               /\ \A u \in Threads : cur[u] = cur[t] => u = t
                               /\ cur[t] = stored => pc[t] = "annotate"
         /\ pc[t] = "annotate" => setOnce
   /\ first \in {stored, None}
   /\ stored \in Msgs => stored \in logged
   /\ ~setOnce => stored = None
   /\ ~saveOnce => /\ logger = None
                   /\ \A t \in Threads : pc[t] \notin {"save", "init_publish"}
                   /\ \A w \in Workers : life[w] = "alive" => sent[w] = <<>>

(* While no thread disturbs another: who initialises or destroys a LogWorker   *)
(* is alone, ...                                                               *)
AloneInv ==
   ~disorder => \A t, u \in Threads :
                   t # u /\ mine[t] # None => pc[u] \in {"idle", "asleep"}

(* ... the active LogWorker is alive, and what a LOG call has read still holds.*)
OrderInv ==
   ~disorder =>
      /\ logger # None => life[logger] = "alive"
      /\ \A t \in Threads :
            /\ mine[t] # None /\ pc[t] \notin InInit \cup InShutDown => logger # mine[t]
            /\ pc[t] = "save" => seen[t] = logger /\ logger # None
            /\ pc[t] = "annotate" => first = cur[t]

(* And a message logged with an active LogWorker gets there. *)
HomeInv ==
   ~disorder =>
      /\ \A t \in Threads : cur[t] \in Msgs \ FatalMsgs /\ home[cur[t]] # None =>
            pc[t] \in {"check", "save"} /\ logger = home[cur[t]]
      /\ ReachesItsLogger

(* All of them, which the steps of the program preserve together. *)
G3logInv == /\ TypeOK
            /\ HookInv /\ FlagInv
            /\ MutexInv /\ WorkerInv /\ SentInv
            /\ AloneInv /\ OrderInv /\ NoCallIntoTheVoid /\ HomeInv

--------------------------------------------------------------------------------
(* What Append does to the messages that a LogWorker has been given: they stay *)
(* where they are and the new one comes last.                                  *)
LEMMA SentGrows ==
  ASSUME WorkersOK, NEW w \in Workers, NEW m \in Msgs \cup {Warning, "clear"},
         sent' = [sent EXCEPT ![w] = Append(@, m)]
  PROVE  /\ sent' \in [Workers -> Seq(Msgs \cup {Warning, "clear"})]
         /\ \A v \in Workers \ {w} : sent'[v] = sent[v]
         /\ Len(sent'[w]) = Len(sent[w]) + 1
         /\ \A v \in Workers : Len(sent[v]) \in Nat /\ DOMAIN sent[v] = 1..Len(sent[v])
         /\ DOMAIN sent'[w] = 1..(Len(sent[w]) + 1)
         /\ \A n \in 1..Len(sent[w]) : sent'[w][n] = sent[w][n]
         /\ sent'[w][Len(sent[w]) + 1] = m
         /\ \A v \in Workers : \A n \in DOMAIN sent'[v] :
               \/ n \in DOMAIN sent[v] /\ sent'[v][n] = sent[v][n]
               \/ v = w /\ n = Len(sent[w]) + 1 /\ sent'[v][n] = m
         /\ \A v \in Workers : \A n \in DOMAIN sent[v] :
               n \in DOMAIN sent'[v] /\ sent'[v][n] = sent[v][n]
<1> DEFINE S == Msgs \cup {Warning, "clear"}
<1>1. \A v \in Workers : sent[v] \in Seq(S)
  BY DEF WorkersOK
<1>2. /\ Append(sent[w], m) \in Seq(S)
      /\ Len(Append(sent[w], m)) = Len(sent[w]) + 1
      /\ \A n \in 1..Len(sent[w]) : Append(sent[w], m)[n] = sent[w][n]
      /\ Append(sent[w], m)[Len(sent[w]) + 1] = m
  <2> HIDE DEF S
  <2>1. sent[w] \in Seq(S) /\ m \in S
    BY <1>1 DEF S
  <2> QED BY <2>1, AppendProperties
<1>3. \A v \in Workers : Len(sent[v]) \in Nat /\ DOMAIN sent[v] = 1..Len(sent[v])
  BY <1>1, LenProperties
<1>4. sent'[w] = Append(sent[w], m) /\ \A v \in Workers \ {w} : sent'[v] = sent[v]
  BY DEF WorkersOK
<1>5. DOMAIN sent'[w] = 1..Len(sent'[w])
  BY <1>2, <1>4, LenProperties
<1>6. sent' \in [Workers -> Seq(S)]
  BY <1>2 DEF WorkersOK
<1>7. \A v \in Workers : \A n \in DOMAIN sent'[v] :
         \/ n \in DOMAIN sent[v] /\ sent'[v][n] = sent[v][n]
         \/ v = w /\ n = Len(sent[w]) + 1 /\ sent'[v][n] = m
  <2>1. ASSUME NEW v \in Workers, v # w PROVE sent'[v] = sent[v]
    BY <2>1, <1>4
  <2>2. \A n \in 1..(Len(sent[w]) + 1) : n \in 1..Len(sent[w]) \/ n = Len(sent[w]) + 1
    BY <1>3
  <2> QED BY <1>2, <1>3, <1>4, <1>5, <2>1, <2>2
<1>8. \A v \in Workers : \A n \in DOMAIN sent[v] :
         n \in DOMAIN sent'[v] /\ sent'[v][n] = sent[v][n]
  BY <1>2, <1>3, <1>4, <1>5
<1> QED BY <1>2, <1>3, <1>4, <1>5, <1>6, <1>7, <1>8

(* The global variables keep their types, the counter of fatal calls too.      *)
LEMMA GlobalsOKStep ==
  ASSUME GlobalsOK, LocalsOK, [Next]_vars
  PROVE  GlobalsOK'
<1> USE G3logAssumption DEF GlobalsOK, LocalsOK, vars, globals, firstvar, hooks, PCs, InLog,
                            InFatal, InInit, InShutDown, InDtor, At, Goto, Step, LogReturns
<1>1. ASSUME NEW t \in Threads, NEW m \in Msgs, Log(t, m) PROVE GlobalsOK'
  BY <1>1 DEF Log
<1>2. ASSUME NEW t \in Threads, NEW m \in Msgs, HookCrashes(t, m) PROVE GlobalsOK'
  BY <1>2 DEF HookCrashes, CountRun
<1>3. ASSUME NEW t \in Threads, NEW w \in Workers \cup {None}, InitializeLogging(t, w)
      PROVE  GlobalsOK'
  BY <1>3 DEF InitializeLogging
<1>4. ASSUME NEW t \in Threads, NEW w \in Workers, Destroy(t, w) PROVE GlobalsOK'
  BY <1>4 DEF Destroy
<1>5. ASSUME NEW t \in Threads, NEW h \in Hooks, SetFatalPreLoggingHook(t, h) PROVE GlobalsOK'
  BY <1>5 DEF SetFatalPreLoggingHook
<1>6. ASSUME NEW t \in Threads, SetFatalExitHandler(t) PROVE GlobalsOK'
  BY <1>6 DEF SetFatalExitHandler
<1>7. ASSUME NEW t \in Threads, Fatality(t) PROVE GlobalsOK'
  BY <1>7 DEF Fatality, TakeHook, NoHook, Count, RunHook, CountRun, RunEmptyHook, Warn
<1>8. ASSUME NEW t \in Threads, Pushing(t) PROVE GlobalsOK'
  <2>1. CASE CheckLogger(t) \/ Annotate(t)
    BY <2>1 DEF CheckLogger, Annotate
  <2>2. CASE StoreFirst(t)
    BY <2>2 DEF StoreFirst, IsFatal
  <2>3. CASE Drop(t) \/ SaveToLogger(t)
    BY <2>3 DEF Drop, SaveToLogger
  <2> QED BY <1>8, <2>1, <2>2, <2>3 DEF Pushing
<1>9. ASSUME NEW t \in Threads, Initializing(t) PROVE GlobalsOK'
  <2>1. CASE InitLock(t)
    BY <2>1 DEF InitLock
  <2>2. CASE InitSaveFirst(t)
    BY <2>2 DEF InitSaveFirst
  <2>3. CASE InitPublish(t) \/ InitHook(t)
    BY <2>3 DEF InitPublish, InitHook
  <2>4. CASE InitCounter(t)
    BY <2>4 DEF InitCounter, Unlock
  <2> QED BY <1>9, <2>1, <2>2, <2>3, <2>4 DEF Initializing
<1>10. ASSUME NEW t \in Threads, Destroying(t) PROVE GlobalsOK'
  BY <1>10 DEF Destroying, ShutDownCheck, ShutDownLogging, NoLogger, DtorRemoveAllSinks, DtorReset,
               DtorReturns
<1>11. ASSUME NEW w \in Workers, BgRuns(w) PROVE GlobalsOK'
  BY <1>11 DEF BgRuns
<1>12. CASE UNCHANGED vars
  BY <1>12
<1> QED BY <1>1, <1>2, <1>3, <1>4, <1>5, <1>6, <1>7, <1>8, <1>9, <1>10, <1>11, <1>12
       DEF Next, GoesOn

(* The local variables of the threads keep their types.                        *)
LEMMA LocalsOKStep ==
  ASSUME GlobalsOK, LocalsOK, [Next]_vars
  PROVE  LocalsOK'
<1> USE G3logAssumption DEF GlobalsOK, LocalsOK, vars, globals, hooks, locals, PCs, InLog, InFatal,
                            InInit, InShutDown, InDtor, At, Goto, Step, LogReturns
<1>1. ASSUME NEW t \in Threads, NEW m \in Msgs, Log(t, m) PROVE LocalsOK'
  BY <1>1 DEF Log
<1>2. ASSUME NEW t \in Threads, NEW m \in Msgs, HookCrashes(t, m) PROVE LocalsOK'
  BY <1>2 DEF HookCrashes, CountRun
<1>3. ASSUME NEW t \in Threads, NEW w \in Workers \cup {None}, InitializeLogging(t, w)
      PROVE  LocalsOK'
  BY <1>3 DEF InitializeLogging
<1>4. ASSUME NEW t \in Threads, NEW w \in Workers, Destroy(t, w) PROVE LocalsOK'
  BY <1>4 DEF Destroy
<1>5. ASSUME NEW t \in Threads, NEW h \in Hooks, SetFatalPreLoggingHook(t, h) PROVE LocalsOK'
  BY <1>5 DEF SetFatalPreLoggingHook
<1>6. ASSUME NEW t \in Threads, SetFatalExitHandler(t) PROVE LocalsOK'
  BY <1>6 DEF SetFatalExitHandler
<1>7. ASSUME NEW t \in Threads, Fatality(t) PROVE LocalsOK'
  BY <1>7 DEF Fatality, TakeHook, NoHook, Count, RunHook, CountRun, RunEmptyHook, Warn
<1>8. ASSUME NEW t \in Threads, Pushing(t) PROVE LocalsOK'
  BY <1>8 DEF Pushing, CheckLogger, StoreFirst, Drop, Annotate, SaveToLogger
<1>9. ASSUME NEW t \in Threads, Initializing(t) PROVE LocalsOK'
  BY <1>9 DEF Initializing, InitLock, MayInitialize, InitSaveFirst, InitPublish, InitHook,
              InitCounter, Unlock
<1>10. ASSUME NEW t \in Threads, Destroying(t) PROVE LocalsOK'
  BY <1>10 DEF Destroying, ShutDownCheck, ShutDownLogging, NoLogger, DtorRemoveAllSinks, DtorReset,
               DtorReturns
<1>11. ASSUME NEW w \in Workers, BgRuns(w) PROVE LocalsOK'
  BY <1>11 DEF BgRuns
<1>12. CASE UNCHANGED vars
  BY <1>12 DEF WorkersOK
<1> QED BY <1>1, <1>2, <1>3, <1>4, <1>5, <1>6, <1>7, <1>8, <1>9, <1>10, <1>11, <1>12
       DEF Next, GoesOn

(* The history variables keep their types.                                     *)
LEMMA HistoryOKStep ==
  ASSUME GlobalsOK, LocalsOK, WorkerInv, HistoryOK, [Next]_vars
  PROVE  HistoryOK'
<1> USE G3logAssumption DEF GlobalsOK, LocalsOK, HistoryOK, Disturbs, Intrudes, vars, history,
                            logs, crashes, At, Step, Goto
<1>1. ASSUME NEW t \in Threads, NEW m \in Msgs, Log(t, m) PROVE HistoryOK'
  BY <1>1 DEF Log
<1>2. ASSUME NEW t \in Threads, NEW m \in Msgs, HookCrashes(t, m) PROVE HistoryOK'
  BY <1>2 DEF HookCrashes, CountRun
<1>3. ASSUME NEW t \in Threads, NEW w \in Workers \cup {None}, InitializeLogging(t, w)
      PROVE  HistoryOK'
  BY <1>3 DEF InitializeLogging
<1>4. ASSUME NEW t \in Threads, NEW w \in Workers, Destroy(t, w) PROVE HistoryOK'
  BY <1>4 DEF Destroy
<1>5. ASSUME NEW t \in Threads, NEW h \in Hooks, SetFatalPreLoggingHook(t, h) PROVE HistoryOK'
  BY <1>5 DEF SetFatalPreLoggingHook
<1>6. ASSUME NEW t \in Threads, SetFatalExitHandler(t) PROVE HistoryOK'
  BY <1>6 DEF SetFatalExitHandler
<1>7. ASSUME NEW t \in Threads, Fatality(t) PROVE HistoryOK'
  <2>1. CASE TakeHook(t) \/ Count(t)
    BY <2>1 DEF TakeHook, Count
  <2>2. CASE RunHook(t)
    BY <2>2 DEF RunHook, CountRun
  <2>3. CASE RunEmptyHook(t)
    BY <2>3 DEF RunEmptyHook
  <2>4. CASE Warn(t)
    BY <2>4 DEF Warn, WorkerInv, InFatal
  <2> QED BY <1>7, <2>1, <2>2, <2>3, <2>4 DEF Fatality
<1>8. ASSUME NEW t \in Threads, Pushing(t) PROVE HistoryOK'
  BY <1>8 DEF Pushing, CheckLogger, StoreFirst, Drop, Annotate, SaveToLogger
<1>9. ASSUME NEW t \in Threads, Initializing(t) PROVE HistoryOK'
  BY <1>9 DEF Initializing, InitLock, MayInitialize, InitSaveFirst, InitPublish, InitHook,
              InitCounter, Unlock
<1>10. ASSUME NEW t \in Threads, Destroying(t) PROVE HistoryOK'
  BY <1>10 DEF Destroying, ShutDownCheck, ShutDownLogging, NoLogger, DtorRemoveAllSinks, DtorReset,
               DtorReturns
<1>11. ASSUME NEW w \in Workers, BgRuns(w) PROVE HistoryOK'
  BY <1>11 DEF BgRuns
<1>12. CASE UNCHANGED vars
  BY <1>12 DEF WorkersOK
<1> QED BY <1>1, <1>2, <1>3, <1>4, <1>5, <1>6, <1>7, <1>8, <1>9, <1>10, <1>11, <1>12
       DEF Next, GoesOn

(* Accepting a message keeps the types of the LogWorkers.                      *)
LEMMA AcceptWorkersOK ==
  ASSUME WorkersOK, NEW w \in Workers, NEW m \in Msgs \cup {Warning, "clear"},
         sent' = [sent EXCEPT ![w] = Append(@, m)], ran' = ran,
         life' \in [Workers -> {"alive", "draining", "joining", "gone"}]
  PROVE  WorkersOK'
<1>1. ASSUME NEW v \in Workers PROVE ran'[v] <= Len(sent'[v])
  BY SentGrows DEF WorkersOK
<1> QED BY <1>1, SentGrows DEF WorkersOK

(* The LogWorkers keep their types, and execute no more than they were given.  *)
LEMMA WorkersOKStep ==
  ASSUME GlobalsOK, LocalsOK, MutexInv, WorkerInv, WorkersOK, [Next]_vars
  PROVE  WorkersOK'
<1> USE G3logAssumption DEF WorkersOK, vars, workers, history, globals
<1>1. ASSUME NEW t \in Threads, NEW m \in Msgs, Log(t, m) PROVE WorkersOK'
  BY <1>1 DEF Log
<1>2. ASSUME NEW t \in Threads, NEW m \in Msgs, HookCrashes(t, m) PROVE WorkersOK'
  BY <1>2 DEF HookCrashes, CountRun
<1>3. ASSUME NEW t \in Threads, NEW w \in Workers \cup {None}, InitializeLogging(t, w)
      PROVE  WorkersOK'
  BY <1>3 DEF InitializeLogging
<1>4. ASSUME NEW t \in Threads, NEW w \in Workers, Destroy(t, w) PROVE WorkersOK'
  BY <1>4 DEF Destroy
<1>5. ASSUME NEW t \in Threads, NEW h \in Hooks, SetFatalPreLoggingHook(t, h) PROVE WorkersOK'
  BY <1>5 DEF SetFatalPreLoggingHook
<1>6. ASSUME NEW t \in Threads, SetFatalExitHandler(t) PROVE WorkersOK'
  BY <1>6 DEF SetFatalExitHandler
<1>7. ASSUME NEW t \in Threads, Fatality(t) PROVE WorkersOK'
  BY <1>7 DEF Fatality, TakeHook, NoHook, Count, RunHook, CountRun, RunEmptyHook, Warn
<1>8. ASSUME NEW t \in Threads, Pushing(t) PROVE WorkersOK'
  <2>1. CASE SaveToLogger(t) /\ sent' # sent
    <3>1. PICK w \in {seen[t], logger} : Accepts(w) /\ Accept(w, cur[t])
      BY <2>1 DEF SaveToLogger
    <3>2. w \in Workers
      BY <3>1 DEF Accepts, GlobalsOK, LocalsOK
    <3>3. cur[t] # None
      BY <2>1 DEF SaveToLogger, At, WorkerInv, InLog
    <3>4. cur[t] \in Msgs \cup {Warning, "clear"}
      BY <3>3 DEF LocalsOK
    <3> QED BY <3>1, <3>2, <3>4, AcceptWorkersOK DEF Accept, WorkersOK
  <2>2. CASE UNCHANGED workers
    BY <2>2 DEF WorkersOK
  <2> QED BY <1>8, <2>1, <2>2 DEF Pushing, CheckLogger, StoreFirst, Drop, Annotate, SaveToLogger,
                                  Accept
<1>9. ASSUME NEW t \in Threads, Initializing(t) PROVE WorkersOK'
  <2>1. CASE InitSaveFirst(t) /\ ~saveOnce /\ first # None
    <3>1. mine[t] \in Workers
      BY <2>1 DEF InitSaveFirst, Step, At, MutexInv, InInit, LocalsOK
    <3> QED BY <2>1, <3>1, AcceptWorkersOK DEF InitSaveFirst, Accept, WorkersOK, GlobalsOK
  <2>2. CASE UNCHANGED workers
    BY <2>2 DEF WorkersOK
  <2> QED BY <1>9, <2>1, <2>2 DEF Initializing, InitLock, InitSaveFirst, InitPublish, InitHook,
                                  InitCounter
<1>10. ASSUME NEW t \in Threads, Destroying(t) PROVE WorkersOK'
  <2>1. CASE pc[t] \in InShutDown \cup InDtor
    <3>1. mine[t] \in Workers
      BY <2>1 DEF WorkerInv, LocalsOK
    <3>2. CASE DtorRemoveAllSinks(t)
      BY <3>1, <3>2, AcceptWorkersOK DEF DtorRemoveAllSinks, WorkersOK
    <3>3. CASE DtorReset(t) \/ DtorReturns(t)
      BY <3>3 DEF DtorReset, DtorReturns, WorkersOK
    <3>4. CASE UNCHANGED workers
      BY <3>4 DEF WorkersOK
    <3> QED BY <1>10, <3>2, <3>3, <3>4 DEF Destroying, ShutDownCheck, ShutDownLogging
  <2> QED BY <1>10, <2>1 DEF Destroying, ShutDownCheck, ShutDownLogging, DtorRemoveAllSinks,
                              DtorReset, DtorReturns, Step, At, InShutDown, InDtor
<1>11. ASSUME NEW w \in Workers, BgRuns(w) PROVE WorkersOK'
  <2>1. \A v \in Workers : Len(sent[v]) \in Nat
    BY LenProperties DEF WorkersOK
  <2> QED BY <1>11, <2>1 DEF BgRuns, WorkersOK
<1>12. CASE UNCHANGED vars
  BY <1>12 DEF WorkersOK
<1> QED BY <1>1, <1>2, <1>3, <1>4, <1>5, <1>6, <1>7, <1>8, <1>9, <1>10, <1>11, <1>12
       DEF Next, GoesOn

--------------------------------------------------------------------------------
(* No step runs a hook twice: a crashing thread takes it and leaves "nothing". *)
LEMMA HookStep ==
  ASSUME GlobalsOK, LocalsOK, HistoryOK, HookInv, [Next]_vars
  PROVE  HookInv'
<1> USE G3logAssumption DEF GlobalsOK, LocalsOK, HistoryOK, HookInv, HookRunsAtMostOnce, vars,
                            globals, hooks, locals, history, crashes, At, Step, Goto, LogReturns,
                            CountRun
<1>1. ASSUME NEW t \in Threads, NEW m \in Msgs, Log(t, m) PROVE HookInv'
  BY <1>1 DEF Log
<1>2. ASSUME NEW t \in Threads, NEW m \in Msgs, HookCrashes(t, m) PROVE HookInv'
  BY <1>2 DEF HookCrashes, CountRun
<1>3. ASSUME NEW t \in Threads, NEW w \in Workers \cup {None}, InitializeLogging(t, w)
      PROVE  HookInv'
  BY <1>3 DEF InitializeLogging
<1>4. ASSUME NEW t \in Threads, NEW w \in Workers, Destroy(t, w) PROVE HookInv'
  BY <1>4 DEF Destroy
<1>5. ASSUME NEW t \in Threads, NEW h \in Hooks, SetFatalPreLoggingHook(t, h) PROVE HookInv'
  BY <1>5 DEF SetFatalPreLoggingHook
<1>6. ASSUME NEW t \in Threads, SetFatalExitHandler(t) PROVE HookInv'
  BY <1>6 DEF SetFatalExitHandler
<1>7. ASSUME NEW t \in Threads, Fatality(t) PROVE HookInv'
  BY <1>7 DEF Fatality, TakeHook, NoHook, Count, RunHook, CountRun, RunEmptyHook, Warn
<1>8. ASSUME NEW t \in Threads, Pushing(t) PROVE HookInv'
  BY <1>8 DEF Pushing, CheckLogger, StoreFirst, Drop, Annotate, SaveToLogger
<1>9. ASSUME NEW t \in Threads, Initializing(t) PROVE HookInv'
  BY <1>9 DEF Initializing, InitLock, MayInitialize, InitSaveFirst, InitPublish, InitHook,
              InitCounter, Unlock
<1>10. ASSUME NEW t \in Threads, Destroying(t) PROVE HookInv'
  BY <1>10 DEF Destroying, ShutDownCheck, ShutDownLogging, NoLogger, DtorRemoveAllSinks, DtorReset,
               DtorReturns
<1>11. ASSUME NEW w \in Workers, BgRuns(w) PROVE HookInv'
  BY <1>11 DEF BgRuns
<1>12. CASE UNCHANGED vars
  BY <1>12
<1> QED BY <1>1, <1>2, <1>3, <1>4, <1>5, <1>6, <1>7, <1>8, <1>9, <1>10, <1>11, <1>12
       DEF Next, GoesOn

(* The count of a fatal call is there until its thread has read it.            *)
LEMMA FlagStep ==
  ASSUME GlobalsOK, LocalsOK, HistoryOK, WorkerInv, FlagInv, [Next]_vars
  PROVE  FlagInv'
<1> USE G3logAssumption DEF GlobalsOK, LocalsOK, HistoryOK, FlagInv, RecursiveCrashIsFlagged, vars,
                            globals, hooks, locals, history, crashes, Recursive, PCs, InLog,
                            InFatal, InInit, InShutDown, InDtor, At, Goto, Step, LogReturns
<1>1. ASSUME NEW t \in Threads, NEW m \in Msgs, Log(t, m) PROVE FlagInv'
  BY <1>1 DEF Log
<1>2. ASSUME NEW t \in Threads, NEW m \in Msgs, HookCrashes(t, m) PROVE FlagInv'
  BY <1>2 DEF HookCrashes, CountRun
<1>3. ASSUME NEW t \in Threads, NEW w \in Workers \cup {None}, InitializeLogging(t, w)
      PROVE  FlagInv'
  BY <1>3 DEF InitializeLogging
<1>4. ASSUME NEW t \in Threads, NEW w \in Workers, Destroy(t, w) PROVE FlagInv'
  BY <1>4 DEF Destroy
<1>5. ASSUME NEW t \in Threads, NEW h \in Hooks, SetFatalPreLoggingHook(t, h) PROVE FlagInv'
  BY <1>5 DEF SetFatalPreLoggingHook
<1>6. ASSUME NEW t \in Threads, SetFatalExitHandler(t) PROVE FlagInv'
  BY <1>6 DEF SetFatalExitHandler
<1>7. ASSUME NEW t \in Threads, Fatality(t) PROVE FlagInv'
  BY <1>7 DEF Fatality, TakeHook, NoHook, Count, RunHook, CountRun, RunEmptyHook, Warn
<1>8. ASSUME NEW t \in Threads, Pushing(t) PROVE FlagInv'
  <2>1. CASE CheckLogger(t)
    BY <2>1 DEF CheckLogger, ExitsUninitialized, IsFatal
  <2>2. CASE StoreFirst(t) \/ Drop(t) \/ Annotate(t)
    BY <2>2 DEF StoreFirst, Drop, Annotate
  <2>3. CASE SaveToLogger(t)
    BY <2>3 DEF SaveToLogger, IsFatal
  <2> QED BY <1>8, <2>1, <2>2, <2>3 DEF Pushing
<1>9. ASSUME NEW t \in Threads, Initializing(t) PROVE FlagInv'
  BY <1>9 DEF Initializing, InitLock, MayInitialize, InitSaveFirst, InitPublish, InitHook,
              InitCounter, Unlock
<1>10. ASSUME NEW t \in Threads, Destroying(t) PROVE FlagInv'
  BY <1>10 DEF Destroying, ShutDownCheck, ShutDownLogging, NoLogger, DtorRemoveAllSinks, DtorReset,
               DtorReturns
<1>11. ASSUME NEW w \in Workers, BgRuns(w) PROVE FlagInv'
  BY <1>11 DEF BgRuns
<1>12. CASE UNCHANGED vars
  BY <1>12
<1> QED BY <1>1, <1>2, <1>3, <1>4, <1>5, <1>6, <1>7, <1>8, <1>9, <1>10, <1>11, <1>12
       DEF Next, GoesOn

--------------------------------------------------------------------------------
(* initializeLogging tests for a logger and publishes one under the mutex.     *)
LEMMA MutexStep ==
  ASSUME GlobalsOK, LocalsOK, MutexInv, [Next]_vars
  PROVE  MutexInv'
<1> USE G3logAssumption DEF GlobalsOK, LocalsOK, MutexInv, vars, globals, locals, PCs, InLog,
                            InFatal, InInit, InShutDown, InDtor, At, Goto, Step, LogReturns
<1>1. ASSUME NEW t \in Threads, NEW m \in Msgs, Log(t, m) PROVE MutexInv'
  BY <1>1 DEF Log
<1>2. ASSUME NEW t \in Threads, NEW m \in Msgs, HookCrashes(t, m) PROVE MutexInv'
  BY <1>2 DEF HookCrashes, CountRun
<1>3. ASSUME NEW t \in Threads, NEW w \in Workers \cup {None}, InitializeLogging(t, w)
      PROVE  MutexInv'
  BY <1>3 DEF InitializeLogging
<1>4. ASSUME NEW t \in Threads, NEW w \in Workers, Destroy(t, w) PROVE MutexInv'
  BY <1>4 DEF Destroy
<1>5. ASSUME NEW t \in Threads, NEW h \in Hooks, SetFatalPreLoggingHook(t, h) PROVE MutexInv'
  BY <1>5 DEF SetFatalPreLoggingHook
<1>6. ASSUME NEW t \in Threads, SetFatalExitHandler(t) PROVE MutexInv'
  BY <1>6 DEF SetFatalExitHandler
<1>7. ASSUME NEW t \in Threads, Fatality(t) PROVE MutexInv'
  BY <1>7 DEF Fatality, TakeHook, NoHook, Count, RunHook, CountRun, RunEmptyHook, Warn
<1>8. ASSUME NEW t \in Threads, Pushing(t) PROVE MutexInv'
  BY <1>8 DEF Pushing, CheckLogger, StoreFirst, Drop, Annotate, SaveToLogger
<1>9. ASSUME NEW t \in Threads, Initializing(t) PROVE MutexInv'
  <2>1. CASE InitLock(t) \/ InitSaveFirst(t)
    BY <2>1 DEF InitLock, MayInitialize, InitSaveFirst
  <2>2. CASE InitPublish(t) \/ InitHook(t)
    BY <2>2 DEF InitPublish, InitHook
  <2>3. CASE InitCounter(t)
    BY <2>3 DEF InitCounter, Unlock
  <2> QED BY <1>9, <2>1, <2>2, <2>3 DEF Initializing
<1>10. ASSUME NEW t \in Threads, Destroying(t) PROVE MutexInv'
  BY <1>10 DEF Destroying, ShutDownCheck, ShutDownLogging, NoLogger, DtorRemoveAllSinks, DtorReset,
               DtorReturns
<1>11. ASSUME NEW w \in Workers, BgRuns(w) PROVE MutexInv'
  BY <1>11 DEF BgRuns
<1>12. CASE UNCHANGED vars
  BY <1>12
<1> QED BY <1>1, <1>2, <1>3, <1>4, <1>5, <1>6, <1>7, <1>8, <1>9, <1>10, <1>11, <1>12
       DEF Next, GoesOn

(* What a thread does with its LogWorker is what its pc says.                  *)
LEMMA WorkerStep ==
  ASSUME GlobalsOK, LocalsOK, WorkersOK, HistoryOK, WorkerInv, [Next]_vars
  PROVE  WorkerInv'
<1> USE G3logAssumption DEF GlobalsOK, LocalsOK, WorkersOK, WorkerInv, vars, workers, locals,
                            Accept, PCs, InLog, InFatal, InInit, InShutDown, InDtor, At, Goto,
                            Step, LogReturns
<1>1. ASSUME NEW t \in Threads, NEW m \in Msgs, Log(t, m) PROVE WorkerInv'
  BY <1>1 DEF Log
<1>2. ASSUME NEW t \in Threads, NEW m \in Msgs, HookCrashes(t, m) PROVE WorkerInv'
  <2>1. CASE handling
    BY <1>2, <2>1 DEF HookCrashes
  <2>2. CASE ~handling
    BY <1>2, <2>2 DEF HookCrashes
  <2> QED BY <2>1, <2>2
<1>3. ASSUME NEW t \in Threads, NEW w \in Workers \cup {None}, InitializeLogging(t, w)
      PROVE  WorkerInv'
  BY <1>3 DEF InitializeLogging
<1>4. ASSUME NEW t \in Threads, NEW w \in Workers, Destroy(t, w) PROVE WorkerInv'
  BY <1>4 DEF Destroy
<1>5. ASSUME NEW t \in Threads, NEW h \in Hooks, SetFatalPreLoggingHook(t, h) PROVE WorkerInv'
  BY <1>5 DEF SetFatalPreLoggingHook
<1>6. ASSUME NEW t \in Threads, SetFatalExitHandler(t) PROVE WorkerInv'
  BY <1>6 DEF SetFatalExitHandler
<1>7. ASSUME NEW t \in Threads, Fatality(t) PROVE WorkerInv'
  BY <1>7 DEF Fatality, TakeHook, NoHook, Count, RunHook, CountRun, RunEmptyHook, Warn
<1>8. ASSUME NEW t \in Threads, Pushing(t) PROVE WorkerInv'
  <2>1. CASE CheckLogger(t) \/ StoreFirst(t)
    <3>1. /\ pc' = pc \/ \E l \in {"save", "store", "annotate"} : pc' = [pc EXCEPT ![t] = l]
          /\ pc[t] \in {"check", "store"}
          /\ cur' = cur /\ mine' = mine /\ life' = life
      BY <2>1 DEF CheckLogger, StoreFirst
    <3> QED BY <3>1
  <2>2. CASE Drop(t) \/ Annotate(t)
    <3>1. /\ \/ UNCHANGED <<pc, cur>>
             \/ pc' = [pc EXCEPT ![t] = IF mine[t] = None THEN "idle" ELSE "d_flush"]
                /\ cur' = [cur EXCEPT ![t] = None]
          /\ pc[t] \in {"store", "annotate"}
          /\ mine' = mine /\ life' = life
      BY <2>2 DEF Drop, Annotate
    <3> QED BY <3>1
  <2>3. CASE SaveToLogger(t)
    BY <2>3 DEF SaveToLogger, IsFatal
  <2> QED BY <1>8, <2>1, <2>2, <2>3 DEF Pushing
<1>9. ASSUME NEW t \in Threads, Initializing(t) PROVE WorkerInv'
  BY <1>9 DEF Initializing, InitLock, MayInitialize, InitSaveFirst, InitPublish, InitHook,
              InitCounter, Unlock
<1>10. ASSUME NEW t \in Threads, Destroying(t) PROVE WorkerInv'
  BY <1>10 DEF Destroying, ShutDownCheck, ShutDownLogging, NoLogger, DtorRemoveAllSinks, DtorReset,
               DtorReturns
<1>11. ASSUME NEW w \in Workers, BgRuns(w) PROVE WorkerInv'
  BY <1>11 DEF BgRuns
<1>12. CASE UNCHANGED vars
  BY <1>12
<1> QED BY <1>1, <1>2, <1>3, <1>4, <1>5, <1>6, <1>7, <1>8, <1>9, <1>10, <1>11, <1>12
       DEF Next, GoesOn

(* Each message is queued once, and the first uninitialized one first.         *)
LEMMA SentStep ==
  ASSUME GlobalsOK, LocalsOK, WorkersOK, HistoryOK, MutexInv, WorkerInv, SentInv, [Next]_vars
  PROVE  SentInv'
<1> USE G3logAssumption DEF GlobalsOK, LocalsOK, SentInv, vars, globals, firstvar, hooks, workers,
                            locals, history, logs, crashes, PCs, InLog, InFatal, InInit,
                            InShutDown, InDtor, At, Goto, Step, LogReturns
<1>1. ASSUME NEW t \in Threads, NEW m \in Msgs, Log(t, m) PROVE SentInv'
  BY <1>1 DEF Log
<1>2. ASSUME NEW t \in Threads, NEW m \in Msgs, HookCrashes(t, m) PROVE SentInv'
  BY <1>2 DEF HookCrashes, CountRun
<1>3. ASSUME NEW t \in Threads, NEW w \in Workers \cup {None}, InitializeLogging(t, w)
      PROVE  SentInv'
  BY <1>3 DEF InitializeLogging
<1>4. ASSUME NEW t \in Threads, NEW w \in Workers, Destroy(t, w) PROVE SentInv'
  BY <1>4 DEF Destroy
<1>5. ASSUME NEW t \in Threads, NEW h \in Hooks, SetFatalPreLoggingHook(t, h) PROVE SentInv'
  BY <1>5 DEF SetFatalPreLoggingHook
<1>6. ASSUME NEW t \in Threads, SetFatalExitHandler(t) PROVE SentInv'
  BY <1>6 DEF SetFatalExitHandler
<1>7. ASSUME NEW t \in Threads, Fatality(t) PROVE SentInv'
  <2>1. /\ \A u \in Threads : cur'[u] = cur[u] \/ cur'[u] = None
        /\ \A u \in Threads : pc'[u] = pc[u] \/ (u = t /\ pc'[u] \notin {"save", "annotate", "init_publish"})
        /\ pc[t] \in InFatal
        /\ UNCHANGED <<logger, firstvar, workers, logged, stored>>
    BY <1>7 DEF Fatality, TakeHook, Count, RunHook, RunEmptyHook, Warn
  <2> QED BY <2>1
<1>8. ASSUME NEW t \in Threads, Pushing(t) PROVE SentInv'
  <2>1. CASE CheckLogger(t)
    BY <2>1 DEF CheckLogger
  <2>2. CASE StoreFirst(t)
    BY <2>2 DEF StoreFirst
  <2>3. CASE Drop(t) \/ Annotate(t)
    <3>1. /\ \/ UNCHANGED <<pc, cur>>
             \/ pc' = [pc EXCEPT ![t] = IF mine[t] = None THEN "idle" ELSE "d_flush"]
                /\ cur' = [cur EXCEPT ![t] = None]
          /\ pc[t] \in {"store", "annotate"}
          /\ UNCHANGED <<logger, firstvar, workers, logged, stored>>
      BY <2>3 DEF Drop, Annotate
    <3> QED BY <3>1
  <2>4. CASE SaveToLogger(t)
    <3>1. PICK w \in {seen[t], logger} :
             \/ /\ Accepts(w) /\ Accept(w, cur[t])
                /\ \/ IsFatal(t) /\ Goto(t, "asleep") /\ UNCHANGED cur
                   \/ LogReturns(t)
             \/ UNCHANGED <<workers, pc, cur>>
      BY <2>4 DEF SaveToLogger
    <3>2. pc[t] = "save" /\ UNCHANGED <<logger, firstvar, logged, stored>>
      BY <2>4 DEF SaveToLogger
    <3>3. CASE UNCHANGED <<workers, pc, cur>>
      BY <3>2, <3>3
    <3>4. CASE Accepts(w) /\ Accept(w, cur[t])
      <4>1. w \in Workers /\ cur[t] \in Msgs \cup {Warning} /\ life' = life
        BY <3>2, <3>4 DEF Accepts, Accept, WorkerInv
      <4>2. sent' = [sent EXCEPT ![w] = Append(@, cur[t])]
        BY <3>4 DEF Accept
      <4>3. /\ \A v \in Workers : \A n \in DOMAIN sent'[v] :
                  \/ n \in DOMAIN sent[v] /\ sent'[v][n] = sent[v][n]
                  \/ v = w /\ n = Len(sent[w]) + 1 /\ sent'[v][n] = cur[t]
        BY <4>1, <4>2, SentGrows
      <4>4. /\ \A u \in Threads \ {t} : pc'[u] = pc[u] /\ cur'[u] = cur[u]
            /\ pc'[t] \notin {"save", "annotate", "init_publish"}
            /\ cur'[t] = None \/ (pc'[t] = "asleep" /\ cur'[t] = cur[t])
        <5>1. CASE UNCHANGED <<workers, pc, cur>>
          BY <4>2, <4>3, <5>1, <3>4, <4>1, SentGrows
        <5>2. CASE Goto(t, "asleep") /\ UNCHANGED cur
          BY <5>2
        <5>3. CASE LogReturns(t)
          BY <5>3
        <5> QED BY <3>1, <5>1, <5>2, <5>3
      <4>5. /\ saveOnce
            /\ cur[t] \in Msgs => /\ cur[t] \in logged /\ cur[t] # stored
                                  /\ \A u \in Threads : cur[u] = cur[t] => u = t
                                  /\ \A v \in Workers : \A n \in DOMAIN sent[v] : sent[v][n] # cur[t]
        BY <3>2
      <4> QED BY <3>2, <4>1, <4>3, <4>4, <4>5
    <3> QED BY <3>1, <3>3, <3>4
  <2> QED BY <1>8, <2>1, <2>2, <2>3, <2>4 DEF Pushing
<1>9. ASSUME NEW t \in Threads, Initializing(t) PROVE SentInv'
  <2>1. CASE InitLock(t)
    BY <2>1 DEF InitLock
  <2>2. CASE InitSaveFirst(t)
    <3>1. /\ pc' = [pc EXCEPT ![t] = "init_publish"] /\ pc[t] = "init_first" /\ saveOnce' = TRUE
          /\ UNCHANGED <<logger, setOnce, logged, stored, cur, mine, life>>
          /\ \/ UNCHANGED <<sent, first>>
             \/ /\ ~saveOnce /\ first # None /\ first' = None
                /\ sent' = [sent EXCEPT ![mine[t]] = Append(@, first)]
      BY <2>2 DEF InitSaveFirst, Accept
    <3>2. CASE UNCHANGED <<sent, first>>
      BY <3>1, <3>2
    <3>3. CASE /\ ~saveOnce /\ first # None /\ first' = None
               /\ sent' = [sent EXCEPT ![mine[t]] = Append(@, first)]
      <4> DEFINE w == mine[t]
      <4>1. w \in Workers /\ first \in Msgs \cup {Warning} /\ sent[w] = <<>>
        BY <3>1, <3>3 DEF WorkerInv, MutexInv
      <4>2. /\ \A v \in Workers : \A n \in DOMAIN sent'[v] :
                  \/ n \in DOMAIN sent[v] /\ sent'[v][n] = sent[v][n]
                  \/ v = w /\ n = Len(sent[w]) + 1 /\ sent'[v][n] = first
        BY <4>1, <3>3, SentGrows
      <4>3. Len(sent[w]) + 1 = 1
        BY <4>1
      <4>4. first = stored
        BY <3>3
      <4> QED BY <3>1, <3>3, <4>1, <4>2, <4>3, <4>4
    <3> QED BY <3>1, <3>2, <3>3
  <2>3. CASE InitPublish(t)
    BY <2>3 DEF InitPublish
  <2>4. CASE InitHook(t) \/ InitCounter(t)
    BY <2>4 DEF InitHook, InitCounter
  <2> QED BY <1>9, <2>1, <2>2, <2>3, <2>4 DEF Initializing
<1>10. ASSUME NEW t \in Threads, Destroying(t) PROVE SentInv'
  <2>1. CASE ShutDownCheck(t)
    BY <2>1 DEF ShutDownCheck
  <2>2. CASE ShutDownLogging(t)
    BY <2>2 DEF ShutDownLogging, NoLogger
  <2>3. CASE DtorRemoveAllSinks(t)
    <3> DEFINE w == mine[t]
    <3>1. /\ pc' = [pc EXCEPT ![t] = "d_wait"] /\ pc[t] = "d_flush"
          /\ life' = [life EXCEPT ![w] = "draining"]
          /\ sent' = [sent EXCEPT ![w] = Append(@, "clear")]
          /\ UNCHANGED <<logger, firstvar, logged, stored, cur>>
          /\ w \in Workers
      BY <2>3 DEF DtorRemoveAllSinks, WorkerInv
    <3>2. /\ \A v \in Workers : \A n \in DOMAIN sent'[v] :
                \/ n \in DOMAIN sent[v] /\ sent'[v][n] = sent[v][n]
                \/ v = w /\ n = Len(sent[w]) + 1 /\ sent'[v][n] = "clear"
          /\ \A v \in Workers \ {w} : sent'[v] = sent[v]
      BY <3>1, SentGrows, SMTT(30)
    <3>3. life'[w] = "draining" /\ \A v \in Workers \ {w} : life'[v] = life[v]
      BY <3>1, SMTT(30) DEF WorkersOK
    <3> QED BY <3>1, <3>2, <3>3, SMTT(30)
  <2>4. CASE DtorReset(t) \/ DtorReturns(t)
    <3>1. /\ \E l \in {"d_join", "idle"} : pc' = [pc EXCEPT ![t] = l]
          /\ pc[t] \in InDtor
          /\ \E l \in {"joining", "gone"} : life' = [life EXCEPT ![mine[t]] = l]
          /\ UNCHANGED <<logger, firstvar, sent, logged, stored, cur>>
      BY <2>4 DEF DtorReset, DtorReturns
    <3>2. \A v \in Workers : life'[v] = "alive" => life[v] = "alive"
      BY <3>1 DEF WorkersOK
    <3> QED BY <3>1, <3>2
  <2> QED BY <1>10, <2>1, <2>2, <2>3, <2>4 DEF Destroying
<1>11. ASSUME NEW w \in Workers, BgRuns(w) PROVE SentInv'
  BY <1>11 DEF BgRuns
<1>12. CASE UNCHANGED vars
  BY <1>12
<1> QED BY <1>1, <1>2, <1>3, <1>4, <1>5, <1>6, <1>7, <1>8, <1>9, <1>10, <1>11, <1>12
       DEF Next, GoesOn

--------------------------------------------------------------------------------
(* A program without disorder initialises and destroys with no other call      *)
(* under way.                                                                  *)
LEMMA AloneStep ==
  ASSUME LocalsOK, WorkerInv, AloneInv, [Next]_vars
  PROVE  AloneInv'
<1> USE G3logAssumption DEF LocalsOK, WorkerInv, AloneInv, Disturbs, Intrudes, vars, locals, logs,
                            history, PCs, InLog, InFatal, InInit, InShutDown, InDtor, At, Goto,
                            Step, LogReturns
<1>1. ASSUME NEW t \in Threads, NEW m \in Msgs, Log(t, m) PROVE AloneInv'
  BY <1>1 DEF Log
<1>2. ASSUME NEW t \in Threads, NEW m \in Msgs, HookCrashes(t, m) PROVE AloneInv'
  BY <1>2, SMTT(30) DEF HookCrashes, CountRun
<1>3. ASSUME NEW t \in Threads, NEW w \in Workers \cup {None}, InitializeLogging(t, w)
      PROVE  AloneInv'
  BY <1>3, ZenonT(60) DEF InitializeLogging
<1>4. ASSUME NEW t \in Threads, NEW w \in Workers, Destroy(t, w) PROVE AloneInv'
  BY <1>4 DEF Destroy
<1>5. ASSUME NEW t \in Threads, NEW h \in Hooks, SetFatalPreLoggingHook(t, h) PROVE AloneInv'
  BY <1>5 DEF SetFatalPreLoggingHook
<1>6. ASSUME NEW t \in Threads, SetFatalExitHandler(t) PROVE AloneInv'
  BY <1>6 DEF SetFatalExitHandler
<1>7. ASSUME NEW t \in Threads, Fatality(t) PROVE AloneInv'
  BY <1>7 DEF Fatality, TakeHook, NoHook, Count, RunHook, CountRun, RunEmptyHook, Warn
<1>8. ASSUME NEW t \in Threads, Pushing(t) PROVE AloneInv'
  BY <1>8 DEF Pushing, CheckLogger, StoreFirst, Drop, Annotate, SaveToLogger
<1>9. ASSUME NEW t \in Threads, Initializing(t) PROVE AloneInv'
  BY <1>9 DEF Initializing, InitLock, MayInitialize, InitSaveFirst, InitPublish, InitHook,
              InitCounter, Unlock
<1>10. ASSUME NEW t \in Threads, Destroying(t) PROVE AloneInv'
  BY <1>10 DEF Destroying, ShutDownCheck, ShutDownLogging, NoLogger, DtorRemoveAllSinks, DtorReset,
               DtorReturns
<1>11. ASSUME NEW w \in Workers, BgRuns(w) PROVE AloneInv'
  BY <1>11 DEF BgRuns
<1>12. CASE UNCHANGED vars
  BY <1>12
<1> QED BY <1>1, <1>2, <1>3, <1>4, <1>5, <1>6, <1>7, <1>8, <1>9, <1>10, <1>11, <1>12
       DEF Next, GoesOn

(* In such a program the logger that a LOG call has read is still there.       *)
LEMMA OrderStep ==
  ASSUME GlobalsOK, LocalsOK, WorkersOK, MutexInv, WorkerInv, SentInv, AloneInv, OrderInv,
         [Next]_vars
  PROVE  OrderInv'
<1> USE G3logAssumption DEF GlobalsOK, LocalsOK, WorkersOK, OrderInv, Disturbs, Intrudes, vars,
                            globals, firstvar, workers, locals, logs, history, Accept, PCs, InLog,
                            InFatal, InInit, InShutDown, InDtor, At, Goto, Step, LogReturns
<1>1. ASSUME NEW t \in Threads, NEW m \in Msgs, Log(t, m) PROVE OrderInv'
  BY <1>1, ZenonT(60) DEF Log
<1>2. ASSUME NEW t \in Threads, NEW m \in Msgs, HookCrashes(t, m) PROVE OrderInv'
  BY <1>2, SMTT(30) DEF HookCrashes, CountRun
<1>3. ASSUME NEW t \in Threads, NEW w \in Workers \cup {None}, InitializeLogging(t, w)
      PROVE  OrderInv'
  BY <1>3 DEF InitializeLogging
<1>4. ASSUME NEW t \in Threads, NEW w \in Workers, Destroy(t, w) PROVE OrderInv'
  BY <1>4 DEF Destroy
<1>5. ASSUME NEW t \in Threads, NEW h \in Hooks, SetFatalPreLoggingHook(t, h) PROVE OrderInv'
  BY <1>5 DEF SetFatalPreLoggingHook
<1>6. ASSUME NEW t \in Threads, SetFatalExitHandler(t) PROVE OrderInv'
  BY <1>6 DEF SetFatalExitHandler
<1>7. ASSUME NEW t \in Threads, Fatality(t) PROVE OrderInv'
  BY <1>7 DEF Fatality, TakeHook, NoHook, Count, RunHook, CountRun, RunEmptyHook, Warn
<1>8. ASSUME NEW t \in Threads, Pushing(t) PROVE OrderInv'
  <2>1. CASE CheckLogger(t)
    BY <2>1 DEF CheckLogger
  <2>2. CASE StoreFirst(t)
    <3>1. \A u \in Threads : pc[u] # "annotate"
      BY <2>2 DEF StoreFirst, SentInv
    <3>2. /\ pc' = [pc EXCEPT ![t] = "annotate"] /\ first' = cur[t] /\ pc[t] = "store"
          /\ UNCHANGED <<logger, life, mine, cur, seen, disorder>>
      BY <2>2 DEF StoreFirst
    <3>3. pc' \in [Threads -> PCs] /\ pc'[t] = "annotate" /\ \A u \in Threads \ {t} : pc'[u] = pc[u]
      BY <3>2
    <3>4. ~disorder /\ logger # None => life[logger] = "alive"
      OBVIOUS
    <3>5. ASSUME ~disorder', NEW u \in Threads
          PROVE  /\ mine'[u] # None /\ pc'[u] \notin InInit \cup InShutDown => logger' # mine'[u]
                 /\ pc'[u] = "save" => seen'[u] = logger' /\ logger' # None
                 /\ pc'[u] = "annotate" => first' = cur'[u]
      <4>1. CASE u = t
        BY <3>2, <3>3, <3>5, <4>1
      <4>2. CASE u # t
        BY <3>1, <3>2, <3>3, <3>5, <4>2
      <4> QED BY <4>1, <4>2
    <3> QED BY <3>2, <3>4, <3>5
  <2>3. CASE Drop(t) \/ Annotate(t)
    BY <2>3 DEF Drop, Annotate
  <2>4. CASE SaveToLogger(t)
    BY <2>4 DEF SaveToLogger
  <2> QED BY <1>8, <2>1, <2>2, <2>3, <2>4 DEF Pushing
<1>9. ASSUME NEW t \in Threads, Initializing(t) PROVE OrderInv'
  <2>1. CASE InitLock(t) \/ InitHook(t)
    <3>1. /\ \E l \in {"init", "init_first", "init_counter"} : pc' = [pc EXCEPT ![t] = l]
          /\ UNCHANGED <<logger, life, mine, cur, seen, disorder, first>>
      BY <2>1 DEF InitLock, MayInitialize, InitHook
    <3> QED BY <3>1
  <2>2. CASE InitSaveFirst(t) \/ InitPublish(t)
    <3>1. mine[t] # None
      BY <2>2 DEF InitSaveFirst, InitPublish, MutexInv
    <3>2. ~disorder => \A u \in Threads \ {t} : pc[u] \notin {"save", "annotate"} /\ mine[u] = None
      BY <3>1, <2>2 DEF AloneInv, InitSaveFirst, InitPublish
    <3>3. life[mine[t]] = "alive"
      BY <2>2, <3>1 DEF InitSaveFirst, InitPublish, WorkerInv
    <3> QED BY <2>2, <3>1, <3>2, <3>3 DEF InitSaveFirst, InitPublish
  <2>3. CASE InitCounter(t)
    <3>1. /\ pc' = [pc EXCEPT ![t] = "idle"]
          /\ mine' = [mine EXCEPT ![t] = None]
          /\ UNCHANGED <<logger, life, cur, seen, disorder, first>>
      BY <2>3 DEF InitCounter
    <3>2. /\ pc'[t] = "idle" /\ mine'[t] = None
          /\ \A u \in Threads \ {t} : pc'[u] = pc[u] /\ mine'[u] = mine[u]
      BY <3>1
    <3> QED BY <3>1, <3>2
  <2> QED BY <1>9, <2>1, <2>2, <2>3 DEF Initializing
<1>10. ASSUME NEW t \in Threads, Destroying(t) PROVE OrderInv'
  <2>1. mine[t] # None /\ mine[t] \in Workers
    BY <1>10 DEF Destroying, ShutDownCheck, ShutDownLogging, DtorRemoveAllSinks, DtorReset,
                 DtorReturns, WorkerInv
  <2>2. ~disorder => \A u \in Threads \ {t} : pc[u] \notin {"save", "annotate"} /\ mine[u] = None
    <3>1. ASSUME ~disorder, NEW u \in Threads \ {t} PROVE pc[u] \in {"idle", "asleep"}
      BY <2>1, <3>1 DEF AloneInv
    <3> QED BY <3>1 DEF WorkerInv
  <2>3. CASE ShutDownCheck(t)
    <3>1. /\ \/ pc' = [pc EXCEPT ![t] = "check"] /\ logger # mine[t] /\ cur' = [cur EXCEPT ![t] = Warning]
             \/ pc' = [pc EXCEPT ![t] = "d_shut"] /\ cur' = cur
          /\ UNCHANGED <<logger, life, mine, seen, disorder, first>>
      BY <2>3 DEF ShutDownCheck
    <3>2. /\ pc'[t] \in {"check", "d_shut"} /\ pc'[t] = "check" => logger # mine[t]
          /\ \A u \in Threads \ {t} : pc'[u] = pc[u] /\ cur'[u] = cur[u]
      BY <3>1
    <3> QED BY <3>1, <3>2
  <2>4. CASE ShutDownLogging(t)
    <3>1. /\ pc' = [pc EXCEPT ![t] = "d_flush"] /\ logger' = None /\ pc[t] = "d_shut"
          /\ UNCHANGED <<life, mine, cur, seen, disorder, first>>
      BY <2>4 DEF ShutDownLogging, NoLogger
    <3>2. /\ pc'[t] = "d_flush" /\ \A u \in Threads \ {t} : pc'[u] = pc[u]
      BY <3>1
    <3>3. ASSUME ~disorder', NEW u \in Threads
          PROVE  /\ mine'[u] # None /\ pc'[u] \notin InInit \cup InShutDown => logger' # mine'[u]
                 /\ pc'[u] = "save" => seen'[u] = logger' /\ logger' # None
                 /\ pc'[u] = "annotate" => first' = cur'[u]
      <4>1. CASE u = t
        BY <3>1, <3>2, <3>3, <4>1
      <4>2. CASE u # t
        BY <2>2, <3>1, <3>2, <3>3, <4>2
      <4> QED BY <4>1, <4>2
    <3> QED BY <3>1, <3>3
  <2>5. CASE DtorRemoveAllSinks(t) \/ DtorReset(t)
    <3>1. /\ \E l \in {"d_wait", "d_join"} : pc' = [pc EXCEPT ![t] = l]
          /\ pc[t] \in {"d_flush", "d_wait"}
          /\ \E l \in {"draining", "joining"} : life' = [life EXCEPT ![mine[t]] = l]
          /\ UNCHANGED <<logger, mine, cur, seen, disorder, first>>
      BY <2>5 DEF DtorRemoveAllSinks, DtorReset
    <3>2. /\ pc'[t] \in {"d_wait", "d_join"} /\ \A u \in Threads \ {t} : pc'[u] = pc[u]
          /\ \A w \in Workers \ {mine[t]} : life'[w] = life[w]
      BY <3>1
    <3>3. ~disorder => logger # mine[t]
      BY <2>1, <3>1
    <3> QED BY <2>1, <3>1, <3>2, <3>3
  <2>6. CASE DtorReturns(t)
    BY <2>1, <2>6 DEF DtorReturns
  <2> QED BY <1>10, <2>3, <2>4, <2>5, <2>6 DEF Destroying
<1>11. ASSUME NEW w \in Workers, BgRuns(w) PROVE OrderInv'
  BY <1>11 DEF BgRuns
<1>12. CASE UNCHANGED vars
  BY <1>12
<1> QED BY <1>1, <1>2, <1>3, <1>4, <1>5, <1>6, <1>7, <1>8, <1>9, <1>10, <1>11, <1>12
       DEF Next, GoesOn

(* In such a program no LOG call uses a LogWorker that is going.               *)
LEMMA VoidStep ==
  ASSUME GlobalsOK, LocalsOK, WorkersOK, OrderInv, NoCallIntoTheVoid, [Next]_vars
  PROVE  NoCallIntoTheVoid'
<1> USE G3logAssumption DEF GlobalsOK, LocalsOK, WorkersOK, OrderInv, NoCallIntoTheVoid, Disturbs,
                            Intrudes, vars, history, logs, At, Step, Accepts
<1>1. ASSUME NEW t \in Threads, NEW m \in Msgs, Log(t, m) PROVE NoCallIntoTheVoid'
  BY <1>1 DEF Log
<1>2. ASSUME NEW t \in Threads, NEW m \in Msgs, HookCrashes(t, m) PROVE NoCallIntoTheVoid'
  BY <1>2 DEF HookCrashes, CountRun
<1>3. ASSUME NEW t \in Threads, NEW w \in Workers \cup {None}, InitializeLogging(t, w)
      PROVE  NoCallIntoTheVoid'
  BY <1>3 DEF InitializeLogging
<1>4. ASSUME NEW t \in Threads, NEW w \in Workers, Destroy(t, w) PROVE NoCallIntoTheVoid'
  BY <1>4 DEF Destroy
<1>5. ASSUME NEW t \in Threads, NEW h \in Hooks, SetFatalPreLoggingHook(t, h)
      PROVE  NoCallIntoTheVoid'
  BY <1>5 DEF SetFatalPreLoggingHook
<1>6. ASSUME NEW t \in Threads, SetFatalExitHandler(t) PROVE NoCallIntoTheVoid'
  BY <1>6 DEF SetFatalExitHandler
<1>7. ASSUME NEW t \in Threads, Fatality(t) PROVE NoCallIntoTheVoid'
  BY <1>7 DEF Fatality, TakeHook, NoHook, Count, RunHook, CountRun, RunEmptyHook, Warn
<1>8. ASSUME NEW t \in Threads, Pushing(t) PROVE NoCallIntoTheVoid'
  BY <1>8 DEF Pushing, CheckLogger, StoreFirst, Drop, Annotate, SaveToLogger
<1>9. ASSUME NEW t \in Threads, Initializing(t) PROVE NoCallIntoTheVoid'
  BY <1>9 DEF Initializing, InitLock, MayInitialize, InitSaveFirst, InitPublish, InitHook,
              InitCounter, Unlock
<1>10. ASSUME NEW t \in Threads, Destroying(t) PROVE NoCallIntoTheVoid'
  BY <1>10 DEF Destroying, ShutDownCheck, ShutDownLogging, NoLogger, DtorRemoveAllSinks, DtorReset,
               DtorReturns
<1>11. ASSUME NEW w \in Workers, BgRuns(w) PROVE NoCallIntoTheVoid'
  BY <1>11 DEF BgRuns
<1>12. CASE UNCHANGED vars
  BY <1>12
<1> QED BY <1>1, <1>2, <1>3, <1>4, <1>5, <1>6, <1>7, <1>8, <1>9, <1>10, <1>11, <1>12
       DEF Next, GoesOn

--------------------------------------------------------------------------------
(* What a step may do without a message missing its LogWorker.                 *)
LEMMA HomeStays ==
  ASSUME HomeInv, LocalsOK, WorkersOK, HistoryOK, WorkersOK', G3logAssumption,
         ~disorder' => ~disorder, UNCHANGED <<logged, home>>,
         \A w \in Workers : \A n \in DOMAIN sent[w] :
            n \in DOMAIN sent'[w] /\ sent'[w][n] = sent[w][n],
         \A w \in Workers : life'[w] = "gone" =>
            \/ life[w] = "gone" /\ ran[w] <= ran'[w]
            \/ \A n \in DOMAIN sent'[w] : n <= ran'[w],
         \A t \in Threads : ~disorder /\ cur[t] \in Msgs \ FatalMsgs /\ home[cur[t]] # None =>
            \/ cur'[t] = cur[t] /\ pc'[t] \in {"check", "save"} /\ logger' = logger
            \/ /\ life'[home[cur[t]]] # "gone"
               /\ \E n \in DOMAIN sent'[home[cur[t]]] : sent'[home[cur[t]]][n] = cur[t],
         \A t \in Threads : ~disorder /\ cur'[t] \in Msgs \ FatalMsgs /\ home[cur'[t]] # None =>
            cur'[t] = cur[t] /\ pc'[t] \in {"check", "save"} /\ logger' = logger
  PROVE  HomeInv'
<1> USE DEF HomeInv, ReachesItsLogger
<1>1. SUFFICES ASSUME ~disorder, ~disorder' PROVE HomeInv'
  OBVIOUS
<1>2. \A t \in Threads : cur'[t] \in Msgs \ FatalMsgs /\ home'[cur'[t]] # None =>
            pc'[t] \in {"check", "save"} /\ logger' = home'[cur'[t]]
  BY <1>1
<1>3. ASSUME NEW m \in logged \ FatalMsgs, home[m] # None, \A t \in Threads : cur'[t] # m
      PROVE  \E n \in DOMAIN sent'[home[m]] :
                /\ sent'[home[m]][n] = m
                /\ life'[home[m]] = "gone" => n <= ran'[home[m]]
  <2>1. m \in Msgs /\ home[m] \in Workers
    BY <1>3 DEF HistoryOK
  <2>2. CASE \E t \in Threads : cur[t] = m
    <3>1. PICK t \in Threads : cur[t] = m
      BY <2>2
    <3> QED BY <1>1, <1>3, <2>1, <3>1
  <2>3. CASE \A t \in Threads : cur[t] # m
    <3>1. PICK n \in DOMAIN sent[home[m]] :
             /\ sent[home[m]][n] = m
             /\ life[home[m]] = "gone" => n <= ran[home[m]]
      BY <1>1, <1>3, <2>3
    <3>2. n \in DOMAIN sent'[home[m]] /\ sent'[home[m]][n] = m /\ n \in Nat
      <4>1. sent[home[m]] \in Seq(Msgs \cup {Warning, "clear"})
        BY <2>1 DEF WorkersOK
      <4>2. n \in Nat
        BY <4>1, LenProperties
      <4> QED BY <2>1, <3>1, <4>2
    <3>3. ran[home[m]] \in Nat /\ ran'[home[m]] \in Nat
      BY <2>1 DEF WorkersOK
    <3> QED BY <2>1, <3>1, <3>2, <3>3
  <2> QED BY <2>2, <2>3
<1>4. ReachesItsLogger'
  <2>1. SUFFICES ASSUME NEW m \in logged' \ FatalMsgs, home'[m] # None, \A t \in Threads : cur'[t] # m
        PROVE  \E n \in DOMAIN sent'[home'[m]] :
                  /\ sent'[home'[m]][n] = m
                  /\ life'[home'[m]] = "gone" => n <= ran'[home'[m]]
    OBVIOUS
  <2>2. m \in logged \ FatalMsgs /\ home'[m] = home[m]
    OBVIOUS
  <2> QED BY <1>3, <2>1, <2>2
<1> QED BY <1>2, <1>4

(* In such a program a message stays on its way to the LogWorker that was      *)
(* active, or is there; and that one executes it before it is gone.            *)
LEMMA HomeStep ==
  ASSUME GlobalsOK, LocalsOK, WorkersOK, HistoryOK, WorkersOK', MutexInv, WorkerInv, SentInv,
         AloneInv, OrderInv, HomeInv, [Next]_vars
  PROVE  HomeInv'
<1> USE G3logAssumption DEF vars, history, logs
<1>1. ASSUME NEW t \in Threads, NEW m \in Msgs, Log(t, m) PROVE HomeInv'
  <2>1. SUFFICES ASSUME ~disorder' PROVE HomeInv'
    BY DEF HomeInv
  <2>2. /\ ~disorder /\ pc[t] = "idle" /\ m \notin logged
        /\ pc' = [pc EXCEPT ![t] = IF m \in FatalMsgs THEN "take" ELSE "check"]
        /\ cur' = [cur EXCEPT ![t] = m]
        /\ logged' = logged \cup {m}
        /\ home' = [home EXCEPT ![m] = logger]
        /\ UNCHANGED <<logger, life, sent, ran>>
    BY <1>1, <2>1 DEF Log, At, Goto, Disturbs, globals, workers
  <2>3. /\ cur'[t] = m /\ cur[t] = None /\ home'[m] = logger
        /\ m \notin FatalMsgs => pc'[t] = "check"
        /\ \A u \in Threads \ {t} : cur'[u] = cur[u] /\ pc'[u] = pc[u]
        /\ \A k \in Msgs \ {m} : home'[k] = home[k]
    BY <2>2 DEF LocalsOK, HistoryOK, WorkerInv, InLog, InFatal
  <2>4. \A u \in Threads : cur[u] \in Msgs => cur[u] # m
    BY <2>2 DEF SentInv
  <2>5. ASSUME NEW u \in Threads, cur'[u] \in Msgs \ FatalMsgs, home'[cur'[u]] # None
        PROVE  pc'[u] \in {"check", "save"} /\ logger' = home'[cur'[u]]
    <3>1. CASE u = t
      BY <2>2, <2>3, <2>5, <3>1
    <3>2. CASE u # t
      BY <2>2, <2>3, <2>4, <2>5, <3>2 DEF HomeInv
    <3> QED BY <3>1, <3>2
  <2>6. ASSUME NEW k \in logged' \ FatalMsgs, home'[k] # None, \A u \in Threads : cur'[u] # k
        PROVE  \E n \in DOMAIN sent[home'[k]] :
                  /\ sent[home'[k]][n] = k
                  /\ life[home'[k]] = "gone" => n <= ran[home'[k]]
    <3>1. k \in logged /\ k # m /\ home'[k] = home[k] /\ \A u \in Threads : cur[u] # k
      BY <2>2, <2>3, <2>6 DEF HistoryOK
    <3> QED BY <2>2, <2>6, <3>1 DEF HomeInv, ReachesItsLogger
  <2>7. ReachesItsLogger'
    BY <2>2, <2>6 DEF ReachesItsLogger
  <2> QED BY <2>5, <2>7 DEF HomeInv
<1>2. ASSUME NEW t \in Threads, NEW m \in Msgs, HookCrashes(t, m) PROVE HomeInv'
  <2>1. /\ cur[t] \in FatalMsgs /\ cur'[t] \in FatalMsgs
        /\ \A u \in Threads \ {t} : cur'[u] = cur[u] /\ pc'[u] = pc[u]
        /\ UNCHANGED <<disorder, home, logger, life, sent, ran>>
        /\ logged \subseteq logged' /\ logged' \subseteq logged \cup {m} /\ m \in FatalMsgs
    BY <1>2 DEF HookCrashes, At, Goto, LocalsOK, WorkerInv, InFatal, globals, workers
  <2>2. \A k \in Msgs \ FatalMsgs : \A u \in Threads : cur'[u] = k <=> cur[u] = k
    BY <2>1
  <2> QED BY <2>1, <2>2 DEF HomeInv, ReachesItsLogger, HistoryOK
<1>3. ASSUME NEW t \in Threads, NEW w \in Workers \cup {None}, InitializeLogging(t, w)
      PROVE  HomeInv'
  <2>1. /\ ~disorder' => ~disorder
        /\ UNCHANGED <<logged, home, logger, life, sent, ran, cur>>
        /\ cur[t] = None
        /\ \A u \in Threads \ {t} : pc'[u] = pc[u]
    BY <1>3 DEF InitializeLogging, Intrudes, At, Goto, LocalsOK, WorkerInv, InLog, InFatal, workers
  <2> QED BY <2>1 DEF HomeInv, ReachesItsLogger
<1>4. ASSUME NEW t \in Threads, NEW w \in Workers, Destroy(t, w) PROVE HomeInv'
  <2>1. /\ ~disorder' => ~disorder
        /\ UNCHANGED <<logged, home, logger, life, sent, ran, cur>>
        /\ cur[t] = None
        /\ \A u \in Threads \ {t} : pc'[u] = pc[u]
    BY <1>4 DEF Destroy, Intrudes, At, Goto, LocalsOK, WorkerInv, InLog, InFatal, globals, workers
  <2> QED BY <2>1 DEF HomeInv, ReachesItsLogger
<1>5. ASSUME NEW t \in Threads, NEW h \in Hooks, SetFatalPreLoggingHook(t, h) PROVE HomeInv'
  BY <1>5 DEF SetFatalPreLoggingHook, workers, locals, HomeInv, ReachesItsLogger
<1>6. ASSUME NEW t \in Threads, SetFatalExitHandler(t) PROVE HomeInv'
  BY <1>6 DEF SetFatalExitHandler, workers, locals, HomeInv, ReachesItsLogger
<1>7. ASSUME NEW t \in Threads, Fatality(t) PROVE HomeInv'
  <2>1. /\ cur[t] \in FatalMsgs /\ cur'[t] \in {cur[t], None}
        /\ \A u \in Threads \ {t} : cur'[u] = cur[u] /\ pc'[u] = pc[u]
        /\ UNCHANGED <<disorder, logged, home, logger, life, sent, ran>>
    BY <1>7 DEF Fatality, TakeHook, Count, RunHook, RunEmptyHook, Warn, LogReturns, Step, At, Goto,
                LocalsOK, WorkerInv, InFatal, globals, workers
  <2>2. \A k \in Msgs \ FatalMsgs : \A u \in Threads : cur'[u] = k <=> cur[u] = k
    BY <2>1
  <2> QED BY <2>1, <2>2 DEF HomeInv, ReachesItsLogger, HistoryOK
<1>8. ASSUME NEW t \in Threads, Pushing(t) PROVE HomeInv'
  <2>1. CASE CheckLogger(t)
    <3>1. /\ UNCHANGED <<disorder, logged, home, logger, life, sent, ran, cur>>
          /\ logger # None => pc'[t] = "save"
          /\ \A u \in Threads \ {t} : pc'[u] = pc[u]
          /\ pc[t] = "check"
      BY <2>1 DEF CheckLogger, ExitsUninitialized, At, Goto, LocalsOK, globals, workers
    <3> QED BY <3>1 DEF HomeInv, ReachesItsLogger
  <2>2. CASE StoreFirst(t)
    <3>1. /\ UNCHANGED <<disorder, logged, home, logger, life, sent, ran, cur>>
          /\ \A u \in Threads \ {t} : pc'[u] = pc[u]
          /\ pc[t] = "store"
      BY <2>2 DEF StoreFirst, At, Goto, Step, LocalsOK, workers
    <3> QED BY <3>1 DEF HomeInv, ReachesItsLogger
  <2>3. CASE Drop(t) \/ Annotate(t)
    <3>1. /\ UNCHANGED <<disorder, logged, home, logger, life, sent, ran>>
          /\ \A u \in Threads \ {t} : pc'[u] = pc[u] /\ cur'[u] = cur[u]
          /\ pc[t] \in {"store", "annotate"}
          /\ cur'[t] \in {cur[t], None}
          /\ pc'[t] = pc[t] \/ cur'[t] = None
      BY <2>3 DEF Drop, Annotate, At, Goto, Step, LogReturns, LocalsOK, globals, workers
    <3>2. ~disorder /\ cur[t] \in Msgs \ FatalMsgs => home[cur[t]] = None
      BY <3>1 DEF HomeInv
    <3>3. None \notin Msgs /\ \A w \in Workers : ran[w] \in Nat
      BY DEF WorkersOK
    <3> QED BY <3>1, <3>2, <3>3, HomeStays DEF HomeInv
  <2>4. CASE SaveToLogger(t)
    <3>1. PICK w \in {seen[t], logger} :
             \/ /\ Accepts(w) /\ Accept(w, cur[t])
                /\ \/ IsFatal(t) /\ Goto(t, "asleep") /\ UNCHANGED cur
                   \/ LogReturns(t)
             \/ UNCHANGED <<workers, pc, cur>>
      BY <2>4 DEF SaveToLogger
    <3>2. pc[t] = "save" /\ UNCHANGED <<disorder, logged, home, logger>>
      BY <2>4 DEF SaveToLogger, At, globals
    <3>3. CASE UNCHANGED <<workers, pc, cur>>
      BY <3>2, <3>3 DEF HomeInv, ReachesItsLogger, workers
    <3>4. CASE /\ Accepts(w) /\ Accept(w, cur[t])
               /\ \/ IsFatal(t) /\ Goto(t, "asleep") /\ UNCHANGED cur
                  \/ LogReturns(t)
      <4>1. w \in Workers /\ cur[t] \in Msgs \cup {Warning} /\ UNCHANGED <<life, ran>>
            /\ life[w] # "gone"
        BY <3>2, <3>4 DEF Accepts, Accept, WorkerInv, LocalsOK, GlobalsOK, InLog
      <4>2. sent' = [sent EXCEPT ![w] = Append(@, cur[t])]
        BY <3>4 DEF Accept
      <4>3. /\ \A v \in Workers : \A n \in DOMAIN sent[v] :
                  n \in DOMAIN sent'[v] /\ sent'[v][n] = sent[v][n]
            /\ \E n \in DOMAIN sent'[w] : sent'[w][n] = cur[t]
        <5>1. Len(sent[w]) + 1 \in 1..(Len(sent[w]) + 1)
          BY <4>1, LenProperties, SMTT(30) DEF WorkersOK
        <5>2. /\ \A v \in Workers : \A n \in DOMAIN sent[v] :
                    n \in DOMAIN sent'[v] /\ sent'[v][n] = sent[v][n]
              /\ DOMAIN sent'[w] = 1..(Len(sent[w]) + 1)
              /\ sent'[w][Len(sent[w]) + 1] = cur[t]
          BY <4>1, <4>2, SentGrows, ZenonT(60)
        <5> QED BY <5>1, <5>2
      <4>4. /\ \A u \in Threads \ {t} : cur'[u] = cur[u] /\ pc'[u] = pc[u]
            /\ cur'[t] = None \/ (cur[t] \in FatalMsgs /\ cur'[t] = cur[t])
        BY <3>4 DEF IsFatal, Goto, LogReturns, LocalsOK
      <4>5. ~disorder => w = logger
        BY <3>2 DEF OrderInv
      <4>6. None \notin Msgs
        OBVIOUS
      <4> HIDE DEF vars, history, logs
      <4>7. \A v \in Workers : ran[v] \in Nat
        BY DEF WorkersOK
      <4>8. ASSUME NEW u \in Threads, ~disorder, cur[u] \in Msgs \ FatalMsgs, home[cur[u]] # None
            PROVE  \/ cur'[u] = cur[u] /\ pc'[u] \in {"check", "save"} /\ logger' = logger
                   \/ /\ life'[home[cur[u]]] # "gone"
                      /\ \E n \in DOMAIN sent'[home[cur[u]]] : sent'[home[cur[u]]][n] = cur[u]
        <5>1. pc[u] \in {"check", "save"} /\ logger = home[cur[u]]
          BY <4>8 DEF HomeInv
        <5> QED BY <3>2, <4>1, <4>3, <4>4, <4>5, <4>8, <5>1
      <4>9. ASSUME NEW u \in Threads, ~disorder, cur'[u] \in Msgs \ FatalMsgs, home[cur'[u]] # None
            PROVE  cur'[u] = cur[u] /\ pc'[u] \in {"check", "save"} /\ logger' = logger
        BY <3>2, <4>4, <4>6, <4>9 DEF HomeInv
      <4> QED BY <3>2, <4>1, <4>3, <4>7, <4>8, <4>9, HomeStays
    <3> QED BY <3>1, <3>3, <3>4
  <2> QED BY <1>8, <2>1, <2>2, <2>3, <2>4 DEF Pushing
<1>9. ASSUME NEW t \in Threads, Initializing(t) PROVE HomeInv'
  <2>1. /\ UNCHANGED <<disorder, logged, home, life, ran, cur>>
        /\ \A u \in Threads \ {t} : pc'[u] = pc[u]
        /\ pc[t] \in InInit
    BY <1>9 DEF Initializing, InitLock, InitSaveFirst, InitPublish, InitHook, InitCounter, Step,
                At, Goto, Accept, LocalsOK, InInit, globals, workers
  <2>2. /\ ~disorder /\ cur[t] \in Msgs \ FatalMsgs => home[cur[t]] = None
        /\ \A w \in Workers : ran[w] \in Nat
    BY <2>1 DEF HomeInv, WorkersOK, InInit
  <2>3. CASE InitPublish(t)
    <3>1. sent' = sent /\ mine[t] # None
      BY <2>3 DEF InitPublish, workers, MutexInv, Step, At, InInit
    <3>2. ~disorder => \A u \in Threads : cur[u] \in Msgs \ FatalMsgs => home[cur[u]] = None
      BY <2>2, <3>1 DEF AloneInv, HomeInv
    <3> QED BY <2>1, <2>2, <3>1, <3>2, HomeStays
  <2>4. CASE InitSaveFirst(t)
    <3>1. /\ logger' = logger
          /\ \/ sent' = sent
             \/ first # None /\ sent' = [sent EXCEPT ![mine[t]] = Append(@, first)]
      BY <2>4 DEF InitSaveFirst, Accept, workers
    <3>2. mine[t] \in Workers
      BY <2>4 DEF InitSaveFirst, MutexInv, LocalsOK, InInit, Step, At
    <3>3. \A v \in Workers : \A n \in DOMAIN sent[v] :
             n \in DOMAIN sent'[v] /\ sent'[v][n] = sent[v][n]
      <4>1. CASE sent' = sent
        BY <4>1
      <4>2. CASE first # None /\ sent' = [sent EXCEPT ![mine[t]] = Append(@, first)]
        <5>1. first \in Msgs \cup {Warning, "clear"}
          BY <4>2 DEF GlobalsOK
        <5> QED BY <3>2, <4>2, <5>1, SentGrows
      <4> QED BY <3>1, <4>1, <4>2
    <3> QED BY <2>1, <2>2, <3>1, <3>3, HomeStays DEF HomeInv
  <2>5. CASE InitLock(t) \/ InitHook(t) \/ InitCounter(t)
    <3>1. UNCHANGED <<logger, sent>>
      BY <2>5 DEF InitLock, InitHook, InitCounter, workers
    <3> QED BY <2>1, <2>2, <3>1, HomeStays DEF HomeInv
  <2> QED BY <1>9, <2>3, <2>4, <2>5 DEF Initializing
<1>10. ASSUME NEW t \in Threads, Destroying(t) PROVE HomeInv'
  <2>1. /\ UNCHANGED <<disorder, logged, home, ran>>
        /\ \A u \in Threads \ {t} : pc'[u] = pc[u] /\ cur'[u] = cur[u]
        /\ pc[t] \in InShutDown \cup InDtor
        /\ cur'[t] = cur[t] \/ cur'[t] = Warning
    BY <1>10 DEF Destroying, ShutDownCheck, ShutDownLogging, DtorRemoveAllSinks, DtorReset,
                 DtorReturns, Step, At, Goto, LocalsOK, InShutDown, InDtor, globals, workers
  <2>2. /\ mine[t] \in Workers /\ cur[t] \notin Msgs /\ cur'[t] \notin Msgs
        /\ \A w \in Workers : ran[w] \in Nat
        /\ ~disorder => \A u \in Threads : cur[u] \in Msgs \ FatalMsgs => home[cur[u]] = None
    <3>1. mine[t] # None /\ mine[t] \in Workers /\ cur[t] \notin Msgs
      BY <2>1 DEF WorkerInv, LocalsOK
    <3>2. ASSUME ~disorder, NEW u \in Threads, cur[u] \in Msgs \ FatalMsgs PROVE home[cur[u]] = None
      <4>1. u # t => pc[u] \in {"idle", "asleep"}
        BY <3>1, <3>2 DEF AloneInv
      <4> QED BY <3>1, <3>2, <4>1 DEF HomeInv
    <3> QED BY <2>1, <3>1, <3>2 DEF WorkersOK
  <2>3. CASE ShutDownCheck(t) \/ ShutDownLogging(t)
    <3>1. UNCHANGED <<sent, life>>
      BY <2>3 DEF ShutDownCheck, ShutDownLogging, workers
    <3> QED BY <2>1, <2>2, <3>1, HomeStays
  <2>4. CASE DtorRemoveAllSinks(t)
    <3>1. sent' = [sent EXCEPT ![mine[t]] = Append(@, "clear")]
      BY <2>4 DEF DtorRemoveAllSinks
    <3>2. \A v \in Workers : life'[v] = "gone" => life[v] = "gone"
      BY <2>4 DEF DtorRemoveAllSinks, WorkersOK
    <3> QED BY <2>1, <2>2, <3>1, <3>2, HomeStays, SentGrows
  <2>5. CASE DtorReset(t)
    <3>1. sent' = sent /\ \A v \in Workers : life'[v] = "gone" => life[v] = "gone"
      BY <2>5 DEF DtorReset, WorkersOK
    <3> QED BY <2>1, <2>2, <3>1, HomeStays
  <2>6. CASE DtorReturns(t)
    <3>1. /\ sent' = sent /\ ran[mine[t]] = Len(sent[mine[t]])
          /\ \A v \in Workers : life'[v] = "gone" => life[v] = "gone" \/ v = mine[t]
      BY <2>6 DEF DtorReturns, WorkersOK
    <3>2. \A n \in DOMAIN sent[mine[t]] : n <= ran[mine[t]]
      <4>1. sent[mine[t]] \in Seq(Msgs \cup {Warning, "clear"})
        BY <2>2 DEF WorkersOK
      <4> QED BY <3>1, <4>1, LenProperties
    <3> QED BY <2>1, <2>2, <3>1, <3>2, HomeStays
  <2> QED BY <1>10, <2>3, <2>4, <2>5, <2>6 DEF Destroying
<1>11. ASSUME NEW w \in Workers, BgRuns(w) PROVE HomeInv'
  <2>1. /\ UNCHANGED <<disorder, logged, home, logger, cur, pc, life, sent>>
        /\ \A v \in Workers : ran[v] <= ran'[v]
    BY <1>11 DEF BgRuns, globals, locals, WorkersOK
  <2> QED BY <2>1, HomeStays DEF HomeInv
<1>12. CASE UNCHANGED vars
  BY <1>12 DEF HomeInv, ReachesItsLogger, globals, workers, locals
<1> QED BY <1>1, <1>2, <1>3, <1>4, <1>5, <1>6, <1>7, <1>8, <1>9, <1>10, <1>11, <1>12
       DEF Next, GoesOn

--------------------------------------------------------------------------------
(* Static initialisation leaves the program in such a state. *)
LEMMA InitInv ==
  ASSUME Init
  PROVE  G3logInv
<1> USE G3logAssumption DEF Init
<1>1. GlobalsOK
  BY DEF GlobalsOK
<1>2. WorkersOK
  <2>1. <<>> \in Seq(Msgs \cup {Warning, "clear"}) /\ Len(<<>>) = 0
    OBVIOUS
  <2> QED BY <2>1 DEF WorkersOK
<1>3. LocalsOK
  BY DEF LocalsOK, PCs
<1>4. HistoryOK
  BY DEF HistoryOK
<1>5. HookInv /\ FlagInv
  BY <1>4 DEF HookInv, HookRunsAtMostOnce, FlagInv, RecursiveCrashIsFlagged
<1>6. MutexInv /\ WorkerInv
  BY DEF MutexInv, WorkerInv, InInit, InFatal, InLog, InShutDown, InDtor
<1>7. SentInv
  BY DEF SentInv
<1>8. AloneInv /\ OrderInv
  BY DEF AloneInv, OrderInv
<1>9. NoCallIntoTheVoid /\ HomeInv
  BY DEF NoCallIntoTheVoid, HomeInv, ReachesItsLogger
<1> QED BY <1>1, <1>2, <1>3, <1>4, <1>5, <1>6, <1>7, <1>8, <1>9 DEF G3logInv, TypeOK

(* And every step leaves it in one. *)
LEMMA StepInv ==
  ASSUME G3logInv, [Next]_vars
  PROVE  G3logInv'
<1> USE DEF G3logInv, TypeOK
<1>1. GlobalsOK' /\ LocalsOK' /\ HistoryOK' /\ WorkersOK'
  BY GlobalsOKStep, LocalsOKStep, HistoryOKStep, WorkersOKStep
<1>2. HookInv' /\ FlagInv'
  BY HookStep, FlagStep
<1>3. MutexInv' /\ WorkerInv' /\ SentInv'
  BY MutexStep, WorkerStep, SentStep
<1>4. AloneInv' /\ OrderInv' /\ NoCallIntoTheVoid'
  BY AloneStep, OrderStep, VoidStep
<1>5. HomeInv'
  BY <1>1, HomeStep
<1> QED BY <1>1, <1>2, <1>3, <1>4, <1>5

(* The invariant of the global state. *)
THEOREM Invariant == SafeSpec => []G3logInv
<1>1. Init => G3logInv
  BY InitInv
<1>2. G3logInv /\ [Next]_vars => G3logInv'
  BY StepInv
<1> QED BY <1>1, <1>2, PTL DEF SafeSpec

(* Every variable keeps its type, and no LogWorker executes more than it was   *)
(* given.                                                                      *)
THEOREM TypeCorrect == SafeSpec => []TypeOK
<1>1. G3logInv => TypeOK
  BY DEF G3logInv
<1> QED BY <1>1, Invariant, PTL

(* A pre-logging hook is run once at most, however many threads crash at the   *)
(* same time and whichever of their hooks crash in turn (g3log.cpp:189).       *)
THEOREM NoHookRunsTwice == SafeSpec => []HookRunsAtMostOnce
<1>1. G3logInv => HookRunsAtMostOnce
  BY DEF G3logInv, HookInv
<1> QED BY <1>1, Invariant, PTL

(* A crash in a hook is reported as a recursive crash, with any number of      *)
(* other threads crashing (g3log.cpp:200), as long as initializeLogging has    *)
(* not reset the counter meanwhile.                                            *)
THEOREM RecursiveCrashesAreFlagged == SafeSpec => []RecursiveCrashIsFlagged
<1>1. G3logInv => RecursiveCrashIsFlagged
  BY DEF G3logInv, FlagInv
<1> QED BY <1>1, Invariant, PTL

(* g_logger_instance never goes from one LogWorker to another: however calls   *)
(* of initializeLogging and shutDownLogging are interleaved, it is null in     *)
(* between (g3log.cpp:63).                                                     *)
THEOREM LoggerIsNeverReplaced == SafeSpec => NeverReplaced
<1>1. G3logInv /\ [Next]_vars => [logger # None /\ logger' # None => logger' = logger]_vars
  <2> SUFFICES ASSUME G3logInv, Next, logger # None, logger' # None
               PROVE  logger' = logger
    BY DEF vars, globals
  <2>1. ASSUME NEW t \in Threads, Initializing(t) PROVE logger' = logger
    <3>1. ~InitPublish(t)
      BY DEF G3logInv, MutexInv, InitPublish, Step, At
    <3> QED BY <2>1, <3>1 DEF Initializing, InitLock, InitSaveFirst, InitHook, InitCounter
  <2>2. ASSUME NEW t \in Threads, Destroying(t) PROVE logger' = logger
    BY <2>2 DEF Destroying, ShutDownCheck, ShutDownLogging, NoLogger, DtorRemoveAllSinks,
                DtorReset, DtorReturns, globals
  <2>3. ASSUME NEW t \in Threads, Fatality(t) \/ Pushing(t) PROVE logger' = logger
    BY <2>3 DEF Fatality, TakeHook, Count, RunHook, RunEmptyHook, Warn, Pushing, CheckLogger,
                StoreFirst, Drop, Annotate, SaveToLogger, globals
  <2>4. ASSUME NEW t \in Threads,
               \/ \E m \in Msgs : Log(t, m) \/ HookCrashes(t, m)
               \/ \E w \in Workers \cup {None} : InitializeLogging(t, w)
               \/ \E w \in Workers : Destroy(t, w)
               \/ \E h \in Hooks : SetFatalPreLoggingHook(t, h)
               \/ SetFatalExitHandler(t)
        PROVE  logger' = logger
    BY <2>4 DEF Log, HookCrashes, InitializeLogging, Destroy, SetFatalPreLoggingHook,
                SetFatalExitHandler, globals
  <2>5. ASSUME NEW w \in Workers, BgRuns(w) PROVE logger' = logger
    BY <2>5 DEF BgRuns, globals
  <2> QED BY <2>1, <2>2, <2>3, <2>4, <2>5 DEF Next, GoesOn
<1> QED BY <1>1, Invariant, PTL DEF SafeSpec, NeverReplaced

(* No message is queued twice, for one LogWorker or for two, whoever logs and  *)
(* whoever moves the first uninitialized message; and that one is the first    *)
(* of its LogWorker (g3log.cpp:77 and :241).                                   *)
THEOREM EachMessageIsSentOnce == SafeSpec => []SentOnceAndFirstOneFirst
<1>1. G3logInv => SentOnceAndFirstOneFirst
  <2> SUFFICES ASSUME G3logInv, NEW p \in Positions
               PROVE  /\ \A q \in Positions : sent[p[1]][p[2]] = sent[q[1]][q[2]] => p = q
                      /\ sent[p[1]][p[2]] = stored => p[2] = 1
    BY DEF SentOnceAndFirstOneFirst
  <2>1. \A q \in Positions : /\ q = <<q[1], q[2]>>
                             /\ q[1] \in Workers /\ q[2] \in DOMAIN sent[q[1]]
                             /\ sent[q[1]][q[2]] \in Msgs
    BY DEF Positions
  <2>2. SentInv
    BY DEF G3logInv
  <2>3. \A q \in Positions : sent[p[1]][p[2]] = sent[q[1]][q[2]] => p[1] = q[1] /\ p[2] = q[2]
    BY <2>1, <2>2 DEF SentInv
  <2>4. sent[p[1]][p[2]] = stored => p[2] = 1
    BY <2>1, <2>2 DEF SentInv
  <2>5. ASSUME NEW q \in Positions, sent[p[1]][p[2]] = sent[q[1]][q[2]]
        PROVE  p = q
    <3>1. p[1] = q[1] /\ p[2] = q[2]
      BY <2>3, <2>5
    <3>2. p = <<p[1], p[2]>> /\ q = <<q[1], q[2]>>
      BY <2>1
    <3> QED BY <3>1, <3>2
  <2> QED BY <2>4, <2>5
<1> QED BY <1>1, Invariant, PTL

(* Where no LOG call overlaps the coming or going of a logger, none uses a     *)
(* LogWorker that is going or gone, and none writes to a message that          *)
(* initializeLogging moved away (g3log.cpp:218 and :247).                      *)
THEOREM NoCallGoesIntoTheVoid == SafeSpec => []NoCallIntoTheVoid
<1>1. G3logInv => NoCallIntoTheVoid
  BY DEF G3logInv
<1> QED BY <1>1, Invariant, PTL

(* And there a message that is not fatal reaches the LogWorker that was active *)
(* when its LOG call began, which executes it before its destructor returns.   *)
THEOREM MessagesReachTheirLogger == SafeSpec => []ReachesItsLogger
<1>1. G3logInv => ReachesItsLogger
  BY DEF G3logInv, HomeInv, ReachesItsLogger
<1> QED BY <1>1, Invariant, PTL

================================================================================
