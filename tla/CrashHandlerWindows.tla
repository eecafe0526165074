-------------------------- MODULE CrashHandlerWindows --------------------------
(******************************************************************************)
(* Fatal signals and exceptions on Windows: src/src/crashhandler_windows.cpp  *)
(* and stacktrace_windows.cpp, with the calls that logcapture.cpp, g3log.cpp  *)
(* and logworker.cpp make into them.                                          *)
(*                                                                            *)
(* The C runtime keeps some signals for the process and some for each thread, *)
(* and gives a signal its default action before it calls the handler.  An     *)
(* exception goes to the vectored handlers, to the __except blocks of the     *)
(* program, to the runtime (which makes a signal of some exceptions) and last *)
(* to the filter of unhandled exceptions.  g3log is at three of these places  *)
(* and its handlers make fatal LOG calls, so each thread has a stack of what  *)
(* it is in the middle of.                                                    *)
(*                                                                            *)
(* Left out: what the program does in handlers of its own; a crash of the     *)
(* LogWorker's thread other than by raise.                                    *)
(******************************************************************************)
EXTENDS Integers, Sequences, FiniteSets

CONSTANTS Threads,         \* the threads of the program
          Worker,          \* the LogWorker's thread
          SharedSignals,   \* the signals whose action the process has ...
          ThreadSignals,   \* ... and those whose action each thread has
          SIGABRT,         \* the signal of LOG(FATAL) and CHECK
          Known,           \* the keys of kExceptionsAsText
          Unknown,         \* other exceptions, such as those of C++
          AccessViolation, \* the exception of a null pointer
          SignalOf,        \* the signal the runtime makes of an exception, or None
          MaxEvents,       \* bound on faults, raised signals and fatal LOG calls
          MaxDepth,        \* the handlers a thread's stack has room for
          MaxInstalls,     \* bound on the calls of installCrashHandler
          None

Signals == SharedSignals \cup ThreadSignals
Exceptions == Known \cup Unknown
All == Threads \cup {Worker}

ASSUME WindowsAssumption == /\ SIGABRT \in SharedSignals
                            /\ SharedSignals \cap ThreadSignals = {}
                            /\ None \notin All
                            /\ AccessViolation \in Known /\ Known \cap Unknown = {}
                            /\ Exceptions \cap Signals = {}
                            /\ SignalOf \in [Exceptions -> ThreadSignals \cup {None}]
                            /\ MaxEvents \in Nat /\ MaxInstalls \in Nat /\ MaxDepth \in Nat

Filter == 0                        \* unexpectedExceptionHandling, among the handlers
Handles == 1..(MaxInstalls + 1)    \* vectored exception handlers

VARIABLES once,       \* g_initialize_flag
          active,     \* a LogWorker is initialised
          block,      \* gBlockForFatal
          filter,     \* the process's filter: "g3" or "other"
          previous,   \* g_previous_unexpected_exception_handler
          vectored,   \* the registered handles of vectorExceptionHandling
          handle,     \* g_vector_exception_handler
          action,     \* action[t][s]: "g3" or "default"
          installed,  \* g_installed_thread_signal_handler of each thread
          dumps,      \* g_thread_local_recursive_crash_check of each thread
          holder,     \* the thread that holds the mutex of stackdump, or None
          stack,      \* what each thread is in the middle of, the innermost last
          queue,      \* fatal messages sent to the LogWorker
          process,    \* "running" or "ended"
          events,     \* faults, signals and fatal calls so far, for MaxEvents
          past        \* history, see below

handlers == <<filter, previous, vectored, handle, action, installed>>
vars == <<once, active, block, handlers, dumps, holder, stack, queue, process, events, past>>

(* What has been: a message flushed to the sinks, handlers restored, a fatal   *)
(* event without a LogWorker, handlers installed after a restore (by a thread's*)
(* first LOG call, say), a fault in a stack dump; the threads that crashed and *)
(* those that logged.                                                          *)
Nothing == [flushed |-> FALSE, restored |-> FALSE, unlogged |-> FALSE, late |-> FALSE,
            nested |-> FALSE, crashed |-> {}, logged |-> {}]

(* A frame: the handler, call or exception, its signal or exception, where it  *)
(* is, and the handlers an exception has been given to.                        *)
Places == {"handlers", "except", "runtime", "filter", "end", "dump", "walk", "save",
           "blocked", "gone", "restore", "raise", "raised"}
Frames == {f \in [kind : {"log", "signal", "exception", "exit"}, id : Signals \cup Exceptions,
                  at : Places, given : SUBSET (Handles \cup {Filter})] :
              /\ f.kind \in {"log", "signal"} => f.id \in Signals
              /\ f.kind = "exception" => f.id \in Exceptions}

InstalledOK == /\ {once, active, block} \subseteq BOOLEAN
               /\ {filter, previous} \subseteq {"g3", "other"}
               /\ vectored \subseteq Handles /\ handle \in Handles \cup {0}
               /\ action \in [All -> [Signals -> {"g3", "default"}]]
               /\ installed \in [All -> BOOLEAN]
               /\ process \in {"running", "ended"}

StacksOK == /\ dumps \in [All -> 0..2] /\ holder \in All \cup {None}
            /\ stack \in [All -> Seq(Frames)]
            /\ queue \in Seq(Signals \cup Exceptions)

PastOK == /\ events \in 0..MaxEvents
          /\ past \in [flushed : BOOLEAN, restored : BOOLEAN, unlogged : BOOLEAN,
                       late : BOOLEAN, nested : BOOLEAN,
                       crashed : SUBSET Threads, logged : SUBSET All]

TypeOK == InstalledOK /\ StacksOK /\ PastOK

Init == /\ once = FALSE /\ active = FALSE /\ block = TRUE
        /\ filter = "other" /\ previous = "other" /\ vectored = {} /\ handle = 0
        /\ action = [t \in All |-> [s \in Signals |-> "default"]]
        /\ installed = [t \in All |-> FALSE]
        /\ dumps = [t \in All |-> 0] /\ holder = None
        /\ stack = [t \in All |-> <<>>] /\ queue = <<>>
        /\ process = "running" /\ events = 0 /\ past = Nothing

--------------------------------------------------------------------------------
(* The actions of signals, after thread t calls signal() for a set of them. *)
SetAction(t, set, to) == 
   [u \in All |-> [s \in Signals |->
      IF s \in set /\ (u = t \/ s \in SharedSignals) THEN to ELSE action[u][s]]]

(* Mutant: a flag for the process instead of one for each thread. *)
InstallSignalHandlerOnce(t) == 
   IF \E u \in All : installed[u] THEN UNCHANGED <<action, installed>>
   ELSE /\ installed' = [installed EXCEPT ![t] = TRUE]
        /\ action' = SetAction(t, Signals, "g3")

(* Also SIGNAL_HANDLER_VERIFY, at the end of every LOG call. *)
InstallSignalHandlerForThread(t) == 
   IF installed[t] THEN UNCHANGED <<action, installed>>
   ELSE /\ installed' = [installed EXCEPT ![t] = TRUE]
        /\ action' = SetAction(t, Signals, "g3")

(* Mutant: only the exceptions are given back. *)
RestoreExceptionsOnly(t) == 
   /\ filter' = previous
   /\ vectored' = vectored \ {handle}
   /\ UNCHANGED <<previous, handle, action, installed>>

RestoreFatalHandlingToDefault(t) == 
   /\ filter' = previous
   /\ vectored' = vectored \ {handle}
   /\ action' = SetAction(t, Signals, "default")
   /\ UNCHANGED <<previous, handle, installed>>

InstallCrashHandler(t) == /\ InstallSignalHandlerForThread(t)
                          /\ previous' = filter /\ filter' = "g3"
                          /\ handle' = handle + 1 /\ vectored' = vectored \cup {handle + 1}

--------------------------------------------------------------------------------
(* Stacks *)
In(t, at) == stack[t] # <<>> /\ stack[t][Len(stack[t])].at = at
Top(t) == stack[t][Len(stack[t])]
At(t, at) == [stack EXCEPT ![t][Len(stack[t])].at = at]
Popped(t) == [stack EXCEPT ![t] = SubSeq(@, 1, Len(@) - 1)]
Frame(kind, id, at) == [kind |-> kind, id |-> id, at |-> at, given |-> {}]
Push(stacks, t, f) == [stacks EXCEPT ![t] = Append(@, f)]

Ends == process' = "ended" /\ UNCHANGED <<handlers, stack>>

(* raise(s) in thread t, which is then somewhere else in its code. *)
Raise(t, s, stacks) == 
   \/ /\ action[t][s] = "g3"
      /\ action' = SetAction(t, {s}, "default")
      /\ stack' = Push(stacks, t, Frame("signal", s, "dump"))
      /\ UNCHANGED <<process, filter, previous, vectored, handle, installed>>
   \/ action[t][s] = "default" /\ Ends

--------------------------------------------------------------------------------
(* The program *)
Idle(t) == process = "running" /\ stack[t] = <<>>

Crash(t) == /\ Idle(t) /\ events < MaxEvents /\ events' = events + 1
            /\ past' = [past EXCEPT !.crashed = @ \cup {t}]
            /\ UNCHANGED <<once, active, block, dumps, holder, queue>>

Late == [past EXCEPT !.late = @ \/ past.restored]
Verified(t) == [(IF installed[t] THEN past ELSE Late) EXCEPT !.logged = @ \cup {t}]

InitializeLogging(t) == 
   /\ Idle(t) /\ ~active /\ active' = TRUE /\ once' = TRUE
   /\ IF once THEN UNCHANGED <<handlers, past>> ELSE InstallCrashHandler(t) /\ past' = Late
   /\ UNCHANGED <<block, dumps, holder, stack, queue, process, events>>

(* The program calls installCrashHandler itself, before there is any crash. *)
InstallAgain(t) == /\ Idle(t) /\ handle < MaxInstalls /\ events = 0
                   /\ InstallCrashHandler(t) /\ past' = Late
                   /\ UNCHANGED <<once, active, block, dumps, holder, stack, queue, process,
                                  events>>

(* ~LogWorker, once its worker has run everything. *)
ShutDown == /\ process = "running" /\ active /\ queue = <<>> /\ stack[Worker] = <<>>
            /\ active' = FALSE
            /\ UNCHANGED <<once, block, handlers, dumps, holder, stack, queue, process,
                           events, past>>

Log(t) == /\ Idle(t) /\ t \notin past.logged
          /\ InstallSignalHandlerForThread(t)
          /\ past' = Verified(t)
          /\ UNCHANGED <<once, active, block, filter, previous, vectored, handle, dumps, holder,
                         stack, queue, process, events>>

LogFatal(t) == /\ Crash(t)
               /\ stack' = Push(stack, t, Frame("log", SIGABRT, "dump"))
               /\ UNCHANGED <<handlers, process>>

RaiseSignal(t, s) == Crash(t) /\ Raise(t, s, stack)

Fault(t, e) == /\ Crash(t)
               /\ stack' = Push(stack, t, Frame("exception", e, "handlers"))
               /\ UNCHANGED <<handlers, process>>

--------------------------------------------------------------------------------
(* The way of an exception *)
Handled(t, e) == /\ process = "running" /\ In(t, e) /\ Top(t).kind = "exception"
                 /\ UNCHANGED <<once, active, dumps, queue, events>>

Given(t, h, at) == [stack EXCEPT ![t][Len(stack[t])].at = at,
                                 ![t][Len(stack[t])].given = @ \cup {h}]

Restored == [past EXCEPT !.restored = TRUE]

(* vectorExceptionHandling, and the first part of exceptionHandling. *)
VectorExceptionHandling(t, h) == 
   \/ /\ Top(t).id \in Known
      /\ RestoreFatalHandlingToDefault(t)
      /\ stack' = Given(t, h, "dump")
      /\ past' = Restored
   \/ /\ Top(t).id \notin Known
      /\ stack' = Given(t, h, "handlers")
      /\ UNCHANGED <<handlers, past>>

Vectored(t) == /\ Handled(t, "handlers")
               /\ \/ \E h \in vectored \ Top(t).given : VectorExceptionHandling(t, h)
                  \/ /\ vectored \subseteq Top(t).given
                     /\ stack' = At(t, "except")
                     /\ UNCHANGED <<handlers, past>>
               /\ UNCHANGED <<block, holder, process>>

(* An __except block of the program, which unwinds the whole stack, or none. *)
Except(t) == /\ Handled(t, "except")
             /\ \/ holder # t /\ t # Worker /\ stack' = [stack EXCEPT ![t] = <<>>]
                \/ stack' = At(t, "runtime")
             /\ UNCHANGED <<block, handlers, holder, process, past>>

(* The instruction is run again when the signal's handler has returned. *)
Runtime(t) == /\ Handled(t, "runtime")
              /\ LET s == SignalOf[Top(t).id]
                     signalled == s # None /\ action[t][s] = "g3"
                 IN \/ /\ signalled
                       /\ Raise(t, s, [stack EXCEPT ![t][Len(stack[t])].at = "handlers",
                                                    ![t][Len(stack[t])].given = {}])
                    \/ /\ ~signalled
                       /\ stack' = At(t, "filter")
                       /\ UNCHANGED <<handlers, process>>
              /\ UNCHANGED <<block, holder, past>>

(* unexpectedExceptionHandling, or the filter from before. *)
Unhandled(t) == /\ Handled(t, "filter")
                /\ \/ /\ filter = "g3" /\ RestoreFatalHandlingToDefault(t)
                      /\ stack' = Given(t, Filter, "dump")
                      /\ past' = Restored
                      /\ UNCHANGED process
                   \/ filter = "other" /\ Ends /\ UNCHANGED past
                /\ UNCHANGED <<block, holder>>

(* EXCEPTION_CONTINUE_SEARCH from the filter. *)
NobodyHandles(t) == Handled(t, "end") /\ Ends /\ UNCHANGED <<block, holder, past>>

--------------------------------------------------------------------------------
(* The fatal LOG call of a handler or of the program *)
InCall(t, at) == process = "running" /\ In(t, at) /\ UNCHANGED <<once, active>>

(* A dump counts and is never discounted; the third in a thread is refused.   *)
Dump(t) == /\ InCall(t, "dump")
           /\ \/ /\ dumps[t] >= 2
                 /\ stack' = At(t, "save")
                 /\ UNCHANGED <<dumps, holder>>
              \/ /\ dumps[t] < 2 /\ holder = None
                 /\ dumps' = [dumps EXCEPT ![t] = @ + 1]
                 /\ holder' = t
                 /\ stack' = At(t, "walk")
           /\ UNCHANGED <<block, handlers, queue, process, events, past>>

(* A std::mutex locked twice by a thread: the process ends, or the thread     *)
(* stays (no step).                                                           *)
Relock(t) == /\ InCall(t, "dump") /\ dumps[t] < 2 /\ holder = t
             /\ Ends
             /\ UNCHANGED <<block, dumps, holder, queue, events, past>>

Walk(t) == /\ InCall(t, "walk")
           /\ holder' = None /\ stack' = At(t, "save")
           /\ UNCHANGED <<block, handlers, dumps, queue, process, events, past>>

(* The stack is broken and so walking it faults. *)
WalkFaults(t) == /\ InCall(t, "walk")
                 /\ events < MaxEvents /\ events' = events + 1
                 /\ stack' = Push(stack, t, Frame("exception", AccessViolation, "handlers"))
                 /\ past' = [past EXCEPT !.nested = TRUE]
                 /\ UNCHANGED <<block, handlers, dumps, holder, queue, process>>

(* ~LogCapture and pushFatalMessageToLogger; without a LogWorker the thread   *)
(* exits itself.                                                              *)
Save(t) == /\ InCall(t, "save")
           /\ InstallSignalHandlerForThread(t)
           /\ \/ /\ active
                 /\ queue' = Append(queue, Top(t).id)
                 /\ stack' = At(t, "blocked")
                 /\ past' = Verified(t)
              \/ /\ ~active
                 /\ stack' = Push(At(t, "gone"), t, Frame("exit", Top(t).id, "restore"))
                 /\ past' = [Verified(t) EXCEPT !.unlogged = TRUE]
                 /\ UNCHANGED queue
           /\ UNCHANGED <<block, filter, previous, vectored, handle, dumps, holder, process,
                          events>>

(* ... and then calls a LogWorker that is not there, unless one has come since.*)
(* A vectored handler that was registered twice is still there and comes here  *)
(* again, until the thread's stack is full.                                    *)
Gone(t) == /\ InCall(t, "gone")
           /\ \/ /\ active
                 /\ queue' = Append(queue, Top(t).id)
                 /\ stack' = At(t, "blocked")
                 /\ UNCHANGED <<handlers, process>>
              \/ /\ ~active /\ Len(stack[t]) < MaxDepth
                 /\ stack' = Push(stack, t, Frame("exception", AccessViolation, "handlers"))
                 /\ UNCHANGED <<handlers, queue, process>>
              \/ ~active /\ Len(stack[t]) >= MaxDepth /\ Ends /\ UNCHANGED queue
           /\ UNCHANGED <<block, dumps, holder, events, past>>

Returned(t) == IF Top(t).kind # "exception" THEN Popped(t)
               ELSE At(t, IF Filter \in Top(t).given THEN "end" ELSE "handlers")

(* Mutant: the caller does not wait for the LogWorker. *)
ReleasedAtOnce(t) == /\ InCall(t, "blocked")
                     /\ stack' = Returned(t)
                     /\ UNCHANGED <<block, handlers, dumps, holder, queue, process, events, past>>

(* The loop on shouldBlockForFatalHandling ends; the call or handler returns. *)
Released(t) == /\ InCall(t, "blocked") /\ ~block
               /\ stack' = Returned(t)
               /\ UNCHANGED <<block, handlers, dumps, holder, queue, process, events, past>>

--------------------------------------------------------------------------------
(* The LogWorker: bgFatal flushes the message to the sinks. *)
BgFatal == /\ Idle(Worker) /\ queue # <<>>
           /\ queue' = Tail(queue)
           /\ stack' = Push(stack, Worker, Frame("exit", Head(queue), "restore"))
           /\ past' = [past EXCEPT !.flushed = TRUE]
           /\ UNCHANGED <<once, active, block, handlers, dumps, holder, process, events>>

(* Mutant: the callers of an exception stay blocked. *)
ExitBlocked(t) == /\ InCall(t, "restore")
                  /\ RestoreFatalHandlingToDefault(t)
                  /\ past' = Restored
                  /\ stack' = IF Top(t).id \in Exceptions THEN Popped(t) ELSE At(t, "raise")
                  /\ UNCHANGED <<block, dumps, holder, queue, process, events>>

(* exitWithDefaultSignalHandler *)
Exit(t) == /\ InCall(t, "restore")
           /\ RestoreFatalHandlingToDefault(t)
           /\ past' = Restored
           /\ IF Top(t).id \in Exceptions THEN block' = FALSE /\ stack' = Popped(t)
              ELSE stack' = At(t, "raise") /\ UNCHANGED block
           /\ UNCHANGED <<dumps, holder, queue, process, events>>

ExitRaises(t) == /\ InCall(t, "raise")
                 /\ Raise(t, Top(t).id, At(t, "raised"))
                 /\ UNCHANGED <<block, dumps, holder, queue, events, past>>

ExitReturns(t) == /\ InCall(t, "raised") /\ stack' = Popped(t)
                  /\ UNCHANGED <<block, handlers, dumps, holder, queue, process, events, past>>

--------------------------------------------------------------------------------
GoesOn(t) == \/ Vectored(t) \/ Except(t) \/ Runtime(t) \/ Unhandled(t) \/ NobodyHandles(t)
             \/ Dump(t) \/ Walk(t) \/ Save(t) \/ Gone(t) \/ Released(t)
             \/ Exit(t) \/ ExitRaises(t) \/ ExitReturns(t)

Next == \/ \E t \in Threads : \/ InitializeLogging(t) \/ InstallAgain(t)
                              \/ Log(t) \/ LogFatal(t)
                              \/ \E s \in Signals : RaiseSignal(t, s)
                              \/ \E e \in Exceptions : Fault(t, e)
        \/ ShutDown \/ BgFatal
        \/ \E t \in All : GoesOn(t) \/ Relock(t) \/ WalkFaults(t)

SafeSpec == Init /\ [][Next]_vars

(* Threads that are in a handler go on, and so does the LogWorker's. *)
Fairness == WF_vars(BgFatal) /\ \A t \in All : WF_vars(GoesOn(t))

Spec == SafeSpec /\ Fairness

--------------------------------------------------------------------------------
(* The signal is raised again with its default action ("for a signal however, *)
(* we exit through that fatal signal", crashhandler_windows.cpp:180), whoever  *)
(* restored and whichever handlers ran on which threads before.  Only a thread *)
(* that makes its first LOG call after the restore undoes it for the process:  *)
(* SIGNAL_HANDLER_VERIFY installs the handler again, and the LogWorker's       *)
(* thread then waits for itself.                                               *)
RaisedWithDefaultAction == 
   \A t \in All : In(t, "raise") /\ ~past.late => action[t][Top(t).id] = "default"

(* Until a first fatal event has handlers restored, every thread that has made *)
(* a LOG call is covered for every signal, but for one that is being handled;  *)
(* and an exception finds the filter and a vectored handler.                   *)
BeingHandled(t, s) == 
   \E u \in All : /\ u = t \/ s \in SharedSignals
                  /\ \E n \in 1..Len(stack[u]) : stack[u][n].kind = "signal" /\ stack[u][n].id = s

CoveredUntilRestored == 
   ~past.restored => 
      /\ once => filter = "g3" /\ vectored # {}
      /\ \A t \in past.logged : 
            \A s \in Signals : action[t][s] = "g3" \/ BeingHandled(t, s)

(* If a single thread crashes, however its signals and exceptions lead from    *)
(* one handler to another, then its message is flushed before the process ends *)
(* (an exception without a LogWorker stops all blocking, so not after one).    *)
(* With two it is not so: the first has taken the handlers away before it      *)
(* flushes, and the default action of the second ends the process.             *)
FlushedBeforeTheEnd == 
   process = "ended" /\ Cardinality(past.crashed) = 1 /\ queue # <<>>
      => past.flushed \/ past.nested \/ past.unlogged

(* "The calling thread will sleep ... until the background thread catches up,  *)
(* saves the fatal message and kills the software" (g3log.cpp:257-260): a fatal*)
(* event ends the process, unless an exception was flushed and then caught by  *)
(* the program, a thread logged for the first time too late, or the stack dump *)
(* itself crashed.                                                             *)
FatalEventEndsTheProcess == 
   (\E t \in Threads : stack[t] # <<>>) 
      ~> \/ process = "ended" \/ \A t \in Threads : stack[t] = <<>>
         \/ past.late \/ past.nested

--------------------------------------------------------------------------------
(* What the comments promise and the code does not keep *)

(* "for a signal however, we exit through that fatal signal"                   *)
(* (crashhandler_windows.cpp:180), also if a thread makes its first LOG call   *)
(* between the restore and the raise.                                          *)
ExitsThroughTheSignal == \A t \in All : In(t, "raise") ~> process = "ended"

(* "A thread that causes a FatalMessage will sleep forever until the           *)
(* application has exited (after message flush)" (logmessage.hpp:141-142),     *)
(* also if two threads that have made LOG calls crash together.                *)
ExitsAfterFlush ==
   process = "ended" /\ queue # <<>> /\ Threads \subseteq past.logged
      => past.flushed \/ past.nested \/ past.unlogged
================================================================================
