# A TLA+ model of g3log

g3log is an asynchronous crash-safe logger: `LOG(...)` makes a message, a
background thread (the LogWorker) hands it to sinks, each with a thread of its
own, and a fatal event (`LOG(FATAL)`, a failed `CHECK`, a fatal signal) is
logged and flushed before the process is killed. This directory models the parts
in which threads, signals and the life of objects meet, checks them with TLC and
proves most of their safety properties with TLAPS, for any number of threads, sinks,
messages or signals. Library sources are in `src/src` of
the repository; file names below are relative to it.

## The system

| Part | State | Operations | Hard because | Correct when |
|---|---|---|---|---|
| `shared_queue.hpp` | queue, mutex, condition variable | `push`, `try_and_pop`, `wait_and_pop` | `notify_one` outside the mutex, several poppers, spurious wakeups | FIFO; no wakeup is lost |
| `active.hpp`, `future.hpp` | a queue of callbacks, a thread, `done_` | `send`, `spawn_task`, constructor, destructor | destruction is itself a task; futures of tasks that never run | tasks run in order; the destructor is a flush; every future completes |
| `logworker.*`, `sink.hpp`, `sinkhandle.hpp` | the vector of sinks, the worker, shared and weak pointers to sinks, a queue per sink | `addSink`, `removeSink`, `removeAllSinks`, `hotUpdateSink`, `SinkHandle::call`, `save`, `fatal`, destructor | calls race tasks; whoever lets go of a sink last joins its thread; destruction and fatal exit at any time | each sink gets a contiguous piece of the log; removal flushes and is synchronous; nothing hangs |
| `g3log.cpp`, `logcapture.cpp` | `g_logger_instance`, the first uninitialized message, two once flags, the pre-logging hook and its counter, the fatal handler | `LOG`, `initializeLogging`, `shutDownLogging...`, `setFatalPreLoggingHook`, `setFatalExitHandler` | a plain pointer that is tested and used without a lock; recursive crashes | messages reach the active LogWorker once; fatal calls end the process |
| `crashhandler_unix.cpp` | the set of signals, saved actions, dispositions, masks of threads | `installCrashHandler`, `overrideSetupSignals`, `restoreSignalHandler`, `signalHandler`, `exitWithDefaultSignalHandler` | order of set-up calls; which thread a signal reaches | a caught signal is flushed and re-emitted to the previous handler |
| `loglevels.*` | a map from level to status | `addLogLevel`, `set`, `setHighest`, `logLevel` | lookups insert, without a lock; loops over all levels while others log | each level has the status last asked for, also during such a loop |
| `filesink.*`, `filerotatesink.*`, `filerotatewithfiltersink.hpp`, `filesinkhelper.*` | the open stream, its buffer and error state, the size of the file, archives, flush counter | write, rotate, change file, expire archives | failure half way through a rotation; archives that cannot be deleted; a full device; names and counts of archives | no message lost; the newest archives are kept |
| `ColorCoutSink.*` | a scheme from level to attributes, the console's own attributes, a flag for the second sink | print, set, merge, replace and reset schemes | schemes are functions applied over many calls; a console is shared state | each entry looks as asked and is whole; the terminal is left as it was |
| `logcapture.cpp`, `logmessage.*` | the text of an entry | `capturef`, `toString`, copies | texts pass as C strings through fixed buffers | what was logged is in the text |
| `crashhandler_windows.cpp`, `stacktrace_windows.cpp` | actions of signals, some per thread; the filter and a vectored handler of exceptions; `gBlockForFatal`; a counter per thread and a mutex in `stackdump` | install, restore, three handlers, `exitWithDefaultSignalHandler` | handlers lead into one another, and take themselves away before anything is flushed | a crash is flushed before the process ends, and the process ends |
| `time.*`, `format_string.*`, `stlpatch_future.hpp` | none | formatting | | |

Calls go down: a `LOG` call (`~LogCapture` -> `saveMessage`) reads the global
pointer and calls `LogWorker::save` or `fatal`, which `send` a task to the worker;
the task `send`s a copy of the message to every sink. Going up, the destructor of
the LogWorker clears the global pointer, `bgFatal` calls into the crash handler,
and the crash handler makes a fatal `LOG` call.

## The modules

| Module | Models | State and actions |
|---|---|---|
| `SharedQueue` | `shared_queue` | One action per critical section; `notify_one` and each wakeup are steps of their own. `pushed` and `taken` are histories. |
| `Active` (extends `SharedQueue`) | `Active`, `spawn_task` | Each action is a step of the queue with what `run`, `send` or the destructor does around it; `future` holds the shared state of each task's future. |
| `ActiveObject` | what an active object promises | Tasks accepted, how many have run, open/closing/closed; no threads. |
| `ActiveRefinement` | `Active` implements `ActiveObject` | The refinement mapping. |
| `LogWorker` | `LogWorker`, `Sink<T>`, `SinkHandle<T>` | One action per call of a client, per return of its wait, per task of the worker, per task of a sink, and per release of a shared_ptr. Worker and sinks are in the form of `ActiveObject`. |
| `G3log` | the globals of `g3log.cpp` | One step per access to shared state in `saveMessage`, `pushMessageToLogger`, `pushFatalMessageToLogger`, `initializeLogging` and the destructor; a LogWorker is the messages it accepted and how many it ran. |
| `CrashHandler` | `crashhandler_unix.cpp` | Set-up calls on dispositions and saved actions, delivery of a signal to a thread, the fatal exit. |
| `LogLevels` | `loglevels.cpp` | The map from level to status; one action per call, and one per element for the loops of `setHighest`, `enableAll` and `disableAll`. `wanted` is what the calls so far have asked for. |
| `FileNames` | the first part of `filesinkhelper.cpp` | Operators on names as sequences of characters: cleaning of prefixes and paths, names of logs and archives, and which names `getDateFromFileName` takes. |
| `LogFile` | the stream of the file sinks | The record `s` holds a sink, its stream (open, badbit, buffer) and the files; writing, flushing, opening and closing are operators from such a record to the next. Environment: the device, the clock, the stream's own flush. |
| `FileRotateSink` (extends `LogFile`) | `filerotatesink.cpp`, `expireArchives`, `FileRotateWithFilter` | Each function of the source is an operator, which a call composes; a rotation is the set of sinks it may end with, as each file operation may fail, the deletion of each archive included; `stuck` keeps the archives that the last rotation could not delete. |
| `FileSink` (extends `LogFile`) | `filesink.cpp` | The same for the simpler sink. |
| `FileSinks` | a process with one of the two | Init and Next choose the class; restarts go on with the same files. |
| `LogMessage` | `logcapture.cpp`, the text part of `saveMessage` and `bgFatal`, `logmessage.cpp` | A text is a sequence of pieces in which only the end of a line and a Nul are characters; no state. |
| `ColorCoutSink` (extends `LogMessage`) | `ColorCoutSink.*` | A sink is its scheme and what it is printing; the terminal is what the next character will look like. `asked` is what the program has asked for, `piece` the entry printed last. |
| `CrashHandlerWindows` | `crashhandler_windows.cpp`, `stacktrace_windows.cpp` | Each thread has a stack of frames: the call, signal or exception it is in the middle of, and where in its handler it is. Actions follow one frame through `stackdump`, the fatal LOG call and the release, and an exception through the handlers that the system asks. |
| `ActiveProofs`, `LogWorkerProofs`, `G3logProofs`, `CrashHandlerProofs`, `LogLevelsProofs`, `FileSinksProofs`, `ColorCoutSinkProofs`, `CrashHandlerWindowsProofs` | the module in their names, `ActiveProofs` also `SharedQueue` | Inductive invariants, theorems and their proofs. |
| `MC...` | | Model values, symmetry and bounds for TLC. |

Names follow the source. In `LogWorker`, ownership is not a counter: `Owned(k)`
says that `_sinks`, a queued task or a thread (`held`) has a `shared_ptr` to
the sink, and `Release` runs `~Sink` exactly when the last one goes, on the
thread where it goes. `removeSink` includes the temporary `shared_ptr` of
`SinkHandle::sink`. History variables (`saved`, `got`, `due`, `foreign`,
`member`, `home`, `stored`, `disorder`, `lost`, ...) record what clients know; no guard of a
handler depends on them, except that each message, sink and hook is used once.

Several definitions are preceded by a variant called a mutant (`PushSilently`,
`Detach`, `NotErased`, ...): a plausible error in that code. With the variant in
place of the definition the property named in `PROJECT.json` fails, which shows
that the property depends on the code.

## The runs

Runs that hold:

| Configuration | Question | Bounds |
|---|---|---|
| `MCSharedQueue` | `WakeupsCoverItems`, `Fifo`, `NoThreadLeftWaiting` | 3 threads, 3 items: two sleepers and a pusher, or two pushers whose notifications overtake each other |
| `MCActive` | order, flush, broken promises, `ActiveInv`; futures complete, refinement of `ActiveObject` | worker, owner, another client; three tasks and the destructor's: before, during and after it |
| `MCLogWorkerSinks` | `ContiguousLog`, `NothingOutsideMembership`, `FatalFlushes` | 2 clients, 2 sinks, 2 messages; no calls through handles |
| `MCLogWorkerCalls` | `OwnedIffAlive`, `FlushedWhenDestroyed`, `RemovalIsSynchronous`, `CallsReturn`, `FatalExits` | 2 clients, 1 sink that may crash, 1 message, 2 calls through the handle or hot updates |
| `MCG3logFatal` | `HookRunsAtMostOnce`, `RecursiveCrashIsFlagged`, `FatalCallsEndTheProcess` | 2 threads, 1 LogWorker, 2 fatal messages, 1 hook that may crash |
| `MCG3logInit` | `NeverReplaced`, `SentOnceAndFirstOneFirst`, `NoCallIntoTheVoid`, `ReachesItsLogger` | 2 threads, 2 LogWorkers that come and go, 2 messages and a fatal one |
| `MCCrashHandler` | `ReemittedToPreviousHandler`, `OnlyItsOwnSignals`, `CaughtSignalEndsProcess` | 2 signals, 3 threads, 5 set-up calls in any order, each signal with or without a handler of the program |
| `MCLogLevels` | `StatusAsWanted`, `NoGlitch` | the four default levels and two of the program, in between; any sequence of calls |
| `MCFileSinks` | `NothingLost`, `FlushPolicyKept`, `WritesThrough`, `LimitKept`, `RotatesOutOfErrors`, `NewestStay` | 5 messages, 2 processes with 2 rotations each, one call or device failure between them, any deletion of an archive that fails, a clock of 2 values, 2 values for each limit; two logs, of which one confuses archives of the other with its own and is in a directory that is not found |
| `MCColorCoutSink` | `ShownAsAsked`, `PrintedWhole`, `ConsoleRestored` | 2 sinks, on any of the streams, terminal or not, with escape sequences or a Windows console; 3 schemes, 2 sets of colours that a console has at first (one with the reverse bit and another that no Setting names), 8 kinds of entries, 2 calls that change a scheme |
| `MCCrashHandlerWindows` | `RaisedWithDefaultAction`, `CoveredUntilRestored`, `FlushedBeforeTheEnd`, `FatalEventEndsTheProcess` | 2 threads and the LogWorker's, a signal of the process and one of each thread, an exception that g3log knows and one it does not, 2 fatal events, handlers two deep, installed once more or not |

Type invariants are stated in the modules and proved, but for those of the file
sinks. The runs spend their time on the other properties. Every race found so far
needs two threads that overlap in one call, so two or three threads, one or two
messages and one or two objects of a kind reach all cases the code
distinguishes; `MaxCalls` bounds only calls that would otherwise grow a queue
or a scheme without end. Each message, sink and hook is used once, which bounds the rest.
Deadlock is checked for the queue, where a thread may always spuriously wake, and
is no question in the sequential modules; elsewhere a program may stop logging,
and the process ends. What must not stop is stated as liveness. Symmetry is used only
in runs without liveness.

A run in which a comment of the source is refuted:

| Configuration | What the source says | What the code does |
|---|---|---|
| `MCLogWorkerSinkFatal` | a thread that causes a fatal message sleeps "until the application has exited" (`g3log/logmessage.hpp:141-142`) | a sink's thread sleeps while `bgFatal` joins it |

Where the code keeps less than one might expect, the property that holds says so:

* `FatalFlushes` leaves out a sink that a client shares through its handle or is
  destroying itself: `_sinks.clear()` in `bgFatal` does not join it.
* `CallsReturn` and `FatalExits` leave out a sink that
  crashes on its own thread, which is what `MCLogWorkerSinkFatal` is about.
* `FatalCallsEndTheProcess` leaves out a call of the empty `std::function` that
  `g_fatal_pre_logging_hook` is until the first `initializeLogging` (`threw`,
  `MCG3logEmptyHook`), and a call through a pointer that has become null counts as an end.
* `CaughtSignalEndsProcess` leaves out a fatal event on the LogWorker's own thread:
  it queues the fatal task to itself and sleeps (`MCCrashHandlerWorker`).
* `StatusAsWanted` leaves out INFO once an unknown level was logged: the element
  inserted for that level stands for INFO, so `setHighest` switches INFO by the key
  of the other level (below the limit or not; `MCLogLevelsUnknown`).
* `NoCallIntoTheVoid` and `ReachesItsLogger` hold unless a LOG call overlaps a
  change of the active LogWorker (`disorder`): the pointer is tested and used
  without a lock (`MCG3logGoneWorker`, `MCG3logFirstMessage`).
* The properties of `CrashHandler` leave out an `overrideSetupSignals` before the
  first `initializeLogging` (`twice`): handlers are then installed over themselves,
  and a fatal exit re-emits the signal into `signalHandler` (`MCCrashHandlerTwice`).
* `NothingLost` and `NewestStay` hold until local time goes back or
  a process restarts within the second of an archive (`disturbed`): then names of
  archives repeat or sort wrongly. A message written while no file is open is lost
  (`lost`), and no error is reported; `NothingLost` adds that this happens only
  after a rotation in which the second attempt to open a file failed too.
* `NewestStay` counts an archive that cannot be deleted as the code does: `remove` fails
  silently, so the rotation deletes no other one in its place, and the number to keep is
  exceeded by the archives that are stuck, which the next rotation tries again. Newer
  surplus archives go while an older one is stuck.
* `NewestStay` speaks of the archives that `expireArchives` takes for those of one log:
  besides its own they are archives whose names are confused (a log `0` takes
  archive number 10 of a log `2` for its own: `getDateFromFileName` looks for the
  name anywhere, and reads what follows its length). It takes the oldest of these, so
  that of another log, of which it takes only some, an archive may go while older ones of
  that log stay. Left out are logs whose archives are never found: a directory with a trailing
  blank, with backslashes or "", or a name with a slash.
* `RotatesOutOfErrors`: a full device sets badbit, and `std::flush` does nothing
  on such a stream. `FileRotateSink` gets out of it with the next rotation, because
  refused messages count; `FileSink` stays silent until `changeLogFile`. While
  the device is full, each rotation makes an archive of little text that pushes
  older ones out.
* A rotation that cannot open the new file and then succeeds does not reset
  `cur_log_size_`, so the next message rotates again; the archive without
  messages counts as one of those to keep.
* `PrintedWhole` compares with the text as a C string: what the program logs after
  a Nul is gone in `saveMessage`, and on Windows a formatted message that is too
  long for the buffer of `capturef` is reported as one that cannot be parsed.
* `ColorCoutSink`: on a console without escape sequences a second sink aborts the
  process, also when the first one is gone (`ShownAsAsked` needs no more than the
  former).
* `FlushedBeforeTheEnd` is about one crashing thread: it takes the handlers away
  first and flushes later, so a second thread that crashes in between ends the
  process with nothing written (`MCCrashHandlerWindowsTwo`). It also leaves out a fault inside a stack dump,
  and a crash after an exception for which there was no LogWorker: the latter sets
  `gBlockForFatal` to false for good, and later fatal calls do not wait.
* `RaisedWithDefaultAction` and `FatalEventEndsTheProcess` leave out a thread whose
  first LOG call comes after the restore (`late`): it installs the SIGABRT handler of
  the process again, and the LogWorker's thread then waits for itself
  (`MCCrashHandlerWindowsLate`).
  `installCrashHandler` called a second time makes the filter its own predecessor
  and leaves a vectored handler that is never removed.

The cases that the properties leave out are real. For each that a text of the
repository speaks of there is a configuration besides the runs, with the model of the
run and one property that says what the text says; TLC finds it violated within seconds:

| Configuration, property | What the text says | What the code does |
|---|---|---|
| `MCG3logGoneWorker`, `NoCallAfterShutDown` | shutting down in `~LogWorker` ensures "that no further LOG(...) calls can happen to a non-existing LogWorker" (`g3log.cpp:153-154`) | a call that has tested the pointer (line 242) goes on to `save` of one that is gone (line 255) |
| `MCG3logOtherWorker`, `OthersStayActive` | shutting down another LogWorker than the active one "is just ignored and the logging continues to be active" (`g3log.cpp:155-156`) | the test (line 160) is made without the mutex: a LogWorker that becomes active behind it is shut down |
| `MCG3logFirstMessage`, `UninitializedNeverCrashes` | "Uninitialized messages are ignored but does not CHECK/crash the logger" (`g3log.cpp:240`) | `initializeLogging` moves the first one away while its thread still uses the pointer (line 245) |
| `MCG3logEmptyHook`, `HookDoesNothingByDefault` | the fatal hook "default does nothing" (`g3log.cpp:102`) | before `initializeLogging` it is an empty `std::function` (line 50), whose call throws |
| `MCLogLevelsUnknown`, `SetHighestAsDocumented` | `setHighest` disables lower levels and enables others (`g3log/loglevels.hpp:171-172`) | after a LOG call of an unknown level (`loglevels.cpp:169`) INFO is switched by the key of that level |
| `MCCrashHandlerTwice`, `AlwaysReemitted` | g3log "re-emits the fatal signal after it has restored the previous signal handler" (`API.markdown:334`) | `overrideSetupSignals` before `initializeLogging`: the previous handler is `signalHandler` (`crashhandler_unix.cpp:161`) |
| `MCCrashHandlerWorker`, `SleepsUntilExit` | as for `MCLogWorkerSinkFatal` | a fatal signal that reaches the LogWorker's thread puts it to sleep (`g3log.cpp:273`), and nobody is left to exit |
| `MCCrashHandlerWindowsLate`, `ExitsThroughTheSignal` | "for a signal however, we exit through that fatal signal" (`crashhandler_windows.cpp:180`) | a first LOG call between restore and raise installs the handler again (`logcapture.cpp:43`); the LogWorker's thread then waits for itself |
| `MCCrashHandlerWindowsTwo`, `ExitsAfterFlush` | as for `MCLogWorkerSinkFatal` | a second thread that aborts while the message of the first is queued finds the default action, and the process ends before the flush |

Their bounds are those of the run of the same module or smaller.
`MCCrashHandlerWorker` and `MCCrashHandlerWindowsLate` end in a state in which every
thread of g3log sleeps or waits, under the fairness below.

## Fairness

Weak fairness on the steps of a thread that is inside a call or has work: the
scheduler runs every thread, mutexes are released after a few instructions, and
tasks and user callbacks return (a client that never returns can stop any
logger). No fairness on calls of the program, on spurious wakeups, on `try_and_pop`
or on signals. On Windows a thread inside a handler and the LogWorker's thread go on;
a thread that locks the mutex of `stackdump` twice need not. In `NoThreadLeftWaiting` the conclusion is that a thread gets
out or finds the queue empty again and again; a thread may be overtaken forever,
as the code allows.

## What is proved

The theorems hold for every value of the constants that the `ASSUME` of a module
allows: any threads, clients, sinks, messages, hooks, signals, levels, limits and
policies, and any bounds on calls. Most are about `SafeSpec`, the specification
without fairness, as safety needs none. A module of proofs starts with the inductive
invariant, one named part per idea, then has one lemma per part or per kind of step,
then the theorems. A property that a run checks is proved as it is stated there; the
exceptions are said below.

| Property | Theorem | Why it is not inductive as it stands |
|---|---|---|
| `Fifo`, `WakeupsCoverItems` | `FifoHolds`, `NoLostWakeup` | They are, with the type invariant. |
| `ActiveInv`, `RunsInSendOrder` | `ActiveInvariant`, `RunsInSendOrderHolds` | The order says nothing of the task in hand, nor of where the destructor's task is. |
| safety of the refinement of `ActiveObject` | `ActiveImplementsActiveObject` | What has run is a prefix of what was accepted only if the destructor sent its task before it closed. |
| `OwnedIffAlive`, `FlushedWhenDestroyed`, `RemovalIsSynchronous`, `NothingOutsideMembership`, `FatalFlushes`, `ContiguousLog` | `LogWorkerProofs` | They relate a sink to messages, and nothing to the two queues between these. |
| `HookRunsAtMostOnce`, `RecursiveCrashIsFlagged`, `NeverReplaced`, `SentOnceAndFirstOneFirst`, `NoCallIntoTheVoid`, `ReachesItsLogger` | `G3logProofs` | They say nothing of what a thread has read and not used yet. |
| `ReemittedToPreviousHandler`, `OnlyItsOwnSignals` | `CrashHandlerProofs` | They say nothing of the saved actions. |
| `StatusAsWanted`, `NoGlitch` | `LogLevelsProofs` | They say nothing of a loop half way through. |
| `FlushPolicyKept`, `WritesThrough`, `LimitKept`, `RotatesOutOfErrors`, `NothingLost`, `NewestStay` | `FileSinksProofs` | They depend on counters that other calls reset, on the names of the archives and on the order in every file. |
| `ConsoleRestored`, `PrintedWhole`, `ShownAsAsked` | `ColorCoutSinkProofs` | They say nothing of how many sinks there are, of what `initWin` has read, nor of the levels that are not being printed. |
| `RaisedWithDefaultAction`, `CoveredUntilRestored`, `FlushedBeforeTheEnd` | `CrashHandlerWindowsProofs` | They say nothing of the frames below the top of a stack, nor of where the sender of a message is. |

* `ActiveProofs`, the queue: when a thread sleeps, the queue is no longer than the set of
  threads that are between `push` and `notify_one` or about to lock. A push adds an
  item and a notifier; a notification replaces the notifier by a woken thread; a pop
  takes one item and one popper; `Block` happens only on an empty queue.
* `ActiveProofs`, the active object: `QueueOfActive` lifts these to `Active`, because each step of
  `Active` is a step of its queue or leaves it alone. `ActiveInv` has two cursors over
  the sequence of pushes - those finished, the one in hand, those queued - and says
  that exactly the finished tasks have a result, that `done_` means that the last
  task taken was the destructor's, and that before that no finished task was. With
  it and `DestructorSentDone`, `ActiveImplementsActiveObject` shows that under the
  mapping of `ActiveRefinement` a `Send` is a `Submit`, the end of a task a `Run`, the
  destructor's push a `Close`, and all else is hidden. `FlushedAtJoinHolds` and
  `NoFutureLeftPendingHolds` are consequences that no run checks apart from `ActiveInv`.
* `LogWorkerProofs`: the invariant follows a sink from its `addSink` through the vector
  and the hands of the threads to its removal and the join of its thread, and a
  message from the log through the queue of the worker and the queue of a sink to the
  sink. `ContiguousLog` is `ChainInv`: the messages in the worker's queue, in a sink's
  queue and in the sink are neighbouring pieces of the log, given by three cursors;
  a copy moves one of them, a removal stops the last one for good.
* `G3logProofs`: a hook, and a message, is in one place at a time - the global, a
  thread's local variable, or used (`HookInv`, `SentInv`); the mutex keeps the life of a
  LogWorker to one thread (`MutexInv`, `WorkerInv`); and as long as no call overlaps a
  change of the active LogWorker, what a LOG call has read still holds when it uses it
  (`AloneInv`, `OrderInv`, `HomeInv`).
* `CrashHandlerProofs`: where `signalHandler` is installed a saved action exists, and it is
  another handler (`SavedIsAnother`); from the restore to the kill no signal is handled
  by g3log (`ReadyToKill`). Both fail for the set-up calls that `twice` excludes.
* `LogLevelsProofs`: a loop over the map leaves what it has passed as it was asked for,
  and what it does to the rest makes that so; only an element for an unknown level
  can disturb one that was set, and only INFO.
* `FileSinksProofs`: a call composes operators from sinks to sinks, so there is one lemma for
  each operator, and the theorems follow the composition of the source. The limit
  holds because `cur_log_size_` is at least the size of the file while the stream is
  good and the last rotation succeeded - after a failed one it is not, which is why
  `LimitKept` has `failed`. What badbit turns away is at most the counted size and one
  more, which bounds the losses after a full device. The counter of the flush policy and
  the buffer are reset together. For the messages, each operator is shown to move them
  between files, archives, buffer and losses; an archive replaces no other because
  the pair of local time and number of the next one is new (`ArchivesInv`), until the
  clock goes back or a process restarts within a second. The order of `NothingLost` is a
  second invariant, `OrderInv`, over the first: `AddsOnly(t, u, new)` says that under each
  path u has what t has, in the same order, with `new` behind it. Every operator
  is shown to be of this kind, with at most the message being written as
  `new`, and the rename of a rotation moves a file behind all archives of its path.
  As messages are numbered as they are accepted, what is written last is above all that
  the sink holds. For `NewestStay` (`ExpiresTheOldest`) the names are read character by
  character: `TakenMeans` says exactly which names `getDateFromFileName` takes - those in the
  directory of the log that are the log's own, or of its length and with an ending that
  ends with the log's name - and that the length of a number does not matter for the former, nor the
  date for either. A third invariant, `NamesInv`, says that no two archives have one time and
  number, so the map that `expireArchives` makes drops none. The surplus - what a rotation deletes and what it fails to delete - then is
  older than all else and leaves exactly the number to keep (`SurplusResult`: the least and the greatest
  element of a finite set stand for the induction over the sorted map), and `OrderInv` turns
  older names into messages that were written before.
* `ColorCoutSinkProofs`: the text of an entry is, piece by piece, what g3log adds before it, the
  C string of what was logged, and what g3log adds behind it (`ToStringResult`); so there is no Nul
  in it, the reset that follows it is printed, and a terminal that takes escape sequences is plain
  again. On a console without them the flag admits one sink ever (`OnlyOne`), which
  restores what `initWin` has read of its stream (`PlatformInv`), as it colours only a
  stream that is a terminal (`SinksInv`). For `ShownAsAsked` (`LooksInvariant`) a level has
  what its Settings since the last reset ask for: `Fits` relates its Attributes to these,
  `FitsOneMore` keeps that for one manipulator, and `MatchesMore` for a fold over any number of them, merged with earlier ones or not (`SchemeResult`). The WORD of a console is
  taken apart into the two grounds, the two bits and the rest (`IsWord`), which the manipulators
  change one at a time while `MeantOnConsole` puts them together at once (`MeantWordAppend`). What the
  escape sequences do to a plain terminal is a fold too (`ShownResult`). The library's
  theorems on induction and folds take operators as parameters; here the function that a fold
  is computed with is shown to exist (`FoldExists`), and the steps are
  followed up to the least number at which they would go wrong.
* `CrashHandlerWindowsProofs`: a step changes the stack of one thread in one of a few ways
  (moves the top frame, adds one, closes one, unwinds), and the actions of signals in
  one of four; each part of the invariant follows from these. Only the owner of the
  mutex of `stackdump` walks, and in one frame; a thread that is about to raise has
  restored, and until a restore exceptions reach a handler only during a walk. Until a
  message is flushed, nothing has exited and so each sender of a queued message is
  still blocked (`QuietInv`, `WaitInv`): what ends the process is another thread,
  and it has crashed too, which is `FlushedBeforeTheEnd`.

The assumptions are those of the modules. They say that names that play different parts
are different, that sets that are counted are finite, that bounds and limits are
numbers, that a date is one character that is neither a dot nor a slash and a number a sequence
of digits, that no log has a date in its own name, that neither the pieces that g3log adds to a text nor the names of levels and
the texts of expressions contain Nul (messages may), that Settings are the manipulators of
`termcolor` (`SettingsAssumption`: a program could write others), and that the attributes of a console have 16 bits.

Only model-checked:

* Liveness: `NoThreadLeftWaiting`, `EveryFutureCompletes`, `CallsReturn`, `FatalExits`,
  `FatalCallsEndTheProcess`, `CaughtSignalEndsProcess`, `FatalEventEndsTheProcess`, and
  the progress that `ActiveObject` promises. The prover has neither fairness nor ENABLED.
* That the fields of the records of the file sinks keep their types (`TypeOK` of `FileSinks`
  documents them) is neither checked nor proved as one statement. What the proofs need of it
  is in `SinkInv` and `NamesInv` (`IsStream`, `IsRotateSink`, `IsFileSink`, `LogOK`, `Named`).

No module with a theorem declares or reaches a RECURSIVE operator.

## What is not modelled, and why

* Wording: dates, stack dumps, the names of signals and exceptions. A date is one
  character (the constant `Date`), what `operator<<` writes for a number is the constant
  `Decimal`, and `strptime` is taken to read what `put_time` wrote. A log with a date in its own
  name is not modelled.
* Time formatting and `format_string`: they keep no state, and the library never
  calls the latter.
* What the streams do is taken from their documentation: a coloured text is one
  write, the console of Windows is written to at once, and `std::flush` on a
  bad stream does nothing.
* `setFatalExitHandler` during a fatal call.
* Data races on non-atomic objects other than the pointer and the first message:
  `done_` is written and read by one thread; `gSavedSigActions`, the fatal
  handler and the map of levels are not protected, and their calls are modelled apart
  from those they race with. A signal handler that interrupts a thread holding a
  lock is not modelled yet.
* A sink that calls the LogWorker from its own callback.
* Allocation failures and exceptions out of user callbacks.
* On Windows: crashes in the LogWorker's own tasks, handlers that the program
  installs besides g3log's, and builds without vectored handlers.
* Manipulators of the program's own in a scheme, and a console without a handle.

Where a step of the model is coarser than the code:

* `FileRotateSink`, `FileSink`: a constructor that cannot open its file is stopped by an
  `assert`; in a build without assertions it would go on with a null stream. The model
  begins with a file that is open.
* `FileNames.Exists`: a directory "/" is emptied by the cleaning, which then looks at
  its first character; it is not among the directories of a run. Backslashes are taken as on Unix.
* `G3log.ShutDownCheck` reads the pointer once (the code twice), `LogWorker.Spawn` reads
  `_bg` and sends in one step, and `CrashHandlerWindows.Dump` counts and locks in one step: what may
  come in between has its step before or after.
* `LogLevels` has one loop over the levels at a time, and no other writer during it: two
  that run together race on the statuses, and the level has that of either.
* `ColorCoutSink` writes a text at once; characters of two sinks on one terminal do not
  mix.

## Plan

1. Done: `SharedQueue` and `Active` with their proofs, `ActiveObject` and the
   refinement, `LogWorker` on top of it, `G3log`, the crash handlers of both
   systems, `LogLevels`, the file sinks with their names and streams,
   `ColorCoutSink` with the texts of entries.
   All safety properties of the runs that hold are proved.
2. Proofs that are left: type correctness of the file sinks.
3. Left to model: a signal that interrupts a thread inside `push`, sinks that call
   the LogWorker from their own callbacks.
