------------------------------ MODULE LogMessage -------------------------------
(******************************************************************************)
(* The text of a log entry, from the LOG macro to what a sink prints:         *)
(* src/src/logcapture.cpp, saveMessage of g3log.cpp, bgFatal of logworker.cpp *)
(* and src/src/logmessage.cpp.                                                *)
(*                                                                            *)
(* A text is a sequence of pieces; Nul stands for a character '\0' and Nl for *)
(* the end of a line.  The other pieces are opaque: what the program wrote,   *)
(* and the parts that g3log adds, known by their names.                       *)
(******************************************************************************)
EXTENDS Integers, Sequences, SequencesExt, FiniteSetsExt

CONSTANTS MaxMessageSize,  \* finished_message_len: of the buffer of capturef
          Nul, Nl

(* Pieces that g3log adds to a text. *)
Truncated == "[...truncated...]"
ParseFailure == "ERROR LOG MSG NOTIFICATION: Failure to successfully parse the message"
StackDump == "STACKDUMP"
Exiting == "Exiting after fatal event"

(* The parts of the header, and what it says of a fatal entry. *)
Timestamp == "timestamp"
Where == <<"file", "->", "function", ":", "line", "] ">>
SignalReceived == "FATAL SIGNAL RECEIVED"
ExceptionReceived == "FATAL EXCEPTION RECEIVED"
ExitByLog == "EXIT trigger caused by LOG(FATAL) entry: "
ExitByContract == "EXIT trigger caused by broken Contract:"
UnknownType == "UNKNOWN or Custom made Log Message Type"

Added == {Truncated, ParseFailure, StackDump, Exiting, Timestamp, " ", "threadID", SignalReceived,
          ExceptionReceived, ExitByLog, ExitByContract, UnknownType} \cup ToSet(Where)

ASSUME LogMessageAssumption == /\ MaxMessageSize \in Nat \ {0}
                               /\ Nul # Nl /\ {Nul, Nl} \cap Added = {}

--------------------------------------------------------------------------------
(* Levels.  CONTRACT, FATAL_SIGNAL and FATAL_EXCEPTION are internal. *)
Level(value, name) == [value |-> value, text |-> name]
G3LOG_DEBUG == Level(100, "DBG")
INFO == Level(300, "INF")
WARNING == Level(500, "WRN")
FATAL == Level(1000, "FAT")
CONTRACT == Level(2000, "CONTRACT")
FATAL_SIGNAL == Level(2001, "FATAL_SIGNAL")
FATAL_EXCEPTION == Level(2002, "FATAL_EXCEPTION")

WasFatal(level) == level.value >= FATAL.value

(* What the program logs: with a stream or with a format, and for CHECK the    *)
(* text of the expression.                                                     *)
IsEntry(entry) ==
   /\ entry.level.value \in Nat /\ Nul \notin {entry.level.text, entry.expression}
   /\ entry.by \in {"stream", "printf"} /\ entry.valid \in BOOLEAN
   /\ entry.text \in Seq(ToSet(entry.text))

--------------------------------------------------------------------------------
(* LogCapture *)

(* What is left of a text that passes through a const char*. *)
CString(text) == LET ends == {i \in 1..Len(text) : text[i] = Nul}
                 IN IF ends = {} THEN text ELSE SubSeq(text, 1, Min(ends) - 1)

(* What of it fits into the buffer, with the end of the string. *)
Buffered(text) == SubSeq(text, 1, Min({Len(text), MaxMessageSize - 1}))

(* capturef: formatted is what the format and its arguments stand for, valid   *)
(* that they can be formatted at all.  vsnprintf reports a text that does not  *)
(* fit by its length; vsnprintf_s, on Windows, by -1, like a failure.          *)
Capturef(formatted, valid, windows) ==
   LET fits == Len(formatted) < MaxMessageSize
   IN CASE ~valid \/ (windows /\ ~fits) -> <<ParseFailure, Nl>>
        [] valid /\ ~fits /\ ~windows   -> CString(Buffered(formatted)) \o <<Truncated>>
        [] valid /\ fits                -> CString(formatted)

(* LOG, LOGF, CHECK and CHECKF: how the stream of a LogCapture gets its text.  *)
Captured(entry, windows) == CASE entry.by = "stream" -> entry.text
                              [] entry.by = "printf" -> Capturef(entry.text, entry.valid, windows)

(* A fatal entry has a stack dump. *)
StackTrace(level) == IF WasFatal(level) THEN <<Nl, StackDump>> ELSE <<>>

(* saveMessage, which copies the text as a C string.  Mutant: as it is. *)
SaveMessageAsIs(entry, text) == [level |-> entry.level, expression |-> entry.expression,
                                 message |-> text \o StackTrace(entry.level)]
SaveMessage(entry, text) == [level |-> entry.level, expression |-> entry.expression,
                             message |-> CString(text) \o StackTrace(entry.level)]

(* bgFatal adds a line to a fatal message before the sinks get it. *)
BgFatal(msg) == [msg EXCEPT !.message = @ \o <<Nl, Exiting, msg.level.text, Nl, Nl>>]

(* What the LogWorker sends to each sink. *)
Sent(entry, windows) == LET msg == SaveMessage(entry, Captured(entry, windows))
                        IN IF WasFatal(entry.level) THEN BgFatal(msg) ELSE msg

--------------------------------------------------------------------------------
(* LogMessage *)

(* The header of an entry, by the LogDetailsFunc in use. *)
DefaultLogDetailsToString(msg) == <<Timestamp, " ", msg.level.text, " ">> \o Where
FullLogDetailsToString(msg) == <<Timestamp, " ", msg.level.text, " ", "threadID", " ">> \o Where
LogDetails(func, msg) == CASE func = "Default" -> DefaultLogDetailsToString(msg)
                           [] func = "Full"    -> FullLogDetailsToString(msg)
LogDetailsFuncs == {"Default", "Full"}

NormalToString(msg, func) == LogDetails(func, msg) \o msg.message \o <<Nl>>
FatalSignalToString(msg) ==
   <<Timestamp, Nl, Nl, SignalReceived, Nl>> \o msg.message \o <<Nl>>
FatalExceptionToString(msg) ==
   <<Timestamp, Nl, Nl, ExceptionReceived, Nl>> \o msg.message \o <<Nl>>
FatalLogToString(msg, func) ==
   LogDetails(func, msg) \o <<Nl, ExitByLog, Nl>> \o msg.message \o <<Nl>>
FatalCheckToString(msg, func) ==
   LogDetails(func, msg) \o <<Nl, ExitByContract, msg.expression, Nl>>
      \o msg.message \o <<Nl>>
UnknownToString(msg, func) ==
   LogDetails(func, msg) \o <<UnknownType, Nl>> \o msg.message \o <<Nl>>

(* toString, by the value of the level. *)
toString(msg, func) ==
   LET value == msg.level.value
   IN CASE ~WasFatal(msg.level)             -> NormalToString(msg, func)
        [] value = FATAL_SIGNAL.value       -> FatalSignalToString(msg)
        [] value = FATAL_EXCEPTION.value    -> FatalExceptionToString(msg)
        [] value = FATAL.value              -> FatalLogToString(msg, func)
        [] value = CONTRACT.value           -> FatalCheckToString(msg, func)
        [] OTHER                            -> UnknownToString(msg, func)
================================================================================
