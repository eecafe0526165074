-------------------------------- MODULE FileSink -------------------------------
(******************************************************************************)
(* The sink that writes a log file and flushes each message:                  *)
(* src/src/filesink.cpp.  The name of a file has the second in which it was   *)
(* opened, so that a file opened twice in a second is continued.              *)
(******************************************************************************)
EXTENDS LogFile

CONSTANTS LogPrefixes,  \* log_prefix of the constructor
          Dirs,      \* log_directory of the constructor, directory of changeLogFile
          Ids        \* logger_id

ASSUME FileSinkAssumption == \A prefix \in LogPrefixes : prefixSanityFix(prefix) # <<>>

FileSinkOK ==
   /\ s.prefix \in {prefixSanityFix(prefix) : prefix \in LogPrefixes}  \* _log_prefix_backup
   /\ s.first \in BOOLEAN                                           \* _firstEntry

(* The constructor: if the file cannot be opened it tries the directory that   *)
(* the process is in, and aborts if that fails too.                            *)
FileSinkConstructed(t, prefix, dir, id, succeeds) ==
   LET file == createLogFileName(prefixSanityFix(prefix), id, clock)
       path == IF succeeds THEN pathSanityFix(dir, file) ELSE <<".", "/">> \o file
   IN [Replaced(t, path) EXCEPT !.prefix = prefixSanityFix(prefix), !.first = TRUE]

FileSinkInit ==
   /\ clock = 0 /\ log = NewHistory
   /\ \E prefix \in LogPrefixes, dir \in Dirs, id \in Ids, succeeds \in BOOLEAN :
         s = FileSinkConstructed(NewSink([kind |-> "FileSink", prefix |-> prefix, first |-> TRUE]),
                                 prefix, dir, id, succeeds)

(* fileWrite.  Mutant: no flush. *)
FileSinkWrittenOnly(t, m) == Put([(IF t.first THEN Put(t, Header) ELSE t) EXCEPT !.first = FALSE], m)
FileSinkWritten(t, m) == 
   Flushed(Put([(IF t.first THEN Put(t, Header) ELSE t) EXCEPT !.first = FALSE], m))

FileSinkWrite ==
   LET m == log.accepted + 1 IN
   /\ m \in Messages
   /\ log' = [log EXCEPT !.accepted = m]
   /\ s' = FileSinkWritten(s, m)
   /\ UNCHANGED clock

(* changeLogFile, which joins directory and name as they are.  The header is   *)
(* written at once and again with the first message.                           *)
FileSinkChanged(t, dir, id, succeeds) ==
   LET path == dir \o createLogFileName(t.prefix, id, clock)
   IN IF succeeds THEN Put(Put([Replaced(Put(t, Change), path) EXCEPT !.first = TRUE], Note), Header)
                  ELSE Put(t, Refusal)

FileSinkChangeLogFile ==
   /\ Called
   /\ \E dir \in Dirs, id \in Ids, succeeds \in BOOLEAN :
         s' = FileSinkChanged(s, dir, id, succeeds)
   /\ UNCHANGED clock

(* The destructor or the end of the process, then a new sink. *)
FileSinkRestart(killed) ==
   /\ log.starts < MaxStarts
   /\ log' = [log EXCEPT !.starts = @ + 1]
   /\ \E prefix \in LogPrefixes, dir \in Dirs, id \in Ids, succeeds \in BOOLEAN :
         s' = FileSinkConstructed(IF killed THEN Killed(s) ELSE Closed(Flushed(Put(s, Bye))),
                                  prefix, dir, id, succeeds)
   /\ UNCHANGED clock

FileSinkNext == FileSinkWrite \/ FileSinkChangeLogFile \/ \E killed \in BOOLEAN : FileSinkRestart(killed)

--------------------------------------------------------------------------------
(* A FileSink keeps no message back: whatever happens to the process and to    *)
(* the files, a message that it was given is on the device, unless the device  *)
(* was full.                                                                   *)
WritesThrough == s.kind = "FileSink" /\ ~log.full => s.lost = {} /\ MessagesIn(s.buf) = {}
================================================================================
