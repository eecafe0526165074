---------------------------- MODULE FileRotateSink -----------------------------
(******************************************************************************)
(* The sink that writes a log file and rotates it: src/src/filerotatesink.cpp *)
(* with the parts of filesinkhelper.cpp that it calls, and the filter of      *)
(* g3log/filerotatewithfiltersink.hpp in front of it.                         *)
(*                                                                            *)
(* A log is a directory, as the program spells it, with a name.  An archive   *)
(* is known by the path of its log, the local time and the number in its own  *)
(* name.  Each function of the source is an operator from the sink to the     *)
(* sink, which a call composes.                                               *)
(******************************************************************************)
EXTENDS LogFile

CONSTANTS Starts,    \* log_directory and log_prefix of the constructor, [dir, name]
          Changes,   \* arguments of changeLogFile, [dir, name]
          Sizes,     \* arguments of setMaxLogSize
          Counts,    \* arguments of setMaxArchiveLogCount
          Policies,  \* arguments of setFlushPolicy
          Filters    \* messages that the filter ignores

ASSUME FileRotateSinkAssumption == /\ Sizes \cup Counts \cup Policies \subseteq Nat
                                   /\ Filters \subseteq SUBSET Messages
                                   /\ \A start \in Starts : prefixSanityFix(start.name) # <<>>

Logs == [dir  : {start.dir : start \in Starts} \cup {change.dir : change \in Changes},
         name : {prefixSanityFix(start.name) : start \in Starts}
                   \cup ({change.name : change \in Changes} \ {<<>>})]

PathOf(l) == addLogSuffix(pathSanityFix(l.dir, l.name))
Paths == {PathOf(l) : l \in Logs}

(* A date in the name of a log itself is not modelled. *)
ASSUME LogsAssumption ==
   \A l \in Logs : /\ l.dir \in Seq(STRING) /\ l.name \in Seq(STRING)
                   /\ \A time \in 0..MaxClock : Date[time] \notin ToSet(l.name)

RotateOK ==
   /\ s.log \in Logs             \* log_directory_ and log_prefix_backup_
   /\ s.path \in Paths           \* log_file_with_path_
   /\ s.size \in Nat \cup {-1}   \* cur_log_size_
   /\ s.max \in Sizes            \* max_log_size_
   /\ s.count \in Counts         \* max_archive_log_count_
   /\ s.num \in 0..MaxNum        \* archive_unique_num_
   /\ s.policy \in Policies      \* flush_policy_
   /\ s.counter \in Nat          \* flush_policy_counter_
   /\ s.filter \in Filters       \* filter_
   /\ \A a \in s.archives : /\ a.path \in Paths /\ a.time \in 0..MaxClock
                            /\ a.num \in 0..MaxNum /\ a.text \in Seq(Items)
   /\ s.expired \subseteq Messages  \* history: deleted with an archive
   /\ s.failed \in BOOLEAN          \* history: the last rotation failed
   /\ \A a \in s.stuck : a.path \in Paths  \* history: what the last one could not delete

--------------------------------------------------------------------------------
(* setLogSizeCounter: seekp writes the buffer, tellp gives -1 without a file   *)
(* or after an error.  Mutant: a file that is opened is taken to be new.       *)
CountedAsNew(t) == [Flushed(t) EXCEPT !.size = 1, !.counter = t.policy, !.missed = 0]
Counted(t) == LET f == Flushed(t) IN
   [f EXCEPT !.size = IF f.open /\ ~f.bad THEN Len(f.files[f.path]) ELSE -1,
             !.counter = f.policy, !.missed = 0]

(* flushPolicy *)
PolicyApplied(t) == CASE t.policy = 0 -> t
                      [] t.policy > 0 /\ t.counter = 1 -> [Flushed(t) EXCEPT !.counter = t.policy]
                      [] t.policy > 0 /\ t.counter # 1 -> [t EXCEPT !.counter = @ - 1]

(* fileWriteWithoutRotate.  Mutant: what the stream refuses is not counted. *)
WrittenIfGood(t, item) == [PolicyApplied(Put(t, item)) EXCEPT !.size = IF t.bad THEN @ ELSE @ + 1]
Written(t, item) == [PolicyApplied(Put(t, item)) EXCEPT !.size = @ + 1]

(* changeLogFile: the new file is opened first, the old one is closed when     *)
(* outptr_ is assigned.                                                        *)
Changed(t, l, succeeds) ==
   IF succeeds THEN Counted(Put([Replaced(t, PathOf(l)) EXCEPT !.log = l], Header))
               ELSE Written(t, Refusal)

--------------------------------------------------------------------------------
(* The names, <<log, path, number>>, that expireArchives takes for those of     *)
(* archives of a log; the date in them does not matter.                        *)
IsTaken(l, path, num) ==
   /\ Exists(l.dir) /\ DirectoryOf(path) = pathSanityFix(l.dir, <<>>)
   /\ getDateFromFileName(addLogSuffix(l.name), BaseOf(path) \o ArchiveSuffix(0, num)) # {}
Takes == {key \in Logs \X Paths \X (0..MaxNum) : IsTaken(key[1], key[2], key[3])}

(* Comparator *)
Older(a, b) == a.time < b.time \/ (a.time = b.time /\ a.num < b.num)

(* The map that expireArchives makes: of two files with one key it has the one *)
(* that the directory lists first.                                             *)
Orders == {o \in [Paths -> 1..Cardinality(Paths)] : IsInjective(o)}
Found(t, order) == LET mine == {a \in t.archives : <<t.log, a.path, a.num>> \in Takes} IN
   {a \in mine : \A b \in mine : b.time = a.time /\ b.num = a.num => order[a.path] <= order[b.path]}

(* The first ones of the map go until count are left.  Mutant: the last ones. *)
SurplusFromTheEnd(t, found) == {a \in found : Cardinality({b \in found : Older(b, a)}) >= t.count}
Surplus(t, found) == {a \in found : Cardinality({b \in found : Older(a, b)}) >= t.count}

(* remove may fail for each of them, which counts as a deletion all the same. *)
Expired(t, surplus, gone) ==
   [t EXCEPT !.archives = @ \ gone, !.stuck = surplus \ gone,
             !.expired = @ \cup UNION {MessagesIn(a.text) : a \in gone}]
Expirations(t, order) ==
   LET surplus == Surplus(t, Found(t, order)) IN {Expired(t, surplus, gone) : gone \in SUBSET surplus}

(* archive_unique_num_++.  Mutant: it stays. *)
SameNumber(n) == n
NextNumber(n) == n + 1

(* rename replaces a file that has that name already. *)
Archived(t, num) ==
   LET old == {a \in t.archives : a.path = t.path /\ a.time = clock /\ a.num = num}
       new == [path |-> t.path, time |-> clock, num |-> num, text |-> t.files[t.path]]
   IN [t EXCEPT !.archives = (@ \ old) \cup {new}, !.files[t.path] = <<>>]

(* rotateLog: the sinks that it may end with.  The rename fails, or the new    *)
(* file cannot be opened, and a second attempt to open one may fail too; or    *)
(* both succeed and old archives go, except those that cannot be deleted.      *)
Rotations(t) ==
   LET closed == [Closed(t) EXCEPT !.num = NextNumber(@)]
       moved == Archived(closed, t.num)
       Failed(u) == {Opened([u EXCEPT !.failed = TRUE], t.path, again) : again \in BOOLEAN}
       created == Written(Changed([moved EXCEPT !.failed = FALSE], t.log, TRUE), Note)
   IN IF ~t.open THEN {[t EXCEPT !.failed = TRUE]}
      ELSE Failed(closed) \cup Failed(Changed(moved, t.log, FALSE))
              \cup UNION {Expirations(created, order) : order \in Orders}

--------------------------------------------------------------------------------
(* The constructor, of a process that can open its log (it aborts otherwise),  *)
(* and the limits that the program sets at once.                               *)
Constructed(t, start) ==
   Changed([t EXCEPT !.num = 0, !.failed = FALSE],
           [dir |-> start.dir, name |-> prefixSanityFix(start.name)], TRUE)

RotateInit ==
   /\ \E start \in Starts, max \in Sizes, count \in Counts, policy \in Policies, filter \in Filters :
         s = Constructed(
                NewSink([kind |-> "FileRotateSink", log |-> start, size |-> 0, max |-> max,
                         count |-> count, num |-> 0, policy |-> policy, counter |-> policy,
                         filter |-> filter, archives |-> {}, expired |-> {}, failed |-> FALSE,
                         stuck |-> {}]),
                start)
   /\ clock = 0 /\ log = NewHistory

(* save of FileRotateWithFilter, and fileWrite. *)
FileWrite ==
   LET m == log.accepted + 1 IN
   /\ m \in Messages
   /\ log' = [log EXCEPT !.accepted = m]
   /\ \/ m \in s.filter /\ UNCHANGED s
      \/ m \notin s.filter /\ s.size <= s.max /\ s' = Written(s, m)
      \/ /\ m \notin s.filter /\ s.size > s.max /\ s.num < MaxNum
         /\ \E t \in Rotations(s) : s' = Written(t, m)
   /\ UNCHANGED clock

RotateLog == /\ s.num < MaxNum /\ Called
             /\ s' \in Rotations(s)
             /\ UNCHANGED clock

ChangeLogFile(dir, name) ==
   /\ Called
   /\ \E succeeds \in BOOLEAN :
         s' = Changed(s, [dir |-> dir, name |-> IF name = <<>> THEN s.log.name ELSE name], succeeds)
   /\ UNCHANGED clock

SetMaxLogSize(max) == Called /\ s' = [s EXCEPT !.max = max] /\ UNCHANGED clock

SetMaxArchiveLogCount(count) == Called /\ s' = [s EXCEPT !.count = count] /\ UNCHANGED clock

(* Mutant: the counter goes on. *)
SetFlushPolicyOnly(p) == Called /\ s' = [Flushed(s) EXCEPT !.policy = p] /\ UNCHANGED clock
SetFlushPolicy(p) == Called /\ s' = [Flushed(s) EXCEPT !.policy = p, !.counter = p] /\ UNCHANGED clock

SetLogSizeCounter == Called /\ s' = Counted(s) /\ UNCHANGED clock

Flush == Called /\ s' = Flushed(s) /\ UNCHANGED clock

(* The destructor or the end of the process, then a new sink that goes on with *)
(* the files.  Within the second of an archive its number 0 is not new.        *)
RotateRestart(killed, start) ==
   /\ log.starts < MaxStarts
   /\ s' = Constructed(IF killed THEN Killed(s) ELSE Closed(Flushed(Put(s, Bye))), start)
   /\ log' = [log EXCEPT !.starts = @ + 1,
                         !.disturbed = @ \/ \E a \in s.archives : a.time = clock]
   /\ UNCHANGED clock

RotateNext == 
   \/ FileWrite \/ RotateLog \/ Flush \/ SetLogSizeCounter
   \/ \E change \in Changes : ChangeLogFile(change.dir, change.name)
   \/ \E max \in Sizes : SetMaxLogSize(max)
   \/ \E count \in Counts : SetMaxArchiveLogCount(count)
   \/ \E p \in Policies : SetFlushPolicy(p)
   \/ \E killed \in BOOLEAN, start \in Starts : RotateRestart(killed, start)

--------------------------------------------------------------------------------
ArchivesAt(t, path) == {a \in t.archives : a.path = path}
Rotates == s.kind = "FileRotateSink"

(* The file grows past the limit by one message only: a message is added to    *)
(* others if they were within the limit, whichever files were opened or found  *)
(* in the meantime, or if the rotation that was due failed.                    *)
LimitKept ==
   [][Rotates /\ log'.accepted # log.accepted =>
         LET text == s'.files[s'.path] \o s'.buf
         IN \/ log'.accepted \notin MessagesIn(text)
            \/ Len(text) - 1 <= s.max
            \/ Cardinality(MessagesIn(text)) = 1
            \/ s'.failed]_vars

(* "1 ... N means every x entry" (filerotatesink.hpp:14-16): what is buffered  *)
(* since the last flush, and would be lost with the process, is fewer than N   *)
(* messages at any time, through changes of the policy and of the file, unless *)
(* the device refused them.                                                    *)
FlushPolicyKept ==
   Rotates /\ s.policy > 0 => 
      /\ s.counter \in 1..s.policy
      /\ s.bad \/ Cardinality(MessagesIn(s.buf)) <= s.policy - s.counter

(* A device that was full costs a bounded number of messages after there is    *)
(* room again: what badbit turns away still counts towards the rotation that   *)
(* opens a new stream, so that at most the limit and two more are lost to it.  *)
RotatesOutOfErrors ==
   [][Rotates /\ s'.missed > s.missed => s.missed < s.max + 2]_vars

(* The names with which expireArchives takes an archive of one log for one of  *)
(* another: they are of one length, and ".arc" with the number of the archive  *)
(* ends with the name of the log.                                              *)
Confused(l, a) == 
   /\ DirectoryOf(a.path) = DirectoryOf(PathOf(l)) /\ Len(a.path) = Len(PathOf(l))
   /\ IsSuffix(l.name, <<".">> \o arc(a.num))

(* Only surplus archives are deleted, or tried to be: there are newer ones,    *)
(* enough to keep, that are taken for archives of the same log, and what is in *)
(* these was written later.  A rotation leaves no more than the number to keep *)
(* besides those that it could not delete itself, so that the next one tries   *)
(* them again.  Two cases are left out: archives of another log of which only  *)
(* some have names that are confused, and directories that expireArchives does *)
(* not find, because of how they are spelled or because the name has a slash.  *)
NewestStay ==
   [][Rotates /\ ~log'.disturbed =>
         LET rotated == s'.num > s.num /\ ~s'.failed
             refused == IF rotated THEN s'.stuck ELSE {}
             surplus == (s.archives \ s'.archives) \cup refused
             kept == {a \in s'.archives \ refused : a.path = s'.path \/ Confused(s'.log, a)}
         IN /\ \A old \in surplus :
                  /\ old.path = s.path \/ Confused(s.log, old)
                  /\ Cardinality(kept) >= s.count
                  /\ \A new \in kept : new.path = old.path =>
                        \A m \in MessagesIn(old.text), n \in MessagesIn(new.text) : m < n
            /\ rotated /\ Exists(s'.log.dir) /\ "/" \notin ToSet(s'.log.name)
                  => Cardinality(ArchivesAt(s', s'.path) \ refused) <= s.count]_vars
================================================================================
