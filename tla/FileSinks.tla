-------------------------------- MODULE FileSinks ------------------------------
(******************************************************************************)
(* A file sink of either class with its device and its clock, through several *)
(* processes that go on with the files of the ones before.                    *)
(******************************************************************************)
EXTENDS FileRotateSink, FileSink

Init == RotateInit \/ FileSinkInit

Next == \/ s.kind = "FileRotateSink" /\ RotateNext
        \/ s.kind = "FileSink" /\ FileSinkNext
        \/ Environment

Spec == Init /\ [][Next]_vars

TypeOK == StreamOK /\ HistoryOK /\ (IF Rotates THEN RotateOK ELSE FileSinkOK)

--------------------------------------------------------------------------------
OnDisk == (UNION {MessagesIn(s.files[path]) : path \in DOMAIN s.files})
             \cup (IF Rotates THEN UNION {MessagesIn(a.text) : a \in s.archives} ELSE {})

Deleted == IF Rotates THEN s.expired ELSE {}
Ignored == IF Rotates THEN s.filter ELSE {}

(* Each message that the sink was given is somewhere. *)
Accounted == 1..log.accepted = OnDisk \cup MessagesIn(s.buf) \cup s.lost \cup Deleted
                                  \cup (Ignored \cap 1..log.accepted)

OpenUnlessRotationFailed == ~s.open => Rotates /\ s.failed

(* The file under a path, with what the stream still buffers for it. *)
TextUnder(t, path) == t.files[path] \o (IF path = t.path THEN t.buf ELSE <<>>)

(* Messages were written in the order of their numbers. *)
Ascending(text) ==
   \A i, j \in DOMAIN text : i < j /\ {text[i], text[j]} \subseteq Messages => text[i] < text[j]

Before(text, later) == \A m \in MessagesIn(text), n \in MessagesIn(later) : m < n

(* Under each path the archives from the oldest on and then the file have the  *)
(* messages in the order in which they were written.                           *)
InOrder ==
   /\ \A path \in DOMAIN s.files : Ascending(TextUnder(s, path))
   /\ Rotates => \A a \in s.archives :
         /\ Ascending(a.text)
         /\ a.path \in DOMAIN s.files => Before(a.text, TextUnder(s, a.path))
         /\ \A b \in s.archives \ {a} : a.path = b.path =>
               \/ Older(a, b) /\ Before(a.text, b.text)
               \/ Older(b, a) /\ Before(b.text, a.text)

(* Rotations, changes of file and restarts, with files that cannot be renamed  *)
(* or opened in between, lose no message that was written to an open file,     *)
(* unless it is killed in the buffer, expires with its archive or the device   *)
(* is full; only a rotation whose two attempts to open a file failed leaves    *)
(* none open; and reading the archives under a path in the order of their      *)
(* names and then the file gives messages once each and in the order in which  *)
(* they were written.                                                          *)
NothingLost == ~log.disturbed => Accounted /\ OpenUnlessRotationFailed /\ InOrder
================================================================================
