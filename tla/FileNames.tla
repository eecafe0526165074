------------------------------- MODULE FileNames -------------------------------
(******************************************************************************)
(* Names of log files: the first part of src/src/filesinkhelper.cpp, and how  *)
(* rotateLog of filerotatesink.cpp names an archive.  A name is a sequence of *)
(* characters; a date in it is one character, for the texts of dates all have *)
(* the same length.                                                           *)
(******************************************************************************)
EXTENDS Integers, Sequences, SequencesExt

CONSTANTS MaxNum,    \* bound on the numbers of archives
          MaxClock,  \* bound on local time, in seconds
          Date,      \* the text of a date, [0..MaxClock -> characters]
          Decimal    \* what operator<< writes for a number, [0..MaxNum -> sequences of digits]

Digits == {"0", "1", "2", "3", "4", "5", "6", "7", "8", "9"}

ASSUME FileNamesAssumption ==
   /\ MaxNum \in Nat /\ MaxClock \in Nat
   /\ \A time \in 0..MaxClock : Date[time] \notin {".", "/"}
   /\ \A num \in 0..MaxNum : Decimal[num] \in Seq(Digits)

Spaces == {" ", "\t", "\n"}
Illegal == {"/", ",", "|", "<", ">", ":", "#", "$", "%", "{", "}", "[", "]", "'", "\"", "^", "!",
            "?", "+", "*", " "}

isValidFilename(name) == name # <<>> /\ ToSet(name) \cap Illegal = {}

prefixSanityFix(prefix) == 
   LET fixed == SelectSeq(prefix, LAMBDA c : c \notin Spaces \cup {"/", "\\", ".", ":"})
   IN IF isValidFilename(fixed) THEN fixed ELSE <<>>

pathSanityFix(path, file) == 
   LET slashes == [i \in DOMAIN path |-> IF path[i] = "\\" THEN "/" ELSE path[i]]
       kept == {i \in DOMAIN path : slashes[i] \notin {"/", " "}}
       clean == SubSeq(slashes, 1, IF kept = {} THEN 0 ELSE Max(kept))
   IN (IF clean = <<>> THEN <<>> ELSE Append(clean, "/")) \o file

dotLog == <<".", "l", "o", "g">>

addLogSuffix(name) == name \o dotLog

createLogFileName(prefix, id, time) == 
   prefix \o <<".">> \o (IF id = <<>> THEN <<>> ELSE Append(id, ".")) \o <<Date[time]>> \o dotLog

--------------------------------------------------------------------------------
(* Archives *)
arc(num) == <<"a", "r", "c">> \o Decimal[num]

(* What follows the name of the log; date_regex matches nothing else. *)
ArchiveSuffix(time, num) == <<".", Date[time], ".">> \o arc(num) \o dotLog

(* find *)
Finds(text, part) == \E i \in 0..(Len(text) - Len(part)) : SubSeq(text, i + 1, i + Len(part)) = part

(* The date and the number in the name of an archive of app, if it is one: app *)
(* is looked for anywhere in the name, and what follows its length is read.    *)
getDateFromFileName(app, file) == 
   IF ~Finds(file, app) THEN {}
   ELSE {x \in [time : 0..MaxClock, num : 0..MaxNum] :
           SubSeq(file, Len(app) + 1, Len(file)) = ArchiveSuffix(x.time, x.num)}

--------------------------------------------------------------------------------
(* Directories: the part of a path up to the last slash.  A directory named by *)
(* its characters exists for std::filesystem if these are its path, slashes at *)
(* the end aside; pathSanityFix takes other spellings for it too.              *)
LastSlash(path) == Max({0} \cup {i \in DOMAIN path : path[i] = "/"})
DirectoryOf(path) == SubSeq(path, 1, LastSlash(path))
BaseOf(path) == SubSeq(path, LastSlash(path) + 1, Len(path))

Exists(dir) == LET path == pathSanityFix(dir, <<>>) IN
   /\ IsPrefix(SubSeq(path, 1, Len(path) - 1), dir)
   /\ \A i \in Len(path)..Len(dir) : dir[i] = "/"
   /\ dir # <<>>
================================================================================
