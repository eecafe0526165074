-------------------------------- MODULE LogFile --------------------------------
(******************************************************************************)
(* What the file sinks of src/src share: the stream they write to, a          *)
(* std::ofstream with openLogFile and createLogFile of filesinkhelper.cpp,    *)
(* and the files, on a device that may be full.                               *)
(*                                                                            *)
(* A text is one item and counts 1 in the size of a file: a message (1, 2,    *)
(* ... in the order of the calls), a header, a note.  The calls come one at a *)
(* time, from the thread of the g3::Sink around the file sink.  Opening and   *)
(* renaming a file may fail.  A write fails while the device is full: badbit  *)
(* then turns everything written to this stream away, until it is closed.     *)
(* The process may be killed between two calls, which loses what the stream   *)
(* buffers, and a new one may go on with the same files.                      *)
(******************************************************************************)
EXTENDS FileNames, FiniteSets

CONSTANTS Header, Note, Change, Refusal, Bye,  \* what is written besides messages
          MaxMessages, MaxStarts, MaxCalls     \* bounds

Texts == {Header, Note, Change, Refusal, Bye}

ASSUME LogFileAssumption == Texts \cap Nat = {} /\ MaxMessages \in Nat

VARIABLES s,      \* the sink, its stream and the files
          clock,  \* local time
          log     \* history and bounds, see HistoryOK

vars == <<s, clock, log>>

Messages == 1..MaxMessages
Items == Messages \cup Texts
MessagesIn(items) == ToSet(items) \cap Messages

StreamOK ==
   /\ s.path \in DOMAIN s.files
   /\ {s.open, s.bad} \subseteq BOOLEAN  \* is_open, badbit
   /\ s.buf \in Seq(Items)               \* what the stream buffers
   /\ \A path \in DOMAIN s.files : s.files[path] \in Seq(Items)
   /\ s.full \in BOOLEAN                 \* the device is full
   /\ s.lost \subseteq Messages          \* history: what was written in vain, or killed
   /\ s.missed \in 0..MaxMessages        \* history: how many of them since badbit was set

HistoryOK ==
   /\ clock \in 0..MaxClock
   /\ log.accepted \in 0..MaxMessages  \* how many messages the sink was given
   /\ log.disturbed \in BOOLEAN        \* local time does not tell archives apart
   /\ log.full \in BOOLEAN             \* the device was full once
   /\ log.starts \in 1..MaxStarts /\ log.calls \in 0..MaxCalls

--------------------------------------------------------------------------------
(* Each of these operators gives the sink after a call. *)

(* operator<< *)
Put(t, item) == 
   IF t.open /\ ~t.bad THEN [t EXCEPT !.buf = Append(@, item)]
   ELSE [t EXCEPT !.lost = @ \cup MessagesIn(<<item>>),
                  !.missed = IF t.open THEN @ + Cardinality(MessagesIn(<<item>>)) ELSE @]

OnDevice(t) == [t EXCEPT !.files[t.path] = @ \o t.buf, !.buf = <<>>]

(* std::flush, which does nothing on a stream with badbit; what could not be   *)
(* written stays in the buffer.                                                *)
Flushed(t) == CASE t.bad \/ t.buf = <<>>               -> t
                [] ~t.bad /\ t.buf # <<>> /\ t.full  -> [t EXCEPT !.bad = TRUE]
                [] ~t.bad /\ t.buf # <<>> /\ ~t.full -> OnDevice(t)

Dropped(t) == [t EXCEPT !.lost = @ \cup MessagesIn(t.buf), !.buf = <<>>]

(* close, or the destructor: the last attempt to write the buffer. *)
Closed(t) == [(IF t.full \/ ~t.open THEN Dropped(t) ELSE OnDevice(t))
              EXCEPT !.open = FALSE, !.bad = FALSE, !.missed = 0]

Killed(t) == [Dropped(t) EXCEPT !.open = FALSE, !.bad = FALSE, !.missed = 0]

(* openLogFile on a closed stream, in append mode. *)
Opened(t, path, succeeds) == 
   IF succeeds THEN [t EXCEPT !.path = path, !.open = TRUE, 
                              !.files = [p \in DOMAIN @ \cup {path} |->
                                          IF p \in DOMAIN @ THEN @[p] ELSE <<>>]]
               ELSE t

(* createLogFile has succeeded; the new stream takes the place of this one. *)
Replaced(t, path) == Opened(Closed(t), path, TRUE)

(* A sink before its file is opened, with the members of its class. *)
NewStream == [path |-> <<>>, open |-> FALSE, bad |-> FALSE, buf |-> <<>>, files |-> <<>>,
              full |-> FALSE, lost |-> {}, missed |-> 0]
NewSink(members) == [x \in DOMAIN NewStream \cup DOMAIN members |->
                       IF x \in DOMAIN members THEN members[x] ELSE NewStream[x]]

--------------------------------------------------------------------------------
NewHistory == [accepted |-> 0, disturbed |-> FALSE, full |-> FALSE,
               starts |-> 1, calls |-> 0]

(* A call by the program or an event that counts as one. *)
Called == log.calls < MaxCalls /\ log' = [log EXCEPT !.calls = @ + 1]

(* The stream's own decision when its buffer is full. *)
StreamFlush == s' = Flushed(s) /\ UNCHANGED <<clock, log>>

Tick == clock < MaxClock /\ clock' = clock + 1 /\ UNCHANGED <<s, log>>

(* Local time goes back: the end of daylight saving, or the clock is set. *)
ClockBack == /\ clock > 0 /\ clock' = clock - 1
             /\ log.calls < MaxCalls
             /\ log' = [log EXCEPT !.calls = @ + 1, !.disturbed = TRUE]
             /\ UNCHANGED s

DeviceFull == /\ ~s.full /\ s' = [s EXCEPT !.full = TRUE]
              /\ log.calls < MaxCalls
              /\ log' = [log EXCEPT !.calls = @ + 1, !.full = TRUE]
              /\ UNCHANGED clock

DeviceFreed == s.full /\ s' = [s EXCEPT !.full = FALSE] /\ UNCHANGED <<clock, log>>

Environment == StreamFlush \/ Tick \/ ClockBack \/ DeviceFull \/ DeviceFreed
================================================================================
