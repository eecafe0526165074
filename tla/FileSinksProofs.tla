---------------------------- MODULE FileSinksProofs ----------------------------
(******************************************************************************)
(* Proofs about FileSinks, for any names, limits, policies and filters.       *)
(*                                                                            *)
(* A call composes operators from sinks to sinks, in the order in which the   *)
(* source makes its calls.  There is a lemma for each of them, from the       *)
(* stream up, that says what it changes, where the messages are afterwards    *)
(* and which parts of the invariant it keeps or makes true; the lemma of a    *)
(* call follows from those of the operators it composes.                      *)
(******************************************************************************)
EXTENDS FileSinks, FiniteSetTheorems, SequenceTheorems, NaturalsInduction, WellFoundedInduction,
        TLAPS

--------------------------------------------------------------------------------
(* The stream *)

(* The members of a sink that LogFile knows. *)
StreamFields == {"path", "open", "bad", "buf", "files", "full", "lost", "missed", "kind"}

(* Two sinks that differ in these members only. *)
Same(t, u, changed) == DOMAIN u = DOMAIN t /\ \A x \in DOMAIN t \ changed : u[x] = t[x]

(* The state of a stream: one that is closed has neither a buffer nor         *)
(* badbit.                                                                    *)
IsStream(t) ==
   /\ StreamFields \subseteq DOMAIN t
   /\ t.open \in BOOLEAN /\ t.bad \in BOOLEAN /\ t.full \in BOOLEAN
   /\ t.buf \in Seq(Items)
   /\ \A path \in DOMAIN t.files : t.files[path] \in Seq(Items)
   /\ t.missed \in Nat
   /\ t.open => t.path \in DOMAIN t.files
   /\ ~t.open => t.buf = <<>> /\ ~t.bad

(* Messages are finitely many numbers, so that they can be counted. *)
LEMMA MessagesAreNumbers == Messages \subseteq Nat /\ IsFiniteSet(Messages)
<1>1. Messages \subseteq Nat
   BY SMT DEF Messages
<1>2. IsFiniteSet(Messages)
   BY LogFileAssumption, FS_Interval DEF Messages
<1> QED
   BY <1>1, <1>2

(* A header, a note or another text of the sink itself is not a message. *)
LEMMA TextsAreNoMessages == \A item \in Texts : item \notin Messages
   BY LogFileAssumption, MessagesAreNumbers

(* Nothing written, no message. *)
LEMMA MessagesInEmpty == MessagesIn(<<>>) = {}
   BY DEF MessagesIn, ToSet

(* One more item adds itself if it is a message. *)
LEMMA MessagesInAppend ==
   ASSUME NEW items \in Seq(Items), NEW item \in Items
   PROVE  MessagesIn(Append(items, item)) = MessagesIn(items) \cup ({item} \cap Messages)
<1> DEFINE longer == Append(items, item)
<1>1. /\ DOMAIN longer = DOMAIN items \cup {Len(items) + 1}
      /\ longer[Len(items) + 1] = item
      /\ \A i \in DOMAIN items : longer[i] = items[i]
   OBVIOUS
<1>2. ToSet(longer) = ToSet(items) \cup {item}
   BY <1>1 DEF ToSet
<1> QED
   BY <1>2 DEF MessagesIn

(* The messages of one item. *)
LEMMA MessagesInOne ==
   ASSUME NEW item \in Items
   PROVE  MessagesIn(<<item>>) = {item} \cap Messages
   BY DEF MessagesIn, ToSet

(* Writing the buffer behind a file joins their messages. *)
LEMMA MessagesInConcatenation ==
   ASSUME NEW items \in Seq(Items), NEW more \in Seq(Items)
   PROVE  MessagesIn(items \o more) = MessagesIn(items) \cup MessagesIn(more)
<1>1. ToSet(items \o more) \subseteq ToSet(items) \cup ToSet(more)
   BY DEF ToSet
<1>2. ToSet(items) \subseteq ToSet(items \o more)
   BY DEF ToSet
<1>3. ASSUME NEW i \in DOMAIN more
      PROVE  more[i] \in ToSet(items \o more)
   <2>1. Len(items) + i \in DOMAIN (items \o more) /\ (items \o more)[Len(items) + i] = more[i]
      OBVIOUS
   <2> QED
      BY <2>1 DEF ToSet
<1>4. ToSet(more) \subseteq ToSet(items \o more)
   BY <1>3 DEF ToSet
<1> QED
   BY <1>1, <1>2, <1>4 DEF MessagesIn

(* The messages of a text are finitely many. *)
LEMMA MessagesInFinite ==
   ASSUME NEW items
   PROVE  IsFiniteSet(MessagesIn(items)) /\ MessagesIn(items) \subseteq Messages
   BY MessagesAreNumbers, FS_Subset DEF MessagesIn

(* The messages that a sink has in its files or its buffer, or has lost. *)
InFiles(t) == UNION {MessagesIn(t.files[path]) : path \in DOMAIN t.files}
InStream(t) == InFiles(t) \cup MessagesIn(t.buf) \cup t.lost

(* What it means for a message to be in a file, in the buffer or lost. *)
LEMMA InStreamMembers ==
   ASSUME NEW t, NEW m
   PROVE  m \in InStream(t) <=> \/ \E path \in DOMAIN t.files : m \in MessagesIn(t.files[path])
                               \/ m \in MessagesIn(t.buf)
                               \/ m \in t.lost
<1>1. m \in InFiles(t) <=> \E path \in DOMAIN t.files : m \in MessagesIn(t.files[path])
   BY DEF InFiles
<1> QED
   BY <1>1 DEF InStream

(* A sink with the same files, buffer and losses has the same messages. *)
LEMMA InStreamSame ==
   ASSUME NEW t, NEW u, u.files = t.files, u.buf = t.buf, u.lost = t.lost
   PROVE  InStream(u) = InStream(t)
   BY DEF InStream, InFiles

(* Moving the buffer to the device moves its messages from one place to the   *)
(* other.                                                                     *)
LEMMA InStreamOnDevice ==
   ASSUME NEW t, IsStream(t), t.path \in DOMAIN t.files, NEW u,
          DOMAIN u.files = DOMAIN t.files, u.buf = <<>>, u.lost = t.lost,
          u.files[t.path] = t.files[t.path] \o t.buf,
          \A path \in DOMAIN t.files \ {t.path} : u.files[path] = t.files[path]
   PROVE  InStream(u) = InStream(t)
<1>1. MessagesIn(u.files[t.path]) = MessagesIn(t.files[t.path]) \cup MessagesIn(t.buf)
   BY MessagesInConcatenation DEF IsStream
<1>2. MessagesIn(u.buf) = {}
   BY MessagesInEmpty
<1>3. \A path \in DOMAIN t.files \ {t.path} : MessagesIn(u.files[path]) = MessagesIn(t.files[path])
   OBVIOUS
<1>4. ASSUME NEW m
      PROVE  m \in InStream(u) <=> m \in InStream(t)
   <2>1. /\ m \in InStream(t) <=> \/ \E path \in DOMAIN t.files : m \in MessagesIn(t.files[path])
                                 \/ m \in MessagesIn(t.buf)
                                 \/ m \in t.lost
         /\ m \in InStream(u) <=> \/ \E path \in DOMAIN u.files : m \in MessagesIn(u.files[path])
                                 \/ m \in MessagesIn(u.buf)
                                 \/ m \in u.lost
      BY InStreamMembers
   <2> QED
      BY <1>1, <1>2, <1>3, <2>1
<1> QED
   BY <1>4

(* What is dropped from the buffer is among the lost. *)
LEMMA InStreamDropped ==
   ASSUME NEW t, NEW u, u.files = t.files, u.buf = <<>>, u.lost = t.lost \cup MessagesIn(t.buf)
   PROVE  InStream(u) = InStream(t)
   BY MessagesInEmpty DEF InStream, InFiles

(* operator<<: the item goes to the buffer, or is turned away and counted as  *)
(* lost; only a stream with badbit counts it as missed.                       *)
LEMMA PutResult ==
   ASSUME NEW t, IsStream(t), NEW item \in Items
   PROVE  LET u == Put(t, item) IN
          /\ IsStream(u) /\ Same(t, u, {"buf", "lost", "missed"})
          /\ u.missed \in t.missed..(t.missed + 1)
          /\ item \notin Messages \/ ~t.open \/ ~t.bad => u.missed = t.missed
          /\ t.open /\ ~t.bad => u.buf = Append(t.buf, item) /\ u.lost = t.lost
          /\ ~t.open \/ t.bad => u.buf = t.buf /\ u.lost = t.lost \cup ({item} \cap Messages)
          /\ InStream(u) = InStream(t) \cup ({item} \cap Messages)
<1> DEFINE u == Put(t, item)
<1>1. CASE t.open /\ ~t.bad
   <2>1. u = [t EXCEPT !.buf = Append(@, item)]
      BY <1>1 DEF Put
   <2>2. Append(t.buf, item) \in Seq(Items)
      BY DEF IsStream
   <2>3. Same(t, u, {"buf"}) /\ u.buf = Append(t.buf, item)
      BY <2>1 DEF IsStream, StreamFields, Same
   <2> HIDE DEF u
   <2>4. /\ Same(t, u, {"buf", "lost", "missed"}) /\ u.lost = t.lost /\ u.missed = t.missed
         /\ u.open = t.open /\ u.bad = t.bad /\ u.full = t.full /\ u.path = t.path
         /\ u.files = t.files
      BY <2>3 DEF IsStream, StreamFields, Same
   <2>5. MessagesIn(u.buf) = MessagesIn(t.buf) \cup ({item} \cap Messages)
      BY <2>3, MessagesInAppend DEF IsStream
   <2>6. InStream(u) = InStream(t) \cup ({item} \cap Messages)
      BY <2>4, <2>5, InStreamMembers
   <2> QED
      BY <1>1, <2>2, <2>3, <2>4, <2>6 DEF IsStream, Same, u
<1>2. CASE ~t.open \/ t.bad
   <2> DEFINE n == Cardinality(MessagesIn(<<item>>))
   <2>1. n \in 0..1 /\ (item \notin Messages => n = 0)
      <3>1. MessagesIn(<<item>>) = {} \/ MessagesIn(<<item>>) = {item}
         BY MessagesInOne
      <3>2. item \notin Messages => MessagesIn(<<item>>) = {}
         BY MessagesInOne
      <3> QED
         BY <3>1, <3>2, FS_EmptySet, FS_Singleton
   <2> HIDE DEF n
   <2>2. u = [t EXCEPT !.lost = t.lost \cup ({item} \cap Messages),
                       !.missed = IF t.open THEN t.missed + n ELSE t.missed]
      BY <1>2, MessagesInOne DEF Put, n, IsStream, StreamFields
   <2>3. /\ Same(t, u, {"lost", "missed"}) /\ u.lost = t.lost \cup ({item} \cap Messages)
         /\ u.missed = IF t.open THEN t.missed + n ELSE t.missed
      BY <2>2 DEF IsStream, StreamFields, Same
   <2> HIDE DEF u
   <2>4. /\ Same(t, u, {"buf", "lost", "missed"})
         /\ u.open = t.open /\ u.bad = t.bad /\ u.full = t.full /\ u.path = t.path
         /\ u.files = t.files /\ u.buf = t.buf
      BY <2>3 DEF IsStream, StreamFields, Same
   <2>5. u.missed \in t.missed..(t.missed + 1)
      BY <2>1, <2>3 DEF IsStream
   <2>6. InStream(u) = InStream(t) \cup ({item} \cap Messages)
      BY <2>3, <2>4, InStreamMembers
   <2> QED
      BY <1>2, <2>1, <2>3, <2>4, <2>5, <2>6 DEF IsStream, Same, u
<1> QED
   BY <1>1, <1>2 DEF IsStream

(* std::flush: the buffer goes to the device, or badbit is set, and no        *)
(* message changes hands.                                                     *)
LEMMA FlushedResult ==
   ASSUME NEW t, IsStream(t)
   PROVE  LET u == Flushed(t) IN
          /\ IsStream(u) /\ Same(t, u, {"bad", "buf", "files"})
          /\ DOMAIN u.files = DOMAIN t.files
          /\ \A path \in DOMAIN t.files \ {t.path} : u.files[path] = t.files[path]
          /\ \/ u.bad /\ u.buf = t.buf /\ u.files = t.files
             \/ ~u.bad /\ u.buf = <<>> /\ (t.open => u.files[t.path] = t.files[t.path] \o t.buf)
          /\ t.bad \/ ~t.open => u = t
          /\ ~t.full => u.bad = t.bad
          /\ InStream(u) = InStream(t)
<1> DEFINE u == Flushed(t)
<1>1. CASE t.bad \/ t.buf = <<>>
   <2>1. u = t
      BY <1>1 DEF Flushed
   <2>2. t.open => t.files[t.path] = t.files[t.path] \o <<>>
      BY DEF IsStream
   <2> QED
      BY <1>1, <2>1, <2>2 DEF IsStream, Same
<1>2. CASE ~t.bad /\ t.buf # <<>> /\ t.full
   <2>1. u = [t EXCEPT !.bad = TRUE]
      BY <1>2 DEF Flushed
   <2>2. InStream(u) = InStream(t)
      BY <2>1, InStreamSame DEF IsStream, StreamFields
   <2> QED
      BY <1>2, <2>1, <2>2 DEF IsStream, StreamFields, Same
<1>3. CASE ~t.bad /\ t.buf # <<>> /\ ~t.full
   <2>1. u = OnDevice(t)
      BY <1>3 DEF Flushed, IsStream
   <2>2. t.files[t.path] \o t.buf \in Seq(Items)
      BY <1>3 DEF IsStream
   <2>3. /\ Same(t, u, {"buf", "files"}) /\ u.buf = <<>>
         /\ u.files = [t.files EXCEPT ![t.path] = @ \o t.buf]
      BY <2>1 DEF IsStream, StreamFields, Same, OnDevice
   <2> HIDE DEF u
   <2>4. /\ Same(t, u, {"bad", "buf", "files"})
         /\ u.open = t.open /\ u.bad = t.bad /\ u.full = t.full /\ u.path = t.path
         /\ u.missed = t.missed
      BY <2>3 DEF IsStream, StreamFields, Same
   <2>5. /\ DOMAIN u.files = DOMAIN t.files
         /\ \A path \in DOMAIN t.files \ {t.path} : u.files[path] = t.files[path]
         /\ t.open => u.files[t.path] = t.files[t.path] \o t.buf
         /\ \A path \in DOMAIN u.files : u.files[path] \in Seq(Items)
      BY <2>2, <2>3 DEF IsStream
   <2>6. IsStream(u)
      BY <2>3, <2>4, <2>5 DEF IsStream, Same
   <2>7. InStream(u) = InStream(t)
      <3>1. t.path \in DOMAIN t.files /\ u.lost = t.lost /\ u.files[t.path] = t.files[t.path] \o t.buf
         BY <1>3, <2>3, <2>4 DEF IsStream, Same, StreamFields
      <3> QED
         BY <2>3, <2>5, <3>1, InStreamOnDevice
   <2>8. t.open
      BY <1>3 DEF IsStream
   <2> QED
      BY <1>3, <2>3, <2>4, <2>5, <2>6, <2>7, <2>8 DEF u
<1> QED
   BY <1>1, <1>2, <1>3 DEF IsStream

(* close: the buffer goes to the device, or is lost if that is full. *)
LEMMA ClosedResult ==
   ASSUME NEW t, IsStream(t)
   PROVE  LET u == Closed(t) IN
          /\ IsStream(u) /\ Same(t, u, {"open", "bad", "buf", "files", "lost", "missed"})
          /\ ~u.open /\ ~u.bad /\ u.buf = <<>> /\ u.missed = 0
          /\ DOMAIN u.files = DOMAIN t.files
          /\ \A path \in DOMAIN t.files \ {t.path} : u.files[path] = t.files[path]
          /\ \/ u.files = t.files /\ u.lost = t.lost \cup MessagesIn(t.buf) /\ (t.open => t.full)
             \/ t.open /\ u.files[t.path] = t.files[t.path] \o t.buf /\ u.lost = t.lost /\ ~t.full
          /\ InStream(u) = InStream(t)
<1> DEFINE u == Closed(t)
<1>1. CASE t.full \/ ~t.open
   <2>1. u = [Dropped(t) EXCEPT !.open = FALSE, !.bad = FALSE, !.missed = 0]
      BY <1>1 DEF Closed
   <2>2. /\ Same(t, u, {"open", "bad", "buf", "lost", "missed"})
         /\ u.open = FALSE /\ u.bad = FALSE /\ u.buf = <<>> /\ u.missed = 0
         /\ u.lost = t.lost \cup MessagesIn(t.buf)
      BY <2>1 DEF IsStream, StreamFields, Same, Dropped
   <2> HIDE DEF u
   <2>3. /\ Same(t, u, {"open", "bad", "buf", "files", "lost", "missed"})
         /\ u.full = t.full /\ u.path = t.path /\ u.files = t.files
      BY <2>2 DEF IsStream, StreamFields, Same
   <2>4. IsStream(u)
      <3>1. u.buf \in Seq(Items) /\ u.missed \in Nat
         BY <2>2
      <3> QED
         BY <2>2, <2>3, <3>1 DEF IsStream, Same
   <2>5. InStream(u) = InStream(t)
      BY <2>2, <2>3, InStreamDropped
   <2> QED
      BY <1>1, <2>2, <2>3, <2>4, <2>5 DEF u
<1>2. CASE ~t.full /\ t.open
   <2>1. u = [OnDevice(t) EXCEPT !.open = FALSE, !.bad = FALSE, !.missed = 0]
      BY <1>2 DEF Closed
   <2>2. t.files[t.path] \o t.buf \in Seq(Items)
      BY <1>2 DEF IsStream
   <2>3. /\ Same(t, u, {"open", "bad", "buf", "files", "missed"})
         /\ u.open = FALSE /\ u.bad = FALSE /\ u.buf = <<>> /\ u.missed = 0
         /\ u.files = [t.files EXCEPT ![t.path] = @ \o t.buf]
      BY <2>1 DEF IsStream, StreamFields, Same, OnDevice
   <2> HIDE DEF u
   <2>4. /\ Same(t, u, {"open", "bad", "buf", "files", "lost", "missed"})
         /\ u.full = t.full /\ u.path = t.path /\ u.lost = t.lost
      BY <2>3 DEF IsStream, StreamFields, Same
   <2>5. /\ DOMAIN u.files = DOMAIN t.files
         /\ \A path \in DOMAIN t.files \ {t.path} : u.files[path] = t.files[path]
         /\ u.files[t.path] = t.files[t.path] \o t.buf
         /\ \A path \in DOMAIN u.files : u.files[path] \in Seq(Items)
      BY <1>2, <2>2, <2>3 DEF IsStream
   <2>6. IsStream(u)
      <3>1. /\ u.buf \in Seq(Items) /\ u.missed \in Nat /\ u.full \in BOOLEAN
            /\ StreamFields \subseteq DOMAIN u
         BY <2>3, <2>4 DEF IsStream, Same
      <3> QED
         BY <2>3, <2>5, <3>1 DEF IsStream
   <2>7. InStream(u) = InStream(t)
      <3>1. t.path \in DOMAIN t.files
         BY <1>2 DEF IsStream
      <3> QED
         BY <2>3, <2>4, <2>5, <3>1, InStreamOnDevice
   <2> QED
      BY <1>2, <2>3, <2>4, <2>5, <2>6, <2>7 DEF u
<1> QED
   BY <1>1, <1>2 DEF IsStream

(* A kill loses the buffer and nothing else. *)
LEMMA KilledResult ==
   ASSUME NEW t, IsStream(t)
   PROVE  LET u == Killed(t) IN
          /\ IsStream(u) /\ Same(t, u, {"open", "bad", "buf", "lost", "missed"})
          /\ ~u.open /\ ~u.bad /\ u.buf = <<>> /\ u.missed = 0
          /\ u.lost = t.lost \cup MessagesIn(t.buf)
          /\ InStream(u) = InStream(t)
<1> DEFINE u == Killed(t)
<1>1. /\ Same(t, u, {"open", "bad", "buf", "lost", "missed"})
      /\ u.open = FALSE /\ u.bad = FALSE /\ u.buf = <<>> /\ u.missed = 0
      /\ u.lost = t.lost \cup MessagesIn(t.buf)
   BY DEF IsStream, StreamFields, Same, Dropped, Killed
<1> HIDE DEF u
<1>2. u.full = t.full /\ u.path = t.path /\ u.files = t.files
   BY <1>1 DEF IsStream, StreamFields, Same
<1>3. IsStream(u)
   <2>1. u.buf \in Seq(Items) /\ u.missed \in Nat
      BY <1>1
   <2>2. /\ StreamFields \subseteq DOMAIN u /\ u.full \in BOOLEAN
         /\ \A path \in DOMAIN u.files : u.files[path] \in Seq(Items)
      BY <1>1, <1>2 DEF IsStream, Same
   <2> QED
      BY <1>1, <2>1, <2>2 DEF IsStream
<1>4. InStream(u) = InStream(t)
   BY <1>1, <1>2, InStreamDropped
<1> QED
   BY <1>1, <1>2, <1>3, <1>4 DEF u

(* openLogFile, when it succeeds. *)
OpenedAt(t, path) == Opened(t, path, TRUE)

(* openLogFile: the file has the text it had before, or is new and empty. *)
LEMMA OpenedResult ==
   ASSUME NEW t, IsStream(t), ~t.open, NEW path
   PROVE  LET u == OpenedAt(t, path) IN
          /\ IsStream(u) /\ Same(t, u, {"path", "open", "files"})
          /\ u.path = path /\ u.open
          /\ DOMAIN u.files = DOMAIN t.files \cup {path}
          /\ path \notin DOMAIN t.files => u.files[path] = <<>>
          /\ \A other \in DOMAIN t.files : u.files[other] = t.files[other]
          /\ InStream(u) = InStream(t)
<1> DEFINE u == OpenedAt(t, path)
           files == [p \in DOMAIN t.files \cup {path} |->
                       IF p \in DOMAIN t.files THEN t.files[p] ELSE <<>>]
<1>1. u = [t EXCEPT !.path = path, !.open = TRUE, !.files = files]
   BY DEF OpenedAt, Opened, IsStream, StreamFields
<1>2. \A other \in DOMAIN files : files[other] \in Seq(Items)
   BY DEF IsStream
<1>3. Same(t, u, {"path", "open", "files"}) /\ u.path = path /\ u.open = TRUE /\ u.files = files
   BY <1>1 DEF IsStream, StreamFields, Same
<1> HIDE DEF u
<1>4. u.bad = t.bad /\ u.full = t.full /\ u.missed = t.missed /\ u.buf = t.buf
   BY <1>3 DEF IsStream, StreamFields, Same
<1>5. IsStream(u)
   <2>1. u.buf \in Seq(Items) /\ u.missed \in Nat /\ u.bad \in BOOLEAN /\ u.full \in BOOLEAN
      BY <1>4 DEF IsStream
   <2>2. path \in DOMAIN files
      OBVIOUS
   <2> HIDE DEF files
   <2>3. /\ StreamFields \subseteq DOMAIN u
         /\ \A other \in DOMAIN u.files : u.files[other] \in Seq(Items)
      BY <1>2, <1>3 DEF IsStream, Same
   <2> QED
      BY <1>3, <2>1, <2>2, <2>3 DEF IsStream
<1>6. InStream(u) = InStream(t)
   <2>1. u.lost = t.lost
      BY <1>3 DEF IsStream, StreamFields, Same
   <2>2. /\ DOMAIN u.files = DOMAIN t.files \cup {path}
         /\ \A other \in DOMAIN t.files : u.files[other] = t.files[other]
         /\ path \notin DOMAIN t.files => u.files[path] = <<>>
      BY <1>3
   <2> QED
      BY <1>4, <2>1, <2>2, MessagesInEmpty, InStreamMembers
<1> QED
   BY <1>3, <1>5, <1>6 DEF u

(* An assignment to members of the class leaves the stream as it is. *)
LEMMA OtherFields ==
   ASSUME NEW t, NEW u, NEW changed, IsStream(t), Same(t, u, changed), changed \cap StreamFields = {}
   PROVE  /\ IsStream(u)
          /\ u.path = t.path /\ u.open = t.open /\ u.bad = t.bad /\ u.buf = t.buf /\ u.files = t.files
          /\ u.full = t.full /\ u.lost = t.lost /\ u.missed = t.missed /\ u.kind = t.kind
          /\ InStream(u) = InStream(t)
<1>1. /\ u.path = t.path /\ u.open = t.open /\ u.bad = t.bad /\ u.buf = t.buf /\ u.files = t.files
      /\ u.full = t.full /\ u.lost = t.lost /\ u.missed = t.missed /\ u.kind = t.kind
   BY DEF IsStream, Same, StreamFields
<1>2. StreamFields \subseteq DOMAIN u
   BY DEF IsStream, Same
<1> QED
   BY <1>1, <1>2, InStreamSame DEF IsStream

(* Assigning the new stream closes the old one and keeps the text of the      *)
(* file that is opened.                                                       *)
LEMMA ReplacedResult ==
   ASSUME NEW t, IsStream(t), NEW path
   PROVE  LET u == Replaced(t, path) IN
          /\ IsStream(u)
          /\ Same(t, u, {"path", "open", "bad", "buf", "files", "lost", "missed"})
          /\ u.open /\ ~u.bad /\ u.buf = <<>> /\ u.missed = 0 /\ u.path = path
          /\ ~t.full \/ ~t.open => u.lost = t.lost
          /\ ~t.open => /\ \A other \in DOMAIN t.files : u.files[other] = t.files[other]
                        /\ path \notin DOMAIN t.files => u.files[path] = <<>>
          /\ InStream(u) = InStream(t)
<1> DEFINE c == Closed(t)
           u == Replaced(t, path)
<1>1. /\ IsStream(c) /\ Same(t, c, {"open", "bad", "buf", "files", "lost", "missed"})
      /\ ~c.open /\ ~c.bad /\ c.buf = <<>> /\ c.missed = 0 /\ DOMAIN c.files = DOMAIN t.files
      /\ ~t.full \/ ~t.open => c.lost = t.lost
      /\ ~t.open => c.files = t.files
      /\ InStream(c) = InStream(t)
   <2>1. ~t.open => MessagesIn(t.buf) = {}
      BY MessagesInEmpty DEF IsStream
   <2>2. /\ IsStream(c) /\ Same(t, c, {"open", "bad", "buf", "files", "lost", "missed"})
         /\ ~c.open /\ ~c.bad /\ c.buf = <<>> /\ c.missed = 0 /\ DOMAIN c.files = DOMAIN t.files
         /\ \/ c.files = t.files /\ c.lost = t.lost \cup MessagesIn(t.buf) /\ (t.open => t.full)
            \/ t.open /\ c.lost = t.lost /\ ~t.full
         /\ InStream(c) = InStream(t)
      BY ClosedResult
   <2> HIDE DEF c
   <2> QED
      BY <2>1, <2>2
<1> HIDE DEF c
<1>2. /\ IsStream(u) /\ Same(c, u, {"path", "open", "files"}) /\ u.path = path /\ u.open
      /\ path \notin DOMAIN c.files => u.files[path] = <<>>
      /\ \A other \in DOMAIN c.files : u.files[other] = c.files[other]
      /\ InStream(u) = InStream(c)
   <2>1. u = OpenedAt(c, path)
      BY DEF Replaced, OpenedAt, c
   <2>2. IsStream(c) /\ ~c.open
      BY <1>1
   <2> HIDE DEF u
   <2> QED
      BY <2>1, <2>2, OpenedResult
<1> HIDE DEF u
<1>3. Same(t, u, {"path", "open", "bad", "buf", "files", "lost", "missed"})
   BY <1>1, <1>2 DEF Same
<1>4. u.bad = c.bad /\ u.buf = c.buf /\ u.missed = c.missed /\ u.lost = c.lost
   BY <1>1, <1>2 DEF Same, IsStream, StreamFields
<1> QED
   BY <1>1, <1>2, <1>3, <1>4 DEF u

--------------------------------------------------------------------------------
(* FileSink *)

(* A FileSink between two calls: its file is open. *)
IsFileSink(t) == IsStream(t) /\ t.kind = "FileSink" /\ {"prefix", "first"} \subseteq DOMAIN t /\ t.open

(* No message is in the buffer or lost. *)
KeepsNothing(t) == ~t.full /\ ~t.bad /\ t.lost = {} /\ MessagesIn(t.buf) = {}

(* A FileSink that writes one of its own texts keeps nothing back that it     *)
(* did not before.                                                            *)
LEMMA PutText ==
   ASSUME NEW t, IsFileSink(t), NEW text \in Texts
   PROVE  LET u == Put(t, text) IN
          /\ IsFileSink(u) /\ u.full = t.full /\ (KeepsNothing(t) => KeepsNothing(u))
          /\ InStream(u) = InStream(t)
<1> DEFINE u == Put(t, text)
<1>1. text \in Items /\ {text} \cap Messages = {}
   BY TextsAreNoMessages DEF Items
<1>2. /\ IsStream(u) /\ Same(t, u, {"buf", "lost", "missed"})
      /\ t.open /\ ~t.bad => u.buf = Append(t.buf, text) /\ u.lost = t.lost
      /\ ~t.open \/ t.bad => u.buf = t.buf /\ u.lost = t.lost \cup ({text} \cap Messages)
      /\ InStream(u) = InStream(t) \cup ({text} \cap Messages)
   BY <1>1, PutResult DEF IsFileSink
<1> HIDE DEF u
<1>3. u.kind = t.kind /\ u.open = t.open /\ u.full = t.full /\ u.bad = t.bad /\ DOMAIN u = DOMAIN t
   BY <1>2 DEF IsFileSink, IsStream, StreamFields, Same
<1>4. MessagesIn(u.buf) = MessagesIn(t.buf)
   <2>1. t.buf \in Seq(Items)
      BY DEF IsFileSink, IsStream
   <2>2. MessagesIn(Append(t.buf, text)) = MessagesIn(t.buf)
      BY <1>1, <2>1, MessagesInAppend
   <2> QED
      BY <1>2, <2>2 DEF IsFileSink, IsStream
<1>5. IsFileSink(u)
   BY <1>2, <1>3 DEF IsFileSink
<1>6. u.lost = t.lost
   BY <1>1, <1>2 DEF IsFileSink, IsStream
<1> QED
   BY <1>1, <1>2, <1>3, <1>4, <1>5, <1>6 DEF KeepsNothing, u

(* After std::flush the buffer is empty or badbit is set; without a full      *)
(* device it is not.                                                          *)
LEMMA FlushedFileSink ==
   ASSUME NEW t, IsFileSink(t)
   PROVE  LET u == Flushed(t) IN
          /\ IsFileSink(u) /\ u.full = t.full /\ u.lost = t.lost /\ (~t.full => u.bad = t.bad)
          /\ ~u.bad => u.buf = <<>>
          /\ InStream(u) = InStream(t)
<1> DEFINE u == Flushed(t)
<1>1. /\ IsStream(u) /\ Same(t, u, {"bad", "buf", "files"})
      /\ ~u.bad => u.buf = <<>>
      /\ ~t.full => u.bad = t.bad
      /\ InStream(u) = InStream(t)
   BY FlushedResult DEF IsFileSink
<1> HIDE DEF u
<1>2. /\ u.kind = t.kind /\ u.open = t.open /\ u.full = t.full /\ u.lost = t.lost
      /\ DOMAIN u = DOMAIN t
   BY <1>1 DEF IsFileSink, IsStream, StreamFields, Same
<1> QED
   BY <1>1, <1>2 DEF IsFileSink, u

(* fileWrite of FileSink: the message is on the device when it returns,       *)
(* unless that was full.                                                      *)
LEMMA FileSinkWrittenKeeps ==
   ASSUME NEW t, IsFileSink(t), NEW m \in Messages
   PROVE  LET u == FileSinkWritten(t, m) IN
          /\ IsFileSink(u) /\ (KeepsNothing(t) => KeepsNothing(u))
          /\ InStream(u) = InStream(t) \cup {m}
<1> DEFINE h == IF t.first THEN Put(t, Header) ELSE t
           g == [h EXCEPT !.first = FALSE]
           p == Put(g, m)
           u == Flushed(p)
<1>1. IsFileSink(h) /\ (KeepsNothing(t) => KeepsNothing(h)) /\ InStream(h) = InStream(t)
   <2>1. Header \in Texts
      BY DEF Texts
   <2> QED
      BY <2>1, PutText
<1> HIDE DEF h
<1>2. IsFileSink(g) /\ (KeepsNothing(h) => KeepsNothing(g)) /\ InStream(g) = InStream(h)
   <2>1. Same(h, g, {"first"}) /\ {"first"} \cap StreamFields = {}
      BY DEF Same, StreamFields
   <2>2. IsStream(h)
      BY <1>1 DEF IsFileSink
   <2>3. /\ IsStream(g) /\ g.open = h.open /\ g.bad = h.bad /\ g.buf = h.buf /\ g.full = h.full
         /\ g.lost = h.lost /\ g.kind = h.kind /\ InStream(g) = InStream(h)
      BY <2>1, <2>2, OtherFields
   <2>4. DOMAIN g = DOMAIN h
      OBVIOUS
   <2> QED
      BY <1>1, <2>3, <2>4 DEF IsFileSink, KeepsNothing
<1> HIDE DEF g
<1>3. /\ IsFileSink(p) /\ p.full = g.full /\ (~g.bad => p.bad = g.bad /\ p.lost = g.lost)
      /\ InStream(p) = InStream(g) \cup {m}
   <2>1. m \in Items
      BY DEF Items
   <2>2. IsStream(g)
      BY <1>2 DEF IsFileSink
   <2>3. /\ IsStream(p) /\ Same(g, p, {"buf", "lost", "missed"})
         /\ g.open /\ ~g.bad => p.lost = g.lost
         /\ InStream(p) = InStream(g) \cup ({m} \cap Messages)
      BY <2>1, <2>2, PutResult
   <2> HIDE DEF p
   <2>4. p.kind = g.kind /\ p.open = g.open /\ p.full = g.full /\ p.bad = g.bad /\ DOMAIN p = DOMAIN g
      BY <2>2, <2>3 DEF IsStream, StreamFields, Same
   <2> QED
      BY <1>2, <2>3, <2>4 DEF IsFileSink
<1> HIDE DEF p
<1>4. /\ IsFileSink(u) /\ u.full = p.full /\ u.lost = p.lost /\ (~p.full => u.bad = p.bad)
      /\ ~u.bad => u.buf = <<>>
      /\ InStream(u) = InStream(p)
   BY <1>3, FlushedFileSink
<1>5. FileSinkWritten(t, m) = u
   BY DEF FileSinkWritten, u, p, g, h
<1> HIDE DEF u
<1>6. KeepsNothing(g) => KeepsNothing(u)
   BY <1>3, <1>4, MessagesInEmpty DEF KeepsNothing
<1>7. InStream(u) = InStream(t) \cup {m}
   BY <1>1, <1>2, <1>3, <1>4
<1>8. IsFileSink(u) /\ (KeepsNothing(t) => KeepsNothing(u))
   BY <1>1, <1>2, <1>4, <1>6
<1> QED
   BY <1>5, <1>7, <1>8

(* Neither a change of file nor a new process keeps a message back in the     *)
(* stream.                                                                    *)
LEMMA ReplacedFileSink ==
   ASSUME NEW t, IsStream(t), t.kind = "FileSink", {"prefix", "first"} \subseteq DOMAIN t, NEW path, NEW prefix,
          t.open => IsFileSink(t)
   PROVE  LET u == Replaced(t, path)
              v == [u EXCEPT !.first = TRUE]
              w == [u EXCEPT !.prefix = prefix, !.first = TRUE]
          IN /\ IsFileSink(v) /\ IsFileSink(w)
             /\ ~t.full /\ t.lost = {} => KeepsNothing(v) /\ KeepsNothing(w)
             /\ InStream(v) = InStream(t) /\ InStream(w) = InStream(t)
<1> DEFINE u == Replaced(t, path)
           v == [u EXCEPT !.first = TRUE]
           w == [u EXCEPT !.prefix = prefix, !.first = TRUE]
<1>1. /\ IsStream(u)
      /\ Same(t, u, {"path", "open", "bad", "buf", "files", "lost", "missed"})
      /\ u.open /\ ~u.bad /\ u.buf = <<>> /\ (~t.full => u.lost = t.lost)
      /\ InStream(u) = InStream(t)
   BY ReplacedResult
<1> HIDE DEF u
<1>2. u.kind = t.kind /\ u.full = t.full /\ DOMAIN u = DOMAIN t
   BY <1>1 DEF IsStream, StreamFields, Same
<1> DEFINE members == {"prefix", "first"}
<1>3. Same(u, v, members) /\ Same(u, w, members) /\ DOMAIN v = DOMAIN u /\ DOMAIN w = DOMAIN u
   BY DEF Same
<1> HIDE DEF v, w
<1>4. members \cap StreamFields = {} /\ IsStream(u)
   BY <1>1 DEF StreamFields
<1> HIDE DEF members
<1>5. /\ IsStream(v) /\ v.open = u.open /\ v.bad = u.bad /\ v.buf = u.buf /\ v.full = u.full
      /\ v.lost = u.lost /\ v.kind = u.kind /\ InStream(v) = InStream(u)
   BY <1>3, <1>4, OtherFields
<1>6. /\ IsStream(w) /\ w.open = u.open /\ w.bad = u.bad /\ w.buf = u.buf /\ w.full = u.full
      /\ w.lost = u.lost /\ w.kind = u.kind /\ InStream(w) = InStream(u)
   BY <1>3, <1>4, OtherFields
<1> QED
   BY <1>1, <1>2, <1>3, <1>5, <1>6, MessagesInEmpty DEF IsFileSink, KeepsNothing, u, v, w

--------------------------------------------------------------------------------
(* FileRotateSink between two calls *)

(* The text of the file as it will be when the buffer is written. *)
Text(t) == t.files[t.path] \o t.buf

(* The members of FileRotateSink. *)
RotateMembers == {"log", "size", "max", "count", "num", "policy", "counter", "filter", "archives",
                  "expired", "failed", "stuck"}

(* A FileRotateSink with its members set, its file open or not. *)
IsPrepared(t) ==
   /\ IsStream(t) /\ RotateMembers \subseteq DOMAIN t /\ t.kind = "FileRotateSink"
   /\ t.size \in Nat \cup {-1} /\ t.max \in Nat /\ t.count \in Nat /\ t.num \in Nat
   /\ t.policy \in Nat /\ t.counter \in Nat

(* A FileRotateSink whose path is that of its log. *)
IsRotateSink(t) == IsPrepared(t) /\ t.path \in DOMAIN t.files /\ t.path = PathOf(t.log)

(* The counter and the messages in the buffer add up to the policy at most. *)
PolicyInv(t) == t.policy > 0 =>
                   /\ t.counter \in 1..t.policy
                   /\ t.bad \/ Cardinality(MessagesIn(t.buf)) <= t.policy - t.counter

(* What badbit turned away was counted as size. *)
MissedInv(t) == t.missed <= t.size + 1

(* cur_log_size_ is at least the size of the file that it stands for, while   *)
(* the stream is good and the last rotation did not fail.                     *)
LimitInv(t) == t.open /\ ~t.bad /\ ~t.failed => Len(Text(t)) <= t.size

(* What holds of a FileRotateSink between two calls. *)
RotateInv(t) == IsRotateSink(t) /\ PolicyInv(t) /\ MissedInv(t) /\ LimitInv(t)

(* What only the set functions change. *)
SameArguments(t, u) ==
   /\ DOMAIN u = DOMAIN t /\ u.kind = t.kind /\ u.full = t.full
   /\ u.max = t.max /\ u.count = t.count /\ u.policy = t.policy /\ u.filter = t.filter

(* What only they and rotations change. *)
SameSettings(t, u) ==
   /\ SameArguments(t, u)
   /\ u.num = t.num /\ u.archives = t.archives /\ u.expired = t.expired /\ u.failed = t.failed
   /\ u.stuck = t.stuck

(* A change of the stream leaves the members of FileRotateSink alone. *)
LEMMA StreamOnly ==
   ASSUME NEW t, IsPrepared(t), NEW u, IsStream(u), NEW changed, Same(t, u, changed),
          changed \subseteq {"open", "bad", "buf", "files", "lost", "missed"}
   PROVE  /\ SameSettings(t, u) /\ IsPrepared(u)
          /\ u.size = t.size /\ u.counter = t.counter /\ u.log = t.log /\ u.path = t.path
<1>1. /\ SameSettings(t, u)
      /\ u.size = t.size /\ u.counter = t.counter /\ u.log = t.log /\ u.path = t.path
   BY DEF IsPrepared, IsStream, StreamFields, RotateMembers, Same, SameSettings, SameArguments
<1> QED
   BY <1>1 DEF IsPrepared, SameSettings, SameArguments

(* The text of the open file is a sequence, as long as its two parts. *)
LEMMA TextIsSequence ==
   ASSUME NEW t, IsStream(t), t.path \in DOMAIN t.files
   PROVE  Text(t) \in Seq(Items) /\ Len(Text(t)) = Len(t.files[t.path]) + Len(t.buf)
   BY DEF Text, IsStream

(* One more item is at most one more message. *)
LEMMA MessagesCounted ==
   ASSUME NEW items \in Seq(Items), NEW item \in Items
   PROVE  /\ Cardinality(MessagesIn(items)) \in Nat
          /\ Cardinality(MessagesIn(Append(items, item))) \in Nat
          /\ Cardinality(MessagesIn(Append(items, item))) <= Cardinality(MessagesIn(items)) + 1
<1>1. \/ MessagesIn(Append(items, item)) = MessagesIn(items)
      \/ MessagesIn(Append(items, item)) = MessagesIn(items) \cup {item}
   <2>1. MessagesIn(Append(items, item)) = MessagesIn(items) \cup ({item} \cap Messages)
      BY MessagesInAppend
   <2> QED
      BY <2>1
<1>2. IsFiniteSet(MessagesIn(items))
   BY MessagesInFinite
<1>3. Cardinality(MessagesIn(items)) \in Nat
   BY <1>2, FS_CardinalityType
<1>4. \/ Cardinality(MessagesIn(items) \cup {item}) = Cardinality(MessagesIn(items))
      \/ Cardinality(MessagesIn(items) \cup {item}) = Cardinality(MessagesIn(items)) + 1
   BY <1>2, FS_AddElement
<1>5. CASE MessagesIn(Append(items, item)) = MessagesIn(items)
   BY <1>3, <1>5
<1>6. CASE MessagesIn(Append(items, item)) = MessagesIn(items) \cup {item}
   <2> DEFINE n == Cardinality(MessagesIn(items))
   <2>1. n \in Nat /\ Cardinality(MessagesIn(Append(items, item))) \in {n, n + 1}
      BY <1>3, <1>4, <1>6
   <2> HIDE DEF n
   <2>2. /\ Cardinality(MessagesIn(Append(items, item))) \in Nat
         /\ Cardinality(MessagesIn(Append(items, item))) <= n + 1
      BY <2>1
   <2> QED
      BY <2>1, <2>2 DEF n
<1> QED
   BY <1>1, <1>5, <1>6

(* Appending to the buffer appends to the text. *)
LEMMA AppendToSecond ==
   ASSUME NEW a \in Seq(Items), NEW b \in Seq(Items), NEW item \in Items
   PROVE  a \o Append(b, item) = Append(a \o b, item)
<1>1. <<item>> \in Seq(Items) /\ a \o b \in Seq(Items)
   OBVIOUS
<1>2. Append(b, item) = b \o <<item>> /\ Append(a \o b, item) = (a \o b) \o <<item>>
   BY <1>1, AppendIsConcat
<1> DEFINE c == <<item>>
<1>3. c \in Seq(Items)
   BY <1>1
<1> HIDE DEF c
<1>4. (a \o b) \o c = a \o (b \o c)
   BY <1>3, ConcatAssociative
<1> QED
   BY <1>2, <1>4 DEF c

(* operator<< of FileRotateSink: the text grows by the item, or the item is   *)
(* missed.                                                                    *)
LEMMA PutRotate ==
   ASSUME NEW t, IsRotateSink(t), NEW item \in Items
   PROVE  LET u == Put(t, item) IN
          /\ IsRotateSink(u) /\ SameSettings(t, u)
          /\ u.size = t.size /\ u.counter = t.counter /\ u.log = t.log /\ u.path = t.path
          /\ u.open = t.open /\ u.bad = t.bad
          /\ t.open /\ ~t.bad => u.buf = Append(t.buf, item) /\ Text(u) = Append(Text(t), item)
          /\ ~t.open \/ t.bad => u.buf = t.buf /\ Text(u) = Text(t)
          /\ u.missed \in t.missed..(t.missed + 1)
          /\ item \notin Messages \/ ~t.open \/ ~t.bad => u.missed = t.missed
          /\ InStream(u) = InStream(t) \cup ({item} \cap Messages)
<1> DEFINE u == Put(t, item)
           changed == {"buf", "lost", "missed"}
<1>1. IsPrepared(t) /\ IsStream(t)
   BY DEF IsRotateSink, IsPrepared
<1>2. /\ IsStream(u) /\ Same(t, u, changed)
      /\ u.missed \in t.missed..(t.missed + 1)
      /\ item \notin Messages \/ ~t.open \/ ~t.bad => u.missed = t.missed
      /\ t.open /\ ~t.bad => u.buf = Append(t.buf, item)
      /\ ~t.open \/ t.bad => u.buf = t.buf
      /\ InStream(u) = InStream(t) \cup ({item} \cap Messages)
   BY <1>1, PutResult
<1> HIDE DEF u
<1>3. u.open = t.open /\ u.bad = t.bad /\ u.files = t.files
   BY <1>1, <1>2 DEF IsStream, StreamFields, Same
<1>4. changed \subseteq {"open", "bad", "buf", "files", "lost", "missed"}
   OBVIOUS
<1> HIDE DEF changed
<1>5. /\ SameSettings(t, u) /\ IsPrepared(u)
      /\ u.size = t.size /\ u.counter = t.counter /\ u.log = t.log /\ u.path = t.path
   BY <1>1, <1>2, <1>4, StreamOnly
<1>6. IsRotateSink(u)
   BY <1>3, <1>5 DEF IsRotateSink
<1>7. t.open /\ ~t.bad => Text(u) = Append(Text(t), item)
   <2>1. t.files[t.path] \in Seq(Items) /\ t.buf \in Seq(Items)
      BY DEF IsRotateSink, IsPrepared, IsStream
   <2>2. t.files[t.path] \o Append(t.buf, item) = Append(t.files[t.path] \o t.buf, item)
      BY <2>1, AppendToSecond
   <2> QED
      BY <1>2, <1>3, <1>5, <2>2 DEF Text
<1>8. ~t.open \/ t.bad => Text(u) = Text(t)
   BY <1>2, <1>3, <1>5 DEF Text
<1> QED
   BY <1>2, <1>3, <1>5, <1>6, <1>7, <1>8 DEF u

(* std::flush changes nothing of the text or of the counters of               *)
(* FileRotateSink.                                                            *)
LEMMA FlushedRotate ==
   ASSUME NEW t, IsRotateSink(t)
   PROVE  LET u == Flushed(t) IN
          /\ IsRotateSink(u) /\ SameSettings(t, u)
          /\ u.size = t.size /\ u.counter = t.counter /\ u.log = t.log /\ u.path = t.path
          /\ u.open = t.open /\ (t.bad => u.bad) /\ u.missed = t.missed
          /\ u.bad \/ u.buf = <<>>
          /\ Text(u) = Text(t)
          /\ InStream(u) = InStream(t)
<1> DEFINE u == Flushed(t)
           changed == {"bad", "buf", "files"}
<1>1. IsPrepared(t) /\ IsStream(t)
   BY DEF IsRotateSink, IsPrepared
<1>2. /\ IsStream(u) /\ Same(t, u, changed)
      /\ DOMAIN u.files = DOMAIN t.files
      /\ \/ u.bad /\ u.buf = t.buf /\ u.files = t.files
         \/ ~u.bad /\ u.buf = <<>> /\ (t.open => u.files[t.path] = t.files[t.path] \o t.buf)
      /\ t.bad \/ ~t.open => u = t
      /\ InStream(u) = InStream(t)
   BY <1>1, FlushedResult
<1> HIDE DEF u
<1>3. u.open = t.open /\ u.missed = t.missed
   BY <1>1, <1>2 DEF IsStream, StreamFields, Same
<1>4. changed \subseteq {"open", "bad", "buf", "files", "lost", "missed"}
   OBVIOUS
<1> HIDE DEF changed
<1>5. /\ SameSettings(t, u) /\ IsPrepared(u)
      /\ u.size = t.size /\ u.counter = t.counter /\ u.log = t.log /\ u.path = t.path
   BY <1>1, <1>2, <1>4, StreamOnly
<1>6. IsRotateSink(u)
   BY <1>2, <1>5 DEF IsRotateSink
<1>7. Text(u) = Text(t)
   <2>1. CASE u = t
      BY <2>1
   <2>2. CASE u.files = t.files /\ u.buf = t.buf
      BY <1>5, <2>2 DEF Text
   <2>3. CASE u.buf = <<>> /\ u.files[t.path] = t.files[t.path] \o t.buf
      <3>1. t.files[t.path] \o t.buf \in Seq(Items)
         BY DEF IsRotateSink, IsPrepared, IsStream
      <3>2. (t.files[t.path] \o t.buf) \o <<>> = t.files[t.path] \o t.buf
         BY <3>1
      <3> QED
         BY <1>5, <2>3, <3>2 DEF Text
   <2> QED
      BY <1>2, <2>1, <2>2, <2>3
<1> QED
   BY <1>2, <1>3, <1>5, <1>6, <1>7 DEF u

(* The two things flushPolicy may do, count or flush. *)
LEMMA PolicyAppliedCases ==
   ASSUME NEW t, t.policy \in Nat
   PROVE  \/ t.policy = 0 /\ PolicyApplied(t) = t
          \/ t.policy > 0 /\ t.counter = 1 /\ PolicyApplied(t) = [Flushed(t) EXCEPT !.counter = t.policy]
          \/ t.policy > 0 /\ t.counter # 1 /\ PolicyApplied(t) = [t EXCEPT !.counter = @ - 1]
   BY DEF PolicyApplied

(* flush_policy_counter_ is in no other part of the invariant. *)
LEMMA CounterOnly ==
   ASSUME NEW t, IsRotateSink(t), NEW n \in Nat
   PROVE  LET u == [t EXCEPT !.counter = n] IN
          /\ IsRotateSink(u) /\ SameSettings(t, u) /\ u.counter = n
          /\ u.size = t.size /\ u.log = t.log /\ u.path = t.path /\ u.open = t.open /\ u.bad = t.bad
          /\ u.missed = t.missed /\ u.buf = t.buf /\ Text(u) = Text(t) /\ InStream(u) = InStream(t)
<1> DEFINE u == [t EXCEPT !.counter = n]
           changed == {"counter"}
<1>1. Same(t, u, changed) /\ IsStream(t) /\ changed \cap StreamFields = {} /\ u.counter = n
   BY DEF Same, IsRotateSink, IsPrepared, StreamFields, RotateMembers
<1>2. /\ SameSettings(t, u) /\ u.size = t.size /\ u.log = t.log
   BY DEF SameSettings, SameArguments
<1> HIDE DEF u, changed
<1>3. /\ IsStream(u)
      /\ u.path = t.path /\ u.open = t.open /\ u.bad = t.bad /\ u.buf = t.buf /\ u.files = t.files
      /\ u.missed = t.missed /\ InStream(u) = InStream(t)
   BY <1>1, OtherFields
<1>4. IsRotateSink(u)
   BY <1>1, <1>2, <1>3 DEF IsRotateSink, IsPrepared, SameSettings, SameArguments
<1>5. Text(u) = Text(t)
   BY <1>3 DEF Text
<1> QED
   BY <1>1, <1>2, <1>3, <1>4, <1>5 DEF u

(* cur_log_size_ is in no other part of the invariant. *)
LEMMA SizeOnly ==
   ASSUME NEW t, IsRotateSink(t), NEW n \in Nat
   PROVE  LET u == [t EXCEPT !.size = n] IN
          /\ IsRotateSink(u) /\ SameSettings(t, u) /\ u.size = n
          /\ u.counter = t.counter /\ u.log = t.log /\ u.path = t.path /\ u.open = t.open
          /\ u.bad = t.bad
          /\ u.missed = t.missed /\ u.buf = t.buf /\ Text(u) = Text(t) /\ InStream(u) = InStream(t)
<1> DEFINE u == [t EXCEPT !.size = n]
           changed == {"size"}
<1>1. Same(t, u, changed) /\ IsStream(t) /\ changed \cap StreamFields = {} /\ u.size = n
   BY DEF Same, IsRotateSink, IsPrepared, StreamFields, RotateMembers
<1>2. /\ SameSettings(t, u) /\ u.counter = t.counter /\ u.log = t.log
   BY DEF SameSettings, SameArguments
<1> HIDE DEF u, changed
<1>3. /\ IsStream(u)
      /\ u.path = t.path /\ u.open = t.open /\ u.bad = t.bad /\ u.buf = t.buf /\ u.files = t.files
      /\ u.missed = t.missed /\ InStream(u) = InStream(t)
   BY <1>1, OtherFields
<1>4. IsRotateSink(u)
   BY <1>1, <1>2, <1>3 DEF IsRotateSink, IsPrepared, SameSettings, SameArguments
<1>5. Text(u) = Text(t)
   BY <1>3 DEF Text
<1> QED
   BY <1>1, <1>2, <1>3, <1>4, <1>5 DEF u

(* fileWriteWithoutRotate keeps the invariant: the size counts what the       *)
(* stream turns away, which is why a bad stream is rotated, and the counter   *)
(* reaches 1 before the buffer has policy messages.                           *)
LEMMA WrittenResult ==
   ASSUME NEW t, RotateInv(t), NEW item \in Items
   PROVE  LET u == Written(t, item) IN
          /\ RotateInv(u) /\ SameSettings(t, u)
          /\ u.log = t.log /\ u.path = t.path /\ u.open = t.open
          /\ t.open /\ ~t.bad => Text(u) = Append(Text(t), item)
          /\ ~t.open \/ t.bad => Text(u) = Text(t)
          /\ u.missed \in t.missed..(t.missed + 1)
          /\ item \notin Messages \/ ~t.open \/ ~t.bad => u.missed = t.missed
          /\ InStream(u) = InStream(t) \cup ({item} \cap Messages)
<1> DEFINE p == Put(t, item)
           q == PolicyApplied(p)
           u == Written(t, item)
<1>1. IsRotateSink(t)
   BY DEF RotateInv
<1>2. /\ IsRotateSink(p) /\ SameSettings(t, p)
      /\ p.size = t.size /\ p.counter = t.counter /\ p.log = t.log /\ p.path = t.path
      /\ p.open = t.open /\ p.bad = t.bad
      /\ t.open /\ ~t.bad => p.buf = Append(t.buf, item) /\ Text(p) = Append(Text(t), item)
      /\ ~t.open \/ t.bad => p.buf = t.buf /\ Text(p) = Text(t)
      /\ p.missed \in t.missed..(t.missed + 1)
      /\ item \notin Messages \/ ~t.open \/ ~t.bad => p.missed = t.missed
      /\ InStream(p) = InStream(t) \cup ({item} \cap Messages)
   BY <1>1, PutRotate
<1> HIDE DEF p
<1>3. /\ t.policy \in Nat /\ t.counter \in Nat /\ t.size \in Nat \cup {-1} /\ t.missed \in Nat
      /\ t.buf \in Seq(Items) /\ Text(t) \in Seq(Items) /\ p.policy = t.policy
   BY <1>1, <1>2, TextIsSequence DEF IsRotateSink, IsPrepared, IsStream, SameSettings, SameArguments
<1>4. /\ IsRotateSink(q) /\ SameSettings(p, q)
      /\ q.size = p.size /\ q.log = p.log /\ q.path = p.path /\ q.open = p.open
      /\ p.bad => q.bad
      /\ q.missed = p.missed /\ Text(q) = Text(p) /\ InStream(q) = InStream(p)
      /\ PolicyInv(q)
   <2>1. CASE t.policy = 0
      <3>1. q = p
         BY <1>3, <2>1, PolicyAppliedCases
      <3>2. PolicyInv(p)
         BY <1>3, <2>1 DEF PolicyInv
      <3> QED
         BY <1>2, <3>1, <3>2 DEF SameSettings, SameArguments
   <2>2. CASE t.policy > 0 /\ t.counter = 1
      <3> DEFINE f == Flushed(p)
      <3>1. q = [f EXCEPT !.counter = p.policy]
         BY <1>2, <1>3, <2>2, PolicyAppliedCases
      <3>2. /\ IsRotateSink(f) /\ SameSettings(p, f)
            /\ f.size = p.size /\ f.log = p.log /\ f.path = p.path
            /\ f.open = p.open /\ (p.bad => f.bad) /\ f.missed = p.missed
            /\ f.bad \/ f.buf = <<>>
            /\ Text(f) = Text(p) /\ InStream(f) = InStream(p)
         BY <1>2, FlushedRotate
      <3> HIDE DEF f, q
      <3>3. /\ IsRotateSink(q) /\ SameSettings(f, q) /\ q.counter = p.policy
            /\ q.size = f.size /\ q.log = f.log /\ q.path = f.path /\ q.open = f.open /\ q.bad = f.bad
            /\ q.missed = f.missed /\ q.buf = f.buf /\ Text(q) = Text(f) /\ InStream(q) = InStream(f)
         BY <1>3, <3>1, <3>2, CounterOnly
      <3>4. SameSettings(p, q)
         BY <3>2, <3>3 DEF SameSettings, SameArguments
      <3>5. PolicyInv(q)
         <4>1. q.policy = t.policy /\ q.counter = t.policy
            BY <1>3, <3>3, <3>4 DEF SameSettings, SameArguments
         <4>2. q.bad \/ Cardinality(MessagesIn(q.buf)) = 0
            BY <3>2, <3>3, MessagesInEmpty, FS_EmptySet
         <4> QED
            BY <1>3, <2>2, <4>1, <4>2 DEF PolicyInv
      <3> QED
         BY <3>2, <3>3, <3>4, <3>5
   <2>3. CASE t.policy > 0 /\ t.counter # 1
      <3>1. /\ t.counter \in 2..t.policy
            /\ t.bad \/ Cardinality(MessagesIn(t.buf)) <= t.policy - t.counter
         BY <1>3, <2>3 DEF RotateInv, PolicyInv
      <3> DEFINE n == p.counter - 1
      <3>2. q = [p EXCEPT !.counter = n]
         BY <1>2, <1>3, <2>3, PolicyAppliedCases
      <3>3. n \in Nat /\ n = t.counter - 1
         BY <1>2, <3>1
      <3> HIDE DEF n, q
      <3>4. /\ IsRotateSink(q) /\ SameSettings(p, q) /\ q.counter = n
            /\ q.size = p.size /\ q.log = p.log /\ q.path = p.path /\ q.open = p.open /\ q.bad = p.bad
            /\ q.missed = p.missed /\ q.buf = p.buf /\ Text(q) = Text(p) /\ InStream(q) = InStream(p)
         BY <1>2, <3>2, <3>3, CounterOnly
      <3>5. PolicyInv(q)
         <4>1. q.policy = t.policy
            BY <1>3, <3>4 DEF SameSettings, SameArguments
         <4>2. q.bad \/ Cardinality(MessagesIn(q.buf)) <= t.policy - n
            <5>1. CASE t.bad
               BY <1>2, <3>4, <5>1
            <5>2. CASE ~t.bad /\ t.open
               <6>1. q.buf = Append(t.buf, item)
                  BY <1>2, <3>4, <5>2
               <6>2. /\ Cardinality(MessagesIn(t.buf)) \in Nat /\ Cardinality(MessagesIn(q.buf)) \in Nat
                     /\ Cardinality(MessagesIn(q.buf)) <= Cardinality(MessagesIn(t.buf)) + 1
                  BY <1>3, <6>1, MessagesCounted
               <6> QED
                  BY <1>3, <3>1, <3>3, <5>2, <6>2
            <5>3. CASE ~t.bad /\ ~t.open
               <6>1. q.buf = t.buf
                  BY <1>2, <3>4, <5>3
               <6>2. Cardinality(MessagesIn(t.buf)) \in Nat
                  BY MessagesInFinite, FS_CardinalityType
               <6> QED
                  BY <1>3, <3>1, <3>3, <5>3, <6>1, <6>2
            <5> QED
               BY <5>1, <5>2, <5>3
         <4> QED
            BY <1>3, <3>1, <3>3, <3>4, <4>1, <4>2 DEF PolicyInv
      <3> QED
         BY <3>4, <3>5
   <2> QED
      BY <1>3, <2>1, <2>2, <2>3
<1> DEFINE n == q.size + 1
<1>5. n \in Nat /\ n = t.size + 1
   BY <1>2, <1>3, <1>4
<1>6. u = [q EXCEPT !.size = n]
   BY DEF Written, q, p
<1> HIDE DEF n, q, u
<1>7. /\ IsRotateSink(u) /\ SameSettings(q, u) /\ u.size = n
      /\ u.counter = q.counter /\ u.log = q.log /\ u.path = q.path /\ u.open = q.open /\ u.bad = q.bad
      /\ u.missed = q.missed /\ u.buf = q.buf /\ Text(u) = Text(q) /\ InStream(u) = InStream(q)
   BY <1>4, <1>5, <1>6, SizeOnly
<1>8. SameSettings(t, u)
   BY <1>2, <1>4, <1>7 DEF SameSettings, SameArguments
<1>9. PolicyInv(u)
   BY <1>4, <1>7 DEF PolicyInv, SameSettings, SameArguments
<1>10. MissedInv(u)
   <2>1. t.missed <= t.size + 1
      BY DEF RotateInv, MissedInv
   <2> QED
      BY <1>2, <1>3, <1>4, <1>5, <1>7, <2>1 DEF MissedInv
<1>11. LimitInv(u)
   <2> SUFFICES ASSUME u.open, ~u.bad, ~u.failed
                PROVE  Len(Text(u)) <= u.size
      BY DEF LimitInv
   <2>1. t.open /\ ~t.bad /\ ~t.failed
      BY <1>2, <1>4, <1>7, <1>8 DEF SameSettings, SameArguments
   <2>2. Len(Text(t)) <= t.size
      BY <2>1 DEF RotateInv, LimitInv
   <2>3. Text(u) = Append(Text(t), item)
      BY <1>2, <1>4, <1>7, <2>1
   <2>4. Len(Text(u)) = Len(Text(t)) + 1
      BY <1>3, <2>3
   <2> QED
      BY <1>3, <1>5, <1>7, <2>2, <2>4
<1>12. RotateInv(u)
   BY <1>7, <1>9, <1>10, <1>11 DEF RotateInv
<1> QED
   BY <1>2, <1>4, <1>7, <1>8, <1>12 DEF u

(* setLogSizeCounter makes the size that of the file, or -1, and starts the   *)
(* policy anew on a buffer that is empty.                                     *)
LEMMA CountedResult ==
   ASSUME NEW t, IsRotateSink(t)
   PROVE  LET u == Counted(t) IN
          /\ RotateInv(u) /\ SameSettings(t, u)
          /\ u.log = t.log /\ u.path = t.path /\ u.open = t.open /\ Text(u) = Text(t) /\ u.missed = 0
          /\ InStream(u) = InStream(t)
<1> DEFINE f == Flushed(t)
           n == IF f.open /\ ~f.bad THEN Len(f.files[f.path]) ELSE -1
           u == Counted(t)
<1>1. /\ IsRotateSink(f) /\ SameSettings(t, f)
      /\ f.size = t.size /\ f.log = t.log /\ f.path = t.path /\ f.open = t.open
      /\ f.bad \/ f.buf = <<>>
      /\ Text(f) = Text(t) /\ InStream(f) = InStream(t)
   BY FlushedRotate
<1>2. u = [f EXCEPT !.size = n, !.counter = f.policy, !.missed = 0]
   BY DEF Counted
<1> HIDE DEF f
<1>3. n \in Nat \cup {-1}
   BY <1>1 DEF IsRotateSink, IsPrepared, IsStream
<1>4. /\ Same(f, u, {"size", "counter", "missed"})
      /\ u.size = n /\ u.counter = f.policy /\ u.missed = 0
   BY <1>1, <1>2 DEF IsRotateSink, IsPrepared, IsStream, StreamFields, RotateMembers, Same
<1> HIDE DEF u
<1>5. /\ SameSettings(f, u) /\ u.log = f.log
      /\ u.path = f.path /\ u.open = f.open /\ u.bad = f.bad /\ u.buf = f.buf /\ u.files = f.files
      /\ u.lost = f.lost
   BY <1>1, <1>4 DEF IsRotateSink, IsPrepared, IsStream, StreamFields, RotateMembers, Same, SameSettings, SameArguments
<1>6. IsStream(u)
   <2>1. DOMAIN u = DOMAIN f /\ u.missed \in Nat /\ u.full = f.full
      BY <1>4, <1>5 DEF Same, SameSettings, SameArguments
   <2> QED
      BY <1>1, <1>5, <2>1 DEF IsRotateSink, IsPrepared, IsStream
<1>7. IsRotateSink(u)
   <2>1. u.counter \in Nat /\ u.size \in Nat \cup {-1}
      BY <1>1, <1>3, <1>4 DEF IsRotateSink, IsPrepared
   <2> HIDE DEF n
   <2> QED
      BY <1>1, <1>5, <1>6, <2>1 DEF IsRotateSink, IsPrepared, SameSettings, SameArguments
<1>8. PolicyInv(u)
   <2>1. u.counter = u.policy /\ u.policy \in Nat
      BY <1>1, <1>4, <1>5 DEF SameSettings, SameArguments, IsRotateSink, IsPrepared
   <2>2. u.bad \/ Cardinality(MessagesIn(u.buf)) = 0
      BY <1>1, <1>5, MessagesInEmpty, FS_EmptySet
   <2> QED
      BY <2>1, <2>2 DEF PolicyInv
<1>9. MissedInv(u)
   BY <1>3, <1>4 DEF MissedInv
<1>10. LimitInv(u)
   <2> SUFFICES ASSUME u.open, ~u.bad
                PROVE  Len(Text(u)) <= u.size
      BY DEF LimitInv
   <2>1. u.size = Len(u.files[u.path]) /\ u.buf = <<>>
      BY <1>1, <1>4, <1>5
   <2>2. Len(Text(u)) = Len(u.files[u.path]) + Len(u.buf)
      BY <1>6, <1>7, TextIsSequence DEF IsRotateSink
   <2>3. Len(u.files[u.path]) \in Nat
      BY <1>6, <1>7 DEF IsStream, IsRotateSink
   <2> QED
      BY <2>1, <2>2, <2>3
<1>11. SameSettings(t, u)
   BY <1>1, <1>5 DEF SameSettings, SameArguments
<1>12. Text(u) = Text(t)
   BY <1>1, <1>5 DEF Text
<1>13. InStream(u) = InStream(t)
   BY <1>1, <1>5, InStreamSame
<1>14. RotateInv(u)
   BY <1>7, <1>8, <1>9, <1>10 DEF RotateInv
<1> QED
   BY <1>1, <1>4, <1>5, <1>11, <1>12, <1>13, <1>14 DEF u

(* changeLogFile, when the file can be opened. *)
ChangedTo(t, l) == Changed(t, l, TRUE)

(* changeLogFile that succeeds: whatever the state of the old stream was,     *)
(* the new one keeps the invariant; a file that was not there has no          *)
(* message.                                                                   *)
LEMMA ChangedToResult ==
   ASSUME NEW t, IsPrepared(t), NEW l
   PROVE  LET u == ChangedTo(t, l) IN
          /\ RotateInv(u) /\ SameSettings(t, u) /\ u.log = l /\ u.open /\ u.missed = 0
          /\ InStream(u) = InStream(t)
          /\ ~t.open /\ (PathOf(l) \in DOMAIN t.files => t.files[PathOf(l)] = <<>>)
                => MessagesIn(Text(u)) = {}
<1> DEFINE r == Replaced(t, PathOf(l))
           g == [r EXCEPT !.log = l]
           p == Put(g, Header)
           u == ChangedTo(t, l)
           empty == ~t.open /\ (PathOf(l) \in DOMAIN t.files => t.files[PathOf(l)] = <<>>)
<1>1. /\ IsStream(r)
      /\ Same(t, r, {"path", "open", "bad", "buf", "files", "lost", "missed"})
      /\ r.open /\ ~r.bad /\ r.buf = <<>> /\ r.missed = 0 /\ r.path = PathOf(l)
      /\ empty => r.files[PathOf(l)] = <<>>
      /\ InStream(r) = InStream(t)
   <2>1. IsStream(t)
      BY DEF IsPrepared
   <2>2. /\ IsStream(r)
         /\ Same(t, r, {"path", "open", "bad", "buf", "files", "lost", "missed"})
         /\ r.open /\ ~r.bad /\ r.buf = <<>> /\ r.missed = 0 /\ r.path = PathOf(l)
         /\ ~t.open => /\ \A other \in DOMAIN t.files : r.files[other] = t.files[other]
                       /\ PathOf(l) \notin DOMAIN t.files => r.files[PathOf(l)] = <<>>
         /\ InStream(r) = InStream(t)
      BY <2>1, ReplacedResult
   <2> HIDE DEF r
   <2> QED
      BY <2>2
<1> HIDE DEF r
<1>2. SameSettings(t, r) /\ r.size = t.size /\ r.counter = t.counter
   BY <1>1 DEF IsPrepared, IsStream, StreamFields, RotateMembers, Same, SameSettings, SameArguments
<1>3. /\ Same(r, g, {"log"}) /\ g.log = l /\ SameSettings(r, g) /\ g.size = r.size /\ g.counter = r.counter
   <2>1. RotateMembers \subseteq DOMAIN r
      BY <1>2 DEF IsPrepared, SameSettings, SameArguments
   <2> QED
      BY <2>1 DEF RotateMembers, Same, SameSettings, SameArguments
<1>4. /\ IsStream(g)
      /\ g.path = r.path /\ g.open = r.open /\ g.bad = r.bad /\ g.buf = r.buf /\ g.files = r.files
      /\ g.missed = r.missed /\ InStream(g) = InStream(r)
   <2> DEFINE changed == {"log"}
   <2>1. changed \cap StreamFields = {} /\ Same(r, g, changed) /\ IsStream(r)
      BY <1>1, <1>3 DEF StreamFields
   <2> HIDE DEF changed, g
   <2> QED
      BY <2>1, OtherFields
<1> HIDE DEF g
<1>5. IsRotateSink(g)
   <2>1. IsPrepared(g)
      BY <1>2, <1>3, <1>4 DEF IsPrepared, SameSettings, SameArguments
   <2>2. g.path = PathOf(g.log) /\ g.path \in DOMAIN g.files
      BY <1>1, <1>3, <1>4 DEF IsStream
   <2> QED
      BY <2>1, <2>2 DEF IsRotateSink
<1>6. Header \in Items /\ Header \notin Messages /\ {Header} \cap Messages = {}
   BY TextsAreNoMessages DEF Texts, Items
<1>7. /\ IsRotateSink(p) /\ SameSettings(g, p) /\ p.log = g.log /\ p.open = g.open
      /\ Text(p) = Append(Text(g), Header)
      /\ InStream(p) = InStream(g)
   <2>1. /\ IsRotateSink(p) /\ SameSettings(g, p) /\ p.log = g.log /\ p.open = g.open
         /\ g.open /\ ~g.bad => p.buf = Append(g.buf, Header) /\ Text(p) = Append(Text(g), Header)
         /\ InStream(p) = InStream(g) \cup ({Header} \cap Messages)
      BY <1>5, <1>6, PutRotate
   <2> HIDE DEF p
   <2> QED
      BY <1>1, <1>4, <1>6, <2>1
<1>8. u = Counted(p)
   BY DEF ChangedTo, Changed, p, g, r
<1> HIDE DEF p, u
<1>9. /\ RotateInv(u) /\ SameSettings(p, u)
      /\ u.log = p.log /\ u.open = p.open /\ Text(u) = Text(p) /\ u.missed = 0
      /\ InStream(u) = InStream(p)
   BY <1>7, <1>8, CountedResult
<1>10. SameSettings(t, u)
   BY <1>2, <1>3, <1>7, <1>9 DEF SameSettings, SameArguments
<1>11. empty => MessagesIn(Text(u)) = {}
   <2> SUFFICES ASSUME empty
                PROVE  MessagesIn(Text(u)) = {}
      OBVIOUS
   <2>1. g.files[g.path] = <<>> /\ g.buf = <<>>
      BY <1>1, <1>4
   <2>2. Text(g) = <<>>
      BY <2>1 DEF Text
   <2>3. <<>> \in Seq(Items)
      OBVIOUS
   <2>4. MessagesIn(Append(<<>>, Header)) = MessagesIn(<<>>) \cup ({Header} \cap Messages)
      BY <1>6, <2>3, MessagesInAppend
   <2> QED
      BY <1>6, <1>7, <1>9, <2>2, <2>4, MessagesInEmpty
<1> QED
   BY <1>1, <1>3, <1>4, <1>7, <1>9, <1>10, <1>11 DEF u

--------------------------------------------------------------------------------
(* Rotations *)

(* The messages in archives. *)
Archives(t) == UNION {MessagesIn(a.text) : a \in t.archives}

(* The messages in archives, or expired with one. *)
InArchives(t) == Archives(t) \cup t.expired

(* All messages that a FileRotateSink accounts for. *)
Held(t) == InStream(t) \cup InArchives(t)

(* The next archive has a name of its own: the archives that there are were   *)
(* made before, or have a smaller number.                                     *)
ArchivesInv(t, now) ==
   \A a \in t.archives : a.time \in Nat /\ a.num \in Nat /\ a.time <= now
                         /\ (a.time = now => a.num < t.num)

(* What rotateLog does in order: it closes the file, renames it to an         *)
(* archive and creates the new one; or it fails, and is known to have         *)
(* failed.                                                                    *)
ClosedToRotate(t) == [Closed(t) EXCEPT !.num = NextNumber(@)]
Moved(t) == Archived(ClosedToRotate(t), t.num)
Created(t) == Written(ChangedTo([Moved(t) EXCEPT !.failed = FALSE], t.log), Note)
WithFailure(t) == [t EXCEPT !.failed = TRUE]

(* What it means for a message to be in an archive or expired with one. *)
LEMMA InArchivesMembers ==
   ASSUME NEW t, NEW m
   PROVE  m \in InArchives(t) <=> m \in t.expired \/ \E a \in t.archives : m \in MessagesIn(a.text)
<1>1. m \in Archives(t) <=> \E a \in t.archives : m \in MessagesIn(a.text)
   BY DEF Archives
<1> QED
   BY <1>1 DEF InArchives

(* The ways in which rotateLog may end. *)
LEMMA RotationCases ==
   ASSUME NEW t, NEW u \in Rotations(t)
   PROVE  \/ ~t.open /\ u = WithFailure(t)
          \/ /\ t.open
             /\ \E v \in {ClosedToRotate(t), Written(Moved(t), Refusal)} :
                   u = WithFailure(v) \/ u = OpenedAt(WithFailure(v), t.path)
          \/ t.open /\ \E order \in Orders : u \in Expirations(Created(t), order)
<1> DEFINE FailedOf(v) == {Opened(WithFailure(v), t.path, again) : again \in BOOLEAN}
<1>1. CASE ~t.open
   BY <1>1 DEF Rotations, WithFailure
<1>2. ASSUME NEW v, u \in FailedOf(v)
      PROVE  u = WithFailure(v) \/ u = OpenedAt(WithFailure(v), t.path)
   BY <1>2 DEF Opened, OpenedAt
<1>3. CASE t.open
   <2>1. \/ u \in FailedOf(ClosedToRotate(t))
         \/ u \in FailedOf(Changed(Moved(t), t.log, FALSE))
         \/ \E order \in Orders : u \in Expirations(Created(t), order)
      BY <1>3 DEF Rotations, WithFailure, ClosedToRotate, Moved, Created, ChangedTo
   <2>2. Changed(Moved(t), t.log, FALSE) = Written(Moved(t), Refusal)
      BY DEF Changed
   <2> HIDE DEF FailedOf
   <2> QED
      BY <1>2, <1>3, <2>1, <2>2
<1> QED
   BY <1>1, <1>3

(* A sink with the same stream and archives has the same messages. *)
LEMMA HeldSame ==
   ASSUME NEW t, NEW u, InStream(u) = InStream(t), u.archives = t.archives, u.expired = t.expired
   PROVE  Held(u) = Held(t)
   BY DEF Held, InArchives, Archives

(* That a rotation failed is history only. *)
LEMMA WithFailureResult ==
   ASSUME NEW t, RotateInv(t)
   PROVE  LET u == WithFailure(t) IN
          /\ RotateInv(u) /\ SameArguments(t, u) /\ u.failed
          /\ u.log = t.log /\ u.path = t.path /\ u.open = t.open /\ u.bad = t.bad /\ u.missed = t.missed
          /\ u.num = t.num /\ u.archives = t.archives /\ Held(u) = Held(t)
<1> DEFINE u == WithFailure(t)
           changed == {"failed"}
<1>1. /\ Same(t, u, changed) /\ IsStream(t) /\ changed \cap StreamFields = {} /\ u.failed
      /\ IsRotateSink(t)
   BY DEF WithFailure, Same, RotateInv, IsRotateSink, IsPrepared, StreamFields, RotateMembers
<1>2. /\ SameArguments(t, u) /\ u.size = t.size /\ u.counter = t.counter /\ u.log = t.log /\ u.num = t.num
      /\ u.archives = t.archives /\ u.expired = t.expired
   BY DEF WithFailure, SameArguments
<1> HIDE DEF u, changed
<1>3. /\ IsStream(u)
      /\ u.path = t.path /\ u.open = t.open /\ u.bad = t.bad /\ u.buf = t.buf /\ u.files = t.files
      /\ u.missed = t.missed /\ InStream(u) = InStream(t)
   BY <1>1, OtherFields
<1>4. IsRotateSink(u)
   BY <1>1, <1>2, <1>3 DEF IsRotateSink, IsPrepared, SameArguments
<1>5. PolicyInv(u) /\ MissedInv(u) /\ LimitInv(u)
   BY <1>1, <1>2, <1>3 DEF RotateInv, PolicyInv, MissedInv, LimitInv, SameArguments
<1>6. Held(u) = Held(t)
   BY <1>2, <1>3, HeldSame
<1> QED
   BY <1>1, <1>2, <1>3, <1>4, <1>5, <1>6 DEF RotateInv, u

(* The first step of rotateLog: the file is closed, and the number of the     *)
(* archive is used up.                                                        *)
LEMMA ClosedToRotateResult ==
   ASSUME NEW t, RotateInv(t)
   PROVE  LET u == ClosedToRotate(t) IN
          /\ RotateInv(u) /\ SameArguments(t, u) /\ u.num = t.num + 1
          /\ u.archives = t.archives /\ u.log = t.log /\ u.path = t.path
          /\ ~u.open /\ u.missed = 0 /\ Held(u) = Held(t)
<1> DEFINE c == Closed(t)
           u == ClosedToRotate(t)
           changed == {"open", "bad", "buf", "files", "lost", "missed"}
           num == {"num"}
<1>1. IsRotateSink(t) /\ IsPrepared(t) /\ IsStream(t)
   BY DEF RotateInv, IsRotateSink, IsPrepared
<1>2. /\ IsStream(c) /\ Same(t, c, changed)
      /\ ~c.open /\ ~c.bad /\ c.buf = <<>> /\ c.missed = 0
      /\ DOMAIN c.files = DOMAIN t.files
      /\ InStream(c) = InStream(t)
   BY <1>1, ClosedResult
<1> HIDE DEF c
<1>3. /\ SameSettings(t, c) /\ IsPrepared(c)
      /\ c.size = t.size /\ c.counter = t.counter /\ c.log = t.log /\ c.path = t.path
   BY <1>1, <1>2, StreamOnly
<1>4. u = [c EXCEPT !.num = c.num + 1] /\ Same(c, u, num)
   BY DEF ClosedToRotate, NextNumber, c, Same
<1>5. num \cap StreamFields = {}
   BY DEF StreamFields
<1>6. /\ SameArguments(c, u) /\ u.num = c.num + 1 /\ u.archives = c.archives /\ u.expired = c.expired
      /\ u.log = c.log /\ u.size = c.size /\ u.counter = c.counter
   BY <1>3, <1>4 DEF IsPrepared, RotateMembers, SameArguments
<1> HIDE DEF u, num
<1>7. /\ IsStream(u)
      /\ u.path = c.path /\ u.open = c.open /\ u.bad = c.bad /\ u.buf = c.buf /\ u.files = c.files
      /\ u.missed = c.missed /\ InStream(u) = InStream(c)
   <2>1. IsStream(c) /\ Same(c, u, num)
      BY <1>2, <1>4
   <2> QED
      BY <2>1, <1>5, OtherFields
<1>8. IsRotateSink(u)
   <2>1. u.path \in DOMAIN u.files /\ u.path = PathOf(u.log)
      BY <1>1, <1>2, <1>3, <1>6, <1>7 DEF IsRotateSink
   <2> QED
      BY <1>3, <1>6, <1>7, <2>1 DEF IsRotateSink, IsPrepared, SameArguments
<1>9. PolicyInv(u)
   <2>1. Cardinality(MessagesIn(u.buf)) = 0
      BY <1>2, <1>7, MessagesInEmpty, FS_EmptySet
   <2>2. u.counter = t.counter /\ u.policy = t.policy /\ t.policy \in Nat
      BY <1>1, <1>3, <1>6 DEF SameArguments, SameSettings, IsPrepared
   <2> QED
      BY <2>1, <2>2 DEF RotateInv, PolicyInv
<1>10. MissedInv(u) /\ LimitInv(u)
   BY <1>2, <1>7, <1>8 DEF MissedInv, LimitInv, IsRotateSink, IsPrepared
<1>11. Held(u) = Held(t)
   BY <1>2, <1>3, <1>6, <1>7, HeldSame DEF SameSettings
<1> QED
   BY <1>2, <1>3, <1>6, <1>7, <1>8, <1>9, <1>10, <1>11 DEF RotateInv, SameSettings, SameArguments, u

(* The rename moves the text of the file to an archive; as long as local      *)
(* time tells archives apart it replaces none.                                *)
LEMMA ArchivedResult ==
   ASSUME NEW t, RotateInv(t), ~t.open, NEW num \in Nat, clock \in Nat
   PROVE  LET u == Archived(t, num)
              new == [path |-> t.path, time |-> clock, num |-> num, text |-> t.files[t.path]]
          IN /\ RotateInv(u) /\ SameArguments(t, u) /\ u.num = t.num /\ u.failed = t.failed
             /\ u.log = t.log /\ u.path = t.path /\ ~u.open /\ u.missed = t.missed
             /\ u.files[u.path] = <<>>
             /\ u.archives \subseteq t.archives \cup {new}
             /\ Held(u) \subseteq Held(t)
             /\ (\A a \in t.archives : a.time # clock \/ a.num # num) => Held(u) = Held(t)
<1> DEFINE u == Archived(t, num)
           new == [path |-> t.path, time |-> clock, num |-> num, text |-> t.files[t.path]]
           old == {a \in t.archives : a.path = t.path /\ a.time = clock /\ a.num = num}
<1>1. IsRotateSink(t) /\ IsPrepared(t) /\ IsStream(t)
   BY DEF RotateInv, IsRotateSink, IsPrepared
<1>2. u = [t EXCEPT !.archives = (@ \ old) \cup {new}, !.files = [@ EXCEPT ![t.path] = <<>>]]
   BY DEF Archived
<1>3. /\ Same(t, u, {"archives", "files"})
      /\ u.archives = (t.archives \ old) \cup {new} /\ u.files = [t.files EXCEPT ![t.path] = <<>>]
   <2> HIDE DEF new, old
   <2> QED
      BY <1>1, <1>2 DEF IsPrepared, IsStream, StreamFields, RotateMembers, Same
<1> HIDE DEF u
<1>4. /\ SameArguments(t, u) /\ u.num = t.num /\ u.failed = t.failed /\ u.expired = t.expired
      /\ u.log = t.log /\ u.size = t.size /\ u.counter = t.counter
      /\ u.path = t.path /\ u.open = t.open /\ u.bad = t.bad /\ u.buf = t.buf
      /\ u.missed = t.missed /\ u.lost = t.lost
   BY <1>1, <1>3 DEF IsPrepared, IsStream, StreamFields, RotateMembers, Same, SameArguments
<1>5. DOMAIN u.files = DOMAIN t.files /\ u.files[t.path] = <<>>
   BY <1>1, <1>3 DEF IsRotateSink
<1>6. \A path \in DOMAIN t.files \ {t.path} : u.files[path] = t.files[path]
   BY <1>3
<1>7. IsStream(u)
   <2>1. \A path \in DOMAIN u.files : u.files[path] \in Seq(Items)
      BY <1>1, <1>5, <1>6 DEF IsStream
   <2>2. DOMAIN u = DOMAIN t
      BY <1>3 DEF Same
   <2> QED
      BY <1>1, <1>4, <1>5, <2>1, <2>2 DEF IsStream, SameArguments
<1>8. RotateInv(u)
   <2>1. IsRotateSink(u)
      <3>1. RotateMembers \subseteq DOMAIN u
         BY <1>1, <1>4 DEF SameArguments, IsPrepared
      <3> QED
         BY <1>1, <1>4, <1>5, <1>7, <3>1 DEF IsRotateSink, IsPrepared, SameArguments
   <2>2. PolicyInv(u) /\ MissedInv(u) /\ LimitInv(u)
      BY <1>4 DEF RotateInv, PolicyInv, MissedInv, LimitInv, SameArguments
   <2> QED
      BY <2>1, <2>2 DEF RotateInv
<1>9. MessagesIn(u.files[t.path]) = {}
   BY <1>5, MessagesInEmpty
<1>10. new.text = t.files[t.path]
   OBVIOUS
<1>11. t.path \in DOMAIN t.files
   BY <1>1 DEF IsRotateSink
<1> HIDE DEF new
<1>12. Held(u) \subseteq Held(t)
   <2>1. InStream(u) \subseteq InStream(t)
      BY <1>4, <1>5, <1>6, <1>9, InStreamMembers
   <2>2. ASSUME NEW m \in InArchives(u)
         PROVE  m \in Held(t)
      <3>1. m \in t.expired \/ \E a \in u.archives : m \in MessagesIn(a.text)
         BY <1>4, <2>2, InArchivesMembers
      <3>2. CASE m \in t.expired
         BY <3>1, <3>2, InArchivesMembers DEF Held
      <3>3. CASE \E a \in u.archives : m \in MessagesIn(a.text)
         <4>1. (\E a \in t.archives : m \in MessagesIn(a.text)) \/ m \in MessagesIn(new.text)
            BY <1>3, <3>3
         <4> QED
            BY <1>10, <1>11, <3>1, <4>1, InArchivesMembers, InStreamMembers DEF Held
      <3> QED
         BY <3>1, <3>2, <3>3
   <2> QED
      BY <2>1, <2>2 DEF Held
<1>13. ASSUME \A a \in t.archives : a.time # clock \/ a.num # num
       PROVE  Held(t) \subseteq Held(u)
   <2>1. old = {}
      BY <1>13
   <2>2. u.archives = t.archives \cup {new}
      BY <1>3, <2>1
   <2>3. InArchives(t) \subseteq InArchives(u)
      BY <1>4, <2>2, InArchivesMembers
   <2>4. ASSUME NEW m \in InStream(t)
         PROVE  m \in Held(u)
      <3>1. \/ \E path \in DOMAIN t.files : m \in MessagesIn(t.files[path])
            \/ m \in MessagesIn(t.buf) \/ m \in t.lost
         BY <2>4, InStreamMembers
      <3>2. CASE m \in MessagesIn(t.files[t.path])
         BY <1>10, <2>2, <3>1, <3>2, InArchivesMembers DEF Held
      <3>3. CASE \E path \in DOMAIN t.files \ {t.path} : m \in MessagesIn(t.files[path])
         BY <1>5, <1>6, <3>1, <3>3, InStreamMembers DEF Held
      <3>4. CASE m \in MessagesIn(t.buf) \/ m \in t.lost
         BY <1>4, <3>1, <3>4, InStreamMembers DEF Held
      <3> QED
         BY <3>1, <3>2, <3>3, <3>4
   <2> QED
      BY <2>3, <2>4 DEF Held
<1>14. u.archives \subseteq t.archives \cup {new}
   BY <1>3
<1> QED
   BY <1>4, <1>5, <1>8, <1>12, <1>13, <1>14 DEF u, new

(* expireArchives moves messages from archives to the expired ones. *)
LEMMA ExpiredResult ==
   ASSUME NEW t, RotateInv(t), NEW order, NEW u \in Expirations(t, order)
   PROVE  /\ RotateInv(u) /\ SameArguments(t, u) /\ u.num = t.num /\ u.failed = t.failed
          /\ u.log = t.log /\ u.open = t.open /\ u.missed = t.missed /\ Text(u) = Text(t)
          /\ u.path = t.path /\ u.buf = t.buf /\ u.files = t.files
          /\ u.archives \subseteq t.archives
          /\ Held(u) = Held(t)
<1> DEFINE surplus == Surplus(t, Found(t, order))
           changed == {"archives", "stuck", "expired"}
<1>1. IsRotateSink(t) /\ IsPrepared(t) /\ IsStream(t)
   BY DEF RotateInv, IsRotateSink, IsPrepared
<1>2. PICK gone \in SUBSET surplus : u = Expired(t, surplus, gone)
   BY DEF Expirations
<1>3. gone \subseteq t.archives
   BY <1>2 DEF Surplus, Found
<1> HIDE DEF surplus
<1> DEFINE going == UNION {MessagesIn(a.text) : a \in gone}
<1>4. /\ Same(t, u, changed) /\ changed \cap StreamFields = {}
      /\ u.archives = t.archives \ gone /\ u.expired = t.expired \cup going
   <2>1. u = [t EXCEPT !.archives = @ \ gone, !.stuck = surplus \ gone, !.expired = @ \cup going]
      BY <1>2 DEF Expired
   <2> HIDE DEF going
   <2> QED
      BY <1>1, <2>1 DEF IsPrepared, StreamFields, RotateMembers, Same
<1>5. /\ SameArguments(t, u) /\ u.num = t.num /\ u.failed = t.failed
      /\ u.log = t.log /\ u.size = t.size /\ u.counter = t.counter
   BY <1>1, <1>4 DEF IsPrepared, IsStream, StreamFields, RotateMembers, Same, SameArguments
<1>6. /\ IsStream(u)
      /\ u.path = t.path /\ u.open = t.open /\ u.bad = t.bad /\ u.buf = t.buf /\ u.files = t.files
      /\ u.missed = t.missed /\ InStream(u) = InStream(t)
   <2> HIDE DEF changed
   <2>1. IsStream(t) /\ Same(t, u, changed) /\ changed \cap StreamFields = {}
      BY <1>1, <1>4
   <2> QED
      BY <2>1, OtherFields
<1>7. RotateInv(u)
   <2>1. IsRotateSink(u)
      BY <1>1, <1>5, <1>6 DEF IsRotateSink, IsPrepared, SameArguments
   <2>2. PolicyInv(u) /\ MissedInv(u) /\ LimitInv(u)
      BY <1>5, <1>6 DEF RotateInv, PolicyInv, MissedInv, LimitInv, SameArguments, Text
   <2> QED
      BY <2>1, <2>2 DEF RotateInv
<1>8. Text(u) = Text(t)
   BY <1>6 DEF Text
<1>9. \A m : m \in going <=> \E a \in gone : m \in MessagesIn(a.text)
   OBVIOUS
<1>10. InArchives(u) = InArchives(t)
   <2> HIDE DEF going
   <2> QED
      BY <1>3, <1>4, <1>9, InArchivesMembers
<1>11. Held(u) = Held(t)
   BY <1>6, <1>10 DEF Held
<1> QED
   BY <1>4, <1>5, <1>6, <1>7, <1>8, <1>11

(* The texts of the sink can be written, and are no messages. *)
LEMMA TextItems ==
   /\ \A text \in Texts : text \in Items /\ text \notin Messages /\ {text} \cap Messages = {}
   /\ Header \in Texts /\ Note \in Texts /\ Change \in Texts /\ Refusal \in Texts /\ Bye \in Texts
   BY TextsAreNoMessages DEF Texts, Items

(* A text of the sink itself changes nothing of its messages. *)
LEMMA WrittenText ==
   ASSUME NEW t, RotateInv(t), NEW text \in Texts
   PROVE  LET u == Written(t, text) IN
          /\ RotateInv(u) /\ SameSettings(t, u)
          /\ u.log = t.log /\ u.path = t.path /\ u.open = t.open /\ u.missed = t.missed
          /\ MessagesIn(Text(u)) = MessagesIn(Text(t))
          /\ Held(u) = Held(t)
<1> DEFINE u == Written(t, text)
<1>1. text \in Items /\ text \notin Messages /\ {text} \cap Messages = {}
   BY TextItems
<1>2. /\ RotateInv(u) /\ SameSettings(t, u)
      /\ u.log = t.log /\ u.path = t.path /\ u.open = t.open
      /\ t.open /\ ~t.bad => Text(u) = Append(Text(t), text)
      /\ ~t.open \/ t.bad => Text(u) = Text(t)
      /\ u.missed = t.missed
      /\ InStream(u) = InStream(t) \cup ({text} \cap Messages)
   BY <1>1, WrittenResult
<1> HIDE DEF u
<1>3. MessagesIn(Text(u)) = MessagesIn(Text(t))
   <2>1. Text(t) \in Seq(Items) /\ t.open \in BOOLEAN /\ t.bad \in BOOLEAN
      BY TextIsSequence DEF RotateInv, IsRotateSink, IsPrepared, IsStream
   <2>2. MessagesIn(Append(Text(t), text)) = MessagesIn(Text(t)) \cup ({text} \cap Messages)
      BY <1>1, <2>1, MessagesInAppend
   <2> QED
      BY <1>1, <1>2, <2>1, <2>2
<1>4. InStream(u) = InStream(t)
   BY <1>1, <1>2
<1>5. Held(u) = Held(t)
   BY <1>2, <1>4, HeldSame DEF SameSettings
<1> QED
   BY <1>2, <1>3, <1>5 DEF u

(* After the rename the file is empty and its messages are archived. *)
LEMMA MovedResult ==
   ASSUME NEW t, RotateInv(t), clock \in Nat
   PROVE  LET u == Moved(t) IN
          /\ RotateInv(u) /\ SameArguments(t, u) /\ u.num = t.num + 1
          /\ u.log = t.log /\ u.path = t.path /\ ~u.open /\ u.missed = 0 /\ u.files[u.path] = <<>>
          /\ Held(u) \subseteq Held(t)
          /\ ArchivesInv(t, clock) => ArchivesInv(u, clock) /\ Held(u) = Held(t)
<1> DEFINE c == ClosedToRotate(t)
           u == Moved(t)
           new == [path |-> c.path, time |-> clock, num |-> t.num, text |-> c.files[c.path]]
<1>1. /\ RotateInv(c) /\ SameArguments(t, c) /\ c.num = t.num + 1
      /\ c.archives = t.archives /\ c.log = t.log /\ c.path = t.path
      /\ ~c.open /\ c.missed = 0 /\ Held(c) = Held(t)
   BY ClosedToRotateResult
<1>2. u = Archived(c, t.num) /\ t.num \in Nat
   BY DEF Moved, RotateInv, IsRotateSink, IsPrepared
<1> HIDE DEF c, u
<1>3. /\ RotateInv(u) /\ SameArguments(c, u) /\ u.num = c.num
      /\ u.log = c.log /\ u.path = c.path /\ ~u.open /\ u.missed = c.missed
      /\ u.files[u.path] = <<>>
      /\ u.archives \subseteq c.archives \cup {new}
      /\ Held(u) \subseteq Held(c)
      /\ (\A a \in c.archives : a.time # clock \/ a.num # t.num) => Held(u) = Held(c)
   BY <1>1, <1>2, ArchivedResult
<1>4. new.time = clock /\ new.num = t.num
   OBVIOUS
<1> HIDE DEF new
<1>5. ArchivesInv(t, clock) => ArchivesInv(u, clock)
   BY <1>1, <1>2, <1>3, <1>4 DEF ArchivesInv
<1>6. ArchivesInv(t, clock) => \A a \in c.archives : a.time # clock \/ a.num # t.num
   BY <1>1, <1>2 DEF ArchivesInv
<1>7. SameArguments(t, u)
   BY <1>1, <1>3 DEF SameArguments
<1> QED
   BY <1>1, <1>3, <1>5, <1>6, <1>7 DEF u

(* The new file of a rotation has no message. *)
LEMMA CreatedResult ==
   ASSUME NEW t, RotateInv(t), t.open, clock \in Nat
   PROVE  LET u == Created(t) IN
          /\ RotateInv(u) /\ SameArguments(t, u) /\ u.num = t.num + 1
          /\ u.log = t.log /\ u.open /\ u.missed = 0 /\ ~u.failed
          /\ MessagesIn(Text(u)) = {}
          /\ Held(u) \subseteq Held(t)
          /\ ArchivesInv(t, clock) => ArchivesInv(u, clock) /\ Held(u) = Held(t)
<1> DEFINE v == Moved(t)
           w == [v EXCEPT !.failed = FALSE]
           x == ChangedTo(w, t.log)
           u == Created(t)
           changed == {"failed"}
<1>1. /\ RotateInv(v) /\ SameArguments(t, v) /\ v.num = t.num + 1
      /\ v.log = t.log /\ v.path = t.path /\ ~v.open /\ v.missed = 0 /\ v.files[v.path] = <<>>
      /\ Held(v) \subseteq Held(t)
      /\ ArchivesInv(t, clock) => ArchivesInv(v, clock) /\ Held(v) = Held(t)
   BY MovedResult
<1>2. u = Written(x, Note)
   BY DEF Created
<1> HIDE DEF v
<1>3. /\ Same(v, w, changed) /\ changed \cap StreamFields = {} /\ SameArguments(v, w)
      /\ w.size = v.size /\ w.counter = v.counter /\ w.num = v.num /\ w.archives = v.archives
      /\ w.expired = v.expired /\ ("failed" \in DOMAIN v => ~w.failed)
   BY DEF Same, SameArguments, StreamFields
<1>4. IsPrepared(v) /\ IsStream(v) /\ v.path = PathOf(v.log)
   BY <1>1 DEF RotateInv, IsRotateSink, IsPrepared
<1> HIDE DEF w, changed
<1>5. /\ IsStream(w) /\ w.open = v.open /\ w.files = v.files /\ InStream(w) = InStream(v)
   <2>1. IsStream(v) /\ Same(v, w, changed) /\ changed \cap StreamFields = {}
      BY <1>3, <1>4
   <2> QED
      BY <2>1, OtherFields
<1>6. IsPrepared(w)
   BY <1>3, <1>4, <1>5 DEF IsPrepared, SameArguments
<1>7. /\ RotateInv(x) /\ SameSettings(w, x) /\ x.log = t.log /\ x.open /\ x.missed = 0
      /\ InStream(x) = InStream(w)
      /\ MessagesIn(Text(x)) = {}
   <2>1. ~w.open /\ w.files[PathOf(t.log)] = <<>>
      BY <1>1, <1>4, <1>5
   <2> QED
      BY <1>6, <2>1, ChangedToResult
<1> HIDE DEF x, u
<1>8. /\ RotateInv(u) /\ SameSettings(x, u)
      /\ u.log = x.log /\ u.open = x.open /\ u.missed = x.missed
      /\ MessagesIn(Text(u)) = MessagesIn(Text(x))
      /\ Held(u) = Held(x)
   BY <1>2, <1>7, TextItems, WrittenText
<1>9. Held(x) = Held(v)
   BY <1>3, <1>5, <1>7, HeldSame DEF SameSettings
<1>10. ArchivesInv(v, clock) => ArchivesInv(u, clock)
   <2>1. u.archives = v.archives /\ u.num = v.num
      BY <1>3, <1>7, <1>8 DEF SameSettings
   <2> QED
      BY <2>1 DEF ArchivesInv
<1>11. SameArguments(t, u) /\ u.num = v.num /\ ~u.failed
   <2>1. ~w.failed
      BY <1>3, <1>4 DEF IsPrepared, RotateMembers
   <2>2. SameArguments(w, x) /\ x.num = w.num /\ x.failed = w.failed
      BY <1>7 DEF SameSettings
   <2>3. SameArguments(x, u) /\ u.num = x.num /\ u.failed = x.failed
      BY <1>8 DEF SameSettings
   <2>4. SameArguments(t, v) /\ SameArguments(v, w) /\ w.num = v.num
      BY <1>1, <1>3
   <2>5. SameArguments(t, u)
      BY <2>2, <2>3, <2>4 DEF SameArguments
   <2> QED
      BY <2>1, <2>2, <2>3, <2>4, <2>5
<1> QED
   BY <1>1, <1>7, <1>8, <1>9, <1>10, <1>11 DEF u

(* A rotation keeps the invariant and, unless the number of an archive is not   *)
(* new, all messages; without a failure the new file has none.                   *)
LEMMA RotationResult ==
   ASSUME NEW t, RotateInv(t), NEW u \in Rotations(t), clock \in Nat
   PROVE  /\ RotateInv(u) /\ SameArguments(t, u) /\ u.log = t.log
          /\ ~u.open => u.failed
          /\ u.failed \/ MessagesIn(Text(u)) = {}
          /\ u.missed = 0 \/ (~u.open /\ u.missed = t.missed)
          /\ Held(u) \subseteq Held(t)
          /\ ArchivesInv(t, clock) => ArchivesInv(u, clock) /\ Held(u) = Held(t)
<1>1. CASE ~t.open /\ u = WithFailure(t)
   <2>1. /\ RotateInv(u) /\ SameArguments(t, u) /\ u.failed
         /\ u.log = t.log /\ u.open = t.open /\ u.missed = t.missed
         /\ u.num = t.num /\ u.archives = t.archives /\ Held(u) = Held(t)
      BY <1>1, WithFailureResult
   <2>2. ArchivesInv(t, clock) => ArchivesInv(u, clock)
      BY <2>1 DEF ArchivesInv
   <2> QED
      BY <1>1, <2>1, <2>2
<1>2. ASSUME t.open, NEW v \in {ClosedToRotate(t), Written(Moved(t), Refusal)},
             u = WithFailure(v) \/ u = OpenedAt(WithFailure(v), t.path)
      PROVE  /\ RotateInv(u) /\ SameArguments(t, u) /\ u.log = t.log /\ u.failed /\ u.missed = 0
             /\ Held(u) \subseteq Held(t)
             /\ ArchivesInv(t, clock) => ArchivesInv(u, clock) /\ Held(u) = Held(t)
   <2>1. /\ RotateInv(v) /\ SameArguments(t, v) /\ v.log = t.log /\ v.path = t.path /\ ~v.open
         /\ v.missed = 0
         /\ Held(v) \subseteq Held(t)
         /\ ArchivesInv(t, clock) => ArchivesInv(v, clock) /\ Held(v) = Held(t)
      <3>1. CASE v = ClosedToRotate(t)
         <4>1. /\ RotateInv(v) /\ SameArguments(t, v) /\ v.num = t.num + 1
               /\ v.archives = t.archives /\ v.log = t.log /\ v.path = t.path
               /\ ~v.open /\ v.missed = 0 /\ Held(v) = Held(t)
            BY <3>1, ClosedToRotateResult
         <4>2. ArchivesInv(t, clock) => ArchivesInv(v, clock)
            BY <4>1 DEF ArchivesInv, RotateInv, IsRotateSink, IsPrepared
         <4> QED
            BY <4>1, <4>2
      <3>2. CASE v = Written(Moved(t), Refusal)
         <4> DEFINE w == Moved(t)
         <4>1. /\ RotateInv(w) /\ SameArguments(t, w)
               /\ w.log = t.log /\ w.path = t.path /\ ~w.open /\ w.missed = 0
               /\ Held(w) \subseteq Held(t)
               /\ ArchivesInv(t, clock) => ArchivesInv(w, clock) /\ Held(w) = Held(t)
            BY MovedResult
         <4> HIDE DEF w
         <4>2. v = Written(w, Refusal)
            BY <3>2 DEF w
         <4>3. /\ RotateInv(v) /\ SameSettings(w, v)
               /\ v.log = w.log /\ v.path = w.path /\ v.open = w.open /\ v.missed = w.missed
               /\ Held(v) = Held(w)
            BY <4>1, <4>2, TextItems, WrittenText
         <4>4. SameArguments(t, v) /\ (ArchivesInv(w, clock) => ArchivesInv(v, clock))
            BY <4>1, <4>3 DEF SameSettings, SameArguments, ArchivesInv
         <4> QED
            BY <4>1, <4>3, <4>4
      <3> QED
         BY <3>1, <3>2
   <2> DEFINE f == WithFailure(v)
   <2>2. /\ RotateInv(f) /\ SameArguments(v, f) /\ f.failed
         /\ f.log = v.log /\ f.path = v.path /\ f.open = v.open /\ f.bad = v.bad /\ f.missed = v.missed
         /\ f.num = v.num /\ f.archives = v.archives /\ Held(f) = Held(v)
      BY <2>1, WithFailureResult
   <2>3. u = f \/ u = OpenedAt(f, f.path)
      BY <1>2, <2>1, <2>2
   <2> HIDE DEF f
   <2>4. /\ SameArguments(t, f) /\ (ArchivesInv(t, clock) => ArchivesInv(f, clock) /\ Held(f) = Held(t))
      BY <2>1, <2>2 DEF SameArguments, ArchivesInv
   <2>5. CASE u = f
      BY <2>1, <2>2, <2>4, <2>5
   <2>6. CASE u = OpenedAt(f, f.path)
      <3>1. IsStream(f) /\ IsPrepared(f) /\ ~f.open /\ f.path \in DOMAIN f.files
            /\ f.path = PathOf(f.log)
         BY <2>1, <2>2 DEF RotateInv, IsRotateSink, IsPrepared
      <3>2. /\ IsStream(u) /\ Same(f, u, {"path", "open", "files"}) /\ u.path = f.path
            /\ InStream(u) = InStream(f)
         BY <2>6, <3>1, OpenedResult
      <3>3. /\ SameSettings(f, u) /\ u.size = f.size /\ u.counter = f.counter /\ u.log = f.log
            /\ u.bad = f.bad /\ u.buf = f.buf /\ u.missed = f.missed
         BY <3>1, <3>2
            DEF IsPrepared, IsStream, StreamFields, RotateMembers, Same, SameSettings, SameArguments
      <3>4. u.path \in DOMAIN u.files
         BY <2>6, <3>1, OpenedResult
      <3>5. RotateInv(u)
         <4>1. IsRotateSink(u)
            BY <3>1, <3>2, <3>3, <3>4 DEF IsRotateSink, IsPrepared, SameSettings, SameArguments
         <4>2. PolicyInv(u) /\ MissedInv(u) /\ LimitInv(u)
            BY <2>2, <3>3
               DEF RotateInv, PolicyInv, MissedInv, LimitInv, SameSettings, SameArguments
         <4> QED
            BY <4>1, <4>2 DEF RotateInv
      <3>6. Held(u) = Held(f)
         BY <3>2, <3>3, HeldSame DEF SameSettings
      <3>7. SameArguments(t, u) /\ u.failed /\ (ArchivesInv(f, clock) => ArchivesInv(u, clock))
         BY <2>2, <2>4, <3>3 DEF SameSettings, SameArguments, ArchivesInv
      <3> QED
         BY <2>1, <2>2, <2>4, <3>3, <3>5, <3>6, <3>7
   <2> QED
      BY <2>3, <2>5, <2>6
<1>3. ASSUME t.open, NEW order, u \in Expirations(Created(t), order)
      PROVE  /\ RotateInv(u) /\ SameArguments(t, u) /\ u.log = t.log /\ u.open /\ u.missed = 0
             /\ MessagesIn(Text(u)) = {}
             /\ Held(u) \subseteq Held(t)
             /\ ArchivesInv(t, clock) => ArchivesInv(u, clock) /\ Held(u) = Held(t)
   <2> DEFINE c == Created(t)
   <2>1. /\ RotateInv(c) /\ SameArguments(t, c)
         /\ c.log = t.log /\ c.open /\ c.missed = 0
         /\ MessagesIn(Text(c)) = {}
         /\ Held(c) \subseteq Held(t)
         /\ ArchivesInv(t, clock) => ArchivesInv(c, clock) /\ Held(c) = Held(t)
      BY <1>3, CreatedResult
   <2>2. u \in Expirations(c, order)
      BY <1>3
   <2> HIDE DEF c
   <2>3. /\ RotateInv(u) /\ SameArguments(c, u) /\ u.num = c.num
         /\ u.log = c.log /\ u.open = c.open /\ u.missed = c.missed /\ Text(u) = Text(c)
         /\ u.archives \subseteq c.archives
         /\ Held(u) = Held(c)
      BY <2>1, <2>2, ExpiredResult
   <2>4. SameArguments(t, u) /\ (ArchivesInv(c, clock) => ArchivesInv(u, clock))
      BY <2>1, <2>3 DEF SameArguments, ArchivesInv
   <2> QED
      BY <2>1, <2>3, <2>4
<1> QED
   BY <1>1, <1>2, <1>3, RotationCases

--------------------------------------------------------------------------------
(* Calls and processes *)

(* flush keeps the invariant, and empties the buffer unless badbit is set. *)
LEMMA FlushedKeeps ==
   ASSUME NEW t, RotateInv(t)
   PROVE  LET u == Flushed(t) IN
          /\ RotateInv(u) /\ SameSettings(t, u) /\ u.log = t.log /\ u.open = t.open
          /\ u.missed = t.missed /\ Held(u) = Held(t)
          /\ u.bad \/ u.buf = <<>>
          /\ u.size = t.size /\ u.path = t.path /\ Text(u) = Text(t)
<1> DEFINE u == Flushed(t)
<1>1. IsRotateSink(t) /\ t.policy \in Nat
   BY DEF RotateInv, IsRotateSink, IsPrepared
<1>2. /\ IsRotateSink(u) /\ SameSettings(t, u)
      /\ u.size = t.size /\ u.counter = t.counter /\ u.log = t.log /\ u.path = t.path
      /\ u.open = t.open /\ (t.bad => u.bad) /\ u.missed = t.missed
      /\ u.bad \/ u.buf = <<>>
      /\ Text(u) = Text(t)
      /\ InStream(u) = InStream(t)
   BY <1>1, FlushedRotate
<1> HIDE DEF u
<1>3. u.bad \/ Cardinality(MessagesIn(u.buf)) = 0
   BY <1>2, MessagesInEmpty, FS_EmptySet
<1>4. u.policy = t.policy
   BY <1>2 DEF SameSettings, SameArguments
<1>5. PolicyInv(u)
   BY <1>1, <1>2, <1>3, <1>4 DEF RotateInv, PolicyInv
<1>6. MissedInv(u) /\ LimitInv(u)
   BY <1>2 DEF RotateInv, MissedInv, LimitInv, SameSettings
<1>7. Held(u) = Held(t)
   BY <1>2, HeldSame DEF SameSettings
<1> QED
   BY <1>2, <1>5, <1>6, <1>7 DEF RotateInv, u

(* What a step changes that is neither of the stream nor of the history.        *)
LEMMA MembersKept ==
   ASSUME NEW t, RotateInv(t), NEW u, NEW changed,
          Same(t, u, changed), changed \subseteq {"max", "count", "policy", "counter"},
          u.max \in Nat, u.count \in Nat, u.policy \in Nat, u.counter \in Nat, PolicyInv(u)
   PROVE  /\ RotateInv(u) /\ u.kind = t.kind /\ u.filter = t.filter /\ u.failed = t.failed
          /\ u.open = t.open /\ u.missed = t.missed /\ u.num = t.num /\ u.archives = t.archives
          /\ Held(u) = Held(t)
<1>1. IsRotateSink(t) /\ IsPrepared(t) /\ IsStream(t)
   BY DEF RotateInv, IsRotateSink, IsPrepared
<1>2. changed \cap StreamFields = {}
   BY DEF StreamFields
<1>3. /\ IsStream(u)
      /\ u.path = t.path /\ u.open = t.open /\ u.bad = t.bad /\ u.buf = t.buf /\ u.files = t.files
      /\ u.missed = t.missed /\ u.kind = t.kind /\ InStream(u) = InStream(t)
   BY <1>1, <1>2, OtherFields
<1>4. /\ DOMAIN u = DOMAIN t /\ u.log = t.log /\ u.size = t.size /\ u.num = t.num
      /\ u.filter = t.filter /\ u.archives = t.archives /\ u.expired = t.expired /\ u.failed = t.failed
   BY <1>1 DEF IsPrepared, RotateMembers, Same
<1>5. IsRotateSink(u)
   BY <1>1, <1>3, <1>4 DEF IsRotateSink, IsPrepared
<1>6. MissedInv(u) /\ LimitInv(u)
   BY <1>3, <1>4 DEF RotateInv, MissedInv, LimitInv, Text
<1>7. Held(u) = Held(t)
   BY <1>3, <1>4, HeldSame
<1> QED
   BY <1>3, <1>4, <1>5, <1>6, <1>7 DEF RotateInv

(* Whether the device is full is in no part of the invariant of a rotating    *)
(* sink.                                                                      *)
LEMMA FullResult ==
   ASSUME NEW t, IsStream(t), NEW u, Same(t, u, {"full"}), u.full \in BOOLEAN
   PROVE  /\ IsStream(u) /\ InStream(u) = InStream(t)
          /\ u.kind = t.kind /\ u.open = t.open /\ u.bad = t.bad /\ u.buf = t.buf /\ u.lost = t.lost
          /\ RotateInv(t) => /\ RotateInv(u) /\ u.failed = t.failed /\ u.filter = t.filter
                             /\ u.missed = t.missed /\ u.num = t.num /\ u.archives = t.archives
                             /\ Held(u) = Held(t)
          /\ IsFileSink(t) => IsFileSink(u)
<1>1. /\ u.path = t.path /\ u.open = t.open /\ u.bad = t.bad /\ u.buf = t.buf /\ u.files = t.files
      /\ u.lost = t.lost /\ u.missed = t.missed /\ u.kind = t.kind /\ DOMAIN u = DOMAIN t
   BY DEF IsStream, StreamFields, Same
<1>2. IsStream(u)
   BY <1>1 DEF IsStream
<1>3. InStream(u) = InStream(t)
   BY <1>1, InStreamSame
<1>4. ASSUME RotateInv(t)
      PROVE  /\ RotateInv(u) /\ u.failed = t.failed /\ u.filter = t.filter
             /\ u.missed = t.missed /\ u.num = t.num /\ u.archives = t.archives /\ Held(u) = Held(t)
   <2>1. /\ u.log = t.log /\ u.size = t.size /\ u.max = t.max /\ u.count = t.count /\ u.num = t.num
         /\ u.policy = t.policy /\ u.counter = t.counter /\ u.filter = t.filter
         /\ u.archives = t.archives /\ u.expired = t.expired /\ u.failed = t.failed
      BY <1>4 DEF RotateInv, IsRotateSink, IsPrepared, RotateMembers, Same
   <2>2. IsRotateSink(u)
      BY <1>1, <1>2, <1>4, <2>1 DEF RotateInv, IsRotateSink, IsPrepared
   <2>3. PolicyInv(u) /\ MissedInv(u) /\ LimitInv(u)
      BY <1>1, <1>4, <2>1 DEF RotateInv, PolicyInv, MissedInv, LimitInv, Text
   <2>4. Held(u) = Held(t)
      BY <1>3, <2>1, HeldSame
   <2> QED
      BY <1>1, <2>1, <2>2, <2>3, <2>4 DEF RotateInv
<1>5. IsFileSink(t) => IsFileSink(u)
   BY <1>1, <1>2 DEF IsFileSink
<1> QED
   BY <1>1, <1>2, <1>3, <1>4, <1>5

(* The end of a process: it is killed, or the destructor runs. *)
Stopped(t, killed) == IF killed THEN Killed(t) ELSE Closed(Flushed(Put(t, Bye)))

(* The end of a process closes the file and loses no message without a        *)
(* trace; with nothing kept back it loses none.                               *)
LEMMA StoppedResult ==
   ASSUME NEW t, IsStream(t), NEW killed
   PROVE  LET u == Stopped(t, killed) IN
          /\ IsStream(u) /\ Same(t, u, {"open", "bad", "buf", "files", "lost", "missed"}) /\ ~u.open
          /\ u.full = t.full /\ u.kind = t.kind
          /\ InStream(u) = InStream(t)
          /\ t.open /\ KeepsNothing(t) => u.lost = {}
<1> DEFINE u == Stopped(t, killed)
           changed == {"open", "bad", "buf", "files", "lost", "missed"}
<1>1. /\ IsStream(u) /\ Same(t, u, changed) /\ ~u.open /\ InStream(u) = InStream(t)
      /\ t.open /\ KeepsNothing(t) => u.lost = {}
   <2>1. CASE killed
      <3>1. u = Killed(t)
         BY <2>1 DEF Stopped
      <3> HIDE DEF u
      <3>2. /\ IsStream(u) /\ Same(t, u, {"open", "bad", "buf", "lost", "missed"}) /\ ~u.open
            /\ u.lost = t.lost \cup MessagesIn(t.buf) /\ InStream(u) = InStream(t)
         BY <3>1, KilledResult
      <3>3. Same(t, u, changed)
         BY <3>2 DEF Same
      <3> QED
         BY <3>2, <3>3 DEF KeepsNothing
   <2>2. CASE ~killed
      <3> DEFINE p == Put(t, Bye)
                 f == Flushed(p)
      <3>1. u = Closed(f)
         BY <2>2 DEF Stopped
      <3>2. Bye \in Items /\ {Bye} \cap Messages = {} /\ Bye \notin Messages
         BY TextItems
      <3>3. /\ IsStream(p) /\ Same(t, p, {"buf", "lost", "missed"})
            /\ t.open /\ ~t.bad => p.lost = t.lost
            /\ InStream(p) = InStream(t) \cup ({Bye} \cap Messages)
         BY <3>2, PutResult
      <3> HIDE DEF p
      <3>4. /\ IsStream(f) /\ Same(p, f, {"bad", "buf", "files"})
            /\ f.bad \/ f.buf = <<>>
            /\ ~p.full => f.bad = p.bad
            /\ InStream(f) = InStream(p)
         BY <3>3, FlushedResult
      <3> HIDE DEF f
      <3>5. /\ IsStream(u) /\ Same(f, u, changed) /\ ~u.open /\ InStream(u) = InStream(f)
            /\ u.lost = f.lost \/ (f.open => f.full)
         <4> DEFINE c == Closed(f)
         <4>1. IsStream(f)
            BY <3>4
         <4>2. /\ IsStream(c) /\ Same(f, c, changed) /\ ~c.open /\ InStream(c) = InStream(f)
               /\ \/ c.files = f.files /\ c.lost = f.lost \cup MessagesIn(f.buf) /\ (f.open => f.full)
                  \/ f.open /\ c.lost = f.lost /\ ~f.full
            BY <4>1, ClosedResult
         <4> HIDE DEF c
         <4>3. u = c
            BY <3>1 DEF c
         <4> HIDE DEF u
         <4> QED
            BY <4>2, <4>3
      <3> HIDE DEF u
      <3>6. Same(t, u, changed)
         BY <3>3, <3>4, <3>5 DEF Same
      <3>7. /\ p.open = t.open /\ p.full = t.full /\ p.bad = t.bad
            /\ f.open = t.open /\ f.full = t.full /\ f.lost = p.lost
         BY <3>3, <3>4 DEF IsStream, StreamFields, Same
      <3>8. InStream(u) = InStream(t)
         BY <3>2, <3>3, <3>4, <3>5
      <3> QED
         BY <3>3, <3>5, <3>6, <3>7, <3>8 DEF KeepsNothing
   <2> QED
      BY <2>1, <2>2
<1> HIDE DEF u
<1>2. u.full = t.full /\ u.kind = t.kind
   BY <1>1 DEF IsStream, StreamFields, Same
<1> QED
   BY <1>1, <1>2 DEF u

(* A sink before its constructor has no file, no message and the members      *)
(* given.                                                                     *)
LEMMA NewSinkResult ==
   ASSUME NEW members, "kind" \in DOMAIN members,
          DOMAIN members \cap StreamFields = {"kind"}
   PROVE  LET u == NewSink(members) IN
          /\ IsStream(u) /\ ~u.open /\ ~u.full /\ u.lost = {} /\ InStream(u) = {}
          /\ DOMAIN members \subseteq DOMAIN u
          /\ \A x \in DOMAIN members : u[x] = members[x]
<1> DEFINE u == NewSink(members)
<1>1. DOMAIN NewStream = StreamFields \ {"kind"}
   BY DEF NewStream, StreamFields
<1>2. /\ DOMAIN u = DOMAIN NewStream \cup DOMAIN members
      /\ \A x \in DOMAIN members : u[x] = members[x]
      /\ \A x \in DOMAIN NewStream \ DOMAIN members : u[x] = NewStream[x]
   BY DEF NewSink
<1> HIDE DEF u
<1>3. /\ u.path = <<>> /\ u.open = FALSE /\ u.bad = FALSE /\ u.buf = <<>> /\ u.files = <<>>
      /\ u.full = FALSE /\ u.lost = {} /\ u.missed = 0
   <2>1. \A x \in StreamFields \ {"kind"} : u[x] = NewStream[x]
      BY <1>1, <1>2
   <2> QED
      BY <2>1 DEF StreamFields, NewStream
<1>4. DOMAIN <<>> = {}
   OBVIOUS
<1>5. IsStream(u)
   <2>1. <<>> \in Seq(Items)
      OBVIOUS
   <2>2. StreamFields \subseteq DOMAIN u
      BY <1>1, <1>2
   <2>3. \A path \in DOMAIN u.files : u.files[path] \in Seq(Items)
      BY <1>3, <1>4
   <2>4. u.buf \in Seq(Items) /\ u.missed \in Nat
      BY <1>3, <2>1
   <2> QED
      BY <1>3, <2>2, <2>3, <2>4 DEF IsStream
<1>6. InStream(u) = {}
   <2>1. ASSUME NEW m
         PROVE  m \notin InStream(u)
      BY <1>3, <1>4, InStreamMembers, MessagesInEmpty
   <2> QED
      BY <2>1
<1> QED
   BY <1>2, <1>3, <1>5, <1>6 DEF u

(* The constructor of FileRotateSink, over whatever files a process before    *)
(* it left, makes the invariant true.                                         *)
LEMMA ConstructedResult ==
   ASSUME NEW t, IsPrepared(t), NEW start
   PROVE  LET u == Constructed(t, start) IN
          /\ RotateInv(u) /\ u.open /\ u.filter = t.filter /\ u.archives = t.archives
          /\ u.missed = 0 /\ Held(u) = Held(t)
          /\ u.log = [dir |-> start.dir, name |-> prefixSanityFix(start.name)] /\ u.num = 0
<1> DEFINE l == [dir |-> start.dir, name |-> prefixSanityFix(start.name)]
           v == [t EXCEPT !.num = 0, !.failed = FALSE]
           u == Constructed(t, start)
           changed == {"num", "failed"}
<1>1. u = ChangedTo(v, l)
   BY DEF Constructed, ChangedTo
<1>2. /\ Same(t, v, changed) /\ changed \cap StreamFields = {} /\ SameArguments(t, v)
      /\ v.num = 0 /\ v.size = t.size /\ v.counter = t.counter /\ v.archives = t.archives
      /\ v.expired = t.expired /\ IsStream(t)
   <2>1. "num" \in DOMAIN t /\ "failed" \in DOMAIN t /\ IsStream(t)
      BY DEF IsPrepared, RotateMembers
   <2>2. Same(t, v, changed) /\ v.num = 0
      BY <2>1 DEF Same
   <2>3. changed \cap StreamFields = {}
      BY DEF StreamFields
   <2>4. /\ SameArguments(t, v) /\ v.size = t.size /\ v.counter = t.counter
         /\ v.archives = t.archives /\ v.expired = t.expired
      BY DEF SameArguments
   <2> HIDE DEF v, changed
   <2> QED
      BY <2>1, <2>2, <2>3, <2>4
<1> HIDE DEF v, l, u, changed
<1>3. IsStream(v) /\ InStream(v) = InStream(t)
   BY <1>2, OtherFields
<1>4. IsPrepared(v)
   BY <1>2, <1>3 DEF IsPrepared, SameArguments
<1>5. /\ RotateInv(u) /\ SameSettings(v, u) /\ u.log = l /\ u.open /\ u.missed = 0
      /\ InStream(u) = InStream(v)
   BY <1>1, <1>4, ChangedToResult
<1>6. u.filter = t.filter /\ u.archives = t.archives /\ u.expired = t.expired /\ u.num = 0
   BY <1>2, <1>5 DEF SameSettings, SameArguments
<1> QED
   BY <1>3, <1>5, <1>6, HeldSame DEF u, l

--------------------------------------------------------------------------------
(* The invariant.  SinkInv is inductive: the limit, the policy and the losses  *)
(* to badbit each depend on a member that other calls change, so that they     *)
(* hold together with what these members count; and no archive replaces        *)
(* another because the number and the time of the next one are new.            *)

(* The messages that the sink accounts for. *)
HeldBy(t) == IF t.kind = "FileRotateSink" THEN Held(t) ELSE InStream(t)

(* The history. *)
LogOK == /\ {"accepted", "disturbed", "full", "starts", "calls"} \subseteq DOMAIN log
         /\ log.accepted \in Nat /\ log.disturbed \in BOOLEAN /\ log.full \in BOOLEAN

(* A FileRotateSink without a file is one whose last rotation failed. *)
RotateSinkInv ==
   /\ RotateInv(s)
   /\ ~s.open => s.failed
   /\ ~log.disturbed => ArchivesInv(s, clock)

(* A FileSink keeps messages back only after its device was full. *)
FileSinkInv == IsFileSink(s) /\ (~log.full => KeepsNothing(s))

(* The sink accounts for nothing it was not given, and for all it was given. *)
HeldInv == /\ HeldBy(s) \subseteq 1..log.accepted
           /\ ~log.disturbed => 1..log.accepted \subseteq HeldBy(s) \cup Ignored

(* The inductive invariant. *)
SinkInv == clock \in Nat /\ LogOK /\ (RotateSinkInv \/ FileSinkInv) /\ HeldInv

(* The invariant for the class that the sink is of. *)
LEMMA Kinds ==
   ASSUME SinkInv
   PROVE  /\ s.kind = "FileRotateSink" => RotateSinkInv
          /\ s.kind = "FileSink" => FileSinkInv
          /\ s.kind \in {"FileRotateSink", "FileSink"}
   BY DEF SinkInv, RotateSinkInv, FileSinkInv, RotateInv, IsRotateSink, IsPrepared, IsFileSink

(* A step of a rotating sink that keeps its messages. *)
LEMMA RotateStep ==
   ASSUME SinkInv, s.kind = "FileRotateSink", LogOK', clock' \in Nat,
          RotateInv(s'), ~s'.open => s'.failed, s'.filter = s.filter,
          log'.accepted = log.accepted, log.disturbed => log'.disturbed,
          Held(s') \subseteq Held(s),
          ~log'.disturbed => Held(s') = Held(s) /\ ArchivesInv(s', clock')
   PROVE  SinkInv'
<1>1. s'.kind = "FileRotateSink"
   BY DEF RotateInv, IsRotateSink, IsPrepared
<1>2. RotateSinkInv'
   BY DEF RotateSinkInv
<1>3. HeldBy(s) = Held(s) /\ HeldBy(s') = Held(s')
   BY <1>1 DEF HeldBy
<1>4. Ignored = s.filter /\ Ignored' = s.filter
   BY <1>1 DEF Ignored, Rotates
<1>5. log.disturbed \in BOOLEAN
   BY DEF SinkInv, LogOK
<1>6. HeldInv'
   <2>1. HeldBy(s') \subseteq 1..log'.accepted
      BY <1>3 DEF SinkInv, HeldInv
   <2>2. ~log'.disturbed => 1..log'.accepted \subseteq HeldBy(s') \cup Ignored'
      BY <1>3, <1>4, <1>5 DEF SinkInv, HeldInv
   <2> QED
      BY <2>1, <2>2 DEF HeldInv
<1> QED
   BY <1>2, <1>6 DEF SinkInv

(* A step of a file sink that keeps its messages. *)
LEMMA FileSinkStep ==
   ASSUME SinkInv, s.kind = "FileSink", LogOK', clock' \in Nat,
          IsFileSink(s'), ~log'.full => KeepsNothing(s'),
          log'.accepted = log.accepted, log.disturbed => log'.disturbed,
          InStream(s') = InStream(s)
   PROVE  SinkInv' /\ s'.kind = "FileSink"
<1>1. s'.kind = "FileSink"
   BY DEF IsFileSink
<1>2. FileSinkInv'
   BY DEF FileSinkInv
<1>3. HeldBy(s) = InStream(s) /\ HeldBy(s') = InStream(s')
   BY <1>1 DEF HeldBy
<1>4. Ignored = {} /\ Ignored' = {}
   BY <1>1 DEF Ignored, Rotates
<1>5. log.disturbed \in BOOLEAN
   BY DEF SinkInv, LogOK
<1>6. HeldInv'
   <2>1. HeldBy(s') \subseteq 1..log'.accepted
      BY <1>3 DEF SinkInv, HeldInv
   <2>2. ~log'.disturbed => 1..log'.accepted \subseteq HeldBy(s') \cup Ignored'
      BY <1>3, <1>4, <1>5 DEF SinkInv, HeldInv
   <2> QED
      BY <2>1, <2>2 DEF HeldInv
<1> QED
   BY <1>1, <1>2, <1>6 DEF SinkInv

(* The numbers up to the next one. *)
LEMMA OneMore ==
   ASSUME NEW n \in Nat
   PROVE  1..(n + 1) = (1..n) \cup {n + 1}
   OBVIOUS

(* A message that is written, or that the filter ignores. *)
LEMMA MessageStep ==
   ASSUME SinkInv, clock' = clock, NEW m, m = log.accepted + 1, m \in Messages,
          log' = [log EXCEPT !.accepted = m],
          RotateSinkInv' \/ FileSinkInv',
          s'.kind = s.kind, Ignored' = Ignored,
          HeldBy(s') \subseteq HeldBy(s) \cup {m},
          ~log.disturbed => HeldBy(s) \subseteq HeldBy(s') /\ m \in HeldBy(s') \cup Ignored
   PROVE  SinkInv'
<1>1. log.accepted \in Nat /\ log'.accepted = m /\ log'.disturbed = log.disturbed
   BY DEF SinkInv, LogOK
<1>2. LogOK'
   <2>1. log'.full = log.full /\ DOMAIN log' = DOMAIN log
      BY DEF SinkInv, LogOK
   <2>2. m \in Nat
      BY <1>1
   <2> QED
      BY <1>1, <2>1, <2>2 DEF SinkInv, LogOK
<1>3. 1..m = (1..log.accepted) \cup {m}
   BY <1>1, OneMore
<1>4. HeldInv'
   <2>1. HeldBy(s') \subseteq 1..log'.accepted
      BY <1>1, <1>3 DEF SinkInv, HeldInv
   <2>2. ~log'.disturbed => 1..log'.accepted \subseteq HeldBy(s') \cup Ignored'
      BY <1>1, <1>3 DEF SinkInv, HeldInv
   <2> QED
      BY <2>1, <2>2 DEF HeldInv
<1> QED
   BY <1>2, <1>4 DEF SinkInv

(* The first process starts without a message. *)
LEMMA NewHistoryResult ==
   ASSUME clock = 0, log = NewHistory
   PROVE  clock \in Nat /\ LogOK /\ log.accepted = 0 /\ ~log.disturbed
   BY DEF NewHistory, LogOK

(* The invariant holds when a FileRotateSink has been constructed. *)
LEMMA RotateInitHolds ==
   ASSUME RotateInit
   PROVE  SinkInv /\ s.kind = "FileRotateSink" /\ s.archives = {} /\ s.log \in Logs
<1>1. PICK start \in Starts, max \in Sizes, count \in Counts, policy \in Policies, filter \in Filters :
         s = Constructed(
                NewSink([kind |-> "FileRotateSink", log |-> start, size |-> 0, max |-> max,
                         count |-> count, num |-> 0, policy |-> policy, counter |-> policy,
                         filter |-> filter, archives |-> {}, expired |-> {}, failed |-> FALSE,
                         stuck |-> {}]),
                start)
   BY DEF RotateInit
<1> DEFINE members == [kind |-> "FileRotateSink", log |-> start, size |-> 0, max |-> max,
                       count |-> count, num |-> 0, policy |-> policy, counter |-> policy,
                       filter |-> filter, archives |-> {}, expired |-> {}, failed |-> FALSE,
                         stuck |-> {}]
           t == NewSink(members)
<1>2. s = Constructed(t, start)
   BY <1>1
<1>3. max \in Nat /\ count \in Nat /\ policy \in Nat
   BY FileRotateSinkAssumption
<1>4. /\ DOMAIN members = RotateMembers \cup {"kind"}
      /\ members.kind = "FileRotateSink" /\ members.size = 0 /\ members.max = max
      /\ members.count = count /\ members.num = 0 /\ members.policy = policy
      /\ members.counter = policy /\ members.archives = {} /\ members.expired = {}
   BY DEF RotateMembers
<1> HIDE DEF members
<1>5. "kind" \in DOMAIN members /\ DOMAIN members \cap StreamFields = {"kind"}
   BY <1>4 DEF RotateMembers, StreamFields
<1>6. /\ IsStream(t) /\ InStream(t) = {}
      /\ DOMAIN members \subseteq DOMAIN t
      /\ \A x \in DOMAIN members : t[x] = members[x]
   BY <1>5, NewSinkResult
<1> HIDE DEF t
<1>7. /\ t.kind = "FileRotateSink" /\ t.size = 0 /\ t.max = max /\ t.count = count /\ t.num = 0
      /\ t.policy = policy /\ t.counter = policy /\ t.archives = {} /\ t.expired = {}
   BY <1>4, <1>6 DEF RotateMembers
<1>8. IsPrepared(t)
   BY <1>3, <1>4, <1>6, <1>7 DEF IsPrepared
<1>9. /\ RotateInv(s) /\ s.open /\ s.archives = {} /\ Held(s) = Held(t)
      /\ s.log = [dir |-> start.dir, name |-> prefixSanityFix(start.name)]
   BY <1>2, <1>7, <1>8, ConstructedResult
<1>10. Held(t) = {}
   <2>1. ASSUME NEW m
         PROVE  m \notin InArchives(t)
      BY <1>7, InArchivesMembers
   <2> QED
      BY <1>6, <2>1 DEF Held
<1>11. clock \in Nat /\ LogOK /\ log.accepted = 0
   BY NewHistoryResult DEF RotateInit
<1>12. RotateSinkInv
   BY <1>9 DEF RotateSinkInv, ArchivesInv
<1>13. HeldInv
   <2>1. s.kind = "FileRotateSink"
      BY <1>9 DEF RotateInv, IsRotateSink, IsPrepared
   <2> QED
      BY <1>9, <1>10, <1>11, <2>1 DEF HeldInv, HeldBy
<1>14. s.log \in Logs
   BY <1>9 DEF Logs
<1>15. s.kind = "FileRotateSink"
   BY <1>9 DEF RotateInv, IsRotateSink, IsPrepared
<1> QED
   BY <1>9, <1>11, <1>12, <1>13, <1>14, <1>15 DEF SinkInv

(* The invariant holds when a FileSink has been constructed. *)
LEMMA FileSinkInitHolds ==
   ASSUME FileSinkInit
   PROVE  SinkInv /\ s.kind = "FileSink"
<1>1. PICK prefix \in LogPrefixes, dir \in Dirs, id \in Ids, succeeds \in BOOLEAN :
         s = FileSinkConstructed(NewSink([kind |-> "FileSink", prefix |-> prefix, first |-> TRUE]),
                                 prefix, dir, id, succeeds)
   BY DEF FileSinkInit
<1> DEFINE members == [kind |-> "FileSink", prefix |-> prefix, first |-> TRUE]
           t == NewSink(members)
<1>2. s = FileSinkConstructed(t, prefix, dir, id, succeeds)
   BY <1>1
<1>3. PICK path : s = [Replaced(t, path) EXCEPT !.prefix = prefixSanityFix(prefix), !.first = TRUE]
   BY <1>2 DEF FileSinkConstructed
<1>4. /\ DOMAIN members = {"kind", "prefix", "first"} /\ members.kind = "FileSink"
   OBVIOUS
<1> HIDE DEF members
<1>5. "kind" \in DOMAIN members /\ DOMAIN members \cap StreamFields = {"kind"}
   BY <1>4 DEF StreamFields
<1>6. /\ IsStream(t) /\ ~t.open /\ ~t.full /\ t.lost = {} /\ InStream(t) = {}
      /\ DOMAIN members \subseteq DOMAIN t
      /\ \A x \in DOMAIN members : t[x] = members[x]
   BY <1>5, NewSinkResult
<1> HIDE DEF t
<1>7. t.kind = "FileSink" /\ {"prefix", "first"} \subseteq DOMAIN t
   BY <1>4, <1>6
<1>8. IsFileSink(s) /\ KeepsNothing(s) /\ InStream(s) = {}
   BY <1>3, <1>6, <1>7, ReplacedFileSink
<1>9. clock \in Nat /\ LogOK /\ log.accepted = 0
   BY NewHistoryResult DEF FileSinkInit
<1>10. HeldInv
   <2>1. s.kind = "FileSink"
      BY <1>8 DEF IsFileSink
   <2> QED
      BY <1>8, <1>9, <2>1 DEF HeldInv, HeldBy
<1> QED
   BY <1>8, <1>9, <1>10 DEF SinkInv, FileSinkInv, IsFileSink

(* The invariant holds at the start. *)
LEMMA InitHolds == Init => SinkInv
   BY RotateInitHolds, FileSinkInitHolds DEF Init

--------------------------------------------------------------------------------
(* FileRotateSink's steps *)

(* Counting a call or a start changes nothing else of the history. *)
LEMMA CalledResult ==
   ASSUME LogOK, NEW e, log' = [log EXCEPT !.calls = e] \/ log' = [log EXCEPT !.starts = e]
   PROVE  LogOK' /\ log'.accepted = log.accepted /\ log'.disturbed = log.disturbed /\ log'.full = log.full
<1>1. DOMAIN log' = DOMAIN log
   OBVIOUS
<1>2. log'.accepted = log.accepted /\ log'.disturbed = log.disturbed /\ log'.full = log.full
   BY DEF LogOK
<1> QED
   BY <1>1, <1>2 DEF LogOK

(* fileWrite keeps the invariant, with or without a rotation. *)
LEMMA FileWriteKeeps ==
   ASSUME SinkInv, s.kind = "FileRotateSink", FileWrite
   PROVE  SinkInv'
<1> DEFINE m == log.accepted + 1
<1>1. RotateSinkInv /\ clock \in Nat /\ log.accepted \in Nat /\ LogOK
   BY Kinds DEF SinkInv, LogOK
<1>2. m \in Messages /\ log' = [log EXCEPT !.accepted = m] /\ clock' = clock
   BY DEF FileWrite
<1>3. log'.disturbed = log.disturbed
   BY <1>1, <1>2 DEF LogOK
<1>4. Ignored = s.filter
   BY DEF Ignored, Rotates
<1>5. CASE m \in s.filter /\ UNCHANGED s
   <2>1. RotateSinkInv' /\ Ignored' = Ignored
      BY <1>1, <1>2, <1>3, <1>5 DEF RotateSinkInv, RotateInv, IsRotateSink, IsPrepared, IsStream,
            Ignored, Rotates, PolicyInv, MissedInv, LimitInv, Text
   <2> QED
      BY <1>2, <1>4, <1>5, <2>1, MessageStep
<1>6. ASSUME NEW t, RotateInv(t), SameArguments(s, t), ~t.open => t.failed,
             Held(t) \subseteq Held(s),
             ArchivesInv(s, clock) => ArchivesInv(t, clock) /\ Held(t) = Held(s),
             s' = Written(t, m)
      PROVE  SinkInv'
   <2>1. m \in Items
      BY <1>2 DEF Items
   <2>2. /\ RotateInv(s') /\ SameSettings(t, s') /\ s'.open = t.open
         /\ InStream(s') = InStream(t) \cup ({m} \cap Messages)
      BY <1>6, <2>1, WrittenResult
   <2>3. s'.kind = s.kind /\ s'.filter = s.filter
      BY <1>6, <2>2 DEF SameSettings, SameArguments
   <2>4. Held(s') = Held(t) \cup {m}
      BY <1>2, <2>2 DEF SameSettings, Held, InArchives, Archives
   <2>5. ArchivesInv(t, clock) => ArchivesInv(s', clock')
      BY <1>2, <2>2 DEF SameSettings, ArchivesInv
   <2>6. RotateSinkInv'
      BY <1>1, <1>3, <1>6, <2>2, <2>5 DEF RotateSinkInv, SameSettings
   <2>7. HeldBy(s) = Held(s) /\ HeldBy(s') = Held(s')
      BY <2>3 DEF HeldBy
   <2>8. Ignored' = Ignored
      BY <2>3 DEF Ignored, Rotates
   <2>9. ~log.disturbed => ArchivesInv(s, clock)
      BY <1>1 DEF RotateSinkInv
   <2> HIDE DEF m
   <2>10. HeldBy(s') \subseteq HeldBy(s) \cup {m}
      BY <1>6, <2>4, <2>7
   <2>11. ~log.disturbed => HeldBy(s) \subseteq HeldBy(s') /\ m \in HeldBy(s') \cup Ignored
      BY <1>6, <2>4, <2>7, <2>9
   <2>12. m = log.accepted + 1
      BY DEF m
   <2> QED
      BY <1>2, <2>3, <2>6, <2>8, <2>10, <2>11, <2>12, MessageStep
<1>7. CASE s' = Written(s, m)
   BY <1>1, <1>6, <1>7 DEF RotateSinkInv, SameArguments
<1>8. ASSUME NEW t \in Rotations(s), s' = Written(t, m)
      PROVE  SinkInv'
   <2>1. /\ RotateInv(t) /\ SameArguments(s, t) /\ (~t.open => t.failed)
         /\ Held(t) \subseteq Held(s)
         /\ ArchivesInv(s, clock) => ArchivesInv(t, clock) /\ Held(t) = Held(s)
      BY <1>1, <1>8, RotationResult DEF RotateSinkInv
   <2> QED
      BY <1>6, <1>8, <2>1
<1> QED
   BY <1>5, <1>7, <1>8 DEF FileWrite

(* rotateLog keeps the invariant, however it ends. *)
LEMMA RotateLogKeeps ==
   ASSUME SinkInv, s.kind = "FileRotateSink", RotateLog
   PROVE  SinkInv'
<1>1. RotateSinkInv /\ clock \in Nat /\ LogOK
   BY Kinds DEF SinkInv
<1>2. s' \in Rotations(s) /\ clock' = clock /\ log' = [log EXCEPT !.calls = @ + 1]
   BY DEF RotateLog, Called
<1>3. LogOK' /\ log'.accepted = log.accepted /\ log'.disturbed = log.disturbed
   BY <1>1, <1>2, CalledResult
<1>4. /\ RotateInv(s') /\ SameArguments(s, s') /\ (~s'.open => s'.failed)
      /\ Held(s') \subseteq Held(s)
      /\ ArchivesInv(s, clock) => ArchivesInv(s', clock) /\ Held(s') = Held(s)
   BY <1>1, <1>2, RotationResult DEF RotateSinkInv
<1>5. s'.filter = s.filter
   BY <1>4 DEF SameArguments
<1>6. ~log'.disturbed => Held(s') = Held(s) /\ ArchivesInv(s', clock')
   BY <1>1, <1>2, <1>3, <1>4 DEF RotateSinkInv
<1> QED
   BY <1>1, <1>2, <1>3, <1>4, <1>5, <1>6, RotateStep

(* A call that changes neither the archives nor whether a file is open. *)
LEMMA RotateCall ==
   ASSUME SinkInv, s.kind = "FileRotateSink", Called \/ UNCHANGED log, UNCHANGED clock,
          RotateInv(s'), s'.open = s.open, s'.failed = s.failed, s'.filter = s.filter,
          s'.archives = s.archives, s'.num = s.num, Held(s') = Held(s)
   PROVE  SinkInv'
<1>1. RotateSinkInv /\ clock \in Nat /\ LogOK
   BY Kinds DEF SinkInv
<1>2. LogOK' /\ log'.accepted = log.accepted /\ log'.disturbed = log.disturbed
   BY <1>1, CalledResult DEF Called, LogOK
<1>3. ArchivesInv(s, clock) => ArchivesInv(s', clock')
   BY DEF ArchivesInv
<1> QED
   BY <1>1, <1>2, <1>3, RotateStep DEF RotateSinkInv

(* flush, and the flush of the stream itself, keep the invariant. *)
LEMMA FlushKeeps ==
   ASSUME SinkInv, s.kind = "FileRotateSink", s' = Flushed(s), Called \/ UNCHANGED log, UNCHANGED clock
   PROVE  SinkInv'
<1>1. RotateInv(s)
   BY Kinds DEF RotateSinkInv
<1>2. RotateInv(s') /\ SameSettings(s, s') /\ s'.open = s.open /\ Held(s') = Held(s)
   BY <1>1, FlushedKeeps
<1> QED
   BY <1>2, RotateCall DEF SameSettings, SameArguments

(* setLogSizeCounter keeps the invariant. *)
LEMMA SetLogSizeCounterKeeps ==
   ASSUME SinkInv, s.kind = "FileRotateSink", SetLogSizeCounter
   PROVE  SinkInv'
<1>1. IsRotateSink(s)
   BY Kinds DEF RotateSinkInv, RotateInv
<1>2. /\ RotateInv(s') /\ SameSettings(s, s') /\ s'.open = s.open
      /\ InStream(s') = InStream(s)
   BY <1>1, CountedResult DEF SetLogSizeCounter
<1>3. Held(s') = Held(s)
   BY <1>2, HeldSame DEF SameSettings
<1> QED
   BY <1>2, <1>3, RotateCall DEF SetLogSizeCounter, SameSettings, SameArguments

(* changeLogFile keeps the invariant, with a file that can be opened and      *)
(* without.                                                                   *)
LEMMA ChangeLogFileKeeps ==
   ASSUME SinkInv, s.kind = "FileRotateSink", NEW dir, NEW name, ChangeLogFile(dir, name)
   PROVE  SinkInv'
<1> DEFINE l == [dir |-> dir, name |-> IF name = <<>> THEN s.log.name ELSE name]
<1>1. RotateSinkInv /\ RotateInv(s) /\ IsPrepared(s) /\ LogOK /\ clock \in Nat
   BY Kinds DEF RotateSinkInv, RotateInv, IsRotateSink, SinkInv
<1>2. s' = ChangedTo(s, l) \/ s' = Written(s, Refusal)
   BY DEF ChangeLogFile, ChangedTo, Changed
<1>3. CASE s' = ChangedTo(s, l)
   <2> HIDE DEF l
   <2>1. RotateInv(s') /\ SameSettings(s, s') /\ s'.open /\ InStream(s') = InStream(s)
      BY <1>1, <1>3, ChangedToResult
   <2>2. Held(s') = Held(s)
      BY <2>1, HeldSame DEF SameSettings
   <2>3. log' = [log EXCEPT !.calls = @ + 1] /\ clock' = clock
      BY DEF ChangeLogFile, Called
   <2>4. LogOK' /\ log'.accepted = log.accepted /\ log'.disturbed = log.disturbed
      BY <1>1, <2>3, CalledResult
   <2>5. s'.filter = s.filter
      BY <2>1 DEF SameSettings, SameArguments
   <2>6. ArchivesInv(s, clock) => ArchivesInv(s', clock')
      BY <2>1, <2>3 DEF ArchivesInv, SameSettings
   <2> QED
      BY <1>1, <2>1, <2>2, <2>3, <2>4, <2>5, <2>6, RotateStep DEF RotateSinkInv
<1>4. CASE s' = Written(s, Refusal)
   <2>1. RotateInv(s') /\ SameSettings(s, s') /\ s'.open = s.open /\ Held(s') = Held(s)
      BY <1>1, <1>4, TextItems, WrittenText
   <2> QED
      BY <2>1, RotateCall DEF ChangeLogFile, SameSettings, SameArguments
<1> QED
   BY <1>2, <1>3, <1>4

(* setMaxLogSize and setMaxArchiveLogCount keep the invariant. *)
LEMMA SetterKeeps ==
   ASSUME SinkInv, s.kind = "FileRotateSink", Called, UNCHANGED clock,
          \/ \E max \in Sizes : s' = [s EXCEPT !.max = max]
          \/ \E count \in Counts : s' = [s EXCEPT !.count = count]
   PROVE  SinkInv'
<1> DEFINE changed == {"max", "count"}
<1>1. RotateInv(s) /\ IsPrepared(s) /\ PolicyInv(s)
   BY Kinds DEF RotateSinkInv, RotateInv, IsRotateSink
<1>2. /\ Same(s, s', changed) /\ s'.max \in Nat /\ s'.count \in Nat
      /\ s'.policy = s.policy /\ s'.counter = s.counter /\ s'.bad = s.bad /\ s'.buf = s.buf
   BY <1>1, FileRotateSinkAssumption DEF IsPrepared, RotateMembers, IsStream, StreamFields, Same
<1>3. changed \subseteq {"max", "count", "policy", "counter"}
   OBVIOUS
<1> HIDE DEF changed
<1>4. PolicyInv(s') /\ s'.policy \in Nat /\ s'.counter \in Nat
   BY <1>1, <1>2 DEF PolicyInv, IsPrepared
<1>5. /\ RotateInv(s') /\ s'.filter = s.filter /\ s'.failed = s.failed /\ s'.open = s.open
      /\ s'.num = s.num /\ s'.archives = s.archives /\ Held(s') = Held(s)
   BY <1>1, <1>2, <1>3, <1>4, MembersKept
<1> QED
   BY <1>5, RotateCall

(* setFlushPolicy keeps the invariant: it flushes before it starts the        *)
(* counter anew.                                                              *)
LEMMA SetFlushPolicyKeeps ==
   ASSUME SinkInv, s.kind = "FileRotateSink", NEW p \in Policies, SetFlushPolicy(p)
   PROVE  SinkInv'
<1> DEFINE f == Flushed(s)
           changed == {"policy", "counter"}
<1>1. RotateInv(s)
   BY Kinds DEF RotateSinkInv
<1>2. /\ RotateInv(f) /\ SameSettings(s, f) /\ f.open = s.open /\ Held(f) = Held(s)
      /\ f.bad \/ f.buf = <<>>
   BY <1>1, FlushedKeeps
<1>3. s' = [f EXCEPT !.policy = p, !.counter = p] /\ p \in Nat
   BY FileRotateSinkAssumption DEF SetFlushPolicy
<1> HIDE DEF f
<1>4. IsPrepared(f)
   BY <1>2 DEF RotateInv, IsRotateSink
<1>5. /\ Same(f, s', changed) /\ s'.max = f.max /\ s'.count = f.count
      /\ s'.policy = p /\ s'.counter = p /\ s'.bad = f.bad /\ s'.buf = f.buf
   BY <1>3, <1>4 DEF IsPrepared, RotateMembers, IsStream, StreamFields, Same
<1>6. changed \subseteq {"max", "count", "policy", "counter"}
   OBVIOUS
<1> HIDE DEF changed
<1>7. PolicyInv(s')
   <2>1. s'.bad \/ Cardinality(MessagesIn(s'.buf)) = 0
      BY <1>2, <1>5, MessagesInEmpty, FS_EmptySet
   <2> QED
      BY <1>3, <1>5, <2>1 DEF PolicyInv
<1>8. s'.max \in Nat /\ s'.count \in Nat /\ s'.policy \in Nat /\ s'.counter \in Nat
   BY <1>3, <1>4, <1>5 DEF IsPrepared
<1>9. /\ RotateInv(s') /\ s'.filter = f.filter /\ s'.failed = f.failed /\ s'.open = f.open
      /\ s'.num = f.num /\ s'.archives = f.archives /\ Held(s') = Held(f)
   BY <1>2, <1>5, <1>6, <1>7, <1>8, MembersKept
<1> QED
   BY <1>2, <1>9, RotateCall DEF SetFlushPolicy, SameSettings, SameArguments

(* A kill or a destructor and the next constructor keep the invariant. *)
LEMMA RotateRestartKeeps ==
   ASSUME SinkInv, s.kind = "FileRotateSink", NEW killed \in BOOLEAN, NEW start, RotateRestart(killed, start)
   PROVE  SinkInv'
<1> DEFINE t == Stopped(s, killed)
           changed == {"open", "bad", "buf", "files", "lost", "missed"}
<1>1. RotateSinkInv /\ IsPrepared(s) /\ IsStream(s) /\ LogOK /\ clock \in Nat
   BY Kinds DEF RotateSinkInv, RotateInv, IsRotateSink, IsPrepared, SinkInv
<1>2. s' = Constructed(t, start)
   BY DEF RotateRestart, Stopped
<1>3. IsStream(t) /\ Same(s, t, changed) /\ InStream(t) = InStream(s)
   BY <1>1, StoppedResult
<1> HIDE DEF t
<1>4. SameSettings(s, t) /\ IsPrepared(t)
   BY <1>1, <1>3, StreamOnly
<1>5. Held(t) = Held(s)
   BY <1>3, <1>4, HeldSame DEF SameSettings
<1>6. /\ RotateInv(s') /\ s'.open /\ s'.filter = t.filter /\ s'.archives = t.archives
      /\ Held(s') = Held(t)
   BY <1>2, <1>4, ConstructedResult
<1> DEFINE d == log.disturbed \/ \E a \in s.archives : a.time = clock
<1>7. /\ log' = [log EXCEPT !.starts = log.starts + 1, !.disturbed = d] /\ clock' = clock
   BY DEF RotateRestart
<1>8. d \in BOOLEAN
   OBVIOUS
<1> HIDE DEF d
<1>9. /\ log'.accepted = log.accepted /\ log'.disturbed = d /\ log'.full = log.full
      /\ DOMAIN log' = DOMAIN log
   BY <1>1, <1>7 DEF LogOK
<1>10. LogOK'
   BY <1>1, <1>8, <1>9 DEF LogOK
<1>11. ~log'.disturbed => ArchivesInv(s', clock')
   BY <1>1, <1>4, <1>6, <1>7, <1>9 DEF d, RotateSinkInv, ArchivesInv, SameSettings
<1>12. s'.filter = s.filter
   BY <1>4, <1>6 DEF SameSettings, SameArguments
<1>13. log.disturbed => log'.disturbed
   BY <1>9 DEF d
<1> QED
   BY <1>1, <1>5, <1>6, <1>7, <1>9, <1>10, <1>11, <1>12, <1>13, RotateStep

(* Every call of FileRotateSink keeps the invariant. *)
LEMMA RotateNextKeeps ==
   ASSUME SinkInv, s.kind = "FileRotateSink", RotateNext
   PROVE  SinkInv'
<1>1. CASE Flush
   BY <1>1, FlushKeeps DEF Flush
<1>2. CASE \E max \in Sizes : SetMaxLogSize(max)
   BY <1>2, SetterKeeps DEF SetMaxLogSize
<1>3. CASE \E count \in Counts : SetMaxArchiveLogCount(count)
   BY <1>3, SetterKeeps DEF SetMaxArchiveLogCount
<1> QED
   BY <1>1, <1>2, <1>3, FileWriteKeeps, RotateLogKeeps, SetLogSizeCounterKeeps, ChangeLogFileKeeps,
      SetFlushPolicyKeeps, RotateRestartKeeps DEF RotateNext

--------------------------------------------------------------------------------
(* FileSink's steps *)

(* fileWrite of FileSink keeps the invariant. *)
LEMMA FileSinkWriteKeeps ==
   ASSUME SinkInv, s.kind = "FileSink", FileSinkWrite
   PROVE  SinkInv' /\ s'.kind = "FileSink"
<1> DEFINE m == log.accepted + 1
<1>1. IsFileSink(s) /\ FileSinkInv /\ log.accepted \in Nat /\ LogOK
   BY Kinds DEF SinkInv, LogOK, FileSinkInv
<1>2. m \in Messages /\ log' = [log EXCEPT !.accepted = m] /\ clock' = clock /\ s' = FileSinkWritten(s, m)
   BY DEF FileSinkWrite
<1>3. log'.full = log.full
   BY <1>1, <1>2 DEF LogOK
<1>4. /\ IsFileSink(s') /\ (KeepsNothing(s) => KeepsNothing(s'))
      /\ InStream(s') = InStream(s) \cup {m}
   BY <1>1, <1>2, FileSinkWrittenKeeps
<1>5. FileSinkInv'
   BY <1>1, <1>3, <1>4 DEF FileSinkInv
<1>6. s'.kind = s.kind
   BY <1>4 DEF IsFileSink
<1>7. HeldBy(s) = InStream(s) /\ HeldBy(s') = InStream(s') /\ Ignored = {} /\ Ignored' = {}
   BY <1>6 DEF HeldBy, Ignored, Rotates
<1>8. m = log.accepted + 1
   OBVIOUS
<1> HIDE DEF m
<1>9. /\ HeldBy(s') \subseteq HeldBy(s) \cup {m}
      /\ HeldBy(s) \subseteq HeldBy(s') /\ m \in HeldBy(s') \cup Ignored
   BY <1>4, <1>7
<1> QED
   BY <1>1, <1>2, <1>5, <1>6, <1>7, <1>8, <1>9, MessageStep

(* changeLogFile of FileSink keeps the invariant. *)
LEMMA FileSinkChangeKeeps ==
   ASSUME SinkInv, s.kind = "FileSink", FileSinkChangeLogFile
   PROVE  SinkInv' /\ s'.kind = "FileSink"
<1>1. IsFileSink(s) /\ FileSinkInv /\ LogOK /\ clock \in Nat
   BY Kinds DEF SinkInv, FileSinkInv
<1>2. Change \in Texts /\ Note \in Texts /\ Header \in Texts /\ Refusal \in Texts
   BY DEF Texts
<1>3. clock' = clock /\ log' = [log EXCEPT !.calls = log.calls + 1]
   BY DEF FileSinkChangeLogFile, Called
<1>4. LogOK' /\ log'.accepted = log.accepted /\ log'.disturbed = log.disturbed /\ log'.full = log.full
   BY <1>1, <1>3, CalledResult
<1>5. \/ s' = Put(s, Refusal)
      \/ \E path : s' = Put(Put([Replaced(Put(s, Change), path) EXCEPT !.first = TRUE], Note), Header)
   BY DEF FileSinkChangeLogFile, FileSinkChanged
<1>6. CASE s' = Put(s, Refusal)
   <2>1. IsFileSink(s') /\ (KeepsNothing(s) => KeepsNothing(s')) /\ InStream(s') = InStream(s)
      BY <1>1, <1>2, <1>6, PutText
   <2> QED
      BY <1>1, <1>3, <1>4, <2>1, FileSinkStep DEF FileSinkInv
<1>7. ASSUME NEW path, s' = Put(Put([Replaced(Put(s, Change), path) EXCEPT !.first = TRUE], Note), Header)
      PROVE  SinkInv' /\ s'.kind = "FileSink"
   <2> DEFINE p == Put(s, Change)
              v == [Replaced(p, path) EXCEPT !.first = TRUE]
              n == Put(v, Note)
   <2>1. s' = Put(n, Header)
      BY <1>7
   <2>2. IsFileSink(p) /\ (KeepsNothing(s) => KeepsNothing(p)) /\ InStream(p) = InStream(s)
      BY <1>1, <1>2, PutText
   <2> HIDE DEF p
   <2>3. IsStream(p) /\ p.kind = "FileSink" /\ {"prefix", "first"} \subseteq DOMAIN p
      BY <2>2 DEF IsFileSink
   <2>4. IsFileSink(v) /\ (~p.full /\ p.lost = {} => KeepsNothing(v)) /\ InStream(v) = InStream(p)
      BY <2>2, <2>3, ReplacedFileSink
   <2> HIDE DEF v
   <2>5. IsFileSink(n) /\ (KeepsNothing(v) => KeepsNothing(n)) /\ InStream(n) = InStream(v)
      BY <1>2, <2>4, PutText
   <2> HIDE DEF n
   <2>6. IsFileSink(s') /\ (KeepsNothing(n) => KeepsNothing(s')) /\ InStream(s') = InStream(n)
      BY <1>2, <2>1, <2>5, PutText
   <2>7. KeepsNothing(s) => KeepsNothing(s')
      <3>1. KeepsNothing(p) => ~p.full /\ p.lost = {}
         BY DEF KeepsNothing
      <3> QED
         BY <2>2, <2>4, <2>5, <2>6, <3>1
   <2>8. InStream(s') = InStream(s)
      BY <2>2, <2>4, <2>5, <2>6
   <2>9. ~log'.full => KeepsNothing(s')
      BY <1>1, <1>4, <2>7 DEF FileSinkInv
   <2>10. clock' \in Nat
      BY <1>1, <1>3
   <2> QED
      BY <1>4, <2>6, <2>8, <2>9, <2>10, FileSinkStep
<1> QED
   BY <1>5, <1>6, <1>7

(* A new process with a FileSink keeps the invariant. *)
LEMMA FileSinkRestartKeeps ==
   ASSUME SinkInv, s.kind = "FileSink", NEW killed \in BOOLEAN, FileSinkRestart(killed)
   PROVE  SinkInv' /\ s'.kind = "FileSink"
<1> DEFINE t == Stopped(s, killed)
           changed == {"open", "bad", "buf", "files", "lost", "missed"}
<1>1. IsFileSink(s) /\ IsStream(s) /\ FileSinkInv /\ LogOK /\ clock \in Nat
   BY Kinds DEF SinkInv, FileSinkInv, IsFileSink
<1>2. clock' = clock /\ log' = [log EXCEPT !.starts = log.starts + 1]
   BY DEF FileSinkRestart
<1>3. LogOK' /\ log'.accepted = log.accepted /\ log'.disturbed = log.disturbed /\ log'.full = log.full
   BY <1>1, <1>2, CalledResult
<1>4. \E path, prefix : s' = [Replaced(t, path) EXCEPT !.prefix = prefix, !.first = TRUE]
   BY DEF FileSinkRestart, FileSinkConstructed, Stopped
<1>5. PICK path, prefix : s' = [Replaced(t, path) EXCEPT !.prefix = prefix, !.first = TRUE]
   BY <1>4
<1>6. /\ IsStream(t) /\ Same(s, t, changed) /\ ~t.open /\ t.full = s.full /\ t.kind = s.kind
      /\ InStream(t) = InStream(s)
      /\ s.open /\ KeepsNothing(s) => t.lost = {}
   BY <1>1, StoppedResult
<1> HIDE DEF t
<1>7. t.kind = "FileSink" /\ {"prefix", "first"} \subseteq DOMAIN t
   BY <1>1, <1>6 DEF Same, IsFileSink
<1>8. /\ IsFileSink(s') /\ (~t.full /\ t.lost = {} => KeepsNothing(s'))
      /\ InStream(s') = InStream(t)
   BY <1>5, <1>6, <1>7, ReplacedFileSink
<1>9. KeepsNothing(s) => KeepsNothing(s')
   BY <1>1, <1>6, <1>8 DEF KeepsNothing, IsFileSink
<1>10. ~log'.full => KeepsNothing(s')
   BY <1>1, <1>3, <1>9 DEF FileSinkInv
<1> QED
   BY <1>1, <1>2, <1>3, <1>6, <1>8, <1>10, FileSinkStep

(* Every call of FileSink keeps the invariant. *)
LEMMA FileSinkNextKeeps ==
   ASSUME SinkInv, s.kind = "FileSink", FileSinkNext
   PROVE  SinkInv' /\ s'.kind = "FileSink"
   BY FileSinkWriteKeeps, FileSinkChangeKeeps, FileSinkRestartKeeps DEF FileSinkNext

--------------------------------------------------------------------------------
(* The steps of the device and the clock *)

(* A flush by the stream itself keeps the invariant of either class. *)
LEMMA StreamFlushKeeps ==
   ASSUME SinkInv, StreamFlush
   PROVE  SinkInv'
<1>1. s' = Flushed(s) /\ UNCHANGED log /\ UNCHANGED clock /\ clock' = clock /\ log' = log
   BY DEF StreamFlush
<1>2. CASE s.kind = "FileRotateSink"
   BY <1>1, <1>2, FlushKeeps
<1>3. CASE s.kind = "FileSink"
   <2>1. FileSinkInv /\ IsFileSink(s)
      BY <1>3, Kinds DEF FileSinkInv
   <2>2. /\ IsFileSink(s') /\ s'.full = s.full /\ s'.lost = s.lost /\ (~s.full => s'.bad = s.bad)
         /\ ~s'.bad => s'.buf = <<>>
         /\ InStream(s') = InStream(s)
      BY <1>1, <2>1, FlushedFileSink
   <2>3. KeepsNothing(s) => KeepsNothing(s')
      BY <2>2, MessagesInEmpty DEF KeepsNothing
   <2>4. LogOK' /\ clock' \in Nat
      BY <1>1 DEF SinkInv, LogOK
   <2>5. ~log'.full => KeepsNothing(s')
      BY <1>1, <2>1, <2>3 DEF FileSinkInv
   <2> QED
      BY <1>1, <1>3, <2>2, <2>4, <2>5, FileSinkStep
<1> QED
   BY <1>2, <1>3, Kinds

(* Time that goes on keeps archives apart, and time that goes back is         *)
(* remembered.                                                                *)
LEMMA ClockKeeps ==
   ASSUME SinkInv, UNCHANGED s, LogOK', clock' \in Nat,
          log'.accepted = log.accepted, log'.full = log.full,
          \/ log'.disturbed = log.disturbed /\ clock' >= clock
          \/ log'.disturbed
   PROVE  SinkInv'
<1>1. CASE s.kind = "FileRotateSink"
   <2>1. RotateSinkInv /\ clock \in Nat /\ log.disturbed \in BOOLEAN
      BY <1>1, Kinds DEF SinkInv, LogOK
   <2>2. ArchivesInv(s, clock) /\ clock' >= clock => ArchivesInv(s, clock')
      BY <2>1 DEF ArchivesInv
   <2>3. RotateSinkInv'
      BY <2>1, <2>2 DEF RotateSinkInv, RotateInv, IsRotateSink, IsPrepared, IsStream, PolicyInv, MissedInv,
         LimitInv, Text, ArchivesInv
   <2>4. HeldInv'
      BY DEF SinkInv, HeldInv, HeldBy, Held, InStream, InFiles, InArchives, Archives, Ignored, Rotates, LogOK
   <2> QED
      BY <2>3, <2>4 DEF SinkInv
<1>2. CASE s.kind = "FileSink"
   <2>1. IsFileSink(s') /\ InStream(s') = InStream(s) /\ (KeepsNothing(s) => KeepsNothing(s'))
      BY <1>2, Kinds DEF FileSinkInv, IsFileSink, IsStream, InStream, InFiles, KeepsNothing
   <2> QED
      BY <1>2, <2>1, Kinds, FileSinkStep DEF FileSinkInv, SinkInv, LogOK
<1> QED
   BY <1>1, <1>2, Kinds

(* A device that fills up, or has room again, keeps the invariant. *)
LEMMA DeviceKeeps ==
   ASSUME SinkInv, DeviceFull \/ DeviceFreed
   PROVE  SinkInv'
<1>1. LogOK /\ clock \in Nat /\ clock' = clock /\ IsStream(s)
   BY Kinds DEF SinkInv, DeviceFull, DeviceFreed, RotateSinkInv, FileSinkInv, RotateInv, IsRotateSink,
      IsPrepared, IsFileSink
<1>2. Same(s, s', {"full"}) /\ s'.full \in BOOLEAN
   BY <1>1 DEF DeviceFull, DeviceFreed, IsStream, StreamFields, Same
<1>3. /\ LogOK' /\ log'.accepted = log.accepted /\ log'.disturbed = log.disturbed
      /\ (log.full => log'.full) /\ (log'.full \/ s.full)
   <2>1. CASE DeviceFreed
      BY <1>1, <2>1 DEF DeviceFreed, LogOK
   <2>2. CASE DeviceFull
      <3>1. log' = [log EXCEPT !.calls = log.calls + 1, !.full = TRUE]
         BY <2>2 DEF DeviceFull
      <3>2. /\ DOMAIN log' = DOMAIN log /\ log'.full
            /\ log'.accepted = log.accepted /\ log'.disturbed = log.disturbed
         BY <1>1, <3>1 DEF LogOK
      <3>3. log'.full = TRUE
         BY <1>1, <3>1 DEF LogOK
      <3> QED
         BY <1>1, <3>2, <3>3 DEF LogOK
   <2> QED
      BY <2>1, <2>2
<1>4. CASE s.kind = "FileRotateSink"
   <2>1. RotateSinkInv /\ RotateInv(s)
      BY <1>4, Kinds DEF RotateSinkInv
   <2>2. /\ RotateInv(s') /\ s'.open = s.open /\ s'.failed = s.failed /\ s'.filter = s.filter
         /\ s'.num = s.num /\ s'.archives = s.archives /\ Held(s') = Held(s)
      BY <1>1, <1>2, <2>1, FullResult
   <2>3. ArchivesInv(s, clock) => ArchivesInv(s', clock')
      BY <1>1, <2>2 DEF ArchivesInv
   <2>4. ~log'.disturbed => Held(s') = Held(s) /\ ArchivesInv(s', clock')
      BY <1>3, <2>1, <2>2, <2>3 DEF RotateSinkInv
   <2> QED
      BY <1>1, <1>3, <1>4, <2>1, <2>2, <2>4, RotateStep DEF RotateSinkInv
<1>5. CASE s.kind = "FileSink"
   <2>1. FileSinkInv /\ IsFileSink(s)
      BY <1>5, Kinds DEF FileSinkInv
   <2>2. IsFileSink(s') /\ InStream(s') = InStream(s)
      BY <1>1, <1>2, <2>1, FullResult
   <2>3. ~log'.full => KeepsNothing(s')
      BY <1>3, <2>1 DEF FileSinkInv, KeepsNothing
   <2> QED
      BY <1>1, <1>3, <1>5, <2>2, <2>3, FileSinkStep
<1> QED
   BY <1>4, <1>5, Kinds

(* The device and the clock keep the invariant. *)
LEMMA EnvironmentKeeps ==
   ASSUME SinkInv, Environment
   PROVE  SinkInv'
<1>1. LogOK /\ clock \in Nat
   BY DEF SinkInv
<1>2. CASE Tick
   BY <1>1, <1>2, ClockKeeps DEF Tick, LogOK
<1>3. CASE ClockBack
   <2>1. log' = [log EXCEPT !.calls = log.calls + 1, !.disturbed = TRUE]
      BY <1>3 DEF ClockBack
   <2>2. DOMAIN log' = DOMAIN log /\ log'.accepted = log.accepted /\ log'.full = log.full
      BY <1>1, <2>1 DEF LogOK
   <2>3. log'.disturbed = TRUE
      BY <1>1, <2>1 DEF LogOK
   <2>4. LogOK'
      BY <1>1, <2>2, <2>3 DEF LogOK
   <2>5. clock' \in Nat /\ UNCHANGED s
      BY <1>1, <1>3 DEF ClockBack
   <2> QED
      BY <2>2, <2>3, <2>4, <2>5, ClockKeeps
<1> QED
   BY <1>2, <1>3, StreamFlushKeeps, DeviceKeeps DEF Environment

(* A step of something else keeps the invariant. *)
LEMMA StutteringKeeps ==
   ASSUME SinkInv, UNCHANGED vars
   PROVE  SinkInv'
   BY ClockKeeps DEF vars, SinkInv, LogOK

--------------------------------------------------------------------------------
(* The theorems *)

(* The inductive invariant of both file sinks: SinkInv holds in every state,  *)
(* for any names, limits, policies and filters, whatever fails and whenever   *)
(* the process is killed.                                                     *)
THEOREM Invariant == Spec => []SinkInv
<1>1. SinkInv /\ [Next]_vars => SinkInv'
   <2> SUFFICES ASSUME SinkInv, [Next]_vars
                PROVE  SinkInv'
      OBVIOUS
   <2> QED
      BY RotateNextKeeps, FileSinkNextKeeps, EnvironmentKeeps, StutteringKeeps DEF Next
<1> QED
   BY InitHolds, <1>1, PTL DEF Spec

(* setFlushPolicy(N): a process that is killed loses fewer than N messages,   *)
(* after any calls that change the policy, the limit or the file.             *)
THEOREM KeepsFlushPolicy == Spec => []FlushPolicyKept
<1>1. SinkInv => FlushPolicyKept
   BY Kinds DEF FlushPolicyKept, Rotates, RotateSinkInv, RotateInv, PolicyInv
<1> QED
   BY Invariant, <1>1, PTL

(* FileSink has every message on the device when the call returns, unless     *)
(* that was full, after any changes of file and any kills.                    *)
THEOREM WritesEveryMessageThrough == Spec => []WritesThrough
<1>1. SinkInv => WritesThrough
   BY Kinds DEF WritesThrough, FileSinkInv, KeepsNothing
<1> QED
   BY Invariant, <1>1, PTL

(* The part of NothingLost that is not about order: as long as local time     *)
(* tells archives apart each message that was accepted is in a file, an       *)
(* archive or the buffer, or known to be lost, expired or ignored; and only   *)
(* a rotation that failed leaves no file open.                                *)
LEMMA AccountsForMessages == Spec => [](~log.disturbed => Accounted /\ OpenUnlessRotationFailed)
<1>1. SinkInv => (~log.disturbed => Accounted /\ OpenUnlessRotationFailed)
   <2> SUFFICES ASSUME SinkInv, ~log.disturbed
                PROVE  Accounted /\ OpenUnlessRotationFailed
      OBVIOUS
   <2>1. HeldBy(s) = OnDisk \cup MessagesIn(s.buf) \cup s.lost \cup Deleted
      <3>1. CASE s.kind = "FileRotateSink"
         <4>1. Rotates /\ Deleted = s.expired
            BY <3>1 DEF Deleted, Rotates
         <4>2. OnDisk = InFiles(s) \cup Archives(s)
            BY <4>1 DEF OnDisk, InFiles, Archives
         <4> QED
            BY <3>1, <4>1, <4>2 DEF HeldBy, Held, InStream, InArchives
      <3>2. CASE s.kind = "FileSink"
         <4>1. OnDisk = InFiles(s) /\ Deleted = {}
            BY <3>2 DEF OnDisk, Deleted, Rotates, InFiles
         <4> QED
            BY <3>2, <4>1 DEF HeldBy, InStream
      <3> QED
         BY <3>1, <3>2, Kinds
   <2>2. Accounted
      BY <2>1 DEF Accounted, SinkInv, HeldInv
   <2>3. OpenUnlessRotationFailed
      BY Kinds DEF OpenUnlessRotationFailed, Rotates, RotateSinkInv, FileSinkInv, IsFileSink
   <2> QED
      BY <2>2, <2>3
<1> QED
   BY Invariant, <1>1, PTL

--------------------------------------------------------------------------------
(* No other call of FileRotateSink accepts a message. *)
LEMMA OnlyFileWriteAccepts ==
   ASSUME SinkInv, [Next]_vars, Rotates, ~FileWrite
   PROVE  log'.accepted = log.accepted
<1>1. LogOK /\ s.kind = "FileRotateSink"
   BY DEF SinkInv, Rotates
<1>2. CASE Environment
   BY <1>1, <1>2 DEF Environment, StreamFlush, Tick, ClockBack, DeviceFull, DeviceFreed, LogOK
<1>3. CASE RotateNext
   BY <1>1, <1>3 DEF RotateNext, RotateLog, Flush, SetLogSizeCounter, ChangeLogFile, SetMaxLogSize,
      SetMaxArchiveLogCount, SetFlushPolicy, RotateRestart, Called, LogOK
<1> QED
   BY <1>1, <1>2, <1>3 DEF Next, vars

(* fileWrite ignores the message, writes it to a file within the limit, or    *)
(* to what a rotation left.                                                   *)
LEMMA FileWriteCases ==
   ASSUME SinkInv, Rotates, FileWrite
   PROVE  LET m == log.accepted + 1 IN
          /\ RotateInv(s) /\ m \in Items /\ m \in Messages /\ log'.accepted = m
          /\ m \notin MessagesIn(Text(s))
          /\ \/ UNCHANGED s
             \/ s.size <= s.max /\ s' = Written(s, m)
             \/ \E t : /\ s' = Written(t, m) /\ RotateInv(t) /\ t.max = s.max
                       /\ t.failed \/ MessagesIn(Text(t)) = {}
                       /\ t.missed = 0 \/ (~t.open /\ t.missed = s.missed)
<1> DEFINE m == log.accepted + 1
<1>1. s.kind = "FileRotateSink" /\ RotateInv(s) /\ LogOK /\ clock \in Nat
   BY Kinds DEF SinkInv, Rotates, RotateSinkInv
<1>2. m \in Items /\ m \in Messages
   BY DEF FileWrite, Items
<1>3. log'.accepted = m
   BY <1>1 DEF FileWrite, LogOK
<1>4. m \notin MessagesIn(Text(s))
   <2>1. m \notin InStream(s)
      <3>1. m \notin 1..log.accepted
         BY <1>1 DEF LogOK
      <3> QED
         BY <1>1, <3>1 DEF SinkInv, HeldInv, HeldBy, Held
   <2>2. IsStream(s) /\ s.path \in DOMAIN s.files
      BY <1>1 DEF RotateInv, IsRotateSink, IsPrepared
   <2>3. m \notin MessagesIn(s.files[s.path]) /\ m \notin MessagesIn(s.buf)
      BY <2>1, <2>2, InStreamMembers
   <2>4. MessagesIn(Text(s)) = MessagesIn(s.files[s.path]) \cup MessagesIn(s.buf)
      BY <2>2, MessagesInConcatenation DEF Text, IsStream
   <2> QED
      BY <2>3, <2>4
<1>5. CASE \E t \in Rotations(s) : s' = Written(t, m)
   <2>1. PICK t \in Rotations(s) : s' = Written(t, m)
      BY <1>5
   <2>2. /\ RotateInv(t) /\ SameArguments(s, t)
         /\ t.failed \/ MessagesIn(Text(t)) = {}
         /\ t.missed = 0 \/ (~t.open /\ t.missed = s.missed)
      BY <1>1, RotationResult
   <2>3. t.max = s.max
      BY <2>2 DEF SameArguments
   <2> QED
      BY <1>1, <1>2, <1>3, <1>4, <2>1, <2>2, <2>3
<1> QED
   BY <1>1, <1>2, <1>3, <1>4, <1>5 DEF FileWrite

(* A step that accepts a message keeps to the limit. *)
LEMMA LimitStep ==
   ASSUME SinkInv, [Next]_vars, Rotates, log'.accepted # log.accepted
   PROVE  \/ log'.accepted \notin MessagesIn(Text(s'))
          \/ Len(Text(s')) - 1 <= s.max
          \/ Cardinality(MessagesIn(Text(s'))) = 1
          \/ s'.failed
<1> DEFINE m == log.accepted + 1
<1>1. FileWrite
   BY OnlyFileWriteAccepts
<1>2. /\ RotateInv(s) /\ m \in Items /\ m \in Messages /\ log'.accepted = m
      /\ m \notin MessagesIn(Text(s))
      /\ \/ UNCHANGED s
         \/ s.size <= s.max /\ s' = Written(s, m)
         \/ \E t : /\ s' = Written(t, m) /\ RotateInv(t) /\ t.max = s.max
                   /\ t.failed \/ MessagesIn(Text(t)) = {}
                   /\ t.missed = 0 \/ (~t.open /\ t.missed = s.missed)
   BY <1>1, FileWriteCases
<1> HIDE DEF m
<1>3. CASE UNCHANGED s
   BY <1>2, <1>3 DEF Text
<1>4. ASSUME NEW t, s' = Written(t, m), RotateInv(t)
      PROVE  /\ s'.failed = t.failed /\ Text(t) \in Seq(Items)
             /\ \/ t.open /\ ~t.bad /\ Text(s') = Append(Text(t), m)
                \/ Text(s') = Text(t)
   <2>1. /\ SameSettings(t, s')
         /\ t.open /\ ~t.bad => Text(s') = Append(Text(t), m)
         /\ ~t.open \/ t.bad => Text(s') = Text(t)
      BY <1>2, <1>4, WrittenResult
   <2>2. Text(t) \in Seq(Items) /\ t.open \in BOOLEAN /\ t.bad \in BOOLEAN
      BY <1>4, TextIsSequence DEF RotateInv, IsRotateSink, IsPrepared, IsStream
   <2> QED
      BY <2>1, <2>2 DEF SameSettings
<1>5. CASE s.size <= s.max /\ s' = Written(s, m)
   <2>1. /\ s'.failed = s.failed /\ Text(s) \in Seq(Items)
         /\ \/ s.open /\ ~s.bad /\ Text(s') = Append(Text(s), m)
            \/ Text(s') = Text(s)
      BY <1>2, <1>4, <1>5
   <2>2. CASE s.open /\ ~s.bad /\ Text(s') = Append(Text(s), m) /\ ~s.failed
      <3>1. Len(Text(s)) <= s.size /\ s.size \in Int /\ s.max \in Int
         BY <1>2, <2>2 DEF RotateInv, LimitInv, IsRotateSink, IsPrepared
      <3>2. Len(Text(s')) = Len(Text(s)) + 1 /\ Len(Text(s)) \in Nat
         BY <2>1, <2>2
      <3> QED
         BY <1>5, <3>1, <3>2
   <2> QED
      BY <1>2, <2>1, <2>2
<1>6. ASSUME NEW t, s' = Written(t, m), RotateInv(t), t.failed \/ MessagesIn(Text(t)) = {}
      PROVE  \/ m \notin MessagesIn(Text(s'))
             \/ Cardinality(MessagesIn(Text(s'))) = 1
             \/ s'.failed
   <2>1. /\ s'.failed = t.failed /\ Text(t) \in Seq(Items)
         /\ \/ t.open /\ ~t.bad /\ Text(s') = Append(Text(t), m)
            \/ Text(s') = Text(t)
      BY <1>4, <1>6
   <2>2. CASE MessagesIn(Text(t)) = {} /\ Text(s') = Append(Text(t), m)
      <3>1. MessagesIn(Text(s')) = {m}
         <4>1. MessagesIn(Append(Text(t), m)) = MessagesIn(Text(t)) \cup ({m} \cap Messages)
            BY <1>2, <2>1, MessagesInAppend
         <4> QED
            BY <1>2, <2>2, <4>1
      <3> QED
         BY <3>1, FS_Singleton
   <2> QED
      BY <1>6, <2>1, <2>2
<1> QED
   BY <1>2, <1>3, <1>5, <1>6

(* setMaxLogSize: a file grows past the limit by one message only, whatever   *)
(* was rotated, opened or restarted in between.                               *)
THEOREM KeepsTheLimit == Spec => LimitKept
<1>1. SinkInv /\ [Next]_vars =>
         [Rotates /\ log'.accepted # log.accepted =>
            LET text == s'.files[s'.path] \o s'.buf
            IN \/ log'.accepted \notin MessagesIn(text)
               \/ Len(text) - 1 <= s.max
               \/ Cardinality(MessagesIn(text)) = 1
               \/ s'.failed]_vars
   BY LimitStep DEF Text
<1> QED
   BY Invariant, <1>1, PTL DEF Spec, LimitKept

--------------------------------------------------------------------------------
(* No other call loses a message to badbit. *)
LEMMA OnlyFileWriteMisses ==
   ASSUME SinkInv, [Next]_vars, Rotates, ~FileWrite
   PROVE  s'.missed <= s.missed
<1>1. s.kind = "FileRotateSink" /\ RotateInv(s) /\ clock \in Nat
   BY Kinds DEF SinkInv, Rotates, RotateSinkInv
<1>2. IsRotateSink(s) /\ IsPrepared(s) /\ IsStream(s) /\ s.missed \in Nat
   BY <1>1 DEF RotateInv, IsRotateSink, IsPrepared, IsStream
<1>3. CASE UNCHANGED s
   BY <1>2, <1>3
<1>4. CASE s' = Flushed(s)
   <2>1. s'.missed = s.missed
      BY <1>1, <1>4, FlushedKeeps
   <2> QED
      BY <1>2, <2>1
<1>5. CASE RotateLog
   <2>1. s'.missed = 0 \/ s'.missed = s.missed
      BY <1>1, <1>5, RotationResult DEF RotateLog
   <2> QED
      BY <1>2, <2>1
<1>6. CASE SetLogSizeCounter
   <2>1. s'.missed = 0
      BY <1>2, <1>6, CountedResult DEF SetLogSizeCounter
   <2> QED
      BY <1>2, <2>1
<1>7. ASSUME NEW dir, NEW name, ChangeLogFile(dir, name)
      PROVE  s'.missed <= s.missed
   <2> DEFINE l == [dir |-> dir, name |-> IF name = <<>> THEN s.log.name ELSE name]
   <2>1. s' = ChangedTo(s, l) \/ s' = Written(s, Refusal)
      BY <1>7 DEF ChangeLogFile, ChangedTo, Changed
   <2> HIDE DEF l
   <2>2. s' = ChangedTo(s, l) => s'.missed = 0
      BY <1>2, ChangedToResult
   <2>3. s' = Written(s, Refusal) => s'.missed = s.missed
      <3>1. Refusal \in Texts
         BY DEF Texts
      <3> QED
         BY <1>1, <3>1, WrittenText
   <2> QED
      BY <1>2, <2>1, <2>2, <2>3
<1>8. ASSUME \/ \E max \in Sizes : SetMaxLogSize(max)
             \/ \E count \in Counts : SetMaxArchiveLogCount(count)
             \/ DeviceFull \/ DeviceFreed
      PROVE  s'.missed <= s.missed
   <2>1. s'.missed = s.missed
      BY <1>2, <1>8 DEF SetMaxLogSize, SetMaxArchiveLogCount, DeviceFull, DeviceFreed, IsStream, StreamFields
   <2> QED
      BY <1>2, <2>1
<1>9. ASSUME NEW p \in Policies, SetFlushPolicy(p)
      PROVE  s'.missed <= s.missed
   <2> DEFINE f == Flushed(s)
   <2>1. s' = [f EXCEPT !.policy = p, !.counter = p]
      BY <1>9 DEF SetFlushPolicy
   <2>2. RotateInv(f) /\ f.missed = s.missed
      BY <1>1, FlushedKeeps
   <2> HIDE DEF f
   <2>3. "missed" \in DOMAIN f
      BY <2>2 DEF RotateInv, IsRotateSink, IsPrepared, IsStream, StreamFields
   <2> QED
      BY <1>2, <2>1, <2>2, <2>3
<1>10. ASSUME NEW killed \in BOOLEAN, NEW start, RotateRestart(killed, start)
       PROVE  s'.missed <= s.missed
   <2> DEFINE t == Stopped(s, killed)
              changed == {"open", "bad", "buf", "files", "lost", "missed"}
   <2>1. s' = Constructed(t, start)
      BY <1>10 DEF RotateRestart, Stopped
   <2>2. IsStream(t) /\ Same(s, t, changed)
      BY <1>2, StoppedResult
   <2> HIDE DEF t
   <2>3. IsPrepared(t)
      BY <1>2, <2>2, StreamOnly
   <2>4. s'.missed = 0
      BY <2>1, <2>3, ConstructedResult
   <2> QED
      BY <1>2, <2>4
<1>11. CASE RotateNext
   BY <1>4, <1>5, <1>6, <1>7, <1>8, <1>9, <1>10, <1>11 DEF RotateNext, Flush
<1>12. CASE Environment
   BY <1>3, <1>4, <1>8, <1>12 DEF Environment, StreamFlush, Tick, ClockBack
<1> QED
   BY <1>1, <1>3, <1>11, <1>12 DEF Next, vars

(* A message is lost to badbit only while the limit has room. *)
LEMMA MissedStep ==
   ASSUME SinkInv, [Next]_vars, Rotates, s'.missed > s.missed
   PROVE  s.missed < s.max + 2
<1> DEFINE m == log.accepted + 1
<1>1. s.kind = "FileRotateSink" /\ RotateInv(s)
   BY Kinds DEF Rotates, RotateSinkInv
<1>2. s.missed \in Nat /\ s.max \in Nat /\ s.size \in Int /\ s.missed <= s.size + 1
   BY <1>1 DEF RotateInv, MissedInv, IsRotateSink, IsPrepared, IsStream
<1>3. FileWrite
   <2>1. ~FileWrite => s'.missed <= s.missed
      BY OnlyFileWriteMisses
   <2>2. ~FileWrite => s'.missed \in Int
      <3>1. SinkInv'
         BY RotateNextKeeps, FileSinkNextKeeps, EnvironmentKeeps, StutteringKeeps DEF Next
      <3> QED
         BY <3>1 DEF SinkInv, RotateSinkInv, FileSinkInv, RotateInv, IsRotateSink, IsPrepared, IsFileSink, IsStream
   <2> QED
      BY <1>2, <2>1, <2>2
<1>4. /\ m \in Items
      /\ \/ UNCHANGED s
         \/ s.size <= s.max /\ s' = Written(s, m)
         \/ \E t : /\ s' = Written(t, m) /\ RotateInv(t)
                   /\ t.missed = 0 \/ (~t.open /\ t.missed = s.missed)
   BY <1>3, FileWriteCases
<1> HIDE DEF m
<1>5. ASSUME NEW t, s' = Written(t, m), RotateInv(t), t.missed = 0 \/ (~t.open /\ t.missed = s.missed)
      PROVE  s.missed < s.max + 2
   <2>1. s'.missed \in t.missed..(t.missed + 1) /\ (~t.open => s'.missed = t.missed)
      BY <1>4, <1>5, WrittenResult
   <2> QED
      BY <1>2, <1>5, <2>1
<1> QED
   BY <1>2, <1>4, <1>5

(* A device that was full costs at most the limit and two messages after it   *)
(* has room again: what badbit turns away counts towards the rotation that    *)
(* opens a new stream.                                                        *)
THEOREM LeavesErrorsBehind == Spec => RotatesOutOfErrors
<1>1. SinkInv /\ [Next]_vars => [Rotates /\ s'.missed > s.missed => s.missed < s.max + 2]_vars
   BY MissedStep
<1> QED
   BY Invariant, <1>1, PTL DEF Spec, RotatesOutOfErrors

--------------------------------------------------------------------------------
(* The order of the messages.  Every operator leaves what is read under the    *)
(* paths as it is, cuts it short or appends to it, and a rename moves it to an *)
(* archive that is newer than all others of its path.                          *)

Precedes(text, m, n) == \E i, j \in DOMAIN text : i < j /\ text[i] = m /\ text[j] = n

(* m is read before n, in the file or in an archive ... *)
ReadBefore(t, m, n) == \E path \in DOMAIN t.files : Precedes(TextUnder(t, path), m, n)

(* ... or m is in an archive, and n in the same, in a newer one or in the file.*)
ArchivedBefore(t, m, n) ==
   \E a \in t.archives :
      \/ Precedes(a.text, m, n)
      \/ /\ m \in MessagesIn(a.text)
         /\ \/ \E b \in ArchivesAt(t, a.path) : Older(a, b) /\ n \in MessagesIn(b.text)
            \/ a.path \in DOMAIN t.files /\ n \in MessagesIn(TextUnder(t, a.path))

(* Under its paths u has what t has, and messages of new behind it. *)
AddsOnly(t, u, new) ==
   \A path \in DOMAIN u.files :
      /\ \A m \in MessagesIn(TextUnder(u, path)) :
            m \in new \/ (path \in DOMAIN t.files /\ m \in MessagesIn(TextUnder(t, path)))
      /\ \A m, n \in Messages : Precedes(TextUnder(u, path), m, n) =>
            /\ path \in DOMAIN t.files
            /\ \/ Precedes(TextUnder(t, path), m, n)
               \/ m \in MessagesIn(TextUnder(t, path)) /\ n \in new

(* What is read under a path is its file, and the buffer if that is for it. *)
LEMMA TextUnderParts ==
   ASSUME NEW t, IsStream(t), NEW path \in DOMAIN t.files
   PROVE  /\ TextUnder(t, path) \in Seq(Items) /\ t.files[path] \in Seq(Items) /\ t.buf \in Seq(Items)
          /\ path # t.path \/ t.buf = <<>> => TextUnder(t, path) = t.files[path]
          /\ path = t.path => TextUnder(t, path) = t.files[path] \o t.buf
<1>1. t.files[path] \in Seq(Items) /\ t.buf \in Seq(Items)
   BY DEF IsStream
<1>2. t.files[path] \o <<>> = t.files[path]
   BY <1>1
<1>3. path # t.path \/ t.buf = <<>> => TextUnder(t, path) = t.files[path]
   BY <1>2 DEF TextUnder
<1>4. path = t.path => TextUnder(t, path) = t.files[path] \o t.buf
   BY DEF TextUnder
<1>5. t.files[path] \o t.buf \in Seq(Items)
   BY <1>1
<1>6. TextUnder(t, path) \in Seq(Items)
   BY <1>1, <1>3, <1>4, <1>5
<1> QED
   BY <1>1, <1>3, <1>4, <1>6

(* The order in a text is that in a longer one, and so are its messages. *)
LEMMA PrecedesInLonger ==
   ASSUME NEW a \in Seq(Items), NEW b \in Seq(Items)
   PROVE  /\ MessagesIn(a) \subseteq MessagesIn(a \o b)
          /\ \A m, n : Precedes(a, m, n) => Precedes(a \o b, m, n)
<1>1. DOMAIN a \subseteq DOMAIN (a \o b) /\ \A i \in DOMAIN a : (a \o b)[i] = a[i]
   OBVIOUS
<1>2. MessagesIn(a) \subseteq MessagesIn(a \o b)
   BY MessagesInConcatenation
<1> HIDE DEF Precedes
<1>3. ASSUME NEW m, NEW n, Precedes(a, m, n)
      PROVE  Precedes(a \o b, m, n)
   <2> DEFINE c == a \o b
   <2>1. DOMAIN a \subseteq DOMAIN c /\ \A i \in DOMAIN a : c[i] = a[i]
      BY <1>1
   <2> HIDE DEF c
   <2>2. Precedes(c, m, n)
      BY <1>3, <2>1 DEF Precedes
   <2> QED
      BY <2>2 DEF c
<1> QED
   BY <1>2, <1>3

(* An item that is appended comes after those that are there. *)
LEMMA PrecedesInAppend ==
   ASSUME NEW a \in Seq(Items), NEW item \in Items, NEW m \in Messages, NEW n,
          Precedes(Append(a, item), m, n)
   PROVE  Precedes(a, m, n) \/ (m \in MessagesIn(a) /\ n = item)
<1> DEFINE c == Append(a, item)
<1>1. /\ DOMAIN c = 1..(Len(a) + 1) /\ c[Len(a) + 1] = item /\ Len(a) \in Nat
      /\ DOMAIN a = 1..Len(a) /\ \A i \in 1..Len(a) : c[i] = a[i]
   OBVIOUS
<1>2. Precedes(c, m, n)
   OBVIOUS
<1> HIDE DEF c
<1>3. PICK i, j \in DOMAIN c : i < j /\ c[i] = m /\ c[j] = n
   BY <1>2 DEF Precedes
<1>4. i \in DOMAIN a /\ a[i] = m
   BY <1>1, <1>3
<1>5. m \in MessagesIn(a)
   BY <1>4 DEF MessagesIn, ToSet
<1>6. CASE j = Len(a) + 1
   BY <1>1, <1>3, <1>5, <1>6
<1>7. CASE j # Len(a) + 1
   <2>1. j \in DOMAIN a /\ a[j] = n
      BY <1>1, <1>3, <1>7
   <2> QED
      BY <1>3, <1>4, <2>1 DEF Precedes
<1> QED
   BY <1>6, <1>7

(* Nothing precedes anything in an empty text. *)
LEMMA NothingInEmpty == MessagesIn(<<>>) = {} /\ \A m, n : ~Precedes(<<>>, m, n)
<1>1. DOMAIN <<>> = {}
   OBVIOUS
<1> QED
   BY <1>1, MessagesInEmpty DEF Precedes

(* Texts that are kept, cut short to the file or lost add nothing. *)
LEMMA NothingAdded ==
   ASSUME NEW t, IsStream(t), NEW u,
          \A path \in DOMAIN u.files :
             \/ TextUnder(u, path) = <<>>
             \/ path \in DOMAIN t.files /\ TextUnder(u, path) \in {TextUnder(t, path), t.files[path]}
   PROVE  AddsOnly(t, u, {})
<1> SUFFICES ASSUME NEW path \in DOMAIN u.files
             PROVE  /\ \A m \in MessagesIn(TextUnder(u, path)) :
                          path \in DOMAIN t.files /\ m \in MessagesIn(TextUnder(t, path))
                    /\ \A m, n \in Messages : Precedes(TextUnder(u, path), m, n) =>
                          path \in DOMAIN t.files /\ Precedes(TextUnder(t, path), m, n)
   BY DEF AddsOnly
<1>1. CASE TextUnder(u, path) = <<>>
   BY <1>1, NothingInEmpty
<1>2. CASE path \in DOMAIN t.files /\ TextUnder(u, path) = TextUnder(t, path)
   BY <1>2
<1>3. CASE path \in DOMAIN t.files /\ TextUnder(u, path) = t.files[path]
   <2>1. /\ t.files[path] \in Seq(Items) /\ t.buf \in Seq(Items)
         /\ TextUnder(t, path) = t.files[path] \/ TextUnder(t, path) = t.files[path] \o t.buf
      BY <1>3, TextUnderParts
   <2> QED
      BY <1>3, <2>1, PrecedesInLonger
<1> QED
   BY <1>1, <1>2, <1>3

(* The same path, buffer and files. *)
LEMMA StreamKept ==
   ASSUME NEW t, IsStream(t), NEW u, u.path = t.path, u.buf = t.buf, u.files = t.files
   PROVE  AddsOnly(t, u, {})
   BY NothingAdded DEF TextUnder

(* One change after another. *)
LEMMA AddsInTurn ==
   ASSUME NEW t, NEW u, NEW v, NEW first, NEW then, AddsOnly(t, u, first), AddsOnly(u, v, then),
          first = {} \/ then = {}
   PROVE  AddsOnly(t, v, first \cup then)
<1> SUFFICES ASSUME NEW path \in DOMAIN v.files
             PROVE  /\ \A m \in MessagesIn(TextUnder(v, path)) :
                          \/ m \in first \cup then
                          \/ path \in DOMAIN t.files /\ m \in MessagesIn(TextUnder(t, path))
                    /\ \A m, n \in Messages : Precedes(TextUnder(v, path), m, n) =>
                          /\ path \in DOMAIN t.files
                          /\ \/ Precedes(TextUnder(t, path), m, n)
                             \/ m \in MessagesIn(TextUnder(t, path)) /\ n \in first \cup then
   BY DEF AddsOnly
<1>1. /\ \A m \in MessagesIn(TextUnder(v, path)) :
            m \in then \/ (path \in DOMAIN u.files /\ m \in MessagesIn(TextUnder(u, path)))
      /\ \A m, n \in Messages : Precedes(TextUnder(v, path), m, n) =>
            /\ path \in DOMAIN u.files
            /\ \/ Precedes(TextUnder(u, path), m, n)
               \/ m \in MessagesIn(TextUnder(u, path)) /\ n \in then
   BY DEF AddsOnly
<1>2. path \in DOMAIN u.files =>
      /\ \A m \in MessagesIn(TextUnder(u, path)) :
            m \in first \/ (path \in DOMAIN t.files /\ m \in MessagesIn(TextUnder(t, path)))
      /\ \A m, n \in Messages : Precedes(TextUnder(u, path), m, n) =>
            /\ path \in DOMAIN t.files
            /\ \/ Precedes(TextUnder(t, path), m, n)
               \/ m \in MessagesIn(TextUnder(t, path)) /\ n \in first
   BY DEF AddsOnly
<1> QED
   BY <1>1, <1>2

(* operator<< appends, to an open file, or does nothing. *)
LEMMA PutAdds ==
   ASSUME NEW t, IsStream(t), NEW item \in Items
   PROVE  AddsOnly(t, Put(t, item), {item} \cap Messages)
<1> DEFINE u == Put(t, item)
<1>1. /\ IsStream(u) /\ Same(t, u, {"buf", "lost", "missed"})
      /\ t.open /\ ~t.bad => u.buf = Append(t.buf, item)
      /\ ~t.open \/ t.bad => u.buf = t.buf
   BY PutResult
<1> HIDE DEF u
<1>2. u.path = t.path /\ u.files = t.files
   BY <1>1 DEF IsStream, StreamFields, Same
<1>3. CASE ~t.open \/ t.bad
   <2>1. AddsOnly(t, u, {})
      BY <1>1, <1>2, <1>3, StreamKept
   <2> QED
      BY <2>1 DEF AddsOnly, u
<1>4. CASE t.open /\ ~t.bad
   <2> SUFFICES ASSUME NEW path \in DOMAIN t.files
                PROVE  /\ \A m \in MessagesIn(TextUnder(u, path)) :
                             m \in {item} \cap Messages \/ m \in MessagesIn(TextUnder(t, path))
                       /\ \A m, n \in Messages : Precedes(TextUnder(u, path), m, n) =>
                             \/ Precedes(TextUnder(t, path), m, n)
                             \/ m \in MessagesIn(TextUnder(t, path)) /\ n \in {item} \cap Messages
      BY <1>2 DEF AddsOnly, u
   <2>1. CASE path # t.path
      BY <1>2, <2>1 DEF TextUnder
   <2>2. CASE path = t.path
      <3>1. /\ TextUnder(t, path) \in Seq(Items) /\ t.files[path] \in Seq(Items) /\ t.buf \in Seq(Items)
            /\ TextUnder(t, path) = t.files[path] \o t.buf
         BY <2>2, TextUnderParts
      <3>2. TextUnder(u, path) = Append(TextUnder(t, path), item)
         <4>1. TextUnder(u, path) = t.files[path] \o Append(t.buf, item)
            BY <1>1, <1>2, <1>4, <2>2 DEF TextUnder
         <4>2. t.files[path] \o Append(t.buf, item) = Append(t.files[path] \o t.buf, item)
            BY <3>1, AppendToSecond
         <4> QED
            BY <3>1, <4>1, <4>2
      <3>3. MessagesIn(TextUnder(u, path)) = MessagesIn(TextUnder(t, path)) \cup ({item} \cap Messages)
         BY <3>1, <3>2, MessagesInAppend
      <3>4. \A m, n \in Messages : Precedes(TextUnder(u, path), m, n) =>
               Precedes(TextUnder(t, path), m, n) \/ (m \in MessagesIn(TextUnder(t, path)) /\ n = item)
         BY <3>1, <3>2, PrecedesInAppend
      <3> QED
         BY <3>3, <3>4
   <2> QED
      BY <2>1, <2>2
<1> QED
   BY <1>3, <1>4 DEF IsStream

(* A text of the sink itself adds no message. *)
LEMMA PutTextAdds ==
   ASSUME NEW t, IsStream(t), NEW text \in Texts
   PROVE  AddsOnly(t, Put(t, text), {}) /\ IsStream(Put(t, text))
<1>1. text \in Items /\ {text} \cap Messages = {}
   BY TextItems
<1>2. AddsOnly(t, Put(t, text), {text} \cap Messages)
   BY <1>1, PutAdds
<1> QED
   BY <1>1, <1>2, PutResult

(* What is written to the device is read as before. *)
LEMMA WrittenToDevice ==
   ASSUME NEW t, IsStream(t), NEW u, u.path = t.path, u.buf = <<>>,
          DOMAIN u.files = DOMAIN t.files,
          \A path \in DOMAIN t.files \ {t.path} : u.files[path] = t.files[path],
          t.path \in DOMAIN t.files => u.files[t.path] \in {t.files[t.path], t.files[t.path] \o t.buf}
   PROVE  AddsOnly(t, u, {})
<1> SUFFICES ASSUME NEW path \in DOMAIN u.files
             PROVE  path \in DOMAIN t.files /\ TextUnder(u, path) \in {TextUnder(t, path), t.files[path]}
   BY NothingAdded
<1>1. /\ TextUnder(t, path) \in Seq(Items) /\ t.files[path] \in Seq(Items)
      /\ path = t.path => TextUnder(t, path) = t.files[path] \o t.buf
   BY TextUnderParts
<1>2. u.files[path] \in {TextUnder(t, path), t.files[path]}
   BY <1>1
<1>3. TextUnder(u, path) = u.files[path] \o <<>>
   BY DEF TextUnder
<1>4. u.files[path] \in Seq(Items)
   BY <1>1, <1>2
<1> QED
   BY <1>2, <1>3, <1>4

(* std::flush *)
LEMMA FlushedAdds ==
   ASSUME NEW t, IsStream(t)
   PROVE  AddsOnly(t, Flushed(t), {}) /\ IsStream(Flushed(t))
<1> DEFINE u == Flushed(t)
<1>1. /\ IsStream(u) /\ Same(t, u, {"bad", "buf", "files"})
      /\ DOMAIN u.files = DOMAIN t.files
      /\ \A path \in DOMAIN t.files \ {t.path} : u.files[path] = t.files[path]
      /\ \/ u.bad /\ u.buf = t.buf /\ u.files = t.files
         \/ ~u.bad /\ u.buf = <<>> /\ (t.open => u.files[t.path] = t.files[t.path] \o t.buf)
      /\ t.bad \/ ~t.open => u = t
   BY FlushedResult
<1> HIDE DEF u
<1>2. u.path = t.path
   BY <1>1 DEF IsStream, StreamFields, Same
<1>3. CASE u.buf = t.buf /\ u.files = t.files
   BY <1>1, <1>2, <1>3, StreamKept DEF u
<1>4. CASE u.buf = <<>> /\ t.open /\ u.files[t.path] = t.files[t.path] \o t.buf
   BY <1>1, <1>2, <1>4, WrittenToDevice DEF u
<1> QED
   BY <1>1, <1>3, <1>4 DEF IsStream

(* close *)
LEMMA ClosedAdds ==
   ASSUME NEW t, IsStream(t)
   PROVE  AddsOnly(t, Closed(t), {}) /\ IsStream(Closed(t)) /\ ~Closed(t).open
<1> DEFINE u == Closed(t)
<1>1. /\ IsStream(u) /\ Same(t, u, {"open", "bad", "buf", "files", "lost", "missed"})
      /\ ~u.open /\ u.buf = <<>>
      /\ DOMAIN u.files = DOMAIN t.files
      /\ \A path \in DOMAIN t.files \ {t.path} : u.files[path] = t.files[path]
      /\ \/ u.files = t.files
         \/ t.open /\ u.files[t.path] = t.files[t.path] \o t.buf
   BY ClosedResult
<1> HIDE DEF u
<1>2. u.path = t.path
   BY <1>1 DEF IsStream, StreamFields, Same
<1> QED
   BY <1>1, <1>2, WrittenToDevice DEF u

(* A kill *)
LEMMA KilledAdds ==
   ASSUME NEW t, IsStream(t)
   PROVE  AddsOnly(t, Killed(t), {}) /\ IsStream(Killed(t)) /\ ~Killed(t).open
<1> DEFINE u == Killed(t)
<1>1. IsStream(u) /\ Same(t, u, {"open", "bad", "buf", "lost", "missed"}) /\ ~u.open /\ u.buf = <<>>
   BY KilledResult
<1> HIDE DEF u
<1>2. u.path = t.path /\ u.files = t.files
   BY <1>1 DEF IsStream, StreamFields, Same
<1> QED
   BY <1>1, <1>2, WrittenToDevice DEF u

(* openLogFile *)
LEMMA OpenedAdds ==
   ASSUME NEW t, IsStream(t), ~t.open, NEW path
   PROVE  AddsOnly(t, OpenedAt(t, path), {}) /\ IsStream(OpenedAt(t, path))
<1> DEFINE u == OpenedAt(t, path)
<1>1. /\ IsStream(u) /\ Same(t, u, {"path", "open", "files"})
      /\ DOMAIN u.files = DOMAIN t.files \cup {path}
      /\ path \notin DOMAIN t.files => u.files[path] = <<>>
      /\ \A other \in DOMAIN t.files : u.files[other] = t.files[other]
   BY OpenedResult
<1> HIDE DEF u
<1>2. u.buf = <<>>
   BY <1>1 DEF IsStream, StreamFields, Same
<1>3. ASSUME NEW other \in DOMAIN u.files
      PROVE  \/ TextUnder(u, other) = <<>>
             \/ other \in DOMAIN t.files /\ TextUnder(u, other) = t.files[other]
   <2>1. TextUnder(u, other) = u.files[other]
      BY <1>1, <1>2, <1>3, TextUnderParts
   <2> QED
      BY <1>1, <2>1
<1> QED
   BY <1>1, <1>3, NothingAdded DEF u

(* createLogFile *)
LEMMA ReplacedAdds ==
   ASSUME NEW t, IsStream(t), NEW path
   PROVE  AddsOnly(t, Replaced(t, path), {}) /\ IsStream(Replaced(t, path))
<1> DEFINE c == Closed(t)
           u == OpenedAt(c, path)
<1>1. AddsOnly(t, c, {}) /\ IsStream(c) /\ ~c.open
   BY ClosedAdds
<1> HIDE DEF c
<1>2. AddsOnly(c, u, {}) /\ IsStream(u)
   BY <1>1, OpenedAdds
<1> HIDE DEF u
<1>3. Replaced(t, path) = u
   BY DEF Replaced, OpenedAt, c, u
<1>4. AddsOnly(t, u, {} \cup {})
   BY <1>1, <1>2, AddsInTurn
<1>5. {} \cup {} = {}
   OBVIOUS
<1> QED
   BY <1>2, <1>3, <1>4, <1>5

(* Members of the class *)
LEMMA OtherFieldsAdd ==
   ASSUME NEW t, NEW u, NEW changed, IsStream(t), Same(t, u, changed), changed \cap StreamFields = {}
   PROVE  AddsOnly(t, u, {}) /\ IsStream(u)
   BY OtherFields, StreamKept

(* Two changes that add nothing. *)
LEMMA NothingInTurn ==
   ASSUME NEW t, NEW u, NEW v, AddsOnly(t, u, {}), AddsOnly(u, v, {})
   PROVE  AddsOnly(t, v, {})
<1>1. AddsOnly(t, v, {} \cup {})
   BY AddsInTurn
<1> QED
   BY <1>1

(* fileWrite of FileSink adds the message. *)
LEMMA FileSinkWrittenAdds ==
   ASSUME NEW t, IsStream(t), NEW m \in Messages
   PROVE  AddsOnly(t, FileSinkWritten(t, m), {m})
<1> DEFINE h == IF t.first THEN Put(t, Header) ELSE t
           g == [h EXCEPT !.first = FALSE]
           p == Put(g, m)
           u == Flushed(p)
           changed == {"first"}
<1>1. AddsOnly(t, h, {}) /\ IsStream(h)
   BY TextItems, PutTextAdds, StreamKept
<1>2. Same(h, g, changed) /\ changed \cap StreamFields = {}
   BY DEF Same, StreamFields
<1> HIDE DEF h
<1>3. AddsOnly(h, g, {}) /\ IsStream(g)
   <2> HIDE DEF g, changed
   <2> QED
      BY <1>1, <1>2, OtherFieldsAdd
<1> HIDE DEF g
<1>4. m \in Items /\ {m} \cap Messages = {m}
   BY DEF Items
<1>5. AddsOnly(g, p, {m}) /\ IsStream(p)
   <2>1. AddsOnly(g, p, {m} \cap Messages)
      BY <1>3, <1>4, PutAdds
   <2> QED
      BY <1>3, <1>4, <2>1, PutResult
<1> HIDE DEF p
<1>6. AddsOnly(p, u, {})
   BY <1>5, FlushedAdds
<1>7. FileSinkWritten(t, m) = u
   BY DEF FileSinkWritten, u, p, g, h
<1> HIDE DEF u
<1>8. AddsOnly(t, g, {})
   BY <1>1, <1>3, NothingInTurn
<1>9. AddsOnly(t, p, {} \cup {m})
   BY <1>5, <1>8, AddsInTurn
<1>10. AddsOnly(t, u, ({} \cup {m}) \cup {})
   BY <1>6, <1>9, AddsInTurn
<1>11. ({} \cup {m}) \cup {} = {m}
   OBVIOUS
<1> QED
   BY <1>7, <1>10, <1>11

(* flushPolicy adds nothing. *)
LEMMA PolicyAppliedAdds ==
   ASSUME NEW t, IsStream(t), t.policy \in Nat
   PROVE  AddsOnly(t, PolicyApplied(t), {})
<1> DEFINE changed == {"counter"}
<1>1. changed \cap StreamFields = {}
   BY DEF StreamFields
<1>2. CASE PolicyApplied(t) = t
   BY <1>2, StreamKept
<1>3. CASE PolicyApplied(t) = [Flushed(t) EXCEPT !.counter = t.policy]
   <2> DEFINE f == Flushed(t)
              u == [f EXCEPT !.counter = t.policy]
   <2>1. AddsOnly(t, f, {}) /\ IsStream(f)
      BY FlushedAdds
   <2> HIDE DEF f
   <2>2. Same(f, u, changed)
      BY DEF Same
   <2>3. PolicyApplied(t) = u
      BY <1>3 DEF f
   <2> HIDE DEF u, changed
   <2>4. AddsOnly(f, u, {})
      BY <1>1, <2>1, <2>2, OtherFieldsAdd
   <2> QED
      BY <2>1, <2>3, <2>4, NothingInTurn
<1>4. CASE PolicyApplied(t) = [t EXCEPT !.counter = @ - 1]
   <2> DEFINE u == [t EXCEPT !.counter = @ - 1]
   <2>1. Same(t, u, changed)
      BY DEF Same
   <2>2. PolicyApplied(t) = u
      BY <1>4
   <2> HIDE DEF u, changed
   <2> QED
      BY <1>1, <2>1, <2>2, OtherFieldsAdd
<1> QED
   BY <1>2, <1>3, <1>4, PolicyAppliedCases

(* fileWriteWithoutRotate adds the item if it is a message. *)
LEMMA WrittenAdds ==
   ASSUME NEW t, IsRotateSink(t), NEW item \in Items
   PROVE  AddsOnly(t, Written(t, item), {item} \cap Messages)
<1> DEFINE p == Put(t, item)
           q == PolicyApplied(p)
           u == [q EXCEPT !.size = @ + 1]
           new == {item} \cap Messages
           changed == {"size"}
<1>1. IsStream(t)
   BY DEF IsRotateSink, IsPrepared
<1>2. AddsOnly(t, p, new)
   BY <1>1, PutAdds
<1>3. IsStream(p) /\ p.policy \in Nat
   BY PutRotate DEF IsRotateSink, IsPrepared
<1> HIDE DEF p
<1>4. AddsOnly(p, q, {}) /\ IsStream(q)
   <2>1. AddsOnly(p, q, {})
      BY <1>3, PolicyAppliedAdds
   <2> DEFINE f == Flushed(p)
   <2>2. IsStream(f)
      BY <1>3, FlushedAdds
   <2>3. q = p \/ q = [f EXCEPT !.counter = p.policy] \/ q = [p EXCEPT !.counter = @ - 1]
      BY <1>3, PolicyAppliedCases
   <2> DEFINE c == {"counter"}
   <2>4. c \cap StreamFields = {}
      BY DEF StreamFields
   <2> HIDE DEF q, f
   <2>5. q = p \/ Same(f, q, c) \/ Same(p, q, c)
      BY <2>3 DEF Same
   <2> HIDE DEF c
   <2> QED
      BY <1>3, <2>1, <2>2, <2>4, <2>5, OtherFieldsAdd
<1> HIDE DEF q
<1>5. Same(q, u, changed) /\ changed \cap StreamFields = {}
   BY DEF Same, StreamFields
<1>6. Written(t, item) = u
   BY DEF Written, p, q
<1> HIDE DEF u, changed
<1>7. AddsOnly(q, u, {})
   BY <1>4, <1>5, OtherFieldsAdd
<1> HIDE DEF new
<1>8. AddsOnly(t, q, new \cup {})
   BY <1>2, <1>4, AddsInTurn
<1>9. AddsOnly(t, u, (new \cup {}) \cup {})
   BY <1>7, <1>8, AddsInTurn
<1>10. (new \cup {}) \cup {} = new
   OBVIOUS
<1> QED
   BY <1>6, <1>9, <1>10 DEF new

(* A text of the sink itself adds nothing. *)
LEMMA WrittenTextAdds ==
   ASSUME NEW t, IsRotateSink(t), NEW text \in Texts
   PROVE  AddsOnly(t, Written(t, text), {})
<1>1. text \in Items /\ {text} \cap Messages = {}
   BY TextItems
<1>2. AddsOnly(t, Written(t, text), {text} \cap Messages)
   BY <1>1, WrittenAdds
<1> QED
   BY <1>1, <1>2

(* setLogSizeCounter adds nothing. *)
LEMMA CountedAdds ==
   ASSUME NEW t, IsStream(t)
   PROVE  AddsOnly(t, Counted(t), {})
<1> DEFINE f == Flushed(t)
           n == IF f.open /\ ~f.bad THEN Len(f.files[f.path]) ELSE -1
           u == [f EXCEPT !.size = n, !.counter = f.policy, !.missed = 0]
<1>1. AddsOnly(t, f, {}) /\ IsStream(f)
   BY FlushedAdds
<1>2. Counted(t) = u
   BY DEF Counted
<1> HIDE DEF f, n
<1>3. u.path = f.path /\ u.buf = f.buf /\ u.files = f.files
   BY <1>1 DEF IsStream, StreamFields
<1> HIDE DEF u
<1>4. AddsOnly(f, u, {})
   BY <1>1, <1>3, StreamKept
<1> QED
   BY <1>1, <1>2, <1>4, NothingInTurn

(* changeLogFile that succeeds adds nothing. *)
LEMMA ChangedToAdds ==
   ASSUME NEW t, IsPrepared(t), NEW l
   PROVE  AddsOnly(t, ChangedTo(t, l), {})
<1> DEFINE r == Replaced(t, PathOf(l))
           g == [r EXCEPT !.log = l]
           p == Put(g, Header)
           u == Counted(p)
           changed == {"log"}
<1>1. AddsOnly(t, r, {}) /\ IsStream(r)
   BY ReplacedAdds DEF IsPrepared
<1> HIDE DEF r
<1>2. Same(r, g, changed) /\ changed \cap StreamFields = {}
   BY DEF Same, StreamFields
<1> HIDE DEF g, changed
<1>3. AddsOnly(r, g, {}) /\ IsStream(g)
   BY <1>1, <1>2, OtherFieldsAdd
<1>4. AddsOnly(g, p, {}) /\ IsStream(p)
   BY <1>3, TextItems, PutTextAdds
<1> HIDE DEF p
<1>5. AddsOnly(p, u, {})
   BY <1>4, CountedAdds
<1>6. ChangedTo(t, l) = u
   BY DEF ChangedTo, Changed, u, p, g, r
<1> HIDE DEF u
<1> QED
   BY <1>1, <1>3, <1>4, <1>5, <1>6, NothingInTurn

(* The end of a process adds nothing. *)
LEMMA StoppedAdds ==
   ASSUME NEW t, IsStream(t), NEW killed
   PROVE  AddsOnly(t, Stopped(t, killed), {})
<1>1. CASE killed
   BY <1>1, KilledAdds DEF Stopped
<1>2. CASE ~killed
   <2> DEFINE p == Put(t, Bye)
              f == Flushed(p)
   <2>1. AddsOnly(t, p, {}) /\ IsStream(p)
      BY TextItems, PutTextAdds
   <2> HIDE DEF p
   <2>2. AddsOnly(p, f, {}) /\ IsStream(f)
      BY <2>1, FlushedAdds
   <2> HIDE DEF f
   <2>3. AddsOnly(f, Closed(f), {})
      BY <2>2, ClosedAdds
   <2>4. Stopped(t, killed) = Closed(f)
      BY <1>2 DEF Stopped, f, p
   <2> QED
      BY <2>1, <2>2, <2>3, <2>4, NothingInTurn
<1> QED
   BY <1>1, <1>2

(* The constructor adds nothing to the files that are there. *)
LEMMA ConstructedAdds ==
   ASSUME NEW t, IsPrepared(t), NEW start
   PROVE  AddsOnly(t, Constructed(t, start), {})
<1> DEFINE l == [dir |-> start.dir, name |-> prefixSanityFix(start.name)]
           v == [t EXCEPT !.num = 0, !.failed = FALSE]
           changed == {"num", "failed"}
<1>1. /\ Same(t, v, changed) /\ changed \cap StreamFields = {} /\ IsStream(t)
      /\ v.num = 0 /\ SameArguments(t, v) /\ v.size = t.size /\ v.counter = t.counter
   <2>1. "num" \in DOMAIN t /\ "failed" \in DOMAIN t /\ IsStream(t)
      BY DEF IsPrepared, RotateMembers
   <2>2. Same(t, v, changed) /\ v.num = 0
      BY <2>1 DEF Same
   <2>3. changed \cap StreamFields = {}
      BY DEF StreamFields
   <2>4. SameArguments(t, v) /\ v.size = t.size /\ v.counter = t.counter
      BY DEF SameArguments
   <2> HIDE DEF v, changed
   <2> QED
      BY <2>1, <2>2, <2>3, <2>4
<1>2. Constructed(t, start) = ChangedTo(v, l)
   BY DEF Constructed, ChangedTo
<1> HIDE DEF v, l, changed
<1>3. AddsOnly(t, v, {}) /\ IsStream(v)
   BY <1>1, OtherFieldsAdd
<1>4. IsPrepared(v)
   BY <1>1, <1>3 DEF IsPrepared, SameArguments
<1>5. AddsOnly(v, ChangedTo(v, l), {})
   BY <1>4, ChangedToAdds
<1> QED
   BY <1>2, <1>3, <1>5, NothingInTurn

(* What the texts of a FileRotateSink say about two messages. *)
Reads(t, m, n) == ReadBefore(t, m, n) \/ ArchivedBefore(t, m, n)

(* u has no other order than t. *)
OrderKept(t, u) == \A m, n \in Messages : Reads(u, m, n) => Reads(t, m, n)

(* No two archives have one name. *)
KeysDistinct(t) ==
   \A a, b \in t.archives : a.path = b.path /\ a.time = b.time /\ a.num = b.num => a = b

(* One change after another. *)
LEMMA OrderInTurn ==
   ASSUME NEW t, NEW u, NEW v, OrderKept(t, u), OrderKept(u, v)
   PROVE  OrderKept(t, v)
   BY DEF OrderKept

(* Whatever adds nothing to the files and no archive keeps the order; of       *)
(* archives it may take some.                                                  *)
LEMMA AddsNothingKeepsOrder ==
   ASSUME NEW t, NEW u, AddsOnly(t, u, {}), u.archives \subseteq t.archives
   PROVE  OrderKept(t, u) /\ (KeysDistinct(t) => KeysDistinct(u))
<1>1. ASSUME NEW m \in Messages, NEW n \in Messages, ReadBefore(u, m, n)
      PROVE  ReadBefore(t, m, n)
   BY <1>1 DEF AddsOnly, ReadBefore
<1>2. ASSUME NEW m \in Messages, NEW n \in Messages, ArchivedBefore(u, m, n)
      PROVE  ArchivedBefore(t, m, n)
   <2>1. PICK a \in u.archives :
            \/ Precedes(a.text, m, n)
            \/ /\ m \in MessagesIn(a.text)
               /\ \/ \E b \in ArchivesAt(u, a.path) : Older(a, b) /\ n \in MessagesIn(b.text)
                  \/ a.path \in DOMAIN u.files /\ n \in MessagesIn(TextUnder(u, a.path))
      BY <1>2 DEF ArchivedBefore
   <2>2. a \in t.archives /\ ArchivesAt(u, a.path) \subseteq ArchivesAt(t, a.path)
      BY DEF ArchivesAt
   <2>3. a.path \in DOMAIN u.files /\ n \in MessagesIn(TextUnder(u, a.path))
         => a.path \in DOMAIN t.files /\ n \in MessagesIn(TextUnder(t, a.path))
      BY DEF AddsOnly
   <2> QED
      BY <2>1, <2>2, <2>3 DEF ArchivedBefore
<1>3. KeysDistinct(t) => KeysDistinct(u)
   BY DEF KeysDistinct
<1> QED
   BY <1>1, <1>2, <1>3 DEF OrderKept, Reads

(* The rename keeps the order, because the archive is the newest of its path. *)
LEMMA ArchivedKeepsOrder ==
   ASSUME NEW t, IsRotateSink(t), ~t.open, NEW num \in Nat, clock \in Nat,
          \A a \in t.archives : /\ a.time \in Nat /\ a.num \in Nat
                                /\ a.time < clock \/ (a.time = clock /\ a.num < num)
   PROVE  OrderKept(t, Archived(t, num)) /\ (KeysDistinct(t) => KeysDistinct(Archived(t, num)))
<1> DEFINE u == Archived(t, num)
           new == [path |-> t.path, time |-> clock, num |-> num, text |-> t.files[t.path]]
           old == {a \in t.archives : a.path = t.path /\ a.time = clock /\ a.num = num}
<1>1. IsPrepared(t) /\ IsStream(t) /\ t.buf = <<>> /\ t.path \in DOMAIN t.files
   BY DEF IsRotateSink, IsPrepared, IsStream
<1>2. u = [t EXCEPT !.archives = (@ \ old) \cup {new}, !.files = [@ EXCEPT ![t.path] = <<>>]]
   BY DEF Archived
<1>3. /\ u.archives = (t.archives \ old) \cup {new} /\ u.files = [t.files EXCEPT ![t.path] = <<>>]
      /\ u.path = t.path /\ u.buf = t.buf
   <2> HIDE DEF new, old
   <2> QED
      BY <1>1, <1>2 DEF IsPrepared, IsStream, StreamFields, RotateMembers
<1>4. /\ new.path = t.path /\ new.time = clock /\ new.num = num /\ new.text = t.files[t.path]
   OBVIOUS
<1>5. old = {}
   OBVIOUS
<1> HIDE DEF u, new, old
<1>6. DOMAIN u.files = DOMAIN t.files /\ TextUnder(u, t.path) = <<>>
   <2>1. u.files[t.path] = <<>>
      BY <1>1, <1>3
   <2> QED
      BY <1>1, <1>3, <2>1 DEF TextUnder
<1>7. \A path \in DOMAIN t.files \ {t.path} : TextUnder(u, path) = TextUnder(t, path)
   BY <1>3 DEF TextUnder
<1>8. TextUnder(t, t.path) = new.text
   BY <1>1, <1>4, TextUnderParts
<1>9. ASSUME NEW m \in Messages, NEW n \in Messages, ReadBefore(u, m, n)
      PROVE  ReadBefore(t, m, n)
   BY <1>6, <1>7, <1>9, NothingInEmpty DEF ReadBefore
<1>10. ASSUME NEW m \in Messages, NEW n \in Messages, ArchivedBefore(u, m, n)
       PROVE  Reads(t, m, n)
   <2>1. PICK a \in u.archives :
            \/ Precedes(a.text, m, n)
            \/ /\ m \in MessagesIn(a.text)
               /\ \/ \E b \in ArchivesAt(u, a.path) : Older(a, b) /\ n \in MessagesIn(b.text)
                  \/ a.path \in DOMAIN u.files /\ n \in MessagesIn(TextUnder(u, a.path))
      BY <1>10 DEF ArchivedBefore
   <2>2. CASE a = new
      <3>1. CASE Precedes(a.text, m, n)
         BY <1>1, <1>8, <2>2, <3>1 DEF Reads, ReadBefore
      <3>2. ASSUME NEW b \in ArchivesAt(u, a.path)
            PROVE  ~Older(a, b)
         <4>1. b = new \/ b \in t.archives
            BY <1>3 DEF ArchivesAt
         <4> QED
            BY <1>4, <2>2, <4>1 DEF Older
      <3>3. CASE a.path \in DOMAIN u.files /\ n \in MessagesIn(TextUnder(u, a.path))
         BY <1>4, <1>6, <2>2, <3>3, NothingInEmpty
      <3> QED
         BY <2>1, <3>1, <3>2, <3>3
   <2>3. CASE a \in t.archives
      <3>1. CASE Precedes(a.text, m, n)
         BY <2>3, <3>1 DEF Reads, ArchivedBefore
      <3>2. ASSUME m \in MessagesIn(a.text), NEW b \in ArchivesAt(u, a.path), Older(a, b),
                   n \in MessagesIn(b.text)
            PROVE  Reads(t, m, n)
         <4>1. CASE b = new
            <5>1. a.path = t.path /\ n \in MessagesIn(TextUnder(t, t.path))
               BY <1>4, <1>8, <3>2, <4>1 DEF ArchivesAt
            <5> QED
               BY <1>1, <2>3, <3>2, <5>1 DEF Reads, ArchivedBefore
         <4>2. CASE b \in t.archives
            <5>1. b \in ArchivesAt(t, a.path)
               BY <4>2 DEF ArchivesAt
            <5> QED
               BY <2>3, <3>2, <5>1 DEF Reads, ArchivedBefore
         <4> QED
            BY <1>3, <4>1, <4>2 DEF ArchivesAt
      <3>3. ASSUME m \in MessagesIn(a.text), a.path \in DOMAIN u.files, n \in MessagesIn(TextUnder(u, a.path))
            PROVE  Reads(t, m, n)
         <4>1. a.path # t.path
            BY <1>6, <3>3, NothingInEmpty
         <4>2. a.path \in DOMAIN t.files /\ n \in MessagesIn(TextUnder(t, a.path))
            BY <1>6, <1>7, <3>3, <4>1
         <4> QED
            BY <2>3, <3>3, <4>2 DEF Reads, ArchivedBefore
      <3> QED
         BY <2>1, <3>1, <3>2, <3>3
   <2> QED
      BY <1>3, <2>2, <2>3
<1>11. KeysDistinct(t) => KeysDistinct(u)
   BY <1>3, <1>4 DEF KeysDistinct, u
<1> QED
   BY <1>9, <1>10, <1>11 DEF OrderKept, Reads, u

(* The first step of rotateLog keeps the order. *)
LEMMA ClosedToRotateKeepsOrder ==
   ASSUME NEW t, IsRotateSink(t)
   PROVE  LET u == ClosedToRotate(t) IN OrderKept(t, u) /\ (KeysDistinct(t) => KeysDistinct(u))
<1> DEFINE c == Closed(t)
           u == ClosedToRotate(t)
           changed == {"num"}
<1>1. IsStream(t) /\ RotateMembers \subseteq DOMAIN t
   BY DEF IsRotateSink, IsPrepared
<1>2. AddsOnly(t, c, {}) /\ IsStream(c)
   BY <1>1, ClosedAdds
<1>3. Same(t, c, {"open", "bad", "buf", "files", "lost", "missed"})
   BY <1>1, ClosedResult
<1>4. c.archives = t.archives
   BY <1>1, <1>3 DEF Same, RotateMembers
<1> HIDE DEF c
<1>5. Same(c, u, changed) /\ changed \cap StreamFields = {} /\ u.archives = c.archives
   BY DEF Same, StreamFields, ClosedToRotate, c
<1> HIDE DEF u, changed
<1>6. AddsOnly(c, u, {})
   BY <1>2, <1>5, OtherFieldsAdd
<1>7. AddsOnly(t, u, {})
   BY <1>2, <1>6, NothingInTurn
<1> QED
   BY <1>4, <1>5, <1>7, AddsNothingKeepsOrder DEF u

(* Closing and renaming the file keep the order. *)
LEMMA MovedKeepsOrder ==
   ASSUME NEW t, RotateInv(t), clock \in Nat, ArchivesInv(t, clock)
   PROVE  LET u == Moved(t) IN OrderKept(t, u) /\ (KeysDistinct(t) => KeysDistinct(u))
<1> DEFINE c == ClosedToRotate(t)
           u == Archived(c, t.num)
<1>1. IsRotateSink(t) /\ t.num \in Nat
   BY DEF RotateInv, IsRotateSink, IsPrepared
<1>2. IsRotateSink(c) /\ ~c.open /\ c.archives = t.archives
   BY ClosedToRotateResult DEF RotateInv
<1>3. OrderKept(t, c) /\ (KeysDistinct(t) => KeysDistinct(c))
   BY <1>1, ClosedToRotateKeepsOrder
<1> HIDE DEF c
<1>4. \A a \in c.archives : /\ a.time \in Nat /\ a.num \in Nat
                            /\ a.time < clock \/ (a.time = clock /\ a.num < t.num)
   BY <1>2 DEF ArchivesInv
<1>5. OrderKept(c, u) /\ (KeysDistinct(c) => KeysDistinct(u))
   BY <1>1, <1>2, <1>4, ArchivedKeepsOrder
<1>6. Moved(t) = u
   BY DEF Moved, c
<1> HIDE DEF u
<1> QED
   BY <1>3, <1>5, <1>6, OrderInTurn

(* A sink with the same stream and archives reads the same. *)
LEMMA OtherFieldsKeepOrder ==
   ASSUME NEW t, NEW u, NEW changed, IsStream(t), Same(t, u, changed), changed \cap StreamFields = {},
          u.archives = t.archives
   PROVE  OrderKept(t, u) /\ (KeysDistinct(t) => KeysDistinct(u))
   BY OtherFieldsAdd, AddsNothingKeepsOrder

(* A text of the sink itself keeps the order. *)
LEMMA WrittenTextKeepsOrder ==
   ASSUME NEW t, RotateInv(t), NEW text \in Texts
   PROVE  LET u == Written(t, text) IN OrderKept(t, u) /\ (KeysDistinct(t) => KeysDistinct(u))
<1> DEFINE u == Written(t, text)
<1>1. AddsOnly(t, u, {}) /\ u.archives = t.archives
   BY WrittenTextAdds, WrittenText DEF RotateInv, SameSettings
<1> HIDE DEF u
<1> QED
   BY <1>1, AddsNothingKeepsOrder DEF u

(* The new file keeps the order and the archives. *)
LEMMA CreatedKeepsOrder ==
   ASSUME NEW t, RotateInv(t), clock \in Nat, ArchivesInv(t, clock)
   PROVE  LET u == Created(t) IN
          /\ OrderKept(t, u) /\ (KeysDistinct(t) => KeysDistinct(u))
          /\ RotateInv(u) /\ u.archives = Moved(t).archives
<1> DEFINE moved == Moved(t)
           w == [moved EXCEPT !.failed = FALSE]
           x == ChangedTo(w, t.log)
           c == Written(x, Note)
           changed == {"failed"}
<1>1. RotateInv(moved) /\ OrderKept(t, moved) /\ (KeysDistinct(t) => KeysDistinct(moved))
   BY MovedResult, MovedKeepsOrder
<1>2. c = Created(t)
   BY DEF Created
<1> HIDE DEF moved
<1>3. /\ Same(moved, w, changed) /\ changed \cap StreamFields = {} /\ SameArguments(moved, w)
      /\ w.size = moved.size /\ w.counter = moved.counter /\ w.num = moved.num
      /\ w.archives = moved.archives
   BY DEF Same, StreamFields, SameArguments
<1>4. IsPrepared(moved) /\ IsStream(moved)
   BY <1>1 DEF RotateInv, IsRotateSink, IsPrepared
<1> HIDE DEF w, changed
<1>5. OrderKept(moved, w) /\ (KeysDistinct(moved) => KeysDistinct(w))
   BY <1>3, <1>4, OtherFieldsKeepOrder
<1>6. IsPrepared(w)
   <2>1. IsStream(w)
      BY <1>3, <1>4, OtherFields
   <2> QED
      BY <1>3, <1>4, <2>1 DEF IsPrepared, SameArguments
<1>7. RotateInv(x) /\ AddsOnly(w, x, {}) /\ x.archives = w.archives
   BY <1>6, ChangedToResult, ChangedToAdds DEF SameSettings
<1> HIDE DEF x
<1>8. OrderKept(w, x) /\ (KeysDistinct(w) => KeysDistinct(x))
   BY <1>7, AddsNothingKeepsOrder
<1>9. /\ OrderKept(x, c) /\ (KeysDistinct(x) => KeysDistinct(c)) /\ RotateInv(c)
      /\ c.archives = x.archives
   BY <1>7, TextItems, WrittenTextKeepsOrder, WrittenText DEF SameSettings
<1> HIDE DEF c
<1>10. OrderKept(t, c) /\ (KeysDistinct(t) => KeysDistinct(c))
   BY <1>1, <1>5, <1>8, <1>9, OrderInTurn
<1> QED
   BY <1>2, <1>3, <1>7, <1>9, <1>10 DEF moved

(* A rotation keeps the order, however it ends. *)
LEMMA RotationKeepsOrder ==
   ASSUME NEW t, RotateInv(t), NEW u \in Rotations(t), clock \in Nat, ArchivesInv(t, clock)
   PROVE  OrderKept(t, u) /\ (KeysDistinct(t) => KeysDistinct(u))
<1>1. ASSUME NEW v, RotateInv(v)
      PROVE  LET f == WithFailure(v) IN
             OrderKept(v, f) /\ (KeysDistinct(v) => KeysDistinct(f)) /\ RotateInv(f) /\ f.open = v.open
   <2> DEFINE f == WithFailure(v)
              changed == {"failed"}
   <2>1. Same(v, f, changed) /\ changed \cap StreamFields = {} /\ IsStream(v)
      BY <1>1 DEF WithFailure, Same, StreamFields, RotateInv, IsRotateSink, IsPrepared
   <2>2. RotateInv(f) /\ f.archives = v.archives /\ f.open = v.open
      BY <1>1, WithFailureResult
   <2> HIDE DEF f, changed
   <2> QED
      BY <2>1, <2>2, OtherFieldsKeepOrder DEF f
<1>2. CASE u = WithFailure(t)
   BY <1>1, <1>2
<1>3. ASSUME NEW v, RotateInv(v), ~v.open, OrderKept(t, v), KeysDistinct(t) => KeysDistinct(v),
             u = WithFailure(v) \/ u = OpenedAt(WithFailure(v), t.path)
      PROVE  OrderKept(t, u) /\ (KeysDistinct(t) => KeysDistinct(u))
   <2> DEFINE f == WithFailure(v)
   <2>1. OrderKept(v, f) /\ (KeysDistinct(v) => KeysDistinct(f)) /\ RotateInv(f) /\ ~f.open
      BY <1>1, <1>3
   <2>2. u = f \/ u = OpenedAt(f, t.path)
      BY <1>3
   <2> HIDE DEF f
   <2>3. OrderKept(t, f) /\ (KeysDistinct(t) => KeysDistinct(f))
      BY <1>3, <2>1, OrderInTurn
   <2>4. CASE u = OpenedAt(f, t.path)
      <3>1. IsStream(f) /\ "archives" \in DOMAIN f
         BY <2>1 DEF RotateInv, IsRotateSink, IsPrepared, RotateMembers
      <3>2. AddsOnly(f, u, {}) /\ Same(f, u, {"path", "open", "files"})
         BY <2>1, <2>4, <3>1, OpenedAdds, OpenedResult
      <3>3. u.archives = f.archives
         BY <3>1, <3>2 DEF Same
      <3>4. OrderKept(f, u) /\ (KeysDistinct(f) => KeysDistinct(u))
         BY <3>2, <3>3, AddsNothingKeepsOrder
      <3> QED
         BY <2>3, <3>4, OrderInTurn
   <2> QED
      BY <2>2, <2>3, <2>4
<1> DEFINE moved == Moved(t)
<1>4. /\ RotateInv(moved) /\ ~moved.open /\ moved.log = t.log
      /\ OrderKept(t, moved) /\ (KeysDistinct(t) => KeysDistinct(moved))
   BY MovedResult, MovedKeepsOrder
<1> HIDE DEF moved
<1>5. ASSUME NEW v \in {ClosedToRotate(t), Written(moved, Refusal)}
      PROVE  /\ RotateInv(v) /\ ~v.open
             /\ OrderKept(t, v) /\ (KeysDistinct(t) => KeysDistinct(v))
   <2>1. CASE v = ClosedToRotate(t)
      BY <2>1, ClosedToRotateResult, ClosedToRotateKeepsOrder DEF RotateInv
   <2>2. CASE v = Written(moved, Refusal)
      <3>1. RotateInv(v) /\ v.open = moved.open
         BY <1>4, <2>2, TextItems, WrittenText
      <3>2. OrderKept(moved, v) /\ (KeysDistinct(moved) => KeysDistinct(v))
         BY <1>4, <2>2, TextItems, WrittenTextKeepsOrder
      <3> QED
         BY <1>4, <3>1, <3>2, OrderInTurn
   <2> QED
      BY <2>1, <2>2
<1>6. ASSUME NEW order, u \in Expirations(Created(t), order)
      PROVE  OrderKept(t, u) /\ (KeysDistinct(t) => KeysDistinct(u))
   <2> DEFINE c == Created(t)
   <2>1. OrderKept(t, c) /\ (KeysDistinct(t) => KeysDistinct(c)) /\ RotateInv(c)
      BY CreatedKeepsOrder
   <2>2. u \in Expirations(c, order)
      BY <1>6
   <2> HIDE DEF c
   <2>3. u.path = c.path /\ u.buf = c.buf /\ u.files = c.files /\ u.archives \subseteq c.archives
      BY <2>1, <2>2, ExpiredResult
   <2>4. AddsOnly(c, u, {})
      BY <2>1, <2>3, StreamKept DEF RotateInv, IsRotateSink, IsPrepared
   <2>5. OrderKept(c, u) /\ (KeysDistinct(c) => KeysDistinct(u))
      BY <2>3, <2>4, AddsNothingKeepsOrder
   <2> QED
      BY <2>1, <2>5, OrderInTurn
<1>7. \/ u = WithFailure(t)
      \/ \E v \in {ClosedToRotate(t), Written(moved, Refusal)} :
            u = WithFailure(v) \/ u = OpenedAt(WithFailure(v), t.path)
      \/ \E order : u \in Expirations(Created(t), order)
   BY RotationCases DEF moved
<1> QED
   BY <1>2, <1>3, <1>5, <1>6, <1>7

(* A message that is read before another is one that the sink accounts for. *)
LEMMA UnderPathIsHeld ==
   ASSUME NEW t, IsStream(t), NEW path \in DOMAIN t.files
   PROVE  MessagesIn(TextUnder(t, path)) \subseteq InStream(t)
<1>1. /\ t.files[path] \in Seq(Items) /\ t.buf \in Seq(Items)
      /\ TextUnder(t, path) = t.files[path] \/ TextUnder(t, path) = t.files[path] \o t.buf
   BY TextUnderParts
<1>2. MessagesIn(TextUnder(t, path)) \subseteq MessagesIn(t.files[path]) \cup MessagesIn(t.buf)
   BY <1>1, MessagesInConcatenation
<1> QED
   BY <1>2, InStreamMembers

(* m precedes something in a text only if it is in the text. *)
LEMMA PrecedesIsIn ==
   ASSUME NEW text, NEW m \in Messages, NEW n, Precedes(text, m, n)
   PROVE  m \in MessagesIn(text)
   BY DEF Precedes, MessagesIn, ToSet

(* What is read first is a message that the sink accounts for. *)
LEMMA ReadIsHeld ==
   ASSUME NEW t, IsStream(t), NEW m \in Messages, NEW n
   PROVE  /\ ReadBefore(t, m, n) => m \in InStream(t)
          /\ ArchivedBefore(t, m, n) => m \in InArchives(t)
<1>1. ASSUME ReadBefore(t, m, n)
      PROVE  m \in InStream(t)
   BY <1>1, PrecedesIsIn, UnderPathIsHeld DEF ReadBefore
<1>2. ASSUME ArchivedBefore(t, m, n)
      PROVE  m \in InArchives(t)
   <2>1. PICK a \in t.archives : Precedes(a.text, m, n) \/ m \in MessagesIn(a.text)
      BY <1>2 DEF ArchivedBefore
   <2> QED
      BY <2>1, PrecedesIsIn, InArchivesMembers
<1> QED
   BY <1>1, <1>2

(* A message that is written is read after all others. *)
LEMMA AddedComesLast ==
   ASSUME NEW t, IsStream(t), NEW u, NEW m, AddsOnly(t, u, {m}), NEW x \in Messages, NEW y \in Messages
   PROVE  /\ ReadBefore(u, x, y) => ReadBefore(t, x, y) \/ (y = m /\ x \in InStream(t))
          /\ u.archives = t.archives /\ ArchivedBefore(u, x, y) =>
                ArchivedBefore(t, x, y) \/ (y = m /\ x \in InArchives(t))
<1>1. ASSUME ReadBefore(u, x, y)
      PROVE  ReadBefore(t, x, y) \/ (y = m /\ x \in InStream(t))
   <2>1. PICK path \in DOMAIN u.files : Precedes(TextUnder(u, path), x, y)
      BY <1>1 DEF ReadBefore
   <2>2. /\ path \in DOMAIN t.files
         /\ \/ Precedes(TextUnder(t, path), x, y)
            \/ x \in MessagesIn(TextUnder(t, path)) /\ y = m
      BY <2>1 DEF AddsOnly
   <2> QED
      BY <2>2, UnderPathIsHeld DEF ReadBefore
<1>2. ASSUME u.archives = t.archives, ArchivedBefore(u, x, y)
      PROVE  ArchivedBefore(t, x, y) \/ (y = m /\ x \in InArchives(t))
   <2>1. PICK a \in t.archives :
            \/ Precedes(a.text, x, y)
            \/ /\ x \in MessagesIn(a.text)
               /\ \/ \E b \in ArchivesAt(t, a.path) : Older(a, b) /\ y \in MessagesIn(b.text)
                  \/ a.path \in DOMAIN u.files /\ y \in MessagesIn(TextUnder(u, a.path))
      BY <1>2 DEF ArchivedBefore, ArchivesAt
   <2>2. a.path \in DOMAIN u.files /\ y \in MessagesIn(TextUnder(u, a.path))
         => y = m \/ (a.path \in DOMAIN t.files /\ y \in MessagesIn(TextUnder(t, a.path)))
      BY DEF AddsOnly
   <2>3. x \in MessagesIn(a.text) => x \in InArchives(t)
      BY InArchivesMembers
   <2> QED
      BY <2>1, <2>2, <2>3 DEF ArchivedBefore
<1> QED
   BY <1>1, <1>2

(* The invariant: until local time has gone back, messages are read in the     *)
(* order in which they were written, and no two archives have one name.        *)
OrderInv ==
   ~log.disturbed =>
      /\ \A m, n \in Messages : ReadBefore(s, m, n) \/ (Rotates /\ ArchivedBefore(s, m, n)) => m < n
      /\ Rotates => KeysDistinct(s)

(* A step of a rotating sink that keeps the order. *)
LEMMA RotateOrderStep ==
   ASSUME OrderInv, SinkInv, s.kind = "FileRotateSink", s'.kind = "FileRotateSink",
          log.disturbed => log'.disturbed,
          ~log'.disturbed => OrderKept(s, s') /\ (KeysDistinct(s) => KeysDistinct(s'))
   PROVE  OrderInv'
<1> SUFFICES ASSUME ~log'.disturbed
             PROVE  /\ \A m, n \in Messages :
                          ReadBefore(s', m, n) \/ ArchivedBefore(s', m, n) => m < n
                    /\ KeysDistinct(s')
   BY DEF OrderInv, Rotates
<1>1. ~log.disturbed /\ Rotates
   BY DEF SinkInv, LogOK, Rotates
<1> QED
   BY <1>1 DEF OrderInv, OrderKept, Reads

(* A step of a file sink that keeps the order. *)
LEMMA FileSinkOrderStep ==
   ASSUME OrderInv, SinkInv, s.kind = "FileSink", s'.kind = "FileSink",
          log.disturbed => log'.disturbed, AddsOnly(s, s', {})
   PROVE  OrderInv'
<1> SUFFICES ASSUME ~log'.disturbed, NEW m \in Messages, NEW n \in Messages, ReadBefore(s', m, n)
             PROVE  m < n
   BY DEF OrderInv, Rotates
<1>1. ReadBefore(s, m, n)
   BY DEF AddsOnly, ReadBefore
<1> QED
   BY <1>1 DEF OrderInv, SinkInv, LogOK

(* fileWrite keeps the order, with or without a rotation. *)
LEMMA FileWriteOrder ==
   ASSUME OrderInv, SinkInv, s.kind = "FileRotateSink", FileWrite
   PROVE  OrderInv'
<1> DEFINE m == log.accepted + 1
<1>1. RotateSinkInv /\ RotateInv(s) /\ clock \in Nat /\ log.accepted \in Nat /\ LogOK
   BY Kinds DEF SinkInv, LogOK, RotateSinkInv
<1>2. m \in Messages /\ m \in Items /\ log' = [log EXCEPT !.accepted = m] /\ clock' = clock
   BY DEF FileWrite, Items
<1>3. log'.disturbed = log.disturbed
   BY <1>1, <1>2 DEF LogOK
<1>4. CASE UNCHANGED s
   BY <1>3, <1>4 DEF OrderInv, Rotates
<1>5. ASSUME NEW t, RotateInv(t), Held(t) \subseteq Held(s),
             ~log.disturbed => OrderKept(s, t) /\ (KeysDistinct(s) => KeysDistinct(t)),
             s' = Written(t, m)
      PROVE  OrderInv'
   <2> SUFFICES ASSUME ~log.disturbed
                PROVE  /\ \A x, y \in Messages : Reads(s', x, y) => x < y
                       /\ KeysDistinct(s')
      BY <1>3 DEF OrderInv, Reads
   <2>1. IsRotateSink(t) /\ IsStream(t)
      BY <1>5 DEF RotateInv, IsRotateSink, IsPrepared
   <2>2. AddsOnly(t, s', {m})
      <3>1. {m} \cap Messages = {m}
         BY <1>2
      <3> QED
         BY <1>2, <1>5, <2>1, <3>1, WrittenAdds
   <2>3. s'.archives = t.archives
      BY <1>2, <1>5, WrittenResult DEF SameSettings
   <2>4. KeysDistinct(s) /\ \A x, y \in Messages : Reads(s, x, y) => x < y
      BY DEF OrderInv, Rotates, Reads
   <2>5. KeysDistinct(s')
      BY <1>5, <2>3, <2>4 DEF KeysDistinct
   <2>6. Held(s) \subseteq 1..log.accepted
      BY DEF SinkInv, HeldInv, HeldBy
   <2>7. ASSUME NEW x \in Messages, NEW y \in Messages, Reads(s', x, y)
         PROVE  x < y
      <3>1. Reads(t, x, y) \/ (y = m /\ x \in Held(t))
         <4>1. /\ ReadBefore(s', x, y) => ReadBefore(t, x, y) \/ (y = m /\ x \in InStream(t))
               /\ ArchivedBefore(s', x, y) => ArchivedBefore(t, x, y) \/ (y = m /\ x \in InArchives(t))
            BY <2>1, <2>2, <2>3, AddedComesLast
         <4>2. InStream(t) \subseteq Held(t) /\ InArchives(t) \subseteq Held(t)
            BY DEF Held
         <4> QED
            BY <2>7, <4>1, <4>2 DEF Reads
      <3>2. CASE Reads(t, x, y)
         BY <1>5, <2>4, <3>2 DEF OrderKept
      <3>3. CASE y = m /\ x \in Held(t)
         <4>1. x \in 1..log.accepted
            BY <1>5, <2>6, <3>3
         <4> QED
            BY <1>1, <3>3, <4>1
      <3> QED
         BY <3>1, <3>2, <3>3
   <2> QED
      BY <2>5, <2>7
<1>6. CASE s' = Written(s, m)
   <2>1. OrderKept(s, s)
      BY DEF OrderKept
   <2> QED
      BY <1>1, <1>5, <1>6, <2>1
<1>7. ASSUME NEW t \in Rotations(s), s' = Written(t, m)
      PROVE  OrderInv'
   <2>1. RotateInv(t) /\ Held(t) \subseteq Held(s)
      BY <1>1, RotationResult
   <2>2. ~log.disturbed => OrderKept(s, t) /\ (KeysDistinct(s) => KeysDistinct(t))
      BY <1>1, RotationKeepsOrder DEF RotateSinkInv
   <2> QED
      BY <1>5, <1>7, <2>1, <2>2
<1> QED
   BY <1>4, <1>6, <1>7 DEF FileWrite

(* A call that adds nothing and keeps the archives. *)
LEMMA RotateOrderCall ==
   ASSUME OrderInv, SinkInv, s.kind = "FileRotateSink", s'.kind = "FileRotateSink",
          Called \/ UNCHANGED log, AddsOnly(s, s', {}), s'.archives = s.archives
   PROVE  OrderInv'
<1>1. LogOK /\ log'.disturbed = log.disturbed
   BY CalledResult DEF Called, SinkInv, LogOK
<1>2. OrderKept(s, s') /\ (KeysDistinct(s) => KeysDistinct(s'))
   BY AddsNothingKeepsOrder
<1> QED
   BY <1>1, <1>2, RotateOrderStep

(* A setter leaves the stream and the archives alone. *)
LEMMA SetterOrder ==
   ASSUME OrderInv, SinkInv, s.kind = "FileRotateSink", Called,
          \/ \E max \in Sizes : s' = [s EXCEPT !.max = max]
          \/ \E count \in Counts : s' = [s EXCEPT !.count = count]
   PROVE  OrderInv'
<1> DEFINE changed == {"max", "count"}
<1>1. IsStream(s) /\ RotateMembers \subseteq DOMAIN s
   BY Kinds DEF RotateSinkInv, RotateInv, IsRotateSink, IsPrepared
<1>2. Same(s, s', changed) /\ changed \cap StreamFields = {}
   BY DEF Same, StreamFields
<1>3. s'.archives = s.archives /\ s'.kind = s.kind
   BY <1>1, <1>2 DEF Same, IsStream, StreamFields, RotateMembers
<1> HIDE DEF changed
<1>4. AddsOnly(s, s', {})
   BY <1>1, <1>2, OtherFieldsAdd
<1> QED
   BY <1>3, <1>4, RotateOrderCall

(* Every call of FileRotateSink keeps the order. *)
LEMMA RotateNextOrder ==
   ASSUME OrderInv, SinkInv, s.kind = "FileRotateSink", RotateNext
   PROVE  OrderInv'
<1>1. RotateSinkInv /\ RotateInv(s) /\ IsPrepared(s) /\ IsStream(s) /\ RotateMembers \subseteq DOMAIN s
      /\ LogOK /\ clock \in Nat
   BY Kinds DEF RotateSinkInv, RotateInv, IsRotateSink, IsPrepared, SinkInv
<1>2. CASE RotateLog
   <2>1. s' \in Rotations(s) /\ Called
      BY <1>2 DEF RotateLog
   <2>2. log'.disturbed = log.disturbed
      BY <1>1, <2>1, CalledResult DEF Called
   <2>3. s'.kind = s.kind
      BY <1>1, <2>1, RotationResult DEF SameArguments
   <2>4. ~log.disturbed => OrderKept(s, s') /\ (KeysDistinct(s) => KeysDistinct(s'))
      BY <1>1, <2>1, RotationKeepsOrder DEF RotateSinkInv
   <2> QED
      BY <2>2, <2>3, <2>4, RotateOrderStep
<1>3. CASE Flush
   <2>1. AddsOnly(s, s', {}) /\ s'.archives = s.archives /\ s'.kind = s.kind
      BY <1>1, <1>3, FlushedAdds, FlushedKeeps DEF Flush, SameSettings, SameArguments
   <2> QED
      BY <1>3, <2>1, RotateOrderCall DEF Flush
<1>4. CASE SetLogSizeCounter
   <2>1. AddsOnly(s, s', {}) /\ s'.archives = s.archives /\ s'.kind = s.kind
      BY <1>1, <1>4, CountedAdds, CountedResult DEF SetLogSizeCounter, SameSettings, SameArguments, RotateInv
   <2> QED
      BY <1>4, <2>1, RotateOrderCall DEF SetLogSizeCounter
<1>5. ASSUME NEW dir, NEW name, ChangeLogFile(dir, name)
      PROVE  OrderInv'
   <2>1. PICK l : s' = ChangedTo(s, l) \/ s' = Written(s, Refusal)
      BY <1>5 DEF ChangeLogFile, ChangedTo, Changed
   <2>2. CASE s' = ChangedTo(s, l)
      <3>1. AddsOnly(s, s', {}) /\ s'.archives = s.archives /\ s'.kind = s.kind
         BY <1>1, <2>2, ChangedToAdds, ChangedToResult DEF SameSettings, SameArguments
      <3> QED
         BY <1>5, <3>1, RotateOrderCall DEF ChangeLogFile
   <2>3. CASE s' = Written(s, Refusal)
      <3>1. AddsOnly(s, s', {}) /\ s'.archives = s.archives /\ s'.kind = s.kind
         BY <1>1, <2>3, TextItems, WrittenTextAdds, WrittenText DEF SameSettings, SameArguments, RotateInv
      <3> QED
         BY <1>5, <3>1, RotateOrderCall DEF ChangeLogFile
   <2> QED
      BY <2>1, <2>2, <2>3
<1>6. ASSUME NEW p \in Policies, SetFlushPolicy(p)
      PROVE  OrderInv'
   <2> DEFINE f == Flushed(s)
   <2>1. AddsOnly(s, f, {}) /\ IsStream(f) /\ f.archives = s.archives /\ f.kind = s.kind
      BY <1>1, FlushedAdds, FlushedKeeps DEF SameSettings, SameArguments
   <2>2. s' = [f EXCEPT !.policy = p, !.counter = p]
      BY <1>6 DEF SetFlushPolicy
   <2> HIDE DEF f
   <2>3. s'.path = f.path /\ s'.buf = f.buf /\ s'.files = f.files /\ s'.archives = f.archives /\ s'.kind = f.kind
      BY <2>1, <2>2 DEF IsStream, StreamFields
   <2>4. AddsOnly(s, s', {})
      BY <2>1, <2>3, StreamKept, NothingInTurn
   <2> QED
      BY <1>6, <2>1, <2>3, <2>4, RotateOrderCall DEF SetFlushPolicy
<1>7. ASSUME NEW killed \in BOOLEAN, NEW start \in Starts, RotateRestart(killed, start)
      PROVE  OrderInv'
   <2> DEFINE t == Stopped(s, killed)
              changed == {"open", "bad", "buf", "files", "lost", "missed"}
   <2>1. IsStream(t) /\ Same(s, t, changed)
      BY <1>1, StoppedResult
   <2>2. AddsOnly(s, t, {})
      BY <1>1, StoppedAdds
   <2>3. s' = Constructed(t, start)
      BY <1>7 DEF RotateRestart, Stopped
   <2> HIDE DEF t
   <2>4. SameSettings(s, t) /\ IsPrepared(t)
      BY <1>1, <2>1, StreamOnly
   <2>5. AddsOnly(t, s', {}) /\ RotateInv(s') /\ s'.archives = t.archives
      BY <2>3, <2>4, ConstructedAdds, ConstructedResult
   <2>6. AddsOnly(s, s', {}) /\ s'.archives = s.archives
      BY <2>2, <2>4, <2>5, NothingInTurn DEF SameSettings
   <2>7. s'.kind = "FileRotateSink"
      BY <2>5 DEF RotateInv, IsRotateSink, IsPrepared
   <2>8. log.disturbed => log'.disturbed
      <3> DEFINE d == log.disturbed \/ \E a \in s.archives : a.time = clock
      <3>1. log' = [log EXCEPT !.starts = log.starts + 1, !.disturbed = d]
         BY <1>7 DEF RotateRestart
      <3>2. log.disturbed => d
         OBVIOUS
      <3> HIDE DEF d
      <3>3. log'.disturbed = d
         BY <1>1, <3>1 DEF LogOK
      <3> QED
         BY <3>2, <3>3
   <2> QED
      BY <2>6, <2>7, <2>8, AddsNothingKeepsOrder, RotateOrderStep
<1>8. CASE \E max \in Sizes : SetMaxLogSize(max)
   BY <1>8, SetterOrder DEF SetMaxLogSize
<1>9. CASE \E count \in Counts : SetMaxArchiveLogCount(count)
   BY <1>9, SetterOrder DEF SetMaxArchiveLogCount
<1> QED
   BY <1>2, <1>3, <1>4, <1>5, <1>6, <1>7, <1>8, <1>9, FileWriteOrder DEF RotateNext

(* Every call of FileSink keeps the order. *)
LEMMA FileSinkNextOrder ==
   ASSUME OrderInv, SinkInv, SinkInv', s.kind = "FileSink", FileSinkNext
   PROVE  OrderInv'
<1>1. IsFileSink(s) /\ IsStream(s) /\ LogOK /\ log.accepted \in Nat
   BY Kinds DEF SinkInv, FileSinkInv, IsFileSink, LogOK
<1>2. CASE FileSinkWrite
   <2> DEFINE m == log.accepted + 1
   <2>1. m \in Messages /\ log' = [log EXCEPT !.accepted = m] /\ s' = FileSinkWritten(s, m)
      BY <1>2 DEF FileSinkWrite
   <2>2. log'.disturbed = log.disturbed
      BY <1>1, <2>1 DEF LogOK
   <2>3. s'.kind = "FileSink"
      BY <1>1, <2>1, FileSinkWrittenKeeps DEF IsFileSink
   <2>4. AddsOnly(s, s', {m})
      BY <1>1, <2>1, FileSinkWrittenAdds
   <2>5. InStream(s) \subseteq 1..log.accepted
      BY DEF SinkInv, HeldInv, HeldBy
   <2> SUFFICES ASSUME ~log'.disturbed, NEW x \in Messages, NEW y \in Messages, ReadBefore(s', x, y)
                PROVE  x < y
      BY <2>3 DEF OrderInv, Rotates
   <2>6. ReadBefore(s, x, y) \/ (y = m /\ x \in InStream(s))
      BY <1>1, <2>4, AddedComesLast
   <2>7. CASE ReadBefore(s, x, y)
      BY <2>2, <2>7 DEF OrderInv
   <2>8. CASE y = m /\ x \in InStream(s)
      <3>1. x \in 1..log.accepted
         BY <2>5, <2>8
      <3> QED
         BY <1>1, <2>8, <3>1
   <2> QED
      BY <2>6, <2>7, <2>8
<1>3. CASE FileSinkChangeLogFile
   <2>1. log' = [log EXCEPT !.calls = log.calls + 1]
      BY <1>3 DEF FileSinkChangeLogFile, Called
   <2>2. log'.disturbed = log.disturbed
      BY <1>1, <2>1, CalledResult
   <2>3. \/ s' = Put(s, Refusal)
         \/ \E path : s' = Put(Put([Replaced(Put(s, Change), path) EXCEPT !.first = TRUE], Note), Header)
      BY <1>3 DEF FileSinkChangeLogFile, FileSinkChanged
   <2>4. CASE s' = Put(s, Refusal)
      <3>1. AddsOnly(s, s', {}) /\ s'.kind = "FileSink"
         BY <1>1, <2>4, TextItems, PutTextAdds, PutText DEF IsFileSink
      <3> QED
         BY <2>2, <3>1, FileSinkOrderStep
   <2>5. ASSUME NEW path,
                s' = Put(Put([Replaced(Put(s, Change), path) EXCEPT !.first = TRUE], Note), Header)
         PROVE  OrderInv'
      <3> DEFINE p == Put(s, Change)
                 r == Replaced(p, path)
                 v == [r EXCEPT !.first = TRUE]
                 n == Put(v, Note)
                 changed == {"first"}
      <3>1. AddsOnly(s, p, {}) /\ IsStream(p) /\ p.kind = "FileSink" /\ IsFileSink(p)
         BY <1>1, TextItems, PutTextAdds, PutText DEF IsFileSink
      <3> HIDE DEF p
      <3>2. AddsOnly(p, r, {}) /\ IsStream(r)
         BY <3>1, ReplacedAdds
      <3>3. IsFileSink(v)
         BY <3>1, ReplacedFileSink DEF IsFileSink
      <3> HIDE DEF r
      <3>4. Same(r, v, changed) /\ changed \cap StreamFields = {}
         BY DEF Same, StreamFields
      <3> HIDE DEF v, changed
      <3>5. AddsOnly(r, v, {}) /\ IsStream(v)
         BY <3>2, <3>4, OtherFieldsAdd
      <3>6. AddsOnly(v, n, {}) /\ IsStream(n) /\ IsFileSink(n)
         BY <3>3, <3>5, TextItems, PutTextAdds, PutText
      <3>7. s' = Put(n, Header)
         BY <2>5 DEF n, v, r, p
      <3> HIDE DEF n
      <3>8. AddsOnly(n, s', {}) /\ s'.kind = "FileSink"
         BY <3>6, <3>7, TextItems, PutTextAdds, PutText DEF IsFileSink
      <3>9. AddsOnly(s, s', {})
         BY <3>1, <3>2, <3>5, <3>6, <3>8, NothingInTurn
      <3> QED
         BY <2>2, <3>8, <3>9, FileSinkOrderStep
   <2> QED
      BY <2>3, <2>4, <2>5
<1>4. ASSUME NEW killed \in BOOLEAN, FileSinkRestart(killed)
      PROVE  OrderInv'
   <2> DEFINE t == Stopped(s, killed)
   <2>1. log' = [log EXCEPT !.starts = log.starts + 1]
      BY <1>4 DEF FileSinkRestart
   <2>2. log'.disturbed = log.disturbed
      BY <1>1, <2>1, CalledResult
   <2>3. \E path, prefix : s' = [Replaced(t, path) EXCEPT !.prefix = prefix, !.first = TRUE]
      BY <1>4 DEF FileSinkRestart, FileSinkConstructed, Stopped
   <2>4. PICK path, prefix : s' = [Replaced(t, path) EXCEPT !.prefix = prefix, !.first = TRUE]
      BY <2>3
   <2>5. AddsOnly(s, t, {}) /\ IsStream(t) /\ t.kind = s.kind
      BY <1>1, StoppedAdds, StoppedResult
   <2> HIDE DEF t
   <2> DEFINE r == Replaced(t, path)
              changed == {"prefix", "first"}
   <2>6. AddsOnly(t, r, {}) /\ IsStream(r)
      BY <2>5, ReplacedAdds
   <2>7. r.kind = t.kind
      <3> DEFINE moved == {"path", "open", "bad", "buf", "files", "lost", "missed"}
      <3>1. Same(t, r, moved)
         BY <2>5, ReplacedResult
      <3>2. "kind" \in DOMAIN t \ moved
         BY <2>5 DEF IsStream, StreamFields
      <3> HIDE DEF moved, r
      <3> QED
         BY <3>1, <3>2 DEF Same
   <2>8. s' = [r EXCEPT !.prefix = prefix, !.first = TRUE]
      BY <2>4
   <2> HIDE DEF r
   <2>9. Same(r, s', changed) /\ changed \cap StreamFields = {} /\ s'.kind = r.kind
      BY <2>6, <2>8 DEF Same, StreamFields, IsStream
   <2> HIDE DEF changed
   <2>10. AddsOnly(r, s', {})
      BY <2>6, <2>9, OtherFieldsAdd
   <2>11. AddsOnly(s, s', {}) /\ s'.kind = "FileSink"
      BY <2>5, <2>6, <2>7, <2>9, <2>10, NothingInTurn
   <2> QED
      BY <2>2, <2>11, FileSinkOrderStep
<1> QED
   BY <1>2, <1>3, <1>4 DEF FileSinkNext

(* The device and the clock keep the order, unless local time goes back. *)
LEMMA EnvironmentOrder ==
   ASSUME OrderInv, SinkInv, Environment \/ UNCHANGED vars
   PROVE  OrderInv'
<1>1. IsStream(s) /\ LogOK /\ (s.kind = "FileRotateSink" => RotateMembers \subseteq DOMAIN s)
      /\ s.kind \in {"FileRotateSink", "FileSink"} /\ (s.kind = "FileRotateSink" => RotateInv(s))
   BY Kinds DEF SinkInv, RotateSinkInv, FileSinkInv, RotateInv, IsRotateSink, IsPrepared, IsFileSink
<1>2. ASSUME AddsOnly(s, s', {}), s'.kind = s.kind, s.kind = "FileRotateSink" => s'.archives = s.archives,
             log.disturbed => log'.disturbed
      PROVE  OrderInv'
   <2>1. CASE s.kind = "FileSink"
      BY <1>2, <2>1, FileSinkOrderStep
   <2>2. CASE s.kind = "FileRotateSink"
      BY <1>2, <2>2, AddsNothingKeepsOrder, RotateOrderStep
   <2> QED
      BY <1>1, <2>1, <2>2
<1>3. CASE UNCHANGED s /\ (log.disturbed => log'.disturbed)
   <2>1. AddsOnly(s, s', {})
      BY <1>1, <1>3, StreamKept
   <2> QED
      BY <1>2, <1>3, <2>1
<1>4. CASE StreamFlush
   <2>1. AddsOnly(s, s', {}) /\ Same(s, s', {"bad", "buf", "files"})
      BY <1>1, <1>4, FlushedAdds, FlushedResult DEF StreamFlush
   <2>2. s'.kind = s.kind /\ (s.kind = "FileRotateSink" => s'.archives = s.archives)
      BY <1>1, <2>1 DEF Same, IsStream, StreamFields, RotateMembers
   <2> QED
      BY <1>2, <1>4, <2>1, <2>2 DEF StreamFlush
<1>5. CASE Tick \/ UNCHANGED vars
   BY <1>3, <1>5 DEF Tick, vars
<1>6. CASE ClockBack
   <2>1. log' = [log EXCEPT !.calls = log.calls + 1, !.disturbed = TRUE]
      BY <1>6 DEF ClockBack
   <2>2. log'.disturbed = TRUE
      BY <1>1, <2>1 DEF LogOK
   <2> QED
      BY <2>2 DEF OrderInv
<1>7. CASE DeviceFull \/ DeviceFreed
   <2>1. s'.path = s.path /\ s'.buf = s.buf /\ s'.files = s.files /\ s'.kind = s.kind
         /\ (s.kind = "FileRotateSink" => s'.archives = s.archives)
      BY <1>1, <1>7 DEF DeviceFull, DeviceFreed, IsStream, StreamFields, RotateMembers
   <2>2. AddsOnly(s, s', {})
      BY <1>1, <2>1, StreamKept
   <2>3. log'.disturbed = log.disturbed
      BY <1>1, <1>7 DEF DeviceFull, DeviceFreed, LogOK
   <2> QED
      BY <1>2, <2>1, <2>2, <2>3
<1> QED
   BY <1>4, <1>5, <1>6, <1>7 DEF Environment

(* There is no order where there is no message. *)
LEMMA OrderAtFirst == Init => OrderInv
<1> SUFFICES ASSUME Init, ~log.disturbed
             PROVE  /\ \A m, n \in Messages : ~ReadBefore(s, m, n) /\ ~(Rotates /\ ArchivedBefore(s, m, n))
                    /\ Rotates => KeysDistinct(s)
   BY DEF OrderInv
<1>1. SinkInv /\ log.accepted = 0 /\ IsStream(s)
   BY InitHolds, NewHistoryResult, Kinds DEF Init, RotateInit, FileSinkInit, RotateSinkInv, FileSinkInv,
      RotateInv, IsRotateSink, IsPrepared, IsFileSink
<1>2. HeldBy(s) = {}
   BY <1>1 DEF SinkInv, HeldInv
<1>3. InStream(s) = {} /\ (Rotates => InArchives(s) = {})
   BY <1>2 DEF HeldBy, Held, Rotates
<1>4. Rotates => KeysDistinct(s)
   <2>1. FileSinkInit => ~Rotates
      BY FileSinkInitHolds DEF Rotates
   <2> QED
      BY <2>1, RotateInitHolds DEF Init, KeysDistinct
<1> QED
   BY <1>1, <1>3, <1>4, ReadIsHeld

(* The messages under a path are read in the order in which they were written, *)
(* through rotations, changes of file and processes.                           *)
THEOREM KeepsTheOrder == Spec => []OrderInv
<1>1. OrderInv /\ SinkInv /\ SinkInv' /\ [Next]_vars => OrderInv'
   <2> SUFFICES ASSUME OrderInv, SinkInv, SinkInv', [Next]_vars
                PROVE  OrderInv'
      OBVIOUS
   <2> QED
      BY RotateNextOrder, FileSinkNextOrder, EnvironmentOrder DEF Next
<1> QED
   BY OrderAtFirst, Invariant, <1>1, PTL DEF Spec

(* As long as local time tells archives apart: each message that was accepted *)
(* is in a file, an archive or the buffer, or known to be lost, expired or     *)
(* ignored; only a rotation that failed leaves no file open; and the archives  *)
(* under a path and then the file hold the messages once each and in the order *)
(* in which they were written.                                                 *)
THEOREM LosesNothing == Spec => []NothingLost
<1>1. SinkInv /\ OrderInv => (~log.disturbed => InOrder)
   <2> SUFFICES ASSUME SinkInv, OrderInv, ~log.disturbed
                PROVE  InOrder
      OBVIOUS
   <2>1. \A m, n \in Messages : ReadBefore(s, m, n) \/ (Rotates /\ ArchivedBefore(s, m, n)) => m < n
      BY DEF OrderInv
   <2>2. ASSUME NEW path \in DOMAIN s.files
         PROVE  Ascending(TextUnder(s, path))
      <3> DEFINE text == TextUnder(s, path)
      <3>1. \A m, n \in Messages : Precedes(text, m, n) => m < n
         BY <2>1 DEF ReadBefore
      <3> HIDE DEF text
      <3>2. Ascending(text)
         BY <3>1 DEF Ascending, Precedes
      <3> QED
         BY <3>2 DEF text
   <2>3. ASSUME Rotates, NEW a \in s.archives
         PROVE  /\ Ascending(a.text)
                /\ a.path \in DOMAIN s.files => Before(a.text, TextUnder(s, a.path))
                /\ \A b \in s.archives \ {a} : a.path = b.path =>
                      \/ Older(a, b) /\ Before(a.text, b.text)
                      \/ Older(b, a) /\ Before(b.text, a.text)
      <3>1. \A m, n \in Messages : ArchivedBefore(s, m, n) => m < n
         BY <2>1, <2>3
      <3>2. Ascending(a.text)
         <4>1. \A m, n \in Messages : Precedes(a.text, m, n) => m < n
            BY <3>1 DEF ArchivedBefore
         <4> QED
            BY <4>1 DEF Ascending, Precedes
      <3>3. a.path \in DOMAIN s.files => Before(a.text, TextUnder(s, a.path))
         <4> SUFFICES ASSUME a.path \in DOMAIN s.files,
                             NEW m \in MessagesIn(a.text), NEW n \in MessagesIn(TextUnder(s, a.path))
                      PROVE  m < n
            BY DEF Before
         <4>1. m \in Messages /\ n \in Messages
            BY DEF MessagesIn
         <4> QED
            BY <3>1, <4>1 DEF ArchivedBefore
      <3>4. ASSUME NEW b \in s.archives, NEW c \in s.archives, b.path = c.path, Older(b, c)
            PROVE  Before(b.text, c.text)
         <4> SUFFICES ASSUME NEW m \in MessagesIn(b.text), NEW n \in MessagesIn(c.text)
                      PROVE  m < n
            BY DEF Before
         <4>1. m \in Messages /\ n \in Messages
            BY DEF MessagesIn
         <4>2. c \in ArchivesAt(s, b.path)
            BY <3>4 DEF ArchivesAt
         <4> QED
            BY <3>1, <3>4, <4>1, <4>2 DEF ArchivedBefore
      <3>5. ASSUME NEW b \in s.archives, a # b, a.path = b.path
            PROVE  Older(a, b) \/ Older(b, a)
         <4>1. a.time \in Nat /\ a.num \in Nat /\ b.time \in Nat /\ b.num \in Nat
            BY <2>3, <3>5, Kinds DEF Rotates, RotateSinkInv, ArchivesInv
         <4>2. a.time = b.time /\ a.num = b.num => a = b
            BY <2>3, <3>5 DEF OrderInv, KeysDistinct
         <4> QED
            BY <3>5, <4>1, <4>2 DEF Older
      <3> QED
         BY <3>2, <3>3, <3>4, <3>5
   <2> QED
      BY <2>2, <2>3 DEF InOrder
<1> QED
   BY <1>1, Invariant, KeepsTheOrder, AccountsForMessages, PTL DEF NothingLost

--------------------------------------------------------------------------------
(* Archives in their order *)

(* The least element of a set of numbers. *)
LEMMA LeastNumber ==
   ASSUME NEW S \in SUBSET Nat, S # {}
   PROVE  \E x \in S : \A y \in S : x <= y
<1> DEFINE R == OpToRel(<, Nat)
<1>1. IsWellFoundedOn(R, Nat)
   BY NatLessThanWellFounded
<1>2. R = {pair \in Nat \X Nat : pair[1] < pair[2]}
   BY DEF OpToRel
<1> HIDE DEF R
<1>3. PICK x \in S : \A y \in S : ~ (<<y, x>> \in R)
   BY <1>1, WFMin
<1>4. ASSUME NEW y \in S PROVE x <= y
   <2>1. x \in Nat /\ y \in Nat /\ ~ (<<y, x>> \in R)
      BY <1>3
   <2> QED
      BY <1>2, <2>1
<1> QED
   BY <1>4

(* Archives that Comparator orders: finitely many, of which no two have the    *)
(* same time and number.                                                       *)
Ordered(found) ==
   /\ IsFiniteSet(found)
   /\ \A a \in found : a.time \in Nat /\ a.num \in Nat
   /\ \A a, b \in found : a.time = b.time /\ a.num = b.num => a = b

Newer(found, a) == {b \in found : Older(a, b)}

(* What is newer than a newer archive is newer, and less. *)
LEMMA NewerCounts ==
   ASSUME NEW found, Ordered(found), NEW a \in found, NEW b \in found, Older(a, b)
   PROVE  /\ Newer(found, b) \subseteq Newer(found, a)
          /\ Cardinality(Newer(found, a)) \in Nat /\ Cardinality(Newer(found, b)) \in Nat
          /\ Cardinality(Newer(found, b)) < Cardinality(Newer(found, a))
<1>1. Newer(found, b) \subseteq Newer(found, a)
   BY DEF Newer, Older, Ordered
<1>2. b \in Newer(found, a) /\ b \notin Newer(found, b)
   BY DEF Newer, Older, Ordered
<1>3. IsFiniteSet(Newer(found, a)) /\ IsFiniteSet(Newer(found, b))
   <2>1. Newer(found, a) \subseteq found /\ Newer(found, b) \subseteq found
      BY DEF Newer
   <2> QED
      BY <2>1, FS_Subset DEF Ordered
<1>4. Cardinality(Newer(found, a)) \in Nat /\ Cardinality(Newer(found, b)) \in Nat
   BY <1>3, FS_CardinalityType
<1>5. /\ Cardinality(Newer(found, b)) <= Cardinality(Newer(found, a))
      /\ Cardinality(Newer(found, b)) = Cardinality(Newer(found, a)) => Newer(found, b) = Newer(found, a)
   BY <1>1, <1>3, FS_Subset
<1> QED
   BY <1>1, <1>2, <1>4, <1>5

(* Of some archives one is the oldest, and one is the newest. *)
LEMMA OldestAndNewest ==
   ASSUME NEW found, Ordered(found), NEW some, some \subseteq found, some # {}
   PROVE  /\ \E a \in some : \A b \in some : b = a \/ Older(a, b)
          /\ \E a \in some : \A b \in some : b = a \/ Older(b, a)
<1> DEFINE n(a) == Cardinality(Newer(found, a))
           counts == {n(a) : a \in some}
<1>1. \A a \in found : n(a) \in Nat
   <2> TAKE a \in found
   <2>1. Newer(found, a) \subseteq found
      BY DEF Newer
   <2> QED
      BY <2>1, FS_Subset, FS_CardinalityType DEF Ordered
<1>2. \A a, b \in found : a = b \/ Older(a, b) \/ Older(b, a)
   BY DEF Ordered, Older
<1>3. \A a, b \in found : Older(a, b) => n(b) < n(a)
   BY NewerCounts
<1>4. \E a \in some : \A b \in some : b = a \/ Older(b, a)
   <2>1. counts \in SUBSET Nat /\ counts # {}
      BY <1>1
   <2>2. PICK x \in counts : \A y \in counts : x <= y
      BY <2>1, LeastNumber
   <2>3. PICK a \in some : x = n(a)
      BY <2>2
   <2>4. ASSUME NEW b \in some, Older(a, b)
         PROVE  FALSE
      <3>1. n(a) <= n(b) /\ n(b) < n(a) /\ n(a) \in Nat /\ n(b) \in Nat
         BY <1>1, <1>3, <2>2, <2>3, <2>4
      <3> HIDE DEF n
      <3> QED
         BY <3>1
   <2> QED
      BY <1>2, <2>4
<1>5. \E a \in some : \A b \in some : b = a \/ Older(a, b)
   <2> DEFINE bound == Cardinality(found)
              rest == {bound - n(a) : a \in some}
   <2>1. bound \in Nat /\ \A a \in found : n(a) <= bound
      <3>1. bound \in Nat
         BY FS_CardinalityType DEF Ordered
      <3>2. ASSUME NEW a \in found
            PROVE  n(a) <= bound
         <4>1. Newer(found, a) \subseteq found
            BY DEF Newer
         <4> QED
            BY <4>1, FS_Subset DEF Ordered
      <3> QED
         BY <3>1, <3>2
   <2> HIDE DEF bound, n
   <2>2. rest \in SUBSET Nat /\ rest # {}
      BY <1>1, <2>1
   <2>3. PICK x \in rest : \A y \in rest : x <= y
      BY <2>2, LeastNumber
   <2>4. PICK a \in some : x = bound - n(a)
      BY <2>3
   <2>5. ASSUME NEW b \in some, Older(b, a)
         PROVE  FALSE
      <3>1. n(a) < n(b) /\ n(a) \in Nat /\ n(b) \in Nat /\ bound - n(a) <= bound - n(b)
         BY <1>1, <1>3, <2>3, <2>4, <2>5
      <3> QED
         BY <2>1, <3>1
   <2> QED
      BY <1>2, <2>5
<1> QED
   BY <1>4, <1>5

(* Those that go are older than those that stay, of which there are no more    *)
(* than count, and no fewer if any go.                                         *)
LEMMA SurplusResult ==
   ASSUME NEW t, t.count \in Nat, NEW found, Ordered(found)
   PROVE  LET surplus == Surplus(t, found)
              kept == found \ surplus
          IN /\ \A a \in surplus, b \in kept : Older(a, b)
             /\ IsFiniteSet(kept) /\ Cardinality(kept) <= t.count
             /\ surplus # {} => Cardinality(kept) >= t.count
<1> DEFINE surplus == Surplus(t, found)
           kept == found \ surplus
           n(a) == Cardinality(Newer(found, a))
<1>1. surplus \subseteq found /\ \A a \in found : a \in surplus <=> n(a) >= t.count
   BY DEF Surplus, Newer
<1>2. \A a \in found : n(a) \in Nat
   <2> TAKE a \in found
   <2>1. Newer(found, a) \subseteq found
      BY DEF Newer
   <2> QED
      BY <2>1, FS_Subset, FS_CardinalityType DEF Ordered
<1>3. \A a, b \in found : Older(a, b) => n(b) < n(a)
   BY NewerCounts
<1> HIDE DEF surplus
<1>4. ASSUME NEW a \in surplus, NEW b \in kept
      PROVE  Older(a, b)
   <2>1. n(a) >= t.count /\ ~(n(b) >= t.count) /\ a \in found /\ b \in found /\ n(a) \in Nat /\ n(b) \in Nat
      BY <1>1, <1>2
   <2>2. Older(b, a) => n(a) < n(b)
      BY <1>3, <2>1
   <2>3. a # b
      BY <2>1
   <2> HIDE DEF n
   <2>4. ~Older(b, a)
      BY <2>1, <2>2
   <2> QED
      BY <2>1, <2>3, <2>4 DEF Ordered, Older
<1>5. IsFiniteSet(kept) /\ Cardinality(kept) \in Nat
   BY FS_Subset, FS_CardinalityType DEF Ordered
<1> HIDE DEF kept
<1>6. Cardinality(kept) <= t.count
   <2>1. CASE kept = {}
      BY <2>1, FS_EmptySet
   <2>2. CASE kept # {}
      <3>1. PICK a \in kept : \A b \in kept : b = a \/ Older(a, b)
         BY <1>1, <2>2, OldestAndNewest DEF kept
      <3>2. a \in found /\ ~(n(a) >= t.count) /\ n(a) \in Nat
         BY <1>1, <1>2 DEF kept
      <3>3. kept \ {a} \subseteq Newer(found, a)
         BY <3>1 DEF Newer, kept
      <3>4. IsFiniteSet(Newer(found, a))
         <4>1. Newer(found, a) \subseteq found
            BY DEF Newer
         <4> QED
            BY <4>1, FS_Subset DEF Ordered
      <3>5. Cardinality(kept \ {a}) <= n(a)
         BY <3>3, <3>4, FS_Subset
      <3>6. Cardinality(kept \ {a}) = Cardinality(kept) - 1
         BY <1>5, FS_RemoveElement
      <3> HIDE DEF n
      <3> QED
         BY <1>5, <3>2, <3>5, <3>6
   <2> QED
      BY <2>1, <2>2
<1>7. ASSUME surplus # {}
      PROVE  Cardinality(kept) >= t.count
   <2>1. PICK a \in surplus : \A b \in surplus : b = a \/ Older(b, a)
      BY <1>1, <1>7, OldestAndNewest
   <2>2. a \in found /\ n(a) >= t.count /\ n(a) \in Nat
      BY <1>1, <1>2
   <2>3. Newer(found, a) \subseteq kept
      <3> SUFFICES ASSUME NEW b \in Newer(found, a), b \in surplus
                   PROVE  FALSE
         BY DEF Newer, kept
      <3>1. b \in found /\ Older(a, b) /\ (b = a \/ Older(b, a))
         BY <2>1 DEF Newer
      <3> QED
         BY <2>2, <3>1 DEF Older, Ordered
   <2>4. n(a) <= Cardinality(kept)
      BY <1>5, <2>3, FS_Subset
   <2> HIDE DEF n
   <2> QED
      BY <1>5, <2>2, <2>4
<1> QED
   BY <1>4, <1>5, <1>6, <1>7 DEF kept, surplus

--------------------------------------------------------------------------------
(* Names *)

(* The greatest element of a set of numbers that is bounded. *)
LEMMA GreatestNumber ==
   ASSUME NEW n \in Nat, NEW S \in SUBSET (0..n), S # {}
   PROVE  Max(S) \in S /\ \A y \in S : y <= Max(S)
<1> DEFINE rest == {n - x : x \in S}
<1>1. rest \in SUBSET Nat /\ rest # {}
   <2>1. \A x \in S : n - x \in Nat
      <3> TAKE x \in S
      <3>1. x \in 0..n
         OBVIOUS
      <3> QED
         BY <3>1
   <2> QED
      BY <2>1
<1>2. PICK y \in rest : \A z \in rest : y <= z
   BY <1>1, LeastNumber
<1>3. PICK x \in S : y = n - x
   BY <1>2
<1>4. \A z \in S : z <= x
   <2> TAKE z \in S
   <2>1. n - x <= n - z /\ x \in 0..n /\ z \in 0..n
      BY <1>2, <1>3
   <2> QED
      BY <2>1
<1>5. \A z \in S : x >= z
   BY <1>4
<1>6. Max(S) \in S /\ \A z \in S : Max(S) >= z
   BY <1>5 DEF Max
<1> QED
   BY <1>6

(* What names are made of. *)
Characters == STRING \cup Digits \cup {".", "/", "a", "c", "g", "l", "o", "r"}
                     \cup {Date[time] : time \in 0..MaxClock}

(* The directory of a log as openLogFile and expireArchives spell it. *)
DirOf(l) == pathSanityFix(l.dir, <<>>)

(* The suffix of a log. *)
LEMMA DotLog ==
   /\ dotLog \in Seq(Characters) /\ Len(dotLog) = 4
   /\ dotLog[1] = "." /\ dotLog[2] = "l" /\ dotLog[3] = "o" /\ dotLog[4] = "g"
   BY DEF dotLog, Characters

(* A path is a directory that is empty or ends with a slash, a name and        *)
(* ".log".                                                                     *)
LEMMA PathParts ==
   ASSUME NEW l \in Logs
   PROVE  /\ DirOf(l) \in Seq(Characters)
          /\ DirOf(l) = <<>> \/ DirOf(l)[Len(DirOf(l))] = "/"
          /\ l.name \in Seq(Characters)
          /\ PathOf(l) = DirOf(l) \o (l.name \o dotLog)
          /\ PathOf(l) \in Seq(Characters)
<1> DEFINE slashes == [i \in DOMAIN l.dir |-> IF l.dir[i] = "\\" THEN "/" ELSE l.dir[i]]
           kept == {i \in DOMAIN l.dir : slashes[i] \notin {"/", " "}}
           n == IF kept = {} THEN 0 ELSE Max(kept)
           clean == SubSeq(slashes, 1, n)
           d == IF clean = <<>> THEN <<>> ELSE Append(clean, "/")
<1>1. l.dir \in Seq(STRING) /\ l.name \in Seq(STRING)
   BY LogsAssumption
<1>2. l.dir \in Seq(Characters) /\ l.name \in Seq(Characters) /\ "/" \in Characters
   BY <1>1 DEF Characters
<1>3. slashes \in Seq(Characters) /\ Len(slashes) = Len(l.dir)
   <2>1. DOMAIN l.dir = 1..Len(l.dir) /\ Len(l.dir) \in Nat
      BY <1>2
   <2>2. \A i \in 1..Len(l.dir) : slashes[i] \in Characters
      BY <1>2, <2>1
   <2>3. slashes = [i \in 1..Len(l.dir) |-> slashes[i]]
      BY <2>1
   <2> HIDE DEF slashes
   <2> QED
      BY <2>1, <2>2, <2>3
<1>4. n \in 0..Len(slashes)
   <2>1. DOMAIN l.dir = 1..Len(l.dir) /\ Len(l.dir) \in Nat
      BY <1>2
   <2>2. kept \in SUBSET (0..Len(l.dir))
      <3> HIDE DEF slashes
      <3>1. kept \subseteq DOMAIN l.dir
         OBVIOUS
      <3> HIDE DEF kept
      <3> QED
         BY <2>1, <3>1
   <2> HIDE DEF kept
   <2>3. kept # {} => Max(kept) \in kept
      BY <2>1, <2>2, GreatestNumber
   <2>4. n = 0 \/ n \in 0..Len(l.dir)
      BY <2>2, <2>3 DEF n
   <2> HIDE DEF n
   <2> QED
      BY <1>3, <2>1, <2>4
<1>5. \A file : pathSanityFix(l.dir, file) = d \o file
   BY DEF pathSanityFix
<1> HIDE DEF n
<1> HIDE DEF slashes
<1>6. clean \in Seq(Characters)
   BY <1>3, <1>4
<1> HIDE DEF clean
<1>7. d \in Seq(Characters) /\ (d = <<>> \/ d[Len(d)] = "/")
   <2>1. CASE clean = <<>>
      BY <2>1
   <2>2. CASE clean # <<>>
      <3>1. d = Append(clean, "/")
         BY <2>2
      <3> HIDE DEF d
      <3> QED
         BY <1>2, <1>6, <3>1
   <2> QED
      BY <2>1, <2>2
<1> HIDE DEF d
<1>8. DirOf(l) = d
   BY <1>5, <1>7 DEF DirOf
<1>9. PathOf(l) = (d \o l.name) \o dotLog
   BY <1>5 DEF PathOf, addLogSuffix
<1>10. PathOf(l) = d \o (l.name \o dotLog) /\ PathOf(l) \in Seq(Characters)
   <2>1. d \in Seq(Characters) /\ l.name \in Seq(Characters) /\ dotLog \in Seq(Characters)
      BY <1>2, <1>7, DotLog
   <2>2. (d \o l.name) \o dotLog = d \o (l.name \o dotLog)
      <3> DEFINE name == l.name
      <3>1. name \in Seq(Characters)
         BY <2>1
      <3> HIDE DEF d, name
      <3>2. (d \o name) \o dotLog = d \o (name \o dotLog)
         BY <2>1, <3>1, ConcatAssociative
      <3> QED
         BY <3>2 DEF name
   <2>3. l.name \o dotLog \in Seq(Characters)
      BY <2>1
   <2>4. d \o (l.name \o dotLog) \in Seq(Characters)
      BY <2>1, <2>3
   <2> QED
      BY <1>9, <2>2, <2>4
<1> QED
   BY <1>2, <1>7, <1>8, <1>10

(* A path and its two parts. *)
LEMMA PathSplit ==
   ASSUME NEW path \in Seq(Characters)
   PROVE  /\ LastSlash(path) \in 0..Len(path)
          /\ LastSlash(path) = 0 \/ path[LastSlash(path)] = "/"
          /\ \A i \in 1..Len(path) : i > LastSlash(path) => path[i] # "/"
          /\ DirectoryOf(path) \in Seq(Characters) /\ Len(DirectoryOf(path)) = LastSlash(path)
          /\ BaseOf(path) \in Seq(Characters) /\ Len(BaseOf(path)) = Len(path) - LastSlash(path)
          /\ \A i \in 1..Len(BaseOf(path)) : BaseOf(path)[i] = path[LastSlash(path) + i]
          /\ path = DirectoryOf(path) \o BaseOf(path)
<1> DEFINE S == {0} \cup {i \in DOMAIN path : path[i] = "/"}
           n == LastSlash(path)
<1>1. DOMAIN path = 1..Len(path) /\ Len(path) \in Nat
   OBVIOUS
<1>2. S \in SUBSET (0..Len(path)) /\ S # {}
   BY <1>1
<1>3. n = Max(S)
   BY DEF LastSlash
<1>4. n \in S /\ \A y \in S : y <= n
   <2> HIDE DEF S, n
   <2> QED
      BY <1>1, <1>2, <1>3, GreatestNumber
<1>5. n \in 0..Len(path) /\ (n = 0 \/ path[n] = "/")
   BY <1>2, <1>4
<1>6. \A i \in 1..Len(path) : i > n => path[i] # "/"
   <2> SUFFICES ASSUME NEW i \in 1..Len(path), i > n, path[i] = "/"
                PROVE  FALSE
      OBVIOUS
   <2>1. i \in S
      BY <1>1
   <2>2. i <= n
      BY <1>4, <2>1
   <2> HIDE DEF n
   <2> QED
      BY <1>5, <2>2
<1> HIDE DEF n
<1>7. DirectoryOf(path) = SubSeq(path, 1, n) /\ BaseOf(path) = SubSeq(path, n + 1, Len(path))
   BY DEF DirectoryOf, BaseOf, n
<1>8. /\ DirectoryOf(path) \in Seq(Characters) /\ Len(DirectoryOf(path)) = n
      /\ BaseOf(path) \in Seq(Characters) /\ Len(BaseOf(path)) = Len(path) - n
      /\ \A i \in 1..Len(BaseOf(path)) : BaseOf(path)[i] = path[n + i]
      /\ \A i \in 1..Len(DirectoryOf(path)) : DirectoryOf(path)[i] = path[i]
   BY <1>5, <1>7
<1>9. path = DirectoryOf(path) \o BaseOf(path)
   <2> DEFINE dir == DirectoryOf(path)
              base == BaseOf(path)
              both == dir \o base
   <2>1. /\ dir \in Seq(Characters) /\ base \in Seq(Characters) /\ n \in Nat
         /\ Len(dir) = n /\ Len(base) = Len(path) - n
         /\ \A i \in 1..Len(base) : base[i] = path[n + i]
         /\ \A i \in 1..Len(dir) : dir[i] = path[i]
      BY <1>5, <1>8
   <2> HIDE DEF dir, base
   <2>2. both \in Seq(Characters) /\ Len(both) = Len(path)
      <3>1. both \in Seq(Characters) /\ Len(both) = Len(dir) + Len(base)
         BY <2>1, ConcatProperties
      <3> QED
         BY <1>1, <2>1, <3>1
   <2>3. ASSUME NEW i \in 1..Len(path)
         PROVE  both[i] = path[i]
      <3>1. both[i] = IF i <= n THEN dir[i] ELSE base[i - n]
         BY <1>1, <2>1
      <3>2. CASE i <= n
         BY <1>1, <2>1, <3>1, <3>2
      <3>3. CASE ~(i <= n)
         <4>1. i - n \in 1..Len(base) /\ n + (i - n) = i
            BY <1>1, <2>1, <3>3
         <4> QED
            BY <2>1, <3>1, <3>3, <4>1
      <3> QED
         BY <3>2, <3>3
   <2> HIDE DEF both
   <2>4. path = both
      BY <2>2, <2>3, SeqEqual
   <2> QED
      BY <2>4 DEF both, dir, base
<1> QED
   BY <1>5, <1>6, <1>8, <1>9 DEF n

(* Two texts, one after the other. *)
LEMMA Joined ==
   ASSUME NEW x \in Seq(Characters), NEW y \in Seq(Characters), NEW z, z = x \o y
   PROVE  /\ z \in Seq(Characters) /\ Len(z) = Len(x) + Len(y)
          /\ Len(x) \in Nat /\ Len(y) \in Nat
          /\ \A i \in 1..Len(x) : z[i] = x[i]
          /\ \A i \in 1..Len(y) : z[Len(x) + i] = y[i]
<1> DEFINE m == Len(x)
           n == Len(y)
<1>1. m \in Nat /\ n \in Nat
   OBVIOUS
<1>2. /\ z \in Seq(Characters) /\ Len(z) = m + n
      /\ \A i \in 1..(m + n) : z[i] = IF i <= m THEN x[i] ELSE y[i - m]
   BY ConcatProperties
<1>3. \A i \in 1..m : z[i] = x[i]
   BY <1>1, <1>2
<1>4. \A i \in 1..n : z[m + i] = y[i]
   <2> TAKE i \in 1..n
   <2>1. m + i \in 1..(m + n) /\ ~(m + i <= m) /\ (m + i) - m = i
      BY <1>1
   <2> QED
      BY <1>2, <2>1
<1> QED
   BY <1>1, <1>2, <1>3, <1>4

(* What stands before ".log" in the name of an archive. *)
Ending(num) == <<".">> \o arc(num)

(* The name of an archive after that of its log: a date between dots, "arc"    *)
(* with a number, and ".log".                                                  *)
LEMMA SuffixParts ==
   ASSUME NEW time \in 0..MaxClock, NEW num \in 0..MaxNum
   PROVE  LET text == ArchiveSuffix(time, num) IN
          /\ text \in Seq(Characters) /\ Len(text) \in Nat /\ Len(text) >= 10
          /\ text[1] = "." /\ text[2] = Date[time] /\ text[4] = "a" /\ text[5] = "r"
          /\ text[Len(text) - 2] = "l" /\ text[Len(text) - 1] = "o" /\ text[Len(text)] = "g"
          /\ \A i \in 1..Len(text) : text[i] = "." <=> i \in {1, 3, Len(text) - 3}
          /\ \A i \in 1..Len(text) : text[i] # "/"
          /\ Ending(num) \in Seq(Characters) /\ Len(Ending(num)) = Len(text) - 6
          /\ \A i \in 1..(Len(text) - 6) : Ending(num)[i] = text[2 + i]
<1> DEFINE digits == Decimal[num]
           d == Len(digits)
           date == <<".", Date[time], ".">>
           letters == <<"a", "r", "c">>
           name == letters \o digits
           dated == date \o name
           suffix == dated \o dotLog
           text == ArchiveSuffix(time, num)
           ending == Ending(num)
<1>1. text = suffix
   BY DEF ArchiveSuffix, arc
<1> HIDE DEF text, ending
<1>2. digits \in Seq(Characters) /\ d \in Nat /\ \A i \in 1..d : digits[i] \notin {".", "/"}
   <2>1. digits \in Seq(Digits) /\ "." \notin Digits /\ "/" \notin Digits /\ Digits \subseteq Characters
      BY FileNamesAssumption DEF Digits, Characters
   <2> HIDE DEF digits
   <2> QED
      BY <2>1
<1>3. /\ date \in Seq(Characters) /\ Len(date) = 3
      /\ date[1] = "." /\ date[2] = Date[time] /\ date[3] = "." /\ date[2] \notin {".", "/"}
   <2>1. Date[time] \in Characters /\ "." \in Characters /\ Date[time] \notin {".", "/"}
      BY FileNamesAssumption DEF Characters
   <2> QED
      BY <2>1
<1>4. /\ letters \in Seq(Characters) /\ Len(letters) = 3
      /\ letters[1] = "a" /\ letters[2] = "r" /\ letters[3] = "c"
   BY DEF Characters
<1> HIDE DEF digits, date, letters
<1>5. /\ name \in Seq(Characters) /\ Len(name) = 3 + d
      /\ \A i \in 1..3 : name[i] = letters[i]
      /\ \A i \in 1..d : name[3 + i] = digits[i]
   <2>1. letters \in Seq(Characters) /\ digits \in Seq(Characters)
      BY <1>2, <1>4
   <2>2. /\ name \in Seq(Characters) /\ Len(name) = Len(letters) + Len(digits)
         /\ Len(letters) \in Nat /\ Len(digits) \in Nat
         /\ \A i \in 1..Len(letters) : name[i] = letters[i]
         /\ \A i \in 1..Len(digits) : name[Len(letters) + i] = digits[i]
      BY <2>1, Joined
   <2> HIDE DEF name
   <2> QED
      BY <1>2, <1>4, <2>2
<1> HIDE DEF name
<1>6. /\ dated \in Seq(Characters) /\ Len(dated) = 3 + (3 + d)
      /\ \A i \in 1..3 : dated[i] = date[i]
      /\ \A i \in 1..(3 + d) : dated[3 + i] = name[i]
   <2>1. date \in Seq(Characters) /\ name \in Seq(Characters)
      BY <1>3, <1>5
   <2>2. /\ dated \in Seq(Characters) /\ Len(dated) = Len(date) + Len(name)
         /\ Len(date) \in Nat /\ Len(name) \in Nat
         /\ \A i \in 1..Len(date) : dated[i] = date[i]
         /\ \A i \in 1..Len(name) : dated[Len(date) + i] = name[i]
      BY <2>1, Joined
   <2> HIDE DEF dated
   <2> QED
      BY <1>3, <1>5, <1>2, <2>2
<1> HIDE DEF dated
<1>7. /\ suffix \in Seq(Characters) /\ Len(suffix) = (6 + d) + 4
      /\ \A i \in 1..(6 + d) : suffix[i] = dated[i]
      /\ \A i \in 1..4 : suffix[(6 + d) + i] = dotLog[i]
   <2>1. dated \in Seq(Characters) /\ dotLog \in Seq(Characters)
      BY <1>6, DotLog
   <2>2. /\ suffix \in Seq(Characters) /\ Len(suffix) = Len(dated) + Len(dotLog)
         /\ Len(dated) \in Nat /\ Len(dotLog) \in Nat
         /\ \A i \in 1..Len(dated) : suffix[i] = dated[i]
         /\ \A i \in 1..Len(dotLog) : suffix[Len(dated) + i] = dotLog[i]
      BY <2>1, Joined
   <2> HIDE DEF suffix
   <2> QED
      BY <1>6, DotLog, <1>2, <2>2
<1> HIDE DEF suffix, d
<1>8. suffix[7 + d] = "." /\ suffix[8 + d] = "l" /\ suffix[9 + d] = "o" /\ suffix[10 + d] = "g"
   <2>1. /\ (6 + d) + 1 = 7 + d /\ (6 + d) + 2 = 8 + d /\ (6 + d) + 3 = 9 + d /\ (6 + d) + 4 = 10 + d
      BY <1>2
   <2> QED
      BY <1>7, <2>1, DotLog
<1>9. /\ suffix[1] = "." /\ suffix[2] = Date[time] /\ suffix[3] = "."
      /\ suffix[4] = "a" /\ suffix[5] = "r" /\ suffix[6] = "c"
   <2>1. \A i \in 1..6 : suffix[i] = dated[i]
      BY <1>2, <1>7
   <2>2. /\ dated[1] = date[1] /\ dated[2] = date[2] /\ dated[3] = date[3]
         /\ dated[4] = name[1] /\ dated[5] = name[2] /\ dated[6] = name[3]
      <3>1. /\ 1 \in 1..(3 + d) /\ 2 \in 1..(3 + d) /\ 3 \in 1..(3 + d)
            /\ 3 + 1 = 4 /\ 3 + 2 = 5 /\ 3 + 3 = 6
         BY <1>2
      <3>2. dated[3 + 1] = name[1] /\ dated[3 + 2] = name[2] /\ dated[3 + 3] = name[3]
         BY <1>6, <3>1
      <3> QED
         BY <1>6, <3>1, <3>2
   <2> QED
      BY <1>3, <1>4, <1>5, <2>1, <2>2
<1>10. \A i \in 1..(10 + d) : suffix[i] # "/" /\ (suffix[i] = "." <=> i \in {1, 3, 7 + d})
   <2>1. ASSUME NEW i \in 1..d
         PROVE  suffix[6 + i] \notin {".", "/"}
      <3>1. /\ 6 + i \in 1..(6 + d) /\ 3 + i \in 1..(3 + d) /\ 3 + (3 + i) = 6 + i
         BY <1>2
      <3>2. suffix[6 + i] = dated[6 + i] /\ dated[3 + (3 + i)] = name[3 + i] /\ name[3 + i] = digits[i]
         BY <1>5, <1>6, <1>7, <3>1
      <3> QED
         BY <1>2, <3>1, <3>2
   <2>2. ASSUME NEW i \in 1..(10 + d)
         PROVE  suffix[i] # "/" /\ (suffix[i] = "." <=> i \in {1, 3, 7 + d})
      <3>1. CASE i \in 1..6
         BY <1>2, <1>3, <1>9, <3>1
      <3>2. CASE i \in 7..(6 + d)
         <4>1. i - 6 \in 1..d /\ 6 + (i - 6) = i /\ i \notin {1, 3, 7 + d}
            BY <1>2, <3>2
         <4>2. suffix[6 + (i - 6)] \notin {".", "/"}
            BY <2>1, <4>1
         <4> QED
            BY <4>1, <4>2
      <3>3. CASE i \in {7 + d, 8 + d, 9 + d, 10 + d}
         BY <1>2, <1>8, <3>3
      <3> QED
         BY <1>2, <3>1, <3>2, <3>3
   <2> QED
      BY <2>2
<1> DEFINE n == Len(suffix)
<1>11. n \in Nat /\ n >= 10 /\ n = 10 + d /\ n - 3 = 7 + d /\ n - 2 = 8 + d /\ n - 1 = 9 + d
   BY <1>2, <1>7
<1> HIDE DEF n
<1>12. /\ suffix[n - 2] = "l" /\ suffix[n - 1] = "o" /\ suffix[n] = "g"
       /\ \A i \in 1..n : suffix[i] # "/" /\ (suffix[i] = "." <=> i \in {1, 3, n - 3})
   BY <1>8, <1>10, <1>11
<1> DEFINE dot == <<".">>
           dotted == dot \o name
<1>13. dot \in Seq(Characters) /\ Len(dot) = 1 /\ dot[1] = "."
   BY DEF Characters
<1> HIDE DEF dot
<1>14. /\ ending \in Seq(Characters) /\ Len(ending) = n - 6
       /\ \A i \in 1..(n - 6) : ending[i] = suffix[2 + i]
   <2>1. dot \in Seq(Characters) /\ name \in Seq(Characters)
      BY <1>5, <1>13
   <2>2. /\ dotted \in Seq(Characters) /\ Len(dotted) = Len(dot) + Len(name)
         /\ Len(dot) \in Nat /\ Len(name) \in Nat
         /\ \A i \in 1..Len(dot) : dotted[i] = dot[i]
         /\ \A i \in 1..Len(name) : dotted[Len(dot) + i] = name[i]
      BY <2>1, Joined
   <2>3. ending = dotted
      BY DEF dotted, dot, name, letters, digits, arc, ending, Ending
   <2> HIDE DEF dotted
   <2>4. /\ Len(dotted) = 4 + d /\ dotted[1] = "."
         /\ \A i \in 1..(3 + d) : dotted[1 + i] = name[i]
      BY <1>2, <1>5, <1>13, <2>2
   <2>5. ASSUME NEW i \in 1..(4 + d)
         PROVE  dotted[i] = suffix[2 + i]
      <3>1. CASE i = 1
         BY <1>9, <2>4, <3>1
      <3>2. CASE i > 1
         <4>1. i - 1 \in 1..(3 + d) /\ 1 + (i - 1) = i /\ 3 + (i - 1) = 2 + i /\ 2 + i \in 1..(6 + d)
            BY <1>2, <3>2
         <4>2. dotted[i] = name[i - 1] /\ name[i - 1] = dated[2 + i] /\ dated[2 + i] = suffix[2 + i]
            BY <1>6, <1>7, <2>4, <4>1
         <4> QED
            BY <4>2
      <3> QED
         BY <3>1, <3>2
   <2>6. n - 6 = 4 + d
      BY <1>2, <1>11
   <2> QED
      BY <2>2, <2>3, <2>4, <2>5, <2>6
<1>15. Len(text) = n
   BY <1>1 DEF n
<1> HIDE DEF suffix
<1>16. /\ text \in Seq(Characters) /\ Len(text) \in Nat /\ Len(text) >= 10
       /\ text[1] = "." /\ text[2] = Date[time] /\ text[4] = "a" /\ text[5] = "r"
   BY <1>1, <1>7, <1>9, <1>11, <1>15
<1>17. /\ text[Len(text) - 2] = "l" /\ text[Len(text) - 1] = "o" /\ text[Len(text)] = "g"
   BY <1>1, <1>12, <1>15
<1>18. \A i \in 1..Len(text) : text[i] # "/" /\ (text[i] = "." <=> i \in {1, 3, Len(text) - 3})
   BY <1>1, <1>12, <1>15
<1>19. /\ ending \in Seq(Characters) /\ Len(ending) = Len(text) - 6
       /\ \A i \in 1..(Len(text) - 6) : ending[i] = text[2 + i]
   BY <1>1, <1>14, <1>15
<1> QED
   BY <1>16, <1>17, <1>18, <1>19 DEF text, ending

(* What follows the directory in the path of a log ends with ".log" and has no *)
(* slash.                                                                      *)
LEMMA BaseParts ==
   ASSUME NEW path \in Paths
   PROVE  LET base == BaseOf(path)
              n == Len(base)
          IN /\ path \in Seq(Characters)
             /\ base \in Seq(Characters) /\ n \in Nat /\ n >= 4
             /\ base[n - 3] = "." /\ base[n - 2] = "l" /\ base[n - 1] = "o" /\ base[n] = "g"
             /\ \A i \in 1..n : base[i] # "/"
<1> DEFINE base == BaseOf(path)
           n == Len(base)
<1>1. PICK l \in Logs : path = PathOf(l)
   BY DEF Paths
<1> DEFINE dir == DirOf(l)
           name == l.name
           file == name \o dotLog
<1>2. /\ path \in Seq(Characters) /\ path = dir \o file
      /\ dir \in Seq(Characters) /\ name \in Seq(Characters)
   BY <1>1, PathParts
<1> HIDE DEF dir, name
<1>3. /\ file \in Seq(Characters) /\ Len(file) = Len(name) + 4 /\ Len(name) \in Nat /\ Len(dir) \in Nat
      /\ \A i \in 1..4 : file[Len(name) + i] = dotLog[i]
   <2>1. name \in Seq(Characters) /\ dotLog \in Seq(Characters)
      BY <1>2, DotLog
   <2>2. /\ file \in Seq(Characters) /\ Len(file) = Len(name) + Len(dotLog)
         /\ Len(name) \in Nat /\ Len(dotLog) \in Nat
         /\ \A i \in 1..Len(name) : file[i] = name[i]
         /\ \A i \in 1..Len(dotLog) : file[Len(name) + i] = dotLog[i]
      BY <2>1, Joined
   <2> HIDE DEF file
   <2> QED
      BY <1>2, DotLog, <2>2
<1> HIDE DEF file
<1>4. /\ Len(path) = Len(dir) + (Len(name) + 4)
      /\ \A i \in 1..(Len(name) + 4) : path[Len(dir) + i] = file[i]
   <2>1. dir \in Seq(Characters) /\ file \in Seq(Characters) /\ path = dir \o file
      BY <1>2, <1>3
   <2>2. /\ Len(path) = Len(dir) + Len(file)
         /\ Len(dir) \in Nat /\ Len(file) \in Nat
         /\ \A i \in 1..Len(file) : path[Len(dir) + i] = file[i]
      BY <2>1, Joined
   <2> QED
      BY <1>3, <2>2
<1> DEFINE m == Len(path)
<1>5. /\ m \in Nat /\ m >= 4
      /\ path[m - 3] = "." /\ path[m - 2] = "l" /\ path[m - 1] = "o" /\ path[m] = "g"
   <2>1. \A j \in 1..4 : path[m - 4 + j] = dotLog[j]
      <3> TAKE j \in 1..4
      <3>1. Len(name) + j \in 1..(Len(name) + 4) /\ m - 4 + j = Len(dir) + (Len(name) + j)
         BY <1>3, <1>4
      <3> QED
         BY <1>3, <1>4, <3>1
   <2>2. m \in Nat /\ m >= 4
      BY <1>3, <1>4
   <2> HIDE DEF m
   <2>3. m - 4 + 1 = m - 3 /\ m - 4 + 2 = m - 2 /\ m - 4 + 3 = m - 1 /\ m - 4 + 4 = m
      BY <2>2
   <2> QED
      BY <2>1, <2>2, <2>3, DotLog
<1> DEFINE k == LastSlash(path)
<1>6. /\ k \in 0..m /\ (k = 0 \/ path[k] = "/")
      /\ \A i \in 1..m : i > k => path[i] # "/"
      /\ base \in Seq(Characters) /\ n = m - k
      /\ \A i \in 1..n : base[i] = path[k + i]
   BY <1>2, PathSplit
<1> HIDE DEF base, n, k, m
<1>7. k <= m - 4
   BY <1>5, <1>6
<1>8. n \in Nat /\ n >= 4 /\ k + (n - 3) = m - 3 /\ k + (n - 2) = m - 2 /\ k + (n - 1) = m - 1 /\ k + n = m
   BY <1>5, <1>6, <1>7
<1>9. base[n - 3] = "." /\ base[n - 2] = "l" /\ base[n - 1] = "o" /\ base[n] = "g"
   BY <1>5, <1>6, <1>8
<1>10. \A i \in 1..n : base[i] # "/"
   <2> TAKE i \in 1..n
   <2>1. k + i \in 1..m /\ k + i > k
      BY <1>5, <1>6, <1>8
   <2> QED
      BY <1>6, <2>1
<1> QED
   BY <1>2, <1>6, <1>8, <1>9, <1>10 DEF base, n

(* What ends the name of an archive, as far as the dots in it and the letters  *)
(* after them go.                                                              *)
IsEnding(suffix) ==
   /\ suffix \in Seq(Characters) /\ Len(suffix) >= 10
   /\ suffix[4] = "a" /\ suffix[5] = "r" /\ suffix[Len(suffix) - 2] = "l"
   /\ \A i \in 1..Len(suffix) : suffix[i] = "." <=> i \in {1, 3, Len(suffix) - 3}

(* What begins it: the name of a log with ".log". *)
IsBeginning(base) ==
   /\ base \in Seq(Characters) /\ Len(base) >= 4
   /\ base[Len(base) - 3] = "." /\ base[Len(base) - 2] = "l"
   /\ base[Len(base) - 1] = "o" /\ base[Len(base)] = "g"

(* The ending of a name is in one place only. *)
LEMMA OneEnding ==
   ASSUME NEW base, IsBeginning(base), NEW suffix, IsEnding(suffix), NEW other, IsEnding(other),
          NEW file, file = base \o suffix, NEW k \in Nat, SubSeq(file, k + 1, Len(file)) = other
   PROVE  k = Len(base)
<1> DEFINE L == Len(base)
           n == Len(suffix)
           m == Len(other)
<1>1. L \in Nat /\ n \in Nat /\ m \in Nat /\ L >= 4 /\ n >= 10 /\ m >= 10
   <2>1. base \in Seq(Characters) /\ suffix \in Seq(Characters) /\ other \in Seq(Characters)
      BY DEF IsBeginning, IsEnding
   <2>2. Len(base) >= 4 /\ Len(suffix) >= 10 /\ Len(other) >= 10
      BY DEF IsBeginning, IsEnding
   <2> QED
      BY <2>1, <2>2
<1>2. /\ file \in Seq(Characters) /\ Len(file) = L + n
      /\ \A i \in 1..L : file[i] = base[i]
      /\ \A i \in 1..n : file[L + i] = suffix[i]
   <2>1. base \in Seq(Characters) /\ suffix \in Seq(Characters)
      BY DEF IsBeginning, IsEnding
   <2> QED
      BY <2>1, Joined
<1>3. m = (L + n) - k /\ \A i \in 1..m : other[i] = file[k + i]
   <2>1. Len(file) \in Nat /\ other = SubSeq(file, k + 1, Len(file))
      BY <1>1, <1>2
   <2>2. k + 1 <= Len(file)
      <3>1. ~(k + 1 <= Len(file)) => other = <<>>
         BY <1>2, <2>1
      <3>2. other # <<>>
         BY <1>1
      <3> QED
         BY <3>1, <3>2
   <2>3. Len(other) = Len(file) - k /\ \A i \in 1..Len(other) : other[i] = file[k + i]
      BY <1>2, <2>1, <2>2
   <2> QED
      BY <1>2, <2>3
<1>4. \A i \in 1..n : suffix[i] = "." <=> i \in {1, 3, n - 3}
   BY DEF IsEnding
<1>5. \A i \in 1..m : other[i] = "." <=> i \in {1, 3, m - 3}
   BY DEF IsEnding
<1>6. suffix[5] = "r"
   BY DEF IsEnding
<1>7. base[L - 3] = "." /\ base[L - 2] = "l" /\ base[L - 1] = "o" /\ base[L] = "g"
   BY DEF IsBeginning
<1> HIDE DEF L, n, m
<1>8. ASSUME k > L
      PROVE  FALSE
   <2> DEFINE d == k - L
   <2>1. d \in 1..(n - 10) /\ m = n - d
      BY <1>1, <1>3, <1>8
   <2>2. \A i \in 1..m : other[i] = suffix[d + i]
      <3> TAKE i \in 1..m
      <3>1. d + i \in 1..n /\ L + (d + i) = k + i
         BY <1>1, <1>3, <2>1
      <3> QED
         BY <1>2, <1>3, <3>1
   <2> HIDE DEF d
   <2>3. other[1] = "." /\ other[3] = "." /\ 1 \in 1..m /\ 3 \in 1..m
      BY <1>1, <1>5
   <2>4. d + 1 \in {1, 3, n - 3} /\ d + 3 \in {1, 3, n - 3}
      <3>1. d + 1 \in 1..n /\ d + 3 \in 1..n
         BY <1>1, <2>1
      <3>2. suffix[d + 1] = "." /\ suffix[d + 3] = "."
         BY <2>2, <2>3
      <3> QED
         BY <1>4, <3>1, <3>2
   <2> QED
      BY <1>1, <2>1, <2>4
<1>9. ASSUME k < L
      PROVE  FALSE
   <2> DEFINE d == L - k
   <2>1. d \in 1..L /\ m = n + d /\ k + d = L
      BY <1>1, <1>3, <1>9
   <2>2. \A i \in 1..n : other[d + i] = suffix[i]
      <3> TAKE i \in 1..n
      <3>1. d + i \in 1..m /\ k + (d + i) = L + i
         BY <1>1, <1>3, <2>1
      <3> QED
         BY <1>2, <1>3, <3>1
   <2>3. \A i \in 1..d : other[i] = base[k + i]
      <3> TAKE i \in 1..d
      <3>1. i \in 1..m /\ k + i \in 1..L
         BY <1>1, <1>3, <2>1
      <3> QED
         BY <1>2, <1>3, <3>1
   <2> HIDE DEF d
   <2>4. other[1] = "."
      BY <1>1, <1>5
   <2>5. base[k + 1] = "."
      BY <2>1, <2>3, <2>4
   <2>6. k + 1 \notin {L - 2, L - 1, L}
      BY <1>7, <2>5
   <2>7. d >= 4
      BY <1>1, <2>1, <2>6
   <2>8. other[d - 3] = "."
      <3>1. d - 3 \in 1..d /\ k + (d - 3) = L - 3
         BY <1>1, <2>1, <2>7
      <3>2. other[d - 3] = base[L - 3]
         BY <2>3, <3>1
      <3> QED
         BY <1>7, <3>2
   <2>9. other[d + 1] = "." /\ other[d + 3] = "." /\ other[d + (n - 3)] = "."
      <3>1. 1 \in 1..n /\ 3 \in 1..n /\ n - 3 \in 1..n
         BY <1>1
      <3> QED
         BY <1>4, <2>2, <3>1
   <2>10. d - 3 \in {1, 3, m - 3} /\ d + 1 \in {1, 3, m - 3} /\ d + 3 \in {1, 3, m - 3}
      <3>1. d - 3 \in 1..m /\ d + 1 \in 1..m /\ d + 3 \in 1..m
         BY <1>1, <2>1, <2>7
      <3> QED
         BY <1>5, <2>8, <2>9, <3>1
   <2> QED
      BY <1>1, <2>1, <2>7, <2>10
<1> QED
   BY <1>1, <1>8, <1>9 DEF L

(* The name of a log that is found in that of an archive of the same length,   *)
(* and does not begin it, ends it.                                             *)
LEMMA FoundAtTheEnd ==
   ASSUME NEW base, IsBeginning(base), NEW suffix, IsEnding(suffix), NEW app, IsBeginning(app),
          Len(app) = Len(base), NEW file, file = base \o suffix,
          NEW i \in 0..(Len(file) - Len(app)), SubSeq(file, i + 1, i + Len(app)) = app
   PROVE  app = base \/ i = Len(suffix)
<1> DEFINE L == Len(base)
           n == Len(suffix)
<1>1. L \in Nat /\ n \in Nat /\ L >= 4 /\ n >= 10
   BY DEF IsBeginning, IsEnding
<1>2. base \in Seq(Characters) /\ suffix \in Seq(Characters) /\ app \in Seq(Characters)
   BY DEF IsBeginning, IsEnding
<1>3. /\ file \in Seq(Characters) /\ Len(file) = L + n
      /\ \A j \in 1..L : file[j] = base[j]
      /\ \A j \in 1..n : file[L + j] = suffix[j]
   BY <1>2, Joined
<1>4. i \in 0..n /\ \A j \in 1..L : app[j] = file[i + j]
   <2>1. Len(file) \in Nat /\ app = SubSeq(file, i + 1, i + L) /\ i \in Nat /\ i + L <= Len(file)
      BY <1>1, <1>3
   <2>2. \A j \in 1..L : app[j] = file[i + j]
      <3>1. L \in Nat /\ i + 1 \in Nat /\ i + L \in Nat /\ i + L <= Len(file)
         BY <1>1, <2>1
      <3> HIDE DEF L
      <3> TAKE j \in 1..L
      <3>2. j \in 1..((i + L) - (i + 1) + 1) /\ (i + 1) + j - 1 = i + j
         BY <2>1, <3>1
      <3>3. app[j] = file[(i + 1) + j - 1]
         BY <1>3, <2>1, <3>1, <3>2, SubSeqProperties
      <3> QED
         BY <3>2, <3>3
   <2> QED
      BY <1>1, <1>3, <2>1, <2>2
<1>5. CASE i = 0
   <2>1. \A j \in 1..L : app[j] = base[j]
      BY <1>3, <1>4, <1>5
   <2> QED
      BY <1>2, <2>1, SeqEqual
<1>6. CASE i > 0
   <2> DEFINE p == i + (L - 3)
   <2>1. file[p] = "." /\ file[p + 1] = "l" /\ file[p + 2] = "o"
      <3>1. app[L - 3] = "." /\ app[L - 2] = "l" /\ app[L - 1] = "o"
         BY DEF IsBeginning
      <3>2. L - 3 \in 1..L /\ L - 2 \in 1..L /\ L - 1 \in 1..L
            /\ i + (L - 2) = p + 1 /\ i + (L - 1) = p + 2
         BY <1>1, <1>4
      <3> HIDE DEF L, p
      <3> QED
         BY <1>4, <3>1, <3>2 DEF p
   <2>2. p \in Nat /\ p > L - 3 /\ p <= n + (L - 3)
      BY <1>1, <1>4, <1>6
   <2>3. base[L - 2] = "l" /\ base[L - 1] = "o" /\ base[L] = "g"
      BY DEF IsBeginning
   <2>4. \A j \in 1..n : suffix[j] = "." <=> j \in {1, 3, n - 3}
      BY DEF IsEnding
   <2>5. suffix[4] = "a"
      BY DEF IsEnding
   <2> HIDE DEF p, L, n
   <2>6. p \notin {L - 2, L - 1, L}
      <3>1. L - 2 \in 1..L /\ L - 1 \in 1..L /\ L \in 1..L
         BY <1>1
      <3> QED
         BY <1>3, <2>1, <2>3, <3>1
   <2> DEFINE q == p - L
   <2>7. q \in 1..n /\ p = L + q /\ p + 1 = L + (q + 1) /\ p + 2 = L + (q + 2)
      BY <1>1, <2>2, <2>6
   <2> HIDE DEF q
   <2>8. suffix[q] = "."
      BY <1>3, <2>1, <2>7
   <2>9. q # 1 /\ q # 3
      <3>1. ASSUME q = 1
            PROVE  FALSE
         <4>1. suffix[3] = "o" /\ 3 \in 1..n
            BY <1>1, <1>3, <2>1, <2>7, <3>1
         <4> QED
            BY <2>4, <4>1
      <3>2. ASSUME q = 3
            PROVE  FALSE
         <4>1. suffix[4] = "l"
            BY <1>1, <1>3, <2>1, <2>7, <3>2
         <4> QED
            BY <2>5, <4>1
      <3> QED
         BY <3>1, <3>2
   <2>10. q = n - 3
      BY <2>4, <2>7, <2>8, <2>9
   <2>11. i = n
      BY <1>1, <1>4, <2>7, <2>10 DEF p
   <2> QED
      BY <2>11 DEF n
<1> QED
   BY <1>4, <1>5, <1>6

(* A text ends with another if its last characters are those of the other. *)
LEMMA SuffixMeans ==
   ASSUME NEW x \in Seq(Characters), NEW y \in Seq(Characters)
   PROVE  IsSuffix(x, y) <=> /\ Len(x) <= Len(y)
                             /\ \A j \in 1..Len(x) : x[j] = y[Len(y) - Len(x) + j]
<1> DEFINE m == Len(x)
           n == Len(y)
           rx == Reverse(x)
           ry == Reverse(y)
<1>1. m \in Nat /\ n \in Nat
   OBVIOUS
<1>2. /\ rx \in Seq(Characters) /\ Len(rx) = m /\ \A i \in 1..m : rx[i] = x[(m - i) + 1]
   <2>1. \A i \in 1..m : (m - i) + 1 \in 1..m
      BY <1>1
   <2>2. rx = [i \in 1..m |-> x[(m - i) + 1]]
      BY DEF Reverse
   <2>3. \A i \in 1..m : x[(m - i) + 1] \in Characters
      BY <2>1
   <2> HIDE DEF rx
   <2> QED
      BY <1>1, <2>2, <2>3
<1>3. /\ ry \in Seq(Characters) /\ Len(ry) = n /\ \A i \in 1..n : ry[i] = y[(n - i) + 1]
   <2>1. \A i \in 1..n : (n - i) + 1 \in 1..n
      BY <1>1
   <2>2. ry = [i \in 1..n |-> y[(n - i) + 1]]
      BY DEF Reverse
   <2>3. \A i \in 1..n : y[(n - i) + 1] \in Characters
      BY <2>1
   <2> HIDE DEF ry
   <2> QED
      BY <1>1, <2>2, <2>3
<1>4. IsSuffix(x, y) <=> m <= n /\ SubSeq(rx, 1, m) = SubSeq(ry, 1, m)
   BY <1>2, <1>3 DEF IsSuffix, IsPrefix
<1> HIDE DEF rx, ry
<1>5. ASSUME m <= n
      PROVE  SubSeq(rx, 1, m) = SubSeq(ry, 1, m) <=> \A i \in 1..m : rx[i] = ry[i]
   <2> DEFINE px == SubSeq(rx, 1, m)
              py == SubSeq(ry, 1, m)
   <2>1. px \in Seq(Characters) /\ Len(px) = m /\ \A i \in 1..m : px[i] = rx[i]
      BY <1>1, <1>2
   <2>2. py \in Seq(Characters) /\ Len(py) = m /\ \A i \in 1..m : py[i] = ry[i]
      BY <1>1, <1>3, <1>5
   <2> HIDE DEF px, py
   <2>3. px = py <=> \A i \in 1..m : px[i] = py[i]
      <3>1. (\A i \in 1..m : px[i] = py[i]) => px = py
         BY <2>1, <2>2, SeqEqual
      <3> QED
         BY <3>1
   <2>4. px = py <=> \A i \in 1..m : rx[i] = ry[i]
      BY <2>1, <2>2, <2>3
   <2> QED
      BY <2>4 DEF px, py
<1>6. ASSUME m <= n
      PROVE  (\A i \in 1..m : rx[i] = ry[i]) <=> \A j \in 1..m : x[j] = y[n - m + j]
   <2> HIDE DEF m, n
   <2>1. \A i \in 1..m : /\ (m - i) + 1 \in 1..m /\ (m - ((m - i) + 1)) + 1 = i
                         /\ i \in 1..n /\ (n - i) + 1 = n - m + ((m - i) + 1)
      BY <1>1, <1>6
   <2>2. ASSUME \A i \in 1..m : rx[i] = ry[i], NEW j \in 1..m
         PROVE  x[j] = y[n - m + j]
      <3> DEFINE i == (m - j) + 1
      <3>1. i \in 1..m /\ (m - i) + 1 = j /\ i \in 1..n /\ (n - i) + 1 = n - m + j
         BY <1>1, <1>6
      <3> HIDE DEF i
      <3>2. rx[i] = ry[i] /\ rx[i] = x[(m - i) + 1] /\ ry[i] = y[(n - i) + 1]
         BY <1>2, <1>3, <2>2, <3>1
      <3> QED
         BY <3>1, <3>2
   <2>3. ASSUME \A j \in 1..m : x[j] = y[n - m + j], NEW i \in 1..m
         PROVE  rx[i] = ry[i]
      <3> DEFINE j == (m - i) + 1
      <3>1. j \in 1..m /\ i \in 1..n /\ (n - i) + 1 = n - m + j
         BY <1>1, <1>6
      <3>2. rx[i] = x[(m - i) + 1] /\ ry[i] = y[(n - i) + 1]
         BY <1>2, <1>3, <3>1
      <3>3. x[(m - i) + 1] = y[n - m + ((m - i) + 1)]
         BY <2>3, <3>1
      <3> QED
         BY <3>1, <3>2, <3>3
   <2> QED
      BY <2>2, <2>3
<1> QED
   BY <1>4, <1>5, <1>6

(* The name of a log with ".log" after it. *)
LEMMA AppParts ==
   ASSUME NEW l \in Logs
   PROVE  LET app == addLogSuffix(l.name) IN
          /\ IsBeginning(app) /\ app \in Seq(Characters)
          /\ Len(app) = Len(l.name) + 4 /\ Len(l.name) \in Nat
          /\ \A j \in 1..Len(l.name) : app[j] = l.name[j]
          /\ \A j \in 1..4 : app[Len(l.name) + j] = dotLog[j]
          /\ PathOf(l) = DirOf(l) \o app
<1> DEFINE name == l.name
           app == name \o dotLog
           n == Len(name)
<1>1. name \in Seq(Characters) /\ dotLog \in Seq(Characters) /\ PathOf(l) = DirOf(l) \o app
   BY PathParts, DotLog
<1>2. addLogSuffix(l.name) = app
   BY DEF addLogSuffix
<1> HIDE DEF name
<1>3. /\ app \in Seq(Characters) /\ Len(app) = Len(name) + Len(dotLog)
      /\ Len(name) \in Nat /\ Len(dotLog) \in Nat
      /\ \A i \in 1..Len(name) : app[i] = name[i]
      /\ \A i \in 1..Len(dotLog) : app[Len(name) + i] = dotLog[i]
   BY <1>1, Joined
<1> HIDE DEF app
<1>4. /\ Len(app) = n + 4 /\ n \in Nat /\ \A j \in 1..4 : app[n + j] = dotLog[j]
   BY <1>3, DotLog
<1> HIDE DEF n
<1>5. IsBeginning(app)
   <2>1. (n + 4) - 3 = n + 1 /\ (n + 4) - 2 = n + 2 /\ (n + 4) - 1 = n + 3 /\ n + 4 >= 4
      BY <1>4
   <2>2. app[n + 1] = "." /\ app[n + 2] = "l" /\ app[n + 3] = "o" /\ app[n + 4] = "g"
      BY <1>4, DotLog
   <2> QED
      BY <1>3, <1>4, <2>1, <2>2 DEF IsBeginning
<1> QED
   BY <1>1, <1>2, <1>3, <1>4, <1>5 DEF n, name

(* The beginning of an archive's name is that of its log. *)
LEMMA BaseIsBeginning ==
   ASSUME NEW path \in Paths
   PROVE  IsBeginning(BaseOf(path)) /\ path \in Seq(Characters) /\ BaseOf(path) \in Seq(Characters)
   BY BaseParts DEF IsBeginning

(* The suffix of an archive is one. *)
LEMMA SuffixIsEnding ==
   ASSUME NEW time \in 0..MaxClock, NEW num \in 0..MaxNum
   PROVE  IsEnding(ArchiveSuffix(time, num))
   BY SuffixParts DEF IsEnding

(* Where the parts of the path of a log are, unless its name has a slash. *)
LEMMA LogPath ==
   ASSUME NEW l \in Logs, \A j \in 1..Len(l.name) : l.name[j] # "/"
   PROVE  DirectoryOf(PathOf(l)) = DirOf(l) /\ BaseOf(PathOf(l)) = addLogSuffix(l.name)
<1> DEFINE path == PathOf(l)
           dir == DirOf(l)
           app == addLogSuffix(l.name)
           d == DirectoryOf(path)
           b == BaseOf(path)
           k == LastSlash(path)
<1>1. /\ app \in Seq(Characters) /\ dir \in Seq(Characters) /\ path \in Seq(Characters) /\ path = dir \o app
      /\ dir = <<>> \/ dir[Len(dir)] = "/"
   BY AppParts, PathParts
<1>2. \A j \in 1..Len(app) : app[j] # "/"
   <2> DEFINE n == Len(l.name)
   <2>1. /\ Len(app) = n + 4 /\ n \in Nat /\ \A j \in 1..n : app[j] = l.name[j]
         /\ \A j \in 1..4 : app[n + j] = dotLog[j]
      BY AppParts
   <2>2. \A j \in 1..n : app[j] # "/"
      BY <2>1
   <2>3. \A j \in 1..4 : app[n + j] # "/"
      BY <2>1, DotLog
   <2> HIDE DEF n, app
   <2> TAKE j \in 1..Len(app)
   <2>4. CASE j <= n
      BY <2>1, <2>2, <2>4
   <2>5. CASE ~(j <= n)
      <3>1. j - n \in 1..4 /\ n + (j - n) = j
         BY <2>1, <2>5
      <3> QED
         BY <2>3, <3>1
   <2> QED
      BY <2>4, <2>5
<1>3. /\ k \in 0..Len(path) /\ (k = 0 \/ path[k] = "/")
      /\ \A i \in 1..Len(path) : i > k => path[i] # "/"
      /\ d \in Seq(Characters) /\ Len(d) = k
      /\ b \in Seq(Characters) /\ Len(b) = Len(path) - k
      /\ path = d \o b
   BY <1>1, PathSplit
<1> HIDE DEF path, dir, app, d, b, k
<1>4. /\ Len(path) = Len(dir) + Len(app) /\ Len(dir) \in Nat /\ Len(app) \in Nat
      /\ \A i \in 1..Len(dir) : path[i] = dir[i]
      /\ \A i \in 1..Len(app) : path[Len(dir) + i] = app[i]
   BY <1>1, Joined
<1>5. /\ \A i \in 1..Len(d) : path[i] = d[i]
      /\ \A i \in 1..Len(b) : path[Len(d) + i] = b[i]
   BY <1>3, Joined
<1>6. k = Len(dir)
   <2>1. ASSUME k > Len(dir)
         PROVE  FALSE
      <3>1. k - Len(dir) \in 1..Len(app) /\ Len(dir) + (k - Len(dir)) = k /\ k # 0
         BY <1>3, <1>4, <2>1
      <3>2. path[k] = app[k - Len(dir)]
         BY <1>4, <3>1
      <3>3. path[k] = "/" /\ app[k - Len(dir)] # "/"
         BY <1>2, <1>3, <3>1
      <3> QED
         BY <3>2, <3>3
   <2>2. ASSUME k < Len(dir)
         PROVE  FALSE
      <3>1. Len(dir) \in 1..Len(path) /\ Len(dir) \in 1..Len(dir) /\ dir # <<>>
         BY <1>1, <1>3, <1>4, <2>2
      <3> QED
         BY <1>1, <1>3, <1>4, <2>2, <3>1
   <2> QED
      BY <1>3, <1>4, <2>1, <2>2
<1>7. d = dir
   <2>1. Len(d) = Len(dir) /\ \A i \in 1..Len(d) : d[i] = dir[i]
      BY <1>3, <1>4, <1>5, <1>6
   <2> QED
      BY <1>1, <1>3, <2>1, SeqEqual
<1>8. b = app
   <2>1. Len(b) = Len(app) /\ Len(d) = Len(dir)
      BY <1>3, <1>4, <1>6
   <2>2. \A i \in 1..Len(b) : b[i] = app[i]
      BY <1>4, <1>5, <2>1
   <2> QED
      BY <1>1, <1>3, <2>1, <2>2, SeqEqual
<1> QED
   BY <1>7, <1>8 DEF path, dir, app, d, b

(* A part of a text. *)
LEMMA PartMeans ==
   ASSUME NEW file \in Seq(Characters), NEW part \in Seq(Characters), NEW i \in Nat,
          i + Len(part) <= Len(file)
   PROVE  SubSeq(file, i + 1, i + Len(part)) = part <=> \A j \in 1..Len(part) : file[i + j] = part[j]
<1> DEFINE m == Len(part)
           sub == SubSeq(file, i + 1, i + m)
<1>1. m \in Nat /\ Len(file) \in Nat /\ i + m <= Len(file)
   OBVIOUS
<1> HIDE DEF m
<1>2. /\ sub \in Seq(Characters) /\ Len(sub) = m /\ \A j \in 1..m : sub[j] = file[i + j]
   <2>1. i + 1 \in Int /\ i + m \in Int /\ \A j \in (i + 1)..(i + m) : file[j] \in Characters
      BY <1>1
   <2>2. /\ sub \in Seq(Characters) /\ Len(sub) = IF i + 1 <= i + m THEN (i + m) - (i + 1) + 1 ELSE 0
         /\ \A j \in 1..((i + m) - (i + 1) + 1) : sub[j] = file[(i + 1) + j - 1]
      BY <2>1, SubSeqProperties
   <2>3. (i + m) - (i + 1) + 1 = m /\ (i + 1 <= i + m <=> m > 0) /\ \A j \in 1..m : (i + 1) + j - 1 = i + j
      BY <1>1
   <2> QED
      BY <1>1, <2>2, <2>3
<1> HIDE DEF sub
<1>3. (\A j \in 1..m : sub[j] = part[j]) => sub = part
   BY <1>2, SeqEqual DEF m
<1> QED
   BY <1>2, <1>3 DEF m, sub

(* What follows the same text is the same. *)
LEMMA SameAfter ==
   ASSUME NEW x \in Seq(Characters), NEW y \in Seq(Characters), NEW z \in Seq(Characters), x \o y = x \o z
   PROVE  y = z
<1> DEFINE a == x \o y
           b == x \o z
<1>1. /\ Len(a) = Len(x) + Len(y) /\ Len(x) \in Nat /\ Len(y) \in Nat
      /\ \A i \in 1..Len(y) : a[Len(x) + i] = y[i]
   BY Joined
<1>2. /\ Len(b) = Len(x) + Len(z) /\ Len(z) \in Nat
      /\ \A i \in 1..Len(z) : b[Len(x) + i] = z[i]
   BY Joined
<1>3. a = b
   OBVIOUS
<1> HIDE DEF a, b
<1>4. Len(y) = Len(z)
   BY <1>1, <1>2, <1>3
<1> QED
   BY <1>1, <1>2, <1>3, <1>4, SeqEqual

(* The names that expireArchives takes for archives of a log: those that begin *)
(* with its name, and those of one length that it ends.                        *)
LEMMA TakenMeans ==
   ASSUME NEW l \in Logs, NEW path \in Paths, NEW num \in 0..MaxNum
   PROVE  IsTaken(l, path, num) <=>
             /\ Exists(l.dir) /\ DirectoryOf(path) = DirOf(l)
             /\ \/ BaseOf(path) = addLogSuffix(l.name)
                \/ Len(BaseOf(path)) = Len(addLogSuffix(l.name)) /\ IsSuffix(l.name, <<".">> \o arc(num))
<1> DEFINE base == BaseOf(path)
           app == addLogSuffix(l.name)
           name == l.name
           suffix == ArchiveSuffix(0, num)
           ending == Ending(num)
           file == base \o suffix
           L == Len(base)
           n == Len(suffix)
           k == Len(name)
           Found1 == \E i \in 0..(Len(file) - Len(app)) : SubSeq(file, i + 1, i + Len(app)) = app
           Dated == \E time \in 0..MaxClock, other \in 0..MaxNum :
                       SubSeq(file, Len(app) + 1, Len(file)) = ArchiveSuffix(time, other)
<1>1. IsTaken(l, path, num) <=> Exists(l.dir) /\ DirectoryOf(path) = DirOf(l) /\ Found1 /\ Dated
   <2>1. IsTaken(l, path, num) <=> /\ Exists(l.dir) /\ DirectoryOf(path) = DirOf(l)
                                    /\ getDateFromFileName(app, file) # {}
      BY DEF IsTaken, DirOf
   <2>2. getDateFromFileName(app, file) # {} <=> Found1 /\ Dated
      <3>1. Found1 <=> Finds(file, app)
         BY DEF Finds
      <3>2. ~Found1 => getDateFromFileName(app, file) = {}
         BY <3>1 DEF getDateFromFileName
      <3>3. Found1 => getDateFromFileName(app, file)
                       = {x \in [time : 0..MaxClock, num : 0..MaxNum] :
                            SubSeq(file, Len(app) + 1, Len(file)) = ArchiveSuffix(x.time, x.num)}
         BY <3>1 DEF getDateFromFileName
      <3> HIDE DEF Found1, file, app
      <3>4. {x \in [time : 0..MaxClock, num : 0..MaxNum] :
               SubSeq(file, Len(app) + 1, Len(file)) = ArchiveSuffix(x.time, x.num)} # {} <=> Dated
         <4>1. ASSUME NEW time \in 0..MaxClock, NEW other \in 0..MaxNum,
                      SubSeq(file, Len(app) + 1, Len(file)) = ArchiveSuffix(time, other)
               PROVE  \E x \in [time : 0..MaxClock, num : 0..MaxNum] :
                         SubSeq(file, Len(app) + 1, Len(file)) = ArchiveSuffix(x.time, x.num)
            <5> WITNESS [time |-> time, num |-> other] \in [time : 0..MaxClock, num : 0..MaxNum]
            <5> QED
               BY <4>1
         <4> QED
            BY <4>1
      <3> QED
         BY <3>2, <3>3, <3>4
   <2> QED
      BY <2>1, <2>2
<1>2. /\ IsBeginning(base) /\ base \in Seq(Characters)
      /\ IsBeginning(app) /\ app \in Seq(Characters)
      /\ IsEnding(suffix) /\ suffix \in Seq(Characters)
      /\ 0 \in 0..MaxClock
   <2>1. 0 \in 0..MaxClock
      BY FileNamesAssumption
   <2>2. IsBeginning(base) /\ base \in Seq(Characters)
      BY BaseIsBeginning
   <2>3. IsBeginning(app) /\ app \in Seq(Characters)
      BY AppParts
   <2>4. IsEnding(suffix)
      BY <2>1, SuffixIsEnding
   <2> QED
      BY <2>1, <2>2, <2>3, <2>4 DEF IsEnding
<1>3. /\ Len(app) = k + 4 /\ k \in Nat
      /\ \A j \in 1..k : app[j] = name[j]
      /\ \A j \in 1..4 : app[k + j] = dotLog[j]
   BY AppParts
<1>4. /\ n \in Nat /\ n >= 10
      /\ suffix[2] = Date[0] /\ suffix[n - 3] = "." /\ suffix[n - 2] = "l" /\ suffix[n - 1] = "o" /\ suffix[n] = "g"
      /\ ending \in Seq(Characters) /\ Len(ending) = n - 6
      /\ \A i \in 1..(n - 6) : ending[i] = suffix[2 + i]
   <2>1. /\ n \in Nat /\ n >= 10 /\ suffix[2] = Date[0]
         /\ suffix[n - 2] = "l" /\ suffix[n - 1] = "o" /\ suffix[n] = "g"
         /\ \A i \in 1..n : suffix[i] = "." <=> i \in {1, 3, n - 3}
         /\ ending \in Seq(Characters) /\ Len(ending) = n - 6
         /\ \A i \in 1..(n - 6) : ending[i] = suffix[2 + i]
      <3>1. 0 \in 0..MaxClock
         BY <1>2
      <3> QED
         BY <3>1, SuffixParts
   <2> HIDE DEF n, suffix
   <2>2. n - 3 \in 1..n
      BY <2>1
   <2> QED
      BY <2>1, <2>2
<1>5. /\ file \in Seq(Characters) /\ Len(file) = L + n /\ L \in Nat
      /\ \A i \in 1..L : file[i] = base[i]
      /\ \A i \in 1..n : file[L + i] = suffix[i]
   BY <1>2, Joined
<1>6. name \in Seq(Characters) /\ \A j \in 1..k : name[j] # Date[0]
   <2>1. name \in Seq(STRING) /\ Date[0] \notin ToSet(name)
      BY <1>2, LogsAssumption
   <2> HIDE DEF name
   <2>2. \A j \in 1..k : name[j] # Date[0]
      BY <2>1 DEF ToSet
   <2>3. name \in Seq(Characters)
      BY PathParts DEF name
   <2> QED
      BY <2>2, <2>3
<1>7. IsSuffix(name, ending) <=> k <= n - 6 /\ \A j \in 1..k : name[j] = suffix[2 + ((n - 6) - k + j)]
   <2>1. IsSuffix(name, ending) <=> k <= n - 6 /\ \A j \in 1..k : name[j] = ending[(n - 6) - k + j]
      BY <1>4, <1>6, SuffixMeans
   <2> HIDE DEF k, n, name, ending, suffix
   <2>2. k <= n - 6 => \A j \in 1..k : (n - 6) - k + j \in 1..(n - 6)
      BY <1>3, <1>4
   <2> QED
      BY <1>4, <2>1, <2>2
<1> HIDE DEF L, n, k, file, suffix, ending, base, app, name
<1>8. ASSUME Found1, Dated
      PROVE  base = app \/ (L = Len(app) /\ IsSuffix(name, ending))
   <2>1. L = Len(app)
      <3>1. PICK time \in 0..MaxClock, other \in 0..MaxNum :
               SubSeq(file, Len(app) + 1, Len(file)) = ArchiveSuffix(time, other)
         BY <1>8
      <3>2. IsEnding(ArchiveSuffix(time, other)) /\ Len(app) \in Nat
         BY <1>3, SuffixIsEnding
      <3>3. Len(app) = Len(base)
         BY <1>2, <3>1, <3>2, OneEnding DEF file
      <3> QED
         BY <3>3 DEF L
   <2>2. PICK i \in 0..(Len(file) - Len(app)) : SubSeq(file, i + 1, i + Len(app)) = app
      BY <1>8
   <2>3. app = base \/ i = n
      <3>1. Len(app) = Len(base)
         BY <2>1 DEF L
      <3>2. app = base \/ i = Len(suffix)
         BY <1>2, <2>2, <3>1, FoundAtTheEnd DEF file
      <3> QED
         BY <3>2 DEF n
   <2>4. ASSUME i = n
         PROVE  IsSuffix(name, ending)
      <3>1. \A j \in 1..L : app[j] = file[n + j]
         <4>1. n + Len(app) <= Len(file) /\ n \in Nat
            BY <1>4, <1>5, <2>1
         <4> QED
            BY <1>2, <1>5, <2>1, <2>2, <2>4, <4>1, PartMeans
      <3>2. n >= L + 2
         <4> SUFFICES ASSUME n < L + 2
                      PROVE  FALSE
            BY <1>4, <1>5
         <4> DEFINE j == (L + 2) - n
         <4>1. j \in 1..k /\ j \in 1..L /\ n + j = L + 2 /\ 2 \in 1..n
            BY <1>3, <1>4, <1>5, <2>1
         <4> HIDE DEF j
         <4>2. name[j] = app[j] /\ app[j] = file[L + 2] /\ file[L + 2] = suffix[2]
            BY <1>3, <1>5, <3>1, <4>1
         <4> QED
            BY <1>4, <1>6, <4>1, <4>2
      <3>3. ASSUME NEW j \in 1..k
            PROVE  name[j] = suffix[2 + ((n - 6) - k + j)]
         <4> DEFINE q == 2 + ((n - 6) - k + j)
         <4>1. q \in 1..n /\ n + j = L + q /\ j \in 1..L
            BY <1>3, <1>4, <1>5, <2>1, <3>2
         <4> HIDE DEF q
         <4>2. name[j] = app[j] /\ app[j] = file[L + q] /\ file[L + q] = suffix[q]
            BY <1>3, <1>5, <3>1, <4>1
         <4> QED
            BY <4>2 DEF q
      <3> QED
         BY <1>3, <1>4, <1>7, <2>1, <3>2, <3>3
   <2> QED
      BY <2>1, <2>3, <2>4
<1>9. ASSUME base = app \/ (L = Len(app) /\ IsSuffix(name, ending))
      PROVE  Found1 /\ Dated
   <2>1. L = Len(app)
      BY <1>9 DEF L
   <2>2. Dated
      <3>1. L + Len(suffix) <= Len(file) /\ Len(suffix) = n
         BY <1>4, <1>5 DEF n
      <3>2. SubSeq(file, L + 1, L + Len(suffix)) = suffix
         BY <1>2, <1>5, <3>1, PartMeans
      <3>3. SubSeq(file, Len(app) + 1, Len(file)) = ArchiveSuffix(0, num)
         BY <1>5, <2>1, <3>1, <3>2 DEF suffix
      <3> QED
         BY <1>2, <3>3
   <2>3. ASSUME NEW i \in {0, n}, \A j \in 1..Len(app) : file[i + j] = app[j]
         PROVE  Found1
      <3>1. i \in Nat /\ i + Len(app) <= Len(file) /\ i \in 0..(Len(file) - Len(app))
         <4>1. Len(file) = L + n /\ L \in Nat /\ n \in Nat /\ Len(app) = L /\ (i = 0 \/ i = n)
            BY <1>4, <1>5, <2>1
         <4> QED
            BY <4>1
      <3>2. SubSeq(file, i + 1, i + Len(app)) = app
         BY <1>2, <1>5, <2>3, <3>1, PartMeans
      <3> QED
         BY <3>1, <3>2
   <2> HIDE DEF Found1, Dated
   <2>4. CASE base = app
      <3>1. \A j \in 1..Len(app) : file[0 + j] = app[j]
         <4> TAKE j \in 1..Len(app)
         <4>1. 0 + j = j /\ j \in 1..L
            BY <1>5, <2>1
         <4> QED
            BY <1>5, <2>4, <4>1
      <3> QED
         BY <2>2, <2>3, <3>1
   <2>5. CASE IsSuffix(name, ending)
      <3>1. k <= n - 6 /\ \A j \in 1..k : name[j] = suffix[2 + ((n - 6) - k + j)]
         BY <1>7, <2>5
      <3>2. ASSUME NEW j \in 1..k
            PROVE  file[n + j] = app[j]
         <4> DEFINE q == 2 + ((n - 6) - k + j)
         <4>1. q \in 1..n /\ n + j = L + q
            BY <1>3, <1>4, <1>5, <2>1, <3>1
         <4>2. name[j] = suffix[q]
            BY <3>1
         <4> HIDE DEF q
         <4> QED
            BY <1>3, <1>5, <4>1, <4>2
      <3>3. /\ file[n + (k + 1)] = app[k + 1] /\ file[n + (k + 2)] = app[k + 2]
            /\ file[n + (k + 3)] = app[k + 3] /\ file[n + (k + 4)] = app[k + 4]
         <4>1. /\ n - 3 \in 1..n /\ n - 2 \in 1..n /\ n - 1 \in 1..n /\ n \in 1..n
               /\ n + (k + 1) = L + (n - 3) /\ n + (k + 2) = L + (n - 2)
               /\ n + (k + 3) = L + (n - 1) /\ n + (k + 4) = L + n
            <5>1. L = k + 4 /\ k \in Nat /\ n \in Nat /\ n >= 10
               BY <1>3, <1>4, <2>1
            <5> QED
               BY <5>1
         <4>2. app[k + 1] = "." /\ app[k + 2] = "l" /\ app[k + 3] = "o" /\ app[k + 4] = "g"
            BY <1>3, DotLog
         <4>3. /\ file[L + (n - 3)] = suffix[n - 3] /\ file[L + (n - 2)] = suffix[n - 2]
               /\ file[L + (n - 1)] = suffix[n - 1] /\ file[L + n] = suffix[n]
            BY <1>5, <4>1
         <4> QED
            BY <1>4, <4>1, <4>2, <4>3
      <3>4. \A j \in 1..Len(app) : j \in 1..k \/ j \in {k + 1, k + 2, k + 3, k + 4}
         BY <1>3
      <3>5. \A j \in 1..Len(app) : file[n + j] = app[j]
         BY <3>2, <3>3, <3>4
      <3> QED
         BY <2>2, <2>3, <3>5
   <2> QED
      BY <1>9, <2>2, <2>4, <2>5
<1>10. Found1 /\ Dated <=> base = app \/ (L = Len(app) /\ IsSuffix(name, ending))
   BY <1>8, <1>9
<1> HIDE DEF Found1, Dated
<1> QED
   BY <1>1, <1>10 DEF base, app, name, ending, Ending, L

(* expireArchives takes the archives of a log and those whose names are         *)
(* confused with them, and no others.                                           *)
LEMMA TakenNames ==
   ASSUME NEW l \in Logs, NEW a, a.path \in Paths, a.num \in 0..MaxNum, IsTaken(l, a.path, a.num)
   PROVE  a.path = PathOf(l) \/ Confused(l, a)
<1> DEFINE path == a.path
           num == a.num
           base == BaseOf(path)
           app == addLogSuffix(l.name)
           dir == DirOf(l)
<1>1. /\ DirectoryOf(path) = dir
      /\ base = app \/ (Len(base) = Len(app) /\ IsSuffix(l.name, <<".">> \o arc(num)))
   BY TakenMeans
<1>2. /\ path \in Seq(Characters) /\ base \in Seq(Characters) /\ path = dir \o base
      /\ dir \in Seq(Characters) /\ app \in Seq(Characters) /\ PathOf(l) = dir \o app
   <2>1. path \in Seq(Characters)
      BY BaseIsBeginning
   <2>2. path = DirectoryOf(path) \o base /\ base \in Seq(Characters)
      BY <2>1, PathSplit
   <2>3. dir \in Seq(Characters) /\ app \in Seq(Characters) /\ PathOf(l) = dir \o app
      BY AppParts, PathParts
   <2> QED
      BY <1>1, <2>1, <2>2, <2>3
<1>3. CASE base = app
   BY <1>2, <1>3
<1>4. CASE Len(base) = Len(app) /\ IsSuffix(l.name, <<".">> \o arc(num))
   <2> DEFINE name == l.name
              n == Len(Ending(num))
              k == Len(name)
   <2>1. IsSuffix(name, Ending(num))
      BY <1>4 DEF Ending
   <2>2. /\ name \in Seq(Characters) /\ Ending(num) \in Seq(Characters)
         /\ \A i \in 1..n : Ending(num)[i] # "/"
      <3> DEFINE text == ArchiveSuffix(0, num)
      <3>1. 0 \in 0..MaxClock
         BY FileNamesAssumption
      <3>2. /\ Len(text) \in Nat /\ Len(text) >= 10 /\ \A i \in 1..Len(text) : text[i] # "/"
            /\ Ending(num) \in Seq(Characters) /\ n = Len(text) - 6
            /\ \A i \in 1..(Len(text) - 6) : Ending(num)[i] = text[2 + i]
         BY <3>1, SuffixParts
      <3> HIDE DEF text, n
      <3>3. \A i \in 1..n : 2 + i \in 1..Len(text)
         BY <3>2
      <3> QED
         BY <3>2, <3>3, PathParts
   <2> HIDE DEF name, path, num
   <2>3. k <= n /\ \A j \in 1..k : name[j] = Ending(num)[n - k + j]
      BY <2>1, <2>2, SuffixMeans
   <2>4. k \in Nat /\ n \in Nat
      BY <2>2
   <2> HIDE DEF n
   <2>5. \A j \in 1..k : name[j] # "/"
      <3> HIDE DEF k
      <3>1. \A j \in 1..k : n - k + j \in 1..n
         BY <2>3, <2>4
      <3> QED
         BY <2>2, <2>3, <3>1
   <2>6. DirectoryOf(PathOf(l)) = dir
      BY <2>5, LogPath DEF k, name
   <2>7. Len(path) = Len(PathOf(l))
      <3>1. Len(dir \o base) = Len(dir) + Len(base) /\ Len(dir \o app) = Len(dir) + Len(app)
         BY <1>2, ConcatProperties
      <3> QED
         BY <1>2, <1>4, <3>1
   <2> QED
      BY <1>1, <1>4, <2>6, <2>7 DEF Confused, path, num
<1> QED
   BY <1>1, <1>3, <1>4

(* With one archive of another log it takes all of that log whose names are    *)
(* confused, and with one of the log itself all of its own.                    *)
LEMMA TakesTheSame ==
   ASSUME NEW l \in Logs, NEW path \in Paths, NEW num \in 0..MaxNum, IsTaken(l, path, num),
          NEW b, b.path = path, b.num \in 0..MaxNum, path = PathOf(l) \/ Confused(l, b)
   PROVE  IsTaken(l, path, b.num)
<1> DEFINE base == BaseOf(path)
           app == addLogSuffix(l.name)
           dir == DirOf(l)
<1>1. Exists(l.dir) /\ DirectoryOf(path) = dir
   BY TakenMeans
<1>2. /\ path \in Seq(Characters) /\ base \in Seq(Characters) /\ path = dir \o base
      /\ dir \in Seq(Characters) /\ app \in Seq(Characters) /\ PathOf(l) = dir \o app
   <2>1. path \in Seq(Characters)
      BY BaseIsBeginning
   <2>2. path = DirectoryOf(path) \o base /\ base \in Seq(Characters)
      BY <2>1, PathSplit
   <2>3. dir \in Seq(Characters) /\ app \in Seq(Characters) /\ PathOf(l) = dir \o app
      BY AppParts, PathParts
   <2> QED
      BY <1>1, <2>1, <2>2, <2>3
<1>3. CASE path = PathOf(l)
   <2>1. base = app
      <3> HIDE DEF base, app, dir
      <3> QED
         BY <1>2, <1>3, SameAfter
   <2> QED
      BY <1>1, <2>1, TakenMeans
<1>4. CASE Confused(l, b)
   <2>1. Len(path) = Len(PathOf(l)) /\ IsSuffix(l.name, <<".">> \o arc(b.num))
      BY <1>4 DEF Confused
   <2>2. Len(dir \o base) = Len(dir) + Len(base) /\ Len(dir \o app) = Len(dir) + Len(app)
      BY <1>2, ConcatProperties
   <2>3. Len(dir) \in Nat /\ Len(base) \in Nat /\ Len(app) \in Nat
      BY <1>2
   <2>4. Len(base) = Len(app)
      <3> HIDE DEF base, app, dir
      <3> QED
         BY <1>2, <2>1, <2>2, <2>3
   <2> QED
      BY <1>1, <2>1, <2>4, TakenMeans
<1> QED
   BY <1>3, <1>4

(* It takes the archives of the log, if it finds the directory.                *)
LEMMA OwnTaken ==
   ASSUME NEW l \in Logs, Exists(l.dir), "/" \notin ToSet(l.name), NEW num \in 0..MaxNum
   PROVE  IsTaken(l, PathOf(l), num)
<1>1. \A j \in 1..Len(l.name) : l.name[j] # "/"
   <2> DEFINE name == l.name
   <2>1. name \in Seq(Characters) /\ "/" \notin ToSet(name)
      BY PathParts
   <2> HIDE DEF name
   <2>2. \A j \in 1..Len(name) : name[j] # "/"
      BY <2>1 DEF ToSet
   <2> QED
      BY <2>2 DEF name
<1>2. DirectoryOf(PathOf(l)) = DirOf(l) /\ BaseOf(PathOf(l)) = addLogSuffix(l.name)
   BY <1>1, LogPath
<1>3. PathOf(l) \in Paths
   BY DEF Paths
<1> QED
   BY <1>2, <1>3, TakenMeans

--------------------------------------------------------------------------------
(* What expires *)

(* u has the archives of t, and at most the one that a rotation makes now. *)
Extended(t, u) ==
   \/ u.archives = t.archives
   \/ \E new : /\ new.path = t.path /\ new.time = clock /\ new.num = t.num
               /\ u.archives = t.archives \cup {new}

(* The rename adds an archive and replaces none. *)
LEMMA MovedArchives ==
   ASSUME NEW t, RotateInv(t), clock \in Nat, ArchivesInv(t, clock)
   PROVE  Extended(t, Moved(t))
<1> DEFINE c == ClosedToRotate(t)
           u == Archived(c, t.num)
           new == [path |-> c.path, time |-> clock, num |-> t.num, text |-> c.files[c.path]]
           old == {a \in c.archives : a.path = c.path /\ a.time = clock /\ a.num = t.num}
<1>1. RotateInv(c) /\ c.archives = t.archives /\ c.path = t.path
   BY ClosedToRotateResult
<1>2. IsStream(c) /\ RotateMembers \subseteq DOMAIN c /\ t.num \in Nat
   BY <1>1 DEF RotateInv, IsRotateSink, IsPrepared
<1> HIDE DEF c
<1>3. u = [c EXCEPT !.archives = (@ \ old) \cup {new}, !.files = [@ EXCEPT ![c.path] = <<>>]]
   BY DEF Archived
<1>4. u.archives = (c.archives \ old) \cup {new}
   <2> HIDE DEF new, old
   <2> QED
      BY <1>2, <1>3 DEF IsStream, StreamFields, RotateMembers
<1>5. new.path = c.path /\ new.time = clock /\ new.num = t.num
   OBVIOUS
<1>6. old = {}
   BY <1>1, <1>2 DEF ArchivesInv
<1>7. Moved(t) = u
   BY DEF Moved, c
<1> HIDE DEF u, new, old
<1> QED
   BY <1>1, <1>4, <1>5, <1>6, <1>7 DEF Extended

(* A rotation fails and adds at most an archive, or adds one, keeps the order  *)
(* and then expires some.                                                      *)
LEMMA RotationOutcome ==
   ASSUME NEW t, RotateInv(t), NEW u \in Rotations(t), clock \in Nat, ArchivesInv(t, clock)
   PROVE  \/ u.failed /\ Extended(t, u)
          \/ /\ t.open /\ OrderKept(t, Created(t)) /\ Extended(t, Created(t))
             /\ \E order \in Orders : u \in Expirations(Created(t), order)
<1> DEFINE moved == Moved(t)
<1>1. RotateInv(moved) /\ ~moved.open /\ Extended(t, moved)
   BY MovedResult, MovedArchives
<1> HIDE DEF moved
<1>2. ASSUME NEW v, RotateInv(v), ~v.open, Extended(t, v),
             u = WithFailure(v) \/ u = OpenedAt(WithFailure(v), t.path)
      PROVE  u.failed /\ Extended(t, u)
   <2> DEFINE f == WithFailure(v)
   <2>1. RotateInv(f) /\ f.failed /\ ~f.open /\ f.archives = v.archives
      BY <1>2, WithFailureResult
   <2>2. u = f \/ u = OpenedAt(f, t.path)
      BY <1>2
   <2> HIDE DEF f
   <2>3. u.failed /\ u.archives = f.archives
      <3>1. CASE u = OpenedAt(f, t.path)
         <4>1. IsStream(f) /\ "archives" \in DOMAIN f /\ "failed" \in DOMAIN f
            BY <2>1 DEF RotateInv, IsRotateSink, IsPrepared, RotateMembers
         <4>2. Same(f, u, {"path", "open", "files"})
            BY <2>1, <3>1, <4>1, OpenedResult
         <4> QED
            BY <2>1, <4>1, <4>2 DEF Same
      <3> QED
         BY <2>1, <2>2, <3>1
   <2> QED
      BY <1>2, <2>1, <2>3 DEF Extended
<1>3. CASE u = WithFailure(t)
   BY <1>3, WithFailureResult DEF Extended
<1>4. ASSUME NEW v \in {ClosedToRotate(t), Written(moved, Refusal)}
      PROVE  RotateInv(v) /\ ~v.open /\ Extended(t, v)
   <2>1. CASE v = ClosedToRotate(t)
      BY <2>1, ClosedToRotateResult DEF Extended
   <2>2. CASE v = Written(moved, Refusal)
      <3>1. RotateInv(v) /\ v.open = moved.open /\ v.archives = moved.archives
         BY <1>1, <2>2, TextItems, WrittenText DEF SameSettings
      <3> QED
         BY <1>1, <3>1 DEF Extended
   <2> QED
      BY <2>1, <2>2
<1>5. ASSUME NEW order \in Orders, u \in Expirations(Created(t), order)
      PROVE  OrderKept(t, Created(t)) /\ Extended(t, Created(t))
   <2>1. OrderKept(t, Created(t)) /\ Created(t).archives = moved.archives
      BY CreatedKeepsOrder DEF moved
   <2> QED
      BY <1>1, <2>1 DEF Extended
<1>6. \/ u = WithFailure(t)
      \/ \E v \in {ClosedToRotate(t), Written(moved, Refusal)} :
            u = WithFailure(v) \/ u = OpenedAt(WithFailure(v), t.path)
      \/ t.open /\ \E order \in Orders : u \in Expirations(Created(t), order)
   BY RotationCases DEF moved
<1> QED
   BY <1>2, <1>3, <1>4, <1>5, <1>6

(* What is known of the names of archives. *)
Named(t) ==
   /\ t.log \in Logs /\ IsFiniteSet(t.archives)
   /\ \A a \in t.archives : a.path \in Paths /\ a.num \in 0..MaxNum
   /\ \A a, b \in t.archives : a.time = b.time /\ a.num = b.num => a = b

(* A rotation adds a name that is new. *)
LEMMA ExtendedNamed ==
   ASSUME NEW t, Named(t), IsRotateSink(t), NEW u, Extended(t, u), u.log = t.log,
          clock \in Nat, ArchivesInv(t, clock), t.num < MaxNum
   PROVE  Named(u)
<1>1. t.path \in Paths /\ t.num \in 0..MaxNum
   BY FileNamesAssumption DEF IsRotateSink, IsPrepared, Paths, Named
<1>2. CASE u.archives = t.archives
   BY <1>2 DEF Named
<1>3. ASSUME NEW new, new.path = t.path, new.time = clock, new.num = t.num,
             u.archives = t.archives \cup {new}
      PROVE  Named(u)
   <2>1. IsFiniteSet(u.archives)
      BY <1>3, FS_AddElement DEF Named
   <2>2. \A a \in t.archives : ~(a.time = new.time /\ a.num = new.num)
      BY <1>1, <1>3 DEF ArchivesInv
   <2> QED
      BY <1>1, <1>3, <2>1, <2>2 DEF Named
<1> QED
   BY <1>2, <1>3 DEF Extended

(* Fewer archives have fewer names. *)
LEMMA FewerNamed ==
   ASSUME NEW t, Named(t), NEW u, u.archives \subseteq t.archives, u.log \in Logs
   PROVE  Named(u)
<1>1. IsFiniteSet(u.archives)
   BY FS_Subset DEF Named
<1> QED
   BY <1>1 DEF Named

(* The archives that are read as those of the log under its path. *)
Mine(l, archives) == {a \in archives : a.path = PathOf(l) \/ Confused(l, a)}

(* expireArchives takes archives of the log, or confused with them, until the  *)
(* number to keep is left, the oldest first, and besides them those that it    *)
(* could not delete.                                                           *)
LEMMA Expires ==
   ASSUME NEW c, RotateInv(c), Named(c), clock \in Nat, ArchivesInv(c, clock), NEW order \in Orders,
          NEW u \in Expirations(c, order)
   PROVE  LET left == u.archives \ u.stuck
              kept == Mine(c.log, left)
          IN /\ u.archives \subseteq c.archives
             /\ \A old \in (c.archives \ u.archives) \cup u.stuck :
                   /\ old \in Mine(c.log, c.archives)
                   /\ Cardinality(kept) >= c.count
                   /\ \A new \in kept : new.path = old.path => Older(old, new)
             /\ Exists(c.log.dir) /\ "/" \notin ToSet(c.log.name)
                   => Cardinality(ArchivesAt(u, PathOf(c.log)) \ u.stuck) <= c.count
<1> DEFINE left == u.archives \ u.stuck
           kept == Mine(c.log, left)
           l == c.log
           mine == {a \in c.archives : <<l, a.path, a.num>> \in Takes}
           found == Found(c, order)
           surplus == Surplus(c, found)
           rest == found \ surplus
           own == ArchivesAt(u, PathOf(c.log)) \ u.stuck
<1>1. /\ l \in Logs /\ c.count \in Nat /\ IsFiniteSet(c.archives)
      /\ \A a \in c.archives : a.path \in Paths /\ a.num \in 0..MaxNum /\ a.time \in Nat /\ a.num \in Nat
      /\ \A a, b \in c.archives : a.time = b.time /\ a.num = b.num => a = b
   BY DEF Named, ArchivesInv, RotateInv, IsRotateSink, IsPrepared
<1>2. /\ u.archives \subseteq c.archives /\ left = c.archives \ surplus
      /\ (c.archives \ u.archives) \cup u.stuck = surplus
   <2>1. RotateMembers \subseteq DOMAIN c
      BY DEF RotateInv, IsRotateSink, IsPrepared
   <2>2. PICK gone \in SUBSET surplus : u = Expired(c, surplus, gone)
      BY DEF Expirations
   <2>3. surplus \subseteq c.archives
      BY DEF Surplus, Found
   <2> HIDE DEF surplus
   <2>4. u.archives = c.archives \ gone /\ u.stuck = surplus \ gone
      <3> DEFINE going == UNION {MessagesIn(a.text) : a \in gone}
      <3>1. u = [c EXCEPT !.archives = @ \ gone, !.stuck = surplus \ gone, !.expired = @ \cup going]
         BY <2>2 DEF Expired
      <3> HIDE DEF going
      <3> QED
         BY <2>1, <3>1 DEF RotateMembers
   <2> QED
      BY <2>2, <2>3, <2>4
<1> HIDE DEF left
<1>3. \A a \in c.archives : <<l, a.path, a.num>> \in Takes <=> IsTaken(l, a.path, a.num)
   <2> TAKE a \in c.archives
   <2>1. a.path \in Paths /\ a.num \in 0..MaxNum /\ l \in Logs
      BY <1>1
   <2> HIDE DEF l
   <2> QED
      BY <2>1 DEF Takes
<1>4. found = mine
   <2>1. \A a \in mine : order[a.path] <= order[a.path]
      <3> TAKE a \in mine
      <3>1. order[a.path] \in 1..Cardinality(Paths)
         BY <1>1 DEF Orders
      <3> DEFINE n == order[a.path]
                 m == Cardinality(Paths)
      <3>2. n \in 1..m
         BY <3>1
      <3> HIDE DEF n, m
      <3>3. n <= n
         BY <3>2
      <3> QED
         BY <3>3 DEF n
   <2>2. \A a, b \in mine : b.time = a.time /\ b.num = a.num => b = a
      BY <1>1
   <2>3. found = {a \in mine : \A b \in mine : b.time = a.time /\ b.num = a.num
                                                => order[a.path] <= order[b.path]}
      BY DEF Found
   <2> HIDE DEF found, mine
   <2> QED
      BY <2>1, <2>2, <2>3
<1> HIDE DEF found
<1>5. Ordered(found)
   <2>1. found \subseteq c.archives
      BY <1>4
   <2>2. IsFiniteSet(found)
      BY <1>1, <2>1, FS_Subset
   <2> QED
      BY <1>1, <2>1, <2>2 DEF Ordered
<1>6. /\ surplus \subseteq found
      /\ \A a \in surplus, b \in rest : Older(a, b)
      /\ IsFiniteSet(rest) /\ Cardinality(rest) <= c.count /\ Cardinality(rest) \in Nat
      /\ surplus # {} => Cardinality(rest) >= c.count
   <2>1. surplus \subseteq found
      BY DEF Surplus
   <2>2. /\ \A a \in surplus, b \in rest : Older(a, b)
         /\ IsFiniteSet(rest) /\ Cardinality(rest) <= c.count
         /\ surplus # {} => Cardinality(rest) >= c.count
      BY <1>1, <1>5, SurplusResult
   <2> HIDE DEF surplus, rest
   <2> QED
      BY <2>1, <2>2, FS_CardinalityType
<1> HIDE DEF surplus
<1>7. found \subseteq Mine(l, c.archives)
   <2> SUFFICES ASSUME NEW a \in mine
                PROVE  a \in Mine(l, c.archives)
      BY <1>4
   <2>1. a \in c.archives /\ IsTaken(l, a.path, a.num)
      BY <1>3
   <2>2. a.path = PathOf(l) \/ Confused(l, a)
      BY <1>1, <2>1, TakenNames
   <2> QED
      BY <2>1, <2>2 DEF Mine
<1>8. rest \subseteq kept /\ IsFiniteSet(kept)
   <2>1. rest \subseteq kept
      BY <1>2, <1>6, <1>7 DEF Mine
   <2>2. kept \subseteq c.archives
      BY <1>2 DEF Mine
   <2> QED
      BY <1>1, <2>1, <2>2, FS_Subset
<1>9. ASSUME NEW old \in surplus
      PROVE  /\ old \in Mine(l, c.archives)
             /\ Cardinality(kept) >= c.count
             /\ \A new \in kept : new.path = old.path => Older(old, new)
   <2>1. old \in surplus /\ old \in found /\ old \in mine
      BY <1>4, <1>6, <1>9
   <2>2. Cardinality(kept) >= c.count
      <3>1. Cardinality(rest) <= Cardinality(kept) /\ Cardinality(kept) \in Nat
         BY <1>8, FS_Subset, FS_CardinalityType
      <3>2. Cardinality(rest) >= c.count /\ Cardinality(rest) \in Nat
         BY <1>6, <2>1
      <3> HIDE DEF rest, kept
      <3> QED
         BY <1>1, <3>1, <3>2
   <2>3. ASSUME NEW new \in kept, new.path = old.path
         PROVE  Older(old, new)
      <3>1. new \in c.archives /\ new \notin surplus /\ (new.path = PathOf(l) \/ Confused(l, new))
         BY <1>2 DEF Mine
      <3>2. IsTaken(l, old.path, old.num) /\ old \in c.archives
         BY <1>3, <2>1
      <3>3. IsTaken(l, old.path, new.num)
         BY <1>1, <2>3, <3>1, <3>2, TakesTheSame
      <3>4. new \in rest
         BY <1>3, <1>4, <2>3, <3>1, <3>3
      <3> QED
         BY <1>6, <2>1, <3>4
   <2> QED
      BY <1>7, <2>1, <2>2, <2>3
<1>10. ASSUME Exists(l.dir), "/" \notin ToSet(l.name)
       PROVE  Cardinality(own) <= c.count
   <2>1. own \subseteq rest
      <3> SUFFICES ASSUME NEW a \in c.archives, a \notin surplus, a.path = PathOf(l)
                   PROVE  a \in rest
         BY <1>2 DEF ArchivesAt, left
      <3>1. IsTaken(l, a.path, a.num)
         BY <1>1, <1>10, OwnTaken
      <3> QED
         BY <1>3, <1>4, <3>1
   <2>2. Cardinality(own) <= Cardinality(rest)
         /\ Cardinality(own) \in Nat
      <3>1. IsFiniteSet(own)
         BY <1>6, <2>1, FS_Subset
      <3> QED
         BY <1>6, <2>1, <3>1, FS_Subset, FS_CardinalityType
   <2> QED
      BY <1>1, <1>6, <2>2
<1> QED
   BY <1>2, <1>9, <1>10 DEF left

(* What NewestStay says of a step: which archives are surplus, and that enough *)
(* newer ones are left.                                                        *)
StaysNewest(t, u) ==
   LET rotated == u.num > t.num /\ ~u.failed
       refused == IF rotated THEN u.stuck ELSE {}
       surplus == (t.archives \ u.archives) \cup refused
       kept == {a \in u.archives \ refused : a.path = u.path \/ Confused(u.log, a)}
   IN /\ \A old \in surplus :
            /\ old.path = t.path \/ Confused(t.log, old)
            /\ Cardinality(kept) >= t.count
            /\ \A new \in kept : new.path = old.path => Before(old.text, new.text)
      /\ rotated /\ Exists(u.log.dir) /\ "/" \notin ToSet(u.log.name)
            => Cardinality(ArchivesAt(u, u.path) \ refused) <= t.count

(* A rotation: what expires is older than what is kept, and messages in older  *)
(* archives were written before.                                               *)
LEMMA RotationExpires ==
   ASSUME NEW t, RotateInv(t), Named(t), clock \in Nat, ArchivesInv(t, clock), t.num < MaxNum,
          \A m, n \in Messages : Reads(t, m, n) => m < n, NEW u \in Rotations(t)
   PROVE  Named(u) /\ StaysNewest(t, u)
<1> DEFINE c == Created(t)
<1>1. RotateInv(u) /\ u.log = t.log /\ u.path = PathOf(u.log)
   BY RotationResult DEF RotateInv, IsRotateSink
<1>2. IsRotateSink(t) /\ t.path = PathOf(t.log) /\ t.count \in Nat
   BY DEF RotateInv, IsRotateSink, IsPrepared
<1>3. CASE u.failed /\ Extended(t, u)
   <2>1. Named(u)
      BY <1>1, <1>2, <1>3, ExtendedNamed
   <2>2. t.archives \ u.archives = {}
      BY <1>3 DEF Extended
   <2> QED
      BY <1>3, <2>1, <2>2 DEF StaysNewest
<1>4. ASSUME t.open, OrderKept(t, c), Extended(t, c), NEW order \in Orders, u \in Expirations(c, order)
      PROVE  Named(u) /\ StaysNewest(t, u)
   <2>1. /\ RotateInv(c) /\ c.log = t.log /\ c.count = t.count /\ c.num = t.num + 1 /\ ~c.failed
         /\ ArchivesInv(c, clock)
      BY <1>4, CreatedResult DEF SameArguments
   <2> HIDE DEF c
   <2>2. Named(c)
      BY <1>2, <1>4, <2>1, ExtendedNamed
   <2> DEFINE left == u.archives \ u.stuck
              kept == Mine(c.log, left)
   <2>3. /\ u.archives \subseteq c.archives
         /\ \A old \in (c.archives \ u.archives) \cup u.stuck :
               /\ old \in Mine(c.log, c.archives)
               /\ Cardinality(kept) >= c.count
               /\ \A new \in kept : new.path = old.path => Older(old, new)
         /\ Exists(c.log.dir) /\ "/" \notin ToSet(c.log.name)
               => Cardinality(ArchivesAt(u, PathOf(c.log)) \ u.stuck) <= c.count
      BY <1>4, <2>1, <2>2, Expires
   <2>4. Named(u)
      BY <1>1, <2>1, <2>2, <2>3, FewerNamed DEF Named
   <2>5. kept = {a \in left : a.path = u.path \/ Confused(u.log, a)}
      BY <1>1, <2>1 DEF Mine
   <2>6. t.archives \subseteq c.archives
      BY <1>4 DEF Extended
   <2>7. ASSUME NEW old \in (t.archives \ u.archives) \cup u.stuck
         PROVE  /\ old.path = t.path \/ Confused(t.log, old)
                /\ Cardinality(kept) >= t.count
                /\ \A new \in kept : new.path = old.path => Before(old.text, new.text)
      <3>1. /\ old \in c.archives /\ old \in Mine(c.log, c.archives)
            /\ Cardinality(kept) >= c.count
            /\ \A new \in kept : new.path = old.path => Older(old, new)
         <4>1. old \in (c.archives \ u.archives) \cup u.stuck
            BY <2>6
         <4> HIDE DEF kept
         <4> QED
            BY <2>3, <4>1 DEF Mine
      <3>2. old.path = t.path \/ Confused(t.log, old)
         BY <1>2, <2>1, <3>1 DEF Mine
      <3>3. ASSUME NEW new \in kept, new.path = old.path,
                   NEW m \in MessagesIn(old.text), NEW n \in MessagesIn(new.text)
            PROVE  m < n
         <4>1. new \in ArchivesAt(c, old.path) /\ Older(old, new)
            BY <2>3, <3>1, <3>3 DEF Mine, ArchivesAt
         <4>2. m \in Messages /\ n \in Messages
            BY DEF MessagesIn
         <4>3. Reads(c, m, n)
            BY <3>1, <4>1 DEF Reads, ArchivedBefore
         <4> QED
            BY <1>4, <4>2, <4>3 DEF OrderKept
      <3> HIDE DEF kept
      <3> QED
         BY <2>1, <3>1, <3>2, <3>3 DEF Before
   <2>8. u.num > t.num /\ ~u.failed
      <3>1. u.num = c.num /\ u.failed = c.failed /\ t.num \in Nat
         BY <1>4, <2>1, ExpiredResult DEF RotateInv, IsRotateSink, IsPrepared
      <3> QED
         BY <2>1, <3>1
   <2>9. Exists(u.log.dir) /\ "/" \notin ToSet(u.log.name)
            => Cardinality(ArchivesAt(u, u.path) \ u.stuck) <= t.count
      BY <1>1, <2>1, <2>3
   <2> HIDE DEF kept
   <2> QED
      BY <2>4, <2>5, <2>7, <2>8, <2>9 DEF StaysNewest
<1> HIDE DEF c
<1>5. \/ u.failed /\ Extended(t, u)
      \/ t.open /\ OrderKept(t, c) /\ Extended(t, c) /\ \E order \in Orders : u \in Expirations(c, order)
   BY RotationOutcome DEF c
<1> QED
   BY <1>3, <1>4, <1>5

(* A step that makes and takes no archive. *)
KeepsArchives == s'.archives = s.archives /\ s'.num \in {s.num, 0} /\ (s.log \in Logs => s'.log \in Logs)

(* A step that rotates. *)
Rotated == \E t \in Rotations(s) :
              /\ s.num < MaxNum
              /\ s'.archives = t.archives /\ s'.num = t.num /\ s'.failed = t.failed
              /\ s'.stuck = t.stuck /\ s'.log = t.log /\ s'.path = t.path

(* Only rotations make archives or take some. *)
LEMMA OnlyRotationsArchive ==
   ASSUME SinkInv, s.kind = "FileRotateSink", RotateNext
   PROVE  (log.disturbed => log'.disturbed) /\ (KeepsArchives \/ Rotated)
<1>1. /\ RotateSinkInv /\ RotateInv(s) /\ IsRotateSink(s) /\ IsPrepared(s) /\ IsStream(s)
      /\ RotateMembers \subseteq DOMAIN s /\ LogOK /\ clock \in Nat /\ s.num \in Nat
   BY Kinds DEF RotateSinkInv, RotateInv, IsRotateSink, IsPrepared, SinkInv
<1>2. Called => log'.disturbed = log.disturbed
   BY <1>1, CalledResult DEF Called
<1>3. ASSUME s'.archives = s.archives, s'.num = s.num, s'.log = s.log
      PROVE  KeepsArchives
   BY <1>1, <1>3 DEF KeepsArchives
<1>4. CASE FileWrite
   <2> DEFINE m == log.accepted + 1
   <2>1. m \in Messages /\ m \in Items /\ log' = [log EXCEPT !.accepted = m]
      BY <1>4 DEF FileWrite, Items
   <2>2. log'.disturbed = log.disturbed
      BY <1>1, <2>1 DEF LogOK
   <2>3. CASE UNCHANGED s
      BY <1>3, <2>2, <2>3
   <2>4. ASSUME NEW t, RotateInv(t), s' = Written(t, m)
         PROVE  /\ s'.archives = t.archives /\ s'.num = t.num /\ s'.failed = t.failed
                /\ s'.stuck = t.stuck /\ s'.log = t.log /\ s'.path = t.path
      BY <2>1, <2>4, WrittenResult DEF SameSettings
   <2> HIDE DEF m
   <2>5. CASE s' = Written(s, m)
      BY <1>1, <1>3, <2>2, <2>4, <2>5
   <2>6. ASSUME s.num < MaxNum, NEW t \in Rotations(s), s' = Written(t, m)
         PROVE  Rotated
      <3>1. RotateInv(t)
         BY <1>1, RotationResult
      <3> QED
         BY <2>4, <2>6, <3>1 DEF Rotated
   <2> QED
      BY <1>4, <2>2, <2>3, <2>5, <2>6 DEF FileWrite, m
<1>5. CASE RotateLog
   BY <1>2, <1>5 DEF RotateLog, Rotated
<1>6. CASE Flush
   BY <1>1, <1>2, <1>3, <1>6, FlushedKeeps DEF Flush, SameSettings
<1>7. CASE SetLogSizeCounter
   BY <1>1, <1>2, <1>3, <1>7, CountedResult DEF SetLogSizeCounter, SameSettings
<1>8. ASSUME NEW change \in Changes, ChangeLogFile(change.dir, change.name)
      PROVE  (log.disturbed => log'.disturbed) /\ (KeepsArchives \/ Rotated)
   <2> DEFINE l == [dir |-> change.dir, name |-> IF change.name = <<>> THEN s.log.name ELSE change.name]
   <2>1. Called /\ (s' = ChangedTo(s, l) \/ s' = Written(s, Refusal))
      BY <1>8 DEF ChangeLogFile, ChangedTo, Changed
   <2>2. s.log \in Logs => l \in Logs
      BY DEF Logs
   <2> HIDE DEF l
   <2>3. CASE s' = ChangedTo(s, l)
      <3>1. s'.archives = s.archives /\ s'.num = s.num /\ s'.log = l
         BY <1>1, <2>3, ChangedToResult DEF SameSettings
      <3> QED
         BY <1>1, <1>2, <2>1, <2>2, <3>1 DEF KeepsArchives
   <2>4. CASE s' = Written(s, Refusal)
      BY <1>1, <1>2, <1>3, <2>1, <2>4, TextItems, WrittenText DEF SameSettings
   <2> QED
      BY <2>1, <2>3, <2>4
<1>9. CASE Called /\ (\/ \E max \in Sizes : s' = [s EXCEPT !.max = max]
                      \/ \E count \in Counts : s' = [s EXCEPT !.count = count])
   BY <1>1, <1>2, <1>3, <1>9 DEF RotateMembers
<1>10. ASSUME NEW p \in Policies, SetFlushPolicy(p)
       PROVE  (log.disturbed => log'.disturbed) /\ (KeepsArchives \/ Rotated)
   <2> DEFINE f == Flushed(s)
   <2>1. f.archives = s.archives /\ f.num = s.num /\ f.log = s.log
      BY <1>1, FlushedKeeps DEF SameSettings
   <2>2. Called /\ s' = [f EXCEPT !.policy = p, !.counter = p]
      BY <1>10 DEF SetFlushPolicy
   <2> HIDE DEF f
   <2>3. s'.archives = f.archives /\ s'.num = f.num /\ s'.log = f.log
      BY <2>2
   <2> QED
      BY <1>2, <1>3, <2>1, <2>2, <2>3
<1>11. ASSUME NEW killed \in BOOLEAN, NEW start \in Starts, RotateRestart(killed, start)
       PROVE  (log.disturbed => log'.disturbed) /\ (KeepsArchives \/ Rotated)
   <2> DEFINE t == Stopped(s, killed)
              changed == {"open", "bad", "buf", "files", "lost", "missed"}
              d == log.disturbed \/ \E a \in s.archives : a.time = clock
   <2>1. IsStream(t) /\ Same(s, t, changed)
      BY <1>1, StoppedResult
   <2>2. s' = Constructed(t, start)
      BY <1>11 DEF RotateRestart, Stopped
   <2> HIDE DEF t
   <2>3. SameSettings(s, t) /\ IsPrepared(t)
      BY <1>1, <2>1, StreamOnly
   <2>4. /\ s'.archives = t.archives /\ s'.num = 0
         /\ s'.log = [dir |-> start.dir, name |-> prefixSanityFix(start.name)]
      BY <2>2, <2>3, ConstructedResult
   <2>5. s'.log \in Logs
      BY <2>4 DEF Logs
   <2>6. log' = [log EXCEPT !.starts = log.starts + 1, !.disturbed = d]
      BY <1>11 DEF RotateRestart
   <2>7. log.disturbed => d
      OBVIOUS
   <2> HIDE DEF d
   <2>8. log'.disturbed = d
      BY <1>1, <2>6 DEF LogOK
   <2> QED
      BY <1>1, <2>3, <2>4, <2>5, <2>7, <2>8 DEF KeepsArchives, SameSettings
<1> QED
   BY <1>4, <1>5, <1>6, <1>7, <1>8, <1>9, <1>10, <1>11
   DEF RotateNext, SetMaxLogSize, SetMaxArchiveLogCount

(* The invariant of the names: until local time has gone back no two archives  *)
(* have one name, and the number in a name is below the next one.              *)
NamesInv == Rotates /\ ~log.disturbed => Named(s)

(* There is no archive at the start. *)
LEMMA NamesAtFirst == Init => NamesInv
<1>1. RotateInit => NamesInv
   BY RotateInitHolds, FS_EmptySet DEF NamesInv, Named
<1>2. FileSinkInit => NamesInv
   BY FileSinkInitHolds DEF NamesInv, Rotates
<1> QED
   BY <1>1, <1>2 DEF Init

(* What a step does to the names and the archives. *)
NewestStep == Rotates /\ ~log'.disturbed => StaysNewest(s, s')

(* A step without a rotation. *)
LEMMA NoRotationStep ==
   ASSUME NamesInv, SinkInv, s.kind = "FileRotateSink",
          log.disturbed => log'.disturbed, KeepsArchives
   PROVE  NamesInv' /\ NewestStep
<1>1. s.num \in Nat /\ log.disturbed \in BOOLEAN
   BY Kinds DEF RotateSinkInv, RotateInv, IsRotateSink, IsPrepared, SinkInv, LogOK
<1>2. NamesInv'
   <2> SUFFICES ASSUME ~log'.disturbed
                PROVE  Named(s')
      BY DEF NamesInv
   <2>1. Named(s)
      BY DEF NamesInv, Rotates
   <2>2. s'.log \in Logs /\ s'.archives \subseteq s.archives
      BY <2>1 DEF KeepsArchives, Named
   <2> QED
      BY <2>1, <2>2, FewerNamed
<1>3. NewestStep
   <2>1. s.archives \ s'.archives = {} /\ ~(s'.num > s.num)
      BY <1>1 DEF KeepsArchives
   <2> QED
      BY <2>1 DEF NewestStep, StaysNewest
<1> QED
   BY <1>2, <1>3

(* A step with a rotation. *)
LEMMA RotationStep ==
   ASSUME NamesInv, SinkInv, OrderInv, s.kind = "FileRotateSink",
          log.disturbed => log'.disturbed, Rotated
   PROVE  NamesInv' /\ NewestStep
<1> SUFFICES ASSUME ~log'.disturbed
             PROVE  Named(s') /\ StaysNewest(s, s')
   BY DEF NamesInv, NewestStep
<1>1. /\ RotateInv(s) /\ Named(s) /\ clock \in Nat /\ ArchivesInv(s, clock)
      /\ \A m, n \in Messages : Reads(s, m, n) => m < n
   BY Kinds DEF NamesInv, Rotates, SinkInv, RotateSinkInv, OrderInv, Reads
<1>2. PICK t \in Rotations(s) :
         /\ s.num < MaxNum
         /\ s'.archives = t.archives /\ s'.num = t.num /\ s'.failed = t.failed
         /\ s'.stuck = t.stuck /\ s'.log = t.log /\ s'.path = t.path
   BY DEF Rotated
<1>3. Named(t) /\ StaysNewest(s, t)
   BY <1>1, <1>2, RotationExpires
<1>4. Named(s')
   BY <1>2, <1>3 DEF Named
<1>5. StaysNewest(s, s')
   BY <1>2, <1>3 DEF StaysNewest, ArchivesAt
<1> QED
   BY <1>4, <1>5

(* The device and the clock make and take no archive. *)
LEMMA EnvironmentArchives ==
   ASSUME SinkInv, s.kind = "FileRotateSink", Environment \/ UNCHANGED vars
   PROVE  (log.disturbed => log'.disturbed) /\ KeepsArchives /\ s'.kind = "FileRotateSink"
<1>1. /\ IsStream(s) /\ LogOK /\ RotateMembers \subseteq DOMAIN s /\ s.num \in Nat
   BY Kinds DEF SinkInv, RotateSinkInv, RotateInv, IsRotateSink, IsPrepared
<1>2. ASSUME s'.archives = s.archives, s'.num = s.num, s'.log = s.log
      PROVE  KeepsArchives
   BY <1>1, <1>2 DEF KeepsArchives
<1>3. CASE StreamFlush
   <2>1. Same(s, s', {"bad", "buf", "files"})
      BY <1>1, <1>3, FlushedResult DEF StreamFlush
   <2>2. s'.kind = s.kind /\ s'.archives = s.archives /\ s'.num = s.num /\ s'.log = s.log
      BY <1>1, <2>1 DEF Same, IsStream, StreamFields, RotateMembers
   <2> QED
      BY <1>2, <1>3, <2>2 DEF StreamFlush
<1>4. CASE Tick \/ UNCHANGED vars
   BY <1>2, <1>4 DEF Tick, vars
<1>5. CASE ClockBack
   <2>1. log' = [log EXCEPT !.calls = log.calls + 1, !.disturbed = TRUE]
      BY <1>5 DEF ClockBack
   <2>2. log'.disturbed = TRUE
      BY <1>1, <2>1 DEF LogOK
   <2> QED
      BY <1>2, <1>5, <2>2 DEF ClockBack
<1>6. CASE DeviceFull \/ DeviceFreed
   <2>1. s'.kind = s.kind /\ s'.archives = s.archives /\ s'.num = s.num /\ s'.log = s.log
      BY <1>1, <1>6 DEF DeviceFull, DeviceFreed, IsStream, StreamFields, RotateMembers
   <2>2. log'.disturbed = log.disturbed
      BY <1>1, <1>6 DEF DeviceFull, DeviceFreed, LogOK
   <2> QED
      BY <1>2, <2>1, <2>2
<1> QED
   BY <1>3, <1>4, <1>5, <1>6 DEF Environment

(* Each step keeps the names, and takes only archives that NewestStay lets go. *)
LEMMA NamesStep ==
   ASSUME NamesInv, SinkInv, SinkInv', OrderInv, [Next]_vars
   PROVE  NamesInv' /\ NewestStep
<1>1. CASE s.kind = "FileSink" /\ FileSinkNext
   BY <1>1, FileSinkNextKeeps DEF NamesInv, NewestStep, Rotates
<1>2. CASE s.kind = "FileRotateSink" /\ RotateNext
   <2>1. (log.disturbed => log'.disturbed) /\ (KeepsArchives \/ Rotated)
      BY <1>2, OnlyRotationsArchive
   <2> QED
      BY <1>2, <2>1, NoRotationStep, RotationStep
<1>3. CASE s.kind = "FileRotateSink" /\ (Environment \/ UNCHANGED vars)
   BY <1>3, EnvironmentArchives, NoRotationStep
<1>4. CASE s.kind = "FileSink" /\ (Environment \/ UNCHANGED vars)
   <2>1. s'.kind = "FileSink"
      <3>1. IsStream(s)
         BY <1>4, Kinds DEF FileSinkInv, IsFileSink
      <3>2. CASE StreamFlush
         <4>1. Same(s, s', {"bad", "buf", "files"})
            BY <3>1, <3>2, FlushedResult DEF StreamFlush
         <4> QED
            BY <1>4, <3>1, <4>1 DEF Same, IsStream, StreamFields
      <3>3. CASE DeviceFull \/ DeviceFreed
         BY <1>4, <3>1, <3>3 DEF DeviceFull, DeviceFreed, IsStream, StreamFields
      <3>4. CASE UNCHANGED s
         BY <1>4, <3>4
      <3> QED
         BY <1>4, <3>2, <3>3, <3>4 DEF Environment, Tick, ClockBack, vars
   <2> QED
      BY <1>4, <2>1 DEF NamesInv, NewestStep, Rotates
<1>5. s.kind \in {"FileRotateSink", "FileSink"}
   BY Kinds
<1> QED
   BY <1>1, <1>2, <1>3, <1>4, <1>5 DEF Next

(* Archives are deleted, or tried to be, only when newer ones that pass for    *)
(* archives of the same log are enough to keep, the oldest first; a rotation   *)
(* leaves no more than that besides those that it could not delete.            *)
THEOREM ExpiresTheOldest == Spec => NewestStay
<1>1. NamesInv /\ SinkInv /\ SinkInv' /\ OrderInv /\ [Next]_vars => NamesInv' /\ NewestStep
   BY NamesStep
<1>2. Spec => [][NewestStep]_vars
   BY NamesAtFirst, Invariant, KeepsTheOrder, <1>1, PTL DEF Spec
<1> QED
   BY <1>2, PTL DEF NewestStay, NewestStep, StaysNewest, Before
================================================================================
