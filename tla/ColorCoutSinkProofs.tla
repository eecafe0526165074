-------------------------- MODULE ColorCoutSinkProofs --------------------------
(******************************************************************************)
(* Proofs about ColorCoutSink, for any sinks, schemes, entries and colours of *)
(* the console: that a text is printed whole, that the terminal is left as it *)
(* was found, and that an entry looks as the Settings ask.  What a scheme has *)
(* is computed by folds: that a fold over n elements is n steps, and that n   *)
(* steps do what they should, is shown by the least number where they do not. *)
(******************************************************************************)
EXTENDS ColorCoutSink, SequenceTheorems, NaturalsInduction, WellFoundedInduction, TLAPS

--------------------------------------------------------------------------------
(* Texts *)

(* The least element of a set of numbers. *)
LEMMA MinResult ==
   ASSUME NEW S \in SUBSET Nat, S # {}
   PROVE  Min(S) \in S /\ \A y \in S : Min(S) <= y
<1> DEFINE R == OpToRel(<, Nat)
<1>1. IsWellFoundedOn(R, Nat)
   BY NatLessThanWellFounded
<1>2. R = {pair \in Nat \X Nat : pair[1] < pair[2]}
   BY DEF OpToRel
<1> HIDE DEF R
<1>3. PICK x \in S : \A y \in S : ~ (<<y, x>> \in R)
   BY <1>1, WFMin
<1>4. ASSUME NEW y \in S PROVE x <= y
   <2>1. x \in Nat /\ y \in Nat /\ ~ (<<y, x>> \in R)
      BY <1>3
   <2> QED
      BY <1>2, <2>1
<1> QED
   BY <1>4 DEF Min

(* A C string has no Nul; one without Nul passes as it is. *)
LEMMA CStringResult ==
   ASSUME NEW S, NEW text \in Seq(S)
   PROVE  /\ CString(text) \in Seq(S \ {Nul})
          /\ Nul \notin ToSet(text) => CString(text) = text
<1> DEFINE ends == {i \in 1..Len(text) : text[i] = Nul}
<1>1. Len(text) \in Nat /\ DOMAIN text = 1..Len(text) /\ \A i \in 1..Len(text) : text[i] \in S
   OBVIOUS
<1>2. CASE ends = {}
   <2>1. CString(text) = text
      BY <1>2 DEF CString
   <2>2. \A i \in 1..Len(text) : text[i] \in S \ {Nul}
      BY <1>1, <1>2
   <2>3. text \in Seq(S \ {Nul})
      BY <1>1, <2>2
   <2> QED
      BY <2>1, <2>3
<1>3. CASE ends # {}
   <2> DEFINE n == Min(ends) - 1
              t == SubSeq(text, 1, n)
   <2>1. Min(ends) \in ends /\ \A i \in ends : Min(ends) <= i
      <3>1. ends \in SUBSET Nat
         BY <1>1
      <3> HIDE DEF ends
      <3> QED
         BY <1>3, <3>1, MinResult
   <2>2. n \in 0..Len(text) /\ \A i \in 1..n : i \notin ends
      <3>1. Min(ends) \in 1..Len(text)
         BY <2>1
      <3> HIDE DEF ends
      <3>2. n \in 0..Len(text) /\ n + 1 = Min(ends)
         BY <1>1, <3>1
      <3>3. ASSUME NEW i \in 1..n, i \in ends
            PROVE  FALSE
         <4>1. Min(ends) <= i /\ i <= n /\ i \in Int /\ n \in Int
            BY <2>1, <3>2, <3>3
         <4> HIDE DEF n
         <4> QED
            BY <3>2, <4>1
      <3> QED
         BY <3>2, <3>3
   <2>3. CString(text) = t
      BY <1>3 DEF CString
   <2>4. Nul \in ToSet(text)
      BY <1>1, <2>1 DEF ToSet
   <2> HIDE DEF n
   <2>5. Len(t) = n /\ t \in Seq(S) /\ \A i \in 1..n : t[i] = text[i]
      BY <1>1, <2>2
   <2>6. \A i \in 1..n : t[i] \in S \ {Nul}
      BY <1>1, <2>2, <2>5
   <2> HIDE DEF t
   <2>7. t \in Seq(S \ {Nul})
      BY <2>2, <2>5, <2>6
   <2> QED
      BY <2>3, <2>4, <2>7
<1> QED
   BY <1>2, <1>3

(* A text without Nul. *)
LEMMA WithoutNul ==
   ASSUME NEW S, NEW text \in Seq(S \ {Nul})
   PROVE  Nul \notin ToSet(text) /\ text \in Seq(S) /\ CString(text) = text
<1>1. Nul \notin ToSet(text)
   BY DEF ToSet
<1>2. CString(text) = text
   BY <1>1, CStringResult
<1> QED
   BY <1>1, <1>2

(* The last piece of a text that ends a line. *)
LEMMA FrontResult ==
   ASSUME NEW S, NEW text \in Seq(S), NEW last \in S
   PROVE  Front(Append(text, last)) = text
   BY DEF Front

(* A part of a text in its place. *)
LEMMA InItsPlace ==
   ASSUME NEW S, NEW a \in Seq(S), NEW b \in Seq(S), NEW c \in Seq(S)
   PROVE  LET text == a \o b \o c IN
          /\ text \in Seq(S)
          /\ Len(text) = Len(a) + Len(b) + Len(c)
          /\ SubSeq(text, Len(a) + 1, Len(a) + Len(b)) = b
          /\ ToSet(b) \subseteq ToSet(text)
<1> DEFINE text == a \o b \o c
           part == SubSeq(text, Len(a) + 1, Len(a) + Len(b))
<1>1. /\ Len(a) \in Nat /\ Len(b) \in Nat /\ Len(c) \in Nat
      /\ a \o b \in Seq(S) /\ Len(a \o b) = Len(a) + Len(b)
      /\ \A i \in 1..Len(b) : (a \o b)[Len(a) + i] = b[i]
   OBVIOUS
<1>2. /\ text \in Seq(S) /\ Len(text) = Len(a) + Len(b) + Len(c)
      /\ \A i \in 1..(Len(a) + Len(b)) : text[i] = (a \o b)[i]
   BY <1>1
<1>3. \A i \in 1..Len(b) : text[Len(a) + i] = b[i] /\ Len(a) + i \in 1..Len(text)
   BY <1>1, <1>2
<1> HIDE DEF text
<1>4. Len(part) = Len(b) /\ part \in Seq(S) /\ \A i \in 1..Len(b) : part[i] = text[Len(a) + i]
   BY <1>1, <1>2
<1> HIDE DEF part
<1>5. part = b
   <2>1. \A i \in 1..Len(b) : part[i] = b[i]
      BY <1>3, <1>4
   <2> QED
      BY <1>1, <1>4, <2>1
<1>6. ToSet(b) \subseteq ToSet(text)
   <2>1. DOMAIN b = 1..Len(b) /\ DOMAIN text = 1..Len(text)
      BY <1>2
   <2> QED
      BY <1>3, <2>1 DEF ToSet
<1> QED
   BY <1>2, <1>5, <1>6 DEF text, part

(* What is in a text besides what the program wrote, and all that is in it. *)
Others(entry) == Added \cup {Nl, entry.level.text, entry.expression}
Pieces(entry) == Others(entry) \cup ToSet(entry.text)

(* Of all this only the text of the entry may have Nul in it. *)
LEMMA OthersResult ==
   ASSUME NEW entry, IsEntry(entry)
   PROVE  Others(entry) \subseteq Pieces(entry) \ {Nul}
   BY LogMessageAssumption DEF IsEntry, Others, Pieces

(* What fits into the buffer is a part of the text. *)
LEMMA BufferedResult ==
   ASSUME NEW S, NEW text \in Seq(S)
   PROVE  Buffered(text) \in Seq(S)
<1> DEFINE both == {Len(text), MaxMessageSize - 1}
           n == Min(both)
<1>1. Len(text) \in Nat /\ MaxMessageSize - 1 \in Nat
   BY LogMessageAssumption
<1>2. both \in SUBSET Nat /\ Len(text) \in both /\ both # {}
   BY <1>1
<1>3. Buffered(text) = SubSeq(text, 1, n)
   BY DEF Buffered
<1> HIDE DEF both
<1>4. n \in Nat /\ n <= Len(text)
   BY <1>2, MinResult
<1> HIDE DEF n
<1>5. SubSeq(text, 1, n) \in Seq(S)
   BY <1>1, <1>4
<1> QED
   BY <1>3, <1>5

(* What a LogCapture has, as a C string: what was logged, or it says that it   *)
(* is not.                                                                     *)
LEMMA CapturedResult ==
   ASSUME NEW entry, IsEntry(entry), NEW onWindows \in BOOLEAN
   PROVE  LET text == CString(Captured(entry, onWindows)) IN
          /\ text \in Seq(Pieces(entry) \ {Nul})
          /\ text = CString(entry.text) \/ ToSet(text) \cap {Truncated, ParseFailure} # {}
<1> DEFINE P == Pieces(entry)
           captured == Captured(entry, onWindows)
           text == CString(captured)
<1>1. entry.text \in Seq(P) /\ entry.by \in {"stream", "printf"} /\ entry.valid \in BOOLEAN
   <2>1. entry.text \in Seq(ToSet(entry.text)) /\ ToSet(entry.text) \subseteq P
      BY DEF IsEntry, Pieces
   <2> QED
      BY <2>1 DEF IsEntry
<1>2. {Nl, Truncated, ParseFailure} \subseteq P \ {Nul}
   BY OthersResult DEF Others, Added
<1> HIDE DEF P
<1>3. ASSUME captured \in Seq(P)
      PROVE  text \in Seq(P \ {Nul})
   BY <1>3, CStringResult
<1>4. CASE entry.by = "stream"
   <2>1. captured = entry.text
      BY <1>4 DEF Captured
   <2> QED
      BY <1>1, <1>3, <2>1 DEF P
<1>5. CASE entry.by = "printf"
   <2>1. captured = Capturef(entry.text, entry.valid, onWindows)
      BY <1>5 DEF Captured
   <2> DEFINE fits == Len(entry.text) < MaxMessageSize
   <2>2. CASE ~entry.valid \/ (onWindows /\ ~fits)
      <3>1. captured = <<ParseFailure, Nl>>
         BY <2>1, <2>2 DEF Capturef
      <3>2. captured \in Seq(P \ {Nul})
         BY <1>2, <3>1
      <3>3. text = captured
         BY <3>2, WithoutNul
      <3>4. 1 \in DOMAIN captured /\ captured[1] = ParseFailure
         BY <3>1
      <3>5. ParseFailure \in ToSet(captured)
         BY <3>4 DEF ToSet
      <3> QED
         BY <3>2, <3>3, <3>5 DEF P
   <2>3. CASE entry.valid /\ ~fits /\ ~onWindows
      <3> DEFINE cut == CString(Buffered(entry.text))
      <3>1. captured = Append(cut, Truncated)
         <4>1. captured = cut \o <<Truncated>>
            BY <2>1, <2>3 DEF Capturef
         <4>2. Buffered(entry.text) \in Seq(P)
            BY <1>1, BufferedResult
         <4>3. cut \in Seq(P \ {Nul})
            BY <4>2, CStringResult
         <4> HIDE DEF cut
         <4> QED
            BY <4>1, <4>3
      <3>2. cut \in Seq(P \ {Nul})
         <4>1. Buffered(entry.text) \in Seq(P)
            BY <1>1, BufferedResult
         <4> QED
            BY <4>1, CStringResult
      <3> HIDE DEF cut
      <3>3. captured \in Seq(P \ {Nul}) /\ captured[Len(captured)] = Truncated
            /\ Len(captured) \in DOMAIN captured
         BY <1>2, <3>1, <3>2
      <3>4. text = captured /\ Truncated \in ToSet(captured)
         BY <3>3, WithoutNul DEF ToSet
      <3> QED
         BY <3>3, <3>4 DEF P
   <2>4. CASE entry.valid /\ fits
      <3>1. captured = CString(entry.text)
         BY <2>1, <2>4 DEF Capturef
      <3>2. captured \in Seq(P \ {Nul})
         BY <1>1, <3>1, CStringResult
      <3>3. text = captured
         BY <3>2, WithoutNul
      <3> QED
         BY <3>1, <3>2, <3>3 DEF P
   <2> QED
      BY <1>1, <2>2, <2>3, <2>4
<1> QED
   BY <1>1, <1>4, <1>5

(* What the sinks get has this text, and more behind it. *)
LEMMA SentResult ==
   ASSUME NEW entry, IsEntry(entry), NEW onWindows \in BOOLEAN
   PROVE  LET msg == Sent(entry, onWindows) IN
          /\ msg.level = entry.level /\ msg.expression = entry.expression
          /\ \E rest \in Seq(Others(entry)) : msg.message = CString(Captured(entry, onWindows)) \o rest
<1> DEFINE P == Pieces(entry)
           Q == Others(entry)
           text == CString(Captured(entry, onWindows))
           saved == SaveMessage(entry, Captured(entry, onWindows))
           msg == Sent(entry, onWindows)
<1>1. text \in Seq(P)
   <2>1. text \in Seq(P \ {Nul})
      BY CapturedResult
   <2> HIDE DEF P, text
   <2> QED
      BY <2>1, WithoutNul
<1>2. {Nl, StackDump, Exiting, entry.level.text} \subseteq Q /\ Q \subseteq P
   BY DEF Others, Added, Pieces
<1>3. saved = [level |-> entry.level, expression |-> entry.expression,
               message |-> text \o StackTrace(entry.level)]
   BY DEF SaveMessage
<1>4. StackTrace(entry.level) \in Seq(Q)
   BY <1>2 DEF StackTrace
<1> HIDE DEF P, Q, text, saved
<1>5. CASE WasFatal(entry.level)
   <2> DEFINE last == <<Nl, Exiting, entry.level.text, Nl, Nl>>
   <2>1. msg = [saved EXCEPT !.message = @ \o <<Nl, Exiting, saved.level.text, Nl, Nl>>]
      BY <1>5 DEF Sent, BgFatal, saved
   <2>2. msg.level = entry.level /\ msg.expression = entry.expression
         /\ msg.message = (text \o StackTrace(entry.level)) \o last
      BY <1>3, <2>1
   <2>3. last \in Seq(Q)
      BY <1>2
   <2> HIDE DEF last
   <2>4. StackTrace(entry.level) \in Seq(P) /\ last \in Seq(P)
      BY <1>2, <1>4, <2>3
   <2>5. (text \o StackTrace(entry.level)) \o last = text \o (StackTrace(entry.level) \o last)
      BY <1>1, <2>4
   <2>6. StackTrace(entry.level) \o last \in Seq(Q)
      BY <1>4, <2>3
   <2> QED
      BY <2>2, <2>5, <2>6 DEF text, Q
<1>6. CASE ~WasFatal(entry.level)
   <2>1. msg = saved
      BY <1>6 DEF Sent, saved
   <2>2. msg.level = entry.level /\ msg.expression = entry.expression
         /\ msg.message = text \o StackTrace(entry.level)
      BY <1>3, <2>1
   <2> HIDE DEF msg
   <2> QED
      BY <1>4, <2>2 DEF text, Q, msg
<1> QED
   BY <1>5, <1>6

(* A few pieces are a text. *)
LEMMA FewPieces ==
   ASSUME NEW S, NEW a \in S, NEW b \in S, NEW c \in S, NEW d \in S, NEW e \in S, NEW f \in S
   PROVE  /\ <<a, b>> \in Seq(S) /\ <<a, b, c>> \in Seq(S) /\ <<a, b, c, d>> \in Seq(S)
          /\ <<a, b, c, d, e>> \in Seq(S) /\ <<a, b, c, d, e, f>> \in Seq(S)
   OBVIOUS

(* What is printed of an entry: this text with g3log's around it, and the end  *)
(* of a line.                                                                  *)
LEMMA ToStringResult ==
   ASSUME NEW entry, IsEntry(entry), NEW onWindows \in BOOLEAN, NEW func \in LogDetailsFuncs
   PROVE  LET text == CString(Captured(entry, onWindows)) IN
          \E head, tail \in Seq(Others(entry)) :
             toString(Sent(entry, onWindows), func) = Append(head \o text \o tail, Nl)
<1> DEFINE P == Pieces(entry)
           Q == Others(entry)
           text == CString(Captured(entry, onWindows))
           msg == Sent(entry, onWindows)
<1>1. text \in Seq(P)
   <2>1. text \in Seq(P \ {Nul})
      BY CapturedResult
   <2> HIDE DEF P, text
   <2> QED
      BY <2>1, WithoutNul
<1>2. PICK rest \in Seq(Q) : msg.message = text \o rest
   BY SentResult
<1>3. msg.level = entry.level /\ msg.expression = entry.expression
   BY SentResult
<1>4. /\ Added \subseteq Q /\ {Nl, entry.level.text, entry.expression} \subseteq Q /\ Q \subseteq P
      /\ ToSet(Where) \subseteq Q
   BY DEF Others, Pieces, Added
<1> HIDE DEF P, Q, text, msg
<1>5. Where \in Seq(Q)
   <2>1. Where \in Seq(ToSet(Where))
      <3>1. Where = [i \in 1..6 |-> Where[i]]
         BY DEF Where
      <3>2. DOMAIN Where = 1..6 /\ \A i \in 1..6 : Where[i] \in ToSet(Where)
         BY <3>1 DEF ToSet
      <3> QED
         BY <3>1, <3>2
   <2> QED
      BY <1>4, <2>1
<1>6. LogDetails(func, msg) \in Seq(Q)
   <2>1. {Timestamp, " ", "threadID", entry.level.text} \subseteq Q
      BY <1>4 DEF Added
   <2> DEFINE short == <<Timestamp, " ", entry.level.text, " ">>
              long == <<Timestamp, " ", entry.level.text, " ", "threadID", " ">>
   <2>2. short \in Seq(Q) /\ long \in Seq(Q)
      <3>1. Timestamp \in Q /\ " " \in Q /\ "threadID" \in Q /\ entry.level.text \in Q
         BY <2>1
      <3> QED
         BY <3>1, FewPieces
   <2>3. LogDetails(func, msg) = short \o Where \/ LogDetails(func, msg) = long \o Where
      BY <1>3 DEF LogDetails, LogDetailsFuncs, DefaultLogDetailsToString, FullLogDetailsToString
   <2> HIDE DEF short, long
   <2>4. short \o Where \in Seq(Q) /\ long \o Where \in Seq(Q)
      BY <1>5, <2>2
   <2> QED
      BY <2>3, <2>4
<1>7. \E head \in Seq(Q) : toString(msg, func) = head \o msg.message \o <<Nl>>
   <2> DEFINE details == LogDetails(func, msg)
              signal == <<Timestamp, Nl, Nl, SignalReceived, Nl>>
              exception == <<Timestamp, Nl, Nl, ExceptionReceived, Nl>>
              byLog == <<Nl, ExitByLog, Nl>>
              byContract == <<Nl, ExitByContract, msg.expression, Nl>>
              unknown == <<UnknownType, Nl>>
   <2> HIDE DEF details
   <2>1. /\ Nl \in Q /\ Timestamp \in Q /\ SignalReceived \in Q /\ ExceptionReceived \in Q
         /\ ExitByLog \in Q /\ ExitByContract \in Q /\ UnknownType \in Q /\ msg.expression \in Q
      BY <1>3, <1>4 DEF Added
   <2>2. /\ signal \in Seq(Q) /\ exception \in Seq(Q) /\ byLog \in Seq(Q) /\ unknown \in Seq(Q)
         /\ byContract \in Seq(Q)
      BY <2>1, FewPieces
   <2>3. toString(msg, func) \in
            {details \o msg.message \o <<Nl>>, signal \o msg.message \o <<Nl>>,
             exception \o msg.message \o <<Nl>>, details \o byLog \o msg.message \o <<Nl>>,
             details \o byContract \o msg.message \o <<Nl>>, details \o unknown \o msg.message \o <<Nl>>}
      <3>1. toString(msg, func) \in {NormalToString(msg, func), FatalSignalToString(msg),
               FatalExceptionToString(msg), FatalLogToString(msg, func), FatalCheckToString(msg, func),
               UnknownToString(msg, func)}
         BY DEF toString
      <3> QED
         BY <3>1 DEF NormalToString, FatalSignalToString, FatalExceptionToString, FatalLogToString,
            FatalCheckToString, UnknownToString, details
   <2>4. details \in Seq(Q)
      BY <1>6 DEF details
   <2> HIDE DEF signal, exception, byLog, byContract, unknown
   <2>5. details \o byLog \in Seq(Q) /\ details \o byContract \in Seq(Q) /\ details \o unknown \in Seq(Q)
      BY <2>2, <2>4
   <2> QED
      BY <2>2, <2>3, <2>4, <2>5
<1>8. PICK head \in Seq(Q) : toString(msg, func) = head \o msg.message \o <<Nl>>
   BY <1>7
<1>9. head \o (text \o rest) \o <<Nl>> = Append(head \o text \o rest, Nl)
   <2>1. head \in Seq(P) /\ rest \in Seq(P)
      BY <1>2, <1>4, <1>8
   <2>2. head \o (text \o rest) = head \o text \o rest
      BY <1>1, <2>1
   <2>3. head \o text \o rest \in Seq(P)
      BY <1>1, <2>1
   <2> DEFINE whole == head \o text \o rest
   <2>4. whole \o <<Nl>> = Append(whole, Nl)
      BY <2>3, <1>4
   <2> QED
      BY <2>2, <2>4
<1>10. toString(msg, func) = Append(head \o text \o rest, Nl)
   BY <1>2, <1>8, <1>9
<1> QED
   BY <1>2, <1>8, <1>10 DEF msg, text, Q

--------------------------------------------------------------------------------
(* The invariant *)

(* The members of a sink. *)
IsSink(sink) ==
   /\ DOMAIN sink = {"stream", "settings", "func", "printing", "scheme", "asked"}
   /\ sink.stream \in {"cout", "cerr"} /\ sink.func \in LogDetailsFuncs
   /\ sink.printing \in [entry : Entries, done : BOOLEAN] \cup {None}

(* A sink is in the middle of printing only on a console without escape        *)
(* sequences.                                                                  *)
SinksInv == \A k \in DOMAIN sinks :
               /\ IsSink(sinks[k])
               /\ sinks[k].printing # None => ~Escapes /\ IsAtty(sinks[k].stream)

(* What initWin has read is what the program found. *)
PlatformInv ==
   /\ windows \in BOOLEAN
   /\ Escapes => found = Plain
   /\ ~Escapes => \A stream \in {"cout", "cerr"} : tty[stream] => defaults[stream] = found

(* On such a console there is one sink at most, and a second one is refused    *)
(* from the first one on.                                                      *)
OnlyOne == ~Escapes => /\ DOMAIN sinks # {} => flag
                       /\ \A j, k \in DOMAIN sinks : j = k

ConsoleInv == /\ PlatformInv /\ SinksInv /\ OnlyOne
              /\ ConsoleRestored
              /\ PrintedWhole

--------------------------------------------------------------------------------
(* What is printed of an entry. *)
LEMMA TextResult ==
   ASSUME NEW k \in DOMAIN sinks, IsSink(sinks[k]), windows \in BOOLEAN, NEW entry \in Entries
   PROVE  LET text == Text(k, entry)
              said == CString(entry.text)
          IN /\ Nul \notin ToSet(Front(text))
             /\ CString(Append(Front(text), Nl)) = text /\ Front(text) \o <<Nl>> = text
             /\ \/ \E i \in 1..(Len(text) - Len(said) + 1) :
                      SubSeq(text, i, i + Len(said) - 1) = said
                \/ ToSet(text) \cap {Truncated, ParseFailure} # {}
<1> DEFINE P == Pieces(entry)
           N == P \ {Nul}
           captured == CString(Captured(entry, windows))
           text == Text(k, entry)
           said == CString(entry.text)
<1>1. IsEntry(entry)
   BY ColorCoutSinkAssumption
<1>2. captured \in Seq(N) /\ (captured = said \/ ToSet(captured) \cap {Truncated, ParseFailure} # {})
   BY <1>1, CapturedResult
<1>3. PICK head, tail \in Seq(Others(entry)) : text = Append(head \o captured \o tail, Nl)
   BY <1>1, ToStringResult DEF IsSink, Text
<1>4. Others(entry) \subseteq N /\ Nl \in N
   BY <1>1, OthersResult DEF Others
<1> HIDE DEF P, N, captured, text
<1>5. head \in Seq(N) /\ tail \in Seq(N) /\ <<Nl>> \in Seq(N)
   BY <1>3, <1>4
<1> DEFINE front == head \o captured \o tail
<1>6. front \in Seq(N) /\ text = Append(front, Nl)
   BY <1>2, <1>3, <1>5
<1>7. /\ Len(text) = Len(head) + Len(captured) + Len(tail \o <<Nl>>)
      /\ SubSeq(text, Len(head) + 1, Len(head) + Len(captured)) = captured
      /\ ToSet(captured) \subseteq ToSet(text)
   <2>1. tail \o <<Nl>> \in Seq(N)
      BY <1>5
   <2>2. text = head \o captured \o (tail \o <<Nl>>)
      <3> DEFINE first == head \o captured
      <3>1. first \in Seq(N)
         BY <1>2, <1>5
      <3> HIDE DEF first
      <3>2. first \o (tail \o <<Nl>>) = (first \o tail) \o <<Nl>>
         BY <1>5, <3>1
      <3>3. first \o tail \in Seq(N)
         BY <1>5, <3>1
      <3>4. Append(first \o tail, Nl) = (first \o tail) \o <<Nl>>
         <4> DEFINE both == first \o tail
         <4>1. both \in Seq(N)
            BY <3>3
         <4> HIDE DEF both
         <4>2. Append(both, Nl) = both \o <<Nl>>
            BY <1>4, <4>1
         <4> QED
            BY <4>2 DEF both
      <3> QED
         BY <1>3, <3>2, <3>4 DEF first
   <2> DEFINE last == tail \o <<Nl>>
   <2>3. last \in Seq(N)
      BY <2>1
   <2> HIDE DEF last
   <2>4. LET all == head \o captured \o last IN
         /\ Len(all) = Len(head) + Len(captured) + Len(last)
         /\ SubSeq(all, Len(head) + 1, Len(head) + Len(captured)) = captured
         /\ ToSet(captured) \subseteq ToSet(all)
      BY <1>2, <1>5, <2>3, InItsPlace
   <2> QED
      BY <2>2, <2>4 DEF last
<1> HIDE DEF front
<1>8. Front(text) = front /\ text \in Seq(N)
   BY <1>4, <1>6, FrontResult
<1>9. Nul \notin ToSet(front) /\ CString(text) = text
   BY <1>6, <1>8, WithoutNul DEF N
<1>10. Append(front, Nl) = text /\ front \o <<Nl>> = text
   BY <1>4, <1>6
<1>11. CASE captured = said
   <2> DEFINE i == Len(head) + 1
   <2>1. Len(head) \in Nat /\ Len(captured) \in Nat /\ Len(tail \o <<Nl>>) \in Nat
      BY <1>2, <1>5
   <2>2. i \in 1..(Len(text) - Len(said) + 1) /\ SubSeq(text, i, i + Len(said) - 1) = said
      BY <1>7, <1>11, <2>1
   <2> QED
      BY <1>8, <1>9, <1>10, <2>2 DEF text
<1>12. CASE ToSet(captured) \cap {Truncated, ParseFailure} # {}
   BY <1>7, <1>8, <1>9, <1>10, <1>12 DEF text
<1> QED
   BY <1>2, <1>11, <1>12

(* A piece that is printed in full. *)
LEMMA PieceResult ==
   ASSUME NEW k \in DOMAIN sinks, IsSink(sinks[k]), windows \in BOOLEAN, NEW entry \in Entries,
          NEW look, piece' = Piece(k, entry, Text(k, entry), look)
   PROVE  PrintedWhole'
<1> DEFINE text == Text(k, entry)
<1>1. piece'.seen = text /\ piece'.whole = text /\ piece'.said = entry.text
   BY DEF Piece
<1> HIDE DEF text
<1> QED
   BY <1>1, TextResult DEF PrintedWhole, text

(* The state of main. *)
LEMMA ConsoleAtFirst == Init => ConsoleInv
<1> SUFFICES ASSUME Init
             PROVE  ConsoleInv
   OBVIOUS
<1>1. DOMAIN sinks = {} /\ console = found /\ piece = None /\ windows \in BOOLEAN
   BY DEF Init
<1>2. PICK colours : defaults = InitWin(colours) /\ found = IF Escapes THEN Plain ELSE colours
   BY DEF Init
<1>3. PlatformInv
   BY <1>1, <1>2 DEF PlatformInv, InitWin, Escapes
<1> QED
   BY <1>1, <1>3 DEF ConsoleInv, SinksInv, OnlyOne, ConsoleRestored, PrintedWhole

--------------------------------------------------------------------------------
(* The steps *)

(* What the steps leave as it is. *)
LEMMA PlatformKept ==
   ASSUME PlatformInv, UNCHANGED platform
   PROVE  PlatformInv' /\ (Escapes' <=> Escapes) /\ tty' = tty
   BY DEF PlatformInv, platform, Escapes

(* One sink is built or changed, and the others stay. *)
LEMMA SinksStep ==
   ASSUME SinksInv, UNCHANGED platform, NEW k, NEW sink, IsSink(sink),
          sink.printing # None => ~Escapes /\ IsAtty(sink.stream),
          sinks' = [j \in DOMAIN sinks \cup {k} |-> IF j = k THEN sink ELSE sinks[j]]
   PROVE  SinksInv'
<1>1. (Escapes' <=> Escapes) /\ tty' = tty
   BY DEF platform, Escapes
<1>2. /\ DOMAIN sinks' = DOMAIN sinks \cup {k} /\ sinks'[k] = sink
      /\ \A j \in DOMAIN sinks \ {k} : sinks'[j] = sinks[j]
   OBVIOUS
<1>3. ASSUME NEW j \in DOMAIN sinks'
      PROVE  /\ IsSink(sinks'[j])
             /\ sinks'[j].printing # None => ~Escapes /\ IsAtty(sinks'[j].stream)
   <2>1. CASE j = k
      BY <1>2, <2>1
   <2>2. CASE j # k
      BY <1>2, <1>3, <2>2 DEF SinksInv
   <2> QED
      BY <2>1, <2>2
<1> QED
   BY <1>1, <1>3 DEF SinksInv, IsAtty

(* A constructor *)
LEMMA ConstructKeeps ==
   ASSUME ConsoleInv, NEW k \in Sinks, NEW stream \in Streams, NEW settings, Construct(k, stream, settings)
   PROVE  ConsoleInv'
<1>1. PlatformInv' /\ (Escapes' <=> Escapes)
   BY PlatformKept DEF ConsoleInv, Construct
<1>2. PrintedWhole'
   BY DEF Construct, PrintedWhole
<1>3. UNCHANGED <<platform, console>> /\ found' = found /\ k \notin DOMAIN sinks
   BY DEF Construct, platform, Alive
<1>4. CASE stream \in {"cout", "cerr"} /\ Builds
   <2> DEFINE sink == NewSink(stream, settings)
   <2>1. IsSink(sink) /\ sink.printing = None
      BY <1>4 DEF IsSink, LogDetailsFuncs, NewSink
   <2>2. sinks' = [j \in DOMAIN sinks \cup {k} |-> IF j = k THEN sink ELSE sinks[j]]
         /\ flag' = (flag \/ ~Escapes)
      BY <1>4 DEF Construct
   <2> HIDE DEF sink
   <2>3. SinksInv'
      BY <1>3, <2>1, <2>2, SinksStep DEF ConsoleInv
   <2>4. DOMAIN sinks' = DOMAIN sinks \cup {k} /\ \A j \in DOMAIN sinks : sinks'[j] = sinks[j]
      BY <1>3, <2>2
   <2>5. OnlyOne'
      BY <1>1, <1>4, <2>2, <2>4 DEF ConsoleInv, OnlyOne, Builds
   <2>6. ConsoleRestored'
      BY <1>3, <2>4 DEF ConsoleInv, ConsoleRestored, Idle, Alive
   <2> QED
      BY <1>1, <1>2, <2>3, <2>5, <2>6 DEF ConsoleInv
<1>5. CASE ~(stream \in {"cout", "cerr"} /\ Builds)
   <2>1. sinks' = sinks /\ (flag => flag')
      BY <1>5 DEF Construct
   <2>2. SinksInv'
      BY <1>3, <2>1 DEF ConsoleInv, SinksInv, platform, Escapes, IsAtty
   <2>3. OnlyOne'
      BY <1>1, <2>1 DEF ConsoleInv, OnlyOne
   <2>4. ConsoleRestored'
      BY <1>3, <2>1 DEF ConsoleInv, ConsoleRestored, Idle, Alive
   <2> QED
      BY <1>1, <1>2, <2>2, <2>3, <2>4 DEF ConsoleInv
<1> QED
   BY <1>4, <1>5

(* EXCEPT on a sink that is there. *)
LEMMA SinkChanged ==
   ASSUME NEW k \in DOMAIN sinks, NEW sink, sinks' = [sinks EXCEPT ![k] = sink]
   PROVE  /\ sinks' = [j \in DOMAIN sinks \cup {k} |-> IF j = k THEN sink ELSE sinks[j]]
          /\ DOMAIN sinks' = DOMAIN sinks /\ sinks'[k] = sink
          /\ \A j \in DOMAIN sinks \ {k} : sinks'[j] = sinks[j]
<1>1. DOMAIN sinks = DOMAIN sinks \cup {k}
   OBVIOUS
<1>2. sinks' = [j \in DOMAIN sinks |-> IF j = k THEN sink ELSE sinks[j]]
   OBVIOUS
<1> QED
   BY <1>1, <1>2

(* A call that changes a sink, and prints nothing. *)
LEMMA ReconfigureKeeps ==
   ASSUME ConsoleInv, NEW k \in Sinks, NEW sink, Reconfigure(k, sink),
          IsSink(sinks[k]) => IsSink(sink) /\ sink.printing = sinks[k].printing
   PROVE  ConsoleInv'
<1>1. k \in DOMAIN sinks /\ sinks[k].printing = None /\ sinks' = [sinks EXCEPT ![k] = sink]
      /\ UNCHANGED <<platform, flag, console>> /\ piece' = None
   BY DEF Reconfigure, Idle, Alive
<1>2. PlatformInv' /\ (Escapes' <=> Escapes) /\ found' = found
   BY <1>1, PlatformKept DEF ConsoleInv, platform
<1>3. IsSink(sink) /\ sink.printing = None
   BY <1>1 DEF ConsoleInv, SinksInv
<1>4. SinksInv'
   <2>1. sinks' = [j \in DOMAIN sinks \cup {k} |-> IF j = k THEN sink ELSE sinks[j]]
      BY <1>1, SinkChanged
   <2>2. SinksInv
      BY DEF ConsoleInv
   <2> QED
      BY <1>1, <1>3, <2>1, <2>2, SinksStep
<1>5. DOMAIN sinks' = DOMAIN sinks /\ sinks'[k] = sink /\ \A j \in DOMAIN sinks \ {k} : sinks'[j] = sinks[j]
   BY <1>1, SinkChanged
<1>6. OnlyOne'
   BY <1>1, <1>2, <1>5 DEF ConsoleInv, OnlyOne
<1>7. ConsoleRestored'
   BY <1>1, <1>2, <1>3, <1>5 DEF ConsoleInv, ConsoleRestored, Idle, Alive
<1>8. PrintedWhole'
   BY <1>1 DEF PrintedWhole
<1> QED
   BY <1>2, <1>4, <1>6, <1>7, <1>8 DEF ConsoleInv

(* The calls that change the scheme or the header. *)
LEMMA SettingsKeep ==
   ASSUME ConsoleInv, NEW k \in Sinks, NEW settings, NEW func \in LogDetailsFuncs,
          \/ SetWorkingScheme(k, settings) \/ SetDefaultScheme(k, settings)
          \/ DefaultScheme(k) \/ SystemDefaultScheme(k) \/ BlackWhiteScheme(k)
          \/ OverrideLogDetails(k, func)
   PROVE  ConsoleInv'
<1> DEFINE sink == sinks[k]
<1>1. ASSUME NEW scheme, NEW asked,
             Reconfigure(k, [sink EXCEPT !.scheme = scheme, !.asked = asked])
      PROVE  ConsoleInv'
   <2> DEFINE new == [sink EXCEPT !.scheme = scheme, !.asked = asked]
   <2>1. IsSink(sink) => IsSink(new) /\ new.printing = sink.printing
      BY DEF IsSink
   <2> HIDE DEF new
   <2> QED
      BY <1>1, <2>1, ReconfigureKeeps DEF new
<1>2. CASE SetWorkingScheme(k, settings)
   BY <1>1, <1>2 DEF SetWorkingScheme
<1>3. CASE DefaultScheme(k) \/ SystemDefaultScheme(k)
   BY <1>1, <1>3 DEF DefaultScheme, SystemDefaultScheme, Cleared
<1>4. CASE BlackWhiteScheme(k)
   BY <1>1, <1>4 DEF BlackWhiteScheme
<1>5. CASE SetDefaultScheme(k, settings)
   <2> DEFINE new == [sink EXCEPT !.settings = settings]
   <2>1. IsSink(sink) => IsSink(new) /\ new.printing = sink.printing
      BY DEF IsSink
   <2>2. Reconfigure(k, new)
      BY <1>5 DEF SetDefaultScheme
   <2> HIDE DEF new
   <2> QED
      BY <2>1, <2>2, ReconfigureKeeps
<1>6. CASE OverrideLogDetails(k, func)
   <2> DEFINE new == [sink EXCEPT !.func = func]
   <2>1. IsSink(sink) => IsSink(new) /\ new.printing = sink.printing
      BY DEF IsSink
   <2>2. Reconfigure(k, new)
      BY <1>6 DEF OverrideLogDetails
   <2> HIDE DEF new
   <2> QED
      BY <2>1, <2>2, ReconfigureKeeps
<1> QED
   BY <1>2, <1>3, <1>4, <1>5, <1>6

(* A text without colours, and one with escape sequences. *)
LEMMA PrintKeeps ==
   ASSUME ConsoleInv, NEW k \in Sinks, NEW entry \in Entries,
          PrintPlain(k, entry) \/ PrintWithEscapes(k, entry)
   PROVE  ConsoleInv'
<1>1. /\ k \in DOMAIN sinks /\ IsSink(sinks[k]) /\ windows \in BOOLEAN
      /\ UNCHANGED <<platform, flag, sinks>>
   BY DEF ConsoleInv, SinksInv, PlatformInv, PrintPlain, PrintWithEscapes, Idle, Alive
<1>2. PlatformInv' /\ (Escapes' <=> Escapes) /\ tty' = tty /\ found' = found
   BY <1>1, PlatformKept DEF ConsoleInv, platform
<1>3. SinksInv' /\ OnlyOne'
   BY <1>1, <1>2 DEF ConsoleInv, SinksInv, OnlyOne, IsAtty
<1>4. CASE PrintPlain(k, entry)
   <2>1. ConsoleRestored'
      BY <1>1, <1>2, <1>4 DEF PrintPlain, ConsoleInv, ConsoleRestored, Idle, Alive
   <2>2. \E look : piece' = Piece(k, entry, Text(k, entry), look)
      BY <1>4 DEF PrintPlain
   <2>3. PrintedWhole'
      BY <1>1, <2>2, PieceResult
   <2> QED
      BY <1>2, <1>3, <2>1, <2>3 DEF ConsoleInv
<1>5. CASE PrintWithEscapes(k, entry)
   <2> DEFINE text == Front(Text(k, entry))
   <2>1. \E look : /\ piece' = Piece(k, entry, CString(Append(text, Nl)), look)
                   /\ console' = IF Nul \in ToSet(text) THEN look ELSE After(look, Reset.sgr)
      BY <1>5 DEF PrintWithEscapes
   <2>2. PICK look : /\ piece' = Piece(k, entry, CString(Append(text, Nl)), look)
                     /\ console' = IF Nul \in ToSet(text) THEN look ELSE After(look, Reset.sgr)
      BY <2>1
   <2>3. Nul \notin ToSet(text) /\ CString(Append(text, Nl)) = Text(k, entry)
      BY <1>1, TextResult
   <2>4. PrintedWhole'
      BY <1>1, <2>2, <2>3, PieceResult
   <2>5. console' = Plain
      <3>1. After(look, Reset.sgr) = Plain
         BY DEF After, Reset
      <3> QED
         BY <2>2, <2>3, <3>1
   <2>6. found = Plain
      BY <1>5 DEF PrintWithEscapes, ConsoleInv, PlatformInv
   <2>7. ConsoleRestored'
      BY <1>2, <2>5, <2>6 DEF ConsoleRestored
   <2> QED
      BY <1>2, <1>3, <2>4, <2>7 DEF ConsoleInv
<1> QED
   BY <1>4, <1>5

(* The three steps on a console without escape sequences: the sink is the only *)
(* one, and the console is to be restored until the last of them.              *)
LEMMA ConsoleStepsKeep ==
   ASSUME ConsoleInv, NEW k \in Sinks,
          \/ \E entry \in Entries : SetConsole(k, entry)
          \/ PrintOnConsole(k) \/ RestoreConsole(k)
   PROVE  ConsoleInv'
<1> DEFINE sink == sinks[k]
<1>1. k \in DOMAIN sinks /\ IsSink(sink) /\ windows \in BOOLEAN /\ UNCHANGED <<platform, flag>>
   BY DEF ConsoleInv, SinksInv, PlatformInv, SetConsole, PrintOnConsole, RestoreConsole, Idle, Alive
<1>2. PlatformInv' /\ (Escapes' <=> Escapes) /\ tty' = tty /\ found' = found
   BY <1>1, PlatformKept DEF ConsoleInv, platform
<1>3. ~Escapes /\ IsAtty(sink.stream)
   BY DEF ConsoleInv, SinksInv, SetConsole, PrintOnConsole, RestoreConsole, Coloured, Alive
<1>4. \A j \in DOMAIN sinks : j = k
   BY <1>1, <1>3 DEF ConsoleInv, OnlyOne
<1>5. ASSUME NEW printing \in [entry : Entries, done : BOOLEAN] \cup {None},
             sinks' = [sinks EXCEPT ![k] = [sink EXCEPT !.printing = printing]],
             printing = None => console' = found,
             PrintedWhole'
      PROVE  ConsoleInv'
   <2> DEFINE new == [sink EXCEPT !.printing = printing]
   <2>1. IsSink(new) /\ new.printing = printing /\ new.stream = sink.stream
      BY <1>1 DEF IsSink
   <2>2. sinks' = [sinks EXCEPT ![k] = new]
      BY <1>5
   <2> HIDE DEF new
   <2>3. SinksInv'
      <3>1. sinks' = [j \in DOMAIN sinks \cup {k} |-> IF j = k THEN new ELSE sinks[j]]
         BY <1>1, <2>2, SinkChanged
      <3>2. SinksInv
         BY DEF ConsoleInv
      <3> QED
         BY <1>1, <1>3, <2>1, <3>1, <3>2, SinksStep
   <2>4. DOMAIN sinks' = DOMAIN sinks /\ sinks'[k] = new
      BY <1>1, <2>2, SinkChanged
   <2>5. OnlyOne'
      BY <1>1, <1>2, <2>4 DEF ConsoleInv, OnlyOne
   <2>6. ConsoleRestored'
      BY <1>1, <1>2, <1>5, <2>1, <2>4 DEF ConsoleRestored, Idle, Alive
   <2> QED
      BY <1>2, <1>5, <2>3, <2>5, <2>6 DEF ConsoleInv
<1>6. ASSUME NEW entry \in Entries, SetConsole(k, entry)
      PROVE  ConsoleInv'
   <2> DEFINE printing == [entry |-> entry, done |-> FALSE]
   <2>1. printing \in [entry : Entries, done : BOOLEAN] /\ printing # None
      <3>1. printing \in [entry : Entries, done : BOOLEAN]
         OBVIOUS
      <3> HIDE DEF printing
      <3> QED
         BY <3>1, ColorCoutSinkAssumption
   <2>2. sinks' = [sinks EXCEPT ![k] = [sink EXCEPT !.printing = printing]] /\ piece' = piece
      BY <1>1, <1>6 DEF SetConsole
   <2>3. PrintedWhole'
      BY <2>2 DEF ConsoleInv, PrintedWhole
   <2> HIDE DEF printing
   <2> QED
      BY <1>5, <2>1, <2>2, <2>3
<1>7. CASE PrintOnConsole(k)
   <2> DEFINE entry == sink.printing.entry
              printing == [sink.printing EXCEPT !.done = TRUE]
   <2>1. sink.printing \in [entry : Entries, done : BOOLEAN]
      BY <1>1, <1>7 DEF PrintOnConsole, IsSink
   <2>2. printing \in [entry : Entries, done : BOOLEAN] /\ printing # None /\ entry \in Entries
      <3>1. printing \in [entry : Entries, done : BOOLEAN] /\ entry \in Entries
         BY <2>1
      <3> HIDE DEF printing
      <3> QED
         BY <3>1, ColorCoutSinkAssumption
   <2>3. sinks' = [sinks EXCEPT ![k] = [sink EXCEPT !.printing = printing]]
      BY <1>1, <1>7 DEF PrintOnConsole
   <2>4. piece' = Piece(k, entry, Front(Text(k, entry)) \o <<Nl>>, console)
      BY <1>7 DEF PrintOnConsole
   <2> HIDE DEF printing, entry
   <2>5. Front(Text(k, entry)) \o <<Nl>> = Text(k, entry)
      BY <1>1, <2>2, TextResult
   <2>6. PrintedWhole'
      BY <1>1, <2>2, <2>4, <2>5, PieceResult
   <2> QED
      BY <1>5, <2>2, <2>3, <2>6
<1>8. CASE RestoreConsole(k)
   <2>1. sinks' = [sinks EXCEPT ![k] = [sink EXCEPT !.printing = None]] /\ piece' = piece
         /\ console' = defaults[sink.stream]
      BY <1>1, <1>8 DEF RestoreConsole
   <2>2. console' = found
      BY <1>3, <2>1 DEF ConsoleInv, PlatformInv, IsAtty
   <2>3. PrintedWhole'
      BY <2>1 DEF ConsoleInv, PrintedWhole
   <2> QED
      BY <1>5, <2>1, <2>2, <2>3
<1> QED
   BY <1>6, <1>7, <1>8

(* The destructor *)
LEMMA DestroyKeeps ==
   ASSUME ConsoleInv, NEW k \in Sinks, Destroy(k)
   PROVE  ConsoleInv'
<1>1. UNCHANGED <<platform, flag, console>> /\ piece' = None /\ sinks[k].printing = None
   BY DEF Destroy, Idle
<1>2. PlatformInv' /\ (Escapes' <=> Escapes) /\ tty' = tty /\ found' = found
   BY <1>1, PlatformKept DEF ConsoleInv, platform
<1>3. /\ DOMAIN sinks' = DOMAIN sinks \ {k}
      /\ \A j \in DOMAIN sinks' : sinks'[j] = sinks[j]
   BY DEF Destroy
<1>4. SinksInv'
   BY <1>2, <1>3 DEF ConsoleInv, SinksInv, IsAtty
<1>5. OnlyOne'
   BY <1>1, <1>2, <1>3 DEF ConsoleInv, OnlyOne
<1>6. ConsoleRestored'
   BY <1>1, <1>2, <1>3 DEF ConsoleInv, ConsoleRestored, Idle, Alive
<1>7. PrintedWhole'
   BY <1>1 DEF PrintedWhole
<1> QED
   BY <1>2, <1>4, <1>5, <1>6, <1>7 DEF ConsoleInv

--------------------------------------------------------------------------------
(* The inductive invariant holds in every reachable state, for any sinks,      *)
(* streams, schemes and entries, on every kind of terminal.                    *)
THEOREM ConsoleInvariant == Spec => []ConsoleInv
<1>1. ConsoleInv /\ [Next]_vars => ConsoleInv'
   <2> SUFFICES ASSUME ConsoleInv, [Next]_vars
                PROVE  ConsoleInv'
      OBVIOUS
   <2>1. CASE Next
      <3>1. PICK k \in Sinks :
               \/ \E stream \in Streams, settings \in Schemes \cup {K_DEFAULT_SETTINGS} :
                     Construct(k, stream, settings)
               \/ \E settings \in Schemes : SetWorkingScheme(k, settings) \/ SetDefaultScheme(k, settings)
               \/ DefaultScheme(k) \/ SystemDefaultScheme(k) \/ BlackWhiteScheme(k)
               \/ \E func \in LogDetailsFuncs : OverrideLogDetails(k, func)
               \/ \E entry \in Entries : \/ PrintPlain(k, entry)
                                         \/ PrintWithEscapes(k, entry)
                                         \/ SetConsole(k, entry)
               \/ PrintOnConsole(k) \/ RestoreConsole(k)
               \/ Destroy(k)
         BY <2>1 DEF Next
      <3>2. "Default" \in LogDetailsFuncs
         BY DEF LogDetailsFuncs
      <3> QED
         BY <3>1, <3>2, ConstructKeeps, SettingsKeep, PrintKeeps, ConsoleStepsKeep, DestroyKeeps
   <2>2. CASE UNCHANGED vars
      BY <2>2 DEF vars, ConsoleInv, PlatformInv, SinksInv, OnlyOne, ConsoleRestored, PrintedWhole,
         Escapes, IsAtty, Idle, Alive
   <2> QED
      BY <2>1, <2>2
<1> QED
   BY ConsoleAtFirst, <1>1, PTL DEF Spec

(* ColorCoutSink leaves the terminal as the program found it, unless it is     *)
(* printing: the reset is in every text that goes out with escape sequences,   *)
(* and on a console without them a second sink is refused.                     *)
THEOREM LeavesTheConsole == Spec => []ConsoleRestored
<1>1. ConsoleInv => ConsoleRestored
   BY DEF ConsoleInv
<1> QED
   BY ConsoleInvariant, <1>1, PTL

(* What ColorCoutSink prints in colours is the whole text of the entry, up to  *)
(* any Nul in what was logged, and that is in it unless the text says that it  *)
(* is not.                                                                     *)
THEOREM PrintsAll == Spec => []PrintedWhole
<1>1. ConsoleInv => PrintedWhole
   BY DEF ConsoleInv
<1> QED
   BY ConsoleInvariant, <1>1, PTL

--------------------------------------------------------------------------------
(* Settings *)

(* The greatest of some numbers up to n. *)
LEMMA MaxResult ==
   ASSUME NEW n \in Nat, NEW S \in SUBSET (1..n), S # {}
   PROVE  Max(S) \in S /\ \A y \in S : y <= Max(S)
<1> DEFINE rest == {n - x : x \in S}
<1>1. rest \in SUBSET Nat /\ rest # {}
   <2>1. ASSUME NEW x \in S PROVE n - x \in Nat
      BY <2>1
   <2> QED
      BY <2>1
<1>2. Min(rest) \in rest /\ \A z \in rest : Min(rest) <= z
   <2> HIDE DEF rest
   <2> QED
      BY <1>1, MinResult
<1>3. PICK x \in S : Min(rest) = n - x
   BY <1>2
<1>4. ASSUME NEW z \in S PROVE z <= x
   <2>1. n - x <= n - z /\ x \in 1..n /\ z \in 1..n
      BY <1>2, <1>3
   <2> QED
      BY <2>1
<1>5. \A z \in S : x >= z
   <2>1. ASSUME NEW z \in S PROVE x >= z
      <3>1. z <= x /\ z \in 1..n /\ x \in 1..n
         BY <1>4
      <3> QED
         BY <3>1
   <2> QED
      BY <2>1
<1>6. Max(S) \in S /\ \A z \in S : Max(S) >= z
   BY <1>5 DEF Max
<1>7. ASSUME NEW z \in S PROVE z <= Max(S)
   <2>1. Max(S) >= z /\ z \in 1..n /\ Max(S) \in 1..n
      BY <1>6
   <2> QED
      BY <2>1
<1> QED
   BY <1>6, <1>7

(* The Settings that IsSetting tells from others. *)
Manipulators == {x \in [kind : {"fg", "bg", "attr", "reset"}, sgr : Seq(Int), win : Int] : IsSetting(x)}

(* Those that change what there is. *)
Changes == {x \in Manipulators : x.kind # "reset"}

(* The sixteen colours, in both numberings. *)
LEMMA WinColourResult ==
   ASSUME NEW c \in 0..15
   PROVE  LET n == IF c < 8 THEN 30 + c ELSE 82 + c IN
          /\ WinColour(c) \in 0..15 /\ ColourOf(n) = WinColour(c)
          /\ n \in 30..37 \cup 90..97
<1> DEFINE W == <<0, RED, GREEN, GREEN + RED, BLUE, BLUE + RED, BLUE + GREEN, BLUE + GREEN + RED>>
<1>1. WinColour(c) = W[(c % 8) + 1] + (IF c < 8 THEN 0 ELSE INTENSITY)
   BY DEF WinColour
<1>2. /\ W[1] = 0 /\ W[2] = 4 /\ W[3] = 2 /\ W[4] = 6 /\ W[5] = 1 /\ W[6] = 5 /\ W[7] = 3 /\ W[8] = 7
   BY DEF RED, GREEN, BLUE
<1> HIDE DEF W
<1>3. \A n \in Nat : ColourOf(n) = ((n % 10) % 2) * 4 + (((n % 10) \div 2) % 2) * 2 + ((n % 10) \div 4) * 1
                                     + (IF n >= 90 THEN 8 ELSE 0)
   BY DEF ColourOf, RED, GREEN, BLUE, INTENSITY
<1>4. CASE c \in 0..7
   <2>1. c % 8 = c /\ (30 + c) % 10 = c
      BY <1>4
   <2>2. WinColour(c) = W[c + 1]
      <3>1. W[c + 1] \in 0..15
         BY <1>2, <1>4
      <3> QED
         BY <1>1, <1>4, <2>1, <3>1
   <2>3. ColourOf(30 + c) = (c % 2) * 4 + ((c \div 2) % 2) * 2 + (c \div 4)
      BY <1>3, <1>4, <2>1
   <2>4. W[c + 1] \in 0..15 /\ (c % 2) * 4 + ((c \div 2) % 2) * 2 + (c \div 4) = W[c + 1]
      BY <1>2, <1>4
   <2> QED
      BY <1>4, <2>2, <2>3, <2>4
<1>5. CASE c \in 8..15
   <2> DEFINE d == c - 8
   <2>1. d \in 0..7 /\ c % 8 = d /\ (82 + c) % 10 = d
      BY <1>5
   <2> HIDE DEF d
   <2>2. W[d + 1] \in 0..7 /\ (d % 2) * 4 + ((d \div 2) % 2) * 2 + (d \div 4) = W[d + 1]
      BY <1>2, <2>1
   <2>3. WinColour(c) = W[d + 1] + 8
      <3>1. INTENSITY = 8 /\ ~(c < 8)
         BY <1>5 DEF INTENSITY
      <3> QED
         BY <1>1, <2>1, <3>1
   <2>4. ColourOf(82 + c) = (d % 2) * 4 + ((d \div 2) % 2) * 2 + (d \div 4) + 8
      BY <1>3, <1>5, <2>1
   <2>5. ~(c < 8) /\ 82 + c \in 90..97
      BY <1>5
   <2> QED
      BY <2>2, <2>3, <2>4, <2>5
<1> QED
   BY <1>4, <1>5

(* What the kinds of Settings are. *)
LEMMA SettingResult ==
   ASSUME NEW x \in Manipulators
   PROVE  /\ x.kind \in {"fg", "bg", "attr", "reset"} /\ x.sgr \in Seq(Int) /\ x.win \in Int
          /\ x.kind = "fg" => /\ Len(x.sgr) \in 1..5 /\ x.sgr[1] \in 30..38 \cup 90..97
                              /\ IF Len(x.sgr) = 1 THEN x.win \in 0..15 /\ x.win = ColourOf(x.sgr[1])
                                                   ELSE x.win = -1
          /\ x.kind = "bg" => /\ Len(x.sgr) \in 1..5 /\ x.sgr[1] \in 40..48 \cup 100..107
                              /\ LET w == ColourOf(x.sgr[1] - 10) IN
                                 IF Len(x.sgr) = 1 THEN w \in 0..15 /\ x.win = 16 * w
                                                   ELSE x.win = -1
          /\ x.kind = "attr" => /\ x.sgr = <<x.sgr[1]>> /\ x.sgr[1] \in 1..9
                                /\ x.win = Attribute(x.sgr[1]).win
<1>1. IsSetting(x) /\ x.kind \in {"fg", "bg", "attr", "reset"} /\ x.sgr \in Seq(Int) /\ x.win \in Int
   BY DEF Manipulators
<1>2. ASSUME NEW c \in 0..15, x = Foreground(c)
      PROVE  x.kind = "fg" /\ Len(x.sgr) = 1 /\ x.sgr[1] \in 30..37 \cup 90..97
             /\ x.win \in 0..15 /\ x.win = ColourOf(x.sgr[1])
   <2> DEFINE n == IF c < 8 THEN 30 + c ELSE 82 + c
   <2>1. x.kind = "fg" /\ x.sgr = <<n>> /\ x.win = WinColour(c)
      BY <1>2 DEF Foreground
   <2>2. WinColour(c) \in 0..15 /\ ColourOf(n) = WinColour(c) /\ n \in 30..37 \cup 90..97
      BY WinColourResult
   <2> HIDE DEF n
   <2>3. Len(x.sgr) = 1 /\ x.sgr[1] = n
      BY <2>1
   <2> QED
      BY <2>1, <2>2, <2>3
<1>3. ASSUME NEW c \in 0..15, x = Background(c)
      PROVE  x.kind = "bg" /\ Len(x.sgr) = 1 /\ x.sgr[1] \in 40..47 \cup 100..107
             /\ ColourOf(x.sgr[1] - 10) \in 0..15 /\ x.win = 16 * ColourOf(x.sgr[1] - 10)
   <2> DEFINE n == IF c < 8 THEN 30 + c ELSE 82 + c
              m == IF c < 8 THEN 40 + c ELSE 92 + c
   <2>1. x.kind = "bg" /\ x.sgr = <<m>> /\ x.win = 16 * WinColour(c)
      BY <1>3 DEF Background
   <2>2. WinColour(c) \in 0..15 /\ ColourOf(n) = WinColour(c) /\ n \in 30..37 \cup 90..97
      BY WinColourResult
   <2>3. m - 10 = n /\ m \in 40..47 \cup 100..107
      BY <1>3
   <2> HIDE DEF n, m
   <2>4. Len(x.sgr) = 1 /\ x.sgr[1] = m
      BY <2>1
   <2> QED
      BY <2>1, <2>2, <2>3, <2>4
<1>4. ASSUME NEW code \in 0..255, x \in {Foreground256(code), Background256(code)}
      PROVE  /\ Len(x.sgr) = 3 /\ x.win = -1
             /\ \/ x.kind = "fg" /\ x.sgr[1] = 38
                \/ x.kind = "bg" /\ x.sgr[1] = 48
   BY <1>4 DEF Foreground256, Background256
<1>5. ASSUME x \in {ForegroundRGB(x.sgr[3], x.sgr[4], x.sgr[5]), BackgroundRGB(x.sgr[3], x.sgr[4], x.sgr[5])},
             Len(x.sgr) = 5
      PROVE  /\ Len(x.sgr) = 5 /\ x.win = -1
             /\ \/ x.kind = "fg" /\ x.sgr[1] = 38
                \/ x.kind = "bg" /\ x.sgr[1] = 48
   BY <1>5 DEF ForegroundRGB, BackgroundRGB
<1>6. ASSUME NEW n \in 1..9 \ {6}, x = Attribute(n)
      PROVE  x.kind = "attr" /\ x.sgr = <<n>> /\ x.sgr[1] = n /\ x.win = Attribute(n).win
   BY <1>6 DEF Attribute
<1>7. ASSUME x = Reset
      PROVE  x.kind = "reset"
   BY <1>7 DEF Reset
<1>8. CASE \E c \in 0..15 : x = Foreground(c)
   <2>1. PICK c \in 0..15 : x = Foreground(c)
      BY <1>8
   <2>2. x.kind = "fg" /\ Len(x.sgr) = 1 /\ x.sgr[1] \in 30..37 \cup 90..97
         /\ x.win \in 0..15 /\ x.win = ColourOf(x.sgr[1])
      BY <1>2, <2>1
   <2> DEFINE n == x.sgr[1]
   <2>3. Len(x.sgr) \in 1..5 /\ n \in 30..38 \cup 90..97
      <3>1. n \in 30..37 \cup 90..97
         BY <2>2
      <3> HIDE DEF n
      <3> QED
         BY <2>2, <3>1
   <2> QED
      BY <1>1, <2>2, <2>3
<1>9. CASE \E c \in 0..15 : x = Background(c)
   <2>1. PICK c \in 0..15 : x = Background(c)
      BY <1>9
   <2>2. x.kind = "bg" /\ Len(x.sgr) = 1 /\ x.sgr[1] \in 40..47 \cup 100..107
         /\ ColourOf(x.sgr[1] - 10) \in 0..15 /\ x.win = 16 * ColourOf(x.sgr[1] - 10)
      BY <1>3, <2>1
   <2> DEFINE n == x.sgr[1]
              w == ColourOf(n - 10)
   <2> HIDE DEF w
   <2>3. Len(x.sgr) \in 1..5 /\ n \in 40..48 \cup 100..107 /\ w \in 0..15 /\ x.win = 16 * w
      <3>1. n \in 40..47 \cup 100..107
         BY <2>2
      <3> HIDE DEF n
      <3> QED
         BY <2>2, <3>1 DEF n, w
   <2> QED
      BY <1>1, <2>2, <2>3 DEF w
<1>10. CASE \E code \in 0..255 : x \in {Foreground256(code), Background256(code)}
   <2>1. /\ Len(x.sgr) = 3 /\ x.win = -1
         /\ \/ x.kind = "fg" /\ x.sgr[1] = 38
            \/ x.kind = "bg" /\ x.sgr[1] = 48
      BY <1>4, <1>10
   <2>2. CASE x.kind = "fg"
      BY <1>1, <2>1, <2>2
   <2>3. CASE x.kind = "bg"
      BY <1>1, <2>1, <2>3
   <2> QED
      BY <2>1, <2>2, <2>3
<1>11. CASE Len(x.sgr) = 5 /\ x \in {ForegroundRGB(x.sgr[3], x.sgr[4], x.sgr[5]),
                                    BackgroundRGB(x.sgr[3], x.sgr[4], x.sgr[5])}
   <2>1. /\ Len(x.sgr) = 5 /\ x.win = -1
         /\ \/ x.kind = "fg" /\ x.sgr[1] = 38
            \/ x.kind = "bg" /\ x.sgr[1] = 48
      BY <1>5, <1>11
   <2>2. CASE x.kind = "fg"
      BY <1>1, <2>1, <2>2
   <2>3. CASE x.kind = "bg"
      BY <1>1, <2>1, <2>3
   <2> QED
      BY <2>1, <2>2, <2>3
<1>12. CASE \E n \in 1..9 \ {6} : x = Attribute(n)
   <2>1. PICK n \in 1..9 \ {6} : x = Attribute(n)
      BY <1>12
   <2>2. x.kind = "attr" /\ x.sgr = <<n>> /\ x.sgr[1] = n /\ x.win = Attribute(n).win
      BY <1>6, <2>1
   <2> QED
      BY <1>1, <2>2
<1>13. CASE x = Reset
   BY <1>1, <1>7, <1>13
<1> QED
   BY <1>1, <1>8, <1>9, <1>10, <1>11, <1>12, <1>13 DEF IsSetting

(* A Setting is one of the manipulators. *)
LEMMA SettingIsManipulator ==
   ASSUME NEW x, IsSetting(x)
   PROVE  x \in Manipulators
<1> DEFINE R == [kind : {"fg", "bg", "attr", "reset"}, sgr : Seq(Int), win : Int]
<1>1. \A c \in 0..15 : Foreground(c) \in R /\ Background(c) \in R
   <2> TAKE c \in 0..15
   <2>1. WinColour(c) \in 0..15
      BY WinColourResult
   <2>2. WinColour(c) \in Int /\ 16 * WinColour(c) \in Int
      BY <2>1
   <2>3. \A n \in Int : <<n>> \in Seq(Int)
      OBVIOUS
   <2>4. (IF c < 8 THEN 30 + c ELSE 82 + c) \in Int /\ (IF c < 8 THEN 40 + c ELSE 92 + c) \in Int
      OBVIOUS
   <2> QED
      BY <2>2, <2>3, <2>4 DEF Foreground, Background
<1>2. \A code \in 0..255 : Foreground256(code) \in R /\ Background256(code) \in R
   BY DEF Foreground256, Background256
<1>3. \A r, g, b \in 0..255 : ForegroundRGB(r, g, b) \in R /\ BackgroundRGB(r, g, b) \in R
   BY DEF ForegroundRGB, BackgroundRGB
<1>4. \A n \in 1..9 : Attribute(n) \in R
   BY DEF Attribute, COMMON_LVB_REVERSE_VIDEO, COMMON_LVB_UNDERSCORE
<1>5. Reset \in R
   BY DEF Reset
<1> HIDE DEF R
<1>6. x \in R
   <2>1. CASE \E c \in 0..15 : x \in {Foreground(c), Background(c)}
      BY <1>1, <2>1
   <2>2. CASE \E code \in 0..255 : x \in {Foreground256(code), Background256(code)}
      BY <1>2, <2>2
   <2>3. CASE /\ Len(x.sgr) = 5 /\ \A i \in 3..5 : x.sgr[i] \in 0..255
              /\ x \in {ForegroundRGB(x.sgr[3], x.sgr[4], x.sgr[5]),
                        BackgroundRGB(x.sgr[3], x.sgr[4], x.sgr[5])}
      <3>1. x.sgr[3] \in 0..255 /\ x.sgr[4] \in 0..255 /\ x.sgr[5] \in 0..255
         <4>1. \A i \in 3..5 : x.sgr[i] \in 0..255
            BY <2>3
         <4>2. 3 \in 3..5 /\ 4 \in 3..5 /\ 5 \in 3..5
            OBVIOUS
         <4> QED
            BY <4>1, <4>2
      <3> DEFINE r == x.sgr[3]
                 g == x.sgr[4]
                 b == x.sgr[5]
      <3>2. x = ForegroundRGB(r, g, b) \/ x = BackgroundRGB(r, g, b)
         BY <2>3
      <3>3. r \in 0..255 /\ g \in 0..255 /\ b \in 0..255
         BY <3>1
      <3> HIDE DEF r, g, b
      <3>4. ForegroundRGB(r, g, b) \in R /\ BackgroundRGB(r, g, b) \in R
         BY <1>3, <3>3
      <3> QED
         BY <3>2, <3>4
   <2>4. CASE \E n \in 1..9 \ {6} : x = Attribute(n)
      BY <1>4, <2>4
   <2> QED
      BY <1>5, <2>1, <2>2, <2>3, <2>4 DEF IsSetting
<1> QED
   BY <1>6 DEF R, Manipulators

(* The Settings since the last reset, as one more is given. *)
LEMMA SinceResetAppend ==
   ASSUME NEW u \in Seq(Manipulators)
   PROVE  /\ SinceReset(<<>>) = <<>>
          /\ SinceReset(u) \in Seq(Changes)
          /\ \A x \in Manipulators :
                SinceReset(Append(u, x)) = IF x.kind = "reset" THEN <<>> ELSE Append(SinceReset(u), x)
<1> DEFINE n == Len(u)
           Resets(v) == {i \in 1..Len(v) : v[i].kind = "reset"}
           From(v) == SubSeq(v, Max(Resets(v)) + 1, Len(v))
<1>1. n \in Nat /\ \A i \in 1..n : u[i] \in Manipulators
   OBVIOUS
<1>2. \A v : SinceReset(v) = IF Resets(v) = {} THEN v ELSE From(v)
   BY DEF SinceReset
<1>3. SinceReset(<<>>) = <<>>
   <2>1. Len(<<>>) = 0
      OBVIOUS
   <2>2. Resets(<<>>) = {}
      BY <2>1
   <2> HIDE DEF Resets
   <2> QED
      BY <1>2, <2>2
<1>4. Resets(u) # {} => Max(Resets(u)) \in 1..n /\ \A i \in (Max(Resets(u)) + 1)..n : i \notin Resets(u)
   <2> SUFFICES ASSUME Resets(u) # {}
                PROVE  Max(Resets(u)) \in 1..n /\ \A i \in (Max(Resets(u)) + 1)..n : i \notin Resets(u)
      OBVIOUS
   <2>1. Resets(u) \in SUBSET (1..n)
      OBVIOUS
   <2> HIDE DEF Resets, n
   <2>2. Max(Resets(u)) \in Resets(u) /\ \A y \in Resets(u) : y <= Max(Resets(u))
      BY <1>1, <2>1, MaxResult
   <2>3. Max(Resets(u)) \in 1..n
      BY <2>1, <2>2
   <2>4. ASSUME NEW i \in (Max(Resets(u)) + 1)..n, i \in Resets(u)
         PROVE  FALSE
      <3> DEFINE m == Max(Resets(u))
      <3>1. i <= m /\ m \in 1..n /\ i \in (m + 1)..n
         BY <2>2, <2>3, <2>4
      <3> HIDE DEF m
      <3> QED
         BY <1>1, <3>1
   <2> QED
      BY <2>3, <2>4
<1>5. SinceReset(u) \in Seq(Changes)
   <2>1. CASE Resets(u) = {}
      <3>1. SinceReset(u) = u
         BY <1>2, <2>1
      <3>2. ASSUME NEW i \in 1..n PROVE u[i] \in Changes
         BY <1>1, <2>1 DEF Changes
      <3>3. u \in Seq(Changes)
         BY <3>2
      <3> QED
         BY <3>1, <3>3
   <2>2. CASE Resets(u) # {}
      <3> DEFINE m == Max(Resets(u))
      <3>1. m \in 1..n /\ \A i \in (m + 1)..n : i \notin Resets(u)
         BY <1>4, <2>2
      <3>2. SinceReset(u) = SubSeq(u, m + 1, n)
         BY <1>2, <2>2
      <3>3. \A i \in (m + 1)..n : i \in 1..n /\ i \notin Resets(u)
         BY <1>1, <3>1
      <3>4. \A i \in (m + 1)..n : u[i] \in Changes
         BY <1>1, <3>3 DEF Changes
      <3> HIDE DEF m
      <3> DEFINE t == SubSeq(u, m + 1, n)
      <3>5. /\ t \in Seq(Manipulators) /\ Len(t) = n - m
            /\ \A i \in 1..(n - m) : t[i] = u[m + i]
         BY <3>1
      <3>6. \A i \in 1..(n - m) : m + i \in (m + 1)..n
         BY <1>1, <3>1
      <3>7. \A i \in 1..Len(t) : t[i] \in Changes
         BY <3>4, <3>5, <3>6
      <3> HIDE DEF t
      <3>8. t \in Seq(Changes)
         BY <3>5, <3>7
      <3> QED
         BY <3>2, <3>8 DEF t
   <2> QED
      BY <2>1, <2>2
<1>6. ASSUME NEW x \in Manipulators
      PROVE  SinceReset(Append(u, x)) = IF x.kind = "reset" THEN <<>> ELSE Append(SinceReset(u), x)
   <2> DEFINE v == Append(u, x)
   <2>1. /\ v \in Seq(Manipulators) /\ Len(v) = n + 1 /\ v[n + 1] = x
         /\ \A i \in 1..n : v[i] = u[i]
      OBVIOUS
   <2>2. CASE x.kind = "reset"
      <3>1. n + 1 \in Resets(v) /\ Resets(v) \in SUBSET (1..(n + 1))
         BY <1>1, <2>1, <2>2
      <3> HIDE DEF v, Resets, n
      <3>2. Max(Resets(v)) \in 1..(n + 1) /\ n + 1 <= Max(Resets(v))
         BY <1>1, <3>1, MaxResult
      <3>3. Max(Resets(v)) = n + 1
         BY <1>1, <3>2
      <3>4. SinceReset(v) = SubSeq(v, n + 2, n + 1)
         <4>1. SinceReset(v) = SubSeq(v, Max(Resets(v)) + 1, Len(v))
            BY <1>2, <3>1
         <4> QED
            BY <1>1, <2>1, <3>3, <4>1
      <3>5. SubSeq(v, n + 2, n + 1) = <<>>
         BY <1>1, <2>1
      <3> QED
         BY <2>2, <3>4, <3>5 DEF v
   <2>3. CASE x.kind # "reset"
      <3>1. Resets(v) = Resets(u)
         BY <1>1, <2>1, <2>3
      <3>2. CASE Resets(u) = {}
         BY <1>2, <2>3, <3>1, <3>2
      <3>3. CASE Resets(u) # {}
         <4> DEFINE m == Max(Resets(u))
         <4>1. m \in 1..n
            BY <1>4, <3>3
         <4>2. SinceReset(v) = SubSeq(v, m + 1, n + 1) /\ SinceReset(u) = SubSeq(u, m + 1, n)
            <5>1. SinceReset(v) = From(v) /\ SinceReset(u) = From(u)
               BY <1>2, <3>1, <3>3
            <5>2. From(v) = SubSeq(v, m + 1, Len(v))
               BY <3>1
            <5> HIDE DEF v, m
            <5>3. From(v) = SubSeq(v, m + 1, n + 1)
               BY <2>1, <5>2
            <5> QED
               BY <5>1, <5>3 DEF m
         <4> HIDE DEF m
         <4>3. SubSeq(v, m + 1, n + 1) = Append(SubSeq(u, m + 1, n), x)
            <5> DEFINE a == SubSeq(v, m + 1, n + 1)
                       b == SubSeq(u, m + 1, n)
                       c == Append(b, x)
            <5>1. a \in Seq(Manipulators) /\ Len(a) = n + 1 - m /\ \A i \in 1..(n + 1 - m) : a[i] = v[m + i]
               <6> HIDE DEF v
               <6> QED
                  BY <1>1, <2>1, <4>1
            <5>2. b \in Seq(Manipulators) /\ Len(b) = n - m /\ \A i \in 1..(n - m) : b[i] = u[m + i]
               BY <1>1, <4>1
            <5> HIDE DEF a, b, v, n
            <5>3. /\ c \in Seq(Manipulators) /\ Len(c) = n + 1 - m /\ c[n + 1 - m] = x
                  /\ \A i \in 1..(n - m) : c[i] = b[i]
               <6>1. /\ c \in Seq(Manipulators) /\ Len(c) = Len(b) + 1 /\ c[Len(b) + 1] = x
                     /\ \A i \in 1..Len(b) : c[i] = b[i]
                  BY <5>2
               <6>2. Len(b) + 1 = n + 1 - m
                  BY <1>1, <4>1, <5>2
               <6> HIDE DEF c
               <6> QED
                  BY <5>2, <6>1, <6>2
            <5> HIDE DEF c
            <5>4. ASSUME NEW i \in 1..(n + 1 - m)
                  PROVE  a[i] = c[i]
               <6>1. i \in 1..(n - m) \/ i = n + 1 - m
                  BY <1>1, <4>1
               <6>2. a[i] = v[m + i]
                  BY <5>1
               <6>3. CASE i \in 1..(n - m)
                  <7>1. m + i \in 1..n
                     BY <1>1, <4>1, <6>3
                  <7> QED
                     BY <2>1, <5>2, <5>3, <6>2, <6>3, <7>1
               <6>4. CASE i = n + 1 - m
                  <7>1. m + i = n + 1
                     BY <1>1, <4>1, <6>4
                  <7> QED
                     BY <2>1, <5>3, <6>2, <6>4, <7>1
               <6> QED
                  BY <6>1, <6>3, <6>4
            <5>5. a = c
               BY <5>1, <5>3, <5>4
            <5> QED
               BY <5>5 DEF a, b, c
         <4> QED
            BY <2>3, <4>2, <4>3
      <3> QED
         BY <3>2, <3>3
   <2> QED
      BY <2>2, <2>3
<1> QED
   BY <1>3, <1>5, <1>6

(* The last Setting of a kind: of none, of one more, and where it is from. *)
LEMMA LastOfBoth ==
   ASSUME NEW u \in Seq(Manipulators), NEW kind, NEW lengths
   PROVE  /\ LastOf(<<>>, kind, lengths) = <<>>
          /\ \A x \in Manipulators :
                LastOf(Append(u, x), kind, lengths) =
                   IF x.kind = kind /\ Len(x.sgr) \in lengths THEN x.sgr ELSE LastOf(u, kind, lengths)
          /\ LastOf(u, kind, lengths) # <<>> =>
                \E x \in Manipulators : x.kind = kind /\ Len(x.sgr) \in lengths
                                        /\ LastOf(u, kind, lengths) = x.sgr
<1> DEFINE n == Len(u)
           Those(v) == {i \in 1..Len(v) : v[i].kind = kind /\ Len(v[i].sgr) \in lengths}
<1>1. n \in Nat /\ \A i \in 1..n : u[i] \in Manipulators
   OBVIOUS
<1>2. \A v : LastOf(v, kind, lengths) = IF Those(v) = {} THEN <<>> ELSE v[Max(Those(v))].sgr
   BY DEF LastOf
<1>3. LastOf(<<>>, kind, lengths) = <<>>
   <2>1. Len(<<>>) = 0
      OBVIOUS
   <2>2. Those(<<>>) = {}
      BY <2>1
   <2> HIDE DEF Those
   <2> QED
      BY <1>2, <2>2
<1>4. Those(u) \in SUBSET (1..n)
   OBVIOUS
<1>5. Those(u) # {} => Max(Those(u)) \in Those(u)
   <2> HIDE DEF Those, n
   <2> QED
      BY <1>1, <1>4, MaxResult
<1>6. ASSUME LastOf(u, kind, lengths) # <<>>
      PROVE  \E x \in Manipulators : x.kind = kind /\ Len(x.sgr) \in lengths
                                     /\ LastOf(u, kind, lengths) = x.sgr
   <2>1. Those(u) # {} /\ LastOf(u, kind, lengths) = u[Max(Those(u))].sgr
      BY <1>2, <1>6
   <2>2. Max(Those(u)) \in Those(u)
      BY <1>5, <2>1
   <2> QED
      BY <1>1, <2>1, <2>2
<1>7. ASSUME NEW x \in Manipulators
      PROVE  LastOf(Append(u, x), kind, lengths) =
                IF x.kind = kind /\ Len(x.sgr) \in lengths THEN x.sgr ELSE LastOf(u, kind, lengths)
   <2> DEFINE v == Append(u, x)
   <2>1. /\ v \in Seq(Manipulators) /\ Len(v) = n + 1 /\ v[n + 1] = x
         /\ \A i \in 1..n : v[i] = u[i]
      OBVIOUS
   <2>2. CASE x.kind = kind /\ Len(x.sgr) \in lengths
      <3>1. n + 1 \in Those(v) /\ Those(v) \in SUBSET (1..(n + 1))
         BY <1>1, <2>1, <2>2
      <3> HIDE DEF v, Those, n
      <3>2. Max(Those(v)) \in 1..(n + 1) /\ n + 1 <= Max(Those(v))
         BY <1>1, <3>1, MaxResult
      <3>3. Max(Those(v)) = n + 1
         BY <1>1, <3>2
      <3>4. LastOf(v, kind, lengths) = v[n + 1].sgr
         BY <1>2, <3>1, <3>3
      <3> QED
         BY <2>1, <2>2, <3>4 DEF v
   <2>3. CASE ~(x.kind = kind /\ Len(x.sgr) \in lengths)
      <3>1. Those(v) = Those(u)
         BY <1>1, <2>1, <2>3
      <3> HIDE DEF v, Those, n
      <3>2. LastOf(v, kind, lengths) = LastOf(u, kind, lengths)
         BY <1>2, <1>4, <1>5, <2>1, <3>1
      <3> QED
         BY <2>3, <3>2 DEF v
   <2> QED
      BY <2>2, <2>3
<1> QED
   BY <1>3, <1>6, <1>7

(* Before any Setting there is no colour.                                      *)
LEMMA LastOfEmpty ==
   ASSUME NEW kind, NEW lengths
   PROVE  LastOf(<<>>, kind, lengths) = <<>>
<1>1. <<>> \in Seq(Manipulators)
   OBVIOUS
<1> QED
   BY <1>1, LastOfBoth

(* One more Setting is the last of its kind.                                   *)
LEMMA LastOfAppend ==
   ASSUME NEW u \in Seq(Manipulators), NEW kind, NEW lengths, NEW x \in Manipulators
   PROVE  LastOf(Append(u, x), kind, lengths) =
             IF x.kind = kind /\ Len(x.sgr) \in lengths THEN x.sgr ELSE LastOf(u, kind, lengths)
<1>1. \A y \in Manipulators :
         LastOf(Append(u, y), kind, lengths) =
            IF y.kind = kind /\ Len(y.sgr) \in lengths THEN y.sgr ELSE LastOf(u, kind, lengths)
   BY LastOfBoth
<1> QED
   BY <1>1

(* The last of the sixteen colours, and the last of all colours. *)
LEMMA ColourAppend ==
   ASSUME NEW u \in Seq(Manipulators), NEW kind, NEW x \in Manipulators
   PROVE  /\ LastOf(<<>>, kind, 1..1) = <<>>
          /\ LastOf(Append(u, x), kind, 1..1) =
                IF x.kind = kind /\ Len(x.sgr) = 1 THEN x.sgr ELSE LastOf(u, kind, 1..1)
<1> DEFINE one == 1..1
<1>1. Len(x.sgr) \in one <=> Len(x.sgr) = 1
   OBVIOUS
<1> HIDE DEF one
<1>2. /\ LastOf(<<>>, kind, one) = <<>>
      /\ LastOf(Append(u, x), kind, one) =
            IF x.kind = kind /\ Len(x.sgr) \in one THEN x.sgr ELSE LastOf(u, kind, one)
   BY LastOfEmpty, LastOfAppend
<1>3. /\ LastOf(<<>>, kind, one) = <<>>
      /\ LastOf(Append(u, x), kind, one) =
            IF x.kind = kind /\ Len(x.sgr) = 1 THEN x.sgr ELSE LastOf(u, kind, one)
   BY <1>1, <1>2
<1> QED
   BY <1>3 DEF one

(* A colour of the sixteen was given by one of the manipulators for them.      *)
LEMMA ColourFound ==
   ASSUME NEW u \in Seq(Manipulators), NEW kind, LastOf(u, kind, 1..1) # <<>>
   PROVE  \E x \in Manipulators : x.kind = kind /\ Len(x.sgr) = 1 /\ LastOf(u, kind, 1..1) = x.sgr
<1> DEFINE one == 1..1
<1>1. \A x : Len(x.sgr) \in one <=> Len(x.sgr) = 1
   OBVIOUS
<1>2. LastOf(u, kind, one) # <<>>
   OBVIOUS
<1> HIDE DEF one
<1>3. PICK x \in Manipulators : x.kind = kind /\ Len(x.sgr) \in one /\ LastOf(u, kind, one) = x.sgr
   BY <1>2, LastOfBoth
<1>4. \E y \in Manipulators : y.kind = kind /\ Len(y.sgr) = 1 /\ LastOf(u, kind, one) = y.sgr
   BY <1>1, <1>3
<1> QED
   BY <1>4 DEF one

(* The same for all colours of a ground.                                       *)
LEMMA GroundAppend ==
   ASSUME NEW u \in Seq(Manipulators), NEW kind \in {"fg", "bg"}, NEW x \in Manipulators
   PROVE  /\ LastOf(<<>>, kind, 1..5) = <<>>
          /\ LastOf(Append(u, x), kind, 1..5) = IF x.kind = kind THEN x.sgr ELSE LastOf(u, kind, 1..5)
<1> DEFINE any == 1..5
<1>1. x.kind = kind => Len(x.sgr) \in any
   BY SettingResult
<1> HIDE DEF any
<1>2. /\ LastOf(<<>>, kind, any) = <<>>
      /\ LastOf(Append(u, x), kind, any) =
            IF x.kind = kind /\ Len(x.sgr) \in any THEN x.sgr ELSE LastOf(u, kind, any)
   BY LastOfEmpty, LastOfAppend
<1>3. /\ LastOf(<<>>, kind, any) = <<>>
      /\ LastOf(Append(u, x), kind, any) = IF x.kind = kind THEN x.sgr ELSE LastOf(u, kind, any)
   BY <1>1, <1>2
<1> QED
   BY <1>3 DEF any

(* Such a colour was given by a manipulator of its ground.                     *)
LEMMA GroundFound ==
   ASSUME NEW u \in Seq(Manipulators), NEW kind, LastOf(u, kind, 1..5) # <<>>
   PROVE  \E x \in Manipulators : x.kind = kind /\ LastOf(u, kind, 1..5) = x.sgr
<1> DEFINE any == 1..5
<1>1. LastOf(u, kind, any) # <<>>
   OBVIOUS
<1> HIDE DEF any
<1>2. PICK x \in Manipulators : x.kind = kind /\ Len(x.sgr) \in any /\ LastOf(u, kind, any) = x.sgr
   BY <1>1, LastOfBoth
<1>3. \E y \in Manipulators : y.kind = kind /\ LastOf(u, kind, any) = y.sgr
   BY <1>2
<1> QED
   BY <1>3 DEF any

(* A sequence of numbers with something in it. *)
LEMMA NotEmpty ==
   ASSUME NEW x \in Manipulators, x.kind # "reset"
   PROVE  x.sgr # <<>> /\ Len(x.sgr) # 0
<1>1. Len(x.sgr) # 0 /\ x.sgr \in Seq(Int)
   <2>1. CASE x.kind \in {"fg", "bg"}
      BY <2>1, SettingResult
   <2>2. CASE x.kind = "attr"
      <3>1. x.sgr = <<x.sgr[1]>> /\ x.sgr \in Seq(Int)
         BY <2>2, SettingResult
      <3>2. Len(<<x.sgr[1]>>) = 1
         OBVIOUS
      <3> QED
         BY <3>1, <3>2
   <2> QED
      BY <2>1, <2>2, SettingResult
<1> QED
   BY <1>1, EmptySeq

(* The attributes, as one more Setting is given. *)
LEMMA AttributesAppend ==
   ASSUME NEW u \in Seq(Manipulators)
   PROVE  /\ AttributesOf(<<>>) = {}
          /\ \A x \in Manipulators :
                AttributesOf(Append(u, x)) =
                   AttributesOf(u) \cup (IF x.kind = "attr" THEN {x.sgr[1]} ELSE {})
<1>1. AttributesOf(<<>>) = {}
   <2>1. Len(<<>>) = 0
      OBVIOUS
   <2> QED
      BY <2>1 DEF AttributesOf
<1>2. ASSUME NEW x \in Manipulators
      PROVE  AttributesOf(Append(u, x)) =
                AttributesOf(u) \cup (IF x.kind = "attr" THEN {x.sgr[1]} ELSE {})
   <2> DEFINE n == Len(u)
              v == Append(u, x)
              Those(w) == {j \in 1..Len(w) : w[j].kind = "attr"}
   <2>1. /\ n \in Nat /\ v \in Seq(Manipulators) /\ Len(v) = n + 1 /\ v[n + 1] = x
         /\ \A i \in 1..n : v[i] = u[i]
      OBVIOUS
   <2>2. \A w : AttributesOf(w) = {w[i].sgr[1] : i \in Those(w)}
      BY DEF AttributesOf
   <2>3. Those(v) = Those(u) \cup (IF x.kind = "attr" THEN {n + 1} ELSE {})
      BY <2>1
   <2>4. \A i \in Those(u) : v[i] = u[i]
      BY <2>1
   <2>5. AttributesOf(v) = {v[i].sgr[1] : i \in Those(v)} /\ AttributesOf(u) = {u[i].sgr[1] : i \in Those(u)}
      BY <2>2
   <2> HIDE DEF v, Those, n
   <2>6. ASSUME NEW y
         PROVE  y \in AttributesOf(v) <=> y \in AttributesOf(u) \/ (x.kind = "attr" /\ y = x.sgr[1])
      <3>1. y \in AttributesOf(v) <=> \E i \in Those(v) : y = v[i].sgr[1]
         BY <2>5
      <3>2. y \in AttributesOf(u) <=> \E i \in Those(u) : y = u[i].sgr[1]
         BY <2>5
      <3>3. CASE x.kind = "attr"
         <4>1. Those(v) = Those(u) \cup {n + 1}
            BY <2>3, <3>3
         <4> QED
            BY <2>1, <2>4, <3>1, <3>2, <3>3, <4>1
      <3>4. CASE x.kind # "attr"
         <4>1. Those(v) = Those(u)
            BY <2>3, <3>4
         <4> QED
            BY <2>4, <3>1, <3>2, <3>4, <4>1
      <3> QED
         BY <3>3, <3>4
   <2> QED
      BY <2>6 DEF v
<1> QED
   BY <1>1, <1>2

--------------------------------------------------------------------------------
(* The WORD of the console: the foreground, the background, other bits, the    *)
(* reverse and the underscore.                                                 *)
Word(fg, bg, rest, reverse, underscore) ==
   fg + 16 * bg + 256 * rest + 16384 * reverse + 32768 * underscore

IsWord(word, f, b, r, p, q) ==
   /\ f \in 0..15 /\ b \in 0..15 /\ r \in 0..63 /\ p \in 0..1 /\ q \in 0..1
   /\ word = Word(f, b, r, p, q)

(* The parts of a WORD can be read and written apart from each other.          *)
LEMMA WordResult ==
   ASSUME NEW word, NEW f, NEW b, NEW r, NEW p, NEW q, IsWord(word, f, b, r, p, q)
   PROVE  /\ word % 16 = f /\ (word \div 16) % 16 = b /\ word \div 256 = r + 64 * p + 128 * q
          /\ \A g \in 0..15 : IsWord(WithForeground(word, g), g, b, r, p, q)
          /\ \A g \in 0..15 : IsWord(WithBackground(word, 16 * g), f, g, r, p, q)
          /\ IsWord(WithBit(word, COMMON_LVB_REVERSE_VIDEO), f, b, r, 1, q)
          /\ IsWord(WithBit(word, COMMON_LVB_UNDERSCORE), f, b, r, p, 1)
<1>0. f \in 0..15 /\ b \in 0..15 /\ r \in 0..63 /\ p \in 0..1 /\ q \in 0..1
   BY DEF IsWord
<1>1. word = f + 16 * b + 256 * r + 16384 * p + 32768 * q
   BY DEF IsWord, Word
<1>2. word \in Nat
   BY <1>0, <1>1
<1>3. word % 16 = f
   <2> DEFINE m == b + 16 * r + 1024 * p + 2048 * q
   <2>1. m \in Int /\ word = 16 * m + f
      BY <1>0, <1>1
   <2> HIDE DEF m
   <2> QED
      BY <1>0, <2>1
<1>4. word \div 16 = b + 16 * (r + 64 * p + 128 * q)
   <2> DEFINE m == b + 16 * (r + 64 * p + 128 * q)
   <2>1. m \in Int /\ word = 16 * m + f
      BY <1>0, <1>1
   <2> HIDE DEF m
   <2>2. word \div 16 = m
      BY <1>0, <2>1
   <2> QED
      BY <2>2 DEF m
<1>5. (word \div 16) % 16 = b
   <2> DEFINE m == r + 64 * p + 128 * q
   <2>1. m \in Int /\ word \div 16 = b + 16 * m
      BY <1>0, <1>4
   <2> HIDE DEF m
   <2> QED
      BY <1>0, <2>1
<1>6. word \div 256 = r + 64 * p + 128 * q
   <2> DEFINE m == r + 64 * p + 128 * q
              l == f + 16 * b
   <2>1. m \in Int /\ l \in 0..255 /\ word = 256 * m + l
      BY <1>0, <1>1
   <2> HIDE DEF m, l
   <2>2. word \div 256 = m
      BY <1>0, <2>1
   <2> QED
      BY <2>2 DEF m
<1>7. (word \div 16384) % 2 = p
   <2> DEFINE l == f + 16 * b + 256 * r
   <2>1. l \in Int /\ 0 <= l /\ l <= 16383 /\ word = 16384 * (p + 2 * q) + l
      BY <1>0, <1>1
   <2> HIDE DEF l
   <2>2. word \div 16384 = p + 2 * q
      BY <1>0, <2>1
   <2> QED
      BY <1>0, <2>2
<1>8. (word \div 32768) % 2 = q
   <2> DEFINE l == f + 16 * b + 256 * r + 16384 * p
   <2>1. l \in Int /\ 0 <= l /\ l <= 32767 /\ word = 32768 * q + l
      BY <1>0, <1>1
   <2> HIDE DEF l
   <2>2. word \div 32768 = q
      BY <1>0, <2>1
   <2> QED
      BY <1>0, <2>2
<1>9. \A g \in 0..15 : WithForeground(word, g) = Word(g, b, r, p, q)
   BY <1>0, <1>1, <1>3 DEF WithForeground, Word
<1>10. \A g \in 0..15 : WithBackground(word, 16 * g) = Word(f, g, r, p, q)
   BY <1>0, <1>1, <1>5 DEF WithBackground, Word
<1>11. WithBit(word, COMMON_LVB_REVERSE_VIDEO) = Word(f, b, r, 1, q)
   BY <1>0, <1>1, <1>7 DEF WithBit, Word, COMMON_LVB_REVERSE_VIDEO
<1>12. WithBit(word, COMMON_LVB_UNDERSCORE) = Word(f, b, r, p, 1)
   BY <1>0, <1>1, <1>8 DEF WithBit, Word, COMMON_LVB_UNDERSCORE
<1>13. 1 \in 0..1
   OBVIOUS
<1> QED
   BY <1>0, <1>3, <1>5, <1>6, <1>9, <1>10, <1>11, <1>12, <1>13 DEF IsWord

(* Every WORD has these parts. *)
LEMMA WordParts ==
   ASSUME NEW word \in Int, 0 <= word, word <= 65535
   PROVE  \E f, b, r, p, q : IsWord(word, f, b, r, p, q)
<1> DEFINE f == word % 16
           s == word \div 16
           b == s % 16
           t == s \div 16
           r == t % 64
           v == t \div 64
           p == v % 2
           q == v \div 2
<1>1. f \in 0..15 /\ s \in Int /\ 0 <= s /\ s <= 4095 /\ word = 16 * s + f
   OBVIOUS
<1> HIDE DEF f, s
<1>2. b \in 0..15 /\ t \in Int /\ 0 <= t /\ t <= 255 /\ s = 16 * t + b
   BY <1>1
<1> HIDE DEF b, t
<1>3. r \in 0..63 /\ v \in Int /\ 0 <= v /\ v <= 3 /\ t = 64 * v + r
   BY <1>2
<1> HIDE DEF r, v
<1>4. p \in 0..1 /\ q \in 0..1 /\ v = 2 * q + p
   BY <1>3
<1> HIDE DEF p, q
<1>5. word = Word(f, b, r, p, q)
   <2>1. t = 64 * (2 * q + p) + r /\ t \in Int
      BY <1>2, <1>3, <1>4
   <2>2. s = 16 * (64 * (2 * q + p) + r) + b
      BY <1>2, <2>1
   <2>3. word = 16 * (16 * (64 * (2 * q + p) + r) + b) + f
      BY <1>1, <2>2
   <2>4. 16 * (16 * (64 * (2 * q + p) + r) + b) + f = f + 16 * b + 256 * r + 16384 * p + 32768 * q
      BY <1>1, <1>2, <1>3, <1>4
   <2> QED
      BY <2>3, <2>4 DEF Word
<1>6. f \in 0..15 /\ b \in 0..15 /\ r \in 0..63 /\ p \in 0..1 /\ q \in 0..1
   BY <1>1, <1>2, <1>3, <1>4
<1>7. IsWord(word, f, b, r, p, q)
   BY <1>5, <1>6, SMT DEF IsWord
<1> QED
   BY <1>7, SMT

(* What the console is meant to have, by parts: the settings, and its own      *)
(* WORD, are any.                                                              *)
LEMMA MeantWord ==
   ASSUME NEW u \in Seq(Manipulators), NEW own, NEW f, NEW b, NEW r, NEW p, NEW q, IsWord(own, f, b, r, p, q)
   PROVE  LET fg == LastOf(u, "fg", 1..1)
              bg == LastOf(u, "bg", 1..1)
          IN IsWord(MeantOnConsole(u, own),
                    IF fg = <<>> THEN f ELSE ColourOf(fg[1]),
                    IF bg = <<>> THEN b ELSE ColourOf(bg[1] - 10),
                    r,
                    IF 7 \in AttributesOf(u) THEN 1 ELSE p,
                    IF 4 \in AttributesOf(u) THEN 1 ELSE q)
<1> DEFINE fg == LastOf(u, "fg", 1..1)
           bg == LastOf(u, "bg", 1..1)
           attrs == AttributesOf(u)
           F == IF fg = <<>> THEN f ELSE ColourOf(fg[1])
           B == IF bg = <<>> THEN b ELSE ColourOf(bg[1] - 10)
           P == IF 7 \in attrs THEN 1 ELSE p
           Q == IF 4 \in attrs THEN 1 ELSE q
           colours == (IF fg = <<>> THEN own % 16 ELSE ColourOf(fg[1]))
                         + 16 * (IF bg = <<>> THEN (own \div 16) % 16 ELSE ColourOf(bg[1] - 10))
                         + 256 * (own \div 256)
           underlined == IF 4 \in attrs THEN WithBit(colours, COMMON_LVB_UNDERSCORE) ELSE colours
<1>1. f \in 0..15 /\ b \in 0..15 /\ r \in 0..63 /\ p \in 0..1 /\ q \in 0..1 /\ own = Word(f, b, r, p, q)
   BY DEF IsWord
<1>2. own % 16 = f /\ (own \div 16) % 16 = b /\ own \div 256 = r + 64 * p + 128 * q
   BY WordResult
<1>3. F \in 0..15
   <2>1. CASE fg # <<>>
      <3>1. \E x \in Manipulators : x.kind = "fg" /\ Len(x.sgr) = 1 /\ fg = x.sgr
         BY <2>1, ColourFound
      <3>2. PICK x \in Manipulators : x.kind = "fg" /\ Len(x.sgr) = 1 /\ fg = x.sgr
         BY <3>1
      <3> HIDE DEF fg
      <3>3. ColourOf(fg[1]) \in 0..15
         BY <3>2, SettingResult
      <3> QED
         BY <2>1, <3>3
   <2> QED
      BY <1>1, <2>1
<1>4. B \in 0..15
   <2>1. CASE bg # <<>>
      <3>1. \E x \in Manipulators : x.kind = "bg" /\ Len(x.sgr) = 1 /\ bg = x.sgr
         BY <2>1, ColourFound
      <3>2. PICK x \in Manipulators : x.kind = "bg" /\ Len(x.sgr) = 1 /\ bg = x.sgr
         BY <3>1
      <3> HIDE DEF bg
      <3>3. ColourOf(bg[1] - 10) \in 0..15
         BY <3>2, SettingResult
      <3> QED
         BY <2>1, <3>3
   <2> QED
      BY <1>1, <2>1
<1>5. MeantOnConsole(u, own) = IF 7 \in attrs THEN WithBit(underlined, COMMON_LVB_REVERSE_VIDEO) ELSE underlined
   BY DEF MeantOnConsole
<1>6. colours = F + 16 * B + 256 * (own \div 256)
   BY <1>2
<1> HIDE DEF fg, bg, attrs, F, B, colours, underlined
<1>7. IsWord(colours, F, B, r, p, q)
   BY <1>1, <1>2, <1>3, <1>4, <1>6 DEF Word, IsWord
<1>8. IsWord(underlined, F, B, r, p, Q)
   <2>1. CASE 4 \in attrs
      <3>1. IsWord(WithBit(colours, COMMON_LVB_UNDERSCORE), F, B, r, p, 1)
         BY <1>7, WordResult
      <3> QED
         BY <2>1, <3>1 DEF underlined
   <2>2. CASE 4 \notin attrs
      BY <1>7, <2>2 DEF underlined
   <2> QED
      BY <2>1, <2>2
<1>9. IsWord(MeantOnConsole(u, own), F, B, r, P, Q)
   <2>1. CASE 7 \in attrs
      <3>1. IsWord(WithBit(underlined, COMMON_LVB_REVERSE_VIDEO), F, B, r, 1, Q)
         BY <1>8, WordResult
      <3> QED
         BY <1>5, <2>1, <3>1
   <2>2. CASE 7 \notin attrs
      BY <1>5, <1>8, <2>2
   <2> QED
      BY <2>1, <2>2
<1> QED
   BY <1>9 DEF fg, bg, attrs, F, B, P, Q

(* ... as one more Setting is given. *)
LEMMA MeantWordAppend ==
   ASSUME NEW u \in Seq(Manipulators), NEW x \in Changes, NEW own, NEW f, NEW b, NEW r, NEW p, NEW q,
          IsWord(own, f, b, r, p, q)
   PROVE  /\ MeantOnConsole(<<>>, own) = own
          /\ MeantOnConsole(Append(u, x), own) = WinChangeAttributes(MeantOnConsole(u, own), x)
<1> DEFINE Fg(v) == LET fg == LastOf(v, "fg", 1..1) IN IF fg = <<>> THEN f ELSE ColourOf(fg[1])
           Bg(v) == LET bg == LastOf(v, "bg", 1..1) IN IF bg = <<>> THEN b ELSE ColourOf(bg[1] - 10)
           Rv(v) == IF 7 \in AttributesOf(v) THEN 1 ELSE p
           Us(v) == IF 4 \in AttributesOf(v) THEN 1 ELSE q
           w == Append(u, x)
           meant == MeantOnConsole(u, own)
<1>1. \A v \in Seq(Manipulators) : IsWord(MeantOnConsole(v, own), Fg(v), Bg(v), r, Rv(v), Us(v))
   BY MeantWord
<1>2. x \in Manipulators /\ x.kind # "reset" /\ w \in Seq(Manipulators)
   BY DEF Changes
<1>3. MeantOnConsole(<<>>, own) = own
   <2>1. <<>> \in Seq(Manipulators)
      OBVIOUS
   <2>2. LastOf(<<>>, "fg", 1..1) = <<>> /\ LastOf(<<>>, "bg", 1..1) = <<>> /\ AttributesOf(<<>>) = {}
      BY <2>1, LastOfEmpty, AttributesAppend
   <2>3. Fg(<<>>) = f /\ Bg(<<>>) = b /\ Rv(<<>>) = p /\ Us(<<>>) = q
      BY <2>2
   <2> HIDE DEF Fg, Bg, Rv, Us
   <2>4. IsWord(MeantOnConsole(<<>>, own), f, b, r, p, q)
      BY <1>1, <2>1, <2>3
   <2> QED
      BY <2>4 DEF IsWord
<1>4. /\ Fg(w) = IF x.kind = "fg" /\ Len(x.sgr) = 1 THEN ColourOf(x.sgr[1]) ELSE Fg(u)
      /\ Bg(w) = IF x.kind = "bg" /\ Len(x.sgr) = 1 THEN ColourOf(x.sgr[1] - 10) ELSE Bg(u)
   <2>1. \A kind : LastOf(w, kind, 1..1) =
                      IF x.kind = kind /\ Len(x.sgr) = 1 THEN x.sgr ELSE LastOf(u, kind, 1..1)
      BY <1>2, ColourAppend
   <2>2. x.sgr # <<>>
      BY <1>2, NotEmpty
   <2> HIDE DEF w
   <2> QED
      BY <2>1, <2>2
<1>5. /\ Rv(w) = IF x.kind = "attr" /\ x.sgr[1] = 7 THEN 1 ELSE Rv(u)
      /\ Us(w) = IF x.kind = "attr" /\ x.sgr[1] = 4 THEN 1 ELSE Us(u)
   <2>1. AttributesOf(w) = AttributesOf(u) \cup (IF x.kind = "attr" THEN {x.sgr[1]} ELSE {})
      BY <1>2, AttributesAppend
   <2> HIDE DEF w
   <2> QED
      BY <2>1
<1>6. IsWord(meant, Fg(u), Bg(u), r, Rv(u), Us(u)) /\ IsWord(MeantOnConsole(w, own), Fg(w), Bg(w), r, Rv(w), Us(w))
   BY <1>1, <1>2
<1> HIDE DEF Fg, Bg, Rv, Us, w, meant
<1> DEFINE F == Fg(u)
           B == Bg(u)
           P == Rv(u)
           Q == Us(u)
<1>7. IsWord(meant, F, B, r, P, Q)
   BY <1>6
<1> HIDE DEF F, B, P, Q
<1>8. /\ \A g \in 0..15 : IsWord(WithForeground(meant, g), g, B, r, P, Q)
      /\ \A g \in 0..15 : IsWord(WithBackground(meant, 16 * g), F, g, r, P, Q)
      /\ IsWord(WithBit(meant, COMMON_LVB_REVERSE_VIDEO), F, B, r, 1, Q)
      /\ IsWord(WithBit(meant, COMMON_LVB_UNDERSCORE), F, B, r, P, 1)
   BY <1>7, WordResult
<1>12. ASSUME NEW word, IsWord(word, Fg(w), Bg(w), r, Rv(w), Us(w))
         PROVE  MeantOnConsole(w, own) = word
   BY <1>6, <1>12 DEF IsWord
<1>9. CASE x.kind = "fg"
   <2>1. Bg(w) = B /\ Rv(w) = P /\ Us(w) = Q
      BY <1>4, <1>5, <1>9 DEF B, P, Q
   <2>2. CASE Len(x.sgr) = 1
      <3>1. x.win \in 0..15 /\ x.win = ColourOf(x.sgr[1])
         BY <1>2, <1>9, <2>2, SettingResult
      <3>2. x.win # -1
         BY <3>1
      <3>3. WinChangeAttributes(meant, x) = WithForeground(meant, x.win)
         BY <1>9, <3>2 DEF WinChangeAttributes
      <3>4. Fg(w) = x.win
         BY <1>4, <1>9, <2>2, <3>1
      <3> QED
         BY <1>3, <1>12, <1>8, <2>1, <3>1, <3>3, <3>4 DEF w, meant
   <2>3. CASE Len(x.sgr) # 1
      <3>1. x.win = -1
         BY <1>2, <1>9, <2>3, SettingResult
      <3>2. WinChangeAttributes(meant, x) = meant
         BY <3>1 DEF WinChangeAttributes
      <3>3. Fg(w) = F
         BY <1>4, <1>9, <2>3 DEF F
      <3> QED
         BY <1>3, <1>12, <1>7, <2>1, <3>2, <3>3 DEF w, meant
   <2> QED
      BY <2>2, <2>3
<1>10. CASE x.kind = "bg"
   <2>1. Fg(w) = F /\ Rv(w) = P /\ Us(w) = Q
      BY <1>4, <1>5, <1>10 DEF F, P, Q
   <2>2. CASE Len(x.sgr) = 1
      <3> DEFINE g == ColourOf(x.sgr[1] - 10)
      <3>1. g \in 0..15 /\ x.win = 16 * g
         BY <1>2, <1>10, <2>2, SettingResult
      <3>2. Bg(w) = g
         BY <1>4, <1>10, <2>2
      <3> HIDE DEF g
      <3>3. x.win # -1
         BY <3>1
      <3>4. WinChangeAttributes(meant, x) = WithBackground(meant, 16 * g)
         BY <1>10, <3>1, <3>3 DEF WinChangeAttributes
      <3> QED
         BY <1>3, <1>12, <1>8, <2>1, <3>1, <3>2, <3>4 DEF w, meant
   <2>3. CASE Len(x.sgr) # 1
      <3>1. x.win = -1
         BY <1>2, <1>10, <2>3, SettingResult
      <3>2. WinChangeAttributes(meant, x) = meant
         BY <3>1 DEF WinChangeAttributes
      <3>3. Bg(w) = B
         BY <1>4, <1>10, <2>3 DEF B
      <3> QED
         BY <1>3, <1>12, <1>7, <2>1, <3>2, <3>3 DEF w, meant
   <2> QED
      BY <2>2, <2>3
<1>11. CASE x.kind = "attr"
   <2>1. Fg(w) = F /\ Bg(w) = B
      BY <1>4, <1>11 DEF F, B
   <2> DEFINE n == x.sgr[1]
   <2>2. n \in 1..9 /\ x.win = Attribute(n).win
      BY <1>2, <1>11, SettingResult
   <2>3. Rv(w) = (IF n = 7 THEN 1 ELSE P) /\ Us(w) = (IF n = 4 THEN 1 ELSE Q)
      BY <1>5, <1>11 DEF P, Q
   <2> HIDE DEF n
   <2>4. CASE n = 4
      <3>1. x.win = COMMON_LVB_UNDERSCORE /\ x.win # -1
         BY <2>2, <2>4, SMT DEF Attribute, COMMON_LVB_UNDERSCORE
      <3>2. WinChangeAttributes(meant, x) = WithBit(meant, COMMON_LVB_UNDERSCORE)
         BY <1>11, <3>1 DEF WinChangeAttributes
      <3>3. Rv(w) = P /\ Us(w) = 1
         BY <2>3, <2>4
      <3>4. IsWord(WithBit(meant, COMMON_LVB_UNDERSCORE), Fg(w), Bg(w), r, Rv(w), Us(w))
         BY <1>8, <2>1, <3>3
      <3>5. MeantOnConsole(w, own) = WinChangeAttributes(meant, x)
         BY <1>12, <3>2, <3>4
      <3> QED
         BY <1>3, <3>5 DEF w, meant
   <2>5. CASE n = 7
      <3>1. x.win = COMMON_LVB_REVERSE_VIDEO /\ x.win # -1
         BY <2>2, <2>5, SMT DEF Attribute, COMMON_LVB_REVERSE_VIDEO
      <3>2. WinChangeAttributes(meant, x) = WithBit(meant, COMMON_LVB_REVERSE_VIDEO)
         BY <1>11, <3>1 DEF WinChangeAttributes
      <3>3. Rv(w) = 1 /\ Us(w) = Q
         BY <2>3, <2>5
      <3>4. IsWord(WithBit(meant, COMMON_LVB_REVERSE_VIDEO), Fg(w), Bg(w), r, Rv(w), Us(w))
         BY <1>8, <2>1, <3>3
      <3>5. MeantOnConsole(w, own) = WinChangeAttributes(meant, x)
         BY <1>12, <3>2, <3>4
      <3> QED
         BY <1>3, <3>5 DEF w, meant
   <2>6. CASE n \notin {4, 7}
      <3>1. x.win = -1
         BY <2>2, <2>6 DEF Attribute
      <3>2. WinChangeAttributes(meant, x) = meant
         BY <3>1 DEF WinChangeAttributes
      <3> QED
         BY <1>3, <1>12, <1>7, <2>1, <2>3, <2>6, <3>2 DEF w, meant
   <2> QED
      BY <2>4, <2>5, <2>6
<1> QED
   BY <1>2, <1>9, <1>10, <1>11, SettingResult

--------------------------------------------------------------------------------
(* The Attributes of a level fit what it was given: the last colour of each    *)
(* ground, the attributes one by one, and the WORD that is meant.              *)
HasParts(word) == \E f, b, r, p, q : IsWord(word, f, b, r, p, q)

Ground(settings, kind) ==
   LET sgr == LastOf(settings, kind, 1..5) IN IF sgr = <<>> THEN <<>> ELSE <<sgr>>

Numbers(attr) == {attr[i][1] : i \in 1..Len(attr)}

Fits(attrs, settings, own) ==
   /\ attrs = [fg |-> Ground(settings, "fg"), bg |-> Ground(settings, "bg"),
               attr |-> attrs.attr, win |-> MeantOnConsole(settings, own)]
   /\ attrs.attr \in Seq({<<n>> : n \in 1..9}) /\ Numbers(attrs.attr) = AttributesOf(settings)

Matches(attrs, asked, own) == /\ asked \in Seq(Manipulators)
                              /\ Fits(attrs, SinceReset(asked), own)

(* One more attribute adds its number.                                         *)
LEMMA NumbersAppend ==
   ASSUME NEW attr \in Seq({<<n>> : n \in 1..9}), NEW n \in 1..9
   PROVE  /\ Append(attr, <<n>>) \in Seq({<<i>> : i \in 1..9})
          /\ Numbers(Append(attr, <<n>>)) = Numbers(attr) \cup {n}
<1> DEFINE S == {<<i>> : i \in 1..9}
           more == Append(attr, <<n>>)
           l == Len(attr)
<1>1. <<n>> \in S /\ attr \in Seq(S)
   OBVIOUS
<1> HIDE DEF S
<1>2. /\ more \in Seq(S) /\ Len(more) = l + 1 /\ l \in Nat /\ more[l + 1] = <<n>>
      /\ \A i \in 1..l : more[i] = attr[i]
   BY <1>1
<1> HIDE DEF more, l
<1>3. more[l + 1][1] = n
   BY <1>2
<1>4. ASSUME NEW y
      PROVE  y \in Numbers(more) <=> y \in Numbers(attr) \/ y = n
   <2>1. y \in Numbers(more) <=> \E i \in 1..(l + 1) : y = more[i][1]
      BY <1>2 DEF Numbers
   <2>2. y \in Numbers(attr) <=> \E i \in 1..l : y = attr[i][1]
      BY DEF Numbers, l
   <2>3. 1..(l + 1) = 1..l \cup {l + 1}
      BY <1>2
   <2>4. \A i : i \in 1..(l + 1) <=> i \in 1..l \/ i = l + 1
      BY <2>3
   <2> QED
      BY <1>2, <1>3, <2>1, <2>2, <2>4
<1> QED
   BY <1>2, <1>4 DEF more, S

(* Nothing given yet. *)
LEMMA FitsNothing ==
   ASSUME NEW stream, HasParts(defaults[stream])
   PROVE  Fits(NewAttributes(stream), <<>>, defaults[stream])
<1> DEFINE own == defaults[stream]
<1>1. NewAttributes(stream) = [fg |-> <<>>, bg |-> <<>>, attr |-> <<>>, win |-> own]
   BY DEF NewAttributes
<1> HIDE DEF own
<1>2. Ground(<<>>, "fg") = <<>> /\ Ground(<<>>, "bg") = <<>>
   BY LastOfEmpty DEF Ground
<1>3. <<>> \in Seq(Manipulators)
   OBVIOUS
<1>4. AttributesOf(<<>>) = {}
   BY <1>3, AttributesAppend
<1>5. MeantOnConsole(<<>>, own) = own
   <2>1. PICK f, b, r, p, q : IsWord(own, f, b, r, p, q)
      BY DEF HasParts, own
   <2>2. LastOf(<<>>, "fg", 1..1) = <<>> /\ LastOf(<<>>, "bg", 1..1) = <<>>
      BY LastOfEmpty
   <2>3. IsWord(MeantOnConsole(<<>>, own), f, b, r, p, q)
      BY <1>3, <1>4, <2>1, <2>2, MeantWord
   <2> QED
      BY <2>1, <2>3 DEF IsWord
<1>6. Numbers(<<>>) = {}
   <2>1. Len(<<>>) = 0
      OBVIOUS
   <2> QED
      BY <2>1 DEF Numbers
<1>7. <<>> \in Seq({<<n>> : n \in 1..9})
   OBVIOUS
<1> QED
   <2> DEFINE new == NewAttributes(stream)
   <2>1. new.attr = <<>> /\ new = [fg |-> <<>>, bg |-> <<>>, attr |-> new.attr, win |-> own]
      BY <1>1
   <2> HIDE DEF new
   <2>2. Fits(new, <<>>, own)
      BY <1>2, <1>4, <1>5, <1>6, <1>7, <2>1 DEF Fits
   <2> QED
      BY <2>2 DEF new, own

(* A manipulator that is not reset. *)
LEMMA FitsOneMore ==
   ASSUME NEW stream, HasParts(defaults[stream]), NEW u \in Seq(Changes), NEW x \in Changes,
          NEW attrs, Fits(attrs, u, defaults[stream])
   PROVE  Fits(Manipulate(attrs, x, stream), Append(u, x), defaults[stream])
<1> DEFINE own == defaults[stream]
           w == Append(u, x)
           fg == Ground(u, "fg")
           bg == Ground(u, "bg")
           attr == attrs.attr
           win == MeantOnConsole(u, own)
           new == Manipulate(attrs, x, stream)
<1>1. x \in Manipulators /\ x.kind \in {"fg", "bg", "attr"} /\ u \in Seq(Manipulators)
   <2>1. x \in Manipulators /\ x.kind # "reset" /\ Changes \subseteq Manipulators
      BY DEF Changes
   <2> QED
      BY <2>1, SettingResult
<1>2. /\ attrs = [fg |-> fg, bg |-> bg, attr |-> attr, win |-> win]
      /\ attr \in Seq({<<n>> : n \in 1..9}) /\ Numbers(attr) = AttributesOf(u)
   BY DEF Fits
<1>3. MeantOnConsole(w, own) = WinChangeAttributes(win, x)
   <2>1. PICK f, b, r, p, q : IsWord(own, f, b, r, p, q)
      BY DEF HasParts
   <2> QED
      BY <1>1, <2>1, MeantWordAppend
<1>4. \A kind \in {"fg", "bg"} : Ground(w, kind) = IF x.kind = kind THEN <<x.sgr>> ELSE Ground(u, kind)
   <2> TAKE kind \in {"fg", "bg"}
   <2>1. LastOf(w, kind, 1..5) = IF x.kind = kind THEN x.sgr ELSE LastOf(u, kind, 1..5)
      BY <1>1, GroundAppend
   <2>2. x.sgr # <<>>
      BY <1>1, NotEmpty
   <2> QED
      BY <2>1, <2>2 DEF Ground
<1>5. AttributesOf(w) = AttributesOf(u) \cup (IF x.kind = "attr" THEN {x.sgr[1]} ELSE {})
   BY <1>1, AttributesAppend
<1> HIDE DEF own, w, fg, bg, attr, win, new
<1> DEFINE win2 == WinChangeAttributes(win, x)
<1> HIDE DEF win2
<1>6. CASE x.kind = "fg"
   <2>1. new = [attrs EXCEPT !.fg = <<x.sgr>>, !.win = WinChangeAttributes(@, x)]
      BY <1>6 DEF new, Manipulate
   <2>2. new = [fg |-> <<x.sgr>>, bg |-> bg, attr |-> attr, win |-> win2]
      BY <1>2, <2>1 DEF win2
   <2>3. Ground(w, "fg") = <<x.sgr>> /\ Ground(w, "bg") = bg /\ AttributesOf(w) = AttributesOf(u)
      BY <1>4, <1>5, <1>6 DEF bg
   <2>4. Fits(new, w, own)
      BY <1>2, <1>3, <2>2, <2>3 DEF Fits, win2
   <2> QED
      BY <2>4 DEF new, w, own
<1>7. CASE x.kind = "bg"
   <2>1. new = [attrs EXCEPT !.bg = <<x.sgr>>, !.win = WinChangeAttributes(@, x)]
      BY <1>7 DEF new, Manipulate
   <2>2. new = [fg |-> fg, bg |-> <<x.sgr>>, attr |-> attr, win |-> win2]
      BY <1>2, <2>1 DEF win2
   <2>3. Ground(w, "bg") = <<x.sgr>> /\ Ground(w, "fg") = fg /\ AttributesOf(w) = AttributesOf(u)
      BY <1>4, <1>5, <1>7 DEF fg
   <2>4. Fits(new, w, own)
      BY <1>2, <1>3, <2>2, <2>3 DEF Fits, win2
   <2> QED
      BY <2>4 DEF new, w, own
<1>8. CASE x.kind = "attr"
   <2>1. new = [attrs EXCEPT !.attr = Append(@, x.sgr), !.win = WinChangeAttributes(@, x)]
      BY <1>8 DEF new, Manipulate
   <2>2. new = [fg |-> fg, bg |-> bg, attr |-> Append(attr, x.sgr), win |-> win2]
      BY <1>2, <2>1 DEF win2
   <2>3. Ground(w, "fg") = fg /\ Ground(w, "bg") = bg
      BY <1>4, <1>8 DEF fg, bg
   <2>4. x.sgr = <<x.sgr[1]>> /\ x.sgr[1] \in 1..9
      BY <1>1, <1>8, SettingResult
   <2> DEFINE more == Append(attr, x.sgr)
   <2>5. more \in Seq({<<n>> : n \in 1..9}) /\ Numbers(more) = AttributesOf(w)
      <3> DEFINE n == x.sgr[1]
      <3>1. n \in 1..9 /\ x.sgr = <<n>>
         BY <2>4
      <3>2. AttributesOf(w) = AttributesOf(u) \cup {n}
         BY <1>5, <1>8
      <3> HIDE DEF n
      <3>3. Append(attr, <<n>>) \in Seq({<<i>> : i \in 1..9}) /\ Numbers(Append(attr, <<n>>)) = Numbers(attr) \cup {n}
         BY <1>2, <3>1, NumbersAppend
      <3> QED
         BY <1>2, <3>1, <3>2, <3>3
   <2> HIDE DEF more
   <2>6. new.attr = more /\ new = [fg |-> fg, bg |-> bg, attr |-> more, win |-> win2]
      BY <2>2 DEF more
   <2>7. Fits(new, w, own)
      BY <1>3, <2>3, <2>5, <2>6 DEF Fits, win2
   <2> QED
      BY <2>7 DEF new, w, own
<1> QED
   BY <1>1, <1>6, <1>7, <1>8

(* Any manipulator. *)
LEMMA MatchesOneMore ==
   ASSUME NEW stream, HasParts(defaults[stream]), NEW x \in Manipulators,
          NEW attrs, NEW asked, Matches(attrs, asked, defaults[stream])
   PROVE  Matches(Manipulate(attrs, x, stream), Append(asked, x), defaults[stream])
<1> DEFINE u == SinceReset(asked)
           more == Append(asked, x)
<1>1. asked \in Seq(Manipulators) /\ Fits(attrs, u, defaults[stream])
   BY DEF Matches
<1>2. /\ u \in Seq(Changes) /\ more \in Seq(Manipulators)
      /\ SinceReset(more) = IF x.kind = "reset" THEN <<>> ELSE Append(u, x)
   BY <1>1, SinceResetAppend
<1> HIDE DEF u, more
<1>3. CASE x.kind = "reset"
   <2>1. Manipulate(attrs, x, stream) = NewAttributes(stream)
      BY <1>3 DEF Manipulate
   <2>2. Matches(NewAttributes(stream), more, defaults[stream])
      BY <1>2, <1>3, FitsNothing DEF Matches
   <2> QED
      BY <2>1, <2>2 DEF more
<1>4. CASE x.kind # "reset"
   <2>1. x \in Changes /\ SinceReset(more) = Append(u, x)
      BY <1>2, <1>4 DEF Changes
   <2>2. Fits(Manipulate(attrs, x, stream), Append(u, x), defaults[stream])
      BY <1>1, <1>2, <2>1, FitsOneMore
   <2>3. Matches(Manipulate(attrs, x, stream), more, defaults[stream])
      BY <1>2, <2>1, <2>2 DEF Matches
   <2> QED
      BY <2>3 DEF more
<1> QED
   BY <1>3, <1>4

--------------------------------------------------------------------------------
(* Folds *)

(* f is what a fold over n elements is computed with, op[i] the step at i. *)
Computes(f, n, A, base, op) ==
   /\ f \in [SUBSET (1..n) -> A]
   /\ \A x \in SUBSET (1..n) : f[x] = IF x = {} THEN base ELSE op[Max(x)][f[x \ {Max(x)}]]

(* The function that a fold over n elements is computed with exists: it is     *)
(* extended element by element.                                                *)
LEMMA FoldExists ==
   ASSUME NEW n \in Nat, NEW A, NEW base \in A, NEW op, op \in [1..n -> [A -> A]]
   PROVE  \E f : Computes(f, n, A, base, op)
<1> DEFINE C(f, m) == Computes(f, m, A, base, op)
           Bad == {m \in 0..n : ~ \E f : C(f, m)}
<1>1. Bad \in SUBSET Nat
   OBVIOUS
<1>2. Bad # {} => Min(Bad) \in Bad /\ \A m \in Bad : Min(Bad) <= m
   <2> HIDE DEF Bad
   <2> QED
      BY <1>1, MinResult
<1>3. 0 \notin Bad
   <2> DEFINE f == [x \in SUBSET (1..0) |-> base]
   <2>1. \A x \in SUBSET (1..0) : x = {}
      OBVIOUS
   <2>2. C(f, 0)
      BY <2>1 DEF Computes
   <2> HIDE DEF C, f
   <2> QED
      BY <2>2
<1>4. ASSUME NEW m \in 0..n, m + 1 <= n, \E f : C(f, m)
      PROVE  \E f : C(f, m + 1)
   <2>1. PICK f : C(f, m)
      BY <1>4
   <2> DEFINE last == m + 1
              g == [x \in SUBSET (1..last) |->
                      IF last \in x THEN op[last][f[x \ {last}]] ELSE f[x]]
   <2>2. m \in Nat /\ last \in Nat /\ last \in 1..n /\ 1..last = 1..m \cup {last} /\ last \notin 1..m
      BY <1>4
   <2> HIDE DEF last
   <2>3. ASSUME NEW x \in SUBSET (1..last)
         PROVE  /\ last \in x => x \ {last} \in SUBSET (1..m)
                /\ last \notin x => x \in SUBSET (1..m)
      BY <2>2
   <2>4. f \in [SUBSET (1..m) -> A]
         /\ \A x \in SUBSET (1..m) : f[x] = IF x = {} THEN base ELSE op[Max(x)][f[x \ {Max(x)}]]
      BY <2>1 DEF Computes
   <2>5. g \in [SUBSET (1..last) -> A]
      BY <2>2, <2>3, <2>4
   <2>6. ASSUME NEW x \in SUBSET (1..last)
         PROVE  g[x] = IF x = {} THEN base ELSE op[Max(x)][g[x \ {Max(x)}]]
      <3>1. CASE last \in x
         <4>1. Max(x) = last
            <5>1. x \in SUBSET (1..last) /\ x # {}
               BY <3>1
            <5>2. Max(x) \in x /\ \A y \in x : y <= Max(x)
               BY <2>2, <5>1, MaxResult
            <5>3. last <= Max(x) /\ Max(x) \in 1..last
               BY <3>1, <5>2
            <5> QED
               BY <2>2, <5>3
         <4>2. x \ {last} \in SUBSET (1..last) /\ last \notin x \ {last}
            BY <2>3, <3>1
         <4>3. g[x] = op[last][f[x \ {last}]] /\ g[x \ {last}] = f[x \ {last}]
            BY <3>1, <4>2
         <4> HIDE DEF g
         <4> QED
            BY <3>1, <4>1, <4>3
      <3>2. CASE last \notin x
         <4>1. x \in SUBSET (1..m) /\ g[x] = f[x]
            BY <2>3, <3>2
         <4>2. CASE x = {}
            BY <2>4, <4>1, <4>2
         <4>3. CASE x # {}
            <5>1. f[x] = op[Max(x)][f[x \ {Max(x)}]]
               BY <2>4, <4>1, <4>3
            <5>2. x \ {Max(x)} \in SUBSET (1..last) /\ last \notin x \ {Max(x)}
               BY <3>2
            <5>3. g[x \ {Max(x)}] = f[x \ {Max(x)}]
               BY <5>2
            <5> HIDE DEF g
            <5> QED
               BY <4>1, <4>3, <5>1, <5>3
         <4> QED
            BY <4>2, <4>3
      <3> QED
         BY <3>1, <3>2
   <2> HIDE DEF g
   <2>7. C(g, last)
      BY <2>5, <2>6 DEF Computes
   <2> HIDE DEF C
   <2> QED
      BY <2>7 DEF last
<1> HIDE DEF C
<1>5. Bad = {}
   <2> SUFFICES ASSUME Bad # {} PROVE FALSE
      OBVIOUS
   <2> DEFINE k == Min(Bad)
   <2>1. k \in Bad /\ \A m \in Bad : k <= m
      BY <1>2
   <2>2. k \in 0..n /\ ~ \E f : C(f, k)
      BY <2>1
   <2>3. k # 0
      BY <1>3, <2>1
   <2> HIDE DEF k
   <2>4. k - 1 \in 0..n /\ k - 1 + 1 = k /\ ~ (k <= k - 1)
      BY <2>2, <2>3
   <2>5. k - 1 \notin Bad
      BY <2>1, <2>4
   <2>6. \E f : C(f, k - 1)
      BY <2>4, <2>5
   <2>7. k - 1 + 1 <= n
      BY <2>2, <2>4
   <2>8. \E f : C(f, k - 1 + 1)
      BY <1>4, <2>4, <2>6, <2>7
   <2> QED
      BY <2>2, <2>4, <2>8
<1>6. n \in 0..n
   OBVIOUS
<1>7. \E f : C(f, n)
   BY <1>5, <1>6
<1> QED
   BY <1>7 DEF C

(* The steps of such a function. *)
LEMMA FoldSteps ==
   ASSUME NEW n \in Nat, NEW m \in 1..n
   PROVE  /\ 1..m \in SUBSET (1..n) /\ 1..m # {} /\ Max(1..m) = m /\ (1..m) \ {m} = 1..(m - 1)
          /\ 1..0 = {}
<1>1. 1..m \in SUBSET (1..n) /\ m \in 1..m /\ (1..m) \ {m} = 1..(m - 1) /\ 1..0 = {} /\ m \in Nat
   OBVIOUS
<1>2. Max(1..m) \in 1..m /\ \A y \in 1..m : y <= Max(1..m)
   <2> DEFINE S == 1..m
   <2>1. S \in SUBSET (1..m) /\ S # {}
      BY <1>1
   <2> HIDE DEF S
   <2>2. Max(S) \in S /\ \A y \in S : y <= Max(S)
      BY <1>1, <2>1, MaxResult
   <2> QED
      BY <2>2 DEF S
<1>3. Max(1..m) = m
   BY <1>1, <1>2
<1> QED
   BY <1>1, <1>3

(* What Attributes are, whatever they were made with. *)
AnyAttributes == [fg : Seq(Seq(Int)), bg : Seq(Seq(Int)), attr : Seq(Seq(Int)), win : Int]

(* A manipulator makes Attributes of Attributes.                               *)
LEMMA ManipulateType ==
   ASSUME NEW stream, defaults[stream] \in Int, NEW attrs \in AnyAttributes, NEW x \in Manipulators
   PROVE  Manipulate(attrs, x, stream) \in AnyAttributes
<1>1. x.kind \in {"fg", "bg", "attr", "reset"} /\ x.sgr \in Seq(Int) /\ x.win \in Int
   BY SettingResult
<1>2. x.kind # "reset" => WinChangeAttributes(attrs.win, x) \in Int
   <2>1. \A w, b \in Int : WithForeground(w, b) \in Int /\ WithBackground(w, b) \in Int /\ WithBit(w, b) \in Int
      BY DEF WithForeground, WithBackground, WithBit
   <2>2. attrs.win \in Int
      BY DEF AnyAttributes
   <2> QED
      BY <1>1, <2>1, <2>2 DEF WinChangeAttributes
<1> DEFINE win == WinChangeAttributes(attrs.win, x)
<1>3. /\ attrs = [fg |-> attrs.fg, bg |-> attrs.bg, attr |-> attrs.attr, win |-> attrs.win]
      /\ attrs.fg \in Seq(Seq(Int)) /\ attrs.bg \in Seq(Seq(Int)) /\ attrs.attr \in Seq(Seq(Int))
   BY DEF AnyAttributes
<1>4. CASE x.kind = "reset"
   BY <1>4 DEF Manipulate, NewAttributes, AnyAttributes
<1>5. CASE x.kind = "fg"
   <2>1. Manipulate(attrs, x, stream) = [attrs EXCEPT !.fg = <<x.sgr>>, !.win = win]
      BY <1>5 DEF Manipulate
   <2> HIDE DEF win
   <2>2. Manipulate(attrs, x, stream) = [fg |-> <<x.sgr>>, bg |-> attrs.bg, attr |-> attrs.attr, win |-> win]
      BY <1>3, <2>1
   <2>3. <<x.sgr>> \in Seq(Seq(Int)) /\ win \in Int
      BY <1>1, <1>2, <1>5 DEF win
   <2> QED
      BY <1>3, <2>2, <2>3 DEF AnyAttributes
<1>6. CASE x.kind = "bg"
   <2>1. Manipulate(attrs, x, stream) = [attrs EXCEPT !.bg = <<x.sgr>>, !.win = win]
      BY <1>6 DEF Manipulate
   <2> HIDE DEF win
   <2>2. Manipulate(attrs, x, stream) = [fg |-> attrs.fg, bg |-> <<x.sgr>>, attr |-> attrs.attr, win |-> win]
      BY <1>3, <2>1
   <2>3. <<x.sgr>> \in Seq(Seq(Int)) /\ win \in Int
      BY <1>1, <1>2, <1>6 DEF win
   <2> QED
      BY <1>3, <2>2, <2>3 DEF AnyAttributes
<1>7. CASE x.kind = "attr"
   <2>1. Manipulate(attrs, x, stream) = [attrs EXCEPT !.attr = Append(attrs.attr, x.sgr), !.win = win]
      BY <1>7 DEF Manipulate
   <2> HIDE DEF win
   <2>2. Manipulate(attrs, x, stream) =
            [fg |-> attrs.fg, bg |-> attrs.bg, attr |-> Append(attrs.attr, x.sgr), win |-> win]
      BY <1>3, <2>1
   <2>3. Append(attrs.attr, x.sgr) \in Seq(Seq(Int)) /\ win \in Int
      <3>1. win \in Int
         BY <1>2, <1>7 DEF win
      <3>2. Append(attrs.attr, x.sgr) \in Seq(Seq(Int))
         BY <1>1, <1>3
      <3> QED
         BY <3>1, <3>2
   <2> QED
      BY <1>3, <2>2, <2>3 DEF AnyAttributes
<1> QED
   BY <1>1, <1>4, <1>5, <1>6, <1>7

(* A fold over Settings is as many manipulations, one after the other. *)
LEMMA FoldManipulate ==
   ASSUME NEW stream, defaults[stream] \in Int, NEW base \in AnyAttributes, NEW t \in Seq(Manipulators)
   PROVE  \E h : /\ h[0] = base
                 /\ \A m \in 1..Len(t) : h[m] = Manipulate(h[m - 1], t[m], stream)
                 /\ ManipulateAll(base, t, stream) = h[Len(t)]
<1> DEFINE n == Len(t)
           A == AnyAttributes
           F(f) == [x \in SUBSET (1..n) |->
                      IF x = {} THEN base ELSE Manipulate(f[x \ {Max(x)}], t[Max(x)], stream)]
           iter == CHOOSE f : f = F(f)
           op == [i \in 1..n |-> [a \in A |-> Manipulate(a, t[i], stream)]]
           h == [m \in 0..n |-> iter[1..m]]
<1>1. n \in Nat /\ DOMAIN t = 1..n /\ \A i \in 1..n : t[i] \in Manipulators
   OBVIOUS
<1>2. ManipulateAll(base, t, stream) = iter[1..n]
   BY <1>1 DEF ManipulateAll, FoldLeft, MapThenFoldSet
<1>3. op \in [1..n -> [A -> A]]
   BY <1>1, ManipulateType
<1>4. PICK f : Computes(f, n, A, base, op)
   <2>1. base \in A
      OBVIOUS
   <2> HIDE DEF op, n, A
   <2> QED
      BY <1>1, <1>3, <2>1, FoldExists
<1>5. f \in [SUBSET (1..n) -> A]
      /\ \A x \in SUBSET (1..n) : f[x] = IF x = {} THEN base ELSE op[Max(x)][f[x \ {Max(x)}]]
   BY <1>4 DEF Computes
<1>6. f = F(f)
   <2>1. ASSUME NEW x \in SUBSET (1..n)
         PROVE  f[x] = IF x = {} THEN base ELSE Manipulate(f[x \ {Max(x)}], t[Max(x)], stream)
      <3>1. CASE x = {}
         BY <1>5, <3>1
      <3>2. CASE x # {}
         <4>1. Max(x) \in x
            <5> HIDE DEF n
            <5> QED
               BY <1>1, <3>2, MaxResult
         <4>2. Max(x) \in 1..n /\ f[x \ {Max(x)}] \in A
            BY <1>5, <4>1
         <4>3. op[Max(x)][f[x \ {Max(x)}]] = Manipulate(f[x \ {Max(x)}], t[Max(x)], stream)
            <5> DEFINE i == Max(x)
                       a == f[x \ {Max(x)}]
            <5>1. i \in 1..n /\ a \in A
               BY <4>2
            <5> HIDE DEF i, a, A, n
            <5>2. op[i][a] = Manipulate(a, t[i], stream)
               BY <5>1
            <5> QED
               BY <5>2 DEF i, a
         <4> HIDE DEF op
         <4> QED
            BY <1>5, <3>2, <4>3
      <3> QED
         BY <3>1, <3>2
   <2> HIDE DEF A
   <2> QED
      BY <1>5, <2>1
<1>7. iter = F(iter)
   <2> HIDE DEF F
   <2> QED
      BY <1>6
<1>8. \A x \in SUBSET (1..n) :
         iter[x] = IF x = {} THEN base ELSE Manipulate(iter[x \ {Max(x)}], t[Max(x)], stream)
   <2> HIDE DEF iter
   <2> QED
      BY <1>7
<1> HIDE DEF iter, op, A, F, n
<1>9. h[0] = base
   <2>1. 1..0 = {} /\ {} \in SUBSET (1..n) /\ 0 \in 0..n
      BY <1>1
   <2>2. iter[{}] = base
      BY <1>8, <2>1
   <2> QED
      BY <2>1, <2>2
<1>10. ASSUME NEW m \in 1..n
       PROVE  h[m] = Manipulate(h[m - 1], t[m], stream)
   <2>1. m \in 0..n /\ m - 1 \in 0..n
      BY <1>1
   <2>2. 1..m \in SUBSET (1..n) /\ 1..m # {} /\ Max(1..m) = m /\ (1..m) \ {m} = 1..(m - 1)
      BY <1>1, FoldSteps
   <2> DEFINE x == 1..m
   <2> HIDE DEF x
   <2>3. iter[x] = Manipulate(iter[x \ {Max(x)}], t[Max(x)], stream)
      BY <1>8, <2>2 DEF x
   <2>4. iter[1..m] = Manipulate(iter[1..(m - 1)], t[m], stream)
      BY <2>2, <2>3 DEF x
   <2> QED
      BY <2>1, <2>4
<1>11. h[n] = iter[1..n]
   <2>1. n \in 0..n
      BY <1>1
   <2> QED
      BY <2>1
<1> HIDE DEF h
<1> QED
   BY <1>2, <1>9, <1>10, <1>11 DEF n

(* What fits is Attributes. *)
LEMMA MatchesType ==
   ASSUME NEW own, HasParts(own), NEW attrs, NEW asked, Matches(attrs, asked, own)
   PROVE  attrs \in AnyAttributes /\ own \in Int
<1> DEFINE u == SinceReset(asked)
<1>1. u \in Seq(Changes) /\ Fits(attrs, u, own)
   BY SinceResetAppend DEF Matches
<1> HIDE DEF u
<1>2. u \in Seq(Manipulators)
   BY <1>1 DEF Changes
<1>3. \A kind : Ground(u, kind) \in Seq(Seq(Int))
   <2> TAKE kind
   <2>1. CASE LastOf(u, kind, 1..5) = <<>>
      BY <2>1 DEF Ground
   <2>2. CASE LastOf(u, kind, 1..5) # <<>>
      <3>1. PICK x \in Manipulators : LastOf(u, kind, 1..5) = x.sgr
         BY <1>2, <2>2, GroundFound
      <3>2. x.sgr \in Seq(Int)
         BY SettingResult
      <3>3. Ground(u, kind) = <<x.sgr>>
         BY <2>2, <3>1 DEF Ground
      <3> HIDE <3>1
      <3> QED
         BY <3>2, <3>3
   <2> QED
      BY <2>1, <2>2
<1>4. PICK f, b, r, p, q : IsWord(own, f, b, r, p, q)
   BY DEF HasParts
<1>5. \A word, g, c, s, y, z : IsWord(word, g, c, s, y, z) => word \in Int
   BY DEF IsWord, Word
<1>6. MeantOnConsole(u, own) \in Int /\ own \in Int
   BY <1>2, <1>4, <1>5, MeantWord
<1>7. attrs.attr \in Seq(Seq(Int))
   <2>1. {<<n>> : n \in 1..9} \subseteq Seq(Int)
      <3>1. \A n \in 1..9 : <<n>> \in Seq(Int)
         OBVIOUS
      <3> QED
         BY <3>1
   <2>2. attrs.attr \in Seq({<<n>> : n \in 1..9})
      BY <1>1 DEF Fits
   <2> DEFINE S == {<<n>> : n \in 1..9}
   <2>3. S \subseteq Seq(Int) /\ attrs.attr \in Seq(S)
      BY <2>1, <2>2
   <2> HIDE DEF S
   <2> QED
      BY <2>3
<1>8. attrs = [fg |-> Ground(u, "fg"), bg |-> Ground(u, "bg"), attr |-> attrs.attr, win |-> MeantOnConsole(u, own)]
   BY <1>1 DEF Fits
<1> QED
   BY <1>3, <1>6, <1>7, <1>8 DEF AnyAttributes

(* The Attributes that were there, and Settings on top of them. *)
LEMMA MatchesMore ==
   ASSUME NEW stream, HasParts(defaults[stream]), NEW t \in Seq(Manipulators),
          NEW base, NEW asked, Matches(base, asked, defaults[stream])
   PROVE  Matches(ManipulateAll(base, t, stream),
                  asked \o t, defaults[stream])
<1> DEFINE n == Len(t)
           own == defaults[stream]
           Given(m) == asked \o SubSeq(t, 1, m)
<1>1. base \in AnyAttributes /\ own \in Int
   BY MatchesType
<1>2. PICK h : /\ h[0] = base
               /\ \A m \in 1..n : h[m] = Manipulate(h[m - 1], t[m], stream)
               /\ ManipulateAll(base, t, stream) = h[n]
   BY <1>1, FoldManipulate
<1> DEFINE Bad == {m \in 0..n : ~Matches(h[m], Given(m), own)}
<1>3. n \in Nat /\ asked \in Seq(Manipulators) /\ \A i \in 1..n : t[i] \in Manipulators
   BY DEF Matches
<1>4. Given(0) = asked /\ Given(n) = asked \o t
   <2>1. SubSeq(t, 1, 0) = <<>> /\ SubSeq(t, 1, n) = t
      BY <1>3
   <2>2. asked \o <<>> = asked
      BY <1>3
   <2> QED
      BY <2>1, <2>2
<1>5. \A m \in 1..n : Given(m) = Append(Given(m - 1), t[m])
   <2> TAKE m \in 1..n
   <2> DEFINE s == SubSeq(t, 1, m - 1)
   <2>1. SubSeq(t, 1, m) = Append(s, t[m]) /\ s \in Seq(Manipulators)
      BY <1>3
   <2> HIDE DEF s
   <2>2. asked \o Append(s, t[m]) = Append(asked \o s, t[m])
      BY <1>3, <2>1
   <2> QED
      BY <2>1, <2>2 DEF s
<1> HIDE DEF Given
<1>6. 0 \notin Bad
   BY <1>2, <1>4
<1>7. ASSUME NEW m \in 1..n, Matches(h[m - 1], Given(m - 1), own)
      PROVE  Matches(h[m], Given(m), own)
   <2>1. Matches(Manipulate(h[m - 1], t[m], stream), Append(Given(m - 1), t[m]), own)
      BY <1>3, <1>7, MatchesOneMore
   <2> QED
      BY <1>2, <1>5, <2>1
<1>8. Bad = {}
   <2> SUFFICES ASSUME Bad # {} PROVE FALSE
      OBVIOUS
   <2> DEFINE k == Min(Bad)
   <2>1. Bad \in SUBSET Nat
      BY <1>3
   <2>2. k \in Bad /\ \A m \in Bad : k <= m
      <3> HIDE DEF Bad
      <3> QED
         BY <2>1, MinResult
   <2>3. k \in 0..n /\ ~Matches(h[k], Given(k), own)
      BY <2>2
   <2>4. k # 0
      BY <1>6, <2>2
   <2> HIDE DEF k
   <2>5. k \in 1..n /\ k - 1 \in 0..n /\ ~ (k <= k - 1)
      BY <1>3, <2>3, <2>4
   <2>6. k - 1 \notin Bad
      BY <2>2, <2>5
   <2>7. Matches(h[k - 1], Given(k - 1), own)
      BY <2>5, <2>6
   <2> QED
      BY <1>7, <2>3, <2>5, <2>7
<1>9. n \in 0..n
   BY <1>3
<1>10. Matches(h[n], asked \o t, own)
   BY <1>4, <1>8, <1>9
<1> QED
   BY <1>2, <1>10

(* The scheme of a sink. *)
SchemeMatches(scheme, asked, own) ==
   /\ DOMAIN scheme = DOMAIN asked
   /\ \A level \in DOMAIN asked : Matches(scheme[level], asked[level], own)

(* Settings that are merged into a scheme, and those that replace it. *)
LEMMA SchemeResult ==
   ASSUME NEW stream, HasParts(defaults[stream]), NEW old, NEW asked, NEW settings,
          SchemeMatches(old, asked, defaults[stream]),
          \A level \in DOMAIN settings : settings[level] \in Seq(Manipulators)
   PROVE  /\ SchemeMatches(SettingsToWorkingScheme(old, settings, FALSE, stream), Merged(asked, settings),
                           defaults[stream])
          /\ SchemeMatches(SettingsToWorkingScheme(old, settings, TRUE, stream), settings, defaults[stream])
<1> DEFINE own == defaults[stream]
<1>1. Matches(NewAttributes(stream), <<>>, own)
   <2>1. <<>> \in Seq(Manipulators) /\ SinceReset(<<>>) = <<>>
      <3>1. <<>> \in Seq(Manipulators)
         OBVIOUS
      <3> QED
         BY <3>1, SinceResetAppend
   <2> QED
      BY <2>1, FitsNothing DEF Matches
<1>2. ASSUME NEW level \in DOMAIN settings
      PROVE  Matches(ManipulateAll(NewAttributes(stream), settings[level], stream), settings[level], own)
   <2>1. settings[level] \in Seq(Manipulators)
      OBVIOUS
   <2>2. <<>> \o settings[level] = settings[level]
      BY <2>1
   <2> DEFINE t == settings[level]
   <2> HIDE DEF t
   <2>3. Matches(ManipulateAll(NewAttributes(stream), t, stream), <<>> \o t, own)
      BY <1>1, <2>1, MatchesMore DEF t
   <2> QED
      BY <2>2, <2>3 DEF t
<1>3. SchemeMatches(SettingsToWorkingScheme(old, settings, TRUE, stream), settings, own)
   <2> DEFINE new == SettingsToWorkingScheme(old, settings, TRUE, stream)
   <2>1. DOMAIN <<>> = {}
      OBVIOUS
   <2>2. DOMAIN new = DOMAIN settings
         /\ \A level \in DOMAIN settings :
               new[level] = ManipulateAll(NewAttributes(stream), settings[level], stream)
      BY <2>1 DEF SettingsToWorkingScheme
   <2> HIDE DEF new
   <2>3. SchemeMatches(new, settings, own)
      BY <1>2, <2>2 DEF SchemeMatches
   <2> QED
      BY <2>3 DEF new
<1>4. SchemeMatches(SettingsToWorkingScheme(old, settings, FALSE, stream), Merged(asked, settings), own)
   <2> DEFINE new == SettingsToWorkingScheme(old, settings, FALSE, stream)
              all == Merged(asked, settings)
   <2>1. DOMAIN new = DOMAIN asked \cup DOMAIN settings /\ DOMAIN all = DOMAIN asked \cup DOMAIN settings
      BY DEF SettingsToWorkingScheme, Merged, SchemeMatches
   <2>2. ASSUME NEW level \in DOMAIN asked \cup DOMAIN settings
         PROVE  Matches(new[level], all[level], own)
      <3> DEFINE base == IF level \in DOMAIN asked THEN old[level] ELSE NewAttributes(stream)
                 before == IF level \in DOMAIN asked THEN asked[level] ELSE <<>>
                 t == IF level \in DOMAIN settings THEN settings[level] ELSE <<>>
      <3>1. new[level] = ManipulateAll(base, t, stream) /\ all[level] = before \o t
         <4>1. DOMAIN old = DOMAIN asked
            BY DEF SchemeMatches
         <4> QED
            BY <4>1 DEF SettingsToWorkingScheme, Merged
      <3>2. Matches(base, before, own)
         BY <1>1 DEF SchemeMatches
      <3>3. t \in Seq(Manipulators)
         OBVIOUS
      <3> HIDE DEF base, before, t, new, all
      <3>4. Matches(ManipulateAll(base, t, stream), before \o t, own)
         BY <3>2, <3>3, MatchesMore
      <3> QED
         BY <3>1, <3>4
   <2> HIDE DEF new, all
   <2>3. SchemeMatches(new, all, own)
      BY <2>1, <2>2 DEF SchemeMatches
   <2> QED
      BY <2>3 DEF new, all
<1> QED
   BY <1>3, <1>4

--------------------------------------------------------------------------------
(* What a terminal makes of the escape sequences. *)
Looks == [fg : Seq(Int), bg : Seq(Int), attr : SUBSET Int]
Escaped == {sgr \in Seq(Int) : sgr[1] \in 1..9 \cup 30..38 \cup 40..48 \cup 90..97 \cup 100..107}

(* What an escape sequence of a manipulator changes on a terminal.             *)
LEMMA AfterType ==
   ASSUME NEW look \in Looks, NEW sgr \in Escaped
   PROVE  /\ After(look, sgr) \in Looks
          /\ sgr[1] \in 1..9 => After(look, sgr) = [look EXCEPT !.attr = @ \cup {sgr[1]}]
          /\ sgr[1] \in 30..38 \cup 90..97 => After(look, sgr) = [look EXCEPT !.fg = sgr]
          /\ sgr[1] \in 40..48 \cup 100..107 => After(look, sgr) = [look EXCEPT !.bg = sgr]
<1>1. sgr \in Seq(Int) /\ sgr[1] \in 1..9 \cup 30..38 \cup 40..48 \cup 90..97 \cup 100..107
   BY DEF Escaped
<1>2. ASSUME sgr[1] \in 1..9
      PROVE  /\ After(look, sgr) = [look EXCEPT !.attr = @ \cup {sgr[1]}]
             /\ sgr[1] \notin 30..38 \cup 90..97 /\ sgr[1] \notin 40..48 \cup 100..107
   <2>1. sgr[1] # 0 /\ sgr[1] \notin 30..38 \cup 90..97 /\ sgr[1] \notin 40..48 \cup 100..107
      BY <1>2
   <2> DEFINE n == sgr[1]
   <2> HIDE DEF n
   <2> QED
      BY <1>2, <2>1 DEF After
<1>3. ASSUME sgr[1] \in 30..38 \cup 90..97
      PROVE  /\ After(look, sgr) = [look EXCEPT !.fg = sgr]
             /\ sgr[1] \notin 1..9 /\ sgr[1] \notin 40..48 \cup 100..107
   <2>1. sgr[1] # 0 /\ sgr[1] \notin 1..9 /\ sgr[1] \notin 40..48 \cup 100..107
      BY <1>3
   <2> QED
      BY <1>3, <2>1 DEF After
<1>4. ASSUME sgr[1] \in 40..48 \cup 100..107
      PROVE  /\ After(look, sgr) = [look EXCEPT !.bg = sgr]
             /\ sgr[1] \notin 1..9 /\ sgr[1] \notin 30..38 \cup 90..97
   <2>1. sgr[1] # 0 /\ sgr[1] \notin 1..9 /\ sgr[1] \notin 30..38 \cup 90..97
      BY <1>4
   <2> QED
      BY <1>4, <2>1 DEF After
<1>5. sgr[1] \in Int
   <2> DEFINE n == sgr[1]
   <2>1. n \in 1..9 \cup 30..38 \cup 40..48 \cup 90..97 \cup 100..107
      BY <1>1
   <2> HIDE DEF n
   <2>2. n \in Int
      BY <2>1
   <2> QED
      BY <2>2 DEF n
<1>6. /\ [look EXCEPT !.attr = @ \cup {sgr[1]}] \in Looks
      /\ [look EXCEPT !.fg = sgr] \in Looks /\ [look EXCEPT !.bg = sgr] \in Looks
   <2> DEFINE n == sgr[1]
   <2>1. n \in Int
      BY <1>5
   <2> HIDE DEF n
   <2>2. [look EXCEPT !.attr = @ \cup {n}] \in Looks
      BY <2>1 DEF Looks
   <2>3. [look EXCEPT !.fg = sgr] \in Looks /\ [look EXCEPT !.bg = sgr] \in Looks
      BY <1>1 DEF Looks
   <2> QED
      BY <2>2, <2>3 DEF n
<1> HIDE DEF Looks
<1>7. sgr[1] \in 1..9 \/ sgr[1] \in 30..38 \cup 90..97 \/ sgr[1] \in 40..48 \cup 100..107
   BY <1>1
<1> QED
   BY <1>2, <1>3, <1>4, <1>6, <1>7

(* A fold over escape sequences is as many steps of the terminal. *)
LEMMA FoldAfter ==
   ASSUME NEW base \in Looks, NEW t \in Seq(Escaped)
   PROVE  \E h : /\ h[0] = base
                 /\ \A m \in 1..Len(t) : h[m] = After(h[m - 1], t[m])
                 /\ AfterAll(base, t) = h[Len(t)]
<1> DEFINE n == Len(t)
           A == Looks
           F(f) == [x \in SUBSET (1..n) |->
                      IF x = {} THEN base ELSE After(f[x \ {Max(x)}], t[Max(x)])]
           iter == CHOOSE f : f = F(f)
           op == [i \in 1..n |-> [a \in A |-> After(a, t[i])]]
           h == [m \in 0..n |-> iter[1..m]]
<1>1. n \in Nat /\ DOMAIN t = 1..n /\ \A i \in 1..n : t[i] \in Escaped
   OBVIOUS
<1>2. AfterAll(base, t) = iter[1..n]
   BY <1>1 DEF AfterAll, FoldLeft, MapThenFoldSet
<1>3. op \in [1..n -> [A -> A]]
   BY <1>1, AfterType
<1>4. PICK f : Computes(f, n, A, base, op)
   <2>1. base \in A
      OBVIOUS
   <2> HIDE DEF op, n, A
   <2> QED
      BY <1>1, <1>3, <2>1, FoldExists
<1>5. f \in [SUBSET (1..n) -> A]
      /\ \A x \in SUBSET (1..n) : f[x] = IF x = {} THEN base ELSE op[Max(x)][f[x \ {Max(x)}]]
   BY <1>4 DEF Computes
<1>6. f = F(f)
   <2>1. ASSUME NEW x \in SUBSET (1..n)
         PROVE  f[x] = IF x = {} THEN base ELSE After(f[x \ {Max(x)}], t[Max(x)])
      <3>1. CASE x = {}
         BY <1>5, <3>1
      <3>2. CASE x # {}
         <4>1. Max(x) \in x
            <5> HIDE DEF n
            <5> QED
               BY <1>1, <3>2, MaxResult
         <4>2. Max(x) \in 1..n /\ f[x \ {Max(x)}] \in A
            BY <1>5, <4>1
         <4>3. op[Max(x)][f[x \ {Max(x)}]] = After(f[x \ {Max(x)}], t[Max(x)])
            <5> DEFINE i == Max(x)
                       a == f[x \ {Max(x)}]
            <5>1. i \in 1..n /\ a \in A
               BY <4>2
            <5> HIDE DEF i, a, A, n
            <5>2. op[i][a] = After(a, t[i])
               BY <5>1
            <5> QED
               BY <5>2 DEF i, a
         <4> HIDE DEF op
         <4> QED
            BY <1>5, <3>2, <4>3
      <3> QED
         BY <3>1, <3>2
   <2> HIDE DEF A
   <2> QED
      BY <1>5, <2>1
<1>7. iter = F(iter)
   <2> HIDE DEF F
   <2> QED
      BY <1>6
<1>8. \A x \in SUBSET (1..n) :
         iter[x] = IF x = {} THEN base ELSE After(iter[x \ {Max(x)}], t[Max(x)])
   <2> HIDE DEF iter
   <2> QED
      BY <1>7
<1> HIDE DEF iter, op, A, F, n
<1>9. h[0] = base
   <2>1. 1..0 = {} /\ {} \in SUBSET (1..n) /\ 0 \in 0..n
      BY <1>1
   <2>2. iter[{}] = base
      BY <1>8, <2>1
   <2> QED
      BY <2>1, <2>2
<1>10. ASSUME NEW m \in 1..n
       PROVE  h[m] = After(h[m - 1], t[m])
   <2>1. m \in 0..n /\ m - 1 \in 0..n
      BY <1>1
   <2>2. 1..m \in SUBSET (1..n) /\ 1..m # {} /\ Max(1..m) = m /\ (1..m) \ {m} = 1..(m - 1)
      BY <1>1, FoldSteps
   <2> DEFINE x == 1..m
   <2> HIDE DEF x
   <2>3. iter[x] = After(iter[x \ {Max(x)}], t[Max(x)])
      BY <1>8, <2>2 DEF x
   <2>4. iter[1..m] = After(iter[1..(m - 1)], t[m])
      BY <2>2, <2>3 DEF x
   <2> QED
      BY <2>1, <2>4
<1>11. h[n] = iter[1..n]
   <2>1. n \in 0..n
      BY <1>1
   <2> QED
      BY <2>1
<1> HIDE DEF h
<1> QED
   BY <1>2, <1>9, <1>10, <1>11 DEF n

(* Two grounds, one after the other. *)
LEMMA TwoGrounds ==
   ASSUME NEW S, NEW a \in S, NEW b \in S
   PROVE  Len(<<a>> \o <<b>>) = 2 /\ (<<a>> \o <<b>>)[1] = a /\ (<<a>> \o <<b>>)[2] = b
<1> DEFINE x == <<a>>
           y == <<b>>
<1>1. x \in Seq(S) /\ Len(x) = 1 /\ x[1] = a /\ y \in Seq(S) /\ Len(y) = 1 /\ y[1] = b
   OBVIOUS
<1> HIDE DEF x, y
<1>2. /\ Len(x \o y) = Len(x) + Len(y)
      /\ \A i \in 1..Len(x) : (x \o y)[i] = x[i]
      /\ \A i \in 1..Len(y) : (x \o y)[Len(x) + i] = y[i]
   <2> DEFINE c == x \o y
   <2>1. /\ Len(c) = Len(x) + Len(y)
         /\ \A i \in 1..(Len(x) + Len(y)) : c[i] = IF i <= Len(x) THEN x[i] ELSE y[i - Len(x)]
      BY <1>1, ConcatProperties
   <2> HIDE DEF c
   <2>2. \A i \in 1..Len(x) : c[i] = x[i]
      BY <1>1, <2>1
   <2>3. \A i \in 1..Len(y) : c[Len(x) + i] = y[i]
      BY <1>1, <2>1
   <2> QED
      BY <2>1, <2>2, <2>3 DEF c
<1>3. 1 \in 1..Len(x) /\ 1 \in 1..Len(y) /\ Len(x) + 1 = 2 /\ Len(x) + Len(y) = 2
   BY <1>1
<1> DEFINE c == x \o y
<1>4. Len(c) = 2 /\ c[1] = x[1] /\ c[2] = y[1]
   <2>1. c[Len(x) + 1] = y[1]
      BY <1>2, <1>3
   <2> QED
      BY <1>2, <1>3, <2>1
<1> QED
   BY <1>1, <1>4 DEF x, y

(* One ground, or none. *)
LEMMA Grounds ==
   /\ <<>> \o <<>> = <<>> /\ Len(<<>>) = 0
   /\ \A S : \A a \in S : /\ <<>> \o <<a>> = <<a>> /\ <<a>> \o <<>> = <<a>>
                          /\ Len(<<a>>) = 1 /\ <<a>>[1] = a
<1>1. ASSUME NEW S, NEW a \in S
      PROVE  <<a>> \in Seq(S) /\ Len(<<a>>) = 1 /\ <<a>>[1] = a
   OBVIOUS
<1>2. ASSUME NEW S, NEW a \in S
      PROVE  <<>> \o <<a>> = <<a>> /\ <<a>> \o <<>> = <<a>>
   BY <1>1
<1>3. <<>> \o <<>> = <<>> /\ Len(<<>>) = 0
   OBVIOUS
<1>4. \A S : \A a \in S : /\ <<>> \o <<a>> = <<a>> /\ <<a>> \o <<>> = <<a>>
                          /\ Len(<<a>>) = 1 /\ <<a>>[1] = a
   BY <1>1, <1>2
<1> QED
   BY <1>3, <1>4

(* The escape sequences of a level make the look that is meant. *)
LEMMA ShownResult ==
   ASSUME NEW own, NEW u \in Seq(Changes), NEW attrs, Fits(attrs, u, own)
   PROVE  AfterAll(Plain, attrs.bg \o attrs.fg \o attrs.attr) = MeantWithEscapes(u)
<1> DEFINE Fg == LastOf(u, "fg", 1..5)
           Bg == LastOf(u, "bg", 1..5)
           attr == attrs.attr
           S == {<<i>> : i \in 1..9}
           n == Len(attr)
           colours == Ground(u, "bg") \o Ground(u, "fg")
           l == Len(colours)
           all == colours \o attr
<1>1. attrs.fg = Ground(u, "fg") /\ attrs.bg = Ground(u, "bg")
   BY DEF Fits
<1>2. attr \in Seq(S) /\ Numbers(attr) = AttributesOf(u) /\ n \in Nat
   BY DEF Fits
<1>3. u \in Seq(Manipulators)
   BY DEF Changes
<1>4. Fg # <<>> => Fg \in Escaped /\ Fg[1] \in 30..38 \cup 90..97
   <2> SUFFICES ASSUME Fg # <<>>
                PROVE  Fg \in Escaped /\ Fg[1] \in 30..38 \cup 90..97
      OBVIOUS
   <2>1. PICK x \in Manipulators : x.kind = "fg" /\ Fg = x.sgr
      BY <1>3, GroundFound
   <2>2. x.sgr \in Seq(Int) /\ x.sgr[1] \in 30..38 \cup 90..97
      BY <2>1, SettingResult
   <2> HIDE DEF Fg
   <2> QED
      BY <2>1, <2>2 DEF Escaped
<1>5. Bg # <<>> => Bg \in Escaped /\ Bg[1] \in 40..48 \cup 100..107
   <2> SUFFICES ASSUME Bg # <<>>
                PROVE  Bg \in Escaped /\ Bg[1] \in 40..48 \cup 100..107
      OBVIOUS
   <2>1. PICK x \in Manipulators : x.kind = "bg" /\ Bg = x.sgr
      BY <1>3, GroundFound
   <2>2. x.sgr \in Seq(Int) /\ x.sgr[1] \in 40..48 \cup 100..107
      BY <2>1, SettingResult
   <2> HIDE DEF Bg
   <2> QED
      BY <2>1, <2>2 DEF Escaped
<1>6. \A y \in S : y \in Escaped /\ y[1] \in 1..9
   <2>1. \A i \in 1..9 : <<i>> \in Seq(Int) /\ <<i>>[1] = i
      OBVIOUS
   <2> QED
      BY <2>1 DEF Escaped
<1>7. /\ Ground(u, "fg") = IF Fg = <<>> THEN <<>> ELSE <<Fg>>
      /\ Ground(u, "bg") = IF Bg = <<>> THEN <<>> ELSE <<Bg>>
   BY DEF Ground
<1> HIDE DEF Fg, Bg, S, attr
<1>8. Ground(u, "fg") \in Seq(Escaped) /\ Ground(u, "bg") \in Seq(Escaped)
   <2>1. <<>> \in Seq(Escaped)
      OBVIOUS
   <2>2. \A y \in Escaped : <<y>> \in Seq(Escaped)
      OBVIOUS
   <2> QED
      BY <1>4, <1>5, <1>7, <2>1, <2>2
<1>9. attr \in Seq(Escaped)
   BY <1>2, <1>6
<1>10. /\ colours \in Seq(Escaped) /\ all \in Seq(Escaped) /\ l \in Nat /\ Len(all) = l + n
       /\ \A i \in 1..l : all[i] = colours[i]
       /\ \A i \in 1..n : all[l + i] = attr[i]
   BY <1>8, <1>9
<1>11. Plain = [fg |-> <<>>, bg |-> <<>>, attr |-> {}] /\ Plain \in Looks
   BY DEF Plain, Looks
<1> HIDE DEF all, n, l
<1>12. PICK h : /\ h[0] = Plain
                /\ \A m \in 1..Len(all) : h[m] = After(h[m - 1], all[m])
                /\ AfterAll(Plain, all) = h[Len(all)]
   BY <1>10, <1>11, FoldAfter
<1>13. \A m \in 1..(l + n) : h[m] = After(h[m - 1], all[m])
   BY <1>10, <1>12
<1>14. h[l] = [fg |-> Fg, bg |-> Bg, attr |-> {}]
   <2> DEFINE fg == Ground(u, "fg")
              bg == Ground(u, "bg")
   <2>1. CASE Fg = <<>> /\ Bg = <<>>
      <3>1. colours = <<>> /\ l = 0
         BY <1>7, <2>1 DEF l
      <3> QED
         BY <1>11, <1>12, <2>1, <3>1
   <2>2. CASE Fg # <<>> /\ Bg = <<>>
      <3>1. colours = <<Fg>> /\ l = 1 /\ colours[1] = Fg
         <4>1. colours = <<>> \o <<Fg>> /\ Fg \in Escaped
            BY <1>4, <1>5, <1>7, <2>2
         <4>2. colours = <<Fg>>
            BY <4>1, Grounds
         <4> HIDE DEF colours
         <4> QED
            BY <4>1, <4>2, Grounds DEF l
      <3>2. h[1] = After(h[0], Fg)
         <4>1. 1 \in 1..(l + n) /\ 1 - 1 = 0 /\ all[1] = Fg
            <5>1. n \in Nat /\ 1 \in 1..l
               BY <1>2, <3>1 DEF n
            <5>2. 1 \in 1..(l + n) /\ 1 - 1 = 0
               BY <1>10, <5>1
            <5> HIDE DEF colours
            <5> QED
               BY <1>10, <3>1, <5>1, <5>2
         <4> QED
            BY <1>13, <4>1
      <3>3. h[1] = [Plain EXCEPT !.fg = Fg]
         BY <1>4, <1>11, <1>12, <2>2, <3>2, AfterType
      <3> QED
         BY <1>11, <2>2, <3>1, <3>3
   <2>3. CASE Fg = <<>> /\ Bg # <<>>
      <3>1. colours = <<Bg>> /\ l = 1 /\ colours[1] = Bg
         <4>1. colours = <<Bg>> \o <<>> /\ Bg \in Escaped
            BY <1>4, <1>5, <1>7, <2>3
         <4>2. colours = <<Bg>>
            BY <4>1, Grounds
         <4> HIDE DEF colours
         <4> QED
            BY <4>1, <4>2, Grounds DEF l
      <3>2. h[1] = After(h[0], Bg)
         <4>1. 1 \in 1..(l + n) /\ 1 - 1 = 0 /\ all[1] = Bg
            <5>1. n \in Nat /\ 1 \in 1..l
               BY <1>2, <3>1 DEF n
            <5>2. 1 \in 1..(l + n) /\ 1 - 1 = 0
               BY <1>10, <5>1
            <5> HIDE DEF colours
            <5> QED
               BY <1>10, <3>1, <5>1, <5>2
         <4> QED
            BY <1>13, <4>1
      <3>3. h[1] = [Plain EXCEPT !.bg = Bg]
         BY <1>5, <1>11, <1>12, <2>3, <3>2, AfterType
      <3> QED
         BY <1>11, <2>3, <3>1, <3>3
   <2>4. CASE Fg # <<>> /\ Bg # <<>>
      <3>1. l = 2 /\ colours[1] = Bg /\ colours[2] = Fg
         <4>1. colours = <<Bg>> \o <<Fg>> /\ Fg \in Escaped /\ Bg \in Escaped
            BY <1>4, <1>5, <1>7, <2>4
         <4>2. /\ Len(<<Bg>> \o <<Fg>>) = 2
               /\ (<<Bg>> \o <<Fg>>)[1] = Bg /\ (<<Bg>> \o <<Fg>>)[2] = Fg
            <5> DEFINE S2 == Escaped
            <5>1. Bg \in S2 /\ Fg \in S2
               BY <4>1
            <5> HIDE DEF S2
            <5> QED
               BY <5>1, TwoGrounds
         <4> DEFINE both == <<Bg>> \o <<Fg>>
         <4>3. colours = both /\ Len(both) = 2 /\ both[1] = Bg /\ both[2] = Fg
            BY <4>1, <4>2
         <4> HIDE DEF colours, both
         <4> QED
            BY <4>3 DEF l
      <3>2. h[1] = After(h[0], Bg) /\ h[2] = After(h[1], Fg)
         <4>1. 1 \in 1..(l + n) /\ 1 - 1 = 0 /\ all[1] = Bg
            <5>1. n \in Nat /\ 1 \in 1..l
               BY <1>2, <3>1 DEF n
            <5>2. 1 \in 1..(l + n) /\ 1 - 1 = 0
               BY <1>10, <5>1
            <5> HIDE DEF colours
            <5> QED
               BY <1>10, <3>1, <5>1, <5>2
         <4>2. 2 \in 1..(l + n) /\ 2 - 1 = 1 /\ all[2] = Fg
            <5>1. n \in Nat /\ 2 \in 1..l
               BY <1>2, <3>1 DEF n
            <5>2. 2 \in 1..(l + n) /\ 2 - 1 = 1
               BY <1>10, <5>1
            <5> HIDE DEF colours
            <5> QED
               BY <1>10, <3>1, <5>1, <5>2
         <4> QED
            BY <1>13, <4>1, <4>2
      <3>3. h[1] = [Plain EXCEPT !.bg = Bg] /\ h[1] \in Looks
         <4>1. Bg \in Escaped /\ Bg[1] \in 40..48 \cup 100..107
            BY <1>5, <2>4
         <4>2. h[1] = After(Plain, Bg)
            BY <1>12, <3>2
         <4>3. After(Plain, Bg) = [Plain EXCEPT !.bg = Bg]
            BY <1>11, <4>1, AfterType
         <4>4. After(Plain, Bg) \in Looks
            BY <1>11, <4>1, AfterType
         <4> QED
            BY <4>2, <4>3, <4>4
      <3>4. h[2] = [h[1] EXCEPT !.fg = Fg]
         BY <1>4, <2>4, <3>2, <3>3, AfterType
      <3> QED
         BY <1>11, <3>1, <3>3, <3>4
   <2> QED
      BY <2>1, <2>2, <2>3, <2>4
<1>15. Fg \in Seq(Int) /\ Bg \in Seq(Int)
   <2>1. <<>> \in Seq(Int) /\ Escaped \subseteq Seq(Int)
      BY DEF Escaped
   <2> QED
      BY <1>4, <1>5, <2>1
<1> DEFINE Look(m) == [fg |-> Fg, bg |-> Bg, attr |-> {attr[i][1] : i \in 1..m}]
           Bad == {m \in 0..n : h[l + m] # Look(m)}
<1>16. 0 \notin Bad
   <2>1. {attr[i][1] : i \in 1..0} = {} /\ l + 0 = l
      BY <1>10
   <2> QED
      BY <1>14, <2>1
<1>17. ASSUME NEW m \in 1..n, h[l + (m - 1)] = Look(m - 1)
       PROVE  h[l + m] = Look(m)
   <2> DEFINE before == {attr[i][1] : i \in 1..(m - 1)}
   <2>1. n \in Nat /\ attr[m] \in S
      BY <1>2 DEF n
   <2>2. attr[m] \in Escaped /\ attr[m][1] \in 1..9
      BY <1>6, <2>1
   <2>3. \A i \in 1..(m - 1) : attr[i][1] \in Int
      <3>1. \A i \in 1..(m - 1) : i \in 1..n
         BY <2>1
      <3>2. \A i \in 1..(m - 1) : attr[i] \in S
         BY <1>2, <3>1 DEF n
      <3>3. \A y \in S : y[1] \in Int
         BY <1>6
      <3> QED
         BY <3>2, <3>3
   <2>4. before \in SUBSET Int
      BY <2>3
   <2>5. {attr[i][1] : i \in 1..m} = before \cup {attr[m][1]}
      <3>1. 1..m = 1..(m - 1) \cup {m}
         BY <2>1
      <3> QED
         BY <3>1
   <2>6. h[l + m] = After(Look(m - 1), attr[m])
      <3>1. l + m \in 1..(l + n) /\ (l + m) - 1 = l + (m - 1) /\ all[l + m] = attr[m]
         BY <1>10, <2>1
      <3> QED
         BY <1>13, <1>17, <3>1
   <2> HIDE DEF before
   <2>7. Look(m - 1) = [fg |-> Fg, bg |-> Bg, attr |-> before]
      BY DEF before
   <2>8. Look(m - 1) \in Looks
      <3> HIDE DEF Look
      <3> QED
         BY <1>15, <2>4, <2>7 DEF Looks
   <2>9. h[l + m] = [Look(m - 1) EXCEPT !.attr = @ \cup {attr[m][1]}]
      <3> HIDE DEF Look
      <3> QED
         BY <2>2, <2>6, <2>8, AfterType
   <2>10. h[l + m] = [fg |-> Fg, bg |-> Bg, attr |-> before \cup {attr[m][1]}]
      <3> DEFINE look == Look(m - 1)
                 number == attr[m][1]
      <3>1. look = [fg |-> Fg, bg |-> Bg, attr |-> before] /\ h[l + m] = [look EXCEPT !.attr = @ \cup {number}]
         BY <2>7, <2>9
      <3> HIDE DEF look, number
      <3>2. h[l + m] = [fg |-> Fg, bg |-> Bg, attr |-> before \cup {number}]
         BY <3>1
      <3> QED
         BY <3>2 DEF number
   <2> QED
      BY <2>5, <2>10
<1>18. Bad = {}
   <2> SUFFICES ASSUME Bad # {} PROVE FALSE
      OBVIOUS
   <2> DEFINE k == Min(Bad)
   <2> HIDE DEF Look
   <2>1. Bad \in SUBSET Nat /\ n \in Nat
      BY <1>2 DEF n
   <2>2. k \in Bad /\ \A m \in Bad : k <= m
      <3> HIDE DEF Bad
      <3> QED
         BY <2>1, MinResult
   <2>3. k \in 0..n /\ h[l + k] # Look(k)
      BY <2>2
   <2>4. k # 0
      BY <1>16, <2>2
   <2> HIDE DEF k
   <2>5. k \in 1..n /\ k - 1 \in 0..n /\ ~ (k <= k - 1)
      BY <2>1, <2>3, <2>4
   <2>6. k - 1 \notin Bad
      BY <2>2, <2>5
   <2>7. h[l + (k - 1)] = Look(k - 1)
      BY <2>5, <2>6
   <2> QED
      BY <1>17, <2>3, <2>5, <2>7
<1>19. h[l + n] = Look(n)
   <2>1. n \in 0..n
      BY <1>2 DEF n
   <2> HIDE DEF Look
   <2> QED
      BY <1>18, <2>1
<1>20. Look(n) = MeantWithEscapes(u)
   BY <1>2 DEF Numbers, MeantWithEscapes, Fg, Bg, n
<1> HIDE DEF Look
<1>21. AfterAll(Plain, all) = MeantWithEscapes(u)
   BY <1>10, <1>12, <1>19, <1>20
<1>22. all = attrs.bg \o attrs.fg \o attrs.attr
   BY <1>1 DEF all, attr
<1> QED
   BY <1>21, <1>22

--------------------------------------------------------------------------------
(* How entries are shown.  The scheme of a sink matches what it was given, and *)
(* while it prints on a console without escape sequences that one has the      *)
(* attributes of the level.                                                    *)
SinkLooks(sink, own, shown) ==
   /\ sink.settings \in Schemes \cup {K_DEFAULT_SETTINGS}
   /\ SchemeMatches(sink.scheme, sink.asked, own[sink.stream])
   /\ sink.printing # None /\ ~sink.printing.done =>
         LET level == sink.printing.entry.level
         IN level \in DOMAIN sink.scheme /\ shown = sink.scheme[level].win

LooksInv == /\ \A stream \in {"cout", "cerr"} : HasParts(defaults[stream])
            /\ \A k \in DOMAIN sinks : SinkLooks(sinks[k], defaults, console)
            /\ ShownAsAsked

(* What a console has at first. *)
LEMMA ColourParts ==
   ASSUME NEW colours \in ConsoleColours
   PROVE  HasParts(colours)
<1>1. colours \in Int /\ 0 <= colours /\ colours <= 65535
   BY ConsoleAssumption DEF WORD
<1> QED
   BY <1>1, WordParts DEF HasParts

(* What initWin takes for it if it does not read it. *)
LEMMA WhiteParts == HasParts(BLUE + GREEN + RED)
<1>1. 7 \in Int /\ 0 <= 7 /\ 7 <= 65535
   BY SMT
<1>2. BLUE + GREEN + RED = 7
   BY DEF BLUE, GREEN, RED
<1> QED
   BY <1>1, <1>2, WordParts DEF HasParts

(* What a program gives a sink. *)
LEMMA SettingsGiven ==
   ASSUME NEW settings \in Schemes \cup {K_DEFAULT_SETTINGS}, NEW level \in DOMAIN settings
   PROVE  settings[level] \in Seq(Manipulators)
<1> DEFINE S == {x \in ToSet(settings[level]) : IsSetting(x)}
<1>1. settings[level] \in Seq(S)
   BY SettingsAssumption
<1>2. S \subseteq Manipulators
   BY SettingIsManipulator
<1> HIDE DEF S
<1> QED
   BY <1>1, <1>2

(* The state of main. *)
LEMMA LooksAtFirst == Init => LooksInv
<1> SUFFICES ASSUME Init
             PROVE  LooksInv
   OBVIOUS
<1>1. DOMAIN sinks = {} /\ piece = None
   BY DEF Init
<1>2. PICK colours \in ConsoleColours : defaults = InitWin(colours)
   BY DEF Init
<1>3. ASSUME NEW stream \in {"cout", "cerr"}
      PROVE  HasParts(defaults[stream])
   <2>1. HasParts(colours)
      BY ColourParts
   <2>2. defaults[stream] = colours \/ defaults[stream] = BLUE + GREEN + RED
      BY <1>2 DEF InitWin
   <2> QED
      BY <2>1, <2>2, WhiteParts
<1> QED
   BY <1>1, <1>3 DEF LooksInv, ShownAsAsked

(* One sink is built or changed, and the console stays as it is. *)
LEMMA LooksStep ==
   ASSUME LooksInv, UNCHANGED <<defaults, console>>, NEW k, NEW sink, SinkLooks(sink, defaults, console),
          sinks' = [j \in DOMAIN sinks \cup {k} |-> IF j = k THEN sink ELSE sinks[j]],
          ShownAsAsked'
   PROVE  LooksInv'
<1>1. ASSUME NEW j \in DOMAIN sinks'
      PROVE  SinkLooks(sinks'[j], defaults', console')
   <2>1. j \in DOMAIN sinks \cup {k} /\ sinks'[j] = IF j = k THEN sink ELSE sinks[j]
      BY <1>1
   <2>2. SinkLooks(sinks'[j], defaults, console)
      BY <2>1 DEF LooksInv
   <2> QED
      BY <2>2
<1>2. \A stream \in {"cout", "cerr"} : HasParts(defaults'[stream])
   BY DEF LooksInv
<1> QED
   BY <1>1, <1>2 DEF LooksInv

(* A constructor *)
LEMMA ConstructLooks ==
   ASSUME LooksInv, NEW k \in Sinks, NEW stream \in Streams,
          NEW settings \in Schemes \cup {K_DEFAULT_SETTINGS}, Construct(k, stream, settings)
   PROVE  LooksInv'
<1>1. UNCHANGED <<defaults, console>> /\ ShownAsAsked'
   BY DEF Construct, platform, ShownAsAsked
<1>2. CASE stream \in {"cout", "cerr"} /\ Builds
   <2> DEFINE sink == NewSink(stream, settings)
              scheme == SettingsToWorkingScheme(<<>>, settings, TRUE, stream)
   <2>1. SchemeMatches(scheme, settings, defaults[stream])
      <3>1. SchemeMatches(<<>>, <<>>, defaults[stream])
         BY DEF SchemeMatches
      <3>2. HasParts(defaults[stream])
         BY <1>2 DEF LooksInv
      <3> HIDE DEF scheme
      <3> QED
         BY <3>1, <3>2, SettingsGiven, SchemeResult DEF scheme
   <2>2. /\ sink.settings = settings /\ sink.stream = stream /\ sink.printing = None
         /\ sink.scheme = scheme /\ sink.asked = settings
      BY DEF NewSink
   <2>3. sinks' = [j \in DOMAIN sinks \cup {k} |-> IF j = k THEN sink ELSE sinks[j]]
      BY <1>2 DEF Construct
   <2> HIDE DEF sink, scheme
   <2>4. SinkLooks(sink, defaults, console)
      BY <2>1, <2>2 DEF SinkLooks
   <2> QED
      BY <1>1, <2>3, <2>4, LooksStep
<1>3. CASE ~(stream \in {"cout", "cerr"} /\ Builds)
   <2>1. sinks' = sinks
      BY <1>3 DEF Construct
   <2> QED
      BY <1>1, <2>1 DEF LooksInv
<1> QED
   BY <1>2, <1>3

(* A call that changes a sink, and prints nothing. *)
LEMMA ReconfigureLooks ==
   ASSUME LooksInv, NEW k \in Sinks, NEW sink, Reconfigure(k, sink),
          sink.printing = sinks[k].printing,
          SinkLooks(sinks[k], defaults, console) =>
             /\ sink.settings \in Schemes \cup {K_DEFAULT_SETTINGS}
             /\ SchemeMatches(sink.scheme, sink.asked, defaults[sink.stream])
   PROVE  LooksInv'
<1>1. k \in DOMAIN sinks /\ sinks[k].printing = None /\ sinks' = [sinks EXCEPT ![k] = sink]
      /\ UNCHANGED <<defaults, console>> /\ piece' = None
   BY DEF Reconfigure, Idle, Alive, platform
<1>2. SinkLooks(sinks[k], defaults, console)
   BY <1>1 DEF LooksInv
<1>3. SinkLooks(sink, defaults, console)
   BY <1>1, <1>2 DEF SinkLooks
<1>4. ShownAsAsked'
   BY <1>1 DEF ShownAsAsked
<1> QED
   BY <1>1, <1>3, <1>4, SinkChanged, LooksStep

(* The calls that change the scheme or the header. *)
LEMMA SettingsLooks ==
   ASSUME ConsoleInv, LooksInv, NEW k \in Sinks, NEW settings, NEW func,
          \/ settings \in Schemes /\ (SetWorkingScheme(k, settings) \/ SetDefaultScheme(k, settings))
          \/ DefaultScheme(k) \/ SystemDefaultScheme(k) \/ BlackWhiteScheme(k)
          \/ OverrideLogDetails(k, func)
   PROVE  LooksInv'
<1> DEFINE sink == sinks[k]
           own == defaults[sink.stream]
<1>1. k \in DOMAIN sinks /\ IsSink(sink) /\ SinkLooks(sink, defaults, console) /\ HasParts(own)
   <2>1. k \in DOMAIN sinks
      BY DEF SetWorkingScheme, SetDefaultScheme, DefaultScheme, SystemDefaultScheme, BlackWhiteScheme,
         OverrideLogDetails, Reconfigure, Idle, Alive
   <2>2. IsSink(sink) /\ SinkLooks(sink, defaults, console)
      BY <2>1 DEF ConsoleInv, SinksInv, LooksInv
   <2> QED
      BY <2>1, <2>2 DEF IsSink, LooksInv
<1>2. sink.settings \in Schemes \cup {K_DEFAULT_SETTINGS} /\ SchemeMatches(sink.scheme, sink.asked, own)
   BY <1>1 DEF SinkLooks
<1>3. ASSUME NEW scheme, NEW asked, SchemeMatches(scheme, asked, own),
             Reconfigure(k, [sink EXCEPT !.scheme = scheme, !.asked = asked])
      PROVE  LooksInv'
   <2> DEFINE new == [sink EXCEPT !.scheme = scheme, !.asked = asked]
   <2>1. /\ new.printing = sink.printing /\ new.settings = sink.settings /\ new.stream = sink.stream
         /\ new.scheme = scheme /\ new.asked = asked
      BY <1>1 DEF IsSink
   <2>2. Reconfigure(k, new)
      BY <1>3
   <2> HIDE DEF new
   <2> QED
      BY <1>2, <1>3, <2>1, <2>2, ReconfigureLooks
<1>4. ASSUME NEW given \in Schemes \cup {K_DEFAULT_SETTINGS}
      PROVE  /\ SchemeMatches(SettingsToWorkingScheme(sink.scheme, given, FALSE, sink.stream),
                              Merged(sink.asked, given), own)
             /\ SchemeMatches(SettingsToWorkingScheme(sink.scheme, given, TRUE, sink.stream), given, own)
   <2>1. \A level \in DOMAIN given : given[level] \in Seq(Manipulators)
      BY SettingsGiven
   <2> DEFINE stream == sink.stream
              old == sink.scheme
              asked == sink.asked
   <2> HIDE DEF stream, old, asked
   <2>2. HasParts(defaults[stream]) /\ SchemeMatches(old, asked, defaults[stream])
      BY <1>1, <1>2 DEF stream, old, asked
   <2>3. /\ SchemeMatches(SettingsToWorkingScheme(old, given, FALSE, stream), Merged(asked, given),
                          defaults[stream])
         /\ SchemeMatches(SettingsToWorkingScheme(old, given, TRUE, stream), given, defaults[stream])
      BY <2>1, <2>2, SchemeResult
   <2> QED
      BY <2>3 DEF stream, old, asked
<1>5. ASSUME NEW given \in Schemes \cup {K_DEFAULT_SETTINGS}, Reconfigure(k, Cleared(sink, given))
      PROVE  LooksInv'
   BY <1>3, <1>4, <1>5 DEF Cleared
<1>6. CASE settings \in Schemes /\ SetWorkingScheme(k, settings)
   BY <1>3, <1>4, <1>6 DEF SetWorkingScheme
<1>7. CASE DefaultScheme(k) \/ SystemDefaultScheme(k)
   BY <1>2, <1>5, <1>7 DEF DefaultScheme, SystemDefaultScheme
<1>8. CASE BlackWhiteScheme(k)
   <2>1. SchemeMatches(<<>>, <<>>, own)
      BY DEF SchemeMatches
   <2> QED
      BY <1>3, <1>8, <2>1 DEF BlackWhiteScheme
<1>9. CASE settings \in Schemes /\ SetDefaultScheme(k, settings)
   <2> DEFINE new == [sink EXCEPT !.settings = settings]
   <2>1. /\ new.printing = sink.printing /\ new.settings = settings /\ new.stream = sink.stream
         /\ new.scheme = sink.scheme /\ new.asked = sink.asked
      BY <1>1 DEF IsSink
   <2>2. Reconfigure(k, new)
      BY <1>9 DEF SetDefaultScheme
   <2> HIDE DEF new
   <2> QED
      BY <1>2, <1>9, <2>1, <2>2, ReconfigureLooks
<1>10. CASE OverrideLogDetails(k, func)
   <2> DEFINE new == [sink EXCEPT !.func = func]
   <2>1. /\ new.printing = sink.printing /\ new.settings = sink.settings /\ new.stream = sink.stream
         /\ new.scheme = sink.scheme /\ new.asked = sink.asked
      BY <1>1 DEF IsSink
   <2>2. Reconfigure(k, new)
      BY <1>10 DEF OverrideLogDetails
   <2> HIDE DEF new
   <2> QED
      BY <1>2, <2>1, <2>2, ReconfigureLooks
<1> QED
   BY <1>6, <1>7, <1>8, <1>9, <1>10

(* How an entry is meant to look, and what the scheme has for it. *)
LEMMA LevelLooks ==
   ASSUME ConsoleInv, LooksInv, NEW k \in DOMAIN sinks, NEW level
   PROVE  LET sink == sinks[k]
              u == SinceReset(sink.asked[level])
          IN IF level \in DOMAIN sink.scheme /\ IsAtty(sink.stream)
             THEN /\ u \in Seq(Changes)
                  /\ Fits(sink.scheme[level], u, defaults[sink.stream])
                  /\ Meant(sink, level) = IF Escapes THEN MeantWithEscapes(u)
                                                     ELSE MeantOnConsole(u, defaults[sink.stream])
             ELSE Meant(sink, level) = found
<1> DEFINE sink == sinks[k]
           asked == sink.asked[level]
           u == SinceReset(asked)
<1>1. SchemeMatches(sink.scheme, sink.asked, defaults[sink.stream])
   BY DEF LooksInv, SinkLooks
<1>2. DOMAIN sink.scheme = DOMAIN sink.asked
   BY <1>1 DEF SchemeMatches
<1>3. CASE level \in DOMAIN sink.scheme /\ IsAtty(sink.stream)
   <2>1. Matches(sink.scheme[level], asked, defaults[sink.stream])
      BY <1>1, <1>2, <1>3 DEF SchemeMatches
   <2>2. asked \in Seq(Manipulators) /\ Fits(sink.scheme[level], u, defaults[sink.stream])
      BY <2>1 DEF Matches
   <2>3. u \in Seq(Changes)
      BY <2>2, SinceResetAppend
   <2>4. Meant(sink, level) = IF Escapes THEN MeantWithEscapes(u)
                                         ELSE MeantOnConsole(u, defaults[sink.stream])
      BY <1>2, <1>3 DEF Meant
   <2> QED
      BY <1>3, <2>2, <2>3, <2>4
<1>4. CASE ~(level \in DOMAIN sink.scheme /\ IsAtty(sink.stream))
   BY <1>2, <1>4 DEF Meant
<1> QED
   BY <1>3, <1>4

(* A step that leaves the sinks as they are, where none is printing on a       *)
(* console without escape sequences.                                           *)
LEMMA LooksStay ==
   ASSUME LooksInv, sinks' = sinks, defaults' = defaults,
          \A k \in DOMAIN sinks : console' = console \/ sinks[k].printing = None,
          ShownAsAsked'
   PROVE  LooksInv'
<1>1. ASSUME NEW k \in DOMAIN sinks'
      PROVE  SinkLooks(sinks'[k], defaults', console')
   BY <1>1 DEF LooksInv, SinkLooks
<1> QED
   BY <1>1 DEF LooksInv

(* A text without colours, and one with escape sequences. *)
LEMMA PrintLooks ==
   ASSUME ConsoleInv, LooksInv, NEW k \in Sinks, NEW entry \in Entries,
          PrintPlain(k, entry) \/ PrintWithEscapes(k, entry)
   PROVE  LooksInv'
<1> DEFINE sink == sinks[k]
           level == entry.level
<1>1. k \in DOMAIN sinks /\ sink.printing = None /\ sinks' = sinks /\ defaults' = defaults
   BY DEF PrintPlain, PrintWithEscapes, Idle, Alive, platform
<1>2. Escapes => /\ \A j \in DOMAIN sinks : sinks[j].printing = None
                 /\ console = Plain /\ found = Plain
   BY DEF ConsoleInv, SinksInv, PlatformInv, ConsoleRestored, Idle, Alive
<1>3. CASE PrintPlain(k, entry)
   <2>1. ~(level \in DOMAIN sink.scheme /\ IsAtty(sink.stream)) /\ console' = console
      BY <1>3 DEF PrintPlain, Coloured
   <2>2. Meant(sink, level) = found
      BY <1>1, <2>1, LevelLooks
   <2>3. console = found
      <3>1. CASE Escapes
         BY <1>2, <3>1
      <3>2. CASE ~Escapes
         <4>1. \A j \in DOMAIN sinks : j = k
            BY <1>1, <3>2 DEF ConsoleInv, OnlyOne
         <4> QED
            BY <1>1, <4>1 DEF ConsoleInv, ConsoleRestored, Idle, Alive
      <3> QED
         BY <3>1, <3>2
   <2>4. piece'.look = found /\ piece'.meant = found
      <3>1. piece' = Piece(k, entry, Text(k, entry), found)
         BY <1>3, <2>3 DEF PrintPlain
      <3> QED
         BY <2>2, <3>1 DEF Piece
   <2>5. ShownAsAsked'
      BY <2>4 DEF ShownAsAsked
   <2> QED
      BY <1>1, <2>1, <2>5, LooksStay
<1>4. CASE PrintWithEscapes(k, entry)
   <2> DEFINE u == SinceReset(sink.asked[level])
              attrs == sink.scheme[level]
              look == AfterAll(Plain, attrs.bg \o attrs.fg \o attrs.attr)
              seen == CString(Append(Front(Text(k, entry)), Nl))
   <2>1. level \in DOMAIN sink.scheme /\ IsAtty(sink.stream) /\ Escapes
      BY <1>4 DEF PrintWithEscapes, Coloured
   <2>2. /\ u \in Seq(Changes) /\ Fits(attrs, u, defaults[sink.stream])
         /\ Meant(sink, level) = MeantWithEscapes(u)
      BY <1>1, <2>1, LevelLooks
   <2>3. piece' = Piece(k, entry, seen, look)
      BY <1>2, <1>4, <2>1 DEF PrintWithEscapes
   <2> HIDE DEF attrs, look, seen, u
   <2>4. piece'.look = look /\ piece'.meant = MeantWithEscapes(u)
      BY <2>2, <2>3 DEF Piece
   <2>5. look = MeantWithEscapes(u)
      BY <2>2, ShownResult DEF look
   <2>6. ShownAsAsked'
      BY <2>4, <2>5 DEF ShownAsAsked
   <2> QED
      BY <1>1, <1>2, <2>1, <2>6, LooksStay
<1> QED
   BY <1>3, <1>4

(* The three steps on a console without escape sequences. *)
LEMMA ConsoleStepsLook ==
   ASSUME ConsoleInv, LooksInv, NEW k \in Sinks,
          \/ \E entry \in Entries : SetConsole(k, entry)
          \/ PrintOnConsole(k) \/ RestoreConsole(k)
   PROVE  LooksInv'
<1> DEFINE sink == sinks[k]
           own == defaults[sink.stream]
<1>1. k \in DOMAIN sinks /\ IsSink(sink) /\ SinkLooks(sink, defaults, console) /\ defaults' = defaults
   BY DEF ConsoleInv, SinksInv, LooksInv, SetConsole, PrintOnConsole, RestoreConsole, Idle, Alive, platform
<1>2. ~Escapes /\ IsAtty(sink.stream)
   BY DEF ConsoleInv, SinksInv, SetConsole, PrintOnConsole, RestoreConsole, Coloured, Alive
<1>3. \A j \in DOMAIN sinks : j = k
   BY <1>1, <1>2 DEF ConsoleInv, OnlyOne
<1>4. ASSUME NEW printing,
             sinks' = [sinks EXCEPT ![k] = [sink EXCEPT !.printing = printing]],
             printing # None /\ ~printing.done =>
                LET level == printing.entry.level
                IN level \in DOMAIN sink.scheme /\ console' = sink.scheme[level].win,
             ShownAsAsked'
      PROVE  LooksInv'
   <2> DEFINE new == [sink EXCEPT !.printing = printing]
   <2>1. /\ new.printing = printing /\ new.settings = sink.settings /\ new.stream = sink.stream
         /\ new.scheme = sink.scheme /\ new.asked = sink.asked
      BY <1>1 DEF IsSink
   <2>2. sinks' = [sinks EXCEPT ![k] = new]
      BY <1>4
   <2> HIDE DEF new
   <2>3. DOMAIN sinks' = DOMAIN sinks /\ sinks'[k] = new
      BY <1>1, <2>2
   <2>4. SinkLooks(new, defaults, console')
      BY <1>1, <1>4, <2>1 DEF SinkLooks
   <2>5. \A j \in DOMAIN sinks' : SinkLooks(sinks'[j], defaults', console')
      BY <1>1, <1>3, <2>3, <2>4
   <2> QED
      BY <1>1, <1>4, <2>5 DEF LooksInv
<1>5. ASSUME NEW entry \in Entries, SetConsole(k, entry)
      PROVE  LooksInv'
   <2> DEFINE printing == [entry |-> entry, done |-> FALSE]
   <2>1. printing.entry = entry
      OBVIOUS
   <2>2. sinks' = [sinks EXCEPT ![k] = [sink EXCEPT !.printing = printing]] /\ piece' = piece
         /\ entry.level \in DOMAIN sink.scheme /\ console' = sink.scheme[entry.level].win
      BY <1>1, <1>5 DEF SetConsole, Coloured
   <2>3. ShownAsAsked'
      BY <2>2 DEF LooksInv, ShownAsAsked
   <2> HIDE DEF printing
   <2> QED
      BY <1>4, <2>1, <2>2, <2>3
<1>6. CASE PrintOnConsole(k)
   <2> DEFINE entry == sink.printing.entry
              level == entry.level
              u == SinceReset(sink.asked[level])
              printing == [sink.printing EXCEPT !.done = TRUE]
   <2>1. sink.printing # None /\ ~sink.printing.done
         /\ sink.printing \in [entry : Entries, done : BOOLEAN]
      BY <1>1, <1>6 DEF PrintOnConsole, IsSink
   <2>2. printing.done
      BY <2>1
   <2>3. level \in DOMAIN sink.scheme /\ console = sink.scheme[level].win
      BY <1>1, <2>1 DEF SinkLooks
   <2>4. Fits(sink.scheme[level], u, own) /\ Meant(sink, level) = MeantOnConsole(u, own)
      BY <1>1, <1>2, <2>3, LevelLooks
   <2>5. sink.scheme[level].win = MeantOnConsole(u, own)
      <3> DEFINE attrs == sink.scheme[level]
      <3>1. Fits(attrs, u, own)
         BY <2>4
      <3> HIDE DEF attrs
      <3>2. attrs.win = MeantOnConsole(u, own)
         BY <3>1 DEF Fits
      <3> QED
         BY <3>2 DEF attrs
   <2>6. sinks' = [sinks EXCEPT ![k] = [sink EXCEPT !.printing = printing]]
      BY <1>1, <1>6 DEF PrintOnConsole
   <2>7. piece' = Piece(k, entry, Front(Text(k, entry)) \o <<Nl>>, console)
      BY <1>6 DEF PrintOnConsole
   <2> HIDE DEF printing, u
   <2>8. piece'.look = console /\ piece'.meant = Meant(sink, level)
      BY <2>7 DEF Piece
   <2>9. ShownAsAsked'
      BY <2>3, <2>4, <2>5, <2>8 DEF ShownAsAsked
   <2> QED
      BY <1>4, <2>2, <2>6, <2>9
<1>7. CASE RestoreConsole(k)
   <2>1. sinks' = [sinks EXCEPT ![k] = [sink EXCEPT !.printing = None]] /\ piece' = piece
      BY <1>1, <1>7 DEF RestoreConsole
   <2>2. ShownAsAsked'
      BY <2>1 DEF LooksInv, ShownAsAsked
   <2> QED
      BY <1>4, <2>1, <2>2
<1> QED
   BY <1>5, <1>6, <1>7

(* The destructor *)
LEMMA DestroyLooks ==
   ASSUME LooksInv, NEW k \in Sinks, Destroy(k)
   PROVE  LooksInv'
<1>1. UNCHANGED <<defaults, console>> /\ ShownAsAsked'
   BY DEF Destroy, platform, ShownAsAsked
<1>2. \A j \in DOMAIN sinks' : j \in DOMAIN sinks /\ sinks'[j] = sinks[j]
   BY DEF Destroy
<1> QED
   BY <1>1, <1>2 DEF LooksInv

(* Both invariants hold in every reachable state. *)
THEOREM LooksInvariant == Spec => [](ConsoleInv /\ LooksInv)
<1>1. Init => LooksInv
   BY LooksAtFirst
<1>2. ConsoleInv /\ LooksInv /\ [Next]_vars => LooksInv'
   <2> SUFFICES ASSUME ConsoleInv, LooksInv, [Next]_vars
                PROVE  LooksInv'
      OBVIOUS
   <2>1. CASE Next
      <3>1. PICK k \in Sinks :
               \/ \E stream \in Streams, settings \in Schemes \cup {K_DEFAULT_SETTINGS} :
                     Construct(k, stream, settings)
               \/ \E settings \in Schemes : SetWorkingScheme(k, settings) \/ SetDefaultScheme(k, settings)
               \/ DefaultScheme(k) \/ SystemDefaultScheme(k) \/ BlackWhiteScheme(k)
               \/ \E func \in LogDetailsFuncs : OverrideLogDetails(k, func)
               \/ \E entry \in Entries : \/ PrintPlain(k, entry)
                                         \/ PrintWithEscapes(k, entry)
                                         \/ SetConsole(k, entry)
               \/ PrintOnConsole(k) \/ RestoreConsole(k)
               \/ Destroy(k)
         BY <2>1 DEF Next
      <3> QED
         BY <3>1, ConstructLooks, SettingsLooks, PrintLooks, ConsoleStepsLook, DestroyLooks
   <2>2. CASE UNCHANGED vars
      BY <2>2 DEF vars, LooksInv, ShownAsAsked
   <2> QED
      BY <2>1, <2>2
<1> QED
   BY ConsoleInvariant, <1>1, <1>2, PTL DEF Spec

(* Each entry is shown as the Settings given for its level ask. *)
THEOREM ShowsAsAsked == Spec => []ShownAsAsked
<1>1. LooksInv => ShownAsAsked
   BY DEF LooksInv
<1> QED
   BY LooksInvariant, <1>1, PTL

(* The members of TypeOK that the settings do not bear on. *)
PlainTypes ==
   /\ flag \in BOOLEAN /\ aborted \in BOOLEAN /\ calls \in 0..MaxCalls
   /\ DOMAIN defaults = {"cout", "cerr"}
   /\ DOMAIN sinks \subseteq Sinks

(* The steps keep these.                                                       *)
LEMMA PlainTypesKept == PlainTypes /\ [Next]_vars => PlainTypes'
<1> SUFFICES ASSUME PlainTypes, [Next]_vars
             PROVE  PlainTypes'
   OBVIOUS
<1>1. MaxCalls \in Nat
   BY ColorCoutSinkAssumption
<1>2. ASSUME NEW k \in Sinks, NEW stream \in Streams, NEW settings, Construct(k, stream, settings)
      PROVE  PlainTypes'
   BY <1>2 DEF PlainTypes, Construct, platform
<1>3. ASSUME NEW k \in Sinks, NEW sink, Reconfigure(k, sink)
      PROVE  PlainTypes'
   <2>1. /\ calls < MaxCalls /\ calls' = calls + 1 /\ sinks' = [sinks EXCEPT ![k] = sink]
         /\ UNCHANGED <<flag, aborted, defaults>>
      BY <1>3 DEF Reconfigure, platform
   <2>2. calls' \in 0..MaxCalls
      BY <1>1, <2>1 DEF PlainTypes
   <2>3. DOMAIN sinks' = DOMAIN sinks
      BY <2>1
   <2> QED
      BY <2>1, <2>2, <2>3 DEF PlainTypes
<1>4. ASSUME UNCHANGED <<platform, flag, aborted, calls>>, DOMAIN sinks' \subseteq DOMAIN sinks
      PROVE  PlainTypes'
   BY <1>4 DEF PlainTypes, platform
<1>5. CASE Next
   <2>1. PICK k \in Sinks :
            \/ \E stream \in Streams, settings \in Schemes \cup {K_DEFAULT_SETTINGS} :
                  Construct(k, stream, settings)
            \/ \E settings \in Schemes : SetWorkingScheme(k, settings) \/ SetDefaultScheme(k, settings)
            \/ DefaultScheme(k) \/ SystemDefaultScheme(k) \/ BlackWhiteScheme(k)
            \/ \E func \in LogDetailsFuncs : OverrideLogDetails(k, func)
            \/ \E entry \in Entries : \/ PrintPlain(k, entry)
                                      \/ PrintWithEscapes(k, entry)
                                      \/ SetConsole(k, entry)
            \/ PrintOnConsole(k) \/ RestoreConsole(k)
            \/ Destroy(k)
      BY <1>5 DEF Next
   <2>2. ASSUME \/ \E settings \in Schemes : SetWorkingScheme(k, settings) \/ SetDefaultScheme(k, settings)
                \/ DefaultScheme(k) \/ SystemDefaultScheme(k) \/ BlackWhiteScheme(k)
                \/ \E func \in LogDetailsFuncs : OverrideLogDetails(k, func)
         PROVE  \E sink : Reconfigure(k, sink)
      BY <2>2 DEF SetWorkingScheme, SetDefaultScheme, DefaultScheme, SystemDefaultScheme, BlackWhiteScheme,
         OverrideLogDetails
   <2>3. ASSUME \/ \E entry \in Entries : \/ PrintPlain(k, entry)
                                          \/ PrintWithEscapes(k, entry)
                                          \/ SetConsole(k, entry)
                \/ PrintOnConsole(k) \/ RestoreConsole(k)
                \/ Destroy(k)
         PROVE  UNCHANGED <<platform, flag, aborted, calls>> /\ DOMAIN sinks' \subseteq DOMAIN sinks
      <3>1. CASE \E entry \in Entries : PrintPlain(k, entry) \/ PrintWithEscapes(k, entry)
         BY <3>1 DEF PrintPlain, PrintWithEscapes
      <3>2. CASE \E entry \in Entries : SetConsole(k, entry)
         BY <3>2 DEF SetConsole
      <3>3. CASE PrintOnConsole(k)
         BY <3>3 DEF PrintOnConsole
      <3>4. CASE RestoreConsole(k)
         BY <3>4 DEF RestoreConsole
      <3>5. CASE Destroy(k)
         BY <3>5 DEF Destroy
      <3> QED
         BY <2>3, <3>1, <3>2, <3>3, <3>4, <3>5
   <2> QED
      BY <1>2, <1>3, <1>4, <2>1, <2>2, <2>3
<1>6. CASE UNCHANGED vars
   BY <1>6 DEF vars, PlainTypes
<1> QED
   BY <1>5, <1>6

(* Attributes that match have one colour of each ground at most, and a WORD. *)
Typed(attrs) == Len(attrs.fg) <= 1 /\ Len(attrs.bg) <= 1 /\ attrs.win \in WORD

(* Attributes that match are of that kind.                                     *)
LEMMA AttributesTyped ==
   ASSUME NEW own, HasParts(own), NEW attrs, NEW asked, Matches(attrs, asked, own)
   PROVE  Typed(attrs)
<1> DEFINE u == SinceReset(asked)
<1>1. u \in Seq(Changes) /\ Fits(attrs, u, own)
   BY SinceResetAppend DEF Matches
<1> HIDE DEF u
<1>2. u \in Seq(Manipulators)
   BY <1>1 DEF Changes
<1>3. /\ attrs.fg = Ground(u, "fg") /\ attrs.bg = Ground(u, "bg")
      /\ attrs.win = MeantOnConsole(u, own)
   BY <1>1 DEF Fits
<1>4. \A kind : Len(Ground(u, kind)) <= 1
   <2>1. Len(<<>>) = 0 /\ \A y : Len(<<y>>) = 1
      OBVIOUS
   <2> QED
      BY <2>1 DEF Ground
<1>5. \E f, b, r, p, q : IsWord(attrs.win, f, b, r, p, q)
   <2>1. PICK f, b, r, p, q : IsWord(own, f, b, r, p, q)
      BY DEF HasParts
   <2> QED
      BY <1>2, <1>3, <2>1, MeantWord
<1>6. ASSUME NEW word, NEW f, NEW b, NEW r, NEW p, NEW q, IsWord(word, f, b, r, p, q)
      PROVE  word \in WORD
   <2>1. f \in 0..15 /\ b \in 0..15 /\ r \in 0..63 /\ p \in 0..1 /\ q \in 0..1
         /\ word = f + 16 * b + 256 * r + 16384 * p + 32768 * q
      BY <1>6 DEF IsWord, Word
   <2> QED
      BY <2>1, SMT DEF WORD
<1>7. attrs.win \in WORD
   BY <1>5, <1>6
<1> QED
   BY <1>3, <1>4, <1>7 DEF Typed

(* The type invariant: in particular, what a scheme has for the console is a   *)
(* WORD, whatever was merged into it.                                          *)
THEOREM ConsoleTypes == Spec => []TypeOK
<1>1. Init => PlainTypes
   <2>1. MaxCalls \in Nat
      BY ColorCoutSinkAssumption
   <2>2. ASSUME Init
         PROVE  /\ flag \in BOOLEAN /\ aborted \in BOOLEAN /\ calls = 0
                /\ DOMAIN defaults = {"cout", "cerr"} /\ DOMAIN sinks = {}
      <3>1. flag \in BOOLEAN /\ aborted \in BOOLEAN /\ calls = 0 /\ sinks = <<>>
         BY <2>2 DEF Init
      <3>2. \E colours : defaults = InitWin(colours)
         BY <2>2 DEF Init
      <3>3. DOMAIN defaults = {"cout", "cerr"}
         BY <3>2 DEF InitWin
      <3> QED
         BY <3>1, <3>3
   <2> QED
      BY <2>1, <2>2 DEF PlainTypes
<1>2. PlainTypes /\ [Next]_vars => PlainTypes'
   BY PlainTypesKept
<1>3. ConsoleInv /\ LooksInv /\ PlainTypes => TypeOK
   <2> SUFFICES ASSUME ConsoleInv, LooksInv, PlainTypes
                PROVE  TypeOK
      OBVIOUS
   <2>1. ASSUME NEW k \in DOMAIN sinks
         PROVE  /\ sinks[k].stream \in {"cout", "cerr"}
                /\ sinks[k].func \in LogDetailsFuncs
                /\ DOMAIN sinks[k].scheme = DOMAIN sinks[k].asked
                /\ \A level \in DOMAIN sinks[k].scheme : Typed(sinks[k].scheme[level])
      <3> DEFINE own == defaults[sinks[k].stream]
      <3>1. sinks[k].stream \in {"cout", "cerr"} /\ sinks[k].func \in LogDetailsFuncs
         BY DEF ConsoleInv, SinksInv, IsSink
      <3>2. HasParts(own) /\ SchemeMatches(sinks[k].scheme, sinks[k].asked, own)
         BY <3>1 DEF LooksInv, SinkLooks
      <3> HIDE DEF own
      <3>3. DOMAIN sinks[k].scheme = DOMAIN sinks[k].asked
            /\ \A level \in DOMAIN sinks[k].scheme : Matches(sinks[k].scheme[level], sinks[k].asked[level], own)
         BY <3>2 DEF SchemeMatches
      <3> QED
         BY <3>1, <3>2, <3>3, AttributesTyped
   <2> QED
      BY <2>1 DEF PlainTypes, TypeOK, Typed
<1> QED
   BY LooksInvariant, <1>1, <1>2, <1>3, PTL DEF Spec
================================================================================
