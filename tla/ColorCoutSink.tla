----------------------------- MODULE ColorCoutSink -----------------------------
(******************************************************************************)
(* The sink that prints in colours: src/src/ColorCoutSink.cpp and             *)
(* g3log/ColorCoutSink.hpp, with the texts of LogMessage and the terminal.    *)
(*                                                                            *)
(* Each level has Attributes: escape sequences for terminals that understand  *)
(* them and, on Windows, the attributes of the console for those that do not. *)
(* A Setting changes Attributes; the scheme of a sink maps levels to the      *)
(* Attributes that the Settings given so far have made.                       *)
(*                                                                            *)
(* A sink runs its calls one by one, on its thread; two sinks, on cout and    *)
(* cerr, may print to one terminal at the same time.  A text with its escape  *)
(* sequences is one write; without them printing is three steps.  An escape   *)
(* sequence ESC [ n1 ; n2 ; ... m is the sequence of its numbers.             *)
(******************************************************************************)
EXTENDS LogMessage, FiniteSets

CONSTANTS Sinks, Streams,  \* Streams: what the program may pass to a constructor
          Schemes,         \* LevelsAndSettings used by the program
          K_DEFAULT_SETTINGS,
          Entries,         \* what the program logs
          ConsoleColours,  \* attributes that a Windows console may have at first
          MaxCalls,        \* bounds the calls that change a scheme
          None

ASSUME ColorCoutSinkAssumption ==
   /\ {"cout", "cerr"} \subseteq Streams
   /\ MaxCalls \in Nat
   /\ \A entry \in Entries : IsEntry(entry)
   /\ None \notin [entry : Entries, done : BOOLEAN]

VARIABLES tty,      \* stream -> whether it is a terminal
          windows,  \* the platform
          vt,       \* isVirtualTermSeqs_
          defaults, \* stdoutDefaultAttrs_, stderrDefaultAttrs_
          flag,     \* winSinkBuildFlag_
          sinks,    \* those that are there, see TypeOK
          console,  \* how the terminal shows what is written next
          aborted,
          \* history
          found,    \* the attributes of the console before the program
          piece,    \* the text written since the last call: what is seen, how, and how it was meant
          calls     \* calls that change a scheme

vars == <<tty, windows, vt, defaults, flag, sinks, console, aborted, found, piece, calls>>
platform == <<tty, windows, vt, defaults, found>>

--------------------------------------------------------------------------------
(* termcolor: the manipulators.  A colour is numbered as in the escape         *)
(* sequences: black, red, green, yellow, blue, magenta, cyan, white, and the   *)
(* same ones bright from 8 on.  A Setting without a meaning for the console    *)
(* has -1 for it, the argument of win_change_attributes for no change.         *)

BLUE == 1
GREEN == 2
RED == 4
INTENSITY == 8
COMMON_LVB_REVERSE_VIDEO == 16384
COMMON_LVB_UNDERSCORE == 32768

WinColour(c) ==
   <<0, RED, GREEN, GREEN + RED, BLUE, BLUE + RED, BLUE + GREEN, BLUE + GREEN + RED>>[(c % 8) + 1]
      + (IF c < 8 THEN 0 ELSE INTENSITY)

Foreground(c) == [kind |-> "fg", sgr |-> <<IF c < 8 THEN 30 + c ELSE 82 + c>>, win |-> WinColour(c)]
Background(c) == [kind |-> "bg", sgr |-> <<IF c < 8 THEN 40 + c ELSE 92 + c>>, win |-> 16 * WinColour(c)]
Foreground256(code) == [kind |-> "fg", sgr |-> <<38, 5, code>>, win |-> -1]
Background256(code) == [kind |-> "bg", sgr |-> <<48, 5, code>>, win |-> -1]
ForegroundRGB(r, g, b) == [kind |-> "fg", sgr |-> <<38, 2, r, g, b>>, win |-> -1]
BackgroundRGB(r, g, b) == [kind |-> "bg", sgr |-> <<48, 2, r, g, b>>, win |-> -1]

(* bold 1, dark 2, italic 3, underline 4, blink 5, reverse 7, concealed 8,     *)
(* crossed 9                                                                   *)
Attribute(n) == [kind |-> "attr", sgr |-> <<n>>,
                 win |-> CASE n = 4     -> COMMON_LVB_UNDERSCORE
                           [] n = 7     -> COMMON_LVB_REVERSE_VIDEO
                           [] n \notin {4, 7} -> -1]
Reset == [kind |-> "reset", sgr |-> <<0>>, win |-> -1]

(* What a Setting is, unless the program has manipulators of its own. *)
IsSetting(x) ==
   \/ \E c \in 0..15 : x \in {Foreground(c), Background(c)}
   \/ \E code \in 0..255 : x \in {Foreground256(code), Background256(code)}
   \/ /\ Len(x.sgr) = 5 /\ \A i \in 3..5 : x.sgr[i] \in 0..255
      /\ x \in {ForegroundRGB(x.sgr[3], x.sgr[4], x.sgr[5]),
                BackgroundRGB(x.sgr[3], x.sgr[4], x.sgr[5])}
   \/ \E n \in 1..9 \ {6} : x = Attribute(n)
   \/ x = Reset

ASSUME SettingsAssumption ==
   \A settings \in Schemes \cup {K_DEFAULT_SETTINGS} : \A level \in DOMAIN settings :
      settings[level] \in Seq({x \in ToSet(settings[level]) : IsSetting(x)})

(* The attributes of a console. *)
WORD == {word \in Nat : word <= 65535}

ASSUME ConsoleAssumption == ConsoleColours \subseteq WORD

(* The bits of a WORD: the foreground is 0..3, the background 4..7. *)
WithForeground(word, bits) == word - (word % 16) + bits
WithBackground(word, bits) == word - 16 * ((word \div 16) % 16) + bits
WithBit(word, bit) == IF (word \div bit) % 2 = 1 THEN word ELSE word + bit

(* win_change_attributes *)
WinChangeAttributes(word, setting) ==
   CASE setting.win = -1                         -> word
     [] setting.win # -1 /\ setting.kind = "fg"   -> WithForeground(word, setting.win)
     [] setting.win # -1 /\ setting.kind = "bg"   -> WithBackground(word, setting.win)
     [] setting.win # -1 /\ setting.kind = "attr" -> WithBit(word, setting.win)

(* Attributes(pStream) *)
NewAttributes(stream) == [fg |-> <<>>, bg |-> <<>>, attr |-> <<>>, win |-> defaults[stream]]

(* A colour replaces the one before, an attribute is added, reset takes all    *)
(* back.                                                                       *)
Manipulate(attrs, setting, stream) ==
   CASE setting.kind = "reset" -> NewAttributes(stream)
     [] setting.kind = "attr"  -> [attrs EXCEPT !.attr = Append(@, setting.sgr),
                                                !.win = WinChangeAttributes(@, setting)]
     [] setting.kind \in {"fg", "bg"} ->
           [attrs EXCEPT ![setting.kind] = <<setting.sgr>>,
                         !.win = WinChangeAttributes(@, setting)]

ManipulateAll(attrs, settings, stream) ==
   FoldLeft(LAMBDA given, setting : Manipulate(given, setting, stream), attrs, settings)

(* settingsToWorkingScheme.  Levels are ordered by value and text, so two with *)
(* one value are two keys.                                                     *)
SettingsToWorkingScheme(old, settings, clearFlag, stream) ==
   LET kept == IF clearFlag THEN <<>> ELSE old
   IN [level \in DOMAIN kept \cup DOMAIN settings |->
         ManipulateAll(IF level \in DOMAIN kept THEN kept[level] ELSE NewAttributes(stream),
                       IF level \in DOMAIN settings THEN settings[level] ELSE <<>>, stream)]

--------------------------------------------------------------------------------
(* The terminal.  One that takes escape sequences has a colour for either      *)
(* ground, <<>> if it is its own, and a set of attributes.  The console has a  *)
(* WORD.                                                                       *)
Plain == [fg |-> <<>>, bg |-> <<>>, attr |-> {}]

After(look, sgr) ==
   LET n == sgr[1]
   IN CASE n = 0                          -> Plain
        [] n \in 1..9                     -> [look EXCEPT !.attr = @ \cup {n}]
        [] n \in 30..38 \cup 90..97       -> [look EXCEPT !.fg = sgr]
        [] n \in 40..48 \cup 100..107     -> [look EXCEPT !.bg = sgr]

AfterAll(look, sgrs) == FoldLeft(After, look, sgrs)

Escapes == vt \/ ~windows

(* is_atty; only cout and cerr are streams of a terminal. *)
IsAtty(stream) == stream \in {"cout", "cerr"} /\ tty[stream]

--------------------------------------------------------------------------------
Alive(k) == k \in DOMAIN sinks
Idle(k) == Alive(k) /\ sinks[k].printing = None

(* initWin, before main: the console is read and asked to take escape          *)
(* sequences, which works if both streams are terminals and it can.            *)
(* Mutant: what the console has is not read.                                   *)
InitWinUnread(colours) == [stream \in {"cout", "cerr"} |-> BLUE + GREEN + RED]
InitWin(colours) ==
   [stream \in {"cout", "cerr"} |-> IF windows /\ tty[stream] THEN colours ELSE BLUE + GREEN + RED]

Init == /\ tty \in [{"cout", "cerr"} -> BOOLEAN]
        /\ windows \in BOOLEAN
        /\ vt \in {FALSE, windows /\ tty["cout"] /\ tty["cerr"]}
        /\ \E colours \in ConsoleColours :
              /\ defaults = InitWin(colours)
              /\ found = IF Escapes THEN Plain ELSE colours
        /\ flag = FALSE
        /\ sinks = <<>>
        /\ console = found
        /\ aborted = FALSE
        /\ piece = None
        /\ calls = 0

(* The constructors.  On a console without escape sequences a second sink      *)
(* aborts, after a first one has gone as well.  Mutant: it does not.           *)
BuildsAnyway == TRUE
Builds == Escapes \/ ~flag

NewSink(stream, settings) ==
   [stream |-> stream, settings |-> settings, func |-> "Default", printing |-> None,
    scheme |-> SettingsToWorkingScheme(<<>>, settings, TRUE, stream), asked |-> settings]

Construct(k, stream, settings) ==
   /\ ~Alive(k)
   /\ IF stream \in {"cout", "cerr"} /\ Builds
      THEN /\ sinks' = [j \in DOMAIN sinks \cup {k} |->
                          IF j = k THEN NewSink(stream, settings) ELSE sinks[j]]
           /\ UNCHANGED aborted
      ELSE aborted' = TRUE /\ UNCHANGED sinks
   /\ flag' = (flag \/ (~Escapes /\ stream \in {"cout", "cerr"}))
   /\ piece' = None
   /\ UNCHANGED <<platform, console, calls>>

(* Settings that the program has given since the scheme was cleared. *)
Merged(asked, settings) ==
   [level \in DOMAIN asked \cup DOMAIN settings |->
      (IF level \in DOMAIN asked THEN asked[level] ELSE <<>>)
         \o (IF level \in DOMAIN settings THEN settings[level] ELSE <<>>)]

Reconfigure(k, sink) == /\ Idle(k) /\ calls < MaxCalls
                        /\ sinks' = [sinks EXCEPT ![k] = sink]
                        /\ calls' = calls + 1 /\ piece' = None
                        /\ UNCHANGED <<platform, flag, console, aborted>>

Cleared(sink, settings) ==
   [sink EXCEPT !.scheme = SettingsToWorkingScheme(@, settings, TRUE, sink.stream),
                !.asked = settings]

SetWorkingScheme(k, settings) == Reconfigure(k,
   [sinks[k] EXCEPT !.scheme = SettingsToWorkingScheme(@, settings, FALSE, sinks[k].stream),
                    !.asked = Merged(@, settings)])
SetDefaultScheme(k, settings) == Reconfigure(k, [sinks[k] EXCEPT !.settings = settings])
DefaultScheme(k) == Reconfigure(k, Cleared(sinks[k], sinks[k].settings))
SystemDefaultScheme(k) == Reconfigure(k, Cleared(sinks[k], K_DEFAULT_SETTINGS))
BlackWhiteScheme(k) == Reconfigure(k, [sinks[k] EXCEPT !.scheme = <<>>, !.asked = <<>>])
OverrideLogDetails(k, func) == Reconfigure(k, [sinks[k] EXCEPT !.func = func])

--------------------------------------------------------------------------------
(* How an entry is meant to look: what was asked for its level since the last  *)
(* reset, the last colour of each ground and all attributes.  The console has  *)
(* the sixteen colours only, with red and blue the other way round.            *)
SinceReset(settings) ==
   LET resets == {i \in 1..Len(settings) : settings[i].kind = "reset"}
   IN IF resets = {} THEN settings ELSE SubSeq(settings, Max(resets) + 1, Len(settings))

LastOf(settings, kind, lengths) ==
   LET those == {i \in 1..Len(settings) : settings[i].kind = kind /\ Len(settings[i].sgr) \in lengths}
   IN IF those = {} THEN <<>> ELSE settings[Max(those)].sgr

AttributesOf(settings) ==
   {settings[i].sgr[1] : i \in {j \in 1..Len(settings) : settings[j].kind = "attr"}}

ColourOf(n) == LET c == n % 10
               IN (c % 2) * RED + ((c \div 2) % 2) * GREEN + (c \div 4) * BLUE
                     + (IF n >= 90 THEN INTENSITY ELSE 0)

MeantOnConsole(settings, own) ==
   LET fg == LastOf(settings, "fg", 1..1)
       bg == LastOf(settings, "bg", 1..1)
       colours == (IF fg = <<>> THEN own % 16 ELSE ColourOf(fg[1]))
                     + 16 * (IF bg = <<>> THEN (own \div 16) % 16 ELSE ColourOf(bg[1] - 10))
                     + 256 * (own \div 256)
       underlined == IF 4 \in AttributesOf(settings) THEN WithBit(colours, COMMON_LVB_UNDERSCORE)
                                                     ELSE colours
   IN IF 7 \in AttributesOf(settings) THEN WithBit(underlined, COMMON_LVB_REVERSE_VIDEO)
                                      ELSE underlined

MeantWithEscapes(settings) ==
   [fg |-> LastOf(settings, "fg", 1..5), bg |-> LastOf(settings, "bg", 1..5),
    attr |-> AttributesOf(settings)]

Meant(sink, level) ==
   IF ~IsAtty(sink.stream) \/ level \notin DOMAIN sink.asked THEN found
   ELSE LET settings == SinceReset(sink.asked[level])
        IN IF Escapes THEN MeantWithEscapes(settings) ELSE MeantOnConsole(settings, defaults[sink.stream])

--------------------------------------------------------------------------------
(* printLogMessage *)

Text(k, entry) == toString(Sent(entry, windows), sinks[k].func)

Coloured(k, level) == level \in DOMAIN sinks[k].scheme /\ IsAtty(sinks[k].stream)

(* What is seen on a terminal, and what the program meant. *)
Piece(k, entry, seen, look) == [seen |-> seen, whole |-> Text(k, entry), said |-> entry.text,
                                look |-> look, meant |-> Meant(sinks[k], entry.level)]

(* Without a scheme for the level, or not to a terminal. *)
PrintPlain(k, entry) ==
   /\ Idle(k) /\ ~Coloured(k, entry.level)
   /\ piece' = Piece(k, entry, Text(k, entry), IF IsAtty(sinks[k].stream) THEN console ELSE found)
   /\ UNCHANGED <<platform, flag, sinks, console, aborted, calls>>

(* One write of colours, text without its last character, reset and a new line *)
(* - as a C string, which ends where the text has Nul, and before the reset    *)
(* then.                                                                       *)
PrintWithEscapes(k, entry) ==
   /\ Idle(k) /\ Coloured(k, entry.level) /\ Escapes
   /\ LET attrs == sinks[k].scheme[entry.level]
          colours == attrs.bg \o attrs.fg \o attrs.attr
          look == AfterAll(console, colours)
          text == Front(Text(k, entry))
      IN /\ piece' = Piece(k, entry, CString(Append(text, Nl)), look)
         /\ console' = IF Nul \in ToSet(text) THEN look ELSE After(look, Reset.sgr)
   /\ UNCHANGED <<platform, flag, sinks, aborted, calls>>

(* The console is given the attributes, ... *)
SetConsole(k, entry) ==
   /\ Idle(k) /\ Coloured(k, entry.level) /\ ~Escapes
   /\ console' = sinks[k].scheme[entry.level].win
   /\ sinks' = [sinks EXCEPT ![k].printing = [entry |-> entry, done |-> FALSE]]
   /\ UNCHANGED <<platform, flag, aborted, piece, calls>>

(* ... the text is written, ... *)
PrintOnConsole(k) ==
   /\ Alive(k) /\ sinks[k].printing # None /\ ~sinks[k].printing.done
   /\ LET entry == sinks[k].printing.entry
      IN piece' = Piece(k, entry, Front(Text(k, entry)) \o <<Nl>>, console)
   /\ sinks' = [sinks EXCEPT ![k].printing.done = TRUE]
   /\ UNCHANGED <<platform, flag, console, aborted, calls>>

(* ... and it gets its own ones back. *)
RestoreConsole(k) ==
   /\ Alive(k) /\ sinks[k].printing # None /\ sinks[k].printing.done
   /\ console' = defaults[sinks[k].stream]
   /\ sinks' = [sinks EXCEPT ![k].printing = None]
   /\ UNCHANGED <<platform, flag, aborted, piece, calls>>

(* The destructor, after the thread of the sink has ended.  The flag stays.    *)
Destroy(k) == /\ Idle(k)
              /\ sinks' = [j \in DOMAIN sinks \ {k} |-> sinks[j]]
              /\ piece' = None
              /\ UNCHANGED <<platform, flag, console, aborted, calls>>

Next == /\ ~aborted
        /\ \E k \in Sinks :
              \/ \E stream \in Streams, settings \in Schemes \cup {K_DEFAULT_SETTINGS} :
                    Construct(k, stream, settings)
              \/ \E settings \in Schemes : SetWorkingScheme(k, settings) \/ SetDefaultScheme(k, settings)
              \/ DefaultScheme(k) \/ SystemDefaultScheme(k) \/ BlackWhiteScheme(k)
              \/ \E func \in LogDetailsFuncs : OverrideLogDetails(k, func)
              \/ \E entry \in Entries : \/ PrintPlain(k, entry)
                                        \/ PrintWithEscapes(k, entry)
                                        \/ SetConsole(k, entry)
              \/ PrintOnConsole(k) \/ RestoreConsole(k)
              \/ Destroy(k)

Spec == Init /\ [][Next]_vars

--------------------------------------------------------------------------------
TypeOK ==
   /\ flag \in BOOLEAN /\ aborted \in BOOLEAN /\ calls \in 0..MaxCalls
   /\ DOMAIN defaults = {"cout", "cerr"}
   /\ DOMAIN sinks \subseteq Sinks
   /\ \A k \in DOMAIN sinks :
         /\ sinks[k].stream \in {"cout", "cerr"}
         /\ sinks[k].func \in LogDetailsFuncs
         /\ DOMAIN sinks[k].scheme = DOMAIN sinks[k].asked
         /\ \A level \in DOMAIN sinks[k].scheme :
               LET attrs == sinks[k].scheme[level]
               IN Len(attrs.fg) <= 1 /\ Len(attrs.bg) <= 1 /\ attrs.win \in WORD

(* Each entry is shown as the Settings given for its level ask, however they   *)
(* were merged, replaced and reset over the calls, with or without escape      *)
(* sequences: never with what another sink or an earlier entry left on the     *)
(* terminal.                                                                   *)
ShownAsAsked == piece # None => piece.look = piece.meant

(* What a sink prints in colours is the whole text of the entry and nothing    *)
(* else: the character it takes off is the end of the line, and a Nul in what  *)
(* the program logged cuts that off, but not the rest of the entry.  What was  *)
(* logged up to there is in it, unless the text says that it is not.           *)
PrintedWhole ==
   piece # None =>
      LET said == CString(piece.said)
      IN /\ piece.seen = piece.whole
         /\ \/ \E i \in 1..(Len(piece.seen) - Len(said) + 1) :
                  SubSeq(piece.seen, i, i + Len(said) - 1) = said
            \/ ToSet(piece.seen) \cap {Truncated, ParseFailure} # {}

(* Unless a sink is printing the terminal is as the program found it.          *)
ConsoleRestored == (\A k \in DOMAIN sinks : Idle(k)) => console = found
================================================================================
