---------------------------- MODULE MCColorCoutSink ----------------------------
(* Bounds: two sinks, and the streams cout, cerr and one of the program; two    *)
(* schemes of the program and the one of the library, reduced to two levels;    *)
(* entries of the four ways to make a text, among them one with Nul in the      *)
(* middle and one that is longer than the buffer of capturef.                   *)
EXTENDS ColorCoutSink

CONSTANTS k1, k2

MCSymmetry == Permutations({k1, k2})

MCStreams == {"cout", "cerr", "file"}
MCColours == {7, 16670}

MCCustom == Level(1001, "MYFATAL")

MCDefault == (WARNING :> <<Foreground(15), Attribute(4), Background(12), BackgroundRGB(112, 23, 45),
                           Attribute(1), Attribute(7)>>)
          @@ (FATAL :> <<Foreground(8), Background256(7), Attribute(1)>>)
MCSchemes == { (WARNING :> <<Foreground(6), Attribute(4)>>),
               (WARNING :> <<Attribute(1), Reset, Background(1)>>) @@ (CONTRACT :> <<ForegroundRGB(1, 2, 3)>>) }

MCStream(level, text) ==
   [level |-> level, by |-> "stream", text |-> text, valid |-> TRUE, expression |-> ""]
MCPrintf(level, text, valid, expression) ==
   [level |-> level, by |-> "printf", text |-> text, valid |-> valid, expression |-> expression]

MCEntries ==
   { MCStream(WARNING, <<"a", Nul, "b">>),
     MCPrintf(WARNING, <<"a", "b", "c", "d">>, TRUE, ""),
     MCPrintf(INFO, <<"a", Nul>>, FALSE, ""),
     MCPrintf(CONTRACT, <<>>, TRUE, "x > 0"),
     MCStream(FATAL, <<"a", Nl>>),
     MCStream(FATAL_SIGNAL, <<"a">>), MCStream(FATAL_EXCEPTION, <<"a">>),
     MCStream(MCCustom, <<"a">>) }
================================================================================
