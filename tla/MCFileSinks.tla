------------------------------- MODULE MCFileSinks -----------------------------
(* Bounds: enough messages and rotations for two archives to be kept and a     *)
(* third to go, a limit that the header and the note alone exceed and one that *)
(* they do not, two processes.  Of the two logs to rotate, one has a directory *)
(* that expireArchives does not find, and the other takes some of its archives *)
(* for its own.                                                                *)
EXTENDS FileSinks

MCDate == [time \in 0..MaxClock |-> <<"2023", "2024">>[time + 1]]

MCDecimal[num \in 0..MaxNum] ==
   LET digit == <<<<"0", "1", "2", "3", "4", "5", "6", "7", "8", "9">>[(num % 10) + 1]>>
   IN IF num < 10 THEN digit ELSE MCDecimal[num \div 10] \o digit

MCStarts == {[dir |-> <<"d">>, name |-> <<".", "0">>]}
MCChanges == {[dir |-> <<"d">>, name |-> <<>>], [dir |-> <<"d", " ">>, name |-> <<"2">>]}
MCSizes == {1, 3}
MCCounts == {1, 2}
MCPolicies == {0, 2}
MCFilters == {{}, {2}}

MCPrefixes == {<<"0">>}
MCDirs == {<<"d", "/">>}
MCIds == {<<>>, <<"2">>}
================================================================================
