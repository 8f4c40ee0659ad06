----------------------------- MODULE MCConsole ------------------------------
(* Texts with what the parser and the folder treat apart: a #, inner and      *)
(* trailing spaces, forbidden characters that make two names one, nothing; a  *)
(* comment like an index, which makes the folder of another mode; a comment   *)
(* too long for a message; lines that are cut, quoted, commented.             *)
EXTENDS Console, TLC

MCSymbols ==
  Marks \cup {ToString(n) : n \in 0 .. MaxIndex + MaxDumps}
    \cup {"000" \o ToString(n) : n \in 0 .. MaxIndex + MaxDumps}
    \cup {"dump", "dump_time", "800", "AUTO", "MANUAL", "NONE", "print"}
    \cup {"-", "untitled", "a", "b", ":", "*"}

MCNumeral == [n \in 0 .. MaxIndex + MaxDumps |-> ToString(n)]
MCPadded  == [n \in 0 .. MaxIndex + MaxDumps |-> "000" \o ToString(n)]

Form(n, c, i, m, c2) ==
  [name |-> n, comment |-> c, index |-> i, mode |-> m, comment2 |-> c2]

MCFields ==
  { Form(<<"a", ":">>, <<>>, 1, "AUTO", <<"b", "sp", "#">>),
    Form(<<"a", "*", "sp">>, <<>>, 4, "AUTO", <<"b">>),
    Form(<<"a", "*", "sp">>, <<>>, 3, "MANUAL", <<>>),
    Form(<<>>, <<"#", "b">>, 2, "AUTO", [i \in 1 .. 20 |-> "b"]),
    Form(<<>>, <<"#", "b">>, 1, "NONE", <<"tab">>),
    Form(<<"sp">>, <<>>, 1, "NONE", <<"tab">>),
    Form(<<"a", ":">>, <<"0001">>, 1, "NONE", <<"b">>) }

MCTyped == { <<"dump">>, <<"print", "sp", "quote", "b">>, <<"#", "dump", "sp", "1">> }

\* The folder of auto mode, and a comment that writes its name in mode NONE.
ClashFields ==
  { Form(<<"a">>, <<>>, 1, "AUTO", <<"b">>), Form(<<"a">>, <<"0001">>, 1, "NONE", <<"b">>) }

FewFields == { Form(<<"a">>, <<>>, 1, "AUTO", <<"b">>) }

\* The texts are ordinary, as the theorems about the commands assume.
ASSUME MCConsoleTexts == OrdinaryTexts

LineFeed == { <<"nl">> }
Telnet   == { <<"cr", "nl">> }

=============================================================================
