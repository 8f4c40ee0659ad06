------------------------------- MODULE Console -------------------------------
(***************************************************************************)
(* A dump command from the fields of the web page, or from the keyboard of  *)
(* a telnet user, to the folder the dump is written to: the line the page    *)
(* builds, the assembly of lines from what a socket receives, their way as   *)
(* messages of bounded length, the words and quotes script.c reads, and      *)
(* prepare_folder, which cleans the name and finds the folder's index.       *)
(*                                                                           *)
(* Text is a sequence of symbols; a number and a command word are one        *)
(* symbol.  Of the parameters of a dump, the nine it cannot do without are   *)
(* one, a number that tells the command, and its drive's and operator's      *)
(* texts are like the second comment.  Two texts are the same when their      *)
(* symbols are: no symbols spell another.  The ring of messages keeps them    *)
(* all and a dump is over before the next command: what the ring loses is     *)
(* the subject of InQueue, and two dumps at a time that of DumpSession.  No   *)
(* text has a dot or a $, so that no folder is named . or .. and the shell    *)
(* that removes one finds the name prepare_folder wrote.                      *)
(***************************************************************************)
EXTENDS Integers, Sequences, FiniteSets

CONSTANTS
  Symbols,   \* what text is made of
  Numeral,   \* the symbol each number is written as
  Padded,    \* and the one for its four digits, %.4d
  Fields,    \* what the fields of the page may hold for a dump
  Typed,     \* other lines a telnet user types
  Ends,      \* how the user's lines end: <<"nl">> or <<"cr", "nl">>
  MSG,       \* MAX_MESSAGES_SIZE
  LINE,      \* MAX_LINE_SIZE
  RECV,      \* sizes of what a recv returns
  MaxDumps,  \* bound: dump commands
  MaxTyped,  \* bound: other lines
  MaxRing,   \* bound: messages in the ring
  MaxIndex   \* the highest index of four digits: 9999

Numbers == DOMAIN Numeral

\* What the parser and the lines treat apart.
Marks == {"nul", "#", "cr", "nl", "sp", "tab", "quote"}

Text == Seq(Symbols)

\* The fields of a dump.
Forms == [name : Text, comment : Text, index : Numbers \ {0},
          mode : {"AUTO", "MANUAL", "NONE"}, comment2 : Text]

ASSUME ConsoleAssumption ==
  /\ Marks \cup {"-", "untitled", "dump", "dump_time", "800", "AUTO", "MANUAL", "NONE"} \subseteq Symbols
  /\ {".", "$"} \cap Symbols = {}
  /\ Numbers \subseteq Nat /\ {1} \cup 1 .. MaxDumps \cup 0 .. MaxIndex \subseteq Numbers
  /\ \A n \in Numbers : /\ Numeral[n] \in Symbols \ Marks
                        /\ Padded[n] \in Symbols \ Marks
                        /\ \A k \in Numbers : {Numeral[k], Padded[k]} \cap {Numeral[n], Padded[n]} # {}
                                               => k = n
  /\ Fields \subseteq Forms /\ Typed \subseteq Text /\ Ends \subseteq {<<"nl">>, <<"cr", "nl">>}
  /\ MSG \in Nat /\ MSG >= 8 /\ LINE \in Nat /\ LINE >= MSG /\ RECV \subseteq Nat \ {0}
  /\ MaxDumps \in Nat /\ MaxTyped \in Nat /\ MaxRing \in Nat /\ MaxIndex \in Nat

VARIABLES
  asked,    \* what was filled in for each dump command
  cut,      \* those whose message was cut
  wire,     \* symbols sent by the telnet user, not yet received
  recvbuf,  \* received, not yet looked at
  fullline, \* the line being assembled
  ring,     \* messages
  message,  \* what is left of the one the script thread has
  others,   \* other lines typed
  read,     \* parameters diskdump_thread read, by command, 0 for none
  disk      \* of each folder with the files of a dump, its command and parameters

vars == <<asked, cut, wire, recvbuf, fullline, ring, message, others, read, disk>>

AtMost(s, n) == IF Len(s) <= n THEN s ELSE SubSeq(s, 1, n)
First(S)     == CHOOSE i \in S : \A j \in S : i <= j

\* The line up to the first line feed, and what follows it.
LineEnd(s) == First({i \in 1 .. Len(s) : s[i] = "nl"} \cup {Len(s) + 1})
Line(s)    == SubSeq(s, 1, LineEnd(s) - 1)
After(s)   == SubSeq(s, LineEnd(s) + 1, Len(s))

-----------------------------------------------------------------------------
(* Words                                                                    *)

At(l, i) == IF i <= Len(l) THEN l[i] ELSE "nul"

is_end_line(c) == c \in {"nul", "#", "cr", "nl"}
is_space(c)    == c \in {"sp", "tab"}

get_next_word(l, o) ==
  First({i \in o .. Len(l) + 1 : is_end_line(At(l, i)) \/ At(l, i) # "sp"})

InQuotes(l, o, i) == Cardinality({j \in o .. i - 1 : At(l, j) = "quote"}) % 2 = 1

\* Mutation: a # ends the line inside quotes too.
copy_param_Hash(l, o) ==
  First({i \in o .. Len(l) + 1 :
           is_end_line(At(l, i)) \/ (is_space(At(l, i)) /\ ~InQuotes(l, o, i))})

\* Where the parameter that begins at o ends.
copy_param(l, o) ==
  First({i \in o .. Len(l) + 1 :
           \/ is_end_line(At(l, i)) /\ ~(InQuotes(l, o, i) /\ At(l, i) = "#")
           \/ is_space(At(l, i)) /\ ~InQuotes(l, o, i)})

\* What is left of s without its quotes.
Unquoted(s) ==
  LET kept    == {i \in 1 .. Len(s) : s[i] # "quote"}
      rank(i) == Cardinality({j \in kept : j <= i})
  IN  [n \in 1 .. Cardinality(kept) |-> s[CHOOSE i \in kept : rank(i) = n]]

Copied(l, o) == Unquoted(SubSeq(l, o, copy_param(l, o) - 1))

\* Where parameter p begins, or -1: parameter 0 is the command.
get_param_offset(l, p) ==
  LET Next1(o) == IF At(l, o) \in {"nul", "#"} THEN -1 ELSE o
      at[k \in 0 .. p] ==
        IF k = 0 THEN get_next_word(l, 1)
        ELSE LET o == at[k - 1]
             IN  IF o = -1 THEN -1 ELSE Next1(get_next_word(l, copy_param(l, o)))
  IN  at[p]

get_param(l, p) ==
  LET o == get_param_offset(l, p) IN IF o = -1 THEN <<>> ELSE Copied(l, o)

Given(l, p) == get_param_offset(l, p) # -1

\* A word that is no number is 0.
Writes(n, w) == w \in {<<Numeral[n]>>, <<Padded[n]>>}
atoi(w) == IF \E n \in Numbers : Writes(n, w) THEN CHOOSE n \in Numbers : Writes(n, w) ELSE 0

\* The command's word, with the quotes it may have.
extract_cmd(l) ==
  LET o == get_next_word(l, 1)
  IN  SubSeq(l, o, First({i \in o .. Len(l) + 1 : is_end_line(At(l, i)) \/ is_space(At(l, i))}) - 1)

-----------------------------------------------------------------------------
(* What the page and the user send                                          *)

Quoted(t) == <<"quote">> \o t \o <<"quote">>

\* The line of btReadTrack.
DumpLine(id, d) ==
  <<"dump", "sp", Numeral[id], "sp">> \o Quoted(d.name) \o <<"sp">> \o Quoted(d.comment)
    \o <<"sp", Numeral[d.index], "sp", d.mode, "sp">> \o Quoted(d.comment2)

Push(m) == ring' = Append(ring, AtMost(m, MSG - 1))

Fill(d, line) ==
  /\ asked' = Append(asked, d)
  /\ cut' = IF Len(line) < MSG THEN cut ELSE cut \cup {Len(asked) + 1}

\* A click on the page, which knows two modes and begins the automatic one at
\* 1.  A message of several lines, of which one stands for those that set delay
\* and time; what it sends for the Macintosh before is left out.
Click(d) ==
  LET e == IF d.mode = "AUTO" THEN [d EXCEPT !.index = 1] ELSE d
      m == <<"dump_time", "sp", "800", "nl">> \o DumpLine(Len(asked) + 1, e)
             \o <<"nl">>
  IN  /\ d.mode # "NONE" /\ Len(asked) < MaxDumps /\ Len(ring) < MaxRing
      /\ Push(m) /\ Fill(e, m)
      /\ UNCHANGED <<wire, recvbuf, fullline, message, others, read, disk>>

TypeDump(d, e) ==
  LET line == DumpLine(Len(asked) + 1, d)
  IN  /\ Len(asked) < MaxDumps /\ wire = <<>>
      /\ wire' = line \o e /\ Fill(d, line)
      /\ UNCHANGED <<recvbuf, fullline, ring, message, others, read, disk>>

TypeOther(t, e) ==
  /\ wire = <<>> /\ others < MaxTyped
  /\ wire' = t \o e /\ others' = others + 1
  /\ UNCHANGED <<asked, cut, recvbuf, fullline, ring, message, read, disk>>

-----------------------------------------------------------------------------
(* The threads of the connections and the script thread                     *)

Recv(n) ==
  /\ recvbuf = <<>> /\ wire # <<>>
  /\ recvbuf' = AtMost(wire, n)
  /\ wire' = SubSeq(wire, n + 1, Len(wire))
  /\ UNCHANGED <<asked, cut, fullline, ring, message, others, read, disk>>

\* Mutation: what was received before this recv is forgotten.
Assemble_New ==
  /\ recvbuf # <<>> /\ Len(ring) < MaxRing
  /\ LET line == AtMost(Line(recvbuf), LINE)
     IN  IF LineEnd(recvbuf) <= Len(recvbuf)
         THEN Push(line) /\ fullline' = <<>>
         ELSE fullline' = line /\ UNCHANGED ring
  /\ recvbuf' = After(recvbuf)
  /\ UNCHANGED <<asked, cut, wire, message, others, read, disk>>

Assemble ==
  /\ recvbuf # <<>> /\ Len(ring) < MaxRing
  /\ LET line == AtMost(fullline \o Line(recvbuf), LINE)
     IN  IF LineEnd(recvbuf) <= Len(recvbuf)
         THEN Push(line) /\ fullline' = <<>>
         ELSE fullline' = line /\ UNCHANGED ring
  /\ recvbuf' = After(recvbuf)
  /\ UNCHANGED <<asked, cut, wire, message, others, read, disk>>

Take ==
  /\ message = <<>> /\ ring # <<>>
  /\ message' = Head(ring) /\ ring' = Tail(ring)
  /\ UNCHANGED <<asked, cut, wire, recvbuf, fullline, others, read, disk>>

\* A line that is no dump, or one without the parameters it needs.
ExecOther ==
  /\ message # <<>>
  /\ ~(extract_cmd(Line(message)) = <<"dump">> /\ Given(Line(message), 1))
  /\ message' = After(message)
  /\ UNCHANGED <<asked, cut, wire, recvbuf, fullline, ring, others, read, disk>>

-----------------------------------------------------------------------------
(* The folder                                                               *)

is_valid_char(c) == c \notin {"\\", "/", ":", "`", "*", "|", ";", "quote", "'"}

Trimmed(t) ==
  SubSeq(t, 1, Len(t) - First({k \in 0 .. Len(t) : k = Len(t) \/ t[Len(t) - k] # "sp"}))
Clean(t)   == LET u == Trimmed(t)
              IN  [i \in 1 .. Len(u) |-> IF is_valid_char(u[i]) THEN u[i] ELSE "_"]

\* The folder's name: that of the dump, the comment if there is one, and in the
\* modes with an index its digits, each behind a dash.
Dashed(c)      == IF c = <<>> THEN <<>> ELSE <<"-">> \o c
Named(p)       == Clean(p.name) \o Dashed(Clean(p.comment))
Numbered(p, n) == Named(p) \o <<"-", Padded[n]>>
Inner(p)       == IF p.mode = "NONE" THEN Named(p) ELSE Numbered(p, p.index)

\* It is in one that has the dump's name, below the folder of all; an empty name
\* leaves the folder it is in.
Outer(p)  == IF Clean(p.name) = <<>> THEN <<>> ELSE <<Clean(p.name)>>
Folder(p) == IF Inner(p) = <<>> THEN Outer(p) ELSE Append(Outer(p), Inner(p))

Present  == DOMAIN disk
Above(f) == {SubSeq(f, 1, k) : k \in 0 .. Len(f)}
Dirs     == UNION {Above(f) : f \in Present}

\* The indexes auto mode finds: those of four digits behind its own name, in any
\* folder below the outer one.
display_info(p) ==
  {n \in 0 .. MaxIndex : \E d \in Dirs : /\ Outer(p) \in Above(d) /\ d # <<>>
                                         /\ d[Len(d)] = Numbered(p, n)}

\* Mutation: the count of the folders, instead of the highest index.
NextIndex_Count(p) ==
  LET n == Cardinality(display_info(p) \ {0}) + 1 IN IF n < p.index THEN p.index ELSE n

NextIndex(p) ==
  LET found == display_info(p) \cup {0}
      n     == 1 + (CHOOSE i \in found : \A j \in found : j <= i)
  IN  IF n < p.index THEN p.index ELSE n

\* The folders left are those of kept, and that of p.
Make(p, id, kept) ==
  disk' = [g \in kept \cup {Folder(p)} |->
             IF g = Folder(p) THEN [dump |-> id, by |-> p] ELSE disk[g]]

\* rm -rf, if it is there, and mkdir.
MakeAgain(p, id) == Make(p, id, {g \in Present : Folder(p) \notin Above(g)})

\* NONE and MANUAL empty the folder that is there; AUTO takes another, or none.
prepare_folder(p, id) ==
  LET q == [p EXCEPT !.index = NextIndex(p)]
  IN  \/ p.mode # "AUTO" /\ MakeAgain(p, id)
      \/ /\ p.mode = "AUTO" /\ MaxIndex \notin display_info(p) /\ Folder(q) \notin Dirs
         /\ Make(q, id, Present)
      \/ /\ p.mode = "AUTO" /\ (MaxIndex \in display_info(p) \/ Folder(q) \in Dirs)
         /\ UNCHANGED disk

\* What diskdump_thread reads of the line.
Parameters(l) ==
  LET name == get_param(l, 2)
      mode == get_param(l, 5)
  IN  [name    |-> IF name = <<>> THEN <<"untitled">> ELSE name,
       comment |-> get_param(l, 3),
       index   |-> atoi(get_param(l, 4)),
       mode    |-> IF mode = <<"NONE">> THEN "NONE"
                   ELSE IF mode = <<"MANUAL">> THEN "MANUAL" ELSE "AUTO",
       comment2 |-> get_param(l, 6)]

ExecDump ==
  LET l  == Line(message)
      id == atoi(get_param(l, 1))
      p  == Parameters(l)
  IN  /\ message # <<>>
      /\ extract_cmd(l) = <<"dump">> /\ Given(l, 1)
      /\ message' = After(message)
      /\ read' = [i \in DOMAIN read \cup {id} |-> IF i = id THEN p ELSE read[i]]
      /\ prepare_folder(p, id)
      /\ UNCHANGED <<asked, cut, wire, recvbuf, fullline, ring, others>>

Init ==
  /\ asked = <<>> /\ cut = {} /\ wire = <<>> /\ recvbuf = <<>> /\ fullline = <<>>
  /\ ring = <<>> /\ message = <<>> /\ others = 0 /\ read = <<>> /\ disk = <<>>

Next ==
  \/ \E d \in Fields : Click(d)
  \/ \E d \in Fields, e \in Ends : TypeDump(d, e)
  \/ \E t \in Typed, e \in Ends : TypeOther(t, e)
  \/ \E n \in RECV : Recv(n)
  \/ Assemble \/ Take \/ ExecOther \/ ExecDump

Spec == Init /\ [][Next]_vars

-----------------------------------------------------------------------------
(* Properties                                                               *)

\* What a quoted text holds and comes out as it went in.
Plain == Symbols \ {"nul", "cr", "nl", "quote"}

\* A message that is no dump, or one without a number.
Harmless(l) == extract_cmd(l) = <<"dump">> /\ Given(l, 1) => atoi(get_param(l, 1)) = 0

\* The texts of the fields have no quotes and are of one line, and the other
\* lines the user types run no dump.
OrdinaryTexts ==
  /\ \A d \in Fields : {d.name, d.comment, d.comment2} \subseteq Seq(Plain)
  /\ \A t \in Typed : \A e \in {<<>>, <<"cr">>} :
       (\A i \in 1 .. Len(t) : t[i] # "nl") /\ Harmless(AtMost(t \o e, MSG - 1))

\* The parameters a dump runs with are those filled in for it, spaces, # and
\* all, unless its message was longer than the ring keeps: whatever was typed in
\* between, and however the sockets cut the lines.
ParamsAsSent ==
  \A id \in DOMAIN read \ ({0} \cup cut) :
     /\ id \in DOMAIN asked
     /\ LET d == asked[id]
        IN  read[id] = [d EXCEPT !.name = IF @ = <<>> THEN <<"untitled">> ELSE @]

\* A folder a dump takes, and one whose files are gone.
Taken(f) == f \in DOMAIN disk' /\ (f \in Present => disk'[f] # disk[f])
Lost(f)  == f \in Present /\ (f \in DOMAIN disk' => disk'[f] # disk[f])

\* Told the same folder: name and comment as they are cleaned, and index.
SameName(p, q) == Clean(p.name) = Clean(q.name) /\ Clean(p.comment) = Clean(q.comment)
Alike(p, q) ==
  /\ SameName(p, q)
  /\ IF p.mode = "NONE" THEN q.mode = "NONE" ELSE q.mode # "NONE" /\ p.index = q.index

\* A name that is not only spaces and, where the folder has no index, a comment
\* that does not end like one: the others write the name of another's folder.
Clear(p) ==
  LET c == Clean(p.comment)
      d == Dashed(c)
  IN  /\ Clean(p.name) # <<>>
      /\ p.mode = "NONE" /\ c # <<>> =>
           ~(d[Len(d) - 1] = "-" /\ \E n \in Numbers : d[Len(d)] = Padded[n])

\* A dump in auto mode ("no overwrite!", script.c:478) costs no dump its files and
\* takes an index beyond those of its name, however others wrote theirs.
AutoKeeps(p) ==
  p.mode = "AUTO" =>
    \A f \in Present :
      LET q == disk[f].by
      IN  /\ ~Lost(f)
          /\ SameName(p, q) /\ q.mode # "NONE" /\ q.index <= MaxIndex => q.index < p.index

\* The files of a dump only ever make way for one whose folder is theirs or
\* above it: not for one in auto mode, and, where both have a clear name, for
\* one that was told the same name, comment and index.
DumpsKept ==
  [][/\ \A g \in DOMAIN disk' : Taken(g) => AutoKeeps(disk'[g].by)
     /\ \A f \in Present : Lost(f) =>
          \E g \in DOMAIN disk' \cap Above(f) :
             Clear(disk'[g].by) /\ Clear(disk[f].by) => Alike(disk'[g].by, disk[f].by)]_vars

\* The same without a clear name: with name a and comment 0001, mode NONE removes
\* the folder a-0001 of auto mode.
FoldersApart ==
  [][\A f \in Present : Lost(f) =>
       \E g \in DOMAIN disk' \cap Above(f) : Alike(disk'[g].by, disk[f].by)]_vars

\* No command is lost on the way: when nothing is left to receive, assemble or
\* execute, every dump asked for has been run, a cut message's too.
AllRun ==
  wire = <<>> /\ recvbuf = <<>> /\ ring = <<>> /\ message = <<>>
    => DOMAIN asked \subseteq DOMAIN read

\* A dump without its parameters is not run, but answered "Bad/Missing
\* parameter(s) !" (script.c:978): what runs was asked for with parameters.
MissingAnswered == 0 \notin DOMAIN read

=============================================================================
