---------------------------- MODULE ConsoleProofs ----------------------------
(***************************************************************************)
(* Two parts.  The way of a command to script.c, for ordinary texts: a line  *)
(* comes out of the sockets, the assembly, the messages and the parser as    *)
(* the dump it was built from.  And the folders of dumps, for any texts,     *)
(* lines, sizes of messages and numbers of dumps: whatever line reaches      *)
(* cmd_dump, prepare_folder keeps what the folders hold.                     *)
(***************************************************************************)
EXTENDS Console, FiniteSetTheorems, WellFoundedInduction, TLAPS

-----------------------------------------------------------------------------
(* Text                                                                     *)

\* The symbols the lines are built with.
LEMMA OneSymbol ==
  ASSUME NEW c \in Symbols
  PROVE  <<c>> \in Text /\ Len(<<c>>) = 1 /\ <<c>>[1] = c
BY DEF Text

\* Marks, words and numerals are symbols, and a numeral is no mark.
LEMMA Known ==
  /\ \A c \in Marks \cup {"dump", "dump_time", "800", "AUTO", "MANUAL", "NONE"} : c \in Symbols
  /\ \A n \in Numbers : n \in Nat /\ Numeral[n] \in Symbols /\ Numeral[n] \notin Marks
  /\ \A n \in Numbers : Padded[n] \in Symbols /\ Padded[n] \notin Marks
  /\ \A n, k \in Numbers :
       Numeral[k] = Numeral[n] \/ Padded[k] = Numeral[n] \/ Padded[k] = Padded[n] => k = n
BY ConsoleAssumption

\* First is the least, when there is one.
LEMMA FirstIs ==
  ASSUME NEW S \in SUBSET Int, NEW i \in S, \A j \in S : i <= j
  PROVE  First(S) = i
<1>1. \A k \in S : (\A j \in S : k <= j) => k = i
  OBVIOUS
<1> QED
  BY <1>1 DEF First

\* Two texts one after the other.
LEMMA Joined ==
  ASSUME NEW x \in Text, NEW y \in Text
  PROVE  /\ x \o y \in Text /\ Len(x \o y) = Len(x) + Len(y)
         /\ Len(x) \in Nat /\ Len(y) \in Nat
         /\ \A i \in 1 .. Len(x) : (x \o y)[i] = x[i]
         /\ \A i \in 1 .. Len(y) : (x \o y)[Len(x) + i] = y[i]
BY DEF Text

\* What is left of a text that is cut.
LEMMA CutTo ==
  ASSUME NEW s \in Text, NEW n \in Nat
  PROVE  /\ AtMost(s, n) \in Text
         /\ Len(AtMost(s, n)) = IF Len(s) <= n THEN Len(s) ELSE n
         /\ \A i \in 1 .. Len(AtMost(s, n)) : AtMost(s, n)[i] = s[i]
<1>1. Len(s) \in Nat
  BY DEF Text
<1>2. CASE Len(s) <= n
  BY <1>1, <1>2 DEF AtMost
<1>3. CASE ~(Len(s) <= n)
  <2>1. AtMost(s, n) = SubSeq(s, 1, n)
    BY <1>3 DEF AtMost
  <2>2. n <= Len(s)
    BY <1>1, <1>3
  <2>3. SubSeq(s, 1, n) \in Seq(Symbols)
    BY <1>1, <2>2 DEF Text
  <2>4. Len(SubSeq(s, 1, n)) = n /\ \A i \in 1 .. n : SubSeq(s, 1, n)[i] = s[i]
    BY <1>1, <2>2 DEF Text
  <2> QED
    BY <1>1, <1>3, <2>1, <2>3, <2>4 DEF Text
<1> QED
  BY <1>2, <1>3

\* A text without line feed is a line.
LEMMA NoFeed ==
  ASSUME NEW s \in Text, \A i \in 1 .. Len(s) : s[i] # "nl"
  PROVE  LineEnd(s) = Len(s) + 1 /\ Line(s) = s /\ After(s) = <<>>
<1>1. Len(s) \in Nat
  BY DEF Text
<1>2. {i \in 1 .. Len(s) : s[i] = "nl"} \cup {Len(s) + 1} = {Len(s) + 1}
  OBVIOUS
<1>3. First({Len(s) + 1}) = Len(s) + 1
  BY <1>1, FirstIs
<1>4. LineEnd(s) = Len(s) + 1
  BY <1>2, <1>3 DEF LineEnd
<1>5. SubSeq(s, 1, Len(s) + 1 - 1) = s
  BY <1>1 DEF Text
<1>6. SubSeq(s, Len(s) + 1 + 1, Len(s)) = <<>>
  BY <1>1 DEF Text
<1> QED
  BY <1>4, <1>5, <1>6 DEF Line, After

\* A line, its line feed and what follows.
LEMMA Feed ==
  ASSUME NEW b \in Text, NEW z \in Text, \A i \in 1 .. Len(b) : b[i] # "nl"
  PROVE  LET s == b \o <<"nl">> \o z
         IN  /\ LineEnd(s) = Len(b) + 1 /\ LineEnd(s) <= Len(s)
             /\ Line(s) = b /\ After(s) = z
<1> DEFINE s == b \o <<"nl">> \o z
<1>1. /\ Len(b) \in Nat /\ Len(z) \in Nat /\ s \in Text
      /\ Len(s) = Len(b) + 1 + Len(z)
      /\ \A i \in 1 .. Len(b) : s[i] = b[i]
      /\ s[Len(b) + 1] = "nl"
      /\ \A i \in 1 .. Len(z) : s[Len(b) + 1 + i] = z[i]
  <2>1. <<"nl">> \in Text /\ Len(<<"nl">>) = 1 /\ <<"nl">>[1] = "nl"
    BY OneSymbol, Known DEF Marks
  <2> DEFINE h == b \o <<"nl">>
  <2>2. /\ h \in Text /\ Len(h) = Len(b) + 1 /\ Len(b) \in Nat
        /\ \A i \in 1 .. Len(b) : h[i] = b[i]
        /\ h[Len(b) + 1] = "nl"
    BY <2>1, Joined
  <2> HIDE DEF h
  <2>3. /\ h \o z \in Text /\ Len(h \o z) = Len(h) + Len(z) /\ Len(z) \in Nat
        /\ \A i \in 1 .. Len(h) : (h \o z)[i] = h[i]
        /\ \A i \in 1 .. Len(z) : (h \o z)[Len(h) + i] = z[i]
    BY <2>2, Joined
  <2>4. s = h \o z
    BY DEF h
  <2> HIDE DEF s
  <2> QED
    BY <2>2, <2>3, <2>4
<1> HIDE DEF s
<1>2. LineEnd(s) = Len(b) + 1
  <2> DEFINE S == {i \in 1 .. Len(s) : s[i] = "nl"} \cup {Len(s) + 1}
  <2>1. S \in SUBSET Int /\ Len(b) + 1 \in S
    BY <1>1
  <2>2. \A j \in S : Len(b) + 1 <= j
    BY <1>1
  <2> HIDE DEF S
  <2>3. First(S) = Len(b) + 1
    BY <2>1, <2>2, FirstIs
  <2> QED
    BY <2>3 DEF LineEnd, S
<1>3. SubSeq(s, 1, Len(b) + 1 - 1) = b
  BY <1>1 DEF Text
<1>4. SubSeq(s, Len(b) + 1 + 1, Len(s)) = z
  <2> DEFINE w == SubSeq(s, Len(b) + 1 + 1, Len(s))
  <2>1. w \in Text /\ z \in Text /\ Len(w) = Len(z) /\ Len(z) \in Nat
    BY <1>1 DEF Text
  <2>2. \A i \in 1 .. Len(z) : w[i] = s[Len(b) + 1 + i]
    BY <1>1 DEF Text
  <2> HIDE DEF w
  <2>3. \A i \in 1 .. Len(z) : w[i] = z[i]
    BY <1>1, <2>2
  <2>4. w = z
    BY <2>1, <2>3 DEF Text
  <2> QED
    BY <2>4 DEF w
<1> QED
  BY <1>1, <1>2, <1>3, <1>4 DEF s, Line, After

-----------------------------------------------------------------------------
(* Words                                                                    *)

\* Beyond the end of a line there is a 0.
LEMMA AtIs ==
  ASSUME NEW l \in Text, NEW o \in Nat \ {0}
  PROVE  /\ Len(l) \in Nat
         /\ At(l, o) = IF o <= Len(l) THEN l[o] ELSE "nul"
BY DEF At, Text

\* get_next_word stays where a word begins,
LEMMA WordHere ==
  ASSUME NEW l \in Text, NEW o \in Nat \ {0}, o <= Len(l) + 1, At(l, o) # "sp"
  PROVE  get_next_word(l, o) = o
<1>1. Len(l) \in Nat
  BY DEF Text
<1> DEFINE S == {i \in o .. Len(l) + 1 : is_end_line(At(l, i)) \/ At(l, i) # "sp"}
<1>2. S \in SUBSET Int /\ o \in S /\ \A j \in S : o <= j
  BY <1>1 DEF is_end_line
<1> HIDE DEF S
<1>3. First(S) = o
  BY <1>2, FirstIs
<1> QED
  BY <1>3 DEF get_next_word, S

\* and passes one space.
LEMMA WordAfter ==
  ASSUME NEW l \in Text, NEW o \in Nat \ {0}, o <= Len(l),
         At(l, o) = "sp", At(l, o + 1) # "sp"
  PROVE  get_next_word(l, o) = o + 1
<1>1. Len(l) \in Nat
  BY DEF Text
<1> DEFINE S == {i \in o .. Len(l) + 1 : is_end_line(At(l, i)) \/ At(l, i) # "sp"}
<1>2. S \in SUBSET Int /\ o + 1 \in S
  BY <1>1 DEF is_end_line
<1>3. o \notin S
  BY DEF is_end_line
<1>4. \A j \in S : o + 1 <= j
  BY <1>1, <1>3 DEF is_end_line
<1> HIDE DEF S
<1>5. First(S) = o + 1
  BY <1>2, <1>4, FirstIs
<1> QED
  BY <1>5 DEF get_next_word, S

\* What may follow a word.
Stops == {"nul", "#", "cr", "nl", "sp", "tab"}

\* Nothing is in quotes before the first quote,
LEMMA Outside ==
  ASSUME NEW l \in Text, NEW o \in Nat \ {0}, NEW i \in Nat,
         \A j \in o .. i - 1 : At(l, j) # "quote"
  PROVE  ~InQuotes(l, o, i)
<1>1. {j \in o .. i - 1 : At(l, j) = "quote"} = {}
  OBVIOUS
<1> QED
  BY <1>1, FS_EmptySet DEF InQuotes

\* all is from there to the second,
LEMMA Inside ==
  ASSUME NEW l \in Text, NEW o \in Nat \ {0}, NEW i \in Nat, o < i,
         At(l, o) = "quote", \A j \in o + 1 .. i - 1 : At(l, j) # "quote"
  PROVE  InQuotes(l, o, i)
<1>1. {j \in o .. i - 1 : At(l, j) = "quote"} = {o}
  OBVIOUS
<1>2. Cardinality({o}) = 1
  BY FS_Singleton
<1> QED
  BY <1>1, <1>2 DEF InQuotes

\* and nothing is after it.
LEMMA Closed ==
  ASSUME NEW l \in Text, NEW o \in Nat \ {0}, NEW e \in Nat, o < e,
         At(l, o) = "quote", At(l, e) = "quote",
         \A j \in o + 1 .. e - 1 : At(l, j) # "quote"
  PROVE  ~InQuotes(l, o, e + 1)
<1> DEFINE quotes == {j \in o .. (e + 1) - 1 : At(l, j) = "quote"}
<1>1. quotes = {o} \cup {e}
  OBVIOUS
<1>2. IsFiniteSet({o}) /\ Cardinality({o}) = 1
  BY FS_Singleton
<1>3. Cardinality({o} \cup {e}) = 2
  BY <1>2, FS_AddElement
<1>4. Cardinality(quotes) = 2
  BY <1>1, <1>3
<1> HIDE DEF quotes
<1>5. Cardinality(quotes) % 2 # 1
  BY <1>4
<1> QED
  BY <1>5 DEF InQuotes, quotes

\* Quotes around a text, and without them.
LEMMA PlainText ==
  ASSUME NEW t \in Seq(Plain)
  PROVE  /\ t \in Text /\ Len(t) \in Nat
         /\ \A i \in 1 .. Len(t) : t[i] \in Plain /\ t[i] # "quote"
<1>1. /\ Len(t) \in Nat /\ \A i \in 1 .. Len(t) : t[i] \in Plain
      /\ t = [i \in 1 .. Len(t) |-> t[i]]
  OBVIOUS
<1>2. \A i \in 1 .. Len(t) : t[i] \in Symbols
  BY <1>1 DEF Plain
<1>3. t \in Seq(Symbols)
  BY <1>1, <1>2
<1> QED
  BY <1>1, <1>3 DEF Plain, Text

\* A text in quotes, symbol by symbol.
LEMMA QuotedIs ==
  ASSUME NEW t \in Text
  PROVE  /\ Quoted(t) \in Text /\ Len(Quoted(t)) = Len(t) + 2
         /\ Quoted(t)[1] = "quote" /\ Quoted(t)[Len(t) + 2] = "quote"
         /\ \A i \in 1 .. Len(t) : Quoted(t)[1 + i] = t[i]
<1>1. <<"quote">> \in Text /\ Len(<<"quote">>) = 1 /\ <<"quote">>[1] = "quote"
  BY OneSymbol, Known DEF Marks
<1> DEFINE h == <<"quote">> \o t
<1>2. /\ h \in Text /\ Len(h) = 1 + Len(t) /\ Len(t) \in Nat
      /\ h[1] = "quote" /\ \A i \in 1 .. Len(t) : h[1 + i] = t[i]
  BY <1>1, Joined
<1> HIDE DEF h
<1> DEFINE z == <<"quote">>
<1>3. /\ h \o z \in Text /\ Len(h \o z) = Len(h) + 1
      /\ \A i \in 1 .. Len(h) : (h \o z)[i] = h[i]
      /\ (h \o z)[Len(h) + 1] = "quote"
  <2>1. z \in Text /\ Len(z) = 1 /\ z[1] = "quote"
    BY <1>1
  <2> HIDE DEF z
  <2>2. /\ h \o z \in Text /\ Len(h \o z) = Len(h) + Len(z)
        /\ \A i \in 1 .. Len(h) : (h \o z)[i] = h[i]
        /\ \A i \in 1 .. Len(z) : (h \o z)[Len(h) + i] = z[i]
    BY <1>2, <2>1, Joined
  <2>3. 1 \in 1 .. Len(z)
    BY <2>1
  <2> QED
    BY <2>1, <2>2, <2>3
<1>4. Quoted(t) = h \o z
  BY DEF Quoted, h
<1> HIDE DEF z
<1> QED
  BY <1>2, <1>3, <1>4

\* Without quotes a text is copied as it is,
LEMMA UnquotedPlain ==
  ASSUME NEW t \in Text, \A i \in 1 .. Len(t) : t[i] # "quote"
  PROVE  Unquoted(t) = t
<1> DEFINE kept    == {i \in 1 .. Len(t) : t[i] # "quote"}
           rank(i) == Cardinality({j \in kept : j <= i})
<1>1. Len(t) \in Nat /\ kept = 1 .. Len(t)
  BY DEF Text
<1>2. Cardinality(kept) = Len(t)
  <2>1. Cardinality(1 .. Len(t)) = Len(t)
    <3> DEFINE n == Len(t)
    <3>1. n \in Nat
      BY <1>1
    <3> HIDE DEF n
    <3>2. 1 \in Int /\ n \in Int /\ 1 <= n + 1 /\ n - 1 + 1 = n
      BY <3>1
    <3>3. Cardinality(1 .. n) = n
      BY <3>1, <3>2, FS_Interval
    <3> QED
      BY <3>3 DEF n
  <2> QED
    BY <1>1, <2>1
<1>3. \A i \in kept : rank(i) = i
  <2> SUFFICES ASSUME NEW i \in 1 .. Len(t)
               PROVE Cardinality({j \in 1 .. Len(t) : j <= i}) = i
    BY <1>1
  <2>1. {j \in 1 .. Len(t) : j <= i} = 1 .. i
    BY <1>1
  <2>2. Cardinality(1 .. i) = i
    BY <1>1, FS_Interval
  <2> QED
    BY <2>1, <2>2
<1>4. Unquoted(t) = [n \in 1 .. Cardinality(kept) |-> t[CHOOSE i \in kept : rank(i) = n]]
  BY DEF Unquoted
<1> HIDE DEF rank, kept
<1>5. \A n \in 1 .. Len(t) : (CHOOSE i \in kept : rank(i) = n) = n
  BY <1>1, <1>3
<1>6. Unquoted(t) = [n \in 1 .. Len(t) |-> t[n]]
  BY <1>2, <1>4, <1>5
<1> QED
  BY <1>1, <1>6 DEF Text

\* and a text of plain symbols comes out of its quotes.
LEMMA UnquotedQuoted ==
  ASSUME NEW t \in Seq(Plain)
  PROVE  Unquoted(Quoted(t)) = t
<1> DEFINE q       == Quoted(t)
           N       == Len(t)
           kept    == {i \in 1 .. Len(q) : q[i] # "quote"}
           rank(i) == Cardinality({j \in kept : j <= i})
<1>1. Unquoted(q) = [n \in 1 .. Cardinality(kept) |-> q[CHOOSE i \in kept : rank(i) = n]]
  BY DEF Unquoted
<1>2. /\ t \in Text /\ N \in Nat /\ \A i \in 1 .. N : t[i] # "quote"
  BY PlainText
<1>3. /\ Len(q) = N + 2 /\ q[1] = "quote" /\ q[N + 2] = "quote"
      /\ \A i \in 1 .. N : q[1 + i] = t[i]
  BY <1>2, QuotedIs
<1> HIDE DEF q, N
<1>4. \A i \in 2 .. N + 1 : q[i] = t[i - 1] /\ t[i - 1] # "quote"
  <2> SUFFICES ASSUME NEW i \in 2 .. N + 1 PROVE q[i] = t[i - 1] /\ t[i - 1] # "quote"
    OBVIOUS
  <2>1. i - 1 \in 1 .. N /\ 1 + (i - 1) = i
    BY <1>2
  <2> QED
    BY <1>2, <1>3, <2>1
<1>5. kept = 2 .. N + 1
  <2>1. \A i \in 1 .. N + 2 : q[i] # "quote" <=> i \in 2 .. N + 1
    <3> SUFFICES ASSUME NEW i \in 1 .. N + 2 PROVE q[i] # "quote" <=> i \in 2 .. N + 1
      OBVIOUS
    <3>1. i = 1 \/ i = N + 2 \/ i \in 2 .. N + 1
      BY <1>2
    <3> QED
      BY <1>2, <1>3, <1>4, <3>1
  <2> QED
    BY <1>2, <1>3, <2>1
<1>6. Cardinality(kept) = N
  <2>1. Cardinality(2 .. N + 1) = N
    BY <1>2, FS_Interval
  <2> QED
    BY <1>5, <2>1
<1>7. \A i \in kept : rank(i) = i - 1
  <2> SUFFICES ASSUME NEW i \in 2 .. N + 1
               PROVE Cardinality({j \in 2 .. N + 1 : j <= i}) = i - 1
    BY <1>5
  <2>1. {j \in 2 .. N + 1 : j <= i} = 2 .. i
    BY <1>2
  <2>2. Cardinality(2 .. i) = i - 1
    BY <1>2, FS_Interval
  <2> QED
    BY <2>1, <2>2
<1> HIDE DEF rank, kept
<1>8. \A n \in 1 .. N : (CHOOSE i \in kept : rank(i) = n) = n + 1
  <2> SUFFICES ASSUME NEW n \in 1 .. N PROVE (CHOOSE i \in kept : rank(i) = n) = n + 1
    OBVIOUS
  <2>1. n + 1 \in kept /\ rank(n + 1) = n
    BY <1>2, <1>5, <1>7
  <2>2. \A i \in kept : i \in Int /\ (rank(i) = n => i = n + 1)
    BY <1>2, <1>5, <1>7
  <2> QED
    BY <2>1, <2>2
<1>9. \A n \in 1 .. N : q[n + 1] = t[n]
  BY <1>2, <1>3
<1>10. Unquoted(q) = [n \in 1 .. N |-> t[n]]
  BY <1>1, <1>6, <1>8, <1>9
<1>11. t = [n \in 1 .. N |-> t[n]]
  BY <1>2 DEF Text, N
<1> QED
  BY <1>10, <1>11 DEF q

\* A word of one symbol.
LEMMA BareWord ==
  ASSUME NEW l \in Text, NEW o \in Nat \ {0}, o <= Len(l),
         l[o] \notin Marks, At(l, o + 1) \in Stops
  PROVE  copy_param(l, o) = o + 1 /\ Copied(l, o) = <<l[o]>>
<1>1. Len(l) \in Nat /\ At(l, o) = l[o]
  BY AtIs
<1>2. ~InQuotes(l, o, o)
  BY Outside
<1>3. ~InQuotes(l, o, o + 1)
  <2>1. \A j \in o .. (o + 1) - 1 : At(l, j) # "quote"
    BY <1>1 DEF Marks
  <2> QED
    BY <2>1, Outside
<1> DEFINE S == {i \in o .. Len(l) + 1 :
                   \/ is_end_line(At(l, i)) /\ ~(InQuotes(l, o, i) /\ At(l, i) = "#")
                   \/ is_space(At(l, i)) /\ ~InQuotes(l, o, i)}
<1>4. S \in SUBSET Int
  BY <1>1
<1>5. o + 1 \in S
  BY <1>1, <1>3 DEF Stops, is_end_line, is_space
<1>6. o \notin S
  BY <1>1, <1>2 DEF Marks, is_end_line, is_space
<1>7. \A j \in S : o + 1 <= j
  <2>1. \A j \in S : j \in o .. Len(l) + 1
    OBVIOUS
  <2> HIDE DEF S
  <2> QED
    BY <1>1, <1>6, <2>1
<1> HIDE DEF S
<1>8. First(S) = o + 1
  BY <1>4, <1>5, <1>7, FirstIs
<1>9. copy_param(l, o) = o + 1
  BY <1>8 DEF copy_param, S
<1>10. Copied(l, o) = <<l[o]>>
  <2> DEFINE u == SubSeq(l, o, o)
  <2>0. u \in Text /\ Len(u) = 1 /\ u[1] = l[o]
    BY <1>1 DEF Text
  <2>1. u = <<l[o]>>
    <3> HIDE DEF u
    <3> QED
      BY <2>0 DEF Text
  <2>4. copy_param(l, o) - 1 = o
    BY <1>9
  <2>2. Copied(l, o) = Unquoted(<<l[o]>>)
    BY <2>1, <2>4 DEF Copied
  <2>3. l[o] # "quote" /\ l[o] \in Symbols
    BY <1>1 DEF Marks, Text
  <2> QED
    BY <2>2, <2>3, UnquotedPlain, OneSymbol
<1> QED
  BY <1>9, <1>10

\* A text in quotes.
LEMMA QuotedWord ==
  ASSUME NEW l \in Text, NEW o \in Nat \ {0}, NEW t \in Seq(Plain),
         o + Len(t) + 1 <= Len(l),
         l[o] = "quote", l[o + Len(t) + 1] = "quote",
         \A i \in 1 .. Len(t) : l[o + i] = t[i],
         At(l, o + Len(t) + 2) \in Stops
  PROVE  copy_param(l, o) = o + Len(t) + 2 /\ Copied(l, o) = t
<1> DEFINE n == Len(t)
           e == o + n + 1
<1>1. /\ Len(l) \in Nat /\ n \in Nat /\ e \in Nat /\ e <= Len(l) /\ o < e
      /\ \A i \in 1 .. n : t[i] \in Plain
  BY AtIs
<1>2. At(l, o) = "quote" /\ At(l, e) = "quote" /\ At(l, e + 1) \in Stops
  BY <1>1, AtIs
<1>3. \A j \in o + 1 .. e - 1 : At(l, j) \in Plain
  <2> SUFFICES ASSUME NEW j \in o + 1 .. e - 1 PROVE At(l, j) \in Plain
    OBVIOUS
  <2>1. j - o \in 1 .. n /\ j \in Nat \ {0} /\ j <= Len(l) /\ o + (j - o) = j
    BY <1>1
  <2>2. l[j] = t[j - o]
    BY <2>1
  <2> QED
    BY <1>1, <2>1, <2>2, AtIs
<1> HIDE DEF n, e
<1>4. \A j \in o + 1 .. e - 1 : At(l, j) # "quote"
  BY <1>3 DEF Plain
<1>5. ~InQuotes(l, o, o)
  BY Outside
<1>6. \A i \in o + 1 .. e : InQuotes(l, o, i)
  <2> SUFFICES ASSUME NEW i \in o + 1 .. e PROVE InQuotes(l, o, i)
    OBVIOUS
  <2>1. i \in Nat /\ o < i /\ \A j \in o + 1 .. i - 1 : j \in o + 1 .. e - 1
    BY <1>1
  <2> QED
    BY <1>2, <1>4, <2>1, Inside
<1>7. ~InQuotes(l, o, e + 1)
  BY <1>1, <1>2, <1>4, Closed
<1> DEFINE S == {i \in o .. Len(l) + 1 :
                   \/ is_end_line(At(l, i)) /\ ~(InQuotes(l, o, i) /\ At(l, i) = "#")
                   \/ is_space(At(l, i)) /\ ~InQuotes(l, o, i)}
<1>8. S \in SUBSET Int /\ \A j \in S : j \in o .. Len(l) + 1
  BY <1>1
<1>9. e + 1 \in S
  BY <1>1, <1>2, <1>7 DEF Stops, is_end_line, is_space
<1>10. o \notin S
  BY <1>2, <1>5 DEF is_end_line, is_space
<1>11. e \notin S
  BY <1>1, <1>2, <1>6 DEF is_end_line, is_space
<1>12. \A j \in o + 1 .. e - 1 : j \notin S
  <2> SUFFICES ASSUME NEW j \in o + 1 .. e - 1 PROVE j \notin S
    OBVIOUS
  <2>1. InQuotes(l, o, j)
    BY <1>1, <1>6
  <2>2. At(l, j) \notin {"nul", "cr", "nl"}
    BY <1>3 DEF Plain
  <2> QED
    BY <2>1, <2>2 DEF is_end_line, is_space
<1> HIDE DEF S
<1>13. \A j \in S : e + 1 <= j
  BY <1>1, <1>8, <1>10, <1>11, <1>12
<1>14. First(S) = e + 1
  BY <1>1, <1>8, <1>9, <1>13, FirstIs
<1>15. copy_param(l, o) = e + 1
  BY <1>14 DEF copy_param, S
<1>16. SubSeq(l, o, e) = <<"quote">> \o t \o <<"quote">>
  <2> DEFINE q == <<"quote">> \o t \o <<"quote">>
  <2>1. t \in Text
    BY PlainText
  <2>2. /\ q \in Text /\ Len(q) = n + 2 /\ q[1] = "quote" /\ q[n + 2] = "quote"
        /\ \A i \in 1 .. n : q[1 + i] = t[i]
    BY <2>1, QuotedIs DEF Quoted, n
  <2>3. e = o + n + 1
    BY DEF e
  <2>4. \A i \in 1 .. n : l[o + i] = t[i]
    BY DEF n
  <2>5. l[o] = "quote" /\ l[e] = "quote"
    BY DEF e, n
  <2> DEFINE u == SubSeq(l, o, e)
  <2>6. /\ u \in Text /\ Len(u) = n + 2
        /\ \A i \in 1 .. n + 2 : u[i] = l[o + i - 1]
    BY <1>1, <2>3 DEF Text
  <2> HIDE DEF q, u
  <2>7. \A i \in 1 .. n + 2 : u[i] = q[i]
    <3> SUFFICES ASSUME NEW i \in 1 .. n + 2 PROVE u[i] = q[i]
      OBVIOUS
    <3>1. CASE i = 1
      BY <1>1, <3>1, <2>2, <2>5, <2>6
    <3>2. CASE i = n + 2
      BY <1>1, <3>2, <2>2, <2>3, <2>5, <2>6
    <3>3. CASE i \in 2 .. n + 1
      <4>1. i - 1 \in 1 .. n /\ 1 + (i - 1) = i /\ o + (i - 1) = o + i - 1
        BY <1>1, <3>3
      <4> QED
        BY <4>1, <2>2, <2>4, <2>6
    <3> QED
      BY <1>1, <3>1, <3>2, <3>3
  <2>8. u = q
    BY <2>2, <2>6, <2>7 DEF Text
  <2> QED
    BY <2>8 DEF u, q
<1>17. Copied(l, o) = t
  <2>1. copy_param(l, o) - 1 = e
    BY <1>1, <1>15
  <2>2. SubSeq(l, o, copy_param(l, o) - 1) = Quoted(t)
    BY <1>16, <2>1 DEF Quoted
  <2>3. Copied(l, o) = Unquoted(Quoted(t))
    BY <2>2 DEF Copied
  <2> QED
    BY <2>3, UnquotedQuoted
<1>18. e + 1 = o + Len(t) + 2
  BY <1>1 DEF e, n
<1> QED
  BY <1>15, <1>17, <1>18

-----------------------------------------------------------------------------
(* Where the parameters begin                                               *)

\* From one parameter to the next.
Following(l, o) ==
  IF o = -1 THEN -1
  ELSE LET n == get_next_word(l, copy_param(l, o))
       IN  IF At(l, n) \in {"nul", "#"} THEN -1 ELSE n

\* get_param_offset goes from word to word.
LEMMA Offsets ==
  ASSUME NEW l, NEW p \in 0 .. 6, NEW w,
         w[0] = get_next_word(l, 1),
         \A k \in 1 .. p : w[k] = Following(l, w[k - 1])
  PROVE  get_param_offset(l, p) = w[p]
<1> DEFINE step(f, k) == IF k = 0 THEN get_next_word(l, 1) ELSE Following(l, f[k - 1])
           at == CHOOSE f : f = [k \in 0 .. p |-> step(f, k)]
           v  == [k \in 0 .. p |-> w[k]]
<1>1. v = [k \in 0 .. p |-> step(v, k)]
  <2>1. \A k \in 0 .. p : v[k] = step(v, k)
    <3> SUFFICES ASSUME NEW k \in 0 .. p PROVE w[k] = step(v, k)
      OBVIOUS
    <3>1. CASE k = 0
      BY <3>1
    <3>2. CASE k # 0
      <4>1. k \in 1 .. p /\ k - 1 \in 0 .. p
        BY <3>2
      <4>2. v[k - 1] = w[k - 1]
        BY <4>1
      <4> QED
        BY <3>2, <4>1, <4>2
    <3> QED
      BY <3>1, <3>2
  <2> HIDE DEF step
  <2> QED
    BY <2>1
<1>2. at = [k \in 0 .. p |-> step(at, k)]
  <2> HIDE DEF v, step
  <2> QED
    BY <1>1
<1>3. get_param_offset(l, p) = at[p]
  BY DEF get_param_offset, Following
<1> HIDE DEF at
<1>4. at[0] = w[0] /\ \A k \in 1 .. p : at[k] = Following(l, at[k - 1])
  BY <1>2
<1> HIDE DEF step, v
<1>5. \A k \in 1 .. p : at[k - 1] = w[k - 1] => at[k] = w[k]
  BY <1>4
<1>6. p >= 1 => at[1] = w[1]
  <2>1. p >= 1 => 1 \in 1 .. p /\ 1 - 1 = 0
    OBVIOUS
  <2> QED
    BY <1>4, <1>5, <2>1
<1>7. p >= 2 => at[2] = w[2]
  <2>1. p >= 2 => 2 \in 1 .. p /\ 2 - 1 = 1
    OBVIOUS
  <2> QED
    BY <1>5, <1>6, <2>1
<1>8. p >= 3 => at[3] = w[3]
  <2>1. p >= 3 => 3 \in 1 .. p /\ 3 - 1 = 2
    OBVIOUS
  <2> QED
    BY <1>5, <1>7, <2>1
<1>9. p >= 4 => at[4] = w[4]
  <2>1. p >= 4 => 4 \in 1 .. p /\ 4 - 1 = 3
    OBVIOUS
  <2> QED
    BY <1>5, <1>8, <2>1
<1>10. p >= 5 => at[5] = w[5]
  <2>1. p >= 5 => 5 \in 1 .. p /\ 5 - 1 = 4
    OBVIOUS
  <2> QED
    BY <1>5, <1>9, <2>1
<1>11. p >= 6 => at[6] = w[6]
  <2>1. p >= 6 => 6 \in 1 .. p /\ 6 - 1 = 5
    OBVIOUS
  <2> QED
    BY <1>5, <1>10, <2>1
<1>12. p \in {0, 1, 2, 3, 4, 5, 6}
  OBVIOUS
<1> QED
  BY <1>3, <1>4, <1>6, <1>7, <1>8, <1>9, <1>10, <1>11, <1>12

\* After a word that a space ends comes the next one.
LEMMA NextWord ==
  ASSUME NEW l \in Text, NEW o \in Nat \ {0}, NEW e \in Nat \ {0},
         copy_param(l, o) = e, e < Len(l), l[e] = "sp",
         l[e + 1] \notin {"sp", "nul", "#"}
  PROVE  Following(l, o) = e + 1
<1>1. Len(l) \in Nat /\ At(l, e) = "sp" /\ At(l, e + 1) = l[e + 1]
  BY AtIs
<1>2. get_next_word(l, e) = e + 1
  BY <1>1, WordAfter
<1> QED
  BY <1>1, <1>2 DEF Following

-----------------------------------------------------------------------------
(* The line of a dump                                                       *)

\* The fields a dump can be asked with, when its texts are ordinary.
Ordinary == [name : Seq(Plain), comment : Seq(Plain), index : Numbers \ {0},
             mode : {"AUTO", "MANUAL", "NONE"}, comment2 : Seq(Plain)]

\* The symbols of the line, by their places, for texts of a, b and c symbols.
Places(s, id, d, t, a, b, c) ==
  /\ a \in Nat /\ b \in Nat /\ c \in Nat /\ Len(t) \in Nat
  /\ s \in Text /\ Len(s) = 16 + a + b + c + Len(t)
  /\ s[1] = "dump" /\ s[2] = "sp" /\ s[3] = Numeral[id] /\ s[4] = "sp"
  /\ s[5] = "quote" /\ (\A i \in 1 .. a : s[5 + i] = d.name[i])
  /\ s[6 + a] = "quote" /\ s[7 + a] = "sp"
  /\ s[8 + a] = "quote" /\ (\A i \in 1 .. b : s[8 + a + i] = d.comment[i])
  /\ s[9 + a + b] = "quote" /\ s[10 + a + b] = "sp"
  /\ s[11 + a + b] = Numeral[d.index] /\ s[12 + a + b] = "sp"
  /\ s[13 + a + b] = d.mode /\ s[14 + a + b] = "sp"
  /\ s[15 + a + b] = "quote" /\ (\A i \in 1 .. c : s[15 + a + b + i] = d.comment2[i])
  /\ s[16 + a + b + c] = "quote"
  /\ \A i \in 1 .. Len(t) : s[16 + a + b + c + i] = t[i]

\* The line of a dump has its fields there.
LEMMA Layout ==
  ASSUME NEW id \in Numbers, NEW d \in Ordinary, NEW t \in Text
  PROVE  /\ Places(DumpLine(id, d) \o t, id, d, t, Len(d.name), Len(d.comment), Len(d.comment2))
         /\ DumpLine(id, d) \in Text
         /\ Len(DumpLine(id, d)) = 16 + Len(d.name) + Len(d.comment) + Len(d.comment2)
<1> DEFINE a  == Len(d.name)
           b  == Len(d.comment)
           c  == Len(d.comment2)
           q1 == Quoted(d.name)
           q2 == Quoted(d.comment)
           q3 == Quoted(d.comment2)
           x1 == <<"dump", "sp", Numeral[id], "sp">>
           x2 == <<"sp">>
           x3 == <<"sp", Numeral[d.index], "sp", d.mode, "sp">>
           p1 == x1 \o q1
           p2 == p1 \o x2
           p3 == p2 \o q2
           p4 == p3 \o x3
           p5 == p4 \o q3
           s  == p5 \o t
<1>1. d.name \in Text /\ d.comment \in Text /\ d.comment2 \in Text
      /\ a \in Nat /\ b \in Nat /\ c \in Nat
  BY PlainText DEF Ordinary
<1>2. Numeral[id] \in Symbols /\ Numeral[d.index] \in Symbols /\ d.mode \in Symbols
      /\ "sp" \in Symbols /\ "dump" \in Symbols
  BY Known DEF Ordinary, Marks
<1>3. /\ x1 \in Text /\ Len(x1) = 4
      /\ x1[1] = "dump" /\ x1[2] = "sp" /\ x1[3] = Numeral[id] /\ x1[4] = "sp"
  BY <1>2 DEF Text
<1>4. x2 \in Text /\ Len(x2) = 1 /\ x2[1] = "sp"
  BY <1>2 DEF Text
<1>5. /\ x3 \in Text /\ Len(x3) = 5
      /\ x3[1] = "sp" /\ x3[2] = Numeral[d.index] /\ x3[3] = "sp" /\ x3[4] = d.mode
      /\ x3[5] = "sp"
  BY <1>2 DEF Text
<1>6. /\ q1 \in Text /\ Len(q1) = a + 2 /\ q1[1] = "quote" /\ q1[a + 2] = "quote"
      /\ \A i \in 1 .. a : q1[1 + i] = d.name[i]
  BY <1>1, QuotedIs
<1>7. /\ q2 \in Text /\ Len(q2) = b + 2 /\ q2[1] = "quote" /\ q2[b + 2] = "quote"
      /\ \A i \in 1 .. b : q2[1 + i] = d.comment[i]
  BY <1>1, QuotedIs
<1>8. /\ q3 \in Text /\ Len(q3) = c + 2 /\ q3[1] = "quote" /\ q3[c + 2] = "quote"
      /\ \A i \in 1 .. c : q3[1 + i] = d.comment2[i]
  BY <1>1, QuotedIs
<1>9. DumpLine(id, d) = p5 /\ DumpLine(id, d) \o t = s
  <2> HIDE DEF q1, q2, q3
  <2>1. x1 \in Text /\ x2 \in Text /\ x3 \in Text /\ q1 \in Text /\ q2 \in Text /\ q3 \in Text
    BY <1>3, <1>4, <1>5, <1>6, <1>7, <1>8
  <2>2. DumpLine(id, d) = x1 \o q1 \o x2 \o q2 \o x3 \o q3
    BY DEF DumpLine, q1, q2, q3
  <2> QED
    BY <2>2
<1> HIDE DEF x1, x2, x3, q1, q2, q3, a, b, c, p1, p2, p3, p4, p5, s
<1>10. /\ p1 \in Text /\ Len(p1) = 6 + a
       /\ p1[1] = "dump" /\ p1[2] = "sp" /\ p1[3] = Numeral[id] /\ p1[4] = "sp"
       /\ p1[5] = "quote" /\ (\A i \in 1 .. a : p1[5 + i] = d.name[i])
       /\ p1[6 + a] = "quote"
  <2> DEFINE n == 4
             m == a + 2
  <2>1. x1 \in Text /\ Len(x1) = n /\ n \in Nat /\ q1 \in Text /\ Len(q1) = m /\ m \in Nat
    BY <1>1, <1>3, <1>6
  <2>2. p1 = x1 \o q1
    BY DEF p1
  <2> HIDE DEF n, m
  <2>3. /\ p1 \in Text /\ Len(p1) = Len(x1) + Len(q1)
        /\ \A i \in 1 .. Len(x1) : p1[i] = x1[i]
        /\ \A i \in 1 .. Len(q1) : p1[Len(x1) + i] = q1[i]
    BY <2>1, <2>2, Joined
  <2>4. /\ p1 \in Text /\ Len(p1) = n + m
        /\ \A i \in 1 .. n : p1[i] = x1[i]
        /\ \A j \in Nat : \A i \in 1 .. m : j = n + i => p1[j] = q1[i]
    BY <2>1, <2>3
  <2> USE DEF n, m
  <2>5. p1[1] = "dump" /\ p1[2] = "sp" /\ p1[3] = Numeral[id] /\ p1[4] = "sp"
    BY <1>1, <2>4, <1>3, <1>6
  <2>6. p1[5] = "quote" /\ p1[6 + a] = "quote"
    BY <1>1, <2>4, <1>3, <1>6
  <2>7. \A i \in 1 .. a : p1[5 + i] = d.name[i]
    BY <1>1, <2>4, <1>3, <1>6
  <2> QED
    BY <1>1, <2>4, <2>5, <2>6, <2>7
<1>11. /\ p2 \in Text /\ Len(p2) = 7 + a
       /\ (\A i \in 1 .. 6 + a : p2[i] = p1[i]) /\ p2[7 + a] = "sp"
  <2> DEFINE n == 6 + a
             m == 1
  <2>1. p1 \in Text /\ Len(p1) = n /\ n \in Nat /\ x2 \in Text /\ Len(x2) = m /\ m \in Nat
    BY <1>1, <1>4, <1>10
  <2>2. p2 = p1 \o x2
    BY DEF p2
  <2> HIDE DEF n, m
  <2>3. /\ p2 \in Text /\ Len(p2) = Len(p1) + Len(x2)
        /\ \A i \in 1 .. Len(p1) : p2[i] = p1[i]
        /\ \A i \in 1 .. Len(x2) : p2[Len(p1) + i] = x2[i]
    BY <2>1, <2>2, Joined
  <2>4. /\ p2 \in Text /\ Len(p2) = n + m
        /\ \A i \in 1 .. n : p2[i] = p1[i]
        /\ \A j \in Nat : \A i \in 1 .. m : j = n + i => p2[j] = x2[i]
    BY <2>1, <2>3
  <2> USE DEF n, m
  <2>5. p2[7 + a] = "sp"
    BY <1>1, <2>4, <1>4, <1>10
  <2> QED
    BY <1>1, <2>4, <2>5
<1>12. /\ p3 \in Text /\ Len(p3) = 9 + a + b
       /\ (\A i \in 1 .. 7 + a : p3[i] = p2[i])
       /\ p3[8 + a] = "quote" /\ (\A i \in 1 .. b : p3[8 + a + i] = d.comment[i])
       /\ p3[9 + a + b] = "quote"
  <2> DEFINE n == 7 + a
             m == b + 2
  <2>1. p2 \in Text /\ Len(p2) = n /\ n \in Nat /\ q2 \in Text /\ Len(q2) = m /\ m \in Nat
    BY <1>1, <1>7, <1>11
  <2>2. p3 = p2 \o q2
    BY DEF p3
  <2> HIDE DEF n, m
  <2>3. /\ p3 \in Text /\ Len(p3) = Len(p2) + Len(q2)
        /\ \A i \in 1 .. Len(p2) : p3[i] = p2[i]
        /\ \A i \in 1 .. Len(q2) : p3[Len(p2) + i] = q2[i]
    BY <2>1, <2>2, Joined
  <2>4. /\ p3 \in Text /\ Len(p3) = n + m
        /\ \A i \in 1 .. n : p3[i] = p2[i]
        /\ \A j \in Nat : \A i \in 1 .. m : j = n + i => p3[j] = q2[i]
    BY <2>1, <2>3
  <2> USE DEF n, m
  <2>5. p3[8 + a] = "quote" /\ p3[9 + a + b] = "quote"
    BY <1>1, <2>4, <1>7, <1>11
  <2>6. \A i \in 1 .. b : p3[8 + a + i] = d.comment[i]
    BY <1>1, <2>4, <1>7, <1>11
  <2> QED
    BY <1>1, <2>4, <2>5, <2>6
<1>13. /\ p4 \in Text /\ Len(p4) = 14 + a + b
       /\ (\A i \in 1 .. 9 + a + b : p4[i] = p3[i])
       /\ p4[10 + a + b] = "sp" /\ p4[11 + a + b] = Numeral[d.index]
       /\ p4[12 + a + b] = "sp" /\ p4[13 + a + b] = d.mode /\ p4[14 + a + b] = "sp"
  <2> DEFINE n == 9 + a + b
             m == 5
  <2>1. p3 \in Text /\ Len(p3) = n /\ n \in Nat /\ x3 \in Text /\ Len(x3) = m /\ m \in Nat
    BY <1>1, <1>5, <1>12
  <2>2. p4 = p3 \o x3
    BY DEF p4
  <2> HIDE DEF n, m
  <2>3. /\ p4 \in Text /\ Len(p4) = Len(p3) + Len(x3)
        /\ \A i \in 1 .. Len(p3) : p4[i] = p3[i]
        /\ \A i \in 1 .. Len(x3) : p4[Len(p3) + i] = x3[i]
    BY <2>1, <2>2, Joined
  <2>4. /\ p4 \in Text /\ Len(p4) = n + m
        /\ \A i \in 1 .. n : p4[i] = p3[i]
        /\ \A j \in Nat : \A i \in 1 .. m : j = n + i => p4[j] = x3[i]
    BY <2>1, <2>3
  <2> USE DEF n, m
  <2>5. p4[10 + a + b] = "sp"
    BY <1>1, <2>4, <1>5, <1>12
  <2>6. p4[11 + a + b] = Numeral[d.index]
    BY <1>1, <2>4, <1>5, <1>12
  <2>7. p4[12 + a + b] = "sp"
    BY <1>1, <2>4, <1>5, <1>12
  <2>8. p4[13 + a + b] = d.mode
    BY <1>1, <2>4, <1>5, <1>12
  <2>9. p4[14 + a + b] = "sp"
    BY <1>1, <2>4, <1>5, <1>12
  <2>10. Len(p4) = 14 + a + b /\ \A i \in 1 .. 9 + a + b : p4[i] = p3[i]
    BY <1>1, <2>4, <1>5, <1>12
  <2> QED
    BY <1>1, <2>4, <2>5, <2>6, <2>7, <2>8, <2>9, <2>10
<1>14. /\ p5 \in Text /\ Len(p5) = 16 + a + b + c
       /\ (\A i \in 1 .. 14 + a + b : p5[i] = p4[i])
       /\ p5[15 + a + b] = "quote" /\ (\A i \in 1 .. c : p5[15 + a + b + i] = d.comment2[i])
       /\ p5[16 + a + b + c] = "quote"
  <2> DEFINE n == 14 + a + b
             m == c + 2
  <2>1. p4 \in Text /\ Len(p4) = n /\ n \in Nat /\ q3 \in Text /\ Len(q3) = m /\ m \in Nat
    BY <1>1, <1>8, <1>13
  <2>2. p5 = p4 \o q3
    BY DEF p5
  <2> HIDE DEF n, m
  <2>3. /\ p5 \in Text /\ Len(p5) = Len(p4) + Len(q3)
        /\ \A i \in 1 .. Len(p4) : p5[i] = p4[i]
        /\ \A i \in 1 .. Len(q3) : p5[Len(p4) + i] = q3[i]
    BY <2>1, <2>2, Joined
  <2>4. /\ p5 \in Text /\ Len(p5) = n + m
        /\ \A i \in 1 .. n : p5[i] = p4[i]
        /\ \A j \in Nat : \A i \in 1 .. m : j = n + i => p5[j] = q3[i]
    BY <2>1, <2>3
  <2> USE DEF n, m
  <2>5. p5[15 + a + b] = "quote" /\ p5[16 + a + b + c] = "quote"
    BY <1>1, <2>4, <1>8, <1>13
  <2>6. \A i \in 1 .. c : p5[15 + a + b + i] = d.comment2[i]
    BY <1>1, <2>4, <1>8, <1>13
  <2>7. Len(p5) = 16 + a + b + c /\ \A i \in 1 .. 14 + a + b : p5[i] = p4[i]
    BY <1>1, <2>4, <1>8, <1>13
  <2> QED
    BY <1>1, <2>4, <2>5, <2>6, <2>7
<1>15. /\ s \in Text /\ Len(s) = 16 + a + b + c + Len(t) /\ Len(t) \in Nat
       /\ (\A i \in 1 .. 16 + a + b + c : s[i] = p5[i])
       /\ \A i \in 1 .. Len(t) : s[16 + a + b + c + i] = t[i]
  <2> DEFINE n == 16 + a + b + c
             m == Len(t)
  <2>1. p5 \in Text /\ Len(p5) = n /\ n \in Nat /\ t \in Text /\ Len(t) = m /\ m \in Nat
    BY <1>1, <1>14, Joined
  <2>2. s = p5 \o t
    BY DEF s
  <2> HIDE DEF n, m
  <2>3. /\ s \in Text /\ Len(s) = Len(p5) + Len(t)
        /\ \A i \in 1 .. Len(p5) : s[i] = p5[i]
        /\ \A i \in 1 .. Len(t) : s[Len(p5) + i] = t[i]
    BY <2>1, <2>2, Joined
  <2>4. /\ s \in Text /\ Len(s) = n + m
        /\ \A i \in 1 .. n : s[i] = p5[i]
        /\ \A j \in Nat : \A i \in 1 .. m : j = n + i => s[j] = t[i]
    BY <2>1, <2>3
  <2> USE DEF n, m
  <2>5. \A i \in 1 .. Len(t) : s[16 + a + b + c + i] = t[i]
    BY <1>1, <2>1, <2>4
  <2> QED
    BY <2>1, <2>4, <2>5
<1>16. /\ s[1] = "dump" /\ s[2] = "sp" /\ s[3] = Numeral[id] /\ s[4] = "sp"
       /\ s[5] = "quote" /\ s[6 + a] = "quote" /\ s[7 + a] = "sp"
       /\ \A i \in 1 .. a : s[5 + i] = d.name[i]
  <2>1. \A i \in 1 .. 6 + a : s[i] = p1[i]
    <3> SUFFICES ASSUME NEW i \in 1 .. 6 + a PROVE s[i] = p1[i]
      OBVIOUS
    <3>1. /\ i \in 1 .. 7 + a /\ i \in 1 .. 9 + a + b /\ i \in 1 .. 14 + a + b
          /\ i \in 1 .. 16 + a + b + c
      BY <1>1
    <3> QED
      BY <1>11, <1>12, <1>13, <1>14, <1>15, <3>1
  <2>2. s[7 + a] = "sp"
    <3>1. /\ 7 + a \in 1 .. 9 + a + b /\ 7 + a \in 1 .. 14 + a + b
          /\ 7 + a \in 1 .. 16 + a + b + c /\ 7 + a \in 1 .. 7 + a
      BY <1>1
    <3> QED
      BY <1>11, <1>12, <1>13, <1>14, <1>15, <3>1
  <2>3. /\ 1 \in 1 .. 6 + a /\ 2 \in 1 .. 6 + a /\ 3 \in 1 .. 6 + a /\ 4 \in 1 .. 6 + a
        /\ 5 \in 1 .. 6 + a /\ 6 + a \in 1 .. 6 + a /\ \A i \in 1 .. a : 5 + i \in 1 .. 6 + a
    BY <1>1
  <2> QED
    BY <1>10, <2>1, <2>2, <2>3
<1>17. /\ s[8 + a] = "quote" /\ (\A i \in 1 .. b : s[8 + a + i] = d.comment[i])
       /\ s[9 + a + b] = "quote"
  <2>1. \A i \in 1 .. 9 + a + b : s[i] = p3[i]
    <3> SUFFICES ASSUME NEW i \in 1 .. 9 + a + b PROVE s[i] = p3[i]
      OBVIOUS
    <3>1. i \in 1 .. 14 + a + b /\ i \in 1 .. 16 + a + b + c
      BY <1>1
    <3> QED
      BY <1>13, <1>14, <1>15, <3>1
  <2>2. s[8 + a] = "quote" /\ s[9 + a + b] = "quote"
    BY <1>1, <1>12, <2>1
  <2>3. ASSUME NEW i \in 1 .. b PROVE s[8 + a + i] = d.comment[i]
    <3>1. 8 + a + i \in 1 .. 9 + a + b
      BY <1>1
    <3> QED
      BY <1>12, <2>1, <3>1
  <2> QED
    BY <2>2, <2>3
<1>18. /\ s[10 + a + b] = "sp" /\ s[11 + a + b] = Numeral[d.index]
       /\ s[12 + a + b] = "sp" /\ s[13 + a + b] = d.mode /\ s[14 + a + b] = "sp"
  <2>1. \A i \in 1 .. 14 + a + b : s[i] = p4[i]
    <3> SUFFICES ASSUME NEW i \in 1 .. 14 + a + b PROVE s[i] = p4[i]
      OBVIOUS
    <3>1. i \in 1 .. 16 + a + b + c
      BY <1>1
    <3> QED
      BY <1>14, <1>15, <3>1
  <2>2. /\ 10 + a + b \in 1 .. 14 + a + b /\ 11 + a + b \in 1 .. 14 + a + b
        /\ 12 + a + b \in 1 .. 14 + a + b /\ 13 + a + b \in 1 .. 14 + a + b
        /\ 14 + a + b \in 1 .. 14 + a + b
    BY <1>1
  <2> QED
    BY <1>13, <2>1, <2>2
<1>19. /\ s[15 + a + b] = "quote" /\ (\A i \in 1 .. c : s[15 + a + b + i] = d.comment2[i])
       /\ s[16 + a + b + c] = "quote"
  BY <1>1, <1>14, <1>15
<1>20. Places(s, id, d, t, a, b, c)
  BY <1>1, <1>15, <1>16, <1>17, <1>18, <1>19 DEF Places
<1> QED
  BY <1>9, <1>14, <1>20 DEF a, b, c

\* atoi reads back what a number is written as.
LEMMA AtoiNumeral ==
  ASSUME NEW n \in Numbers
  PROVE  atoi(<<Numeral[n]>>) = n
<1>1. \A k \in Numbers : Writes(k, <<Numeral[n]>>) => k = n
  <2>1. \A x, y : <<x>> = <<y>> => x = y
    OBVIOUS
  <2> QED
    BY <2>1, Known DEF Writes
<1>2. Writes(n, <<Numeral[n]>>)
  BY DEF Writes
<1> QED
  BY <1>1, <1>2 DEF atoi

\* A line that begins with a word of one symbol.
LEMMA FirstWord ==
  ASSUME NEW l \in Text, Len(l) >= 1, l[1] \notin Stops, At(l, 2) \in Stops,
         get_next_word(l, 1) = 1
  PROVE  extract_cmd(l) = <<l[1]>>
<1> DEFINE S == {i \in 1 .. Len(l) + 1 : is_end_line(At(l, i)) \/ is_space(At(l, i))}
<1>1. Len(l) \in Nat /\ At(l, 1) = l[1]
  BY AtIs DEF Text
<1>2. \A c : is_end_line(c) \/ is_space(c) <=> c \in Stops
  BY DEF is_end_line, is_space, Stops
<1>3. First(S) = 2
  <2>1. 2 \in S /\ 1 \notin S /\ S \in SUBSET Int
    BY <1>1, <1>2
  <2>2. \A i \in S : i >= 1 /\ i # 1
    BY <1>1, <2>1
  <2> HIDE DEF S
  <2>3. \A i \in S : 2 <= i
    BY <2>1, <2>2
  <2> QED
    BY <2>1, <2>3, FirstIs
<1> HIDE DEF S
<1>4. extract_cmd(l) = SubSeq(l, 1, First(S) - 1)
  BY DEF extract_cmd, S
<1>5. SubSeq(l, 1, 1) = <<l[1]>>
  <2> DEFINE x == SubSeq(l, 1, 1)
             y == <<l[1]>>
  <2>1. x \in Text /\ Len(x) = 1 /\ x[1] = l[1]
    BY <1>1 DEF Text
  <2>2. l[1] \in Symbols
    BY <1>1 DEF Text
  <2>3. y \in Text /\ Len(y) = 1 /\ y[1] = l[1]
    BY <2>2, OneSymbol
  <2> HIDE DEF x, y
  <2>4. \A i \in 1 .. 1 : x[i] = y[i]
    BY <2>1, <2>3
  <2>5. x = y
    BY <2>1, <2>3, <2>4 DEF Text
  <2> QED
    BY <2>5 DEF x, y
<1>6. 2 - 1 = 1
  OBVIOUS
<1> QED
  BY <1>3, <1>4, <1>5, <1>6

\* Three symbols of a dump's line are enough to run it.
LEMMA Command ==
  ASSUME NEW id \in Numbers, NEW l \in Text, Len(l) >= 3,
         l[1] = "dump", l[2] = "sp", l[3] = Numeral[id], At(l, 4) \in Stops
  PROVE  /\ get_next_word(l, 1) = 1 /\ Following(l, 1) = 3 /\ copy_param(l, 3) = 4
         /\ extract_cmd(l) = <<"dump">>
         /\ Given(l, 1) /\ atoi(get_param(l, 1)) = id
<1>1. /\ Len(l) \in Nat /\ At(l, 1) = "dump" /\ At(l, 2) = "sp"
      /\ At(l, 3) = Numeral[id]
  BY AtIs
<1>2. Numeral[id] \notin Marks
  BY Known
<1>3. get_next_word(l, 1) = 1
  BY <1>1, WordHere
<1>4. copy_param(l, 1) = 2 /\ Copied(l, 1) = <<"dump">>
  <2>1. l[1] \notin Marks /\ At(l, 1 + 1) \in Stops
    BY <1>1 DEF Marks, Stops
  <2> QED
    BY <1>1, <2>1, BareWord
<1>5. Following(l, 1) = 3
  <2>1. l[2 + 1] \notin {"sp", "nul", "#"}
    BY <1>2 DEF Marks
  <2>2. 2 < Len(l)
    BY <1>1
  <2> QED
    BY <1>4, <2>1, <2>2, NextWord
<1>6. copy_param(l, 3) = 4 /\ Copied(l, 3) = <<Numeral[id]>>
  <2>1. At(l, 3 + 1) \in Stops
    OBVIOUS
  <2> QED
    BY <1>1, <1>2, <2>1, BareWord
<1>7. get_param_offset(l, 1) = 3
  <2> DEFINE w == [k \in 0 .. 1 |-> IF k = 0 THEN 1 ELSE 3]
  <2>1. w[0] = 1 /\ w[1] = 3
    OBVIOUS
  <2> HIDE DEF w
  <2>2. \A k \in 1 .. 1 : w[k] = Following(l, w[k - 1])
    BY <1>5, <2>1
  <2>3. w[0] = get_next_word(l, 1)
    BY <1>3, <2>1
  <2>4. get_param_offset(l, 1) = w[1]
    BY <2>2, <2>3, Offsets
  <2> QED
    BY <2>1, <2>4
<1>8. get_param(l, 1) = <<Numeral[id]>>
  BY <1>6, <1>7 DEF get_param
<1>9. extract_cmd(l) = <<"dump">>
  <2>1. At(l, 2) \in Stops /\ l[1] \notin Stops
    BY <1>1 DEF Stops
  <2> QED
    BY <1>1, <1>3, <2>1, FirstWord
<1> QED
  BY <1>3, <1>5, <1>6, <1>7, <1>8, <1>9, AtoiNumeral DEF Given

\* What a dump is asked with, as it is read.
Meant(d) == [d EXCEPT !.name = IF @ = <<>> THEN <<"untitled">> ELSE @]

\* A record with another name.
LEMMA Renamed ==
  \A n, c, i, m, k, new :
     [[name |-> n, comment |-> c, index |-> i, mode |-> m, comment2 |-> k] EXCEPT !.name = new]
       = [name |-> new, comment |-> c, index |-> i, mode |-> m, comment2 |-> k]
OBVIOUS

\* A whole line is read as it was written: its number, and the parameters.
LEMMA WholeLine ==
  ASSUME NEW id \in Numbers, NEW d \in Ordinary, NEW t \in {<<>>, <<"cr">>}
  PROVE  LET l == DumpLine(id, d) \o t
         IN  /\ extract_cmd(l) = <<"dump">>
             /\ Given(l, 1) /\ atoi(get_param(l, 1)) = id
             /\ Parameters(l) = Meant(d)
<1> DEFINE l == DumpLine(id, d) \o t
           a == Len(d.name)
           b == Len(d.comment)
           c == Len(d.comment2)
<1>1. t \in Text
  <2>1. <<>> \in Text
    BY DEF Text
  <2>2. <<"cr">> \in Text
    BY OneSymbol, Known DEF Marks
  <2> QED
    BY <2>1, <2>2
<1>2. Places(l, id, d, t, a, b, c)
  BY <1>1, Layout
<1>3. Len(d.name) = a /\ Len(d.comment) = b /\ Len(d.comment2) = c
  OBVIOUS
<1> HIDE DEF l, a, b, c
<1> USE DEF Places
<1>6. At(l, 17 + a + b + c) \in Stops
  <2>1. CASE t = <<>>
    <3>1. Len(t) = 0
      BY <2>1
    <3>2. ~(17 + a + b + c <= Len(l))
      BY <1>2, <3>1
    <3> QED
      BY <3>2 DEF At, Stops
  <2>2. CASE t = <<"cr">>
    <3>1. Len(t) = 1 /\ t[1] = "cr"
      BY <2>2
    <3>2. l[17 + a + b + c] = "cr" /\ 17 + a + b + c <= Len(l)
      <4>1. l[16 + a + b + c + 1] = "cr"
        BY <1>2, <3>1
      <4>2. 16 + a + b + c + 1 = 17 + a + b + c
        BY <1>2
      <4> QED
        BY <1>2, <3>1, <4>1, <4>2
    <3> QED
      BY <3>2 DEF At, Stops
  <2> QED
    BY <2>1, <2>2
<1>7. /\ d.name \in Seq(Plain) /\ d.comment \in Seq(Plain) /\ d.comment2 \in Seq(Plain)
      /\ Numeral[d.index] \notin Marks /\ d.mode \notin Marks /\ d.index \in Numbers
  BY Known DEF Ordinary, Marks
<1>8. /\ get_next_word(l, 1) = 1 /\ Following(l, 1) = 3 /\ copy_param(l, 3) = 4
      /\ extract_cmd(l) = <<"dump">> /\ Given(l, 1) /\ atoi(get_param(l, 1)) = id
  <2>1. Len(l) >= 3
    BY <1>2
  <2>2. At(l, 4) \in Stops
    BY <1>2 DEF At, Stops
  <2> QED
    BY <1>2, <2>1, <2>2, Command
<1>9. Following(l, 3) = 5
  <2> DEFINE e == 4
  <2>1. e \in Nat \ {0} /\ e + 1 = 5 /\ e < Len(l) /\ l[e] = "sp"
    BY <1>2
  <2>2. l[e + 1] \notin {"sp", "nul", "#"}
    BY <1>2, <2>1
  <2>3. copy_param(l, 3) = e
    BY <1>8
  <2> HIDE DEF e
  <2>4. Following(l, 3) = e + 1
    BY <1>2, <2>1, <2>2, <2>3, NextWord
  <2> QED
    BY <2>1, <2>4
<1>10. copy_param(l, 5) = 7 + a /\ Copied(l, 5) = d.name
  <2> DEFINE o == 5
  <2>1. /\ o \in Nat \ {0} /\ o + a + 1 = 6 + a /\ o + a + 2 = 7 + a
        /\ o + a + 1 <= Len(l)
    BY <1>2
  <2>2. At(l, o + a + 2) \in Stops
    BY <1>2, <2>1 DEF At, Stops
  <2>3. /\ l[o] = "quote" /\ l[o + a + 1] = "quote"
        /\ \A i \in 1 .. a : l[o + i] = d.name[i]
    BY <1>2, <2>1
  <2> HIDE DEF o
  <2>4. copy_param(l, o) = o + a + 2 /\ Copied(l, o) = d.name
    BY <1>2, <1>7, <2>1, <2>2, <2>3, <1>3, QuotedWord
  <2> QED
    BY <2>1, <2>4 DEF o
<1>11. Following(l, 5) = 8 + a
  <2> DEFINE e == 7 + a
  <2>1. e \in Nat \ {0} /\ e + 1 = 8 + a /\ e < Len(l)
    BY <1>2
  <2>2. l[e + 1] = "quote"
    BY <1>2, <2>1
  <2> QED
    BY <1>2, <1>10, <2>1, <2>2, NextWord
<1>12. copy_param(l, 8 + a) = 10 + a + b /\ Copied(l, 8 + a) = d.comment
  <2> DEFINE o == 8 + a
  <2>1. /\ o \in Nat \ {0} /\ o + b + 1 = 9 + a + b /\ o + b + 2 = 10 + a + b
        /\ o + b + 1 <= Len(l)
    BY <1>2
  <2>2. At(l, o + b + 2) \in Stops
    BY <1>2, <2>1 DEF At, Stops
  <2>3. /\ l[o] = "quote" /\ l[o + b + 1] = "quote"
        /\ \A i \in 1 .. b : l[o + i] = d.comment[i]
    BY <1>2, <2>1
  <2> HIDE DEF o
  <2>4. copy_param(l, o) = o + b + 2 /\ Copied(l, o) = d.comment
    BY <1>2, <1>7, <2>1, <2>2, <2>3, <1>3, QuotedWord
  <2> QED
    BY <2>1, <2>4 DEF o
<1>13. Following(l, 8 + a) = 11 + a + b
  <2> DEFINE o == 8 + a
             e == 10 + a + b
  <2>1. o \in Nat \ {0} /\ e \in Nat \ {0} /\ e + 1 = 11 + a + b /\ e < Len(l)
    BY <1>2
  <2>2. l[e] = "sp" /\ l[e + 1] \notin {"sp", "nul", "#"}
    BY <1>2, <1>7, <2>1 DEF Marks
  <2>3. copy_param(l, o) = e
    BY <1>12
  <2> HIDE DEF o, e
  <2>4. Following(l, o) = e + 1
    BY <1>2, <2>1, <2>2, <2>3, NextWord
  <2> QED
    BY <2>1, <2>4 DEF o
<1>14. /\ copy_param(l, 11 + a + b) = 12 + a + b
       /\ Copied(l, 11 + a + b) = <<Numeral[d.index]>>
  <2> DEFINE o == 11 + a + b
  <2>1. o \in Nat \ {0} /\ o <= Len(l) /\ o + 1 = 12 + a + b
    BY <1>2
  <2>2. At(l, 12 + a + b) \in Stops
    BY <1>2 DEF At, Stops
  <2>3. l[o] = Numeral[d.index]
    BY <1>2
  <2> HIDE DEF o
  <2>4. copy_param(l, o) = o + 1 /\ Copied(l, o) = <<l[o]>>
    BY <1>2, <1>7, <2>1, <2>2, <2>3, BareWord
  <2> QED
    BY <2>1, <2>3, <2>4 DEF o
<1>15. Following(l, 11 + a + b) = 13 + a + b
  <2> DEFINE o == 11 + a + b
             e == 12 + a + b
  <2>1. o \in Nat \ {0} /\ e \in Nat \ {0} /\ e + 1 = 13 + a + b /\ e < Len(l)
    BY <1>2
  <2>2. l[e] = "sp" /\ l[e + 1] \notin {"sp", "nul", "#"}
    <3>1. l[12 + a + b] = "sp" /\ l[13 + a + b] = d.mode
      BY <1>2
    <3>2. d.mode \notin {"sp", "nul", "#"}
      BY <1>7 DEF Marks
    <3> QED
      BY <2>1, <3>1, <3>2
  <2>3. copy_param(l, o) = e
    BY <1>14
  <2> HIDE DEF o, e
  <2>4. Following(l, o) = e + 1
    BY <1>2, <2>1, <2>2, <2>3, NextWord
  <2> QED
    BY <2>1, <2>4 DEF o
<1>16. /\ copy_param(l, 13 + a + b) = 14 + a + b
       /\ Copied(l, 13 + a + b) = <<d.mode>>
  <2> DEFINE o == 13 + a + b
  <2>1. o \in Nat \ {0} /\ o <= Len(l) /\ o + 1 = 14 + a + b
    BY <1>2
  <2>2. At(l, 14 + a + b) \in Stops
    BY <1>2 DEF At, Stops
  <2>3. l[o] = d.mode
    BY <1>2
  <2> HIDE DEF o
  <2>4. copy_param(l, o) = o + 1 /\ Copied(l, o) = <<l[o]>>
    BY <1>2, <1>7, <2>1, <2>2, <2>3, BareWord
  <2> QED
    BY <2>1, <2>3, <2>4 DEF o
<1>17. Following(l, 13 + a + b) = 15 + a + b
  <2> DEFINE o == 13 + a + b
             e == 14 + a + b
  <2>1. o \in Nat \ {0} /\ e \in Nat \ {0} /\ e + 1 = 15 + a + b /\ e < Len(l)
    BY <1>2
  <2>2. l[e] = "sp" /\ l[e + 1] \notin {"sp", "nul", "#"}
    BY <1>2, <2>1
  <2>3. copy_param(l, o) = e
    BY <1>16
  <2> HIDE DEF o, e
  <2>4. Following(l, o) = e + 1
    BY <1>2, <2>1, <2>2, <2>3, NextWord
  <2> QED
    BY <2>1, <2>4 DEF o
<1>18. Copied(l, 15 + a + b) = d.comment2
  <2> DEFINE o == 15 + a + b
  <2>1. /\ o \in Nat \ {0} /\ o + c + 1 = 16 + a + b + c /\ o + c + 2 = 17 + a + b + c
        /\ 16 + a + b + c <= Len(l)
    BY <1>2
  <2>2. At(l, o + c + 2) \in Stops
    BY <1>6, <2>1
  <2>3. /\ l[o] = "quote" /\ l[o + c + 1] = "quote"
        /\ \A i \in 1 .. c : l[o + i] = d.comment2[i]
    BY <1>2, <2>1
  <2> HIDE DEF o
  <2>4. Copied(l, o) = d.comment2
    BY <1>2, <1>7, <2>1, <2>2, <2>3, <1>3, QuotedWord
  <2> QED
    BY <2>4 DEF o
<1> DEFINE w == [k \in 0 .. 6 |->
                   CASE k = 0 -> 1 [] k = 1 -> 3 [] k = 2 -> 5 [] k = 3 -> 8 + a
                     [] k = 4 -> 11 + a + b [] k = 5 -> 13 + a + b [] k = 6 -> 15 + a + b]
<1>19. /\ w[0] = 1 /\ w[1] = 3 /\ w[2] = 5 /\ w[3] = 8 + a /\ w[4] = 11 + a + b
       /\ w[5] = 13 + a + b /\ w[6] = 15 + a + b
  OBVIOUS
<1> HIDE DEF w
<1>20. /\ w[1] = Following(l, w[0]) /\ w[2] = Following(l, w[1]) /\ w[3] = Following(l, w[2])
       /\ w[4] = Following(l, w[3]) /\ w[5] = Following(l, w[4]) /\ w[6] = Following(l, w[5])
  BY <1>8, <1>9, <1>11, <1>13, <1>15, <1>17, <1>19
<1>21. \A p \in 0 .. 6 : \A k \in 1 .. p : w[k] = Following(l, w[k - 1])
  <2> SUFFICES ASSUME NEW k \in 1 .. 6 PROVE w[k] = Following(l, w[k - 1])
    OBVIOUS
  <2>1. \/ (k = 1 /\ k - 1 = 0) \/ (k = 2 /\ k - 1 = 1) \/ (k = 3 /\ k - 1 = 2)
        \/ (k = 4 /\ k - 1 = 3) \/ (k = 5 /\ k - 1 = 4) \/ (k = 6 /\ k - 1 = 5)
    OBVIOUS
  <2> QED
    BY <1>20, <2>1
<1>22. \A p \in 0 .. 6 : get_param_offset(l, p) = w[p]
  BY <1>8, <1>19, <1>21, Offsets
<1>23. /\ w[2] # -1 /\ w[3] # -1 /\ w[4] # -1 /\ w[5] # -1 /\ w[6] # -1
  <2>1. 5 # -1 /\ 8 + a # -1 /\ 11 + a + b # -1 /\ 13 + a + b # -1 /\ 15 + a + b # -1
    BY <1>2
  <2> QED
    BY <1>19, <2>1
<1>24. /\ get_param(l, 2) = Copied(l, w[2]) /\ get_param(l, 3) = Copied(l, w[3])
       /\ get_param(l, 4) = Copied(l, w[4]) /\ get_param(l, 5) = Copied(l, w[5])
       /\ get_param(l, 6) = Copied(l, w[6])
  <2>1. /\ get_param_offset(l, 2) = w[2] /\ get_param_offset(l, 3) = w[3]
        /\ get_param_offset(l, 4) = w[4] /\ get_param_offset(l, 5) = w[5]
        /\ get_param_offset(l, 6) = w[6]
    BY <1>22
  <2> QED
    BY <1>23, <2>1 DEF get_param
<1>25. /\ get_param(l, 2) = d.name /\ get_param(l, 3) = d.comment
       /\ get_param(l, 4) = <<Numeral[d.index]>> /\ get_param(l, 5) = <<d.mode>>
       /\ get_param(l, 6) = d.comment2
  BY <1>10, <1>12, <1>14, <1>16, <1>18, <1>19, <1>24
<1>26. Parameters(l) = Meant(d)
  <2>1. atoi(get_param(l, 4)) = d.index
    BY <1>7, <1>25, AtoiNumeral
  <2> DEFINE mode == IF get_param(l, 5) = <<"NONE">> THEN "NONE"
                     ELSE IF get_param(l, 5) = <<"MANUAL">> THEN "MANUAL" ELSE "AUTO"
             name == IF d.name = <<>> THEN <<"untitled">> ELSE d.name
  <2>2. mode = d.mode
    <3>1. d.mode \in {"AUTO", "MANUAL", "NONE"}
      BY DEF Ordinary
    <3>2. \A m : <<d.mode>> = <<m>> <=> d.mode = m
      OBVIOUS
    <3> QED
      BY <1>25, <3>1, <3>2
  <2> HIDE DEF mode
  <2>3. Parameters(l) = [name |-> name, comment |-> d.comment, index |-> d.index,
                         mode |-> d.mode, comment2 |-> d.comment2]
    <3>1. Parameters(l) = [name |-> IF get_param(l, 2) = <<>> THEN <<"untitled">> ELSE get_param(l, 2),
                           comment |-> get_param(l, 3), index |-> atoi(get_param(l, 4)),
                           mode |-> mode, comment2 |-> get_param(l, 6)]
      BY DEF Parameters, mode
    <3> QED
      BY <1>25, <2>1, <2>2, <3>1
  <2> HIDE DEF name
  <2>4. Meant(d) = [d EXCEPT !.name = name]
    BY DEF Meant, name
  <2>5. [d EXCEPT !.name = name] = [name |-> name, comment |-> d.comment, index |-> d.index,
                                    mode |-> d.mode, comment2 |-> d.comment2]
    <3>1. d = [name |-> d.name, comment |-> d.comment, index |-> d.index,
               mode |-> d.mode, comment2 |-> d.comment2]
      BY DEF Ordinary
    <3> QED
      BY <3>1, Renamed
  <2> QED
    BY <2>3, <2>4, <2>5
<1> QED
  BY <1>8, <1>26 DEF l

-----------------------------------------------------------------------------
(* Messages                                                                 *)

NoLineFeed(s) == \A i \in 1 .. Len(s) : s[i] # "nl"

OtherMessage(m) == m \in Text /\ NoLineFeed(m) /\ Harmless(m)

\* The line of dump id of a: whole, or cut after its number and then in c.
DumpMessage(a, c, m, id) ==
  /\ id \in 1 .. Len(a)
  /\ \/ \E t \in {<<>>, <<"cr">>, <<"nl">>} : m = DumpLine(id, a[id]) \o t
     \/ /\ id \in c
        /\ \E k \in 3 .. Len(DumpLine(id, a[id])) : m = SubSeq(DumpLine(id, a[id]), 1, k)

Before == <<"dump_time", "sp", "800", "nl">>

ClickMessage(a, c, m, id) == \E rest \in Text : m = Before \o rest /\ DumpMessage(a, c, rest, id)

Carries(a, c, m, id) == DumpMessage(a, c, m, id) \/ ClickMessage(a, c, m, id)

KnownMessage(a, c, m) == OtherMessage(m) \/ \E id \in 1 .. Len(a) : Carries(a, c, m, id)

\* The dumps asked for, each with ordinary texts and a number.
Asking(a) ==
  /\ a \in Seq(Ordinary)
  /\ \A id \in 1 .. Len(a) : id \in Numbers

\* Neither the line of a dump nor its beginning has a line feed.
LEMMA DumpText ==
  ASSUME NEW id \in Numbers, NEW d \in Ordinary
  PROVE  /\ DumpLine(id, d) \in Text /\ NoLineFeed(DumpLine(id, d))
         /\ Len(DumpLine(id, d)) \in Nat /\ Len(DumpLine(id, d)) >= 16
         /\ DumpLine(id, d)[1] = "dump" /\ DumpLine(id, d)[2] = "sp"
         /\ DumpLine(id, d)[3] = Numeral[id] /\ DumpLine(id, d)[4] = "sp"
<1> DEFINE s == DumpLine(id, d)
           a == Len(d.name)
           b == Len(d.comment)
           c == Len(d.comment2)
<1>1. <<>> \in Text /\ Len(<<>>) = 0
  BY DEF Text
<1>2. s \in Text /\ Len(s) = 16 + a + b + c
  BY <1>1, Layout
<1>3. s \o <<>> = s
  <2> HIDE DEF s
  <2> QED
    BY <1>2 DEF Text
<1>4. Places(s, id, d, <<>>, a, b, c)
  <2>1. Places(s \o <<>>, id, d, <<>>, a, b, c)
    BY <1>1, Layout
  <2> QED
    BY <1>3, <2>1
<1>5. Len(d.name) = a /\ Len(d.comment) = b /\ Len(d.comment2) = c
  OBVIOUS
<1>6. d.name \in Seq(Plain) /\ d.comment \in Seq(Plain) /\ d.comment2 \in Seq(Plain)
  BY DEF Ordinary
<1>7. /\ \A i \in 1 .. a : d.name[i] # "nl"
      /\ \A i \in 1 .. b : d.comment[i] # "nl"
      /\ \A i \in 1 .. c : d.comment2[i] # "nl"
  BY <1>6, PlainText DEF Plain
<1>8. Numeral[id] # "nl" /\ Numeral[d.index] # "nl" /\ d.mode # "nl"
  BY Known DEF Ordinary, Marks
<1> HIDE DEF s, a, b, c
<1>9. ASSUME NEW i \in 1 .. Len(s) PROVE s[i] # "nl"
  <2>1. a \in Nat /\ b \in Nat /\ c \in Nat
    BY <1>4 DEF Places
  <2>2. CASE i \in 1 .. 5
    BY <1>4, <1>8, <2>2 DEF Places
  <2>3. CASE i \in 6 .. 5 + a
    <3>1. PICK j \in 1 .. a : i = 5 + j
      <4>1. i - 5 \in 1 .. a /\ i = 5 + (i - 5)
        BY <2>1, <2>3
      <4> QED
        BY <4>1
    <3>2. s[5 + j] = d.name[j]
      BY <1>4 DEF Places
    <3> QED
      BY <1>7, <3>1, <3>2
  <2>4. CASE i = 6 + a \/ i = 7 + a \/ i = 8 + a
    BY <1>4, <2>1, <2>4 DEF Places
  <2>5. CASE i \in 9 + a .. 8 + a + b
    <3>1. PICK j \in 1 .. b : i = 8 + a + j
      <4>1. i - (8 + a) \in 1 .. b /\ i = 8 + a + (i - (8 + a))
        BY <2>1, <2>5
      <4> QED
        BY <4>1
    <3>2. s[8 + a + j] = d.comment[j]
      BY <1>4 DEF Places
    <3> QED
      BY <1>7, <3>1, <3>2
  <2>6. CASE i \in 9 + a + b .. 15 + a + b
    <3>1. \/ i = 9 + a + b \/ i = 10 + a + b \/ i = 11 + a + b \/ i = 12 + a + b
          \/ i = 13 + a + b \/ i = 14 + a + b \/ i = 15 + a + b
      BY <2>1, <2>6
    <3> QED
      BY <1>4, <1>8, <3>1 DEF Places
  <2>7. CASE i \in 16 + a + b .. 15 + a + b + c
    <3>1. PICK j \in 1 .. c : i = 15 + a + b + j
      <4>1. i - (15 + a + b) \in 1 .. c /\ i = 15 + a + b + (i - (15 + a + b))
        BY <2>1, <2>7
      <4> QED
        BY <4>1
    <3>2. s[15 + a + b + j] = d.comment2[j]
      BY <1>4 DEF Places
    <3> QED
      BY <1>7, <3>1, <3>2
  <2>8. CASE i = 16 + a + b + c
    BY <1>4, <2>8 DEF Places
  <2> QED
    BY <1>2, <2>1, <2>2, <2>3, <2>4, <2>5, <2>6, <2>7, <2>8
<1>10. NoLineFeed(s)
  BY <1>9 DEF NoLineFeed
<1>11. Len(s) \in Nat /\ Len(s) >= 16
  BY <1>2, <1>4 DEF Places
<1>12. s[1] = "dump" /\ s[2] = "sp" /\ s[3] = Numeral[id] /\ s[4] = "sp"
  BY <1>4 DEF Places
<1> QED
  BY <1>2, <1>10, <1>11, <1>12 DEF s

\* Whatever is left of a message of other lines, is nothing.
LEMMA OtherDone ==
  ASSUME NEW m, OtherMessage(m)
  PROVE  Line(m) = m /\ After(m) = <<>>
BY NoFeed DEF OtherMessage, NoLineFeed

\* A dump's line is run as the dump it is, and as it was asked for unless cut.
LEMMA DumpDone ==
  ASSUME NEW a, NEW c, NEW m, NEW id, Asking(a), DumpMessage(a, c, m, id)
  PROVE  LET l == Line(m)
         IN  /\ m \in Text /\ m # <<>> /\ After(m) = <<>>
             /\ extract_cmd(l) = <<"dump">> /\ Given(l, 1) /\ atoi(get_param(l, 1)) = id
             /\ id \notin c => Parameters(l) = Meant(a[id])
<1> DEFINE d == a[id]
           s == DumpLine(id, d)
<1>1. id \in 1 .. Len(a) /\ id \in Numbers /\ d \in Ordinary
  BY DEF Asking, DumpMessage
<1> HIDE DEF d
<1>2. /\ s \in Text /\ (\A i \in 1 .. Len(s) : s[i] # "nl") /\ Len(s) \in Nat /\ Len(s) >= 16
      /\ s[1] = "dump" /\ s[2] = "sp" /\ s[3] = Numeral[id] /\ s[4] = "sp"
  BY <1>1, DumpText DEF NoLineFeed
<1>3. \A t \in {<<>>, <<"cr">>} :
         /\ extract_cmd(s \o t) = <<"dump">>
         /\ Given(s \o t, 1) /\ atoi(get_param(s \o t, 1)) = id
         /\ Parameters(s \o t) = Meant(d)
  BY <1>1, WholeLine
<1>4. s \o <<>> = s
  <2> HIDE DEF s
  <2> QED
    BY <1>2 DEF Text
<1>5. \/ \E t \in {<<>>, <<"cr">>, <<"nl">>} : m = s \o t
      \/ id \in c /\ \E k \in 3 .. Len(s) : m = SubSeq(s, 1, k)
  BY DEF DumpMessage, d
<1> HIDE DEF s
<1>6. CASE m = s \o <<>>
  <2>1. Line(m) = m /\ After(m) = <<>> /\ m \in Text
    BY <1>2, <1>4, <1>6, NoFeed
  <2>2. m # <<>>
    BY <1>2, <1>4, <1>6
  <2> QED
    BY <1>3, <1>6, <2>1, <2>2 DEF d
<1>7. CASE m = s \o <<"cr">>
  <2>1. <<"cr">> \in Text /\ Len(<<"cr">>) = 1 /\ <<"cr">>[1] = "cr"
    BY OneSymbol, Known DEF Marks
  <2> DEFINE z == <<"cr">>
  <2> HIDE DEF z
  <2>2. z \in Text /\ Len(z) = 1 /\ z[1] = "cr" /\ m = s \o z
    BY <1>7, <2>1 DEF z
  <2>3. /\ m \in Text /\ Len(m) = Len(s) + Len(z)
        /\ \A i \in 1 .. Len(s) : m[i] = s[i]
        /\ \A i \in 1 .. Len(z) : m[Len(s) + i] = z[i]
    BY <1>2, <2>2, Joined
  <2>4. Len(m) = Len(s) + 1 /\ m[Len(s) + 1] = "cr"
    BY <1>2, <2>2, <2>3
  <2>5. \A i \in 1 .. Len(m) : m[i] # "nl"
    <3> SUFFICES ASSUME NEW i \in 1 .. Len(m) PROVE m[i] # "nl"
      OBVIOUS
    <3>1. i \in 1 .. Len(s) \/ i = Len(s) + 1
      BY <1>2, <2>4
    <3> QED
      BY <1>2, <2>3, <2>4, <3>1
  <2>6. Line(m) = m /\ After(m) = <<>>
    BY <2>3, <2>5, NoFeed
  <2>7. m # <<>>
    BY <1>2, <2>4
  <2> QED
    BY <1>3, <1>7, <2>3, <2>6, <2>7 DEF d
<1>8. CASE m = s \o <<"nl">>
  <2>1. <<>> \in Text
    BY DEF Text
  <2>2. <<"nl">> \in Text /\ Len(<<"nl">>) = 1
    BY OneSymbol, Known DEF Marks
  <2> DEFINE h == s \o <<"nl">>
  <2>3. h \in Text /\ Len(h) = Len(s) + 1
    BY <1>2, <2>2, Joined
  <2>4. h \o <<>> = h
    <3> HIDE DEF h
    <3> QED
      BY <2>3 DEF Text
  <2>5. Line(h \o <<>>) = s /\ After(h \o <<>>) = <<>>
    BY <1>2, <2>1, Feed
  <2>6. Line(m) = s \o <<>> /\ After(m) = <<>> /\ m \in Text
    BY <1>4, <1>8, <2>3, <2>4, <2>5
  <2>7. m # <<>>
    <3> HIDE DEF h
    <3>1. Len(h) # 0
      BY <1>2, <2>3
    <3> QED
      BY <1>8, <3>1 DEF h
  <2> QED
    BY <1>3, <2>6, <2>7 DEF d
<1>9. CASE id \in c /\ \E k \in 3 .. Len(s) : m = SubSeq(s, 1, k)
  <2>1. PICK k \in 3 .. Len(s) : m = SubSeq(s, 1, k)
    BY <1>9
  <2>2. /\ m \in Text /\ Len(m) = k /\ \A i \in 1 .. k : m[i] = s[i]
    BY <1>2, <2>1 DEF Text
  <2>3. \A i \in 1 .. Len(m) : m[i] # "nl"
    BY <1>2, <2>1, <2>2
  <2>4. Line(m) = m /\ After(m) = <<>>
    BY <2>2, <2>3, NoFeed
  <2>5. Len(m) >= 3 /\ m[1] = "dump" /\ m[2] = "sp" /\ m[3] = Numeral[id] /\ m # <<>>
    BY <1>2, <2>2
  <2>6. At(m, 4) \in Stops
    <3>1. 4 <= Len(m) => m[4] = "sp"
      BY <1>2, <2>2
    <3> QED
      BY <3>1 DEF At, Stops
  <2>7. /\ extract_cmd(m) = <<"dump">> /\ Given(m, 1) /\ atoi(get_param(m, 1)) = id
    BY <1>1, <2>2, <2>5, <2>6, Command
  <2> QED
    BY <1>9, <2>2, <2>4, <2>5, <2>7
<1> QED
  BY <1>5, <1>6, <1>7, <1>8, <1>9

\* A click's first line is no dump, and leaves its dump.
LEMMA ClickDone ==
  ASSUME NEW a, NEW c, NEW m, NEW id, ClickMessage(a, c, m, id)
  PROVE  /\ m \in Text /\ m # <<>> /\ extract_cmd(Line(m)) # <<"dump">>
         /\ DumpMessage(a, c, After(m), id)
<1> DEFINE b == <<"dump_time", "sp", "800">>
<1>1. PICK rest \in Text : m = Before \o rest /\ DumpMessage(a, c, rest, id)
  BY DEF ClickMessage
<1>2. /\ b \in Text /\ Len(b) = 3 /\ b[1] = "dump_time" /\ b[2] = "sp" /\ b[3] = "800"
  BY Known DEF Text, Marks
<1>3. Before = b \o <<"nl">> /\ Before \in Text /\ Len(Before) = 4
  BY Known DEF Before, Text, Marks
<1> HIDE DEF b
<1>4. \A i \in 1 .. Len(b) : b[i] # "nl"
  BY <1>2
<1>5. Line(m) = b /\ After(m) = rest
  BY <1>1, <1>2, <1>3, <1>4, Feed
<1>6. extract_cmd(b) = <<"dump_time">>
  <2>1. At(b, 1) = "dump_time" /\ At(b, 2) = "sp"
    BY <1>2 DEF At
  <2>2. get_next_word(b, 1) = 1
    BY <1>2, <2>1, WordHere
  <2>3. b[1] \notin Stops /\ At(b, 2) \in Stops
    BY <1>2, <2>1 DEF Stops
  <2> QED
    BY <1>2, <2>2, <2>3, FirstWord
<1>7. m \in Text /\ Len(m) = 4 + Len(rest) /\ Len(rest) \in Nat
  BY <1>1, <1>3, Joined
<1>8. m # <<>>
  BY <1>7
<1>9. <<"dump_time">> # <<"dump">>
  OBVIOUS
<1> QED
  BY <1>1, <1>5, <1>6, <1>7, <1>8, <1>9

-----------------------------------------------------------------------------
(* From the wire to the ring                                                *)

\* s is a line, and m the message it becomes.
Becomes(s, m) ==
  \E b \in Text : NoLineFeed(b) /\ s = b \o <<"nl">> /\ m = AtMost(b, MSG - 1)

\* With w on the wire, r received and f assembled, the messages of M are to
\* come: u has gone before r, and is in f as far as there is room; r never
\* holds symbols of two lines.
Flow(w, r, f, M) ==
  \E u \in Text :
     /\ f = AtMost(u, LINE)
     /\ \/ r = <<>> /\ w = <<>> /\ u = <<>> /\ M = {}
        \/ r # <<>> /\ w = <<>> /\ \E m : Becomes(u \o r, m) /\ M = {m}
        \/ r # <<>> /\ \E m, n : Becomes(u \o r, m) /\ Becomes(w, n) /\ M = {m, n}
        \/ w # <<>> /\ \E m : Becomes(u \o r \o w, m) /\ M = {m}

\* The text of no symbols.
LEMMA Empty == <<>> \in Text /\ Len(<<>>) = 0 /\ \A s \in Text : <<>> \o s = s /\ s \o <<>> = s
BY DEF Text

\* A text is empty when its length is 0.
LEMMA Filled == ASSUME NEW s \in Text PROVE Len(s) \in Nat /\ (s # <<>> <=> Len(s) > 0)
BY DEF Text

\* Joining texts is associative.
LEMMA Grouped ==
  ASSUME NEW x \in Text, NEW y \in Text, NEW z \in Text
  PROVE  (x \o y) \o z = x \o (y \o z)
BY DEF Text

\* A text is what comes before a place and what comes after.
LEMMA Split ==
  ASSUME NEW s \in Text, NEW n \in Nat, n <= Len(s)
  PROVE  /\ SubSeq(s, 1, n) \in Text /\ SubSeq(s, n + 1, Len(s)) \in Text
         /\ Len(SubSeq(s, 1, n)) = n /\ Len(SubSeq(s, n + 1, Len(s))) = Len(s) - n
         /\ SubSeq(s, 1, n) \o SubSeq(s, n + 1, Len(s)) = s
<1> DEFINE x == SubSeq(s, 1, n)
           y == SubSeq(s, n + 1, Len(s))
           z == x \o y
<1>1. Len(s) \in Nat
  BY Filled
<1>2. x \in Text /\ Len(x) = n /\ \A i \in 1 .. n : x[i] = s[i]
  BY <1>1 DEF Text
<1>3. /\ y \in Text /\ Len(y) = Len(s) - n
      /\ \A i \in 1 .. Len(s) - n : y[i] = s[n + i]
  BY <1>1 DEF Text
<1> HIDE DEF x, y
<1>4. /\ z \in Text /\ Len(z) = Len(s)
      /\ \A i \in 1 .. n : z[i] = x[i]
      /\ \A i \in 1 .. Len(s) - n : z[n + i] = y[i]
  <2>1. /\ z \in Text /\ Len(z) = Len(x) + Len(y)
        /\ \A i \in 1 .. Len(x) : z[i] = x[i]
        /\ \A i \in 1 .. Len(y) : z[Len(x) + i] = y[i]
    BY <1>2, <1>3, Joined
  <2> HIDE DEF z
  <2> QED
    BY <1>1, <1>2, <1>3, <2>1
<1> HIDE DEF z
<1>5. \A i \in 1 .. Len(s) : z[i] = s[i]
  <2> SUFFICES ASSUME NEW i \in 1 .. Len(s) PROVE z[i] = s[i]
    OBVIOUS
  <2>1. CASE i <= n
    BY <1>1, <1>2, <1>4, <2>1
  <2>2. CASE i > n
    <3>1. PICK j \in 1 .. Len(s) - n : i = n + j
      <4>1. i - n \in 1 .. Len(s) - n /\ i = n + (i - n)
        BY <1>1, <2>2
      <4> QED
        BY <4>1
    <3> QED
      BY <1>3, <1>4, <3>1
  <2> QED
    BY <1>1, <2>1, <2>2
<1>6. z = s
  BY <1>4, <1>5 DEF Text
<1> QED
  BY <1>2, <1>3, <1>6 DEF x, y, z

\* A line of a text and what follows are texts.
LEMMA LineText ==
  ASSUME NEW s \in Text
  PROVE  Line(s) \in Text /\ After(s) \in Text
<1> DEFINE S == {i \in 1 .. Len(s) : s[i] = "nl"} \cup {Len(s) + 1}
<1>1. Len(s) \in Nat
  BY Filled
<1>2. CASE \A i \in 1 .. Len(s) : s[i] # "nl"
  BY <1>2, NoFeed, Empty
<1>3. CASE \E i \in 1 .. Len(s) : s[i] = "nl"
  <2>1. S \subseteq Nat /\ S # {}
    BY <1>1
  <2>2. PICK k \in S : \A j \in S : ~ (<<j, k>> \in OpToRel(<, Nat))
    <3> HIDE DEF S
    <3> QED
      BY <2>1, WFMin, NatLessThanWellFounded
  <2>3. \A j \in S : k <= j
    <3> HIDE DEF S
    <3>1. \A j \in S : j \in Nat /\ k \in Nat /\ ~(j < k)
      BY <2>1, <2>2 DEF OpToRel
    <3> QED
      BY <3>1
  <2>4. First(S) = k
    <3>1. S \in SUBSET Int
      BY <1>1
    <3> HIDE DEF S
    <3> QED
      BY <2>3, <3>1, FirstIs
  <2>5. k \in 1 .. Len(s)
    <3>1. PICK i \in 1 .. Len(s) : s[i] = "nl"
      BY <1>3
    <3>2. i \in S /\ k \in 1 .. Len(s) + 1
      <4>1. i \in S
        BY <1>1, <3>1
      <4>2. \A j \in S : j \in 1 .. Len(s) + 1
        BY <1>1
      <4> QED
        BY <4>1, <4>2
    <3>3. k <= i
      BY <2>3, <3>2
    <3> QED
      BY <1>1, <3>2, <3>3
  <2>6. LineEnd(s) = k
    BY <2>4 DEF LineEnd
  <2>7. SubSeq(s, 1, k - 1) \in Text /\ SubSeq(s, k + 1, Len(s)) \in Text
    BY <1>1, <2>5 DEF Text
  <2> QED
    BY <2>6, <2>7 DEF Line, After
<1> QED
  BY <1>2, <1>3

\* Texts without line feed make one without.
LEMMA NoFeeds ==
  ASSUME NEW x \in Text, NEW y \in Text, NoLineFeed(x), \A i \in 1 .. Len(y) : y[i] # "nl"
  PROVE  x \o y \in Text /\ NoLineFeed(x \o y)
<1> DEFINE z == x \o y
<1>1. /\ z \in Text /\ Len(z) = Len(x) + Len(y) /\ Len(x) \in Nat /\ Len(y) \in Nat
      /\ \A i \in 1 .. Len(x) : z[i] = x[i]
      /\ \A i \in 1 .. Len(y) : z[Len(x) + i] = y[i]
  BY Joined
<1> HIDE DEF z
<1>2. ASSUME NEW i \in 1 .. Len(z) PROVE z[i] # "nl"
  <2>1. CASE i <= Len(x)
    BY <1>1, <2>1 DEF NoLineFeed
  <2>2. CASE i > Len(x)
    <3>1. PICK j \in 1 .. Len(y) : i = Len(x) + j
      <4>1. i - Len(x) \in 1 .. Len(y) /\ i = Len(x) + (i - Len(x))
        BY <1>1, <2>2
      <4> QED
        BY <4>1
    <3> QED
      BY <1>1, <3>1
  <2> QED
    BY <1>1, <2>1, <2>2
<1> QED
  BY <1>1, <1>2 DEF NoLineFeed, z

\* A sent line has its only line feed at the end.
LEMMA BecomesText ==
  ASSUME NEW s, NEW m, Becomes(s, m)
  PROVE  /\ s \in Text /\ s # <<>> /\ m \in Text
         /\ s[Len(s)] = "nl" /\ \A i \in 1 .. Len(s) : s[i] = "nl" => i = Len(s)
<1>1. PICK b \in Text : NoLineFeed(b) /\ s = b \o <<"nl">> /\ m = AtMost(b, MSG - 1)
  BY DEF Becomes
<1> DEFINE z == <<"nl">>
<1>2. z \in Text /\ Len(z) = 1 /\ z[1] = "nl"
  BY OneSymbol, Known DEF Marks
<1>3. s = b \o z
  BY <1>1
<1> HIDE DEF z
<1>4. /\ s \in Text /\ Len(s) = Len(b) + Len(z) /\ Len(b) \in Nat
      /\ \A i \in 1 .. Len(b) : s[i] = b[i]
      /\ \A i \in 1 .. Len(z) : s[Len(b) + i] = z[i]
  BY <1>2, <1>3, Joined
<1>5. Len(s) = Len(b) + 1 /\ s[Len(b) + 1] = "nl"
  <2>1. 1 \in 1 .. Len(z)
    BY <1>2
  <2> QED
    BY <1>2, <1>4, <2>1
<1>6. s # <<>>
  BY <1>4, <1>5, Filled
<1>7. m \in Text
  <2>1. MSG - 1 \in Nat
    BY ConsoleAssumption
  <2> QED
    BY <1>1, <2>1, CutTo
<1> QED
  BY <1>1, <1>4, <1>5, <1>6, <1>7 DEF NoLineFeed

\* A line is sent, on a wire with nothing on it.
LEMMA Sending ==
  ASSUME NEW r \in Text, NEW f, NEW M, NEW s, NEW m, Flow(<<>>, r, f, M), Becomes(s, m)
  PROVE  Flow(s, r, f, M \cup {m})
<1>1. s \in Text /\ s # <<>>
  BY BecomesText
<1>2. PICK u \in Text :
         /\ f = AtMost(u, LINE)
         /\ \/ r = <<>> /\ u = <<>> /\ M = {}
            \/ r # <<>> /\ \E k : Becomes(u \o r, k) /\ M = {k}
            \/ r # <<>> /\ \E k, n : Becomes(u \o r, k) /\ Becomes(<<>>, n) /\ M = {k, n}
  BY DEF Flow
<1>3. \A n : ~Becomes(<<>>, n)
  BY BecomesText
<1>4. CASE r = <<>> /\ u = <<>> /\ M = {}
  <2>1. u \o r \o s = s
    BY <1>1, <1>4, Empty
  <2>2. Becomes(u \o r \o s, m) /\ M \cup {m} = {m}
    BY <1>4, <2>1
  <2> QED
    BY <1>1, <1>2, <2>2 DEF Flow
<1>5. CASE r # <<>> /\ \E k : Becomes(u \o r, k) /\ M = {k}
  <2>1. PICK k : Becomes(u \o r, k) /\ M = {k}
    BY <1>5
  <2>2. M \cup {m} = {k, m}
    BY <2>1
  <2> QED
    BY <1>2, <1>5, <2>1, <2>2 DEF Flow
<1> QED
  BY <1>2, <1>3, <1>4, <1>5

\* A socket receives some of what is on the wire.
LEMMA Receiving ==
  ASSUME NEW w \in Text, NEW f, NEW M, NEW n \in Nat \ {0}, w # <<>>, Flow(w, <<>>, f, M)
  PROVE  /\ Flow(SubSeq(w, n + 1, Len(w)), AtMost(w, n), f, M)
         /\ SubSeq(w, n + 1, Len(w)) \in Text /\ AtMost(w, n) \in Text
<1> DEFINE r2 == AtMost(w, n)
           w2 == SubSeq(w, n + 1, Len(w))
<1>1. PICK u \in Text :
         /\ f = AtMost(u, LINE)
         /\ \E m : Becomes(u \o <<>> \o w, m) /\ M = {m}
  BY DEF Flow
<1>2. PICK m : Becomes(u \o w, m) /\ M = {m}
  BY <1>1, Empty
<1>3. Len(w) \in Nat /\ Len(w) > 0
  BY Filled
<1>4. r2 \in Text /\ Len(r2) = IF Len(w) <= n THEN Len(w) ELSE n
  BY CutTo
<1>5. r2 # <<>>
  BY <1>3, <1>4, Filled
<1>6. w2 \in Text
  BY <1>3 DEF Text
<1>7. CASE Len(w) <= n
  <2>1. r2 = w
    BY <1>7 DEF AtMost
  <2>2. w2 = <<>>
    BY <1>3, <1>7 DEF Text
  <2> QED
    BY <1>1, <1>2, <1>4, <1>5, <1>6, <2>1, <2>2 DEF Flow
<1>8. CASE Len(w) > n
  <2>1. r2 = SubSeq(w, 1, n)
    BY <1>3, <1>8 DEF AtMost
  <2>2. r2 \o w2 = w
    <3>1. n \in Nat /\ n <= Len(w)
      BY <1>3, <1>8
    <3>2. SubSeq(w, 1, n) \o SubSeq(w, n + 1, Len(w)) = w
      BY <3>1, Split
    <3> QED
      BY <2>1, <3>2
  <2>3. w2 # <<>>
    <3>1. Len(w2) = Len(w) - n
      BY <1>3, <1>8, Split
    <3> HIDE DEF w2
    <3> QED
      BY <1>3, <1>6, <1>8, <3>1, Filled
  <2> HIDE DEF r2, w2
  <2>4. u \o r2 \o w2 = u \o w
    BY <1>4, <1>6, <2>2, Grouped
  <2> QED
    BY <1>1, <1>2, <1>4, <1>6, <2>3, <2>4 DEF Flow, r2, w2
<1> QED
  BY <1>3, <1>7, <1>8

\* Cutting twice.
LEMMA CutAgain ==
  ASSUME NEW u \in Text, NEW v \in Text, NEW n \in Nat
  PROVE  AtMost(AtMost(u, n) \o v, n) = AtMost(u \o v, n)
<1> DEFINE x == AtMost(u, n) \o v
           y == u \o v
<1>1. /\ Len(u) \in Nat /\ Len(v) \in Nat
      /\ AtMost(u, n) \in Text /\ Len(AtMost(u, n)) = IF Len(u) <= n THEN Len(u) ELSE n
      /\ \A i \in 1 .. Len(AtMost(u, n)) : AtMost(u, n)[i] = u[i]
  BY CutTo, Filled
<1>2. CASE Len(u) <= n
  BY <1>2 DEF AtMost
<1>3. CASE Len(u) > n
  <2>1. /\ x \in Text /\ Len(x) = n + Len(v)
        /\ \A i \in 1 .. n : x[i] = u[i]
    <3> DEFINE p == AtMost(u, n)
    <3>1. p \in Text /\ Len(p) = n /\ \A i \in 1 .. n : p[i] = u[i]
      BY <1>1, <1>3
    <3> HIDE DEF p
    <3>2. /\ p \o v \in Text /\ Len(p \o v) = n + Len(v)
          /\ \A i \in 1 .. n : (p \o v)[i] = p[i]
      BY <3>1, Joined
    <3>3. x = p \o v
      BY DEF p
    <3> HIDE DEF x
    <3> QED
      BY <3>1, <3>2, <3>3
  <2>2. /\ y \in Text /\ Len(y) = Len(u) + Len(v)
        /\ \A i \in 1 .. Len(u) : y[i] = u[i]
    BY Joined
  <2> HIDE DEF x, y
  <2>3. AtMost(y, n) = SubSeq(y, 1, n)
    BY <1>1, <1>3, <2>2 DEF AtMost
  <2>4. AtMost(x, n) = SubSeq(x, 1, n)
    <3>1. Len(x) <= n => Len(x) = n
      BY <1>1, <2>1
    <3>2. Len(x) = n => SubSeq(x, 1, n) = x
      BY <2>1 DEF Text
    <3> QED
      BY <3>1, <3>2 DEF AtMost
  <2>5. SubSeq(x, 1, n) = SubSeq(y, 1, n)
    <3> DEFINE p == SubSeq(x, 1, n)
               q == SubSeq(y, 1, n)
    <3>1. p \in Text /\ Len(p) = n /\ \A i \in 1 .. n : p[i] = x[i]
      BY <1>1, <2>1 DEF Text
    <3>2. q \in Text /\ Len(q) = n /\ \A i \in 1 .. n : q[i] = y[i]
      BY <1>1, <1>3, <2>2 DEF Text
    <3> HIDE DEF p, q
    <3>3. \A i \in 1 .. n : p[i] = q[i]
      BY <1>1, <1>3, <2>1, <2>2, <3>1, <3>2
    <3>4. p = q
      BY <3>1, <3>2, <3>3 DEF Text
    <3> QED
      BY <3>4 DEF p, q
  <2> QED
    BY <2>3, <2>4, <2>5 DEF x, y
<1> QED
  BY <1>1, <1>2, <1>3

\* A text cut twice is cut at the nearer place.
LEMMA CutShorter ==
  ASSUME NEW s \in Text, NEW n \in Nat, NEW k \in Nat, k <= n
  PROVE  AtMost(AtMost(s, n), k) = AtMost(s, k)
<1>1. Len(s) \in Nat
  BY Filled
<1>2. CASE Len(s) <= n
  BY <1>2 DEF AtMost
<1>3. CASE Len(s) > n
  <2> DEFINE x == SubSeq(s, 1, n)
  <2>1. AtMost(s, n) = x
    BY <1>1, <1>3 DEF AtMost
  <2>2. x \in Text /\ Len(x) = n /\ \A i \in 1 .. n : x[i] = s[i]
    BY <1>1, <1>3 DEF Text
  <2> HIDE DEF x
  <2>3. AtMost(s, k) = SubSeq(s, 1, k)
    BY <1>1, <1>3 DEF AtMost
  <2>4. AtMost(x, k) = SubSeq(x, 1, k)
    <3>1. n <= k => SubSeq(x, 1, k) = x
      BY <2>2 DEF Text
    <3> QED
      BY <2>2, <3>1 DEF AtMost
  <2>5. SubSeq(x, 1, k) = SubSeq(s, 1, k)
    <3> DEFINE p == SubSeq(x, 1, k)
               q == SubSeq(s, 1, k)
    <3>1. p \in Text /\ Len(p) = k /\ \A i \in 1 .. k : p[i] = x[i]
      BY <2>2 DEF Text
    <3>2. q \in Text /\ Len(q) = k /\ \A i \in 1 .. k : q[i] = s[i]
      BY <1>1, <1>3 DEF Text
    <3> HIDE DEF p, q
    <3>3. \A i \in 1 .. k : p[i] = q[i]
      BY <2>2, <3>1, <3>2
    <3>4. p = q
      BY <3>1, <3>2, <3>3 DEF Text
    <3> QED
      BY <3>4 DEF p, q
  <2> QED
    BY <2>1, <2>3, <2>4, <2>5
<1> QED
  BY <1>1, <1>2, <1>3

\* The end of a line in what was received gives its message; without one, the
\* line is longer.
LEMMA Assembling ==
  ASSUME NEW w \in Text, NEW r \in Text, NEW f \in Text, NEW M, r # <<>>, Flow(w, r, f, M)
  PROVE  LET line == AtMost(f \o Line(r), LINE)
         IN  \/ /\ LineEnd(r) <= Len(r)
                /\ \E m, M2 : /\ AtMost(line, MSG - 1) = m /\ M = M2 \cup {m}
                              /\ Flow(w, After(r), <<>>, M2)
             \/ ~(LineEnd(r) <= Len(r)) /\ Flow(w, After(r), line, M)
<1> DEFINE line == AtMost(f \o Line(r), LINE)
<1>1. PICK u \in Text :
         /\ f = AtMost(u, LINE)
         /\ \/ w = <<>> /\ \E m : Becomes(u \o r, m) /\ M = {m}
            \/ \E m, n : Becomes(u \o r, m) /\ Becomes(w, n) /\ M = {m, n}
            \/ w # <<>> /\ \E m : Becomes(u \o r \o w, m) /\ M = {m}
  BY DEF Flow
<1>2. Len(r) \in Nat /\ Len(r) > 0 /\ Len(u) \in Nat /\ u \o r \in Text
  BY Joined, Filled
<1>3. MSG - 1 \in Nat /\ LINE \in Nat /\ MSG - 1 <= LINE
  BY ConsoleAssumption
<1>4. ASSUME NEW m, Becomes(u \o r, m)
      PROVE  LineEnd(r) <= Len(r) /\ After(r) = <<>> /\ AtMost(line, MSG - 1) = m
  <2>1. PICK b \in Text : NoLineFeed(b) /\ u \o r = b \o <<"nl">> /\ m = AtMost(b, MSG - 1)
    BY <1>4 DEF Becomes
  <2> DEFINE z == <<"nl">>
             n == Len(r) - 1
             v == SubSeq(r, 1, n)
  <2>2. z \in Text /\ Len(z) = 1 /\ z[1] = "nl"
    BY OneSymbol, Known DEF Marks
  <2>3. /\ u \o r = b \o z /\ Len(b) \in Nat
        /\ Len(u) + Len(r) = Len(b) + 1
        /\ (b \o z)[Len(b) + 1] = "nl"
        /\ \A i \in 1 .. Len(b) : (b \o z)[i] = b[i]
    <3>1. u \o r = b \o z
      BY <2>1
    <3> HIDE DEF z
    <3>2. /\ Len(u \o r) = Len(u) + Len(r) /\ Len(b \o z) = Len(b) + Len(z)
          /\ Len(b) \in Nat
          /\ \A i \in 1 .. Len(b) : (b \o z)[i] = b[i]
          /\ \A i \in 1 .. Len(z) : (b \o z)[Len(b) + i] = z[i]
      BY <2>2, Joined
    <3>3. 1 \in 1 .. Len(z)
      BY <2>2
    <3> QED
      BY <2>2, <3>1, <3>2, <3>3
  <2>4. /\ \A i \in 1 .. Len(u) : (u \o r)[i] = u[i]
        /\ \A i \in 1 .. Len(r) : (u \o r)[Len(u) + i] = r[i]
    BY Joined
  <2> HIDE DEF z
  <2>5. n \in Nat /\ Len(b) = Len(u) + n /\ Len(r) = n + 1
    BY <1>2, <2>3
  <2> HIDE DEF n
  <2>6. r[n + 1] = "nl" /\ r \in Text
    <3>1. n + 1 \in 1 .. Len(r) /\ Len(u) + (n + 1) = Len(b) + 1
      BY <1>2, <2>5
    <3> QED
      BY <2>3, <2>4, <3>1
  <2>7. v \in Text /\ Len(v) = n /\ \A i \in 1 .. n : v[i] = r[i]
    BY <1>2, <2>5 DEF Text
  <2> HIDE DEF v
  <2>8. \A i \in 1 .. n : r[i] = b[Len(u) + i]
    <3> SUFFICES ASSUME NEW i \in 1 .. n PROVE r[i] = b[Len(u) + i]
      OBVIOUS
    <3>1. i \in 1 .. Len(r) /\ Len(u) + i \in 1 .. Len(b)
      BY <1>2, <2>5
    <3> QED
      BY <2>3, <2>4, <3>1
  <2>9. \A i \in 1 .. Len(v) : v[i] # "nl"
    <3>1. \A i \in 1 .. n : Len(u) + i \in 1 .. Len(b)
      BY <1>2, <2>5
    <3> QED
      BY <2>1, <2>7, <2>8, <3>1 DEF NoLineFeed
  <2>10. r = v \o <<"nl">> \o <<>>
    <3>1. /\ v \o z \in Text /\ Len(v \o z) = n + 1
          /\ \A i \in 1 .. n : (v \o z)[i] = v[i]
          /\ (v \o z)[n + 1] = "nl"
      <4>1. /\ v \o z \in Text /\ Len(v \o z) = Len(v) + Len(z)
            /\ \A i \in 1 .. Len(v) : (v \o z)[i] = v[i]
            /\ \A i \in 1 .. Len(z) : (v \o z)[Len(v) + i] = z[i]
        BY <2>2, <2>7, Joined
      <4>2. 1 \in 1 .. Len(z)
        BY <2>2
      <4> QED
        BY <2>2, <2>7, <4>1, <4>2
    <3> DEFINE y == v \o z
    <3> HIDE DEF y
    <3>2. /\ y \in Text /\ Len(y) = n + 1 /\ y[n + 1] = "nl"
          /\ \A i \in 1 .. n : y[i] = v[i]
      BY <3>1 DEF y
    <3>3. \A i \in 1 .. n + 1 : y[i] = r[i]
      BY <2>5, <2>6, <2>7, <3>2
    <3>4. y = r
      BY <2>5, <2>6, <3>2, <3>3 DEF Text
    <3>5. y \o <<>> = y
      BY <3>2, Empty
    <3> QED
      BY <3>4, <3>5 DEF y, z
  <2>11. /\ LineEnd(r) = n + 1 /\ LineEnd(r) <= Len(r) /\ Line(r) = v /\ After(r) = <<>>
    BY <2>7, <2>9, <2>10, Empty, Feed
  <2>12. u \o v = b
    <3> DEFINE y == u \o v
    <3>1. /\ y \in Text /\ Len(y) = Len(u) + n
          /\ \A i \in 1 .. Len(u) : y[i] = u[i]
          /\ \A i \in 1 .. n : y[Len(u) + i] = v[i]
      BY <2>7, Joined
    <3> HIDE DEF y
    <3>2. \A i \in 1 .. Len(b) : y[i] = b[i]
      <4> SUFFICES ASSUME NEW i \in 1 .. Len(b) PROVE y[i] = b[i]
        OBVIOUS
      <4>1. CASE i <= Len(u)
        BY <1>2, <2>3, <2>4, <3>1, <4>1
      <4>2. CASE i > Len(u)
        <5>1. PICK j \in 1 .. n : i = Len(u) + j
          <6>1. i - Len(u) \in 1 .. n /\ i = Len(u) + (i - Len(u))
            BY <1>2, <2>5, <4>2
          <6> QED
            BY <6>1
        <5> QED
          BY <2>7, <2>8, <3>1, <5>1
      <4> QED
        BY <1>2, <4>1, <4>2
    <3>3. y = b
      BY <2>5, <3>1, <3>2 DEF Text
    <3> QED
      BY <3>3 DEF y
  <2>13. line = AtMost(b, LINE)
    BY <1>1, <1>3, <2>7, <2>11, <2>12, CutAgain
  <2>14. AtMost(line, MSG - 1) = m
    BY <1>3, <2>1, <2>13, CutShorter
  <2> QED
    BY <2>11, <2>14
<1>5. CASE w = <<>> /\ \E m : Becomes(u \o r, m) /\ M = {m}
  <2>1. PICK m : Becomes(u \o r, m) /\ M = {m}
    BY <1>5
  <2>2. Flow(w, <<>>, <<>>, {})
    <3>1. <<>> = AtMost(<<>>, LINE) /\ <<>> \in Text
      BY <1>3, Empty DEF AtMost
    <3> QED
      BY <1>5, <3>1 DEF Flow
  <2>3. M = {} \cup {m}
    BY <2>1
  <2> QED
    BY <1>4, <2>1, <2>2, <2>3
<1>6. CASE \E m, n : Becomes(u \o r, m) /\ Becomes(w, n) /\ M = {m, n}
  <2>1. PICK m, n : Becomes(u \o r, m) /\ Becomes(w, n) /\ M = {m, n}
    BY <1>6
  <2>2. Flow(w, <<>>, <<>>, {n})
    <3>1. <<>> = AtMost(<<>>, LINE) /\ <<>> \in Text /\ <<>> \o <<>> \o w = w
      BY <1>3, Empty DEF AtMost
    <3>2. w # <<>>
      BY <2>1, BecomesText
    <3> QED
      BY <2>1, <3>1, <3>2 DEF Flow
  <2>3. M = {n} \cup {m}
    BY <2>1
  <2> QED
    BY <1>4, <2>1, <2>2, <2>3
<1>7. CASE w # <<>> /\ \E m : Becomes(u \o r \o w, m) /\ M = {m}
  <2>1. PICK m : Becomes(u \o r \o w, m) /\ M = {m}
    BY <1>7
  <2> DEFINE h == u \o r
  <2>2. /\ h \in Text /\ Len(h) = Len(u) + Len(r) /\ Len(w) \in Nat /\ Len(w) > 0
        /\ \A i \in 1 .. Len(r) : h[Len(u) + i] = r[i]
    BY <1>7, Joined, Filled
  <2> HIDE DEF h
  <2>3. /\ h \o w \in Text /\ Len(h \o w) = Len(h) + Len(w)
        /\ \A i \in 1 .. Len(h) : (h \o w)[i] = h[i]
        /\ \A i \in 1 .. Len(h \o w) : (h \o w)[i] = "nl" => i = Len(h \o w)
    BY <2>1, <2>2, Joined, BecomesText DEF h
  <2>4. \A i \in 1 .. Len(r) : r[i] # "nl"
    <3> SUFFICES ASSUME NEW i \in 1 .. Len(r) PROVE r[i] # "nl"
      OBVIOUS
    <3>1. Len(u) + i \in 1 .. Len(h) /\ Len(u) + i \in 1 .. Len(h \o w) /\ Len(u) + i # Len(h \o w)
      BY <1>2, <2>2, <2>3
    <3> QED
      BY <2>2, <2>3, <3>1
  <2>5. LineEnd(r) = Len(r) + 1 /\ Line(r) = r /\ After(r) = <<>>
    BY <2>4, NoFeed
  <2>6. line = AtMost(h, LINE)
    BY <1>1, <1>3, <2>5, CutAgain DEF h
  <2>7. h \o <<>> \o w = h \o w
    BY <2>2, Empty
  <2>8. Flow(w, <<>>, line, M)
    BY <1>7, <2>1, <2>2, <2>6, <2>7 DEF Flow, h
  <2> QED
    BY <1>2, <2>5, <2>8
<1> QED
  BY <1>1, <1>5, <1>6, <1>7

-----------------------------------------------------------------------------
(* The messages to come                                                     *)

\* Each message of P is one of those a command line becomes, and every dump of
\* a is done or has one.
Covered(P, a, c, done) ==
  /\ \A m \in P : m = <<>> \/ KnownMessage(a, c, m)
  /\ \A id \in 1 .. Len(a) : id \in done \/ \E m \in P : Carries(a, c, m, id)

\* What carries a dump is not empty, and the dump was asked for.
LEMMA Carried ==
  ASSUME NEW a, NEW c, NEW m, NEW id, Asking(a), Carries(a, c, m, id)
  PROVE  m \in Text /\ m # <<>> /\ id \in 1 .. Len(a)
<1>1. CASE DumpMessage(a, c, m, id)
  BY <1>1, DumpDone DEF DumpMessage
<1>2. CASE ClickMessage(a, c, m, id)
  BY <1>2, ClickDone DEF DumpMessage
<1> QED
  BY <1>1, <1>2 DEF Carries

\* What was on its way still is, when another dump is asked for.
LEMMA StillCarried ==
  ASSUME NEW a, NEW c, NEW d \in Ordinary, NEW c2, c \subseteq c2, Asking(a),
         NEW m, NEW id, Carries(a, c, m, id)
  PROVE  Carries(Append(a, d), c2, m, id)
<1> DEFINE a2 == Append(a, d)
<1>1. a \in Seq(Ordinary) /\ Len(a) \in Nat
  BY DEF Asking
<1>2. /\ Len(a2) = Len(a) + 1
      /\ \A i \in 1 .. Len(a) : i \in 1 .. Len(a2) /\ a2[i] = a[i]
  BY <1>1
<1> HIDE DEF a2
<1>3. \A x : DumpMessage(a, c, x, id) => DumpMessage(a2, c2, x, id)
  BY <1>2 DEF DumpMessage
<1>4. \A x : ClickMessage(a, c, x, id) => ClickMessage(a2, c2, x, id)
  BY <1>3 DEF ClickMessage
<1> QED
  BY <1>3, <1>4 DEF Carries, a2

\* A dump is asked for: its message is on the way.
LEMMA CoveredMore ==
  ASSUME NEW P, NEW a, NEW c, NEW done, Covered(P, a, c, done), Asking(a),
         NEW d \in Ordinary, NEW c2, c \subseteq c2,
         NEW m, Carries(Append(a, d), c2, m, Len(a) + 1)
  PROVE  Covered(P \cup {m}, Append(a, d), c2, done)
<1> DEFINE a2 == Append(a, d)
<1>1. a \in Seq(Ordinary) /\ Len(a) \in Nat
  BY DEF Asking
<1>2. Len(a2) = Len(a) + 1
  BY <1>1
<1>3. \A x, id : Carries(a, c, x, id) => Carries(a2, c2, x, id)
  BY StillCarried
<1>4. Carries(a2, c2, m, Len(a) + 1)
  OBVIOUS
<1> HIDE DEF a2
<1>5. ASSUME NEW x \in P \cup {m} PROVE x = <<>> \/ KnownMessage(a2, c2, x)
  <2>1. Len(a) + 1 \in 1 .. Len(a2) /\ \A id \in 1 .. Len(a) : id \in 1 .. Len(a2)
    BY <1>1, <1>2
  <2> QED
    BY <1>3, <1>4, <1>5, <2>1 DEF Covered, KnownMessage
<1>6. ASSUME NEW id \in 1 .. Len(a2)
      PROVE  id \in done \/ \E x \in P \cup {m} : Carries(a2, c2, x, id)
  <2>1. id \in 1 .. Len(a) \/ id = Len(a) + 1
    BY <1>1, <1>2
  <2> QED
    BY <1>3, <1>4, <2>1 DEF Covered
<1> QED
  BY <1>5, <1>6 DEF Covered, a2

\* A message that is no dump does not count.
LEMMA CoveredOther ==
  ASSUME NEW P, NEW a, NEW c, NEW done, Covered(P, a, c, done), NEW m, OtherMessage(m)
  PROVE  Covered(P \cup {m}, a, c, done)
BY DEF Covered, KnownMessage

\* Empty messages carry nothing.
LEMMA CoveredSame ==
  ASSUME NEW P, NEW Q, NEW a, NEW c, NEW done, Asking(a), Covered(P, a, c, done),
         P \cup {<<>>} = Q \cup {<<>>}
  PROVE  Covered(Q, a, c, done)
<1>1. \A m, id : Carries(a, c, m, id) => m # <<>>
  BY Carried
<1> QED
  BY <1>1 DEF Covered

\* A dump's line, however cut behind its number.
LEMMA PushDump ==
  ASSUME NEW a, NEW c, Asking(a), NEW id \in 1 .. Len(a), NEW n \in Nat, n >= 3,
         NEW t \in {<<>>, <<"cr">>, <<"nl">>},
         n < Len(DumpLine(id, a[id])) => id \in c
  PROVE  DumpMessage(a, c, AtMost(DumpLine(id, a[id]) \o t, n), id)
<1> DEFINE s == DumpLine(id, a[id])
           x == s \o t
<1>1. id \in Numbers /\ a[id] \in Ordinary
  BY DEF Asking
<1>2. s \in Text /\ Len(s) \in Nat
  BY <1>1, DumpText
<1>3. t \in Text /\ (Len(t) = 0 \/ Len(t) = 1)
  BY Empty, OneSymbol, Known DEF Marks
<1>4. x \in Text /\ Len(x) = Len(s) + Len(t) /\ \A i \in 1 .. Len(s) : x[i] = s[i]
  BY <1>2, <1>3, Joined
<1>5. n < Len(s) => id \in c
  OBVIOUS
<1>6. \A m : (\/ \E z \in {<<>>, <<"cr">>, <<"nl">>} : m = s \o z
              \/ id \in c /\ \E k \in 3 .. Len(s) : m = SubSeq(s, 1, k))
             => DumpMessage(a, c, m, id)
  BY DEF DumpMessage
<1>7. CASE Len(x) <= n
  BY <1>6, <1>7 DEF AtMost
<1>8. CASE Len(x) > n
  <2> HIDE DEF s, x
  <2>1. n <= Len(s) /\ Len(x) \in Nat
    <3> DEFINE i == Len(s)
               j == Len(x)
               h == Len(t)
    <3>1. i \in Nat /\ (h = 0 \/ h = 1) /\ j = i + h
      BY <1>2, <1>3, <1>4
    <3>0. j > n
      BY <1>8
    <3> HIDE DEF i, j, h
    <3>2. n <= i /\ j \in Nat
      BY <3>0, <3>1
    <3> QED
      BY <3>2 DEF i, j
  <2>2. AtMost(x, n) = SubSeq(x, 1, n)
    BY <1>8, <2>1 DEF AtMost
  <2> DEFINE p == SubSeq(x, 1, n)
             q == SubSeq(s, 1, n)
  <2>3. p \in Text /\ Len(p) = n /\ \A i \in 1 .. n : p[i] = x[i]
    BY <1>4, <1>8, <2>1 DEF Text
  <2>4. q \in Text /\ Len(q) = n /\ \A i \in 1 .. n : q[i] = s[i]
    BY <1>2, <2>1 DEF Text
  <2> HIDE DEF p, q
  <2>5. p = q
    <3>1. \A i \in 1 .. n : p[i] = q[i]
      BY <1>4, <2>1, <2>3, <2>4
    <3> QED
      BY <2>3, <2>4, <3>1 DEF Text
  <2>6. CASE n = Len(s)
    <3>1. q = s
      BY <1>2, <2>6 DEF q, Text
    <3>2. q = s \o <<>>
      BY <1>2, <3>1, Empty
    <3> QED
      BY <1>6, <2>2, <2>5, <3>2 DEF p, s, x
  <2>7. CASE n < Len(s)
    <3>1. n \in 3 .. Len(s)
      BY <1>2, <2>7
    <3>2. q = SubSeq(s, 1, n)
      BY DEF q
    <3> QED
      BY <1>5, <1>6, <2>2, <2>5, <2>7, <3>1, <3>2 DEF p, s, x
  <2> QED
    BY <1>2, <2>1, <2>6, <2>7
<1> QED
  BY <1>2, <1>3, <1>4, <1>7, <1>8

\* A cut behind the first of two texts is a cut in the second.
LEMMA CutBehind ==
  ASSUME NEW x \in Text, NEW y \in Text, NEW n \in Nat, Len(x) <= n
  PROVE  AtMost(x \o y, n) = x \o AtMost(y, n - Len(x))
<1> DEFINE k == n - Len(x)
           s == x \o y
<1>1. Len(x) \in Nat /\ Len(y) \in Nat /\ k \in Nat /\ n = Len(x) + k
  BY Filled
<1> HIDE DEF k
<1>2. /\ s \in Text /\ Len(s) = Len(x) + Len(y)
      /\ \A i \in 1 .. Len(x) : s[i] = x[i]
      /\ \A i \in 1 .. Len(y) : s[Len(x) + i] = y[i]
  BY Joined
<1>3. CASE Len(y) <= k
  <2>1. AtMost(y, k) = y
    BY <1>3 DEF AtMost
  <2>2. Len(s) <= n
    BY <1>1, <1>2, <1>3
  <2> QED
    BY <2>1, <2>2 DEF AtMost, k
<1>4. CASE Len(y) > k
  <2> DEFINE v == SubSeq(y, 1, k)
             p == x \o v
             q == SubSeq(s, 1, n)
  <2>1. v \in Text /\ Len(v) = k /\ \A i \in 1 .. k : v[i] = y[i]
    BY <1>1, <1>4 DEF Text
  <2>2. AtMost(y, k) = v
    BY <1>1, <1>4 DEF AtMost
  <2> HIDE DEF v
  <2>3. /\ p \in Text /\ Len(p) = Len(x) + k
        /\ \A i \in 1 .. Len(x) : p[i] = x[i]
        /\ \A i \in 1 .. k : p[Len(x) + i] = v[i]
    <3>1. /\ p \in Text /\ Len(p) = Len(x) + Len(v)
          /\ \A i \in 1 .. Len(x) : p[i] = x[i]
          /\ \A i \in 1 .. Len(v) : p[Len(x) + i] = v[i]
      BY <2>1, Joined
    <3> HIDE DEF p
    <3> QED
      BY <2>1, <3>1
  <2> HIDE DEF s
  <2>4. q \in Text /\ Len(q) = n /\ \A i \in 1 .. n : q[i] = s[i]
    BY <1>1, <1>2, <1>4 DEF Text
  <2>5. AtMost(s, n) = q
    BY <1>1, <1>2, <1>4 DEF AtMost
  <2> HIDE DEF p, q
  <2>6. \A i \in 1 .. n : p[i] = q[i]
    <3> SUFFICES ASSUME NEW i \in 1 .. n PROVE p[i] = q[i]
      OBVIOUS
    <3>1. CASE i <= Len(x)
      BY <1>1, <1>2, <2>3, <2>4, <3>1
    <3>2. CASE i > Len(x)
      <4>1. PICK j \in 1 .. k : i = Len(x) + j
        <5>1. i - Len(x) \in 1 .. k /\ i = Len(x) + (i - Len(x))
          BY <1>1, <3>2
        <5> QED
          BY <5>1
      <4>2. j \in 1 .. Len(y)
        BY <1>1, <1>4
      <4> QED
        BY <1>2, <2>1, <2>3, <2>4, <4>1, <4>2
    <3> QED
      BY <1>1, <3>1, <3>2
  <2>7. p = q
    BY <1>1, <2>3, <2>4, <2>6 DEF Text
  <2> QED
    BY <2>2, <2>5, <2>7 DEF k, p, s
<1> QED
  BY <1>1, <1>3, <1>4

-----------------------------------------------------------------------------
(* The commands                                                             *)

\* The messages that are to come, in the ring or with the script thread.
Pool(M) == M \cup {ring[i] : i \in 1 .. Len(ring)} \cup {message}

\* What has been read is what was asked for.
ReadAsAsked(a, c, rd) ==
  \A id \in DOMAIN rd \ {0} : id \in 1 .. Len(a) /\ (id \notin c => rd[id] = Meant(a[id]))

CommandType ==
  /\ Asking(asked) /\ Len(asked) <= MaxDumps
  /\ wire \in Text /\ recvbuf \in Text /\ fullline \in Text /\ message \in Text
  /\ ring \in Seq(Text)

CommandInv ==
  /\ CommandType
  /\ ReadAsAsked(asked, cut, read)
  /\ \E M : /\ Flow(wire, recvbuf, fullline, M)
            /\ Covered(Pool(M), asked, cut, DOMAIN read)

\* Nothing is asked for and nothing is on the way.
LEMMA InitCommand == Init => CommandInv
<1> SUFFICES ASSUME Init PROVE CommandInv
  OBVIOUS
<1>1. CommandType
  BY Empty, ConsoleAssumption DEF Init, CommandType, Asking
<1>2. DOMAIN read = {} /\ Len(asked) = 0 /\ Len(ring) = 0
  BY DEF Init
<1>3. ReadAsAsked(asked, cut, read)
  BY <1>2 DEF ReadAsAsked
<1>4. Flow(wire, recvbuf, fullline, {})
  <2>1. <<>> = AtMost(<<>>, LINE)
    BY Empty, ConsoleAssumption DEF AtMost
  <2> QED
    BY <2>1, Empty DEF Init, Flow
<1>5. Covered(Pool({}), asked, cut, DOMAIN read)
  BY <1>2 DEF Init, Covered, Pool
<1> QED
  BY <1>1, <1>3, <1>4, <1>5 DEF CommandInv

\* A dump more to ask for.
LEMMA AskOne ==
  ASSUME CommandInv, Len(asked) < MaxDumps, NEW d \in Ordinary
  PROVE  LET a2 == Append(asked, d)
         IN  /\ Asking(a2) /\ Len(a2) <= MaxDumps /\ Len(a2) = Len(asked) + 1
             /\ Len(asked) + 1 \in 1 .. Len(a2) /\ a2[Len(asked) + 1] = d
             /\ \A c2, rd : cut \subseteq c2 /\ ReadAsAsked(asked, cut, rd) => ReadAsAsked(a2, c2, rd)
<1> DEFINE a2 == Append(asked, d)
<1>1. /\ asked \in Seq(Ordinary) /\ Len(asked) \in Nat
      /\ \A id \in 1 .. Len(asked) : id \in Numbers
  BY DEF CommandInv, CommandType, Asking
<1>2. /\ a2 \in Seq(Ordinary) /\ Len(a2) = Len(asked) + 1 /\ a2[Len(asked) + 1] = d
      /\ \A i \in 1 .. Len(asked) : a2[i] = asked[i]
  BY <1>1
<1> HIDE DEF a2
<1>3. MaxDumps \in Nat /\ 1 .. MaxDumps \subseteq Numbers
  BY ConsoleAssumption
<1>4. Len(a2) <= MaxDumps /\ Len(asked) + 1 \in 1 .. Len(a2)
  BY <1>1, <1>2, <1>3
<1>5. \A id \in 1 .. Len(a2) : id \in Numbers
  BY <1>1, <1>2, <1>3, <1>4
<1>6. Asking(a2)
  BY <1>2, <1>5 DEF Asking
<1>7. ASSUME NEW c2, NEW rd, cut \subseteq c2, ReadAsAsked(asked, cut, rd)
      PROVE  ReadAsAsked(a2, c2, rd)
  <2>1. \A id \in 1 .. Len(asked) : id \in 1 .. Len(a2)
    BY <1>1, <1>2
  <2> QED
    BY <1>2, <1>7, <2>1 DEF ReadAsAsked
<1> QED
  BY <1>2, <1>4, <1>6, <1>7 DEF a2

\* A message more in the ring.
LEMMA PoolPushed ==
  ASSUME ring \in Seq(Text), NEW m \in Text, ring' = Append(ring, m), UNCHANGED message, NEW M
  PROVE  ring' \in Seq(Text) /\ Pool(M)' = Pool(M) \cup {m}
<1>1. /\ ring' \in Seq(Text) /\ Len(ring) \in Nat /\ Len(ring') = Len(ring) + 1
      /\ (\A i \in 1 .. Len(ring) : ring'[i] = ring[i]) /\ ring'[Len(ring) + 1] = m
  OBVIOUS
<1>2. {ring'[i] : i \in 1 .. Len(ring')} = {ring[i] : i \in 1 .. Len(ring)} \cup {m}
  <2>1. \A i \in 1 .. Len(ring') : i \in 1 .. Len(ring) \/ i = Len(ring) + 1
    BY <1>1
  <2>2. \A i \in 1 .. Len(ring) : i \in 1 .. Len(ring')
    BY <1>1
  <2>3. Len(ring) + 1 \in 1 .. Len(ring')
    BY <1>1
  <2> QED
    BY <1>1, <2>1, <2>2, <2>3
<1> QED
  BY <1>1, <1>2 DEF Pool

\* A click: its two lines go to the ring as one message.
LEMMA ClickStep ==
  ASSUME OrdinaryTexts, CommandInv, NEW d \in Fields, Click(d)
  PROVE  CommandInv'
<1> DEFINE e  == IF d.mode = "AUTO" THEN [d EXCEPT !.index = 1] ELSE d
           id == Len(asked) + 1
           s  == DumpLine(id, e)
           m  == Before \o s \o <<"nl">>
           a2 == Append(asked, e)
           h  == AtMost(m, MSG - 1)
<1>1. /\ Len(asked) < MaxDumps /\ ring' = Append(ring, h) /\ asked' = a2
      /\ cut' = IF Len(m) < MSG THEN cut ELSE cut \cup {id}
      /\ UNCHANGED <<wire, recvbuf, fullline, message, others, read, disk>>
  BY DEF Click, Push, Fill, Before
<1>2. e \in Ordinary
  <2>1. d \in Ordinary
    BY ConsoleAssumption DEF Forms, Ordinary, OrdinaryTexts
  <2>2. 1 \in Numbers \ {0}
    BY ConsoleAssumption
  <2> QED
    BY <2>1, <2>2 DEF Ordinary
<1> HIDE DEF e
<1>3. /\ Asking(a2) /\ Len(a2) <= MaxDumps /\ id \in 1 .. Len(a2) /\ a2[id] = e
      /\ ReadAsAsked(a2, cut', read)
  BY <1>1, <1>2, AskOne DEF CommandInv
<1> HIDE DEF a2
<1>4. id \in Numbers /\ MSG \in Nat /\ MSG >= 8
  BY <1>3, ConsoleAssumption DEF Asking
<1> HIDE DEF id
<1>5. s \in Text /\ Len(s) \in Nat
  BY <1>2, <1>4, DumpText
<1>6. <<"nl">> \in Text /\ Len(<<"nl">>) = 1
  BY OneSymbol, Known DEF Marks
<1>7. Before \in Text /\ Len(Before) = 4
  BY Known DEF Before, Text, Marks
<1> DEFINE x == s \o <<"nl">>
<1>8. x \in Text /\ Len(x) = Len(s) + 1
  BY <1>5, <1>6, Joined
<1>9. m = Before \o x /\ Len(m) = 4 + Len(s) + 1
  <2>1. m = Before \o x
    <3> HIDE DEF s
    <3> QED
      BY <1>5, <1>6, <1>7, Grouped
  <2> HIDE DEF x, m
  <2>2. Len(Before \o x) = Len(Before) + Len(x)
    BY <1>7, <1>8, Joined
  <2>3. 4 + (Len(s) + 1) = 4 + Len(s) + 1
    BY <1>5
  <2> QED
    BY <1>7, <1>8, <2>1, <2>2, <2>3
<1>10. h = Before \o AtMost(x, MSG - 5)
  <2>1. MSG - 1 \in Nat /\ Len(Before) <= MSG - 1 /\ MSG - 1 - Len(Before) = MSG - 5
    BY <1>4, <1>7
  <2> HIDE DEF m, x
  <2>2. h = AtMost(Before \o x, MSG - 1)
    BY <1>9
  <2> QED
    BY <1>7, <1>8, <2>1, <2>2, CutBehind
<1>11. DumpMessage(a2, cut', AtMost(x, MSG - 5), id)
  <2>1. MSG - 5 \in Nat /\ MSG - 5 >= 3
    BY <1>4
  <2>2. MSG - 5 < Len(s) => id \in cut'
    <3> HIDE DEF m, s
    <3> QED
      BY <1>1, <1>4, <1>5, <1>9
  <2> DEFINE n == MSG - 5
  <2> HIDE DEF n
  <2>3. s = DumpLine(id, a2[id])
    BY <1>3
  <2>4. DumpMessage(a2, cut', AtMost(DumpLine(id, a2[id]) \o <<"nl">>, n), id)
    <3>1. n < Len(DumpLine(id, a2[id])) => id \in cut'
      BY <2>2, <2>3 DEF n
    <3> HIDE DEF s
    <3> QED
      BY <1>3, <2>1, <3>1, PushDump DEF n
  <2> QED
    BY <2>3, <2>4 DEF n
<1>12. Carries(a2, cut', h, id) /\ h \in Text
  <2>1. MSG - 5 \in Nat /\ MSG - 1 \in Nat
    BY <1>4
  <2>2. AtMost(x, MSG - 5) \in Text
    BY <1>8, <2>1, CutTo
  <2>3. m \in Text
    <3> HIDE DEF x
    <3> QED
      BY <1>7, <1>8, <1>9, Joined
  <2>4. h \in Text
    <3> HIDE DEF m
    <3> QED
      BY <2>1, <2>3, CutTo
  <2> HIDE DEF h, x
  <2> QED
    BY <1>10, <1>11, <2>2, <2>4 DEF Carries, ClickMessage
<1> HIDE DEF m, h
<1>13. PICK M : Flow(wire, recvbuf, fullline, M) /\ Covered(Pool(M), asked, cut, DOMAIN read)
  BY DEF CommandInv
<1>14. ring' \in Seq(Text) /\ Pool(M)' = Pool(M) \cup {h}
  BY <1>1, <1>12, PoolPushed DEF CommandInv, CommandType
<1>15. Covered(Pool(M) \cup {h}, a2, cut', DOMAIN read)
  <2>1. cut \subseteq cut' /\ Asking(asked)
    BY <1>1 DEF CommandInv, CommandType
  <2> QED
    BY <1>2, <1>12, <1>13, <2>1, CoveredMore DEF a2, id
<1>16. CommandType'
  BY <1>1, <1>3, <1>14 DEF CommandInv, CommandType
<1>17. Flow(wire, recvbuf, fullline, M)' /\ Covered(Pool(M), asked, cut, DOMAIN read)'
  BY <1>1, <1>13, <1>14, <1>15
<1>18. ReadAsAsked(asked, cut, read)'
  BY <1>1, <1>3
<1> QED
  BY <1>16, <1>17, <1>18 DEF CommandInv

\* A typed line ends with a line feed, and may have a carriage return.
LEMMA EndIs ==
  ASSUME NEW e \in Ends
  PROVE  \E t \in {<<>>, <<"cr">>} : e = t \o <<"nl">>
<1> DEFINE x == <<"cr">>
           y == <<"nl">>
           z == <<"cr", "nl">>
           w == x \o y
<1>1. e = y \/ e = z
  BY ConsoleAssumption
<1>2. /\ x \in Text /\ Len(x) = 1 /\ x[1] = "cr" /\ y \in Text /\ Len(y) = 1 /\ y[1] = "nl"
  BY OneSymbol, Known DEF Marks
<1>3. z \in Text /\ Len(z) = 2 /\ z[1] = "cr" /\ z[2] = "nl"
  BY Known DEF Text, Marks
<1> HIDE DEF x, y, z
<1>4. <<>> \o y = y
  BY <1>2, Empty
<1>5. w = z
  <2>1. /\ w \in Text /\ Len(w) = Len(x) + Len(y)
        /\ \A i \in 1 .. Len(x) : w[i] = x[i]
        /\ \A i \in 1 .. Len(y) : w[Len(x) + i] = y[i]
    BY <1>2, Joined
  <2> HIDE DEF w
  <2>2. Len(w) = 2 /\ w[1] = "cr" /\ w[2] = "nl"
    <3>1. 1 \in 1 .. Len(x) /\ 1 \in 1 .. Len(y) /\ Len(x) + 1 = 2
      BY <1>2
    <3> QED
      BY <1>2, <2>1, <3>1
  <2>3. \A i \in 1 .. 2 : w[i] = z[i]
    <3>1. \A i \in 1 .. 2 : i = 1 \/ i = 2
      OBVIOUS
    <3> QED
      BY <1>3, <2>2, <3>1
  <2> QED
    BY <1>3, <2>1, <2>2, <2>3 DEF Text
<1> QED
  BY <1>1, <1>4, <1>5 DEF x, y, w

\* A dump is typed: its line goes on the wire.
LEMMA TypeDumpStep ==
  ASSUME OrdinaryTexts, CommandInv, NEW d \in Fields, NEW e \in Ends, TypeDump(d, e)
  PROVE  CommandInv'
<1> DEFINE id == Len(asked) + 1
           s  == DumpLine(id, d)
           a2 == Append(asked, d)
<1>1. /\ Len(asked) < MaxDumps /\ wire = <<>> /\ wire' = s \o e /\ asked' = a2
      /\ cut' = IF Len(s) < MSG THEN cut ELSE cut \cup {id}
      /\ UNCHANGED <<recvbuf, fullline, ring, message, others, read, disk>>
  BY DEF TypeDump, Fill
<1>2. d \in Ordinary
  BY ConsoleAssumption DEF Forms, Ordinary, OrdinaryTexts
<1>3. /\ Asking(a2) /\ Len(a2) <= MaxDumps /\ id \in 1 .. Len(a2) /\ a2[id] = d
      /\ ReadAsAsked(a2, cut', read)
  BY <1>1, <1>2, AskOne DEF CommandInv
<1> HIDE DEF a2
<1>4. id \in Numbers /\ MSG \in Nat /\ MSG >= 8
  BY <1>3, ConsoleAssumption DEF Asking
<1> HIDE DEF id
<1>5. s \in Text /\ Len(s) \in Nat /\ NoLineFeed(s)
  BY <1>2, <1>4, DumpText
<1>6. PICK t \in {<<>>, <<"cr">>} : e = t \o <<"nl">>
  BY EndIs
<1>7. <<"nl">> \in Text /\ t \in Text /\ \A i \in 1 .. Len(t) : t[i] # "nl"
  BY OneSymbol, Known, Empty DEF Marks
<1> DEFINE b == s \o t
           m == AtMost(b, MSG - 1)
<1>8. wire' = b \o <<"nl">>
  <2> HIDE DEF s
  <2> QED
    BY <1>1, <1>5, <1>6, <1>7, Grouped
<1>9. b \in Text /\ NoLineFeed(b)
  BY <1>5, <1>7, NoFeeds
<1>10. Becomes(wire', m)
  BY <1>8, <1>9 DEF Becomes
<1>11. Carries(a2, cut', m, id)
  <2>1. MSG - 1 \in Nat /\ MSG - 1 >= 3
    BY <1>4
  <2>2. MSG - 1 < Len(s) => id \in cut'
    <3> HIDE DEF s
    <3> QED
      BY <1>1, <1>4, <1>5
  <2> DEFINE n == MSG - 1
  <2> HIDE DEF n
  <2>3. s = DumpLine(id, a2[id])
    BY <1>3
  <2>4. DumpMessage(a2, cut', AtMost(DumpLine(id, a2[id]) \o t, n), id)
    <3>1. n < Len(DumpLine(id, a2[id])) => id \in cut'
      BY <2>2, <2>3 DEF n
    <3> HIDE DEF s
    <3> QED
      BY <1>3, <2>1, <3>1, PushDump DEF n
  <2> QED
    BY <2>3, <2>4 DEF n, Carries
<1> HIDE DEF m, b, s
<1>19. PICK k : k = m
  OBVIOUS
<1>12. PICK M : Flow(<<>>, recvbuf, fullline, M) /\ Covered(Pool(M), asked, cut, DOMAIN read)
  BY <1>1 DEF CommandInv
<1>13. Flow(wire', recvbuf, fullline, M \cup {k})
  BY <1>10, <1>19, <1>12, Sending DEF CommandInv, CommandType
<1>14. Covered(Pool(M) \cup {k}, a2, cut', DOMAIN read)
  <2>1. cut \subseteq cut' /\ Asking(asked)
    BY <1>1 DEF CommandInv, CommandType
  <2> QED
    BY <1>2, <1>11, <1>19, <1>12, <2>1, CoveredMore DEF a2, id
<1>15. Pool(M \cup {k})' = Pool(M) \cup {k}
  BY <1>1 DEF Pool
<1>16. CommandType'
  <2>1. wire' \in Text
    BY <1>10, <1>19, BecomesText
  <2> QED
    BY <1>1, <1>3, <2>1 DEF CommandInv, CommandType
<1>17. Flow(wire, recvbuf, fullline, M \cup {k})' /\ Covered(Pool(M \cup {k}), asked, cut, DOMAIN read)'
  BY <1>1, <1>13, <1>14, <1>15
<1>18. ReadAsAsked(asked, cut, read)'
  BY <1>1, <1>3
<1> QED
  BY <1>16, <1>17, <1>18 DEF CommandInv

\* Another line is typed.
LEMMA TypeOtherStep ==
  ASSUME OrdinaryTexts, CommandInv, NEW s \in Typed, NEW e \in Ends, TypeOther(s, e)
  PROVE  CommandInv'
<1>1. /\ wire = <<>> /\ wire' = s \o e
      /\ UNCHANGED <<asked, cut, recvbuf, fullline, ring, message, read, disk>>
  BY DEF TypeOther
<1>2. PICK t \in {<<>>, <<"cr">>} : e = t \o <<"nl">>
  BY EndIs
<1>3. <<"nl">> \in Text /\ t \in Text /\ \A i \in 1 .. Len(t) : t[i] # "nl"
  BY OneSymbol, Known, Empty DEF Marks
<1>4. s \in Text /\ NoLineFeed(s) /\ Harmless(AtMost(s \o t, MSG - 1))
  BY ConsoleAssumption DEF OrdinaryTexts, NoLineFeed
<1> DEFINE b == s \o t
           m == AtMost(b, MSG - 1)
<1>5. wire' = b \o <<"nl">>
  BY <1>1, <1>2, <1>3, <1>4, Grouped
<1>6. b \in Text /\ NoLineFeed(b)
  BY <1>3, <1>4, NoFeeds
<1>7. Becomes(wire', m)
  BY <1>5, <1>6 DEF Becomes
<1>8. OtherMessage(m)
  <2>1. MSG - 1 \in Nat
    BY ConsoleAssumption
  <2>2. m \in Text /\ Len(m) <= Len(b) /\ Len(b) \in Nat /\ \A i \in 1 .. Len(m) : m[i] = b[i]
    <3> HIDE DEF b
    <3> QED
      BY <1>6, <2>1, CutTo, Filled
  <2>3. Harmless(m)
    BY <1>4
  <2> HIDE DEF m, b
  <2>4. NoLineFeed(m)
    BY <1>6, <2>2 DEF NoLineFeed
  <2> QED
    BY <2>2, <2>3, <2>4 DEF OtherMessage
<1> HIDE DEF m, b
<1>9. PICK M : Flow(<<>>, recvbuf, fullline, M) /\ Covered(Pool(M), asked, cut, DOMAIN read)
  BY <1>1 DEF CommandInv
<1>10. Flow(wire', recvbuf, fullline, M \cup {m})
  BY <1>7, <1>9, Sending DEF CommandInv, CommandType
<1>11. Covered(Pool(M) \cup {m}, asked, cut, DOMAIN read)
  BY <1>8, <1>9, CoveredOther
<1>12. Pool(M \cup {m})' = Pool(M) \cup {m}
  BY <1>1 DEF Pool
<1>13. CommandType'
  <2>1. wire' \in Text
    BY <1>7, BecomesText
  <2> QED
    BY <1>1, <2>1 DEF CommandInv, CommandType
<1>14. Flow(wire, recvbuf, fullline, M \cup {m})' /\ Covered(Pool(M \cup {m}), asked, cut, DOMAIN read)'
  BY <1>1, <1>10, <1>11, <1>12
<1>15. ReadAsAsked(asked, cut, read)'
  BY <1>1 DEF CommandInv
<1> QED
  BY <1>13, <1>14, <1>15 DEF CommandInv

\* Symbols go from the wire to the buffer.
LEMMA RecvStep ==
  ASSUME CommandInv, NEW n \in RECV, Recv(n)
  PROVE  CommandInv'
<1>1. /\ recvbuf = <<>> /\ wire # <<>>
      /\ recvbuf' = AtMost(wire, n) /\ wire' = SubSeq(wire, n + 1, Len(wire))
      /\ UNCHANGED <<asked, cut, fullline, ring, message, others, read, disk>>
  BY DEF Recv
<1>2. n \in Nat \ {0}
  BY ConsoleAssumption
<1>3. PICK M : Flow(wire, <<>>, fullline, M) /\ Covered(Pool(M), asked, cut, DOMAIN read)
  BY <1>1 DEF CommandInv
<1>4. Flow(wire', recvbuf', fullline, M) /\ wire' \in Text /\ recvbuf' \in Text
  BY <1>1, <1>2, <1>3, Receiving DEF CommandInv, CommandType
<1>5. Pool(M)' = Pool(M)
  BY <1>1 DEF Pool
<1>6. CommandType'
  BY <1>1, <1>4 DEF CommandInv, CommandType
<1>7. Flow(wire, recvbuf, fullline, M)' /\ Covered(Pool(M), asked, cut, DOMAIN read)'
  BY <1>1, <1>3, <1>4, <1>5
<1>8. ReadAsAsked(asked, cut, read)'
  BY <1>1 DEF CommandInv
<1> QED
  BY <1>6, <1>7, <1>8 DEF CommandInv

\* They go to the line, and the line to the ring at its line feed.
LEMMA AssembleStep ==
  ASSUME CommandInv, Assemble
  PROVE  CommandInv'
<1> DEFINE line == AtMost(fullline \o Line(recvbuf), LINE)
           h    == AtMost(line, MSG - 1)
<1>1. /\ recvbuf # <<>> /\ recvbuf' = After(recvbuf)
      /\ IF LineEnd(recvbuf) <= Len(recvbuf)
         THEN ring' = Append(ring, h) /\ fullline' = <<>>
         ELSE fullline' = line /\ UNCHANGED ring
      /\ UNCHANGED <<asked, cut, wire, message, others, read, disk>>
  BY DEF Assemble, Push
<1>2. PICK M : Flow(wire, recvbuf, fullline, M) /\ Covered(Pool(M), asked, cut, DOMAIN read)
  BY DEF CommandInv
<1>3. /\ wire \in Text /\ recvbuf \in Text /\ fullline \in Text /\ ring \in Seq(Text)
      /\ Asking(asked)
  BY DEF CommandInv, CommandType
<1>4. /\ LINE \in Nat /\ MSG - 1 \in Nat
  BY ConsoleAssumption
<1>5. Line(recvbuf) \in Text /\ After(recvbuf) \in Text
  BY <1>3, LineText
<1>6. line \in Text /\ h \in Text
  BY <1>3, <1>4, <1>5, Joined, CutTo
<1>7. \/ /\ LineEnd(recvbuf) <= Len(recvbuf)
         /\ \E m, M2 : h = m /\ M = M2 \cup {m} /\ Flow(wire, After(recvbuf), <<>>, M2)
      \/ ~(LineEnd(recvbuf) <= Len(recvbuf)) /\ Flow(wire, After(recvbuf), line, M)
  BY <1>1, <1>2, <1>3, Assembling
<1> HIDE DEF h, line
<1>8. ReadAsAsked(asked, cut, read)'
  BY <1>1 DEF CommandInv
<1>9. CASE LineEnd(recvbuf) <= Len(recvbuf)
  <2>1. PICK M2 : M = M2 \cup {h} /\ Flow(wire, After(recvbuf), <<>>, M2)
    BY <1>7, <1>9
  <2>2. ring' = Append(ring, h) /\ fullline' = <<>>
    BY <1>1, <1>9
  <2>3. ring' \in Seq(Text) /\ Pool(M2)' = Pool(M2) \cup {h}
    BY <1>1, <1>3, <1>6, <2>2, PoolPushed
  <2>4. Pool(M2) \cup {h} = Pool(M)
    BY <2>1 DEF Pool
  <2>5. CommandType'
    BY <1>1, <1>5, <2>2, <2>3, Empty DEF CommandInv, CommandType
  <2>6. Flow(wire, recvbuf, fullline, M2)' /\ Covered(Pool(M2), asked, cut, DOMAIN read)'
    BY <1>1, <1>2, <2>1, <2>2, <2>3, <2>4
  <2> QED
    BY <1>8, <2>5, <2>6 DEF CommandInv
<1>10. CASE ~(LineEnd(recvbuf) <= Len(recvbuf))
  <2>1. fullline' = line /\ ring' = ring
    BY <1>1, <1>10
  <2>2. Pool(M)' = Pool(M)
    BY <1>1, <2>1 DEF Pool
  <2>3. CommandType'
    BY <1>1, <1>5, <1>6, <2>1 DEF CommandInv, CommandType
  <2>4. Flow(wire, recvbuf, fullline, M)' /\ Covered(Pool(M), asked, cut, DOMAIN read)'
    BY <1>1, <1>2, <1>7, <1>10, <2>1, <2>2
  <2> QED
    BY <1>8, <2>3, <2>4 DEF CommandInv
<1> QED
  BY <1>9, <1>10

\* A message goes from the ring to the script thread.
LEMMA TakeStep ==
  ASSUME CommandInv, Take
  PROVE  CommandInv'
<1>1. /\ message = <<>> /\ ring # <<>> /\ message' = Head(ring) /\ ring' = Tail(ring)
      /\ UNCHANGED <<asked, cut, wire, recvbuf, fullline, others, read, disk>>
  BY DEF Take
<1>2. PICK M : Flow(wire, recvbuf, fullline, M) /\ Covered(Pool(M), asked, cut, DOMAIN read)
  BY DEF CommandInv
<1>3. ring \in Seq(Text) /\ Asking(asked)
  BY DEF CommandInv, CommandType
<1>4. /\ Len(ring) \in Nat /\ Len(ring) >= 1 /\ message' = ring[1] /\ message' \in Text
      /\ ring' \in Seq(Text) /\ Len(ring') = Len(ring) - 1
      /\ \A i \in 1 .. Len(ring) - 1 : ring'[i] = ring[i + 1]
  BY <1>1, <1>3
<1>5. {ring[i] : i \in 1 .. Len(ring)} = {ring'[i] : i \in 1 .. Len(ring')} \cup {message'}
  <2>1. ASSUME NEW i \in 1 .. Len(ring)
        PROVE  ring[i] = message' \/ \E j \in 1 .. Len(ring') : ring[i] = ring'[j]
    <3>1. i = 1 \/ (i - 1 \in 1 .. Len(ring) - 1 /\ (i - 1) + 1 = i)
      BY <1>4
    <3> QED
      BY <1>4, <3>1
  <2>2. \A j \in 1 .. Len(ring') : j + 1 \in 1 .. Len(ring) /\ ring'[j] = ring[j + 1]
    BY <1>4
  <2>3. 1 \in 1 .. Len(ring) /\ message' = ring[1]
    BY <1>4
  <2> DEFINE A == {ring[i] : i \in 1 .. Len(ring)}
             B == {ring'[i] : i \in 1 .. Len(ring')} \cup {message'}
  <2>4. \A x \in A : x \in B
    BY <2>1
  <2>5. \A x \in B : x \in A
    BY <2>2, <2>3
  <2> QED
    BY <2>4, <2>5
<1>6. Pool(M) \cup {<<>>} = Pool(M)' \cup {<<>>}
  BY <1>1, <1>5 DEF Pool
<1>7. Covered(Pool(M)', asked, cut, DOMAIN read)
  BY <1>2, <1>3, <1>6, CoveredSame
<1>8. CommandType'
  BY <1>1, <1>4 DEF CommandInv, CommandType
<1>9. Flow(wire, recvbuf, fullline, M)' /\ Covered(Pool(M), asked, cut, DOMAIN read)'
  BY <1>1, <1>2, <1>7
<1>10. ReadAsAsked(asked, cut, read)'
  BY <1>1 DEF CommandInv
<1> QED
  BY <1>8, <1>9, <1>10 DEF CommandInv

\* The message the script thread has: what its line does, what remains.
LEMMA MessageKinds ==
  ASSUME CommandInv, message # <<>>
  PROVE  LET l == Line(message)
         IN  /\ KnownMessage(asked, cut, message) /\ After(message) \in Text
             /\ After(message) = <<>> \/ \E id \in 1 .. Len(asked) : DumpMessage(asked, cut, After(message), id)
             /\ ~(extract_cmd(l) = <<"dump">> /\ Given(l, 1)) =>
                  \A id : Carries(asked, cut, message, id) => DumpMessage(asked, cut, After(message), id)
             /\ extract_cmd(l) = <<"dump">> /\ Given(l, 1) =>
                  LET n == atoi(get_param(l, 1))
                  IN  /\ n = 0 \/ (n \in 1 .. Len(asked) /\ (n \notin cut => Parameters(l) = Meant(asked[n])))
                      /\ \A id : Carries(asked, cut, message, id) => id = n
<1> DEFINE l == Line(message)
           n == atoi(get_param(l, 1))
<1>1. Asking(asked) /\ message \in Text
  BY DEF CommandInv, CommandType
<1>2. KnownMessage(asked, cut, message)
  BY DEF CommandInv, Covered, Pool
<1>3. After(message) \in Text
  BY <1>1, LineText
<1>4. \A id : DumpMessage(asked, cut, message, id) =>
         /\ id \in 1 .. Len(asked) /\ After(message) = <<>>
         /\ extract_cmd(l) = <<"dump">> /\ Given(l, 1) /\ n = id
         /\ id \notin cut => Parameters(l) = Meant(asked[id])
  <2> SUFFICES ASSUME NEW id, DumpMessage(asked, cut, message, id)
               PROVE  /\ id \in 1 .. Len(asked) /\ After(message) = <<>>
                      /\ extract_cmd(l) = <<"dump">> /\ Given(l, 1) /\ n = id
                      /\ id \notin cut => Parameters(l) = Meant(asked[id])
    OBVIOUS
  <2>1. id \in 1 .. Len(asked)
    BY DEF DumpMessage
  <2>2. /\ After(message) = <<>>
        /\ extract_cmd(l) = <<"dump">> /\ Given(l, 1) /\ n = id
        /\ id \notin cut => Parameters(l) = Meant(asked[id])
    BY <1>1, DumpDone
  <2> QED
    BY <2>1, <2>2
<1>5. \A id : ClickMessage(asked, cut, message, id) =>
         extract_cmd(l) # <<"dump">> /\ DumpMessage(asked, cut, After(message), id)
  BY ClickDone
<1>6. OtherMessage(message) =>
         /\ After(message) = <<>>
         /\ extract_cmd(l) = <<"dump">> /\ Given(l, 1) => n = 0
  BY OtherDone DEF OtherMessage, Harmless
<1>7. OtherMessage(message) \/ \E id \in 1 .. Len(asked) :
         DumpMessage(asked, cut, message, id) \/ ClickMessage(asked, cut, message, id)
  BY <1>2 DEF KnownMessage, Carries
<1> HIDE DEF l, n
<1>8. After(message) = <<>> \/ \E id \in 1 .. Len(asked) : DumpMessage(asked, cut, After(message), id)
  BY <1>4, <1>5, <1>6, <1>7
<1>9. ~(extract_cmd(l) = <<"dump">> /\ Given(l, 1)) =>
         \A id : Carries(asked, cut, message, id) => DumpMessage(asked, cut, After(message), id)
  BY <1>4, <1>5 DEF Carries
<1>10. extract_cmd(l) = <<"dump">> =>
         \A id : Carries(asked, cut, message, id) => id = n
  BY <1>4, <1>5 DEF Carries
<1>11. extract_cmd(l) = <<"dump">> /\ Given(l, 1) =>
         n = 0 \/ (n \in 1 .. Len(asked) /\ (n \notin cut => Parameters(l) = Meant(asked[n])))
  BY <1>4, <1>5, <1>6, <1>7
<1> QED
  BY <1>2, <1>3, <1>8, <1>9, <1>10, <1>11 DEF l, n

\* The message makes way for what is left of it: what it carried is done, or in
\* there.
LEMMA CoveredNext ==
  ASSUME NEW P, NEW m, NEW rest, NEW a, NEW c, NEW done, NEW done2,
         Covered(P \cup {m}, a, c, done), done \subseteq done2,
         rest = <<>> \/ \E id \in 1 .. Len(a) : DumpMessage(a, c, rest, id),
         \A id \in 1 .. Len(a) : Carries(a, c, m, id) => id \in done2 \/ DumpMessage(a, c, rest, id)
  PROVE  Covered(P \cup {rest}, a, c, done2)
BY DEF Covered, KnownMessage, Carries

\* The script thread runs a line of its message, and keeps the others.
LEMMA ExecStep ==
  ASSUME CommandInv, ExecOther \/ ExecDump
  PROVE  CommandInv'
<1> DEFINE l    == Line(message)
           rest == After(message)
           n    == atoi(get_param(l, 1))
           p    == Parameters(l)
           runs == extract_cmd(l) = <<"dump">> /\ Given(l, 1)
<1>1. /\ message # <<>> /\ message' = rest
      /\ UNCHANGED <<asked, cut, wire, recvbuf, fullline, ring>>
      /\ \/ ~runs /\ read' = read
         \/ runs /\ read' = [i \in DOMAIN read \cup {n} |-> IF i = n THEN p ELSE read[i]]
  BY DEF ExecOther, ExecDump
<1>2. /\ rest \in Text
      /\ rest = <<>> \/ \E id \in 1 .. Len(asked) : DumpMessage(asked, cut, rest, id)
      /\ ~runs => \A id : Carries(asked, cut, message, id) => DumpMessage(asked, cut, rest, id)
      /\ runs => /\ n = 0 \/ (n \in 1 .. Len(asked) /\ (n \notin cut => p = Meant(asked[n])))
                 /\ \A id : Carries(asked, cut, message, id) => id = n
  BY <1>1, MessageKinds
<1> HIDE DEF l, rest, n, p, runs
<1>3. PICK M : Flow(wire, recvbuf, fullline, M) /\ Covered(Pool(M), asked, cut, DOMAIN read)
  BY DEF CommandInv
<1>4. DOMAIN read \subseteq DOMAIN read' /\ (runs => n \in DOMAIN read')
  BY <1>1
<1> DEFINE P == M \cup {ring[i] : i \in 1 .. Len(ring)}
<1>5. Pool(M) = P \cup {message} /\ Pool(M)' = P \cup {rest}
  BY <1>1 DEF Pool
<1> HIDE DEF P
<1>6. \A id : Carries(asked, cut, message, id) => id \in DOMAIN read' \/ DumpMessage(asked, cut, rest, id)
  BY <1>2, <1>4
<1>7. Covered(P \cup {rest}, asked, cut, DOMAIN read')
  <2>1. Covered(P \cup {message}, asked, cut, DOMAIN read)
    BY <1>3, <1>5
  <2>2. rest = <<>> \/ \E id \in 1 .. Len(asked) : DumpMessage(asked, cut, rest, id)
    BY <1>2
  <2>3. \A id \in 1 .. Len(asked) :
           Carries(asked, cut, message, id) => id \in DOMAIN read' \/ DumpMessage(asked, cut, rest, id)
    BY <1>6
  <2>4. DOMAIN read \subseteq DOMAIN read'
    BY <1>4
  <2> QED
    BY <2>1, <2>2, <2>3, <2>4, CoveredNext
<1>8. CommandType'
  BY <1>1, <1>2 DEF CommandInv, CommandType
<1>9. Flow(wire, recvbuf, fullline, M)' /\ Covered(Pool(M), asked, cut, DOMAIN read)'
  BY <1>1, <1>3, <1>5, <1>7
<1>10. ReadAsAsked(asked, cut, read)'
  <2>1. ReadAsAsked(asked, cut, read)
    BY DEF CommandInv
  <2>2. CASE read' = read
    BY <1>1, <2>1, <2>2
  <2>3. CASE runs /\ read' = [i \in DOMAIN read \cup {n} |-> IF i = n THEN p ELSE read[i]]
    <3>1. ASSUME NEW id \in DOMAIN read' \ {0}
          PROVE  id \in 1 .. Len(asked) /\ (id \notin cut => read'[id] = Meant(asked[id]))
      <4>1. CASE id = n
        BY <1>2, <2>3, <4>1
      <4>2. CASE id # n
        BY <2>1, <2>3, <4>2 DEF ReadAsAsked
      <4> QED
        BY <4>1, <4>2
    <3>2. ReadAsAsked(asked, cut, read')
      BY <3>1 DEF ReadAsAsked
    <3> QED
      BY <1>1, <3>2
  <2> QED
    BY <1>1, <2>2, <2>3
<1> QED
  BY <1>8, <1>9, <1>10 DEF CommandInv

\* Every step keeps the invariant.
LEMMA StepCommand == OrdinaryTexts /\ CommandInv /\ [Next]_vars => CommandInv'
<1> SUFFICES ASSUME OrdinaryTexts, CommandInv, [Next]_vars PROVE CommandInv'
  OBVIOUS
<1>1. CASE \E d \in Fields : Click(d)
  BY <1>1, ClickStep
<1>2. CASE \E d \in Fields, e \in Ends : TypeDump(d, e)
  BY <1>2, TypeDumpStep
<1>3. CASE \E t \in Typed, e \in Ends : TypeOther(t, e)
  BY <1>3, TypeOtherStep
<1>4. CASE \E n \in RECV : Recv(n)
  BY <1>4, RecvStep
<1>5. CASE Assemble
  BY <1>5, AssembleStep
<1>6. CASE Take
  BY <1>6, TakeStep
<1>7. CASE ExecOther \/ ExecDump
  BY <1>7, ExecStep
<1>8. CASE UNCHANGED vars
  BY <1>8 DEF vars, CommandInv, CommandType, Pool
<1> QED
  BY <1>1, <1>2, <1>3, <1>4, <1>5, <1>6, <1>7, <1>8 DEF Next

\* A dump whose message was not cut runs with the parameters it was asked
\* with, for ordinary texts, however long the lines are and however the sockets
\* cut them, and no dump runs that nobody asked for.
THEOREM ParamsAsSentCorrect == ASSUME OrdinaryTexts PROVE Spec => []ParamsAsSent
<1>1. ASSUME CommandInv PROVE ParamsAsSent
  <2>1. ReadAsAsked(asked, cut, read) /\ asked \in Seq(Ordinary)
    BY <1>1 DEF CommandInv, CommandType, Asking
  <2> SUFFICES ASSUME NEW id \in DOMAIN read \ ({0} \cup cut)
               PROVE  id \in DOMAIN asked /\ read[id] = Meant(asked[id])
    BY DEF ParamsAsSent, Meant
  <2>2. DOMAIN asked = 1 .. Len(asked)
    BY <2>1
  <2> QED
    BY <2>1, <2>2 DEF ReadAsAsked
<1>2. CommandInv /\ [Next]_vars => CommandInv'
  BY StepCommand
<1> QED
  BY <1>1, <1>2, InitCommand, PTL DEF Spec

\* When nothing is left on the way, every dump asked for has been run, also
\* those whose line was too long for a message.
THEOREM AllRunCorrect == ASSUME OrdinaryTexts PROVE Spec => []AllRun
<1>1. ASSUME CommandInv PROVE AllRun
  <2> SUFFICES ASSUME wire = <<>>, recvbuf = <<>>, ring = <<>>, message = <<>>,
                      NEW id \in DOMAIN asked
               PROVE  id \in DOMAIN read
    BY DEF AllRun
  <2>1. PICK M : Flow(wire, recvbuf, fullline, M) /\ Covered(Pool(M), asked, cut, DOMAIN read)
    BY <1>1 DEF CommandInv
  <2>2. Asking(asked) /\ id \in 1 .. Len(asked)
    BY <1>1 DEF CommandInv, CommandType, Asking
  <2>3. M = {}
    BY <2>1 DEF Flow
  <2>4. Len(ring) = 0
    OBVIOUS
  <2>5. Pool(M) = {<<>>}
    BY <2>3, <2>4 DEF Pool
  <2>6. ~Carries(asked, cut, <<>>, id)
    BY <2>2, Carried
  <2> QED
    BY <2>1, <2>2, <2>5, <2>6 DEF Covered
<1>2. CommandInv /\ [Next]_vars => CommandInv'
  BY StepCommand
<1> QED
  BY <1>1, <1>2, InitCommand, PTL DEF Spec

-----------------------------------------------------------------------------
(* Texts, whatever they hold                                                *)

\* First is one of them, and the least.
LEMMA FirstIn ==
  ASSUME NEW S \in SUBSET Nat, S # {}
  PROVE  First(S) \in S /\ \A j \in S : First(S) <= j
<1>1. PICK k \in S : \A j \in S : ~ (<<j, k>> \in OpToRel(<, Nat))
  BY WFMin, NatLessThanWellFounded
<1>2. \A j \in S : k <= j
  <2>1. \A j \in S : j \in Nat /\ k \in Nat /\ ~(j < k)
    BY <1>1 DEF OpToRel
  <2> QED
    BY <2>1
<1>3. S \in SUBSET Int
  OBVIOUS
<1>4. First(S) = k
  BY <1>2, <1>3, FirstIs
<1> QED
  BY <1>1, <1>2, <1>4

\* The next word and a parameter end within the line.
LEMMA Within ==
  ASSUME NEW l \in Text, NEW o \in 1 .. Len(l) + 1
  PROVE  get_next_word(l, o) \in o .. Len(l) + 1 /\ copy_param(l, o) \in o .. Len(l) + 1
<1>1. Len(l) \in Nat /\ At(l, Len(l) + 1) = "nul"
  BY AtIs DEF Text
<1>2. is_end_line("nul")
  BY DEF is_end_line
<1> DEFINE S == {i \in o .. Len(l) + 1 : is_end_line(At(l, i)) \/ At(l, i) # "sp"}
           T == {i \in o .. Len(l) + 1 :
                   \/ is_end_line(At(l, i)) /\ ~(InQuotes(l, o, i) /\ At(l, i) = "#")
                   \/ is_space(At(l, i)) /\ ~InQuotes(l, o, i)}
<1>3. S \in SUBSET Nat /\ T \in SUBSET Nat
  BY <1>1
<1>4. Len(l) + 1 \in S /\ Len(l) + 1 \in T
  BY <1>1, <1>2
<1>5. S \subseteq o .. Len(l) + 1 /\ T \subseteq o .. Len(l) + 1
  OBVIOUS
<1>6. get_next_word(l, o) = First(S) /\ copy_param(l, o) = First(T)
  BY DEF get_next_word, copy_param
<1> HIDE DEF S, T
<1>7. First(S) \in S /\ First(T) \in T
  BY <1>3, <1>4, FirstIn
<1> QED
  BY <1>5, <1>6, <1>7

\* A parameter begins within the line.
LEMMA OffsetWithin ==
  ASSUME NEW l \in Text, NEW p \in 1 .. 6
  PROVE  get_param_offset(l, p) \in {-1} \cup 1 .. Len(l) + 1
<1> DEFINE Where == {-1} \cup 1 .. Len(l) + 1
           F(o) == Following(l, o)
           w == [k \in 0 .. 6 |->
                   CASE k = 0 -> get_next_word(l, 1)
                     [] k = 1 -> F(get_next_word(l, 1))
                     [] k = 2 -> F(F(get_next_word(l, 1)))
                     [] k = 3 -> F(F(F(get_next_word(l, 1))))
                     [] k = 4 -> F(F(F(F(get_next_word(l, 1)))))
                     [] k = 5 -> F(F(F(F(F(get_next_word(l, 1))))))
                     [] k = 6 -> F(F(F(F(F(F(get_next_word(l, 1)))))))]
<1>1. Len(l) \in Nat
  BY DEF Text
<1>2. \A o \in Where : F(o) \in Where
  <2> SUFFICES ASSUME NEW o \in Where PROVE F(o) \in Where
    OBVIOUS
  <2>1. CASE o = -1
    BY <2>1 DEF Following
  <2>2. CASE o # -1
    <3>1. o \in 1 .. Len(l) + 1
      BY <2>2
    <3>2. copy_param(l, o) \in 1 .. Len(l) + 1
      BY <1>1, <3>1, Within
    <3>3. get_next_word(l, copy_param(l, o)) \in 1 .. Len(l) + 1
      BY <1>1, <3>2, Within
    <3> QED
      BY <3>3 DEF Following
  <2> QED
    BY <2>1, <2>2
<1>3. get_next_word(l, 1) \in Where
  BY <1>1, Within
<1> HIDE DEF F, Where
<1>4. /\ w[0] = get_next_word(l, 1) /\ w[1] = F(w[0]) /\ w[2] = F(w[1]) /\ w[3] = F(w[2])
      /\ w[4] = F(w[3]) /\ w[5] = F(w[4]) /\ w[6] = F(w[5])
  OBVIOUS
<1> HIDE DEF w
<1>5. \A k \in 1 .. p : w[k] = Following(l, w[k - 1])
  <2> SUFFICES ASSUME NEW k \in 1 .. 6 PROVE w[k] = F(w[k - 1])
    BY DEF F
  <2>1. k \in {1, 2, 3, 4, 5, 6}
    OBVIOUS
  <2> QED
    BY <1>4, <2>1
<1>6. get_param_offset(l, p) = w[p]
  BY <1>4, <1>5, Offsets
<1>7. \A k \in {1, 2, 3, 4, 5, 6} : w[k] \in Where
  BY <1>2, <1>3, <1>4
<1>8. p \in {1, 2, 3, 4, 5, 6}
  OBVIOUS
<1> QED
  BY <1>6, <1>7, <1>8 DEF Where

\* A text without its quotes is a text.
LEMMA UnquotedText ==
  ASSUME NEW s \in Text
  PROVE  Unquoted(s) \in Text
<1> DEFINE kept    == {i \in 1 .. Len(s) : s[i] # "quote"}
           upto(i) == {j \in kept : j <= i}
           rank(i) == Cardinality(upto(i))
<1>1. Len(s) \in Nat /\ \A i \in 1 .. Len(s) : s[i] \in Symbols
  BY DEF Text
<1>2. Unquoted(s) = [n \in 1 .. Cardinality(kept) |-> s[CHOOSE i \in kept : rank(i) = n]]
  BY DEF Unquoted
<1>3. IsFiniteSet(kept) /\ Cardinality(kept) \in Nat
  <2>1. IsFiniteSet(1 .. Len(s))
    BY <1>1, FS_Interval
  <2> QED
    BY <2>1, FS_Subset, FS_CardinalityType
<1>4. \A i : IsFiniteSet(upto(i)) /\ rank(i) \in Nat
  BY <1>3, FS_Subset, FS_CardinalityType
<1>5. upto(Len(s)) = kept /\ upto(0) = {}
  BY <1>1
<1>6. \A i \in 1 .. Len(s) : /\ i \in kept => upto(i) = upto(i - 1) \cup {i}
                             /\ i \notin kept => upto(i) = upto(i - 1)
  <2> SUFFICES ASSUME NEW i \in 1 .. Len(s)
               PROVE  /\ i \in kept => upto(i) = upto(i - 1) \cup {i}
                      /\ i \notin kept => upto(i) = upto(i - 1)
    OBVIOUS
  <2>1. \A j \in kept : j \in Int
    OBVIOUS
  <2> HIDE DEF kept
  <2>2. \A j \in kept : j <= i <=> j <= i - 1 \/ j = i
    BY <2>1
  <2> QED
    BY <2>1, <2>2
<1>7. kept \subseteq 1 .. Len(s)
  OBVIOUS
<1> HIDE DEF kept, upto
<1>8. \A i \in 1 .. Len(s) : rank(i) <= rank(i - 1) + 1 /\ (i \notin kept => rank(i) = rank(i - 1))
  <2> SUFFICES ASSUME NEW i \in 1 .. Len(s)
               PROVE  rank(i) <= rank(i - 1) + 1 /\ (i \notin kept => rank(i) = rank(i - 1))
    OBVIOUS
  <2>1. IsFiniteSet(upto(i - 1)) /\ Cardinality(upto(i - 1)) \in Nat
    BY <1>4
  <2>2. Cardinality(upto(i - 1) \cup {i}) <= Cardinality(upto(i - 1)) + 1
    <3> DEFINE U == upto(i - 1)
    <3> HIDE DEF U
    <3>1. IsFiniteSet(U) /\ Cardinality(U) \in Nat
      BY <2>1 DEF U
    <3>2. Cardinality(U \cup {i}) = IF i \in U THEN Cardinality(U) ELSE Cardinality(U) + 1
      BY <3>1, FS_AddElement, Zenon
    <3>3. Cardinality(U \cup {i}) <= Cardinality(U) + 1
      BY <3>1, <3>2
    <3> QED
      BY <3>3 DEF U
  <2>3. i \notin kept => Cardinality(upto(i)) = Cardinality(upto(i - 1))
    BY <1>6
  <2>4. i \in kept => Cardinality(upto(i)) <= Cardinality(upto(i - 1)) + 1
    BY <1>6, <2>2
  <2> QED
    BY <2>1, <2>3, <2>4
<1>9. rank(Len(s)) = Cardinality(kept) /\ rank(0) = 0
  BY <1>5, FS_EmptySet
<1>10. \A i : rank(i) \in Nat
  BY <1>4
<1> HIDE DEF rank
<1>11. ASSUME NEW n \in 1 .. Cardinality(kept) PROVE \E i \in kept : rank(i) = n
  <2> DEFINE C == {i \in 1 .. Len(s) : n <= rank(i)}
             k == First(C)
  <2>1. Len(s) \in C
    <3>1. Len(s) # 0
      BY <1>3, <1>9
    <3> QED
      BY <1>1, <1>9, <3>1
  <2>2. C \in SUBSET Nat
    BY <1>1
  <2>3. k \in C /\ \A j \in C : k <= j
    <3> HIDE DEF C
    <3> QED
      BY <2>1, <2>2, FirstIn
  <2>4. k \in 1 .. Len(s) /\ n <= rank(k)
    BY <2>3
  <2>5. k - 1 = 0 \/ k - 1 \in 1 .. Len(s)
    BY <1>1, <2>4
  <2>6. rank(k - 1) < n
    <3>1. CASE k - 1 = 0
      BY <1>9, <3>1
    <3>2. CASE k - 1 \in 1 .. Len(s)
      <4>1. k - 1 \notin C
        <5> HIDE DEF C, k
        <5> QED
          BY <1>1, <2>3, <2>4, <3>2
      <4> QED
        BY <1>10, <3>2, <4>1
    <3> QED
      BY <2>5, <3>1, <3>2
  <2> HIDE DEF C, k
  <2>7. rank(k) \in Nat /\ rank(k - 1) \in Nat /\ rank(k) <= rank(k - 1) + 1
        /\ (k \notin kept => rank(k) = rank(k - 1))
    BY <1>8, <1>10, <2>4
  <2>8. rank(k) = n /\ k \in kept
    BY <2>4, <2>6, <2>7
  <2> QED
    BY <2>8
<1>12. \A n \in 1 .. Cardinality(kept) : s[CHOOSE i \in kept : rank(i) = n] \in Symbols
  <2> SUFFICES ASSUME NEW n \in 1 .. Cardinality(kept)
               PROVE  s[CHOOSE i \in kept : rank(i) = n] \in Symbols
    OBVIOUS
  <2>1. (CHOOSE i \in kept : rank(i) = n) \in kept
    BY <1>11
  <2> QED
    BY <1>1, <1>7, <2>1
<1> DEFINE N == Cardinality(kept)
           e(n) == s[CHOOSE i \in kept : rank(i) = n]
<1>13. N \in Nat /\ (\A n \in 1 .. N : e(n) \in Symbols) /\ Unquoted(s) = [n \in 1 .. N |-> e(n)]
  BY <1>2, <1>3, <1>12
<1> HIDE DEF N, e
<1> QED
  BY <1>13 DEF Text

\* A parameter is a text.
LEMMA ParamText ==
  ASSUME NEW l \in Text, NEW p \in 1 .. 6
  PROVE  get_param(l, p) \in Text
<1> DEFINE o == get_param_offset(l, p)
<1>1. Len(l) \in Nat /\ o \in {-1} \cup 1 .. Len(l) + 1
  BY OffsetWithin DEF Text
<1> HIDE DEF o
<1>2. CASE o = -1
  BY <1>2, Empty DEF get_param, o
<1>3. CASE o # -1
  <2>1. o \in 1 .. Len(l) + 1
    BY <1>1, <1>3
  <2> DEFINE e == copy_param(l, o)
  <2>2. e \in o .. Len(l) + 1
    BY <2>1, Within
  <2> HIDE DEF e
  <2>3. SubSeq(l, o, e - 1) \in Text
    BY <1>1, <2>1, <2>2 DEF Text
  <2>4. Copied(l, o) \in Text
    BY <2>3, UnquotedText DEF Copied, e
  <2> QED
    BY <1>3, <2>4 DEF get_param, o
<1> QED
  BY <1>2, <1>3

\* What a dump can be told, and what its folder is named from.
Told == [name : Text, comment : Text, index : Numbers,
         mode : {"NONE", "MANUAL", "AUTO"}, comment2 : Text]

\* The parameters of a text are of these.
LEMMA ParametersTold ==
  ASSUME NEW l \in Text
  PROVE  Parameters(l) \in Told
<1>1. /\ get_param(l, 2) \in Text /\ get_param(l, 3) \in Text /\ get_param(l, 6) \in Text
      /\ <<"untitled">> \in Text
  <2>1. "untitled" \in Symbols
    BY ConsoleAssumption
  <2> QED
    BY <2>1, ParamText, OneSymbol
<1>2. atoi(get_param(l, 4)) \in Numbers
  <2>1. 0 \in Numbers
    BY ConsoleAssumption
  <2> QED
    BY <2>1 DEF atoi
<1> QED
  BY <1>1, <1>2 DEF Parameters, Told

\* The line of any form is a text.
LEMMA FormLine ==
  ASSUME NEW d \in Forms, NEW id \in Numbers
  PROVE  DumpLine(id, d) \in Text
<1> DEFINE x1 == <<"dump", "sp", Numeral[id], "sp">>
           x2 == <<"sp">>
           x3 == <<"sp", Numeral[d.index], "sp", d.mode, "sp">>
<1>1. \A t \in Text : Quoted(t) \in Text
  BY OneSymbol, Known, Joined DEF Quoted, Marks
<1>2. d.name \in Text /\ d.comment \in Text /\ d.comment2 \in Text
  BY DEF Forms
<1>3. /\ "dump" \in Symbols /\ "sp" \in Symbols /\ Numeral[id] \in Symbols
      /\ Numeral[d.index] \in Symbols /\ d.mode \in Symbols
  BY Known DEF Forms, Marks
<1>4. x1 \in Text /\ x2 \in Text /\ x3 \in Text
  BY <1>3 DEF Text
<1> DEFINE q1 == Quoted(d.name)
           q2 == Quoted(d.comment)
           q3 == Quoted(d.comment2)
<1>5. q1 \in Text /\ q2 \in Text /\ q3 \in Text
  BY <1>1, <1>2
<1>6. DumpLine(id, d) = x1 \o q1 \o x2 \o q2 \o x3 \o q3
  BY DEF DumpLine
<1> HIDE DEF x1, x2, x3, q1, q2, q3
<1>7. x1 \o q1 \o x2 \o q2 \o x3 \o q3 \in Text
  <2>1. x1 \o q1 \in Text
    BY <1>4, <1>5, Joined
  <2>2. x1 \o q1 \o x2 \in Text
    BY <1>4, <2>1, Joined
  <2>3. x1 \o q1 \o x2 \o q2 \in Text
    BY <1>5, <2>2, Joined
  <2>4. x1 \o q1 \o x2 \o q2 \o x3 \in Text
    BY <1>4, <2>3, Joined
  <2> QED
    BY <1>5, <2>4, Joined
<1> QED
  BY <1>6, <1>7

\* What is on its way is text, whatever was sent.
TextInv ==
  /\ asked \in Seq(Forms)
  /\ wire \in Text /\ recvbuf \in Text /\ fullline \in Text /\ message \in Text
  /\ ring \in Seq(Text)

\* A message more is one more text.
LEMMA Pushed ==
  ASSUME ring \in Seq(Text), NEW m \in Text, Push(m)
  PROVE  ring' \in Seq(Text)
<1>1. MSG - 1 \in Nat
  BY ConsoleAssumption
<1>2. AtMost(m, MSG - 1) \in Text
  BY <1>1, CutTo
<1> DEFINE a == AtMost(m, MSG - 1)
<1>3. a \in Text /\ ring' = Append(ring, a)
  BY <1>2 DEF Push
<1> HIDE DEF a
<1> QED
  BY <1>3

\* A line end is text.
LEMMA EndText == \A e \in Ends : e \in Text
<1>1. <<"nl">> \in Text /\ <<"cr", "nl">> \in Text
  BY Known DEF Text, Marks
<1> QED
  BY <1>1, ConsoleAssumption

\* A number for the next command.
LEMMA NextId ==
  ASSUME asked \in Seq(Forms), Len(asked) < MaxDumps
  PROVE  Len(asked) + 1 \in Numbers
<1>1. Len(asked) \in Nat /\ MaxDumps \in Nat
  BY ConsoleAssumption
<1>2. Len(asked) + 1 \in 1 .. MaxDumps
  BY <1>1
<1> QED
  BY <1>2, ConsoleAssumption

\* A form's fields, with an index the page gives.
LEMMA FormOne ==
  ASSUME NEW d \in Forms
  PROVE  [d EXCEPT !.index = 1] \in Forms
<1>1. 1 \in Numbers \ {0}
  BY ConsoleAssumption
<1> QED
  BY <1>1 DEF Forms

\* What a click or a dump typed asks for.
LEMMA Filling ==
  ASSUME asked \in Seq(Forms), NEW d \in Forms, NEW line, Fill(d, line)
  PROVE  asked' \in Seq(Forms)
BY DEF Fill

LEMMA TextStep == TextInv /\ [Next]_vars => TextInv'
<1> SUFFICES ASSUME TextInv, [Next]_vars PROVE TextInv'
  OBVIOUS
<1> USE DEF TextInv
<1>1. ASSUME NEW d \in Fields, Click(d) PROVE TextInv'
  <2> DEFINE e == IF d.mode = "AUTO" THEN [d EXCEPT !.index = 1] ELSE d
             n == Len(asked) + 1
             m == <<"dump_time", "sp", "800", "nl">> \o DumpLine(n, e) \o <<"nl">>
  <2>1. /\ Len(asked) < MaxDumps /\ Push(m) /\ Fill(e, m)
        /\ UNCHANGED <<wire, recvbuf, fullline, message, others, read, disk>>
    BY <1>1 DEF Click
  <2>2. e \in Forms
    BY ConsoleAssumption, FormOne
  <2>3. n \in Numbers
    BY <2>1, NextId
  <2> HIDE DEF e, n
  <2>4. DumpLine(n, e) \in Text
    BY <2>2, <2>3, FormLine
  <2>5. <<"dump_time", "sp", "800", "nl">> \in Text /\ <<"nl">> \in Text
    BY Known DEF Text, Marks
  <2>6. m \in Text
    BY <2>4, <2>5, Joined
  <2> HIDE DEF m
  <2> QED
    BY <2>1, <2>2, <2>6, Pushed, Filling
<1>2. ASSUME NEW d \in Fields, NEW e \in Ends, TypeDump(d, e) PROVE TextInv'
  <2> DEFINE n == Len(asked) + 1
             line == DumpLine(n, d)
  <2>1. /\ Len(asked) < MaxDumps /\ wire' = line \o e /\ Fill(d, line)
        /\ UNCHANGED <<recvbuf, fullline, ring, message, others, read, disk>>
    BY <1>2 DEF TypeDump
  <2>2. d \in Forms /\ e \in Text
    BY ConsoleAssumption, EndText
  <2>3. line \in Text
    BY <2>1, <2>2, NextId, FormLine
  <2> HIDE DEF line
  <2>4. line \o e \in Text
    BY <2>2, <2>3, Joined
  <2> QED
    BY <2>1, <2>2, <2>4, Filling
<1>3. ASSUME NEW t \in Typed, NEW e \in Ends, TypeOther(t, e) PROVE TextInv'
  <2>1. t \in Text /\ e \in Text
    BY ConsoleAssumption, EndText
  <2>2. t \o e \in Text
    BY <2>1, Joined
  <2> QED
    BY <1>3, <2>2 DEF TypeOther
<1>4. ASSUME NEW n \in RECV, Recv(n) PROVE TextInv'
  <2>1. n \in Nat \ {0} /\ Len(wire) \in Nat
    BY ConsoleAssumption DEF Text
  <2>2. AtMost(wire, n) \in Text
    BY <2>1, CutTo
  <2>3. SubSeq(wire, n + 1, Len(wire)) \in Text
    BY <2>1 DEF Text
  <2> QED
    BY <1>4, <2>2, <2>3 DEF Recv
<1>5. CASE Assemble
  <2> DEFINE line == AtMost(fullline \o Line(recvbuf), LINE)
  <2>1. Line(recvbuf) \in Text /\ After(recvbuf) \in Text
    BY LineText
  <2>2. fullline \o Line(recvbuf) \in Text
    BY <2>1, Joined
  <2>3. line \in Text
    BY <2>2, CutTo, ConsoleAssumption
  <2>4. /\ (Push(line) /\ fullline' = <<>>) \/ (fullline' = line /\ UNCHANGED ring)
        /\ recvbuf' = After(recvbuf)
        /\ UNCHANGED <<asked, cut, wire, message, others, read, disk>>
    BY <1>5 DEF Assemble
  <2> HIDE DEF line
  <2>5. ring' \in Seq(Text) /\ fullline' \in Text
    BY <2>3, <2>4, Pushed, Empty
  <2> QED
    BY <2>1, <2>4, <2>5
<1>6. CASE Take
  BY <1>6 DEF Take
<1>7. CASE ExecOther \/ ExecDump
  <2>1. /\ message' = After(message)
        /\ UNCHANGED <<asked, cut, wire, recvbuf, fullline, ring, others>>
    BY <1>7 DEF ExecOther, ExecDump
  <2> QED
    BY <2>1, LineText
<1>8. CASE UNCHANGED vars
  BY <1>8 DEF vars
<1> QED
  BY <1>1, <1>2, <1>3, <1>4, <1>5, <1>6, <1>7, <1>8 DEF Next

-----------------------------------------------------------------------------
(* The names of folders                                                     *)

\* Names are of the symbols of texts, and one for those that are forbidden.
Letters == Symbols \cup {"_"}
Name    == Seq(Letters)

LEMMA EmptyName == <<>> \in Name /\ Len(<<>>) = 0 /\ \A s \in Name : (s = <<>> <=> Len(s) = 0) /\ Len(s) \in Nat
BY DEF Name

\* Names one after the other.
LEMMA JoinedName ==
  ASSUME NEW x \in Name, NEW y \in Name
  PROVE  /\ x \o y \in Name /\ Len(x \o y) = Len(x) + Len(y)
         /\ Len(x) \in Nat /\ Len(y) \in Nat
         /\ \A i \in 1 .. Len(x) : (x \o y)[i] = x[i]
         /\ \A i \in 1 .. Len(y) : (x \o y)[Len(x) + i] = y[i]
BY DEF Name

\* What follows the same name is the same, when the whole is,
LEMMA SameTail ==
  ASSUME NEW n \in Name, NEW x \in Name, NEW y \in Name, n \o x = n \o y
  PROVE  x = y
<1>1. /\ Len(n \o x) = Len(n) + Len(x) /\ Len(n \o y) = Len(n) + Len(y)
      /\ Len(n) \in Nat /\ Len(x) \in Nat /\ Len(y) \in Nat
      /\ \A i \in 1 .. Len(x) : (n \o x)[Len(n) + i] = x[i]
      /\ \A i \in 1 .. Len(y) : (n \o y)[Len(n) + i] = y[i]
  BY JoinedName
<1>2. Len(x) = Len(y)
  BY <1>1
<1>3. \A i \in 1 .. Len(x) : x[i] = y[i]
  BY <1>1, <1>2
<1> QED
  BY <1>2, <1>3 DEF Name

\* and what goes before the same one.
LEMMA SameHead ==
  ASSUME NEW n \in Name, NEW m \in Name, NEW x \in Name, NEW y \in Name,
         x \o n = y \o m, Len(n) = Len(m)
  PROVE  x = y /\ n = m
<1>1. /\ Len(x \o n) = Len(x) + Len(n) /\ Len(y \o m) = Len(y) + Len(m)
      /\ Len(n) \in Nat /\ Len(x) \in Nat /\ Len(y) \in Nat
      /\ \A i \in 1 .. Len(x) : (x \o n)[i] = x[i]
      /\ \A i \in 1 .. Len(y) : (y \o m)[i] = y[i]
  BY JoinedName
<1>2. Len(x) = Len(y)
  BY <1>1
<1>3. \A i \in 1 .. Len(x) : x[i] = y[i]
  BY <1>1, <1>2
<1>4. x = y
  BY <1>2, <1>3 DEF Name
<1> QED
  BY <1>4, SameTail

\* A text is cleaned to a name.
LEMMA CleanName ==
  ASSUME NEW t \in Text
  PROVE  Clean(t) \in Name
<1> DEFINE K == {k \in 0 .. Len(t) : k = Len(t) \/ t[Len(t) - k] # "sp"}
           m == Len(t) - First(K)
           u == Trimmed(t)
<1>1. Len(t) \in Nat
  BY DEF Text
<1>2. First(K) \in 0 .. Len(t)
  <2>1. Len(t) \in K /\ K \in SUBSET Nat /\ K \subseteq 0 .. Len(t)
    BY <1>1
  <2> HIDE DEF K
  <2>2. First(K) \in K
    BY <2>1, FirstIn
  <2> QED
    BY <2>1, <2>2
<1>3. m \in 0 .. Len(t)
  BY <1>1, <1>2
<1>4. u = SubSeq(t, 1, m)
  BY DEF Trimmed
<1> HIDE DEF m, K
<1>5. u \in Text
  BY <1>1, <1>3, <1>4 DEF Text
<1> HIDE DEF u
<1>6. Len(u) \in Nat /\ \A i \in 1 .. Len(u) : u[i] \in Symbols
  BY <1>5 DEF Text
<1>7. Clean(t) = [i \in 1 .. Len(u) |-> IF is_valid_char(u[i]) THEN u[i] ELSE "_"]
  BY DEF Clean, u
<1> DEFINE c(i) == IF is_valid_char(u[i]) THEN u[i] ELSE "_"
<1>8. (\A i \in 1 .. Len(u) : c(i) \in Letters) /\ Clean(t) = [i \in 1 .. Len(u) |-> c(i)]
  BY <1>6, <1>7 DEF Letters
<1> HIDE DEF c
<1> QED
  BY <1>6, <1>8 DEF Name

\* The dash and the digits of an index.
LEMMA IndexName ==
  ASSUME NEW n \in Numbers
  PROVE  /\ <<"-", Padded[n]>> \in Name /\ Len(<<"-", Padded[n]>>) = 2
         /\ <<"-", Padded[n]>>[1] = "-" /\ <<"-", Padded[n]>>[2] = Padded[n]
<1>1. "-" \in Letters /\ Padded[n] \in Letters
  BY ConsoleAssumption DEF Letters
<1> QED
  BY <1>1 DEF Name

\* A comment behind its dash.
LEMMA DashedName ==
  ASSUME NEW c \in Name
  PROVE  /\ Dashed(c) \in Name
         /\ c = <<>> => Dashed(c) = <<>>
         /\ c # <<>> => Len(Dashed(c)) = Len(c) + 1
<1> DEFINE h == <<"-">>
<1>1. h \in Name /\ Len(h) = 1
  <2>1. "-" \in Letters
    BY ConsoleAssumption DEF Letters
  <2> QED
    BY <2>1 DEF Name
<1>2. Dashed(c) = IF c = <<>> THEN <<>> ELSE h \o c
  BY DEF Dashed
<1> HIDE DEF h
<1>3. Len(c) \in Nat
  BY EmptyName
<1>4. h \o c \in Name /\ Len(h \o c) = Len(c) + 1
  <2>1. h \o c \in Name /\ Len(h \o c) = Len(h) + Len(c)
    BY <1>1, JoinedName
  <2> QED
    BY <1>1, <1>3, <2>1
<1> QED
  BY <1>2, <1>4, EmptyName

\* and without it.
LEMMA DashedSame ==
  ASSUME NEW c \in Name, NEW d \in Name, Dashed(c) = Dashed(d)
  PROVE  c = d
<1>1. /\ Len(c) \in Nat /\ Len(d) \in Nat /\ (c = <<>> <=> Len(c) = 0) /\ (d = <<>> <=> Len(d) = 0)
      /\ Len(<<>>) = 0
  BY EmptyName
<1>2. CASE c = <<>> \/ d = <<>>
  BY <1>1, <1>2, DashedName
<1>3. CASE c # <<>> /\ d # <<>>
  <2> DEFINE h == <<"-">>
  <2>1. h \in Name
    <3>1. "-" \in Letters
      BY ConsoleAssumption DEF Letters
    <3> QED
      BY <3>1 DEF Name
  <2>2. Dashed(c) = h \o c /\ Dashed(d) = h \o d
    BY <1>3 DEF Dashed
  <2> HIDE DEF h
  <2> QED
    BY <2>1, <2>2, SameTail
<1> QED
  BY <1>2, <1>3

\* What the folder of a dump is named with.
LEMMA FolderNames ==
  ASSUME NEW p \in Told
  PROVE  /\ Clean(p.name) \in Name /\ Clean(p.comment) \in Name
         /\ Dashed(Clean(p.comment)) \in Name /\ Named(p) \in Name
         /\ \A n \in Numbers : Numbered(p, n) \in Name /\ Numbered(p, n) # <<>>
         /\ Inner(p) \in Name /\ p.index \in Numbers
<1>1. p.name \in Text /\ p.comment \in Text /\ p.index \in Numbers
  BY DEF Told
<1>2. Clean(p.name) \in Name /\ Clean(p.comment) \in Name
  BY <1>1, CleanName
<1>3. Dashed(Clean(p.comment)) \in Name
  BY <1>2, DashedName
<1>4. Named(p) \in Name
  BY <1>2, <1>3, JoinedName DEF Named
<1>5. ASSUME NEW n \in Numbers PROVE Numbered(p, n) \in Name /\ Numbered(p, n) # <<>>
  <2> DEFINE x == <<"-", Padded[n]>>
  <2>1. x \in Name /\ Len(x) = 2
    BY IndexName
  <2>2. Numbered(p, n) = Named(p) \o x
    BY DEF Numbered
  <2> HIDE DEF x
  <2>3. Numbered(p, n) \in Name /\ Len(Numbered(p, n)) = Len(Named(p)) + 2 /\ Len(Named(p)) \in Nat
    <3> DEFINE m == Named(p)
    <3>1. m \in Name
      BY <1>4
    <3> HIDE DEF m
    <3>2. m \o x \in Name /\ Len(m \o x) = Len(m) + Len(x) /\ Len(m) \in Nat
      BY <2>1, <3>1, JoinedName
    <3>3. m \o x \in Name /\ Len(m \o x) = Len(m) + 2 /\ Len(m) \in Nat
      BY <2>1, <3>2
    <3> QED
      BY <2>2, <3>3 DEF m
  <2> DEFINE z == Numbered(p, n)
  <2>4. z \in Name /\ Len(z) # 0
    BY <2>3
  <2> HIDE DEF z
  <2>5. z # <<>>
    BY <2>4, EmptyName
  <2> QED
    BY <2>4, <2>5 DEF z
<1> QED
  BY <1>1, <1>2, <1>3, <1>4, <1>5 DEF Inner

\* Two parts of a path.
LEMMA Pair == ASSUME NEW a, NEW b PROVE Append(<<a>>, b) = <<a, b>>
<1> DEFINE x == Append(<<a>>, b)
           y == <<a, b>>
<1>1. <<a>> \in Seq({a, b}) /\ Len(<<a>>) = 1 /\ <<a>>[1] = a
  OBVIOUS
<1>2. x \in Seq({a, b}) /\ Len(x) = 2 /\ x[1] = a /\ x[2] = b
  BY <1>1
<1>3. y \in Seq({a, b}) /\ Len(y) = 2 /\ y[1] = a /\ y[2] = b
  OBVIOUS
<1> HIDE DEF x, y
<1>4. \A i \in 1 .. 2 : x[i] = y[i]
  BY <1>2, <1>3
<1>5. x = y
  BY <1>2, <1>3, <1>4
<1> QED
  BY <1>5 DEF x, y

\* With a name, the folder is in one of its own.
LEMMA FolderOf ==
  ASSUME NEW p \in Told, Clean(p.name) # <<>>
  PROVE  Folder(p) = <<Clean(p.name), Inner(p)>>
<1>1. Named(p) # <<>>
  <2>1. Len(Named(p)) = Len(Clean(p.name)) + Len(Dashed(Clean(p.comment)))
    BY FolderNames, JoinedName DEF Named
  <2>2. /\ Len(Clean(p.name)) \in Nat /\ Len(Clean(p.name)) # 0
        /\ Len(Dashed(Clean(p.comment))) \in Nat
    BY FolderNames, EmptyName
  <2>3. Len(Named(p)) # 0
    BY <2>1, <2>2
  <2> QED
    BY <2>3, EmptyName
<1>2. Inner(p) # <<>>
  BY <1>1, FolderNames DEF Inner
<1>3. Outer(p) = <<Clean(p.name)>>
  BY DEF Outer
<1>4. Folder(p) = Append(<<Clean(p.name)>>, Inner(p))
  BY <1>2, <1>3 DEF Folder
<1>5. Append(<<Clean(p.name)>>, Inner(p)) = <<Clean(p.name), Inner(p)>>
  BY Pair
<1> QED
  BY <1>4, <1>5

\* A name without index is one with an index only when its comment ends like one.
LEMMA LikeIndex ==
  ASSUME NEW p \in Told, NEW q \in Told, p.mode = "NONE", q.mode # "NONE",
         Clean(p.name) = Clean(q.name), Inner(p) = Inner(q)
  PROVE  ~Clear(p)
<1> DEFINE n == Clean(p.name)
           c == Clean(p.comment)
           d == Dashed(c)
           x == Dashed(Clean(q.comment))
           y == <<"-", Padded[q.index]>>
           h == n \o x
<1>1. n \in Name /\ c \in Name /\ d \in Name /\ x \in Name /\ q.index \in Numbers
  BY FolderNames
<1>2. n \o d = h \o y
  BY DEF Inner, Named, Numbered
<1>3. y \in Name /\ Len(y) = 2 /\ y[1] = "-" /\ y[2] = Padded[q.index]
  BY <1>1, IndexName
<1>4. c # <<>> => d # <<>>
  <2>1. c # <<>> => Len(d) = Len(c) + 1 /\ Len(c) \in Nat
    BY <1>1, DashedName, EmptyName
  <2> HIDE DEF d, c
  <2> QED
    BY <1>1, <2>1, EmptyName
<1>5. c = <<>> => d = <<>>
  BY <1>1, DashedName
<1>6. Clear(p) /\ c # <<>> => ~(d[Len(d) - 1] = "-" /\ \E k \in Numbers : d[Len(d)] = Padded[k])
  BY DEF Clear
<1> HIDE DEF n, c, d, x, y
<1>7. /\ Len(n \o d) = Len(n) + Len(d) /\ Len(n) \in Nat /\ Len(d) \in Nat
      /\ \A i \in 1 .. Len(d) : (n \o d)[Len(n) + i] = d[i]
  BY <1>1, JoinedName
<1>8. h \in Name /\ Len(h) = Len(n) + Len(x) /\ Len(x) \in Nat
  BY <1>1, JoinedName
<1> HIDE DEF h
<1>9. /\ Len(h \o y) = Len(h) + 2 /\ Len(h) \in Nat
      /\ \A i \in 1 .. 2 : (h \o y)[Len(h) + i] = y[i]
  <2>1. /\ Len(h \o y) = Len(h) + Len(y) /\ Len(h) \in Nat
        /\ \A i \in 1 .. Len(y) : (h \o y)[Len(h) + i] = y[i]
    BY <1>3, <1>8, JoinedName
  <2> QED
    BY <1>3, <2>1
<1>10. Len(d) = Len(x) + 2
  BY <1>2, <1>7, <1>8, <1>9
<1>11. (h \o y)[Len(h) + 1] = "-" /\ (h \o y)[Len(h) + 2] = Padded[q.index]
  BY <1>3, <1>9
<1>12. /\ Len(d) - 1 \in 1 .. Len(d) /\ Len(n) + (Len(d) - 1) = Len(h) + 1
       /\ Len(d) \in 1 .. Len(d) /\ Len(n) + Len(d) = Len(h) + 2
  BY <1>7, <1>8, <1>10
<1>13. d[Len(d) - 1] = "-" /\ d[Len(d)] = Padded[q.index]
  BY <1>2, <1>7, <1>11, <1>12
<1>14. d # <<>>
  BY <1>7, <1>8, <1>10, EmptyName
<1> QED
  BY <1>1, <1>5, <1>6, <1>13, <1>14

\* Two dumps of clear names are told the same, when their folders are one.
LEMMA ToldSame ==
  ASSUME NEW p \in Told, NEW q \in Told, Clear(p), Clear(q),
         Clean(p.name) = Clean(q.name), Inner(p) = Inner(q)
  PROVE  Alike(p, q)
<1> DEFINE n == Clean(p.name)
           c == Clean(p.comment)
           e == Clean(q.comment)
<1>1. /\ n \in Name /\ c \in Name /\ e \in Name /\ Dashed(c) \in Name /\ Dashed(e) \in Name
      /\ p.index \in Numbers /\ q.index \in Numbers
  BY FolderNames
<1>2. Named(p) = n \o Dashed(c) /\ Named(q) = n \o Dashed(e)
  BY DEF Named
<1>3. SameName(p, q) <=> c = e
  BY DEF SameName
<1>4. CASE p.mode = "NONE" /\ q.mode = "NONE"
  <2>1. n \o Dashed(c) = n \o Dashed(e)
    BY <1>2, <1>4 DEF Inner
  <2> HIDE DEF n, c, e
  <2>2. c = e
    BY <1>1, <2>1, SameTail, DashedSame
  <2> QED
    BY <1>3, <1>4, <2>2 DEF Alike
<1>5. CASE p.mode # "NONE" /\ q.mode # "NONE"
  <2> DEFINE x == <<"-", Padded[p.index]>>
             y == <<"-", Padded[q.index]>>
  <2>1. x \in Name /\ y \in Name /\ Len(x) = 2 /\ Len(y) = 2
        /\ x[2] = Padded[p.index] /\ y[2] = Padded[q.index]
    BY <1>1, IndexName
  <2>2. Named(p) \o x = Named(q) \o y
    BY <1>5 DEF Inner, Numbered
  <2> HIDE DEF x, y
  <2>3. Named(p) \in Name /\ Named(q) \in Name
    BY FolderNames
  <2>4. Named(p) = Named(q) /\ x = y
    BY <2>1, <2>2, <2>3, SameHead
  <2>5. p.index = q.index
    BY <1>1, <2>1, <2>4, Known
  <2>6. n \o Dashed(c) = n \o Dashed(e)
    BY <1>2, <2>4
  <2> HIDE DEF n, c, e
  <2>7. c = e
    BY <1>1, <2>6, SameTail, DashedSame
  <2> QED
    BY <1>3, <1>5, <2>5, <2>7 DEF Alike
<1>6. CASE p.mode = "NONE" /\ q.mode # "NONE"
  BY <1>6, LikeIndex
<1>7. CASE p.mode # "NONE" /\ q.mode = "NONE"
  BY <1>7, LikeIndex
<1> QED
  BY <1>4, <1>5, <1>6, <1>7

-----------------------------------------------------------------------------
(* What becomes of the folders                                              *)

\* A path is above itself, and so is what a part more is appended to.
LEMMA AboveSelf ==
  ASSUME NEW f \in Seq(Name)
  PROVE  f \in Above(f) /\ \A x \in Name : f \in Above(Append(f, x))
<1>1. Len(f) \in Nat /\ SubSeq(f, 1, Len(f)) = f
  OBVIOUS
<1>2. f \in Above(f)
  <2>1. Len(f) \in 0 .. Len(f)
    BY <1>1
  <2> QED
    BY <1>1, <2>1 DEF Above
<1>3. ASSUME NEW x \in Name PROVE f \in Above(Append(f, x))
  <2> DEFINE g == Append(f, x)
             s == SubSeq(g, 1, Len(f))
  <2>1. g \in Seq(Name) /\ Len(g) = Len(f) + 1 /\ \A i \in 1 .. Len(f) : g[i] = f[i]
    BY <1>1
  <2>2. Len(f) \in 0 .. Len(g)
    BY <1>1, <2>1
  <2>3. s \in Seq(Name) /\ Len(s) = Len(f) /\ \A i \in 1 .. Len(f) : s[i] = g[i]
    <3> HIDE DEF g
    <3> QED
      BY <1>1, <2>1
  <2>4. s \in Above(g)
    BY <2>2 DEF Above
  <2> HIDE DEF g, s
  <2>5. s = f
    BY <1>1, <2>1, <2>3
  <2> QED
    BY <2>4, <2>5 DEF g
<1> QED
  BY <1>2, <1>3

\* The folder of a dump is a path.
LEMMA FolderPath ==
  ASSUME NEW p \in Told
  PROVE  Outer(p) \in Seq(Name) /\ Folder(p) \in Seq(Name) /\ Folder(p) \in Above(Folder(p))
<1>1. Outer(p) \in Seq(Name)
  <2>1. Clean(p.name) \in Name
    BY FolderNames
  <2> DEFINE c == Clean(p.name)
  <2>2. <<c>> \in Seq(Name) /\ <<>> \in Seq(Name)
    BY <2>1
  <2> QED
    BY <2>2 DEF Outer
<1>2. Folder(p) \in Seq(Name)
  <2>1. Inner(p) \in Name
    BY FolderNames
  <2>2. Append(Outer(p), Inner(p)) \in Seq(Name)
    BY <1>1, <2>1
  <2> QED
    BY <1>1, <2>2 DEF Folder
<1> QED
  BY <1>1, <1>2, AboveSelf

\* Where both have a clear name, a folder above another is that one.
LEMMA ClearFolders ==
  ASSUME NEW p \in Told, NEW q \in Told, Clear(p), Clear(q), Folder(p) \in Above(Folder(q))
  PROVE  Alike(p, q)
<1> DEFINE a == Clean(p.name)
           b == Inner(p)
           c == Clean(q.name)
           d == Inner(q)
           f == <<a, b>>
           g == <<c, d>>
<1>1. Folder(p) = f /\ Folder(q) = g
  BY FolderOf DEF Clear
<1>2. a \in Name /\ b \in Name /\ c \in Name /\ d \in Name
  BY FolderNames
<1> HIDE DEF a, b, c, d
<1>3. /\ f \in Seq(Name) /\ Len(f) = 2 /\ f[1] = a /\ f[2] = b
      /\ g \in Seq(Name) /\ Len(g) = 2 /\ g[1] = c /\ g[2] = d
  BY <1>2
<1>4. PICK k \in 0 .. Len(g) : f = SubSeq(g, 1, k)
  BY <1>1 DEF Above
<1> HIDE DEF f, g
<1>5. k \in 0 .. 2 /\ Len(SubSeq(g, 1, k)) = k
  BY <1>3, <1>4
<1>6. k = 2
  BY <1>3, <1>4, <1>5
<1>7. SubSeq(g, 1, 2)[1] = g[1] /\ SubSeq(g, 1, 2)[2] = g[2]
  BY <1>3
<1>8. a = c /\ b = d
  BY <1>3, <1>4, <1>6, <1>7
<1> QED
  BY <1>8, ToldSame DEF a, b, c, d

\* Each folder is that of the dump whose files it has.
DiskInv ==
  \A f \in Present : disk[f].by \in Told /\ Folder(disk[f].by) = f

\* A folder with index, and the search in it.
LEMMA FoundIndex ==
  ASSUME DiskInv, NEW p \in Told, NEW f \in Present,
         SameName(p, disk[f].by), disk[f].by.mode # "NONE", disk[f].by.index <= MaxIndex
  PROVE  disk[f].by.index \in display_info(p)
<1> DEFINE q == disk[f].by
           n == q.index
           x == Numbered(q, n)
<1>1. q \in Told /\ Folder(q) = f
  BY DEF DiskInv
<1>2. n \in Numbers /\ x \in Name /\ x # <<>> /\ Inner(q) = x
  BY <1>1, FolderNames DEF Inner
<1>3. n \in 0 .. MaxIndex
  <2>1. n \in Nat /\ MaxIndex \in Nat
    BY <1>2, ConsoleAssumption
  <2> QED
    BY <2>1
<1>4. f = Append(Outer(q), x)
  BY <1>1, <1>2 DEF Folder
<1>5. Outer(p) = Outer(q) /\ Numbered(p, n) = x
  BY DEF SameName, Outer, Numbered, Named
<1>6. Outer(q) \in Seq(Name) /\ f \in Above(f)
  BY <1>1, FolderPath
<1> HIDE DEF x, n, q
<1>7. f # <<>> /\ f[Len(f)] = x /\ Outer(q) \in Above(f)
  <2>1. Outer(q) \in Above(f)
    BY <1>2, <1>4, <1>6, AboveSelf
  <2>2. Len(Outer(q)) \in Nat /\ Len(f) = Len(Outer(q)) + 1 /\ f[Len(Outer(q)) + 1] = x
    BY <1>2, <1>4, <1>6
  <2>3. f \in Seq(Name)
    BY <1>2, <1>4, <1>6
  <2>4. f # <<>>
    <3>1. Len(<<>>) = 0
      OBVIOUS
    <3> QED
      BY <2>2, <3>1
  <2> QED
    BY <2>1, <2>2, <2>4
<1>8. f \in Dirs
  BY <1>6 DEF Dirs
<1> QED
  BY <1>3, <1>5, <1>7, <1>8 DEF display_info, n, q

\* A set of indexes has a greatest.
LEMMA Greatest ==
  ASSUME NEW S \in SUBSET (0 .. MaxIndex), S # {}
  PROVE  \E i \in S : \A j \in S : j <= i
<1> DEFINE T == {MaxIndex - i : i \in S}
<1>1. MaxIndex \in Nat
  BY ConsoleAssumption
<1>2. T \in SUBSET Nat /\ T # {}
  <2>1. \A i \in S : i \in 0 .. MaxIndex
    OBVIOUS
  <2>2. \A i \in S : MaxIndex - i \in Nat
    BY <1>1, <2>1
  <2>3. PICK i \in S : TRUE
    OBVIOUS
  <2>4. MaxIndex - i \in T
    OBVIOUS
  <2> QED
    BY <2>2, <2>4
<1>3. First(T) \in T /\ \A y \in T : First(T) <= y
  <2> HIDE DEF T
  <2> QED
    BY <1>2, FirstIn
<1>4. PICK i \in S : First(T) = MaxIndex - i
  BY <1>3
<1>5. ASSUME NEW j \in S PROVE j <= i
  <2>1. i \in 0 .. MaxIndex /\ j \in 0 .. MaxIndex
    OBVIOUS
  <2>2. MaxIndex - j \in T
    OBVIOUS
  <2>3. MaxIndex - i <= MaxIndex - j
    BY <1>3, <1>4, <2>2
  <2> QED
    BY <1>1, <2>1, <2>3
<1> QED
  BY <1>5

\* NextIndex goes beyond every index auto mode finds, and is at least 1.
LEMMA NextIndexAbove ==
  ASSUME NEW p \in Told
  PROVE  /\ NextIndex(p) \in Nat /\ \A j \in display_info(p) : j < NextIndex(p)
         /\ MaxIndex \notin display_info(p) => NextIndex(p) \in Numbers
<1> DEFINE found == display_info(p) \cup {0}
           top == CHOOSE i \in found : \A j \in found : j <= i
<1>1. found \in SUBSET (0 .. MaxIndex) /\ found # {}
  BY ConsoleAssumption DEF display_info
<1>2. \E i \in found : \A j \in found : j <= i
  <2> HIDE DEF found
  <2> QED
    BY <1>1, Greatest
<1>3. top \in found /\ top \in Nat /\ top <= MaxIndex /\ \A j \in found : j \in Nat /\ j <= top
  <2> HIDE DEF found
  <2>1. top \in found /\ \A j \in found : j <= top
    BY <1>2
  <2> HIDE DEF top
  <2> QED
    BY <1>1, <2>1
<1>4. p.index \in Numbers /\ p.index \in Nat /\ MaxIndex \in Nat /\ 0 .. MaxIndex \subseteq Numbers
  BY ConsoleAssumption DEF Told
<1>5. NextIndex(p) = IF 1 + top < p.index THEN p.index ELSE 1 + top
  BY DEF NextIndex
<1>6. MaxIndex \notin display_info(p) /\ MaxIndex # 0 => top # MaxIndex
  BY <1>3
<1>7. \A j \in display_info(p) : j \in found
  OBVIOUS
<1>8. MaxIndex \notin display_info(p) => 1 + top \in Numbers
  <2>1. CASE MaxIndex = 0
    <3>1. 1 \in Numbers
      BY ConsoleAssumption
    <3>2. top = 0
      BY <1>3, <2>1
    <3>3. 1 + 0 = 1
      OBVIOUS
    <3> HIDE DEF top, found
    <3> QED
      BY <3>1, <3>2, <3>3
  <2>2. CASE MaxIndex # 0
    <3> HIDE DEF top, found
    <3> QED
      BY <1>3, <1>4, <1>6, <2>2
  <2> QED
    BY <2>1, <2>2
<1> DEFINE m == NextIndex(p)
           k == p.index
<1>9. m = (IF 1 + top < k THEN k ELSE 1 + top) /\ k \in Nat /\ k \in Numbers
  BY <1>4, <1>5
<1> HIDE DEF top, found, m, k
<1>10. m \in Nat /\ top < m /\ (MaxIndex \notin display_info(p) => m \in Numbers)
  BY <1>3, <1>8, <1>9
<1>11. \A j \in display_info(p) : j < m
  <2>1. \A j \in display_info(p) : j \in Nat /\ j <= top
    BY <1>3, <1>7
  <2> QED
    BY <1>3, <1>10, <2>1
<1> QED
  BY <1>10, <1>11 DEF m

\* Every step keeps the folders as DumpsKept says.
Kept ==
  /\ \A g \in DOMAIN disk' : Taken(g) => AutoKeeps(disk'[g].by)
  /\ \A f \in Present : Lost(f) =>
       \E g \in DOMAIN disk' \cap Above(f) :
          Clear(disk'[g].by) /\ Clear(disk[f].by) => Alike(disk'[g].by, disk[f].by)

\* What Make leaves.
Leaves(p, f, kept) ==
  /\ DOMAIN disk' = kept \cup {f} /\ disk'[f].by = p
  /\ \A g \in kept : g # f => disk'[g] = disk[g]

LEMMA Made ==
  ASSUME NEW p, NEW id, NEW kept, kept \subseteq Present, Make(p, id, kept)
  PROVE  Leaves(p, Folder(p), kept)
BY DEF Make, Leaves

\* A folder made again costs none but those below it.
LEMMA AgainKeeps ==
  ASSUME DiskInv, NEW p \in Told, p.mode # "AUTO", NEW id, MakeAgain(p, id)
  PROVE  DiskInv' /\ Kept
<1> DEFINE F    == Folder(p)
           kept == {g \in Present : F \notin Above(g)}
<1>1. Make(p, id, kept)
  BY DEF MakeAgain
<1>2. kept \subseteq Present
  OBVIOUS
<1>3. /\ DOMAIN disk' = kept \cup {F} /\ disk'[F].by = p
      /\ \A g \in kept : g # F => disk'[g] = disk[g]
  <2>1. Leaves(p, Folder(p), kept)
    <3> HIDE DEF kept, F
    <3> QED
      BY <1>1, <1>2, Made
  <2> HIDE DEF kept
  <2> QED
    BY <2>1 DEF Leaves
<1>4. \A g \in Present : g \notin kept => F \in Above(g)
  OBVIOUS
<1>5. F \in Above(F)
  BY FolderPath
<1>6. Folder(p) = F
  OBVIOUS
<1> HIDE DEF F, kept
<1>7. DiskInv'
  <2>1. \A g \in DOMAIN disk' : disk'[g].by \in Told /\ Folder(disk'[g].by) = g
    BY <1>2, <1>3, <1>6 DEF DiskInv
  <2> QED
    BY <2>1 DEF DiskInv, Present, Folder, Inner, Named, Numbered, Outer, Dashed, Clean
<1>8. ASSUME NEW g \in DOMAIN disk', Taken(g) PROVE AutoKeeps(disk'[g].by)
  <2>1. g = F
    BY <1>2, <1>3, <1>8 DEF Taken
  <2> QED
    BY <1>3, <2>1 DEF AutoKeeps
<1>9. ASSUME NEW f \in Present, Lost(f)
      PROVE  \E g \in DOMAIN disk' \cap Above(f) :
               Clear(disk'[g].by) /\ Clear(disk[f].by) => Alike(disk'[g].by, disk[f].by)
  <2>1. F \in Above(f)
    BY <1>3, <1>4, <1>5, <1>9 DEF Lost
  <2>2. disk[f].by \in Told /\ Folder(disk[f].by) = f
    BY DEF DiskInv
  <2>3. Clear(p) /\ Clear(disk[f].by) => Alike(p, disk[f].by)
    BY <1>6, <2>1, <2>2, ClearFolders
  <2> QED
    BY <1>3, <2>1, <2>3
<1> QED
  BY <1>7, <1>8, <1>9 DEF Kept

\* A folder auto mode takes costs none.
LEMMA AutoTakes ==
  ASSUME DiskInv, NEW p \in Told, p.mode = "AUTO", NEW id,
         MaxIndex \notin display_info(p),
         Folder([p EXCEPT !.index = NextIndex(p)]) \notin Dirs,
         Make([p EXCEPT !.index = NextIndex(p)], id, Present)
  PROVE  DiskInv' /\ Kept
<1> DEFINE n == NextIndex(p)
           q == [p EXCEPT !.index = n]
           F == Folder(q)
<1>1. n \in Numbers /\ \A j \in display_info(p) : j < n
  BY NextIndexAbove
<1>2. q \in Told /\ q.mode = "AUTO" /\ q.index = n /\ q.name = p.name /\ q.comment = p.comment
  BY <1>1 DEF Told
<1>3. \A r : SameName(q, r) <=> SameName(p, r)
  BY <1>2 DEF SameName
<1>4. F \notin Dirs /\ Make(q, id, Present) /\ F = Folder(q)
  OBVIOUS
<1> HIDE DEF n, q, F
<1>5. /\ DOMAIN disk' = Present \cup {F} /\ disk'[F].by = q
      /\ \A g \in Present : g # F => disk'[g] = disk[g]
  <2>1. Present \subseteq Present
    OBVIOUS
  <2>2. Make(q, id, Present)
    BY <1>4
  <2>3. Leaves(q, Folder(q), Present)
    BY <2>1, <2>2, Made
  <2>4. Leaves(q, F, Present)
    BY <1>4, <2>3
  <2> QED
    BY <2>4 DEF Leaves
<1>6. \A f \in Present : f \in Dirs
  <2> SUFFICES ASSUME NEW f \in Present PROVE f \in Dirs
    OBVIOUS
  <2>1. f \in Above(f)
    BY FolderPath DEF DiskInv
  <2> QED
    BY <2>1 DEF Dirs
<1>7. \A f \in Present : f # F /\ ~Lost(f)
  BY <1>4, <1>5, <1>6 DEF Lost
<1>8. DiskInv'
  <2>1. \A g \in DOMAIN disk' : disk'[g].by \in Told /\ Folder(disk'[g].by) = g
    BY <1>2, <1>4, <1>5 DEF DiskInv
  <2> QED
    BY <2>1 DEF DiskInv, Present, Folder, Inner, Named, Numbered, Outer, Dashed, Clean
<1>9. AutoKeeps(q)
  <2> SUFFICES ASSUME NEW f \in Present,
                      SameName(q, disk[f].by), disk[f].by.mode # "NONE", disk[f].by.index <= MaxIndex
               PROVE  disk[f].by.index < q.index
    BY <1>7 DEF AutoKeeps
  <2>1. SameName(p, disk[f].by)
    BY <1>3
  <2>2. disk[f].by.index \in display_info(p)
    BY <2>1, FoundIndex
  <2> QED
    BY <1>1, <1>2, <2>2
<1>10. ASSUME NEW g \in DOMAIN disk', Taken(g) PROVE AutoKeeps(disk'[g].by)
  <2>1. g = F
    BY <1>5, <1>7, <1>10 DEF Taken, Lost
  <2> QED
    BY <1>5, <1>9, <2>1
<1> QED
  BY <1>7, <1>8, <1>10 DEF Kept

\* What is on the way is text, and each folder is that of the dump whose files
\* it has.
FolderInv == TextInv /\ DiskInv

\* Folders as they were are of these dumps still.
LEMMA SameDisk == DiskInv /\ UNCHANGED disk => DiskInv'
<1> SUFFICES ASSUME DiskInv, UNCHANGED disk PROVE DiskInv'
  OBVIOUS
<1>1. \A g \in DOMAIN disk' : disk'[g].by \in Told /\ Folder(disk'[g].by) = g
  BY DEF DiskInv, Present
<1> QED
  BY <1>1 DEF DiskInv, Present, Folder, Inner, Named, Numbered, Outer, Dashed, Clean

\* A dump command keeps the folders as Kept says.
LEMMA DumpKeeps == FolderInv /\ ExecDump => DiskInv' /\ (Kept \/ UNCHANGED disk)
<1> SUFFICES ASSUME FolderInv, ExecDump PROVE DiskInv' /\ (Kept \/ UNCHANGED disk)
  OBVIOUS
<1> DEFINE l  == Line(message)
           id == atoi(get_param(l, 1))
           p  == Parameters(l)
<1>1. prepare_folder(p, id)
  BY DEF ExecDump
<1>2. p \in Told
  <2>1. l \in Text
    BY LineText DEF FolderInv, TextInv
  <2> HIDE DEF l
  <2> QED
    BY <2>1, ParametersTold
<1>3. DiskInv
  BY DEF FolderInv
<1> HIDE DEF p, id
<1>4. CASE p.mode # "AUTO" /\ MakeAgain(p, id)
  BY <1>2, <1>3, <1>4, AgainKeeps
<1>5. CASE /\ p.mode = "AUTO" /\ MaxIndex \notin display_info(p)
           /\ Folder([p EXCEPT !.index = NextIndex(p)]) \notin Dirs
           /\ Make([p EXCEPT !.index = NextIndex(p)], id, Present)
  BY <1>2, <1>3, <1>5, AutoTakes
<1>6. CASE UNCHANGED disk
  BY <1>3, <1>6, SameDisk
<1> QED
  BY <1>1, <1>4, <1>5, <1>6 DEF prepare_folder

\* And it is the only action that touches them.
LEMMA FolderStep == FolderInv /\ [Next]_vars => FolderInv' /\ (Kept \/ UNCHANGED disk)
<1> SUFFICES ASSUME FolderInv, [Next]_vars
             PROVE  FolderInv' /\ (Kept \/ UNCHANGED disk)
  OBVIOUS
<1>1. TextInv'
  BY TextStep DEF FolderInv
<1>2. DiskInv' /\ (Kept \/ UNCHANGED disk)
  <2>1. CASE ExecDump
    BY <2>1, DumpKeeps
  <2>2. CASE UNCHANGED disk
    BY <2>2, SameDisk DEF FolderInv
  <2>3. UNCHANGED disk \/ ExecDump
    BY DEF Next, vars, Click, TypeDump, TypeOther, Recv, Assemble, Take, ExecOther
  <2> QED
    BY <2>1, <2>2, <2>3
<1> QED
  BY <1>1, <1>2 DEF FolderInv

\* With the folders as they were, nothing is taken or lost.
LEMMA NothingLost == UNCHANGED disk => Kept
BY DEF Kept, Taken, Lost, Present

\* Auto mode takes a folder that was not there, after all those of its name
\* it can find, and costs no dump its files; in the other modes they make way
\* only for a dump whose folder is theirs or above it, and, where both have a
\* clear name, only for one that was told the same.  For any lines, whole or
\* cut, typed or sent by the page.
THEOREM DumpsKeptCorrect == Spec => DumpsKept
<1>1. Init => FolderInv
  <2> SUFFICES ASSUME Init PROVE FolderInv
    OBVIOUS
  <2>1. <<>> \in Seq(Forms) /\ <<>> \in Seq(Text) /\ <<>> \in Text
    BY Empty
  <2> QED
    BY <2>1 DEF Init, FolderInv, TextInv, DiskInv, Present
<1>2. FolderInv /\ [Next]_vars => FolderInv'
  BY FolderStep
<1>3. ASSUME FolderInv, [Next]_vars
      PROVE  [/\ \A g \in DOMAIN disk' : Taken(g) => AutoKeeps(disk'[g].by)
              /\ \A f \in Present : Lost(f) =>
                   \E g \in DOMAIN disk' \cap Above(f) :
                      Clear(disk'[g].by) /\ Clear(disk[f].by)
                        => Alike(disk'[g].by, disk[f].by)]_vars
  <2>1. Kept
    BY <1>3, FolderStep, NothingLost
  <2> QED
    BY <2>1 DEF Kept
<1> QED
  BY <1>1, <1>2, <1>3, PTL DEF Spec, DumpsKept

=============================================================================
