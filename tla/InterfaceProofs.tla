--------------------------- MODULE InterfaceProofs ---------------------------
(***************************************************************************)
(* What is shown to whom, proved: script_mutex and the threads that use it *)
(* for the preview of the page (ImagePreview), for any number of tracks,   *)
(* settings and pages; and that what a client receives is every line since *)
(* it came, in order (Clients), for any number of lives of WebSocket       *)
(* connections, of rings and of slots, while peers and printer take turns  *)
(* (Calm).                                                                 *)
(***************************************************************************)
EXTENDS Clients, ImagePreview, WellFoundedInduction, TLAPS

-----------------------------------------------------------------------------
(* The preview's mutex                                                      *)

DumpIn   == dump \in {"file", "last", "unlock"}
ScriptIn == script \in {"setView", "setDecoders", "again", "unlock"}

\* Who is in its section holds the mutex.
HolderInv ==
  /\ DumpIn => lock = "dump"
  /\ ScriptIn => lock = "script"
  /\ image = "look" => lock = "image"

LEMMA HolderAlone == Exclusive <=> HolderInv
  BY DEF HolderInv, DumpIn, ScriptIn, Exclusive, InSection

LEMMA AloneNext == Exclusive' <=> HolderInv'
  BY DEF HolderInv, DumpIn, ScriptIn, Exclusive, InSection

\* The pages open and close, and ask, without the mutex.
LEMMA PageKeeps == HolderInv /\ Page => HolderInv'
<1> SUFFICES ASSUME HolderInv, Page PROVE HolderInv'
  OBVIOUS
<1> USE DEF HolderInv, DumpIn, ScriptIn, dumpVars, cmdVars, imageVars
<1>1. ASSUME NEW p \in Pages, OpenPage(p) \/ Link(p) \/ ClosePage(p)
      PROVE  HolderInv'
  BY <1>1 DEF OpenPage, Link, CountPage, LoadCount, UncountPage, ClosePage
<1>2. CASE AskPicture
  BY <1>2 DEF AskPicture
<1>3. CASE MoveSlider
  BY <1>3 DEF MoveSlider
<1>4. ASSUME NEW box \in Boxes, Click(box) PROVE HolderInv'
  BY <1>4 DEF Click
<1> QED
  BY <1>1, <1>2, <1>3, <1>4 DEF Page

\* A thread enters its section with the mutex free, so alone.
LEMMA DumpKeeps == HolderInv /\ Dump => HolderInv'
<1> SUFFICES ASSUME HolderInv, Dump PROVE HolderInv'
  OBVIOUS
<1> USE DEF HolderInv, DumpIn, ScriptIn, cmdVars, imageVars, pageVars
<1>1. CASE CloseTrack
  BY <1>1 DEF CloseTrack
<1>2. CASE LockDump
  BY <1>2 DEF LockDump
<1>3. CASE NameTrack
  BY <1>3 DEF NameTrack
<1>4. CASE NameLast
  BY <1>4 DEF NameLast
<1>5. CASE UnlockDump
  BY <1>5 DEF UnlockDump
<1> QED
  BY <1>1, <1>2, <1>3, <1>4, <1>5 DEF Dump

LEMMA ScriptKeeps == HolderInv /\ Script => HolderInv'
<1> SUFFICES ASSUME HolderInv, Script PROVE HolderInv'
  OBVIOUS
<1> USE DEF HolderInv, DumpIn, ScriptIn, dumpVars, imageVars, pageVars
<1>1. CASE LockScript
  BY <1>1 DEF LockScript
<1>2. CASE SetImagesSettings
  BY <1>2 DEF SetImagesSettings
<1>3. CASE SetImagesDecoders
  BY <1>3 DEF SetImagesDecoders
<1>4. CASE DrawAgain
  BY <1>4 DEF DrawAgain
<1>5. CASE UnlockScript
  BY <1>5 DEF UnlockScript
<1> QED
  BY <1>1, <1>2, <1>3, <1>4, <1>5 DEF Script

\* The image thread unlocks its own mutex, or one that nobody holds in a
\* section unless it intrudes.
LEMMA ImageKeeps == HolderInv /\ ~Intrudes /\ Image => HolderInv'
<1> SUFFICES ASSUME HolderInv, ~Intrudes, Image PROVE HolderInv'
  OBVIOUS
<1> USE DEF HolderInv, DumpIn, ScriptIn, dumpVars, cmdVars, pageVars
<1>1. CASE Top
  BY <1>1 DEF Top
<1>2. CASE UnlockUnheld
  BY <1>2 DEF UnlockUnheld, Intrudes, InSection
<1>3. CASE LockImage
  BY <1>3 DEF LockImage
<1>4. CASE NothingNamed
  BY <1>4 DEF NothingNamed
<1>5. CASE OpenTrack
  BY <1>5 DEF OpenTrack
<1>6. CASE OpenFails
  BY <1>6 DEF OpenFails
<1>7. CASE NoChunk
  BY <1>7 DEF NoChunk
<1>8. CASE Draw
  BY <1>8 DEF Draw
<1>9. CASE BeginPng
  BY <1>9 DEF BeginPng
<1>10. CASE EndPng
  BY <1>10 DEF EndPng
<1> QED
  BY <1>1, <1>2, <1>3, <1>4, <1>5, <1>6, <1>7, <1>8, <1>9, <1>10 DEF Image

LEMMA PreviewKeeps ==
  HolderInv /\ ~Intrudes /\ [PreviewNext]_previewVars => HolderInv'
<1> SUFFICES ASSUME HolderInv, ~Intrudes, [PreviewNext]_previewVars PROVE HolderInv'
  OBVIOUS
<1>1. CASE Page
  BY <1>1, PageKeeps
<1>2. CASE Dump
  BY <1>2, DumpKeeps
<1>3. CASE Script
  BY <1>3, ScriptKeeps
<1>4. CASE Image
  BY <1>4, ImageKeeps
<1>5. ASSUME NEW t \in Removable, RemoveFile(t) PROVE HolderInv'
  BY <1>5 DEF RemoveFile, pageVars, cmdVars, imageVars,
              HolderInv, DumpIn, ScriptIn
<1>6. CASE UNCHANGED previewVars
  BY <1>6 DEF previewVars, HolderInv, DumpIn, ScriptIn
<1> QED
  BY <1>1, <1>2, <1>3, <1>4, <1>5, <1>6 DEF PreviewNext

\* On every path of every thread, an early return that keeps the mutex, an
\* unlock without a lock and the pages' unlocked counting included, exclusion
\* of script_mutex is lost by one step only: the unlock of the image thread
\* that saw no page, while another thread is in its section.
THEOREM ExclusionKeptCorrect == PreviewSpec => ExclusionKept
<1>1. [PreviewNext]_previewVars => (~Intrudes => (Exclusive => Exclusive'))
  BY PreviewKeeps, HolderAlone, AloneNext
<1> QED
  BY <1>1, PTL DEF PreviewSpec, ExclusionKept

\* At most one of the dump, script and image threads is between its lock of
\* script_mutex and its unlock, and that one holds it, for every number of
\* tracks, files removed, clicks and pages, in every run in which that step is
\* not taken.
THEOREM ExclusiveCorrect == PreviewSpec /\ []~Intrudes => []Exclusive
<1>1. PreviewInit => Exclusive
  BY DEF PreviewInit, Exclusive, InSection
<1>2. ~Intrudes /\ Exclusive /\ [PreviewNext]_previewVars => Exclusive'
  BY PreviewKeeps, HolderAlone, AloneNext
<1> QED
  BY <1>1, <1>2, PTL DEF PreviewSpec

-----------------------------------------------------------------------------
(* The clients and their rings                                              *)

\* One printer, and one connection of each TCP port.
OnePrinter    == \A v, w \in Writers : v = w
OneConnection == \A p, q \in Peers : Kind[p] = Kind[q] /\ Kind[p] # "ws" => p = q

\* The printer's work is done as far as ring k goes.
Reached(w, k) ==
  \/ pr[w].pc = "idle"
  \/ pr[w].ring > k
  \/ pr[w].pc = "signal" /\ pr[w].ring = k

\* The last line that is in ring k, or was.
Last(k) == IF \A w \in Writers : Reached(w, k) THEN sent ELSE sent - 1

\* Steps from one index to another, and the index after some steps.
Dist(o, i) == IF i < o THEN i - o + N ELSE i - o
Pos(o, j)  == IF o + j < N THEN o + j ELSE o + j - N

Slots    == 0 .. N - 1
AtWork   == {"look", "test", "take", "step", "send"}
WithRing == {"test", "wait", "take", "step", "send"}
Handles  == BOOLEAN \X (Entries \cup {-1})
Ring     == [enabled : BOOLEAN, handle : Handles,
             in : Slots, out : Slots, text : [Slots -> Nat],
             signalled : BOOLEAN, cancelled : BOOLEAN]

Printer  == [pc : {"idle", "scan", "step", "signal"}, ring : Nat, line : Nat]

\* Ring k is that of peer p; ring k is that of a TCP connection.
Serves(k, p) == rings[k].enabled /\ rings[k].handle = Handle(p)
OfTcp(k)     == rings[k].enabled /\ \E i \in Entries : rings[k].handle = <<FALSE, i>>

TypeInv ==
  /\ conn \in [Peers -> {"new", "open", "leaving", "removing", "gone"}]
  /\ at \in [Peers -> Entries \cup {-1}]
  /\ \A p \in Peers : Holds(p) => at[p] \in Entries
  /\ rings \in [Outs -> Ring]
  /\ tx \in [Peers -> AtWork \cup {"none", "wait", "lost", "end"}]
  /\ idx \in [Peers -> Int] /\ hand \in [Peers -> Nat] /\ got \in [Peers -> Nat]
  /\ pr \in [Writers -> Printer]
  /\ sent \in Nat

\* An entry has one connection.
EntryInv == \A p, q \in Peers :
  Holds(p) /\ Holds(q) /\ Kind[p] = Kind[q] /\ at[p] = at[q] => p = q

\* A ring belongs to one client; that of a WebSocket client goes with it, that
\* of a command connection comes after the data connection has looked for it.
OwnerInv ==
  /\ \A k, l \in Outs :
       rings[k].enabled /\ rings[l].enabled /\ rings[k].handle = rings[l].handle => k = l
  /\ \A k \in Outs : rings[k].enabled =>
       OfTcp(k) \/ \E p \in Peers : Kind[p] = "ws" /\ Holds(p) /\ Serves(k, p)
  /\ \A k \in Outs : OfTcp(k) =>
       \A p \in Peers : /\ Kind[p] \in {"cmd", "data"} => conn[p] # "new"
                        /\ Kind[p] = "data" => tx[p] # "look"

\* What a transmit thread works on.
ThreadInv ==
  \A p \in Peers :
    /\ conn[p] = "new" => tx[p] = "none"
    /\ tx[p] \in AtWork => conn[p] = "open"
    /\ Kind[p] = "data" => tx[p] \in {"none", "look", "lost", "end"}
    /\ tx[p] \in WithRing => idx[p] \in Outs
    /\ tx[p] \in WithRing /\ conn[p] \in {"open", "leaving"} => Serves(idx[p], p)
    /\ tx[p] = "wait" /\ conn[p] \in {"removing", "gone"} => rings[idx[p]].cancelled

\* Nobody prints while somebody leaves.
PauseInv ==
  /\ \A p \in Peers : conn[p] \in {"leaving", "removing"} =>
       \A w \in Writers : pr[w].pc = "idle"
  /\ \A p \in Peers : conn[p] = "leaving" => \A k \in Outs : ~rings[k].signalled
  /\ \A w \in Writers : /\ pr[w].pc # "idle" => pr[w].line = sent /\ sent >= 1
                        /\ pr[w].pc \in {"step", "signal"} =>
                             pr[w].ring \in Outs /\ rings[pr[w].ring].enabled

\* Ring k has room for the line that is being printed, and in its slot already.
RoomInv ==
  \A k \in Outs : rings[k].enabled => \A w \in Writers :
    /\ ~Reached(w, k) => Dist(rings[k].out, rings[k].in) <= N - 2
    /\ pr[w].pc = "step" /\ pr[w].ring = k => rings[k].text[rings[k].in] = sent

\* The last line the client has, or is about to be sent: what its thread has taken.
Had(p) == IF tx[p] = "send" THEN got[p] + 1 ELSE got[p]

\* The ring has the lines after that, in order, to the last.
Holding(k, p) ==
  LET n == Dist(rings[k].out, rings[k].in)
  IN  /\ n = Last(k) - Had(p)
      /\ \A j \in Slots : j < n => rings[k].text[Pos(rings[k].out, j)] = Had(p) + 1 + j

ContentInv ==
  \A p \in Peers, k \in Outs :
    /\ Kind[p] # "data" /\ conn[p] = "open" /\ tx[p] \in AtWork \cup {"wait"}
    /\ Serves(k, p)
    => Holding(k, p)

HandInv ==
  \A p \in Peers :
    /\ tx[p] \in {"step", "send"} => hand[p] = got[p] + 1
    /\ tx[p] \in {"take", "step"} => rings[idx[p]].in # rings[idx[p]].out

IInv == /\ TypeInv /\ EntryInv /\ OwnerInv /\ ThreadInv
        /\ PauseInv /\ RoomInv /\ ContentInv /\ HandInv

-----------------------------------------------------------------------------
(* Indices                                                                  *)

\* A number that is less than n is its own remainder, one less than 2n has
\* gone round once, and one below zero comes back from the end.
LEMMA Remainders ==
  ASSUME NEW n \in Nat \ {0}
  PROVE  /\ \A a \in 0 .. n - 1 : a % n = a
         /\ \A a \in n .. 2 * n - 1 : a % n = a - n
         /\ \A a \in -n .. -1 : a % n = a + n
<1>1. ASSUME NEW a \in 0 .. n - 1 PROVE a % n = a
  BY <1>1, SMT
<1>2. ASSUME NEW a \in n .. 2 * n - 1 PROVE a % n = a - n
  BY <1>2, SMT
<1>3. ASSUME NEW a \in -n .. -1 PROVE a % n = a + n
  BY <1>3, SMT
<1> QED
  BY <1>1, <1>2, <1>3

\* The index after the last is the first.
LEMMA SuccSlot ==
  ASSUME NEW i \in Slots
  PROVE  Succ(i) = (IF i + 1 < N THEN i + 1 ELSE 0) /\ Succ(i) \in Slots
<1>0. N \in Nat \ {0} /\ N >= 2
  BY ClientsAssumption
<1>1. CASE i + 1 < N
  <2>1. i + 1 \in 0 .. N - 1
    BY <1>0, <1>1 DEF Slots
  <2>2. (i + 1) % N = i + 1
    BY <1>0, <2>1, Remainders
  <2> QED
    BY <2>1, <2>2, <1>1 DEF Succ, Slots
<1>2. CASE ~(i + 1 < N)
  <2>1. i + 1 \in N .. 2 * N - 1 /\ i + 1 = N
    BY <1>0, <1>2 DEF Slots
  <2>2. (i + 1) % N = i + 1 - N
    <3> DEFINE a == i + 1
    <3>1. a \in N .. 2 * N - 1
      BY <2>1
    <3>2. a % N = a - N
      <4> HIDE DEF a
      <4> QED
        BY <1>0, <3>1, Remainders
    <3> QED
      BY <3>2, <1>0 DEF a, Slots
  <2> QED
    BY <2>1, <2>2, <1>0, <1>2 DEF Succ, Slots
<1> QED
  BY <1>1, <1>2

\* The number of lines in a ring.
LEMMA CountDist ==
  ASSUME NEW i \in Slots, NEW o \in Slots
  PROVE  /\ (i - o) % N = Dist(o, i) /\ Dist(o, i) \in Slots
         /\ Dist(o, i) = 0 <=> i = o
<1>0. N \in Nat \ {0} /\ N >= 2
  BY ClientsAssumption
<1>1. CASE i < o
  <2>1. i - o \in -N .. -1 /\ i - o + N \in 1 .. N - 1
    BY <1>0, <1>1 DEF Slots
  <2>2. (i - o) % N = i - o + N
    BY <1>0, <2>1, Remainders
  <2> QED
    BY <2>1, <2>2, <1>0, <1>1 DEF Dist, Slots
<1>2. CASE ~(i < o)
  <2>1. i - o \in 0 .. N - 1
    BY <1>0, <1>2 DEF Slots
  <2>2. (i - o) % N = i - o
    BY <1>0, <2>1, Remainders
  <2> QED
    BY <2>1, <2>2, <1>0, <1>2 DEF Dist, Slots
<1> QED
  BY <1>1, <1>2

\* One step of the reader: one line fewer, and each is one place nearer.
LEMMA OutSteps ==
  ASSUME NEW i \in Slots, NEW o \in Slots, i # o
  PROVE  /\ Dist(Succ(o), i) = Dist(o, i) - 1
         /\ \A j \in Slots : j < Dist(o, i) - 1 =>
              j + 1 \in Slots /\ Pos(Succ(o), j) = Pos(o, j + 1)
<1>0. N \in Nat \ {0} /\ N >= 2
  BY ClientsAssumption
<1>1. Succ(o) = (IF o + 1 < N THEN o + 1 ELSE 0)
  BY SuccSlot
<1>2. Dist(Succ(o), i) = Dist(o, i) - 1
  BY <1>0, <1>1 DEF Dist, Slots
<1>3. ASSUME NEW j \in Slots, j < Dist(o, i) - 1
      PROVE  j + 1 \in Slots /\ Pos(Succ(o), j) = Pos(o, j + 1)
  <2>1. Dist(o, i) \in Slots
    BY CountDist
  <2>2. j + 1 \in Slots
    BY <1>0, <1>3, <2>1 DEF Slots
  <2>3. Pos(Succ(o), j) = Pos(o, j + 1)
    BY <1>0, <1>1, <2>2 DEF Pos, Slots
  <2> QED
    BY <2>2, <2>3
<1> QED
  BY <1>2, <1>3

\* One step of the printer, while there is room: one line more, in the slot
\* that is the next from the reader.
LEMMA InSteps ==
  ASSUME NEW i \in Slots, NEW o \in Slots, Dist(o, i) <= N - 2
  PROVE  /\ Succ(i) # o
         /\ Dist(o, Succ(i)) = Dist(o, i) + 1
         /\ Pos(o, Dist(o, i)) = i
         /\ \A j \in Slots : j < Dist(o, i) => Pos(o, j) # i
<1>0. N \in Nat \ {0} /\ N >= 2
  BY ClientsAssumption
<1>1. Succ(i) = (IF i + 1 < N THEN i + 1 ELSE 0)
  BY SuccSlot
<1>2. Succ(i) # o /\ Dist(o, Succ(i)) = Dist(o, i) + 1
  BY <1>0, <1>1 DEF Dist, Slots
<1>3. Pos(o, Dist(o, i)) = i
  BY <1>0 DEF Dist, Pos, Slots
<1>4. ASSUME NEW j \in Slots, j < Dist(o, i) PROVE Pos(o, j) # i
  BY <1>0, <1>4 DEF Dist, Pos, Slots
<1> QED
  BY <1>2, <1>3, <1>4

\* A slot counted from the reader is a slot.
LEMMA PosSlot ==
  ASSUME NEW o \in Slots, NEW j \in Slots
  PROVE  Pos(o, j) \in Slots /\ Pos(o, 0) = o
BY ClientsAssumption DEF Pos, Slots

\* A set of indices that is not empty has a lowest one.
LEMMA LowestIn ==
  ASSUME NEW S \in SUBSET Nat, S # {}
  PROVE  Lowest(S) \in S /\ \A j \in S : Lowest(S) <= j
<1>1. \E x \in S : \A y \in S : ~ (<<y, x>> \in OpToRel(<, Nat))
  BY WFMin, NatLessThanWellFounded
<1>2. PICK x \in S : \A y \in S : ~ (y < x)
  BY <1>1 DEF OpToRel
<1>3. \A y \in S : x <= y
  BY <1>2
<1> QED
  BY <1>3 DEF Lowest

-----------------------------------------------------------------------------
(* Rings and their peers                                                    *)

\* A handle leads to its ring, when there is one.
LEMMA IndexOfRing ==
  ASSUME OwnerInv, NEW h
  PROVE  /\ \A k \in Outs : rings[k].enabled /\ rings[k].handle = h => IndexOf(h) = k
         /\ IndexOf(h) # -1 => /\ IndexOf(h) \in Outs /\ rings[IndexOf(h)].enabled
                               /\ rings[IndexOf(h)].handle = h
<1> DEFINE S == {k \in Outs : rings[k].enabled /\ rings[k].handle = h}
<1>1. IndexOf(h) = IF S = {} THEN -1 ELSE Lowest(S)
  BY DEF IndexOf
<1>2. \A k \in S : S = {k}
  BY DEF OwnerInv
<1>3. Outs \subseteq Nat
  BY ClientsAssumption
<1>4. ASSUME NEW k \in S PROVE Lowest(S) = k
  <2>1. Lowest({k}) = k
    BY <1>3 DEF Lowest
  <2> QED
    BY <1>2, <2>1
<1>5. ASSUME NEW k \in S PROVE IndexOf(h) = k
  BY <1>1, <1>4, <1>5
<1> QED
  BY <1>1, <1>5

\* The handles of WebSocket connections are not those of TCP ones.
LEMMA TwoHandles == \A i, j : <<TRUE, i>> # <<FALSE, j>>
OBVIOUS

\* The ring of a TCP handle is that of a TCP connection.
LEMMA TcpHandle ==
  ASSUME TypeInv, NEW p \in Peers, Holds(p), Kind[p] # "ws", NEW k \in Outs, Serves(k, p)
  PROVE  OfTcp(k)
BY DEF TypeInv, Serves, OfTcp, Handle

\* Two connections that a handle stands for are one.
LEMMA OneThread ==
  ASSUME EntryInv, OneConnection, NEW p \in Peers, NEW q \in Peers,
         Kind[p] # "data", Kind[q] # "data", Holds(p), Holds(q), Handle(p) = Handle(q)
  PROVE  p = q
<1>1. (Kind[p] = "ws") = (Kind[q] = "ws") /\ at[p] = at[q]
  BY DEF Handle
<1>2. Kind[p] \in {"cmd", "ws"} /\ Kind[q] \in {"cmd", "ws"}
  BY ClientsAssumption
<1>3. Kind[p] = Kind[q]
  BY <1>1, <1>2
<1> QED
  BY <1>1, <1>3 DEF EntryInv

\* A thread at work on a ring has it for itself.
LEMMA OwnRing ==
  ASSUME TypeInv, EntryInv, ThreadInv, OneConnection, NEW p \in Peers, NEW q \in Peers,
         tx[p] \in {"test", "take", "step", "send"}, Kind[q] # "data", Holds(q),
         Serves(idx[p], q)
  PROVE  p = q
<1>1. conn[p] = "open" /\ Kind[p] # "data" /\ Serves(idx[p], p)
  BY DEF ThreadInv, AtWork, WithRing
<1>2. Handle(p) = Handle(q) /\ Holds(p)
  BY <1>1 DEF Serves, Holds
<1> QED
  BY <1>1, <1>2, OneThread

\* What a thread sends goes to its own client.
LEMMA ToOwn ==
  ASSUME TypeInv, EntryInv, ThreadInv, NEW p \in Peers, tx[p] = "send"
  PROVE  To(p) = {p}
<1>1. conn[p] = "open" /\ Kind[p] \in {"cmd", "ws"}
  BY ClientsAssumption DEF ThreadInv, AtWork
<1>2. To(p) = In(Kind[p], at[p]) /\ Holds(p)
  BY <1>1 DEF To, Holds
<1>3. ASSUME NEW q \in To(p) PROVE q = p
  BY <1>2, <1>3 DEF In, EntryInv
<1> QED
  BY <1>2, <1>3 DEF In

\* What a step writes into a ring leaves it a ring.
LEMMA RingWritten ==
  ASSUME NEW r \in Ring
  PROVE  /\ [r EXCEPT !.signalled = FALSE] \in Ring
         /\ [r EXCEPT !.signalled = TRUE] \in Ring
         /\ \A i \in Slots, l \in Nat : [r EXCEPT !.text[i] = l] \in Ring
         /\ \A i, o \in Slots : [r EXCEPT !.in = i, !.out = o] \in Ring
         /\ \A o \in Slots : [r EXCEPT !.out = o] \in Ring
<1>1. [r EXCEPT !.signalled = FALSE] \in Ring
  BY DEF Ring
<1>2. [r EXCEPT !.signalled = TRUE] \in Ring
  BY DEF Ring
<1>3. ASSUME NEW i \in Slots, NEW l \in Nat PROVE [r EXCEPT !.text[i] = l] \in Ring
  BY DEF Ring
<1>4. ASSUME NEW i \in Slots, NEW o \in Slots PROVE [r EXCEPT !.in = i, !.out = o] \in Ring
  BY DEF Ring
<1>5. ASSUME NEW o \in Slots PROVE [r EXCEPT !.out = o] \in Ring
  BY DEF Ring
<1> QED
  BY <1>1, <1>2, <1>3, <1>4, <1>5

LEMMA InitIInv == Init => IInv
<1> SUFFICES ASSUME Init PROVE IInv
  OBVIOUS
<1> DEFINE ring == [enabled |-> FALSE, handle |-> <<FALSE, -1>>, in |-> 0,
                    out |-> 0, text |-> [i \in 0 .. N - 1 |-> 0],
                    signalled |-> FALSE, cancelled |-> FALSE]
<1>1. rings = [k \in Outs |-> ring]
  BY DEF Init
<1>2. ring \in Ring
  <2>1. 0 \in Slots /\ [i \in 0 .. N - 1 |-> 0] \in [Slots -> Nat]
    BY ClientsAssumption DEF Slots
  <2>2. <<FALSE, -1>> \in Handles
    BY DEF Handles
  <2> QED
    BY <2>1, <2>2 DEF Ring
<1>3. \A k \in Outs : rings[k].enabled = FALSE
  BY <1>1
<1>4. rings \in [Outs -> Ring]
  <2> HIDE DEF ring
  <2> QED
    BY <1>1, <1>2
<1>5. TypeInv
  <2>1. \A p \in Peers : ~Holds(p)
    BY DEF Init, Holds
  <2>2. at \in [Peers -> Entries \cup {-1}] /\ idx \in [Peers -> Int]
    BY DEF Init
  <2>3. pr \in [Writers -> Printer]
    BY DEF Init, Printer
  <2>4. hand \in [Peers -> Nat] /\ got \in [Peers -> Nat] /\ sent \in Nat
    BY DEF Init
  <2>5. /\ conn \in [Peers -> {"new", "open", "leaving", "removing", "gone"}]
        /\ tx \in [Peers -> AtWork \cup {"none", "wait", "lost", "end"}]
    BY DEF Init
  <2> QED
    BY <1>4, <2>1, <2>2, <2>3, <2>4, <2>5 DEF TypeInv
<1>6. EntryInv /\ OwnerInv
  BY <1>3 DEF Init, EntryInv, OwnerInv, Holds, OfTcp
<1>7. ThreadInv /\ PauseInv /\ HandInv
  BY DEF Init, ThreadInv, PauseInv, HandInv, AtWork, WithRing
<1>8. RoomInv /\ ContentInv
  BY <1>3 DEF RoomInv, ContentInv, Serves
<1> QED
  BY <1>5, <1>6, <1>7, <1>8 DEF IInv

\* Connections stay where they are, and rings whose they are.
Placed ==
  /\ UNCHANGED <<conn, at>>
  /\ \A k \in Outs : /\ rings'[k].enabled = rings[k].enabled
                     /\ rings'[k].handle = rings[k].handle

\* While they do, entries and rings keep their owners, unless the thread of a
\* data connection looks for a ring again.
LEMMA PlacedKeeps ==
  ASSUME EntryInv, OwnerInv, Placed,
         \A p \in Peers : Kind[p] = "data" /\ tx'[p] = "look" => tx[p] = "look"
  PROVE  /\ EntryInv' /\ OwnerInv'
         /\ \A k \in Outs, p \in Peers : Serves(k, p)' <=> Serves(k, p)
<1>1. EntryInv'
  BY DEF EntryInv, Placed, Holds
<1>2. \A k \in Outs, p \in Peers : Serves(k, p)' <=> Serves(k, p)
  BY DEF Placed, Serves, Handle
<1>3. \A k \in Outs : OfTcp(k)' <=> OfTcp(k)
  BY DEF Placed, OfTcp
<1>4. OwnerInv'
  <2>1. \A k, l \in Outs : rings'[k].enabled /\ rings'[l].enabled
          /\ rings'[k].handle = rings'[l].handle => k = l
    BY DEF OwnerInv, Placed
  <2>2. \A k \in Outs : rings'[k].enabled =>
          OfTcp(k)' \/ \E p \in Peers : Kind[p] = "ws" /\ Holds(p)' /\ Serves(k, p)'
    BY <1>2, <1>3 DEF OwnerInv, Placed, Holds
  <2>3. \A k \in Outs : OfTcp(k)' =>
          \A p \in Peers : /\ Kind[p] \in {"cmd", "data"} => conn'[p] # "new"
                           /\ Kind[p] = "data" => tx'[p] # "look"
    BY <1>3 DEF OwnerInv, Placed
  <2> QED
    BY <2>1, <2>2, <2>3 DEF OwnerInv
<1> QED
  BY <1>1, <1>2, <1>4

-----------------------------------------------------------------------------
(* The transmit threads                                                     *)

\* What does not touch rings, printers and what clients had leaves their
\* content as it is.
LEMMA SameContent ==
  ASSUME UNCHANGED <<rings, pr, sent>>, NEW p \in Peers, Had(p)' = Had(p)
  PROVE  \A k \in Outs : Holding(k, p)' <=> Holding(k, p)
<1>1. \A k \in Outs : Last(k)' = Last(k)
  BY DEF Last, Reached
<1> QED
  BY <1>1 DEF Holding

\* While rings, connections and printers stay as they are, so do pauses and room.
LEMMA SameRoom ==
  ASSUME PauseInv, RoomInv, UNCHANGED <<conn, rings, pr, sent>>
  PROVE  PauseInv' /\ RoomInv'
BY DEF PauseInv, RoomInv, Reached

\* A thread looks for its ring; that of a data connection finds none.
LEMMA TxLookKeeps ==
  ASSUME IInv, OneConnection, NEW p \in Peers, TxLook(p)
  PROVE  IInv'
<1> DEFINE k == IndexOf(Handle(p))
<1>0. TypeInv /\ EntryInv /\ OwnerInv /\ ThreadInv /\ PauseInv /\ RoomInv /\ ContentInv /\ HandInv
  BY DEF IInv
<1>1. /\ tx[p] = "look" /\ idx' = [idx EXCEPT ![p] = k]
      /\ UNCHANGED <<conn, at, rings, hand, pr, sent, got>>
  BY DEF TxLook
<1>2. tx' = [tx EXCEPT ![p] = tx'[p]] /\ tx'[p] \in {"test", "lost", "end"}
      /\ (tx'[p] = "test" => k # -1)
  BY <1>0 DEF TxLook, TypeInv
<1>3. conn[p] = "open"
  BY <1>0, <1>1 DEF ThreadInv, AtWork
<1>4. k # -1 => k \in Outs /\ Serves(k, p)
  BY <1>0, IndexOfRing DEF Serves
<1>5. Kind[p] = "data" => k = -1
  <2>1. Holds(p)
    BY <1>3 DEF Holds
  <2>2. SUFFICES ASSUME Kind[p] = "data", k # -1 PROVE FALSE
    OBVIOUS
  <2>3. OfTcp(k)
    BY <2>1, <2>2, <1>0, <1>4, TcpHandle
  <2> QED
    BY <2>2, <2>3, <1>0, <1>1, <1>4 DEF OwnerInv
<1> HIDE DEF k
<1>6. k \in Int
  <2>1. CASE k = -1
    BY <2>1
  <2>2. CASE k \in Outs
    BY <2>2, ClientsAssumption
  <2> QED
    BY <1>4, <2>1, <2>2
<1>7. TypeInv'
  BY <1>0, <1>1, <1>2, <1>6 DEF TypeInv, Holds, AtWork
<1>8. Placed
  BY <1>1 DEF Placed
<1>9. EntryInv' /\ OwnerInv' /\ \A l \in Outs, q \in Peers : Serves(l, q)' <=> Serves(l, q)
  <2>1. \A q \in Peers : Kind[q] = "data" /\ tx'[q] = "look" => tx[q] = "look"
    BY <1>0, <1>1, <1>2 DEF TypeInv
  <2> QED
    BY <2>1, <1>0, <1>8, PlacedKeeps
<1>10. ThreadInv'
  <2>1. ASSUME NEW q \in Peers, q # p
        PROVE  /\ tx'[q] = tx[q] /\ idx'[q] = idx[q] /\ conn'[q] = conn[q]
               /\ rings' = rings
    BY <1>0, <1>1, <1>2, <2>1 DEF TypeInv
  <2>2. idx'[p] = k
    BY <1>0, <1>1 DEF TypeInv
  <2>3. ASSUME NEW q \in Peers, q # p
        PROVE  tx[q] \in WithRing /\ conn[q] \in {"open", "leaving"} => Serves(idx[q], q)'
    BY <1>0, <1>9, <2>1, <2>3 DEF ThreadInv
  <2>4. tx'[p] \in WithRing => idx'[p] \in Outs /\ Serves(idx[p], p)'
    BY <1>2, <1>4, <1>9, <2>2 DEF WithRing
  <2>5. (Kind[p] = "data" => tx'[p] \in {"none", "look", "lost", "end"})
    BY <1>2, <1>5
  <2>6. conn'[p] = "open" /\ tx'[p] # "wait"
    BY <1>1, <1>2, <1>3
  <2> QED
    BY <1>0, <2>1, <2>3, <2>4, <2>5, <2>6 DEF ThreadInv
<1>11. PauseInv' /\ RoomInv'
  BY <1>0, <1>1, SameRoom
<1>12. ContentInv'
  <2> SUFFICES ASSUME NEW q \in Peers, NEW l \in Outs,
                      Kind[q] # "data", conn'[q] = "open",
                      tx'[q] \in AtWork \cup {"wait"}, Serves(l, q)'
               PROVE  Holding(l, q)'
    BY DEF ContentInv
  <2>1. tx[q] \in AtWork \cup {"wait"} /\ Had(q)' = Had(q)
    BY <1>0, <1>1, <1>2 DEF AtWork, Had, TypeInv
  <2>2. Holding(l, q)
    BY <1>0, <1>1, <1>9, <2>1 DEF ContentInv
  <2> QED
    BY <1>1, <2>1, <2>2, SameContent
<1>13. HandInv'
  <2>1. \A q \in Peers : /\ tx'[q] \in {"take", "step", "send"} => q # p
                         /\ q # p => tx'[q] = tx[q] /\ idx'[q] = idx[q]
    BY <1>0, <1>1, <1>2 DEF TypeInv
  <2> QED
    BY <1>0, <1>1, <2>1 DEF HandInv
<1> QED
  BY <1>7, <1>9, <1>10, <1>11, <1>12, <1>13 DEF IInv

\* It goes to wait for the ring's event, or to take what is there.
LEMMA TxTestKeeps ==
  ASSUME IInv, NEW p \in Peers, TxTest(p)
  PROVE  IInv'
<1>0. TypeInv /\ EntryInv /\ OwnerInv /\ ThreadInv /\ PauseInv /\ RoomInv /\ ContentInv /\ HandInv
  BY DEF IInv
<1>1. tx[p] = "test" /\ UNCHANGED <<conn, at, rings, idx, hand, pr, sent, got>>
  BY DEF TxTest
<1>2. /\ tx' = [tx EXCEPT ![p] = tx'[p]] /\ tx'[p] \in {"wait", "take"}
      /\ tx'[p] = "take" => rings[idx[p]].in # rings[idx[p]].out
  BY <1>0 DEF TxTest, TypeInv, Empty
<1>3. conn[p] = "open"
  BY <1>0, <1>1 DEF ThreadInv, AtWork
<1>4. TypeInv'
  BY <1>0, <1>1, <1>2 DEF TypeInv, Holds, AtWork
<1>5. Placed
  BY <1>1 DEF Placed
<1>6. EntryInv' /\ OwnerInv' /\ \A l \in Outs, q \in Peers : Serves(l, q)' <=> Serves(l, q)
  <2>1. \A q \in Peers : Kind[q] = "data" /\ tx'[q] = "look" => tx[q] = "look"
    BY <1>0, <1>1, <1>2 DEF TypeInv
  <2> QED
    BY <2>1, <1>0, <1>5, PlacedKeeps
<1>7. \A q \in Peers : q # p => tx'[q] = tx[q]
  BY <1>0, <1>2 DEF TypeInv
<1>8. ThreadInv'
  <2>1. \A q \in Peers : tx'[q] \in WithRing => tx[q] \in WithRing
    BY <1>1, <1>7 DEF WithRing
  <2>2. \A q \in Peers : tx'[q] \in WithRing => idx'[q] \in Outs
    BY <1>0, <1>1, <2>1 DEF ThreadInv
  <2>3. \A q \in Peers : tx'[q] \in WithRing /\ conn'[q] \in {"open", "leaving"} =>
          Serves(idx[q], q)'
    BY <1>0, <1>1, <1>6, <2>1, <2>2 DEF ThreadInv
  <2>4. Kind[p] # "data"
    BY <1>0, <1>1 DEF ThreadInv
  <2> QED
    BY <1>0, <1>1, <1>2, <1>3, <1>7, <2>2, <2>3, <2>4 DEF ThreadInv, AtWork
<1>9. PauseInv' /\ RoomInv'
  BY <1>0, <1>1, SameRoom
<1>10. ContentInv'
  <2> SUFFICES ASSUME NEW q \in Peers, NEW l \in Outs,
                      Kind[q] # "data", conn'[q] = "open",
                      tx'[q] \in AtWork \cup {"wait"}, Serves(l, q)'
               PROVE  Holding(l, q)'
    BY DEF ContentInv
  <2>1. tx[q] \in AtWork \cup {"wait"} /\ Had(q)' = Had(q)
    BY <1>0, <1>1, <1>2, <1>7 DEF AtWork, Had
  <2>2. Holding(l, q)
    BY <1>0, <1>1, <1>6, <2>1 DEF ContentInv
  <2> QED
    BY <1>1, <2>1, <2>2, SameContent
<1>11. HandInv'
  BY <1>0, <1>1, <1>2, <1>7 DEF HandInv
<1> QED
  BY <1>4, <1>6, <1>8, <1>9, <1>10, <1>11 DEF IInv

\* An event wakes it; a cancelled one ends it. Of those that leave, no event is
\* left but cancelled ones.
LEMMA TxWakeKeeps ==
  ASSUME IInv, NEW p \in Peers, TxWake(p)
  PROVE  IInv'
<1>0. TypeInv /\ EntryInv /\ OwnerInv /\ ThreadInv /\ PauseInv /\ RoomInv /\ ContentInv /\ HandInv
  BY DEF IInv
<1> DEFINE k == idx[p]
<1>1. /\ tx[p] = "wait" /\ (rings[k].signalled \/ rings[k].cancelled)
      /\ rings' = [rings EXCEPT ![k].signalled = FALSE]
      /\ UNCHANGED <<conn, at, idx, hand, pr, sent, got>>
  BY DEF TxWake
<1>2. /\ tx' = [tx EXCEPT ![p] = tx'[p]] /\ tx'[p] \in {"end", "test"}
      /\ tx'[p] = "test" => ~rings[k].cancelled
  BY <1>0 DEF TxWake, TypeInv
<1>3. \A q \in Peers : q # p => tx'[q] = tx[q]
  BY <1>0, <1>2 DEF TypeInv
<1>4. k \in Outs /\ Kind[p] # "data"
  BY <1>0, <1>1 DEF ThreadInv, WithRing
<1> HIDE DEF k
<1>5. \A l \in Outs : /\ rings'[l].enabled = rings[l].enabled
                      /\ rings'[l].handle = rings[l].handle
                      /\ rings'[l].in = rings[l].in /\ rings'[l].out = rings[l].out
                      /\ rings'[l].text = rings[l].text
                      /\ rings'[l].cancelled = rings[l].cancelled
                      /\ rings'[l].signalled => rings[l].signalled
  BY <1>0, <1>1, <1>4 DEF TypeInv, Ring
<1>6. TypeInv'
  <2>1. [rings[k] EXCEPT !.signalled = FALSE] \in Ring
    <3>1. rings[k] \in Ring
      BY <1>0, <1>4 DEF TypeInv
    <3> QED
      BY <3>1, RingWritten
  <2>2. rings' = [rings EXCEPT ![k] = [rings[k] EXCEPT !.signalled = FALSE]]
    BY <1>0, <1>1, <1>4 DEF TypeInv
  <2>3. rings' \in [Outs -> Ring]
    BY <1>0, <2>1, <2>2 DEF TypeInv
  <2> QED
    BY <2>3, <1>0, <1>1, <1>2 DEF TypeInv, Holds, AtWork
<1>7. Placed
  BY <1>1, <1>5 DEF Placed
<1>8. EntryInv' /\ OwnerInv' /\ \A l \in Outs, q \in Peers : Serves(l, q)' <=> Serves(l, q)
  <2>1. \A q \in Peers : Kind[q] = "data" /\ tx'[q] = "look" => tx[q] = "look"
    BY <1>2, <1>3
  <2> QED
    BY <2>1, <1>0, <1>7, PlacedKeeps
<1>9. ThreadInv'
  <2>1. \A q \in Peers : tx'[q] \in WithRing => tx[q] \in WithRing
    BY <1>1, <1>3 DEF WithRing
  <2>2. \A q \in Peers : tx'[q] \in WithRing => idx'[q] \in Outs
    BY <1>0, <1>1, <2>1 DEF ThreadInv
  <2>3. \A q \in Peers : tx'[q] \in WithRing /\ conn'[q] \in {"open", "leaving"} =>
          Serves(idx[q], q)'
    BY <1>0, <1>1, <1>8, <2>1, <2>2 DEF ThreadInv
  <2>4. tx'[p] = "test" => conn[p] = "open"
    <3>1. SUFFICES ASSUME tx'[p] = "test" PROVE conn[p] = "open"
      OBVIOUS
    <3>2. ~rings[k].cancelled /\ rings[k].signalled
      BY <1>1, <1>2, <3>1
    <3>3. conn[p] # "leaving"
      BY <1>0, <1>4, <3>2 DEF PauseInv
    <3>4. conn[p] \notin {"removing", "gone"}
      BY <1>0, <1>1, <3>2 DEF ThreadInv, k
    <3>5. conn[p] # "new"
      BY <1>0, <1>1 DEF ThreadInv
    <3> QED
      BY <1>0, <3>3, <3>4, <3>5 DEF TypeInv
  <2>5. \A q \in Peers : tx'[q] = "wait" /\ conn'[q] \in {"removing", "gone"} =>
          rings'[idx'[q]].cancelled
    <3>1. \A q \in Peers : tx'[q] = "wait" => tx[q] = "wait" /\ idx[q] \in Outs
      BY <1>0, <1>2, <1>3 DEF ThreadInv, WithRing
    <3> QED
      BY <1>0, <1>1, <1>5, <3>1 DEF ThreadInv
  <2> QED
    BY <1>0, <1>1, <1>2, <1>3, <1>4, <2>2, <2>3, <2>4, <2>5 DEF ThreadInv, AtWork
<1>10. PauseInv' /\ RoomInv'
  <2>1. PauseInv'
    BY <1>0, <1>1, <1>5 DEF PauseInv
  <2>2. RoomInv'
    BY <1>0, <1>1, <1>5 DEF RoomInv, Reached
  <2> QED
    BY <2>1, <2>2
<1>11. ContentInv'
  <2> SUFFICES ASSUME NEW q \in Peers, NEW l \in Outs,
                      Kind[q] # "data", conn'[q] = "open",
                      tx'[q] \in AtWork \cup {"wait"}, Serves(l, q)'
               PROVE  Holding(l, q)'
    BY DEF ContentInv
  <2>1. tx[q] \in AtWork \cup {"wait"} /\ Had(q)' = Had(q)
    BY <1>0, <1>1, <1>2, <1>3 DEF AtWork, Had
  <2>2. Holding(l, q)
    BY <1>0, <1>1, <1>8, <2>1 DEF ContentInv
  <2>3. Last(l)' = Last(l)
    BY <1>1 DEF Last, Reached
  <2> QED
    BY <1>5, <2>1, <2>2, <2>3 DEF Holding
<1>12. HandInv'
  <2>1. \A q \in Peers : tx'[q] \in {"take", "step", "send"} =>
          tx[q] = tx'[q] /\ idx[q] \in Outs
    BY <1>0, <1>2, <1>3 DEF ThreadInv, WithRing
  <2> QED
    BY <1>0, <1>1, <1>5, <2>1 DEF HandInv
<1> QED
  BY <1>6, <1>8, <1>9, <1>10, <1>11, <1>12 DEF IInv

\* It takes the line after the last its client has.
LEMMA TxTakeKeeps ==
  ASSUME IInv, NEW p \in Peers, TxTake(p)
  PROVE  IInv'
<1>0. TypeInv /\ EntryInv /\ OwnerInv /\ ThreadInv /\ PauseInv /\ RoomInv /\ ContentInv /\ HandInv
  BY DEF IInv
<1> DEFINE k == idx[p]
<1>1. tx[p] = "take" /\ UNCHANGED <<conn, at, rings, idx, pr, sent, got>>
  BY DEF TxTake
<1>2. conn[p] = "open" /\ k \in Outs /\ Serves(k, p) /\ Kind[p] # "data"
  BY <1>0, <1>1 DEF ThreadInv, AtWork, WithRing
<1>3. /\ rings[k].in # rings[k].out /\ tx' = [tx EXCEPT ![p] = "step"]
      /\ hand' = [hand EXCEPT ![p] = rings[k].text[rings[k].out]]
  BY <1>0, <1>1 DEF TxTake, HandInv
<1> HIDE DEF k
<1>4. rings[k].text[rings[k].out] = got[p] + 1
  <2>1. /\ rings[k].out \in Slots /\ rings[k].in \in Slots /\ got[p] \in Nat
    BY <1>0, <1>2 DEF TypeInv, Ring
  <2>2. Holding(k, p) /\ Had(p) = got[p]
    BY <1>0, <1>1, <1>2 DEF ContentInv, AtWork, Had
  <2>3. 0 \in Slots /\ 0 < Dist(rings[k].out, rings[k].in)
    <3>1. Dist(rings[k].out, rings[k].in) # 0 /\ Dist(rings[k].out, rings[k].in) \in Slots
      BY <1>3, <2>1, CountDist
    <3> QED
      BY <3>1, ClientsAssumption DEF Slots
  <2>4. rings[k].text[Pos(rings[k].out, 0)] = got[p] + 1 + 0
    BY <2>2, <2>3 DEF Holding
  <2>5. Pos(rings[k].out, 0) = rings[k].out
    BY <2>1, <2>3, PosSlot
  <2> QED
    BY <2>1, <2>4, <2>5
<1>5. hand' \in [Peers -> Nat] /\ hand'[p] = got[p] + 1
      /\ \A q \in Peers : q # p => hand'[q] = hand[q] /\ tx'[q] = tx[q]
  <2>1. got[p] + 1 \in Nat
    BY <1>0 DEF TypeInv
  <2> QED
    BY <1>0, <1>3, <1>4, <2>1 DEF TypeInv
<1>6. TypeInv'
  BY <1>0, <1>1, <1>3, <1>5 DEF TypeInv, Holds, AtWork
<1>7. Placed
  BY <1>1 DEF Placed
<1>8. EntryInv' /\ OwnerInv' /\ \A l \in Outs, q \in Peers : Serves(l, q)' <=> Serves(l, q)
  <2>1. \A q \in Peers : Kind[q] = "data" /\ tx'[q] = "look" => tx[q] = "look"
    BY <1>5, <1>2
  <2> QED
    BY <2>1, <1>0, <1>7, PlacedKeeps
<1>9. tx'[p] = "step"
  BY <1>0, <1>3 DEF TypeInv
<1>10. ThreadInv'
  <2>1. \A q \in Peers : tx'[q] \in WithRing => tx[q] \in WithRing
    BY <1>1, <1>5 DEF WithRing
  <2>2. \A q \in Peers : tx'[q] \in WithRing => idx'[q] \in Outs
    BY <1>0, <1>1, <2>1 DEF ThreadInv
  <2>3. \A q \in Peers : tx'[q] \in WithRing /\ conn'[q] \in {"open", "leaving"} =>
          Serves(idx[q], q)'
    BY <1>0, <1>1, <1>8, <2>1, <2>2 DEF ThreadInv
  <2> QED
    BY <1>0, <1>1, <1>2, <1>5, <1>9, <2>2, <2>3 DEF ThreadInv, AtWork
<1>11. PauseInv' /\ RoomInv'
  BY <1>0, <1>1, SameRoom
<1>12. ContentInv'
  <2> SUFFICES ASSUME NEW q \in Peers, NEW l \in Outs,
                      Kind[q] # "data", conn'[q] = "open",
                      tx'[q] \in AtWork \cup {"wait"}, Serves(l, q)'
               PROVE  Holding(l, q)'
    BY DEF ContentInv
  <2>1. tx[q] \in AtWork \cup {"wait"} /\ Had(q)' = Had(q)
    BY <1>1, <1>5, <1>9 DEF AtWork, Had
  <2>2. Holding(l, q)
    BY <1>0, <1>1, <1>8, <2>1 DEF ContentInv
  <2> QED
    BY <1>1, <2>1, <2>2, SameContent
<1>13. HandInv'
  BY <1>0, <1>1, <1>3, <1>5, <1>9 DEF HandInv, k
<1> QED
  BY <1>6, <1>8, <1>10, <1>11, <1>12, <1>13 DEF IInv

\* Having taken a line it passes on to the next.
LEMMA TxStepKeeps ==
  ASSUME IInv, OneConnection, NEW p \in Peers, TxStep(p)
  PROVE  IInv'
<1>0. TypeInv /\ EntryInv /\ OwnerInv /\ ThreadInv /\ PauseInv /\ RoomInv /\ ContentInv /\ HandInv
  BY DEF IInv
<1> DEFINE k == idx[p]
           i == rings[k].in
           o == rings[k].out
<1>1. /\ tx[p] = "step" /\ UNCHANGED <<conn, at, idx, hand, pr, sent, got>>
      /\ tx' = [tx EXCEPT ![p] = "send"]
      /\ rings' = [rings EXCEPT ![k].out = Succ(@)]
  BY DEF TxStep
<1>2. conn[p] = "open" /\ k \in Outs /\ Serves(k, p) /\ Kind[p] # "data" /\ i # o
  BY <1>0, <1>1 DEF ThreadInv, AtWork, WithRing, HandInv
<1>3. tx'[p] = "send" /\ \A q \in Peers : q # p => tx'[q] = tx[q]
  BY <1>0, <1>1 DEF TypeInv
<1>4. i \in Slots /\ o \in Slots /\ Succ(o) \in Slots /\ rings[k] \in Ring
  <2>1. rings[k] \in Ring
    BY <1>0, <1>2 DEF TypeInv
  <2>2. i \in Slots /\ o \in Slots
    BY <2>1 DEF Ring
  <2> QED
    BY <2>1, <2>2, SuccSlot
<1>5. rings' = [rings EXCEPT ![k] = [rings[k] EXCEPT !.out = Succ(o)]]
  BY <1>0, <1>1, <1>2 DEF TypeInv
<1>6. \A l \in Outs : /\ rings'[l].enabled = rings[l].enabled
                      /\ rings'[l].handle = rings[l].handle
                      /\ rings'[l].in = rings[l].in
                      /\ rings'[l].text = rings[l].text
                      /\ rings'[l].cancelled = rings[l].cancelled
                      /\ rings'[l].signalled = rings[l].signalled
                      /\ rings'[l].out = IF l = k THEN Succ(o) ELSE rings[l].out
  <2>1. \A l \in Outs : l # k => rings'[l] = rings[l]
    BY <1>0, <1>5 DEF TypeInv
  <2>2. rings'[k] = [rings[k] EXCEPT !.out = Succ(o)]
    BY <1>0, <1>2, <1>5 DEF TypeInv
  <2>3. /\ rings'[k].enabled = rings[k].enabled /\ rings'[k].handle = rings[k].handle
        /\ rings'[k].in = rings[k].in /\ rings'[k].text = rings[k].text
        /\ rings'[k].cancelled = rings[k].cancelled
        /\ rings'[k].signalled = rings[k].signalled /\ rings'[k].out = Succ(o)
    BY <2>2, <1>4 DEF Ring
  <2> QED
    BY <2>1, <2>3
<1>7. TypeInv'
  <2>1. rings' \in [Outs -> Ring]
    <3>1. [rings[k] EXCEPT !.out = Succ(o)] \in Ring
      BY <1>4, RingWritten
    <3> QED
      BY <1>0, <1>5, <3>1 DEF TypeInv
  <2> QED
    BY <2>1, <1>0, <1>1 DEF TypeInv, Holds, AtWork
<1> HIDE DEF k, i, o
<1>8. Placed
  BY <1>1, <1>6 DEF Placed
<1>9. EntryInv' /\ OwnerInv' /\ \A l \in Outs, q \in Peers : Serves(l, q)' <=> Serves(l, q)
  <2>1. \A q \in Peers : Kind[q] = "data" /\ tx'[q] = "look" => tx[q] = "look"
    BY <1>3
  <2> QED
    BY <2>1, <1>0, <1>8, PlacedKeeps
<1>10. ThreadInv'
  <2>1. \A q \in Peers : tx'[q] \in WithRing => tx[q] \in WithRing
    BY <1>1, <1>3 DEF WithRing
  <2>2. \A q \in Peers : tx'[q] \in WithRing => idx'[q] \in Outs
    BY <1>0, <1>1, <2>1 DEF ThreadInv
  <2>3. \A q \in Peers : tx'[q] \in WithRing /\ conn'[q] \in {"open", "leaving"} =>
          Serves(idx[q], q)'
    BY <1>0, <1>1, <1>9, <2>1, <2>2 DEF ThreadInv
  <2>4. \A q \in Peers : tx'[q] = "wait" => rings'[idx[q]].cancelled = rings[idx[q]].cancelled
    BY <1>1, <1>6, <2>2 DEF WithRing
  <2> QED
    BY <1>0, <1>1, <1>2, <1>3, <2>2, <2>3, <2>4 DEF ThreadInv, AtWork
<1>11. PauseInv'
  BY <1>0, <1>1, <1>6 DEF PauseInv
<1>12. Dist(Succ(o), i) = Dist(o, i) - 1 /\ Dist(o, i) \in Slots
       /\ \A j \in Slots : j < Dist(o, i) - 1 =>
            j + 1 \in Slots /\ Pos(Succ(o), j) = Pos(o, j + 1)
  BY <1>2, <1>4, OutSteps, CountDist
<1>13. RoomInv'
  <2> SUFFICES ASSUME NEW l \in Outs, rings'[l].enabled, NEW w \in Writers
               PROVE  /\ ~Reached(w, l)' => Dist(rings'[l].out, rings'[l].in) <= N - 2
                      /\ pr'[w].pc = "step" /\ pr'[w].ring = l =>
                           rings'[l].text[rings'[l].in] = sent'
    BY DEF RoomInv
  <2>1. Reached(w, l)' <=> Reached(w, l)
    BY <1>1 DEF Reached
  <2>2. pr'[w].pc = "step" /\ pr'[w].ring = l => rings'[l].text[rings'[l].in] = sent'
    BY <1>0, <1>1, <1>6 DEF RoomInv
  <2>3. ~Reached(w, l) => Dist(rings[l].out, rings[l].in) <= N - 2
    BY <1>0, <1>6 DEF RoomInv
  <2>4. CASE l # k
    BY <1>6, <2>1, <2>2, <2>3, <2>4
  <2>5. CASE l = k
    <3>1. Dist(rings'[l].out, rings'[l].in) = Dist(o, i) - 1
      BY <1>6, <1>12, <2>5 DEF i
    <3>2. ~Reached(w, l) => Dist(o, i) <= N - 2
      BY <2>3, <2>5 DEF i, o
    <3> QED
      BY <3>1, <3>2, <2>1, <2>2, <1>12, ClientsAssumption DEF Slots
  <2> QED
    BY <2>4, <2>5
<1>14. ContentInv'
  <2> SUFFICES ASSUME NEW q \in Peers, NEW l \in Outs,
                      Kind[q] # "data", conn'[q] = "open",
                      tx'[q] \in AtWork \cup {"wait"}, Serves(l, q)'
               PROVE  Holding(l, q)'
    BY DEF ContentInv
  <2>1. tx[q] \in AtWork \cup {"wait"} /\ Serves(l, q) /\ Holds(q)
    BY <1>1, <1>3, <1>9 DEF AtWork, Holds
  <2>2. Holding(l, q)
    BY <1>0, <1>1, <2>1 DEF ContentInv
  <2>3. Last(l)' = Last(l)
    BY <1>1 DEF Last, Reached
  <2>4. CASE l # k
    <3>1. q # p
      BY <1>0, <1>2, <2>1, <2>4 DEF OwnerInv, Serves
    <3>2. Had(q)' = Had(q)
      BY <1>1, <1>3, <3>1 DEF Had
    <3>3. rings'[l].in = rings[l].in /\ rings'[l].out = rings[l].out /\ rings'[l].text = rings[l].text
      BY <1>6, <2>4
    <3> QED
      BY <2>2, <2>3, <3>2, <3>3 DEF Holding
  <2>5. CASE l = k
    <3>1. q = p
      BY <1>0, <1>1, <2>1, <2>5, OwnRing DEF k
    <3>2. Had(p) = got[p] /\ Had(p)' = got[p] + 1 /\ got[p] \in Nat
      BY <1>0, <1>1, <1>3 DEF Had, TypeInv
    <3>3. /\ Dist(o, i) = Last(k) - got[p]
          /\ \A j \in Slots : j < Dist(o, i) => rings[k].text[Pos(o, j)] = got[p] + 1 + j
      BY <2>2, <2>5, <3>1, <3>2 DEF Holding, i, o
    <3>4. rings'[k].in = i /\ rings'[k].out = Succ(o) /\ rings'[k].text = rings[k].text
      BY <1>2, <1>6 DEF i
    <3>5. Last(k) \in Int
      BY <1>0 DEF Last, TypeInv
    <3>6. Dist(Succ(o), i) = Last(k) - (got[p] + 1)
      BY <1>12, <3>2, <3>3, <3>5 DEF Slots
    <3>7. ASSUME NEW j \in Slots, j < Dist(Succ(o), i)
          PROVE  rings[k].text[Pos(Succ(o), j)] = (got[p] + 1) + 1 + j
      <4>1. j + 1 \in Slots /\ Pos(Succ(o), j) = Pos(o, j + 1) /\ j + 1 < Dist(o, i)
        BY <1>12, <3>7 DEF Slots
      <4>2. rings[k].text[Pos(o, j + 1)] = got[p] + 1 + (j + 1)
        BY <3>3, <4>1
      <4> QED
        BY <3>2, <4>1, <4>2 DEF Slots
    <3> QED
      BY <2>3, <2>5, <3>1, <3>2, <3>4, <3>6, <3>7 DEF Holding
  <2> QED
    BY <2>4, <2>5
<1>15. HandInv'
  <2>1. ASSUME NEW q \in Peers, tx'[q] \in {"take", "step"}
        PROVE  rings'[idx'[q]].in # rings'[idx'[q]].out
    <3>1. q # p /\ tx[q] = tx'[q] /\ idx[q] \in Outs /\ Serves(idx[q], q) /\ conn[q] = "open"
          /\ Kind[q] # "data"
      BY <1>0, <1>3, <2>1 DEF ThreadInv, AtWork, WithRing
    <3>2. idx[q] # k
      BY <1>0, <1>1, <3>1, OwnRing DEF k, Holds
    <3> QED
      BY <1>0, <1>1, <1>6, <2>1, <3>1, <3>2 DEF HandInv
  <2>2. \A q \in Peers : tx'[q] \in {"step", "send"} => hand'[q] = got'[q] + 1
    BY <1>0, <1>1, <1>3 DEF HandInv
  <2> QED
    BY <2>1, <2>2 DEF HandInv
<1> QED
  BY <1>7, <1>9, <1>10, <1>11, <1>13, <1>14, <1>15 DEF IInv

\* The line it has taken is its client's next.
LEMMA TxSendKeeps ==
  ASSUME IInv, NEW p \in Peers, TxSend(p)
  PROVE  IInv'
<1>0. TypeInv /\ EntryInv /\ OwnerInv /\ ThreadInv /\ PauseInv /\ RoomInv /\ ContentInv /\ HandInv
  BY DEF IInv
<1>1. /\ tx[p] = "send" /\ UNCHANGED <<conn, at, rings, idx, pr, sent>>
      /\ got' = [q \in Peers |-> IF q \in To(p) THEN hand[p] ELSE got[q]]
      /\ tx' = [tx EXCEPT ![p] = "look"] /\ hand' = [hand EXCEPT ![p] = 0]
  BY DEF TxSend
<1>2. conn[p] = "open" /\ Kind[p] # "data"
  BY <1>0, <1>1 DEF ThreadInv, AtWork
<1>3. /\ tx'[p] = "look" /\ got'[p] = got[p] + 1
      /\ \A q \in Peers : q # p => tx'[q] = tx[q] /\ got'[q] = got[q] /\ hand'[q] = hand[q]
  <2>1. To(p) = {p}
    BY <1>0, <1>1, ToOwn
  <2>2. hand[p] = got[p] + 1
    BY <1>0, <1>1 DEF HandInv
  <2> QED
    BY <1>0, <1>1, <2>1, <2>2 DEF TypeInv
<1>4. TypeInv'
  <2>1. got' \in [Peers -> Nat] /\ hand' \in [Peers -> Nat]
    BY <1>0, <1>1 DEF TypeInv
  <2> QED
    BY <2>1, <1>0, <1>1 DEF TypeInv, Holds, AtWork
<1>5. Placed
  BY <1>1 DEF Placed
<1>6. EntryInv' /\ OwnerInv' /\ \A l \in Outs, q \in Peers : Serves(l, q)' <=> Serves(l, q)
  <2>1. \A q \in Peers : Kind[q] = "data" /\ tx'[q] = "look" => tx[q] = "look"
    BY <1>2, <1>3
  <2> QED
    BY <2>1, <1>0, <1>5, PlacedKeeps
<1>7. ThreadInv'
  <2>1. \A q \in Peers : tx'[q] \in WithRing => tx[q] \in WithRing
    BY <1>1, <1>3 DEF WithRing
  <2>2. \A q \in Peers : tx'[q] \in WithRing => idx'[q] \in Outs
    BY <1>0, <1>1, <2>1 DEF ThreadInv
  <2>3. \A q \in Peers : tx'[q] \in WithRing /\ conn'[q] \in {"open", "leaving"} =>
          Serves(idx[q], q)'
    BY <1>0, <1>1, <1>6, <2>1, <2>2 DEF ThreadInv
  <2> QED
    BY <1>0, <1>1, <1>2, <1>3, <2>2, <2>3 DEF ThreadInv, AtWork
<1>8. PauseInv' /\ RoomInv'
  BY <1>0, <1>1, SameRoom
<1>9. ContentInv'
  <2> SUFFICES ASSUME NEW q \in Peers, NEW l \in Outs,
                      Kind[q] # "data", conn'[q] = "open",
                      tx'[q] \in AtWork \cup {"wait"}, Serves(l, q)'
               PROVE  Holding(l, q)'
    BY DEF ContentInv
  <2>1. tx[q] \in AtWork \cup {"wait"} /\ Had(q)' = Had(q)
    BY <1>1, <1>3 DEF AtWork, Had
  <2>2. Holding(l, q)
    BY <1>0, <1>1, <1>6, <2>1 DEF ContentInv
  <2> QED
    BY <1>1, <2>1, <2>2, SameContent
<1>10. HandInv'
  BY <1>0, <1>1, <1>3 DEF HandInv
<1> QED
  BY <1>4, <1>6, <1>7, <1>8, <1>9, <1>10 DEF IInv

-----------------------------------------------------------------------------
(* The printer                                                              *)

\* What a printer does to threads and connections: nothing.
LEMMA PrinterLeaves ==
  ASSUME EntryInv, OwnerInv, ThreadInv, UNCHANGED <<conn, at, tx, idx, hand, got>>,
         \A k \in Outs : /\ rings'[k].enabled = rings[k].enabled
                         /\ rings'[k].handle = rings[k].handle
                         /\ rings'[k].cancelled = rings[k].cancelled
  PROVE  /\ EntryInv' /\ OwnerInv' /\ ThreadInv'
         /\ \A k \in Outs, p \in Peers : Serves(k, p)' <=> Serves(k, p)
<1>1. Placed
  BY DEF Placed
<1>2. EntryInv' /\ OwnerInv' /\ \A l \in Outs, q \in Peers : Serves(l, q)' <=> Serves(l, q)
  BY <1>1, PlacedKeeps
<1>3. ThreadInv'
  <2>1. \A q \in Peers : tx[q] \in WithRing => idx[q] \in Outs
    BY DEF ThreadInv
  <2>2. \A q \in Peers : tx[q] \in WithRing /\ conn[q] \in {"open", "leaving"} =>
          Serves(idx[q], q)'
    BY <1>2, <2>1 DEF ThreadInv
  <2>3. \A q \in Peers : tx[q] = "wait" /\ conn[q] \in {"removing", "gone"} =>
          rings'[idx'[q]].cancelled
    BY <2>1 DEF ThreadInv, WithRing
  <2> QED
    BY <2>1, <2>2, <2>3 DEF ThreadInv
<1> QED
  BY <1>2, <1>3

\* A line is begun while nobody leaves and every ring has room for it.
LEMMA PrintLineKeeps ==
  ASSUME Calm, OnePrinter, IInv, NEW w \in Writers, PrintLine(w)
  PROVE  IInv'
<1>0. TypeInv /\ EntryInv /\ OwnerInv /\ ThreadInv /\ PauseInv /\ RoomInv /\ ContentInv /\ HandInv
  BY DEF IInv
<1>1. /\ UNCHANGED <<conn, at, rings, tx, idx, hand, got>>
      /\ sent' = sent + 1 /\ pr[w].pc = "idle"
      /\ pr' = [pr EXCEPT ![w] = [pc |-> "scan", ring |-> 0, line |-> sent + 1]]
  BY DEF PrintLine
<1>2. /\ \A p \in Peers : conn[p] \in {"new", "open", "gone"}
      /\ \A k \in Outs : Count(k) < N - 1
  BY DEF PrintLine, Paced
<1>3. \A v \in Writers : v = w
  BY DEF OnePrinter
<1>4. pr'[w] = [pc |-> "scan", ring |-> 0, line |-> sent + 1] /\ sent \in Nat
  BY <1>0, <1>1 DEF TypeInv
<1>5. TypeInv'
  <2>1. pr' \in [Writers -> Printer]
    BY <1>0, <1>1 DEF TypeInv, Printer
  <2> QED
    BY <2>1, <1>0, <1>1 DEF TypeInv, Holds
<1>6. EntryInv' /\ OwnerInv' /\ ThreadInv'
      /\ \A k \in Outs, p \in Peers : Serves(k, p)' <=> Serves(k, p)
  BY <1>0, <1>1, PrinterLeaves
<1>7. PauseInv'
  BY <1>0, <1>1, <1>2, <1>3, <1>4 DEF PauseInv
<1>8. RoomInv'
  <2>1. \A k \in Outs : Dist(rings[k].out, rings[k].in) <= N - 2
    <3> SUFFICES ASSUME NEW k \in Outs PROVE Dist(rings[k].out, rings[k].in) <= N - 2
      OBVIOUS
    <3>1. rings[k].in \in Slots /\ rings[k].out \in Slots
      BY <1>0 DEF TypeInv, Ring
    <3>2. Count(k) = Dist(rings[k].out, rings[k].in) /\ Count(k) \in Slots
      BY <3>1, CountDist DEF Count
    <3> QED
      BY <1>2, <3>2, ClientsAssumption DEF Slots
  <2> QED
    BY <1>1, <1>3, <1>4, <2>1 DEF RoomInv
<1>9. ContentInv'
  <2> SUFFICES ASSUME NEW q \in Peers, NEW l \in Outs,
                      Kind[q] # "data", conn'[q] = "open",
                      tx'[q] \in AtWork \cup {"wait"}, Serves(l, q)'
               PROVE  Holding(l, q)'
    BY DEF ContentInv
  <2>1. Holding(l, q)
    BY <1>0, <1>1, <1>6 DEF ContentInv
  <2>2. Last(l) = sent
    BY <1>1, <1>3 DEF Last, Reached
  <2>3. Last(l)' = sent
    <3>1. ~Reached(w, l)'
      BY <1>4, ClientsAssumption DEF Reached
    <3> QED
      BY <1>1, <1>4, <3>1 DEF Last
  <2>4. Had(q)' = Had(q)
    BY <1>1 DEF Had
  <2> QED
    BY <1>1, <2>1, <2>2, <2>3, <2>4 DEF Holding
<1>10. HandInv'
  BY <1>0, <1>1 DEF HandInv
<1> QED
  BY <1>5, <1>6, <1>7, <1>8, <1>9, <1>10 DEF IInv

\* The line is copied into the slot after the last line of the next ring.
LEMMA PrintCopyKeeps ==
  ASSUME OnePrinter, IInv, NEW w \in Writers, PrintCopy(w)
  PROVE  IInv'
<1>0. TypeInv /\ EntryInv /\ OwnerInv /\ ThreadInv /\ PauseInv /\ RoomInv /\ ContentInv /\ HandInv
  BY DEF IInv
<1> DEFINE S == {k \in Outs : rings[k].enabled /\ k >= pr[w].ring}
           k == Lowest(S)
<1>1. pr[w].pc = "scan" /\ UNCHANGED <<conn, at, tx, idx, hand, sent, got>>
  BY DEF PrintCopy
<1>2. \A v \in Writers : v = w
  BY DEF OnePrinter
<1>3. pr[w].ring \in Nat /\ Outs \subseteq Nat /\ pr[w].line = sent /\ sent >= 1 /\ sent \in Nat
  BY <1>0, <1>1, ClientsAssumption DEF TypeInv, PauseInv, Printer
<1>4. CASE S = {}
  <2>1. UNCHANGED rings /\ pr' = [pr EXCEPT ![w] = [pc |-> "idle", ring |-> 0, line |-> 0]]
    BY <1>4 DEF PrintCopy
  <2>2. pr'[w] = [pc |-> "idle", ring |-> 0, line |-> 0]
    BY <1>0, <2>1 DEF TypeInv
  <2>3. TypeInv'
    <3>1. pr' \in [Writers -> Printer]
      BY <1>0, <2>1 DEF TypeInv, Printer
    <3> QED
      BY <3>1, <1>0, <1>1, <2>1 DEF TypeInv, Holds
  <2>4. EntryInv' /\ OwnerInv' /\ ThreadInv'
        /\ \A l \in Outs, p \in Peers : Serves(l, p)' <=> Serves(l, p)
    BY <1>0, <1>1, <2>1, PrinterLeaves
  <2>5. PauseInv' /\ RoomInv'
    BY <1>0, <1>1, <1>2, <2>1, <2>2 DEF PauseInv, RoomInv, Reached
  <2>6. ContentInv'
    <3> SUFFICES ASSUME NEW q \in Peers, NEW l \in Outs,
                        Kind[q] # "data", conn'[q] = "open",
                        tx'[q] \in AtWork \cup {"wait"}, Serves(l, q)'
                 PROVE  Holding(l, q)'
      BY DEF ContentInv
    <3>1. Holding(l, q) /\ rings[l].enabled
      BY <1>0, <1>1, <2>4 DEF ContentInv, Serves
    <3>2. Reached(w, l) /\ Reached(w, l)'
      <4>1. pr[w].ring > l
        BY <1>3, <1>4, <3>1
      <4> QED
        BY <4>1, <2>2 DEF Reached
    <3>3. Last(l)' = Last(l)
      BY <1>1, <1>2, <3>2 DEF Last
    <3>4. Had(q)' = Had(q)
      BY <1>1 DEF Had
    <3> QED
      BY <2>1, <3>1, <3>3, <3>4 DEF Holding
  <2>7. HandInv'
    BY <1>0, <1>1, <2>1 DEF HandInv
  <2> QED
    BY <2>3, <2>4, <2>5, <2>6, <2>7 DEF IInv
<1>5. CASE S # {}
  <2> DEFINE i == rings[k].in
             o == rings[k].out
  <2>1. /\ rings' = [rings EXCEPT ![k].text[i] = pr[w].line]
        /\ pr' = [pr EXCEPT ![w].pc = "step", ![w].ring = k]
    BY <1>5 DEF PrintCopy
  <2>2. k \in S /\ \A l \in S : k <= l
    <3>1. S \in SUBSET Nat
      BY <1>3
    <3> HIDE DEF S
    <3> QED
      BY <1>5, <3>1, LowestIn
  <2>3. k \in Outs /\ rings[k].enabled /\ k \in Nat /\ k >= pr[w].ring
        /\ \A l \in Outs : rings[l].enabled /\ l >= pr[w].ring => k <= l
    BY <1>3, <2>2
  <2>4. \A l \in Outs : rings[l].enabled => (pr[w].ring > l <=> k > l)
    <3> HIDE DEF k, S
    <3>1. SUFFICES ASSUME NEW l \in Outs, rings[l].enabled
                   PROVE  pr[w].ring > l <=> k > l
      OBVIOUS
    <3>2. l \in Nat
      BY <1>3
    <3> QED
      BY <1>3, <2>3, <3>1, <3>2
  <2>5. rings[k] \in Ring /\ i \in Slots /\ o \in Slots
    <3>1. rings[k] \in Ring
      BY <1>0, <2>3 DEF TypeInv
    <3> QED
      BY <3>1 DEF Ring
  <2> HIDE DEF S, k
  <2>6. rings' = [rings EXCEPT ![k] = [rings[k] EXCEPT !.text[i] = sent]]
    BY <1>0, <1>3, <2>1, <2>3 DEF TypeInv
  <2>7. \A l \in Outs : /\ rings'[l].enabled = rings[l].enabled
                        /\ rings'[l].handle = rings[l].handle
                        /\ rings'[l].in = rings[l].in
                        /\ rings'[l].out = rings[l].out
                        /\ rings'[l].cancelled = rings[l].cancelled
                        /\ rings'[l].signalled = rings[l].signalled
                        /\ rings'[l].text = IF l = k THEN [rings[k].text EXCEPT ![i] = sent]
                                            ELSE rings[l].text
    <3>1. \A l \in Outs : l # k => rings'[l] = rings[l]
      BY <1>0, <2>6 DEF TypeInv
    <3>2. rings'[k] = [rings[k] EXCEPT !.text[i] = sent]
      BY <1>0, <2>3, <2>6 DEF TypeInv
    <3>3. /\ rings'[k].enabled = rings[k].enabled /\ rings'[k].handle = rings[k].handle
          /\ rings'[k].in = rings[k].in /\ rings'[k].out = rings[k].out
          /\ rings'[k].cancelled = rings[k].cancelled
          /\ rings'[k].signalled = rings[k].signalled
          /\ rings'[k].text = [rings[k].text EXCEPT ![i] = sent]
      BY <3>2, <2>5 DEF Ring
    <3> QED
      BY <3>1, <3>3
  <2>8. pr'[w].pc = "step" /\ pr'[w].ring = k /\ pr'[w].line = sent
        /\ pr' \in [Writers -> Printer]
    <3> DEFINE r == pr[w]
               c == "step"
    <3>1. r \in Printer /\ r.line = sent /\ k \in Nat
      BY <1>0, <1>3, <2>3 DEF TypeInv
    <3>2. c \in {"idle", "scan", "step", "signal"}
      OBVIOUS
    <3>3. pr' = [pr EXCEPT ![w] = [r EXCEPT !.pc = c, !.ring = k]]
      BY <1>0, <2>1 DEF TypeInv
    <3> HIDE DEF i, o, r, c
    <3>4. /\ [r EXCEPT !.pc = c, !.ring = k] \in Printer
          /\ [r EXCEPT !.pc = c, !.ring = k].pc = c
          /\ [r EXCEPT !.pc = c, !.ring = k].ring = k
          /\ [r EXCEPT !.pc = c, !.ring = k].line = sent
      BY <3>1, <3>2 DEF Printer
    <3>5. pr'[w].pc = c /\ pr'[w].ring = k /\ pr'[w].line = sent /\ pr' \in [Writers -> Printer]
      BY <1>0, <3>3, <3>4 DEF TypeInv
    <3> QED
      BY <3>5 DEF c
  <2>9. TypeInv'
    <3>1. [rings[k] EXCEPT !.text[i] = sent] \in Ring
      BY <1>3, <2>5, RingWritten
    <3>2. rings' \in [Outs -> Ring]
      BY <1>0, <2>6, <3>1 DEF TypeInv
    <3> QED
      BY <3>2, <2>8, <1>0, <1>1 DEF TypeInv, Holds
  <2>10. EntryInv' /\ OwnerInv' /\ ThreadInv'
         /\ \A l \in Outs, p \in Peers : Serves(l, p)' <=> Serves(l, p)
    BY <1>0, <1>1, <2>7, PrinterLeaves
  <2>11. \A l \in Outs : rings[l].enabled => (Reached(w, l)' <=> Reached(w, l))
    BY <1>1, <2>4, <2>8 DEF Reached
  <2>12. ~Reached(w, k) /\ Dist(o, i) <= N - 2
    <3>1. ~Reached(w, k)
      BY <1>1, <2>3, <2>4 DEF Reached
    <3> QED
      BY <1>0, <2>3, <3>1 DEF RoomInv
  <2>13. \A l \in Outs : rings[l].text \in [Slots -> Nat]
    BY <1>0 DEF TypeInv, Ring
  <2>14. PauseInv'
    <3>1. \A p \in Peers : conn'[p] \notin {"leaving", "removing"}
      BY <1>0, <1>1 DEF PauseInv
    <3>2. rings'[k].enabled
      BY <2>3, <2>7
    <3> QED
      BY <1>1, <1>2, <1>3, <2>3, <2>8, <3>1, <3>2 DEF PauseInv
  <2>15. RoomInv'
    <3> SUFFICES ASSUME NEW l \in Outs, rings'[l].enabled
                 PROVE  /\ ~Reached(w, l)' => Dist(rings'[l].out, rings'[l].in) <= N - 2
                        /\ pr'[w].pc = "step" /\ pr'[w].ring = l =>
                             rings'[l].text[rings'[l].in] = sent'
      BY <1>2 DEF RoomInv
    <3>1. ~Reached(w, l)' => Dist(rings'[l].out, rings'[l].in) <= N - 2
      BY <1>0, <2>7, <2>11 DEF RoomInv
    <3>2. rings'[k].text[rings'[k].in] = sent'
      <4>1. rings'[k].text = [rings[k].text EXCEPT ![i] = sent] /\ rings'[k].in = i
        BY <2>3, <2>7
      <4> QED
        BY <1>1, <2>3, <2>5, <2>13, <4>1
    <3> QED
      BY <2>8, <3>1, <3>2
  <2>16. ContentInv'
    <3> SUFFICES ASSUME NEW q \in Peers, NEW l \in Outs,
                        Kind[q] # "data", conn'[q] = "open",
                        tx'[q] \in AtWork \cup {"wait"}, Serves(l, q)'
                 PROVE  Holding(l, q)'
      BY DEF ContentInv
    <3>1. Holding(l, q) /\ rings[l].enabled
      BY <1>0, <1>1, <2>10 DEF ContentInv, Serves
    <3>2. Last(l)' = Last(l)
      BY <1>1, <1>2, <2>11, <3>1 DEF Last
    <3>3. Had(q)' = Had(q)
      BY <1>1 DEF Had
    <3>4. ASSUME NEW j \in Slots, j < Dist(rings[l].out, rings[l].in)
          PROVE  rings'[l].text[Pos(rings[l].out, j)] = rings[l].text[Pos(rings[l].out, j)]
      <4>1. CASE l # k
        BY <2>7, <4>1
      <4>2. CASE l = k
        <5>1. Pos(o, j) # i
          BY <2>5, <2>12, <3>4, <4>2, InSteps
        <5>2. Pos(o, j) \in Slots
          BY <2>5, PosSlot
        <5>3. rings'[k].text = [rings[k].text EXCEPT ![i] = sent]
          BY <2>3, <2>7
        <5> QED
          BY <2>3, <2>13, <4>2, <5>1, <5>2, <5>3
      <4> QED
        BY <4>1, <4>2
    <3>5. rings'[l].in = rings[l].in /\ rings'[l].out = rings[l].out
      BY <2>7
    <3> QED
      BY <3>1, <3>2, <3>3, <3>4, <3>5 DEF Holding
  <2>17. HandInv'
    <3>1. \A q \in Peers : tx[q] \in {"take", "step"} => idx[q] \in Outs
      BY <1>0 DEF ThreadInv, WithRing
    <3> QED
      BY <1>0, <1>1, <2>7, <3>1 DEF HandInv
  <2> QED
    BY <2>9, <2>10, <2>14, <2>15, <2>16, <2>17 DEF IInv
<1> QED
  BY <1>4, <1>5

\* The ring has the line: there was room, so none is given up.
LEMMA PrintStepKeeps ==
  ASSUME OnePrinter, IInv, NEW w \in Writers, PrintStep(w)
  PROVE  IInv'
<1>0. TypeInv /\ EntryInv /\ OwnerInv /\ ThreadInv /\ PauseInv /\ RoomInv /\ ContentInv /\ HandInv
  BY DEF IInv
<1> DEFINE k == pr[w].ring
           i == rings[k].in
           o == rings[k].out
<1>1. /\ pr[w].pc = "step" /\ UNCHANGED <<conn, at, tx, idx, hand, sent, got>>
      /\ rings' = [rings EXCEPT ![k].in = Succ(i), ![k].out = IF Succ(i) = o THEN Succ(o) ELSE o]
      /\ pr' = [pr EXCEPT ![w].pc = "signal"]
  BY DEF PrintStep
<1>2. \A v \in Writers : v = w
  BY DEF OnePrinter
<1>3. k \in Outs /\ rings[k].enabled /\ pr[w].line = sent /\ sent \in Nat /\ sent >= 1 /\ k \in Nat
  BY <1>0, <1>1, ClientsAssumption DEF TypeInv, PauseInv
<1>4. rings[k] \in Ring /\ i \in Slots /\ o \in Slots /\ Succ(i) \in Slots
  <2>1. rings[k] \in Ring
    BY <1>0, <1>3 DEF TypeInv
  <2>2. i \in Slots /\ o \in Slots
    BY <2>1 DEF Ring
  <2> QED
    BY <2>1, <2>2, SuccSlot
<1>5. ~Reached(w, k) /\ Dist(o, i) <= N - 2 /\ rings[k].text[i] = sent
  <2>1. ~Reached(w, k)
    BY <1>1, <1>3 DEF Reached
  <2> QED
    BY <1>0, <1>1, <1>3, <2>1 DEF RoomInv
<1>6. /\ Succ(i) # o /\ Dist(o, Succ(i)) = Dist(o, i) + 1 /\ Pos(o, Dist(o, i)) = i
      /\ Dist(o, i) \in Slots
  BY <1>4, <1>5, InSteps, CountDist
<1>7. rings' = [rings EXCEPT ![k] = [rings[k] EXCEPT !.in = Succ(i), !.out = o]]
  BY <1>0, <1>1, <1>3, <1>6 DEF TypeInv
<1> HIDE DEF k, i, o
<1>8. \A l \in Outs : /\ rings'[l].enabled = rings[l].enabled
                      /\ rings'[l].handle = rings[l].handle
                      /\ rings'[l].out = rings[l].out
                      /\ rings'[l].text = rings[l].text
                      /\ rings'[l].cancelled = rings[l].cancelled
                      /\ rings'[l].signalled = rings[l].signalled
                      /\ rings'[l].in = IF l = k THEN Succ(i) ELSE rings[l].in
  <2>1. \A l \in Outs : l # k => rings'[l] = rings[l]
    BY <1>0, <1>7 DEF TypeInv
  <2>2. rings'[k] = [rings[k] EXCEPT !.in = Succ(i), !.out = o]
    BY <1>0, <1>3, <1>7 DEF TypeInv
  <2>3. /\ rings'[k].enabled = rings[k].enabled /\ rings'[k].handle = rings[k].handle
        /\ rings'[k].out = rings[k].out /\ rings'[k].text = rings[k].text
        /\ rings'[k].cancelled = rings[k].cancelled
        /\ rings'[k].signalled = rings[k].signalled /\ rings'[k].in = Succ(i)
    BY <2>2, <1>4 DEF Ring, o
  <2> QED
    BY <2>1, <2>3
<1>9. pr'[w].pc = "signal" /\ pr'[w].ring = k /\ pr'[w].line = sent /\ pr' \in [Writers -> Printer]
  <2> DEFINE r == pr[w]
             c == "signal"
  <2>1. r \in Printer /\ r.line = sent /\ r.ring = k
    BY <1>0, <1>3 DEF TypeInv, k
  <2>2. c \in {"idle", "scan", "step", "signal"}
    OBVIOUS
  <2>3. pr' = [pr EXCEPT ![w] = [r EXCEPT !.pc = c]]
    BY <1>0, <1>1 DEF TypeInv
  <2> HIDE DEF r, c
  <2>4. /\ [r EXCEPT !.pc = c] \in Printer /\ [r EXCEPT !.pc = c].pc = c
        /\ [r EXCEPT !.pc = c].ring = k /\ [r EXCEPT !.pc = c].line = sent
    BY <2>1, <2>2 DEF Printer
  <2>5. pr'[w].pc = c /\ pr'[w].ring = k /\ pr'[w].line = sent /\ pr' \in [Writers -> Printer]
    BY <1>0, <2>3, <2>4 DEF TypeInv
  <2> QED
    BY <2>5 DEF c
<1>10. TypeInv'
  <2>1. [rings[k] EXCEPT !.in = Succ(i), !.out = o] \in Ring
    BY <1>4, RingWritten
  <2>2. rings' \in [Outs -> Ring]
    BY <1>0, <1>7, <2>1 DEF TypeInv
  <2> QED
    BY <2>2, <1>9, <1>0, <1>1 DEF TypeInv, Holds
<1>11. EntryInv' /\ OwnerInv' /\ ThreadInv'
       /\ \A l \in Outs, p \in Peers : Serves(l, p)' <=> Serves(l, p)
  BY <1>0, <1>1, <1>8, PrinterLeaves
<1>12. \A l \in Outs : l # k => (Reached(w, l)' <=> Reached(w, l))
  BY <1>1, <1>9 DEF Reached, k
<1>13. PauseInv'
  <2>1. \A p \in Peers : conn'[p] \notin {"leaving", "removing"}
    BY <1>0, <1>1 DEF PauseInv
  <2>2. rings'[k].enabled
    BY <1>3, <1>8
  <2> QED
    BY <1>1, <1>2, <1>3, <1>9, <2>1, <2>2 DEF PauseInv
<1>14. RoomInv'
  <2> SUFFICES ASSUME NEW l \in Outs, rings'[l].enabled
               PROVE  /\ ~Reached(w, l)' => Dist(rings'[l].out, rings'[l].in) <= N - 2
                      /\ pr'[w].pc = "step" /\ pr'[w].ring = l =>
                           rings'[l].text[rings'[l].in] = sent'
    BY <1>2 DEF RoomInv
  <2>1. CASE l = k
    <3>1. Reached(w, l)'
      BY <1>9, <2>1 DEF Reached
    <3> QED
      BY <1>9, <3>1
  <2>2. CASE l # k
    <3>1. Reached(w, l)' <=> Reached(w, l)
      BY <1>12, <2>2
    <3>2. rings'[l].in = rings[l].in /\ rings'[l].out = rings[l].out /\ rings[l].enabled
      BY <1>8, <2>2
    <3> QED
      BY <1>0, <1>9, <3>1, <3>2 DEF RoomInv
  <2> QED
    BY <2>1, <2>2
<1>15. ContentInv'
  <2> SUFFICES ASSUME NEW q \in Peers, NEW l \in Outs,
                      Kind[q] # "data", conn'[q] = "open",
                      tx'[q] \in AtWork \cup {"wait"}, Serves(l, q)'
               PROVE  Holding(l, q)'
    BY DEF ContentInv
  <2>1. Holding(l, q) /\ Had(q)' = Had(q)
    BY <1>0, <1>1, <1>11 DEF ContentInv, Had
  <2>2. CASE l # k
    <3>1. Last(l)' = Last(l)
      BY <1>1, <1>2, <1>12, <2>2 DEF Last
    <3>2. rings'[l].in = rings[l].in /\ rings'[l].out = rings[l].out /\ rings'[l].text = rings[l].text
      BY <1>8, <2>2
    <3> QED
      BY <2>1, <3>1, <3>2 DEF Holding
  <2>3. CASE l = k
    <3>1. Last(k) = sent - 1
      BY <1>5 DEF Last
    <3>2. Had(q) \in Nat
      BY <1>0 DEF Had, TypeInv
    <3>3. /\ Dist(o, i) = sent - 1 - Had(q)
          /\ \A j \in Slots : j < Dist(o, i) => rings[k].text[Pos(o, j)] = Had(q) + 1 + j
      BY <2>1, <2>3, <3>1 DEF Holding, i, o
    <3>4. rings'[k].in = Succ(i) /\ rings'[k].out = o /\ rings'[k].text = rings[k].text
      BY <1>3, <1>8 DEF o
    <3>5. Dist(o, Succ(i)) = sent - Had(q)
      BY <1>3, <1>6, <3>2, <3>3 DEF Slots
    <3>6. ASSUME NEW j \in Slots, j < Dist(o, Succ(i))
          PROVE  rings[k].text[Pos(o, j)] = Had(q) + 1 + j
      <4>1. j < Dist(o, i) \/ j = Dist(o, i)
        BY <1>6, <3>6 DEF Slots
      <4>2. CASE j < Dist(o, i)
        BY <3>3, <4>2
      <4>3. CASE j = Dist(o, i)
        <5>1. rings[k].text[Pos(o, j)] = sent
          BY <1>5, <1>6, <4>3
        <5>2. Had(q) + 1 + j = sent
          BY <1>3, <3>2, <3>3, <4>3
        <5> QED
          BY <5>1, <5>2
      <4> QED
        BY <4>1, <4>2, <4>3
    <3>7. Last(l)' = sent
      <4>1. Reached(w, l)'
        BY <1>9, <2>3 DEF Reached
      <4> QED
        BY <1>1, <1>2, <4>1 DEF Last
    <3>8. rings'[l].in = Succ(i) /\ rings'[l].out = o /\ rings'[l].text = rings[k].text
      BY <2>3, <3>4
    <3>9. /\ Dist(rings'[l].out, rings'[l].in) = Last(l)' - Had(q)'
          /\ \A j \in Slots : j < Dist(rings'[l].out, rings'[l].in) =>
               rings'[l].text[Pos(rings'[l].out, j)] = Had(q)' + 1 + j
      BY <2>1, <3>5, <3>6, <3>7, <3>8
    <3> QED
      BY <3>9 DEF Holding
  <2> QED
    BY <2>2, <2>3
<1>16. HandInv'
  <2>1. ASSUME NEW q \in Peers, tx'[q] \in {"take", "step"}
        PROVE  rings'[idx'[q]].in # rings'[idx'[q]].out
    <3>1. idx[q] \in Outs /\ idx'[q] = idx[q] /\ rings[idx[q]].in # rings[idx[q]].out
      BY <1>0, <1>1, <2>1 DEF ThreadInv, WithRing, HandInv
    <3>2. CASE idx[q] = k
      BY <1>6, <1>8, <3>1, <3>2 DEF o
    <3>3. CASE idx[q] # k
      BY <1>8, <3>1, <3>3
    <3> QED
      BY <3>2, <3>3
  <2> QED
    BY <1>0, <1>1, <2>1 DEF HandInv
<1> QED
  BY <1>10, <1>11, <1>13, <1>14, <1>15, <1>16 DEF IInv

\* The event is sent; what is left to do is the rings after this one.
LEMMA PrintSignalKeeps ==
  ASSUME OnePrinter, IInv, NEW w \in Writers, PrintSignal(w)
  PROVE  IInv'
<1>0. TypeInv /\ EntryInv /\ OwnerInv /\ ThreadInv /\ PauseInv /\ RoomInv /\ ContentInv /\ HandInv
  BY DEF IInv
<1> DEFINE k == pr[w].ring
<1>1. /\ pr[w].pc = "signal" /\ UNCHANGED <<conn, at, tx, idx, hand, sent, got>>
      /\ rings' = [rings EXCEPT ![k].signalled = TRUE]
      /\ pr' = [pr EXCEPT ![w].pc = "scan", ![w].ring = @ + 1]
  BY DEF PrintSignal
<1>2. \A v \in Writers : v = w
  BY DEF OnePrinter
<1>3. k \in Outs /\ rings[k].enabled /\ pr[w].line = sent /\ sent \in Nat /\ sent >= 1 /\ k \in Nat
  BY <1>0, <1>1, ClientsAssumption DEF TypeInv, PauseInv
<1>4. rings[k] \in Ring
  BY <1>0, <1>3 DEF TypeInv
<1>5. rings' = [rings EXCEPT ![k] = [rings[k] EXCEPT !.signalled = TRUE]]
  BY <1>0, <1>1, <1>3 DEF TypeInv
<1> HIDE DEF k
<1>6. \A l \in Outs : /\ rings'[l].enabled = rings[l].enabled
                      /\ rings'[l].handle = rings[l].handle
                      /\ rings'[l].in = rings[l].in
                      /\ rings'[l].out = rings[l].out
                      /\ rings'[l].text = rings[l].text
                      /\ rings'[l].cancelled = rings[l].cancelled
  <2>1. \A l \in Outs : l # k => rings'[l] = rings[l]
    BY <1>0, <1>5 DEF TypeInv
  <2>2. rings'[k] = [rings[k] EXCEPT !.signalled = TRUE]
    BY <1>0, <1>3, <1>5 DEF TypeInv
  <2>3. /\ rings'[k].enabled = rings[k].enabled /\ rings'[k].handle = rings[k].handle
        /\ rings'[k].in = rings[k].in /\ rings'[k].out = rings[k].out
        /\ rings'[k].text = rings[k].text
        /\ rings'[k].cancelled = rings[k].cancelled
    BY <2>2, <1>4 DEF Ring
  <2> QED
    BY <2>1, <2>3
<1>7. pr'[w].pc = "scan" /\ pr'[w].ring = k + 1 /\ pr'[w].line = sent
      /\ pr' \in [Writers -> Printer]
  <2> DEFINE r == pr[w]
             c == "scan"
             n == k + 1
  <2>1. r \in Printer /\ r.line = sent /\ n \in Nat
    BY <1>0, <1>3 DEF TypeInv
  <2>2. c \in {"idle", "scan", "step", "signal"}
    OBVIOUS
  <2>3. pr' = [pr EXCEPT ![w] = [r EXCEPT !.pc = c, !.ring = n]]
    BY <1>0, <1>1 DEF TypeInv, k
  <2> HIDE DEF r, c, n
  <2>4. /\ [r EXCEPT !.pc = c, !.ring = n] \in Printer
        /\ [r EXCEPT !.pc = c, !.ring = n].pc = c
        /\ [r EXCEPT !.pc = c, !.ring = n].ring = n
        /\ [r EXCEPT !.pc = c, !.ring = n].line = sent
    BY <2>1, <2>2 DEF Printer
  <2>5. pr'[w].pc = c /\ pr'[w].ring = n /\ pr'[w].line = sent /\ pr' \in [Writers -> Printer]
    BY <1>0, <2>3, <2>4 DEF TypeInv
  <2> QED
    BY <2>5 DEF c, n
<1>8. TypeInv'
  <2>1. [rings[k] EXCEPT !.signalled = TRUE] \in Ring
    BY <1>4, RingWritten
  <2>2. rings' \in [Outs -> Ring]
    BY <1>0, <1>5, <2>1 DEF TypeInv
  <2> QED
    BY <2>2, <1>7, <1>0, <1>1 DEF TypeInv, Holds
<1>9. EntryInv' /\ OwnerInv' /\ ThreadInv'
      /\ \A l \in Outs, p \in Peers : Serves(l, p)' <=> Serves(l, p)
  BY <1>0, <1>1, <1>6, PrinterLeaves
<1>10. \A l \in Outs : Reached(w, l)' <=> Reached(w, l)
  <2> SUFFICES ASSUME NEW l \in Outs PROVE Reached(w, l)' <=> Reached(w, l)
    OBVIOUS
  <2>1. l \in Nat
    BY ClientsAssumption
  <2>2. Reached(w, l) <=> (k > l \/ k = l)
    BY <1>1 DEF Reached, k
  <2>3. Reached(w, l)' <=> k + 1 > l
    BY <1>7 DEF Reached
  <2> QED
    BY <1>3, <2>1, <2>2, <2>3
<1>11. PauseInv'
  <2>1. \A p \in Peers : conn'[p] \notin {"leaving", "removing"}
    BY <1>0, <1>1 DEF PauseInv
  <2> QED
    BY <1>1, <1>2, <1>3, <1>7, <2>1 DEF PauseInv
<1>12. RoomInv'
  <2> SUFFICES ASSUME NEW l \in Outs, rings'[l].enabled
               PROVE  ~Reached(w, l)' => Dist(rings'[l].out, rings'[l].in) <= N - 2
    BY <1>2, <1>7 DEF RoomInv
  <2> QED
    BY <1>0, <1>6, <1>10 DEF RoomInv
<1>13. ContentInv'
  <2> SUFFICES ASSUME NEW q \in Peers, NEW l \in Outs,
                      Kind[q] # "data", conn'[q] = "open",
                      tx'[q] \in AtWork \cup {"wait"}, Serves(l, q)'
               PROVE  Holding(l, q)'
    BY DEF ContentInv
  <2>1. Holding(l, q) /\ Had(q)' = Had(q)
    BY <1>0, <1>1, <1>9 DEF ContentInv, Had
  <2>2. Last(l)' = Last(l)
    BY <1>1, <1>2, <1>10 DEF Last
  <2>3. rings'[l].in = rings[l].in /\ rings'[l].out = rings[l].out /\ rings'[l].text = rings[l].text
    BY <1>6
  <2> QED
    BY <2>1, <2>2, <2>3 DEF Holding
<1>14. HandInv'
  <2>1. \A q \in Peers : tx[q] \in {"take", "step"} => idx[q] \in Outs
    BY <1>0 DEF ThreadInv, WithRing
  <2> QED
    BY <1>0, <1>1, <1>6, <2>1 DEF HandInv
<1> QED
  BY <1>8, <1>9, <1>11, <1>12, <1>13, <1>14 DEF IInv

-----------------------------------------------------------------------------
(* Coming                                                                   *)

\* Who comes or goes finds the rest at rest.
LEMMA FoundAtRest ==
  ASSUME Calm, Settled
  PROVE  /\ \A q \in Peers : /\ conn[q] \in {"new", "open", "gone"}
                             /\ tx[q] \in {"none", "lost", "end", "wait"}
                             /\ tx[q] = "wait" => conn[q] = "open"
         /\ \A k \in Outs : ~rings[k].signalled
         /\ \A w \in Writers : pr[w].pc = "idle"
BY DEF Settled, AtRest

\* A connection that is refused leaves all as it was.
LEMMA RefuseKeeps ==
  ASSUME IInv, NEW p \in Peers, Refuse(p)
  PROVE  IInv'
<1>0. TypeInv /\ EntryInv /\ OwnerInv /\ ThreadInv /\ PauseInv /\ RoomInv /\ ContentInv /\ HandInv
  BY DEF IInv
<1>1. /\ conn[p] = "new" /\ conn' = [conn EXCEPT ![p] = "gone"]
      /\ UNCHANGED <<at, rings, tx, idx, hand, pr, sent, got>>
  BY DEF Refuse, Arrives
<1>2. conn'[p] = "gone" /\ tx[p] = "none" /\ \A q \in Peers : q # p => conn'[q] = conn[q]
  BY <1>0, <1>1 DEF TypeInv, ThreadInv
<1>3. \A q \in Peers : Holds(q)' <=> Holds(q)
  BY <1>1, <1>2 DEF Holds
<1>4. TypeInv'
  BY <1>0, <1>1, <1>3 DEF TypeInv
<1>5. EntryInv'
  BY <1>0, <1>1, <1>3 DEF EntryInv
<1>6. \A k \in Outs, q \in Peers : Serves(k, q)' <=> Serves(k, q)
  BY <1>1 DEF Serves, Handle
<1>7. OwnerInv'
  <2>1. \A k \in Outs : OfTcp(k)' <=> OfTcp(k)
    BY <1>1 DEF OfTcp
  <2>2. \A k \in Outs : OfTcp(k) =>
          \A q \in Peers : /\ Kind[q] \in {"cmd", "data"} => conn'[q] # "new"
                           /\ Kind[q] = "data" => tx'[q] # "look"
    BY <1>0, <1>1, <1>2 DEF OwnerInv
  <2> QED
    BY <1>0, <1>1, <1>3, <1>6, <2>1, <2>2 DEF OwnerInv
<1>8. ThreadInv'
  <2>1. \A q \in Peers : tx'[q] \in WithRing => idx'[q] = idx[q] /\ idx[q] \in Outs /\ q # p
    BY <1>0, <1>1, <1>2 DEF ThreadInv, WithRing
  <2>2. \A q \in Peers : tx'[q] \in WithRing /\ conn'[q] \in {"open", "leaving"} =>
          Serves(idx[q], q)'
    BY <1>0, <1>1, <1>2, <1>6, <2>1 DEF ThreadInv
  <2> QED
    BY <1>0, <1>1, <1>2, <2>1, <2>2 DEF ThreadInv, AtWork
<1>9. PauseInv' /\ RoomInv'
  BY <1>0, <1>1, <1>2 DEF PauseInv, RoomInv, Reached
<1>10. ContentInv'
  <2> SUFFICES ASSUME NEW q \in Peers, NEW l \in Outs,
                      Kind[q] # "data", conn'[q] = "open",
                      tx'[q] \in AtWork \cup {"wait"}, Serves(l, q)'
               PROVE  Holding(l, q)'
    BY DEF ContentInv
  <2>1. conn[q] = "open" /\ Had(q)' = Had(q)
    BY <1>1, <1>2 DEF Had
  <2>2. Holding(l, q)
    BY <1>0, <1>1, <1>6, <2>1 DEF ContentInv
  <2> QED
    BY <1>1, <2>1, <2>2, SameContent
<1>11. HandInv'
  BY <1>0, <1>1 DEF HandInv
<1> QED
  BY <1>4, <1>5, <1>7, <1>8, <1>9, <1>10, <1>11 DEF IInv

\* The entry a connection is given is free.
LEMMA FreeEntry ==
  ASSUME NEW kind, Free(kind) # {}
  PROVE  Lowest(Free(kind)) \in Entries /\ In(kind, Lowest(Free(kind))) = {}
<1>1. Free(kind) \in SUBSET Nat
  BY ClientsAssumption DEF Free
<1>2. Lowest(Free(kind)) \in Free(kind)
  BY <1>1, LowestIn
<1> QED
  BY <1>2 DEF Free

\* A data connection comes before any command connection has a ring.
LEMMA AcceptDataKeeps ==
  ASSUME Calm, IInv, NEW p \in Peers, AcceptData(p)
  PROVE  IInv'
<1>0. TypeInv /\ EntryInv /\ OwnerInv /\ ThreadInv /\ PauseInv /\ RoomInv /\ ContentInv /\ HandInv
  BY DEF IInv
<1> DEFINE i == Lowest(Free("data"))
<1>1. /\ conn[p] = "new" /\ Kind[p] = "data" /\ Settled
      /\ conn' = [conn EXCEPT ![p] = "open"] /\ at' = [at EXCEPT ![p] = i]
      /\ tx' = [tx EXCEPT ![p] = "look"]
      /\ UNCHANGED <<rings, idx, hand, pr, sent, got>>
  BY DEF AcceptData, Arrives
<1>2. i \in Entries /\ In("data", i) = {}
  BY FreeEntry DEF AcceptData
<1> HIDE DEF i
<1>3. /\ conn'[p] = "open" /\ at'[p] = i /\ tx'[p] = "look"
      /\ \A q \in Peers : q # p => conn'[q] = conn[q] /\ at'[q] = at[q] /\ tx'[q] = tx[q]
  BY <1>0, <1>1 DEF TypeInv
<1>4. \A q \in Peers : q # p => (Holds(q)' <=> Holds(q))
  BY <1>3 DEF Holds
<1>5. TypeInv'
  BY <1>0, <1>1, <1>2, <1>3, <1>4 DEF TypeInv, AtWork
<1>6. EntryInv'
  <2>1. \A q \in Peers : q # p /\ Holds(q)' /\ Kind[q] = "data" => at'[q] # i
    BY <1>2, <1>3, <1>4 DEF In
  <2> QED
    BY <1>0, <1>1, <1>3, <1>4, <2>1 DEF EntryInv
<1>7. \A k \in Outs, q \in Peers : q # p => (Serves(k, q)' <=> Serves(k, q))
  BY <1>1, <1>3 DEF Serves, Handle
<1>8. \A k \in Outs : ~OfTcp(k) /\ ~OfTcp(k)'
  BY <1>0, <1>1 DEF OwnerInv, OfTcp
<1>9. OwnerInv'
  <2>1. ASSUME NEW k \in Outs, rings'[k].enabled
        PROVE  \E q \in Peers : Kind[q] = "ws" /\ Holds(q)' /\ Serves(k, q)'
    <3>1. PICK q \in Peers : Kind[q] = "ws" /\ Holds(q) /\ Serves(k, q)
      BY <1>0, <1>1, <1>8, <2>1 DEF OwnerInv
    <3> QED
      BY <1>1, <1>4, <1>7, <3>1
  <2> QED
    BY <1>0, <1>1, <1>8, <2>1 DEF OwnerInv
<1>10. ThreadInv'
  <2>1. \A q \in Peers : tx'[q] \in WithRing => q # p /\ idx'[q] = idx[q] /\ idx[q] \in Outs
    BY <1>0, <1>1, <1>3 DEF ThreadInv, WithRing
  <2>2. \A q \in Peers : tx'[q] \in WithRing /\ conn'[q] \in {"open", "leaving"} =>
          Serves(idx[q], q)'
    BY <1>0, <1>1, <1>3, <1>7, <2>1 DEF ThreadInv
  <2> QED
    BY <1>0, <1>1, <1>3, <2>1, <2>2 DEF ThreadInv, AtWork
<1>11. PauseInv' /\ RoomInv'
  BY <1>0, <1>1, <1>3 DEF PauseInv, RoomInv, Reached
<1>12. ContentInv'
  <2> SUFFICES ASSUME NEW q \in Peers, NEW l \in Outs,
                      Kind[q] # "data", conn'[q] = "open",
                      tx'[q] \in AtWork \cup {"wait"}, Serves(l, q)'
               PROVE  Holding(l, q)'
    BY DEF ContentInv
  <2>1. q # p /\ conn[q] = "open" /\ Had(q)' = Had(q) /\ tx'[q] = tx[q] /\ Serves(l, q)
    BY <1>1, <1>3, <1>7 DEF Had
  <2>2. Holding(l, q)
    BY <1>0, <2>1 DEF ContentInv
  <2> QED
    BY <1>1, <2>1, <2>2, SameContent
<1>13. HandInv'
  BY <1>0, <1>1, <1>3 DEF HandInv
<1> QED
  BY <1>5, <1>6, <1>9, <1>10, <1>11, <1>12, <1>13 DEF IInv

\* A ring that is given to a client.
Fresh(h) == [enabled |-> TRUE, handle |-> h, in |-> 0, out |-> 0,
             text |-> [j \in 0 .. N - 1 |-> 0], signalled |-> FALSE, cancelled |-> FALSE]

\* add_client gives a ring nobody has, or none when all are taken.
LEMMA RegisteredRing ==
  ASSUME NEW h
  PROVE  \/ Registered(h) = rings
         \/ \E k \in Outs : ~rings[k].enabled /\ Registered(h) = [rings EXCEPT ![k] = Fresh(h)]
<1> DEFINE S == {k \in Outs : ~rings[k].enabled}
<1>1. Registered(h) = IF S = {} THEN rings ELSE [rings EXCEPT ![Lowest(S)] = Fresh(h)]
  BY DEF Registered, Fresh
<1>2. S \in SUBSET Nat
  BY ClientsAssumption
<1>3. S # {} => Lowest(S) \in S
  <2> HIDE DEF S
  <2> QED
    BY <1>2, LowestIn
<1> QED
  BY <1>1, <1>3

LEMMA FreshType ==
  ASSUME NEW b \in BOOLEAN, NEW i \in Entries
  PROVE  Fresh(<<b, i>>) \in Ring
<1>1. 0 \in Slots /\ [j \in 0 .. N - 1 |-> 0] \in [Slots -> Nat]
  BY ClientsAssumption DEF Slots
<1>2. <<b, i>> \in Handles
  BY DEF Handles
<1> QED
  BY <1>1, <1>2 DEF Fresh, Ring

\* A client that comes: its entry had nobody and its handle no ring, so the
\* ring it gets, empty and unsignalled, is the only one that is its own.
LEMMA Joins ==
  ASSUME Calm, OneConnection, IInv, NEW p \in Peers, NEW i \in Entries,
         NEW t \in {"look", "none"},
         conn[p] = "new", Settled, Kind[p] \in {"cmd", "ws"}, In(Kind[p], i) = {},
         Kind[p] = "cmd" => \E q \in Peers : Kind[q] = "data" /\ Holds(q),
         at' = [at EXCEPT ![p] = i], conn' = [conn EXCEPT ![p] = "open"],
         rings' = Registered(<<Kind[p] = "ws", i>>), got' = [got EXCEPT ![p] = sent],
         tx' = [tx EXCEPT ![p] = t], UNCHANGED <<idx, hand, pr, sent>>
  PROVE  IInv'
<1>0. TypeInv /\ EntryInv /\ OwnerInv /\ ThreadInv /\ PauseInv /\ RoomInv /\ ContentInv /\ HandInv
  BY DEF IInv
<1> DEFINE h == <<Kind[p] = "ws", i>>
<1>1. /\ \A q \in Peers : /\ conn[q] \in {"new", "open", "gone"}
                          /\ tx[q] \in {"none", "lost", "end", "wait"}
                          /\ tx[q] = "wait" => conn[q] = "open"
      /\ \A k \in Outs : ~rings[k].signalled
      /\ \A w \in Writers : pr[w].pc = "idle"
  BY FoundAtRest
<1>2. /\ conn'[p] = "open" /\ at'[p] = i /\ tx'[p] = t /\ got'[p] = sent
      /\ \A q \in Peers : q # p => /\ conn'[q] = conn[q] /\ at'[q] = at[q]
                                   /\ tx'[q] = tx[q] /\ got'[q] = got[q]
  BY <1>0 DEF TypeInv
<1>3. ~Holds(p) /\ Holds(p)' /\ \A q \in Peers : q # p => (Holds(q)' <=> Holds(q))
  BY <1>2 DEF Holds
<1>4. Handle(p)' = h /\ \A q \in Peers : q # p => Handle(q)' = Handle(q)
  BY <1>2 DEF Handle
<1>5. \A l \in Outs : rings[l].enabled => rings[l].handle # h
  <2> SUFFICES ASSUME NEW l \in Outs, rings[l].enabled, rings[l].handle = h PROVE FALSE
    OBVIOUS
  <2>1. CASE Kind[p] = "ws"
    <3>1. ~OfTcp(l)
      <4>1. rings[l].handle = <<TRUE, i>>
        BY <2>1
      <4> QED
        <5>1. \A j \in Entries : <<TRUE, i>> # <<FALSE, j>>
          BY TwoHandles
        <5>2. \A j \in Entries : rings[l].handle # <<FALSE, j>>
          BY <4>1, <5>1, Zenon
        <5> QED
          BY <5>2, Zenon DEF OfTcp
    <3>2. PICK q \in Peers : Kind[q] = "ws" /\ Holds(q) /\ Serves(l, q)
      BY <1>0, <3>1 DEF OwnerInv
    <3>3. at[q] = i
      BY <3>2 DEF Serves, Handle
    <3> QED
      BY <2>1, <3>2, <3>3 DEF In
  <2>2. CASE Kind[p] = "cmd"
    <3>1. OfTcp(l)
      BY <2>2 DEF OfTcp
    <3> QED
      BY <1>0, <2>2, <3>1 DEF OwnerInv
  <2> QED
    BY <2>1, <2>2
<1> HIDE DEF h
<1>6. \A l \in Outs : rings'[l] = rings[l] \/ (~rings[l].enabled /\ rings'[l] = Fresh(h))
  BY <1>0, RegisteredRing DEF TypeInv, h
<1>7. \A l \in Outs : rings[l].enabled => rings'[l] = rings[l]
  BY <1>6
<1>8. \A k, l \in Outs : rings'[k].enabled /\ rings'[l].enabled
        /\ rings'[k].handle = rings'[l].handle => k = l
  <2> SUFFICES ASSUME NEW k \in Outs, NEW l \in Outs, k # l, rings'[k].enabled, rings'[l].enabled,
                      rings'[k].handle = rings'[l].handle
               PROVE  FALSE
    OBVIOUS
  <2>1. CASE rings'[k] = rings[k] /\ rings'[l] = rings[l]
    BY <1>0, <2>1 DEF OwnerInv
  <2>2. CASE rings'[k] = Fresh(h) /\ rings'[l] = rings[l]
    BY <1>5, <2>2 DEF Fresh
  <2>3. CASE rings'[k] = rings[k] /\ rings'[l] = Fresh(h)
    BY <1>5, <2>3 DEF Fresh
  <2>4. CASE ~rings[k].enabled /\ rings'[k] = Fresh(h) /\ ~rings[l].enabled /\ rings'[l] = Fresh(h)
    <3>1. Registered(h) = rings' /\ rings'[k] # rings[k] /\ rings'[l] # rings[l]
      BY <2>4 DEF Fresh, h
    <3>2. \/ Registered(h) = rings
          \/ \E m \in Outs : ~rings[m].enabled /\ Registered(h) = [rings EXCEPT ![m] = Fresh(h)]
      BY RegisteredRing
    <3>3. PICK m \in Outs : rings' = [rings EXCEPT ![m] = Fresh(h)]
      BY <3>1, <3>2
    <3> QED
      BY <1>0, <3>1, <3>3 DEF TypeInv
  <2> QED
    BY <1>6, <2>1, <2>2, <2>3, <2>4
<1>9. TypeInv'
  <2>1. Fresh(h) \in Ring
    BY FreshType DEF h
  <2>2. rings' \in [Outs -> Ring]
    BY <1>0, <2>1, RegisteredRing DEF TypeInv, h
  <2> QED
    BY <2>2, <1>0, <1>2, <1>3 DEF TypeInv, AtWork
<1>10. EntryInv'
  <2>1. \A q \in Peers : q # p /\ Holds(q)' /\ Kind[q] = Kind[p] => at'[q] # i
    BY <1>2, <1>3 DEF In
  <2> QED
    BY <1>0, <1>2, <1>3, <2>1 DEF EntryInv
<1>11. OwnerInv'
  <2>1. ASSUME NEW k \in Outs, rings'[k].enabled
        PROVE  OfTcp(k)' \/ \E q \in Peers : Kind[q] = "ws" /\ Holds(q)' /\ Serves(k, q)'
    <3>1. CASE rings[k].enabled /\ rings'[k] = rings[k]
      <4>1. OfTcp(k) => OfTcp(k)'
        BY <3>1 DEF OfTcp
      <4>2. \A q \in Peers : Holds(q) /\ Serves(k, q) => Holds(q)' /\ Serves(k, q)'
        BY <1>3, <1>4, <3>1 DEF Serves
      <4> QED
        BY <1>0, <3>1, <4>1, <4>2 DEF OwnerInv
    <3>2. CASE rings'[k] = Fresh(h)
      <4>1. rings'[k].handle = h
        BY <3>2 DEF Fresh
      <4>2. CASE Kind[p] = "ws"
        BY <1>3, <1>4, <2>1, <4>1, <4>2 DEF Serves
      <4>3. CASE Kind[p] = "cmd"
        BY <2>1, <4>1, <4>3 DEF OfTcp, h
      <4> QED
        BY <4>2, <4>3
    <3> QED
      BY <1>6, <2>1, <3>1, <3>2
  <2>2. ASSUME NEW k \in Outs, OfTcp(k)', NEW q \in Peers
        PROVE  /\ Kind[q] \in {"cmd", "data"} => conn'[q] # "new"
               /\ Kind[q] = "data" => tx'[q] # "look"
    <3>1. CASE rings[k].enabled /\ rings'[k] = rings[k]
      <4>1. OfTcp(k)
        BY <2>2, <3>1 DEF OfTcp
      <4> QED
        BY <1>0, <1>2, <4>1 DEF OwnerInv
    <3>2. CASE rings'[k] = Fresh(h)
      <4>1. Kind[p] = "cmd"
        <5>1. SUFFICES ASSUME Kind[p] = "ws" PROVE FALSE
          OBVIOUS
        <5>2. h = <<TRUE, i>>
          BY <5>1 DEF h
        <5>3. rings'[k].handle = h
          BY <3>2 DEF Fresh
        <5>4. \A j \in Entries : rings'[k].handle # <<FALSE, j>>
          BY <5>2, <5>3, TwoHandles, Zenon
        <5> QED
          BY <2>2, <5>4, Zenon DEF OfTcp
      <4>2. Kind[q] = "cmd" => q = p
        BY <4>1 DEF OneConnection
      <4>3. PICK e \in Peers : Kind[e] = "data" /\ Holds(e)
        BY <4>1
      <4>4. Kind[q] = "data" => q = e
        BY <4>3 DEF OneConnection
      <4>5. Kind[q] = "data" => q # p /\ conn'[q] # "new" /\ tx'[q] # "look"
        BY <1>1, <1>2, <4>1, <4>3, <4>4 DEF Holds
      <4> QED
        BY <1>2, <4>2, <4>5
    <3> QED
      BY <1>6, <2>2, <3>1, <3>2 DEF OfTcp
  <2> QED
    BY <1>8, <2>1, <2>2 DEF OwnerInv
<1>12. ThreadInv'
  <2>1. \A q \in Peers : tx'[q] \in WithRing =>
          /\ q # p /\ tx[q] = "wait" /\ conn[q] = "open" /\ idx'[q] = idx[q] /\ idx[q] \in Outs
          /\ Serves(idx[q], q)
    BY <1>0, <1>1, <1>2 DEF ThreadInv, WithRing
  <2>2. \A q \in Peers : tx'[q] \in WithRing => Serves(idx[q], q)'
    BY <1>4, <1>7, <2>1 DEF Serves
  <2>3. \A q \in Peers : conn'[q] \notin {"removing", "gone"} \/ tx'[q] # "wait"
    BY <1>1, <1>2
  <2>4. \A q \in Peers : q # p => tx'[q] \notin AtWork
    BY <1>1, <1>2 DEF AtWork
  <2>5. \A q \in Peers : Kind[q] = "data" => tx'[q] \in {"none", "look", "lost", "end"}
    BY <1>0, <1>2 DEF ThreadInv
  <2>6. \A q \in Peers : conn'[q] = "new" => tx'[q] = "none"
    BY <1>0, <1>2 DEF ThreadInv
  <2> QED
    BY <1>2, <2>1, <2>2, <2>3, <2>4, <2>5, <2>6 DEF ThreadInv
<1>13. PauseInv' /\ RoomInv'
  <2>1. \A q \in Peers : conn'[q] \notin {"leaving", "removing"}
    BY <1>1, <1>2
  <2>2. \A w \in Writers : pr'[w].pc = "idle"
    BY <1>1
  <2> QED
    BY <2>1, <2>2 DEF PauseInv, RoomInv, Reached
<1>14. ContentInv'
  <2> SUFFICES ASSUME NEW q \in Peers, NEW l \in Outs,
                      Kind[q] # "data", conn'[q] = "open",
                      tx'[q] \in AtWork \cup {"wait"}, Serves(l, q)'
               PROVE  Holding(l, q)'
    BY DEF ContentInv
  <2>0. Last(l)' = sent /\ Last(l) = sent
    BY <1>1 DEF Last, Reached
  <2>1. CASE q = p
    <3>1. rings'[l].handle = h /\ rings'[l].enabled
      BY <1>4, <2>1 DEF Serves
    <3>2. rings'[l] = Fresh(h)
      BY <1>5, <1>6, <3>1
    <3>3. rings'[l].in = 0 /\ rings'[l].out = 0
      BY <3>2 DEF Fresh
    <3>4. Had(q)' = sent /\ sent \in Nat
      BY <1>0, <1>2, <2>1 DEF Had, TypeInv
    <3>5. Dist(rings'[l].out, rings'[l].in) = 0
      BY <3>3 DEF Dist
    <3>6. \A j \in Slots : ~(j < 0)
      BY ClientsAssumption DEF Slots
    <3> QED
      BY <2>0, <3>4, <3>5, <3>6 DEF Holding
  <2>2. CASE q # p
    <3>1. conn[q] = "open" /\ tx'[q] = tx[q] /\ Had(q)' = Had(q) /\ Holds(q)
          /\ Handle(q)' = Handle(q)
      BY <1>2, <1>4, <2>2 DEF Had, Holds
    <3>2. rings[l].enabled /\ rings'[l] = rings[l]
      <4>1. SUFFICES ASSUME rings'[l] = Fresh(h) PROVE FALSE
        BY <1>6 DEF Serves
      <4>2. Handle(q) = h
        BY <3>1, <4>1 DEF Serves, Fresh
      <4>3. at[q] = i /\ (Kind[q] = "ws") = (Kind[p] = "ws")
        BY <4>2 DEF Handle, h
      <4>4. Kind[q] \in {"cmd", "ws"}
        BY ClientsAssumption
      <4>5. Kind[q] = Kind[p]
        BY <4>3, <4>4
      <4> QED
        BY <3>1, <4>3, <4>5 DEF In
    <3>3. Holding(l, q)
      BY <1>0, <3>1, <3>2 DEF ContentInv, Serves
    <3> QED
      BY <2>0, <3>1, <3>2, <3>3 DEF Holding
  <2> QED
    BY <2>1, <2>2
<1>15. HandInv'
  <2>1. \A q \in Peers : tx'[q] \notin {"take", "step", "send"}
    BY <1>1, <1>2
  <2> QED
    BY <2>1 DEF HandInv
<1> QED
  BY <1>9, <1>10, <1>11, <1>12, <1>13, <1>14, <1>15 DEF IInv

\* The invariant says nothing of crashed: a step that only crashes keeps it.
LEMMA StutterKeeps ==
  ASSUME IInv, UNCHANGED <<conn, at, rings, tx, idx, hand, pr, sent, got>>
  PROVE  IInv'
<1>1. TypeInv' /\ EntryInv'
  BY DEF IInv, TypeInv, EntryInv, Holds
<1>2. OwnerInv' /\ ThreadInv'
  <2>1. Placed
    BY DEF Placed
  <2>2. OwnerInv' /\ \A l \in Outs, q \in Peers : Serves(l, q)' <=> Serves(l, q)
    BY <2>1, PlacedKeeps DEF IInv
  <2>3. \A q \in Peers : Serves(idx[q], q)' <=> Serves(idx[q], q)
    BY DEF Serves, Handle
  <2>4. ThreadInv'
    BY <2>3 DEF IInv, ThreadInv
  <2> QED
    BY <2>2, <2>4
<1>3. PauseInv' /\ RoomInv' /\ HandInv'
  BY DEF IInv, PauseInv, RoomInv, HandInv, Reached
<1>4. ContentInv'
  BY DEF IInv, ContentInv, Serves, Handle, Holding, Had, Last, Reached
<1> QED
  BY <1>1, <1>2, <1>3, <1>4 DEF IInv

LEMMA AcceptCmdKeeps ==
  ASSUME Calm, OneConnection, IInv, NEW p \in Peers, AcceptCmd(p)
  PROVE  IInv'
<1> DEFINE i == Lowest(Free("cmd"))
<1>1. i \in Entries /\ In("cmd", i) = {} /\ conn[p] = "new" /\ Settled /\ Kind[p] = "cmd"
  BY FreeEntry DEF AcceptCmd, Arrives
<1> HIDE DEF i
<1>2. CASE i \in Free("data")
  BY <1>2, StutterKeeps DEF AcceptCmd, i
<1>3. CASE i \notin Free("data")
  <2>1. \E q \in Peers : Kind[q] = "data" /\ Holds(q)
    BY <1>1, <1>3 DEF Free, In
  <2>2. /\ at' = [at EXCEPT ![p] = i] /\ conn' = [conn EXCEPT ![p] = "open"]
        /\ rings' = Registered(<<FALSE, i>>) /\ got' = [got EXCEPT ![p] = sent]
        /\ tx' = [tx EXCEPT ![p] = "look"] /\ UNCHANGED <<idx, hand, pr, sent>>
    BY <1>3 DEF AcceptCmd, i
  <2>3. rings' = Registered(<<Kind[p] = "ws", i>>)
    BY <1>1, <2>2
  <2> QED
    BY <1>1, <2>1, <2>2, <2>3, Joins
<1> QED
  BY <1>2, <1>3

LEMMA WsOpenKeeps ==
  ASSUME Calm, OneConnection, IInv, NEW p \in Peers, WsOpen(p)
  PROVE  IInv'
<1> DEFINE i == Lowest(Free("ws"))
           t == IF rings' = rings THEN "none" ELSE "look"
<1>1. i \in Entries /\ In("ws", i) = {} /\ conn[p] = "new" /\ Settled /\ Kind[p] = "ws"
  BY FreeEntry DEF WsOpen, Arrives
<1>2. /\ at' = [at EXCEPT ![p] = i] /\ conn' = [conn EXCEPT ![p] = "open"]
      /\ rings' = Registered(<<TRUE, i>>) /\ got' = [got EXCEPT ![p] = sent]
      /\ tx' = [tx EXCEPT ![p] = t] /\ UNCHANGED <<idx, hand, pr, sent>>
  BY DEF WsOpen
<1>3. rings' = Registered(<<Kind[p] = "ws", i>>)
  BY <1>1, <1>2
<1> HIDE DEF i
<1>4. CASE rings' = rings
  <2>1. tx' = [tx EXCEPT ![p] = "none"]
    BY <1>2, <1>4
  <2> QED
    BY <1>1, <1>2, <1>3, <2>1, Joins
<1>5. CASE rings' # rings
  <2>1. tx' = [tx EXCEPT ![p] = "look"]
    BY <1>2, <1>5
  <2> QED
    BY <1>1, <1>2, <1>3, <2>1, Joins
<1> QED
  BY <1>4, <1>5

-----------------------------------------------------------------------------
(* Going                                                                    *)

\* A peer leaves while the rest is at rest: nobody prints and no event is sent.
LEMMA LeaveKeeps ==
  ASSUME Calm, IInv, NEW p \in Peers, Leave(p)
  PROVE  IInv'
<1>0. TypeInv /\ EntryInv /\ OwnerInv /\ ThreadInv /\ PauseInv /\ RoomInv /\ ContentInv /\ HandInv
  BY DEF IInv
<1>1. /\ conn[p] = "open" /\ conn' = [conn EXCEPT ![p] = "leaving"] /\ Settled
      /\ UNCHANGED <<at, rings, tx, idx, hand, pr, sent, got>>
  BY DEF Leave
<1>2. conn'[p] = "leaving" /\ \A q \in Peers : q # p => conn'[q] = conn[q]
  BY <1>0, <1>1 DEF TypeInv
<1>3. /\ \A q \in Peers : /\ conn[q] \in {"new", "open", "gone"}
                          /\ tx[q] \in {"none", "lost", "end", "wait"}
                          /\ tx[q] = "wait" => conn[q] = "open"
      /\ \A k \in Outs : ~rings[k].signalled
      /\ \A w \in Writers : pr[w].pc = "idle"
  BY <1>1, FoundAtRest
<1>4. \A q \in Peers : Holds(q)' <=> Holds(q)
  BY <1>1, <1>2 DEF Holds
<1>5. TypeInv'
  BY <1>0, <1>1, <1>4 DEF TypeInv
<1>6. EntryInv'
  BY <1>0, <1>1, <1>4 DEF EntryInv
<1>7. \A k \in Outs, q \in Peers : Serves(k, q)' <=> Serves(k, q)
  BY <1>1 DEF Serves, Handle
<1>8. OwnerInv'
  <2>1. \A k \in Outs : OfTcp(k)' <=> OfTcp(k)
    BY <1>1 DEF OfTcp
  <2>2. \A k \in Outs : OfTcp(k) =>
          \A q \in Peers : /\ Kind[q] \in {"cmd", "data"} => conn'[q] # "new"
                           /\ Kind[q] = "data" => tx'[q] # "look"
    BY <1>0, <1>1, <1>2 DEF OwnerInv
  <2> QED
    BY <1>0, <1>1, <1>4, <1>7, <2>1, <2>2 DEF OwnerInv
<1>9. ThreadInv'
  <2>1. \A q \in Peers : tx'[q] \in WithRing => idx'[q] = idx[q] /\ idx[q] \in Outs /\ conn[q] = "open"
    BY <1>0, <1>1, <1>3 DEF ThreadInv, WithRing
  <2>2. \A q \in Peers : tx'[q] \in WithRing => Serves(idx[q], q)'
    BY <1>0, <1>1, <1>7, <2>1 DEF ThreadInv
  <2>3. \A q \in Peers : tx'[q] \notin AtWork
    BY <1>1, <1>3 DEF AtWork
  <2>4. \A q \in Peers : tx'[q] = "wait" => conn'[q] \notin {"removing", "gone"}
    BY <1>1, <1>2, <1>3
  <2> QED
    BY <1>0, <1>1, <1>2, <2>1, <2>2, <2>3, <2>4 DEF ThreadInv
<1>10. PauseInv' /\ RoomInv'
  BY <1>0, <1>1, <1>3 DEF PauseInv, RoomInv, Reached
<1>11. ContentInv'
  <2> SUFFICES ASSUME NEW q \in Peers, NEW l \in Outs,
                      Kind[q] # "data", conn'[q] = "open",
                      tx'[q] \in AtWork \cup {"wait"}, Serves(l, q)'
               PROVE  Holding(l, q)'
    BY DEF ContentInv
  <2>1. conn[q] = "open" /\ Had(q)' = Had(q)
    BY <1>1, <1>2 DEF Had
  <2>2. Holding(l, q)
    BY <1>0, <1>1, <1>7, <2>1 DEF ContentInv
  <2> QED
    BY <1>1, <2>1, <2>2, SameContent
<1>12. HandInv'
  BY <1>0, <1>1 DEF HandInv
<1> QED
  BY <1>5, <1>6, <1>8, <1>9, <1>10, <1>11, <1>12 DEF IInv

\* What a thread does to the ring of its client when the connection ends: only
\* the ring that has its handle may change, and of no other client is it.
LEMMA OthersKeepRings ==
  ASSUME IInv, OneConnection, NEW p \in Peers, conn[p] \in {"leaving", "removing"},
         \A l \in Outs : rings'[l] = rings[l] \/ (Kind[p] # "data" /\ Serves(l, p)),
         NEW q \in Peers, q # p, Kind[q] # "data", Holds(q), NEW l \in Outs, Serves(l, q)
  PROVE  rings'[l] = rings[l]
<1>1. SUFFICES ASSUME Kind[p] # "data", Serves(l, p) PROVE FALSE
  OBVIOUS
<1>2. Handle(p) = Handle(q) /\ Holds(p)
  BY <1>1 DEF Serves, Holds
<1> QED
  BY <1>1, <1>2, OneThread DEF IInv

\* The end of a connection, first or second part: the ring that has its handle
\* is emptied, and cancelled or disabled; its thread is not at work.
LEMMA EndKeeps ==
  ASSUME IInv, OneConnection, NEW p \in Peers, NEW c \in {"removing", "gone"},
         conn[p] \in {"leaving", "removing"}, conn' = [conn EXCEPT ![p] = c],
         UNCHANGED <<at, tx, idx, hand, pr, sent, got>>, rings' \in [Outs -> Ring],
         \A l \in Outs : rings'[l] = rings[l] \/ (Kind[p] # "data" /\ Serves(l, p)),
         \A l \in Outs : /\ rings'[l].handle = rings[l].handle
                         /\ rings'[l].enabled => rings[l].enabled
                         /\ rings[l].cancelled => rings'[l].cancelled
                         /\ rings'[l].signalled => rings[l].signalled,
         c = "removing" => \A l \in Outs : rings'[l].enabled = rings[l].enabled,
         c = "removing" /\ tx[p] = "wait" => rings'[idx[p]].cancelled,
         c = "gone" => conn[p] = "removing",
         c = "gone" => \A l \in Outs : Kind[p] = "ws" /\ Serves(l, p) => ~rings'[l].enabled
  PROVE  IInv'
<1>0. TypeInv /\ EntryInv /\ OwnerInv /\ ThreadInv /\ PauseInv /\ RoomInv /\ ContentInv /\ HandInv
  BY DEF IInv
<1>1. conn'[p] = c /\ \A q \in Peers : q # p => conn'[q] = conn[q]
  BY <1>0 DEF TypeInv
<1>2. Holds(p) /\ \A q \in Peers : /\ q # p => (Holds(q)' <=> Holds(q))
                                   /\ Holds(q)' => Holds(q)
  BY <1>1 DEF Holds
<1>3. \A q \in Peers, l \in Outs : q # p /\ Kind[q] # "data" /\ Holds(q) /\ Serves(l, q) =>
        rings'[l] = rings[l]
  BY OthersKeepRings
<1>4. \A w \in Writers : pr[w].pc = "idle"
  BY <1>0 DEF PauseInv
<1>5. TypeInv'
  BY <1>0, <1>2 DEF TypeInv
<1>6. EntryInv'
  BY <1>0, <1>2 DEF EntryInv
<1>7. \A q \in Peers : Handle(q)' = Handle(q)
  BY DEF Handle
<1>8. \A l \in Outs, q \in Peers : Serves(l, q)' => Serves(l, q)
  BY <1>7 DEF Serves
<1>9. OwnerInv'
  <2>1. \A k, l \in Outs : rings'[k].enabled /\ rings'[l].enabled
          /\ rings'[k].handle = rings'[l].handle => k = l
    BY <1>0 DEF OwnerInv
  <2>2. \A k \in Outs : /\ OfTcp(k)' => OfTcp(k)
                        /\ OfTcp(k) /\ rings'[k].enabled => OfTcp(k)'
    BY DEF OfTcp
  <2>3. ASSUME NEW k \in Outs, rings'[k].enabled, ~OfTcp(k)
        PROVE  \E q \in Peers : Kind[q] = "ws" /\ Holds(q)' /\ Serves(k, q)'
    <3>1. PICK q \in Peers : Kind[q] = "ws" /\ Holds(q) /\ Serves(k, q)
      BY <1>0, <2>3 DEF OwnerInv
    <3>2. Serves(k, q)'
      BY <1>7, <2>3, <3>1 DEF Serves
    <3>3. Holds(q)'
      <4>1. CASE q # p
        BY <1>2, <3>1, <4>1
      <4>2. CASE q = p
        BY <1>1, <2>3, <3>1, <4>2 DEF Holds
      <4> QED
        BY <4>1, <4>2
    <3> QED
      BY <3>1, <3>2, <3>3
  <2>4. \A k \in Outs : OfTcp(k) =>
          \A q \in Peers : /\ Kind[q] \in {"cmd", "data"} => conn'[q] # "new"
                           /\ Kind[q] = "data" => tx'[q] # "look"
    BY <1>0, <1>1 DEF OwnerInv
  <2> QED
    BY <2>1, <2>2, <2>3, <2>4 DEF OwnerInv
<1>10. ThreadInv'
  <2>1. tx[p] \notin AtWork
    BY <1>0 DEF ThreadInv
  <2>2. \A q \in Peers : tx[q] \in WithRing => idx[q] \in Outs /\ idx'[q] = idx[q] /\ Kind[q] # "data"
    BY <1>0 DEF ThreadInv, WithRing
  <2>3. ASSUME NEW q \in Peers, tx[q] \in WithRing, conn'[q] \in {"open", "leaving"}
        PROVE  Serves(idx[q], q)'
    <3>1. q # p /\ conn'[q] = conn[q] /\ Holds(q) /\ Serves(idx[q], q)
      BY <1>0, <1>1, <2>3 DEF ThreadInv, Holds
    <3>2. rings'[idx[q]] = rings[idx[q]]
      BY <1>3, <2>2, <2>3, <3>1
    <3> QED
      BY <1>7, <2>2, <2>3, <3>1, <3>2 DEF Serves
  <2>4. ASSUME NEW q \in Peers, tx[q] = "wait", conn'[q] \in {"removing", "gone"}
        PROVE  rings'[idx'[q]].cancelled
    <3>1. idx[q] \in Outs /\ idx'[q] = idx[q]
      BY <2>2, <2>4 DEF WithRing
    <3>2. CASE conn[q] \in {"removing", "gone"}
      BY <1>0, <2>4, <3>1, <3>2 DEF ThreadInv
    <3>3. CASE conn[q] \notin {"removing", "gone"}
      <4>1. q = p /\ c = "removing"
        BY <1>1, <2>4, <3>3
      <4> QED
        BY <2>4, <3>1, <4>1
    <3> QED
      BY <3>2, <3>3
  <2>5. \A q \in Peers : conn'[q] = "new" => conn[q] = "new"
    BY <1>1
  <2>6. \A q \in Peers : tx[q] \in AtWork => conn'[q] = "open"
    BY <1>0, <1>1, <2>1 DEF ThreadInv
  <2> QED
    BY <1>0, <2>2, <2>3, <2>4, <2>5, <2>6 DEF ThreadInv
<1>11. PauseInv'
  <2>1. \A q \in Peers : conn'[q] = "leaving" => conn[q] = "leaving"
    BY <1>1
  <2> QED
    BY <1>0, <1>4, <2>1 DEF PauseInv
<1>12. RoomInv'
  BY <1>4 DEF RoomInv, Reached
<1>13. ContentInv'
  <2> SUFFICES ASSUME NEW q \in Peers, NEW l \in Outs,
                      Kind[q] # "data", conn'[q] = "open",
                      tx'[q] \in AtWork \cup {"wait"}, Serves(l, q)'
               PROVE  Holding(l, q)'
    BY DEF ContentInv
  <2>1. q # p /\ conn[q] = "open" /\ Holds(q) /\ Serves(l, q) /\ Had(q)' = Had(q)
    BY <1>1, <1>8 DEF Holds, Had
  <2>2. rings'[l] = rings[l] /\ Holding(l, q)
    BY <1>0, <1>3, <2>1 DEF ContentInv
  <2>3. Last(l)' = Last(l)
    BY <1>4 DEF Last, Reached
  <2> QED
    BY <2>1, <2>2, <2>3 DEF Holding
<1>14. HandInv'
  <2>1. ASSUME NEW q \in Peers, tx[q] \in {"take", "step"}
        PROVE  rings'[idx[q]] = rings[idx[q]]
    <3>1. conn[q] = "open" /\ idx[q] \in Outs /\ Serves(idx[q], q) /\ Kind[q] # "data" /\ q # p
      BY <1>0, <2>1 DEF ThreadInv, AtWork, WithRing
    <3> QED
      BY <1>3, <3>1 DEF Holds
  <2> QED
    BY <1>0, <2>1 DEF HandInv
<1> QED
  BY <1>5, <1>6, <1>9, <1>10, <1>11, <1>12, <1>13, <1>14 DEF IInv

\* What the end of a connection writes into a ring.
Ended(r)   == [r EXCEPT !.in = 0, !.out = 0, !.cancelled = TRUE]
Removed(r) == [r EXCEPT !.in = 0, !.out = 0, !.text = [i \in 0 .. N - 1 |-> 0],
                        !.enabled = FALSE]

LEMMA EndedRing ==
  ASSUME NEW r \in Ring
  PROVE  /\ Ended(r) \in Ring /\ Ended(r).cancelled /\ Ended(r).enabled = r.enabled
         /\ Ended(r).handle = r.handle /\ Ended(r).signalled = r.signalled
         /\ Removed(r) \in Ring /\ Removed(r).cancelled = r.cancelled /\ ~Removed(r).enabled
         /\ Removed(r).handle = r.handle /\ Removed(r).signalled = r.signalled
<1>1. 0 \in Slots /\ [i \in 0 .. N - 1 |-> 0] \in [Slots -> Nat]
  BY ClientsAssumption DEF Slots
<1>2. /\ Ended(r) \in Ring /\ Ended(r).cancelled /\ Ended(r).enabled = r.enabled
      /\ Ended(r).handle = r.handle /\ Ended(r).signalled = r.signalled
  BY <1>1 DEF Ended, Ring
<1>3. /\ Removed(r) \in Ring /\ Removed(r).cancelled = r.cancelled /\ ~Removed(r).enabled
      /\ Removed(r).handle = r.handle /\ Removed(r).signalled = r.signalled
  BY <1>1 DEF Removed, Ring
<1> QED
  BY <1>2, <1>3

\* exitwait: the event of the client's ring is cancelled before the entry goes.
LEMMA ExitWaitKeeps ==
  ASSUME IInv, OneConnection, NEW p \in Peers, ExitWait(p)
  PROVE  IInv'
<1>0. TypeInv /\ EntryInv /\ OwnerInv /\ ThreadInv
  BY DEF IInv
<1> DEFINE k == IndexOf(Handle(p))
<1>1. /\ conn[p] = "leaving" /\ conn' = [conn EXCEPT ![p] = "removing"]
      /\ UNCHANGED <<at, tx, idx, hand, pr, sent, got>>
      /\ rings' = IF Kind[p] = "data" \/ k = -1 THEN rings
                  ELSE [rings EXCEPT ![k].in = 0, ![k].out = 0, ![k].cancelled = TRUE]
  BY DEF ExitWait
<1>2. /\ \A l \in Outs : Serves(l, p) => k = l
      /\ k # -1 => k \in Outs /\ Serves(k, p)
  BY <1>0, IndexOfRing DEF Serves
<1> HIDE DEF k
<1>3. \A l \in Outs : rings[l] \in Ring
  BY <1>0 DEF TypeInv
<1>4. CASE Kind[p] = "data" \/ k = -1
  <2>1. rings' = rings
    BY <1>1, <1>4
  <2>2. tx[p] # "wait"
    <3>1. -1 \notin Outs
      BY ClientsAssumption
    <3>2. SUFFICES ASSUME tx[p] = "wait" PROVE FALSE
      OBVIOUS
    <3>3. Kind[p] # "data" /\ idx[p] \in Outs /\ Serves(idx[p], p)
      BY <1>0, <1>1, <3>2 DEF ThreadInv, WithRing
    <3> QED
      BY <1>2, <1>4, <3>1, <3>3
  <2>3. rings' \in [Outs -> Ring]
    BY <1>0, <2>1 DEF TypeInv
  <2> QED
    BY <1>1, <2>1, <2>2, <2>3, EndKeeps
<1>5. CASE Kind[p] # "data" /\ k # -1
  <2>1. k \in Outs /\ Serves(k, p) /\ rings[k] \in Ring
    BY <1>2, <1>3, <1>5
  <2>2. rings' = [rings EXCEPT ![k] = Ended(rings[k])]
    BY <1>0, <1>1, <1>5, <2>1 DEF TypeInv, Ended
  <2>3. rings'[k] = Ended(rings[k]) /\ \A l \in Outs : l # k => rings'[l] = rings[l]
    BY <1>0, <2>1, <2>2 DEF TypeInv
  <2>4. /\ Ended(rings[k]) \in Ring /\ rings'[k].cancelled /\ rings'[k].enabled = rings[k].enabled
        /\ rings'[k].handle = rings[k].handle /\ rings'[k].signalled = rings[k].signalled
    BY <2>1, <2>3, EndedRing
  <2>5. rings' \in [Outs -> Ring]
    BY <1>0, <2>2, <2>4 DEF TypeInv
  <2>6. \A l \in Outs : rings'[l] = rings[l] \/ (Kind[p] # "data" /\ Serves(l, p))
    BY <1>5, <2>1, <2>3
  <2>7. \A l \in Outs : /\ rings'[l].handle = rings[l].handle
                        /\ rings'[l].enabled = rings[l].enabled
                        /\ rings[l].cancelled => rings'[l].cancelled
                        /\ rings'[l].signalled => rings[l].signalled
    BY <2>3, <2>4
  <2>8. tx[p] = "wait" => rings'[idx[p]].cancelled
    <3>1. tx[p] = "wait" => idx[p] \in Outs /\ Serves(idx[p], p)
      BY <1>0, <1>1 DEF ThreadInv, WithRing
    <3> QED
      BY <1>2, <2>4, <3>1
  <2> QED
    BY <1>1, <2>5, <2>6, <2>7, <2>8, EndKeeps
<1> QED
  BY <1>4, <1>5

\* onclose: the ring goes before the entry does.
LEMMA ClearKeeps ==
  ASSUME IInv, OneConnection, NEW p \in Peers, Clear(p)
  PROVE  IInv'
<1>0. TypeInv /\ EntryInv /\ OwnerInv /\ ThreadInv
  BY DEF IInv
<1> DEFINE k == IndexOf(Handle(p))
<1>1. /\ conn[p] = "removing" /\ conn' = [conn EXCEPT ![p] = "gone"]
      /\ UNCHANGED <<at, tx, idx, hand, pr, sent, got>>
      /\ rings' = IF Kind[p] # "ws" \/ k = -1 THEN rings
                  ELSE [rings EXCEPT ![k].in = 0, ![k].out = 0,
                          ![k].text = [i \in 0 .. N - 1 |-> 0], ![k].enabled = FALSE]
  BY DEF Clear
<1>2. /\ \A l \in Outs : Serves(l, p) => k = l
      /\ k # -1 => k \in Outs /\ Serves(k, p)
  BY <1>0, IndexOfRing DEF Serves
<1> HIDE DEF k
<1>3. \A l \in Outs : rings[l] \in Ring
  BY <1>0 DEF TypeInv
<1>4. CASE Kind[p] # "ws" \/ k = -1
  <2>1. rings' = rings
    BY <1>1, <1>4
  <2>2. \A l \in Outs : ~(Kind[p] = "ws" /\ Serves(l, p))
    <3>1. -1 \notin Outs
      BY ClientsAssumption
    <3> QED
      BY <1>2, <1>4, <3>1
  <2>3. rings' \in [Outs -> Ring]
    BY <1>0, <2>1 DEF TypeInv
  <2> QED
    BY <1>1, <2>1, <2>2, <2>3, EndKeeps
<1>5. CASE Kind[p] = "ws" /\ k # -1
  <2>1. k \in Outs /\ Serves(k, p) /\ rings[k] \in Ring
    BY <1>2, <1>3, <1>5
  <2>2. rings' = [rings EXCEPT ![k] = Removed(rings[k])]
    BY <1>0, <1>1, <1>5, <2>1 DEF TypeInv, Removed
  <2>3. rings'[k] = Removed(rings[k]) /\ \A l \in Outs : l # k => rings'[l] = rings[l]
    BY <1>0, <2>1, <2>2 DEF TypeInv
  <2>4. /\ Removed(rings[k]) \in Ring /\ rings'[k].cancelled = rings[k].cancelled
        /\ ~rings'[k].enabled
        /\ rings'[k].handle = rings[k].handle /\ rings'[k].signalled = rings[k].signalled
    BY <2>1, <2>3, EndedRing
  <2>5. rings' \in [Outs -> Ring]
    BY <1>0, <2>2, <2>4 DEF TypeInv
  <2>6. \A l \in Outs : rings'[l] = rings[l] \/ (Kind[p] # "data" /\ Serves(l, p))
    BY <1>5, <2>1, <2>3
  <2>7. \A l \in Outs : /\ rings'[l].handle = rings[l].handle
                        /\ rings'[l].enabled => rings[l].enabled
                        /\ rings[l].cancelled => rings'[l].cancelled
                        /\ rings'[l].signalled => rings[l].signalled
    BY <2>3, <2>4
  <2>8. \A l \in Outs : Kind[p] = "ws" /\ Serves(l, p) => ~rings'[l].enabled
    BY <1>2, <2>4
  <2> QED
    BY <1>1, <2>5, <2>6, <2>7, <2>8, EndKeeps
<1> QED
  BY <1>4, <1>5

-----------------------------------------------------------------------------
(* The theorem                                                              *)

LEMMA StepIInv ==
  ASSUME Calm, OnePrinter, OneConnection, IInv, [Next]_vars
  PROVE  IInv'
<1>1. ASSUME NEW p \in Peers, Come(p) PROVE IInv'
  BY <1>1, RefuseKeeps, AcceptDataKeeps, AcceptCmdKeeps, WsOpenKeeps DEF Come
<1>2. ASSUME NEW p \in Peers, Leave(p) PROVE IInv'
  BY <1>2, LeaveKeeps
<1>3. ASSUME NEW p \in Peers, Close(p) PROVE IInv'
  BY <1>3, ExitWaitKeeps, ClearKeeps DEF Close
<1>4. ASSUME NEW p \in Peers, Transmit(p) PROVE IInv'
  BY <1>4, TxLookKeeps, TxTestKeeps, TxWakeKeeps, TxTakeKeeps, TxStepKeeps, TxSendKeeps
  DEF Transmit
<1>5. ASSUME NEW w \in Writers, PrintLine(w) PROVE IInv'
  BY <1>5, PrintLineKeeps
<1>6. ASSUME NEW w \in Writers, Printing(w) PROVE IInv'
  BY <1>6, PrintCopyKeeps, PrintStepKeeps, PrintSignalKeeps DEF Printing
<1>7. CASE UNCHANGED vars
  BY <1>7, StutterKeeps DEF vars
<1> QED
  BY <1>1, <1>2, <1>3, <1>4, <1>5, <1>6, <1>7 DEF Next

LEMMA IInvInOrder == IInv => InOrder
<1> SUFFICES ASSUME IInv, NEW p \in Peers, tx[p] = "send", NEW q \in To(p)
             PROVE  hand[p] = got[q] + 1
  BY DEF InOrder
<1>1. q = p
  BY ToOwn DEF IInv
<1> QED
  BY <1>1 DEF IInv, HandInv

\* What a client receives is every line printed since it came, each once and in
\* the order they were printed (messages.c's rings, msg_print and the transmit
\* threads), for any number of WebSocket connections coming and going, of rings
\* and of slots, with one printer, one connection of each TCP port, and peers
\* and printer that take turns.
THEOREM InOrderCorrect ==
  ASSUME Calm, OnePrinter, OneConnection
  PROVE  Spec => []InOrder
<1>1. Init => IInv
  BY InitIInv
<1>2. IInv /\ [Next]_vars => IInv'
  BY StepIInv
<1>3. IInv => InOrder
  BY IInvInOrder
<1> QED
  BY <1>1, <1>2, <1>3, PTL DEF Spec

-----------------------------------------------------------------------------
(* A WebSocket client's ring goes with it, whoever comes, goes and prints,  *)
(* and whenever                                                             *)

Basic ==
  /\ conn \in [Peers -> {"new", "open", "leaving", "removing", "gone"}]
  /\ at \in [Peers -> Entries \cup {-1}]
  /\ \A p \in Peers : Holds(p) => at[p] \in Entries
  /\ rings \in [Outs -> Ring]
  /\ pr \in [Writers -> Printer] /\ sent \in Nat

\* Ring k has the handle of entry i of ws.c's table.
OfWs(k, i) == rings[k].enabled /\ rings[k].handle = <<TRUE, i>>

WsOwnerInv ==
  /\ \A k, l \in Outs, i \in Entries : OfWs(k, i) /\ OfWs(l, i) => k = l
  /\ \A k \in Outs, i \in Entries : OfWs(k, i) => In("ws", i) # {}

FreedInv == Basic /\ EntryInv /\ WsOwnerInv

\* A ring that is written, or one that does not exist, leaves the others.
LEMMA RingEdited ==
  ASSUME rings \in [Outs -> Ring], NEW k, NEW r,
         k \in Outs => /\ r \in Ring /\ r.enabled = rings[k].enabled
                       /\ r.handle = rings[k].handle,
         rings' = [rings EXCEPT ![k] = r]
  PROVE  /\ rings' \in [Outs -> Ring]
         /\ \A l \in Outs : /\ rings'[l].enabled = rings[l].enabled
                            /\ rings'[l].handle = rings[l].handle
<1>1. CASE k \in Outs
  <2>1. rings' \in [Outs -> Ring]
    BY <1>1
  <2>2. rings'[k] = r /\ \A l \in Outs : l # k => rings'[l] = rings[l]
    BY <1>1
  <2> QED
    BY <1>1, <2>1, <2>2
<1>2. CASE k \notin Outs
  <2>1. rings' = rings
    BY <1>2
  <2> QED
    BY <2>1
<1> QED
  BY <1>1, <1>2

\* While nobody takes or gives back an entry and no ring changes hands, entries
\* and rings keep their owners.
LEMMA HandsKept ==
  ASSUME EntryInv, WsOwnerInv, UNCHANGED at,
         \A p \in Peers : Holds(p)' <=> Holds(p),
         \A l \in Outs : /\ rings'[l].enabled = rings[l].enabled
                         /\ rings'[l].handle = rings[l].handle
  PROVE  EntryInv' /\ WsOwnerInv'
<1>1. EntryInv'
  BY DEF EntryInv
<1>2. \A l \in Outs, i \in Entries : OfWs(l, i)' <=> OfWs(l, i)
  BY DEF OfWs
<1>3. \A i \in Entries : In("ws", i)' = In("ws", i)
  BY DEF In
<1> QED
  BY <1>1, <1>2, <1>3 DEF WsOwnerInv

\* What a transmit thread does to entries and rings.
LEMMA TransmitFreed ==
  ASSUME FreedInv, NEW p \in Peers, Transmit(p)
  PROVE  FreedInv'
<1>0. Basic /\ EntryInv /\ WsOwnerInv
  BY DEF FreedInv
<1>1. UNCHANGED <<conn, at, pr, sent>>
  BY DEF Transmit, TxLook, TxTest, TxWake, TxTake, TxStep, TxSend
<1>2. /\ rings' \in [Outs -> Ring]
      /\ \A l \in Outs : /\ rings'[l].enabled = rings[l].enabled
                         /\ rings'[l].handle = rings[l].handle
  <2> DEFINE k == idx[p]
             Said == [rings[k] EXCEPT !.signalled = FALSE]
             Stepped == [rings[k] EXCEPT !.out = Succ(rings[k].out)]
  <2>1. CASE TxWake(p)
    <3>1. rings' = [rings EXCEPT ![k] = Said]
      BY <1>0, <2>1 DEF TxWake, Basic
    <3>2. k \in Outs => /\ Said \in Ring /\ Said.enabled = rings[k].enabled
                        /\ Said.handle = rings[k].handle
      <4> SUFFICES ASSUME k \in Outs
                   PROVE  /\ Said \in Ring /\ Said.enabled = rings[k].enabled
                          /\ Said.handle = rings[k].handle
        OBVIOUS
      <4>1. rings[k] \in Ring
        BY <1>0 DEF Basic
      <4>2. Said \in Ring
        BY <4>1, RingWritten
      <4> QED
        BY <4>1, <4>2 DEF Ring
    <3> HIDE DEF k, Said
    <3> QED
      BY <1>0, <3>1, <3>2, RingEdited DEF Basic
  <2>2. CASE TxStep(p)
    <3>1. rings' = [rings EXCEPT ![k] = Stepped]
      BY <1>0, <2>2 DEF TxStep, Basic
    <3>2. k \in Outs => /\ Stepped \in Ring /\ Stepped.enabled = rings[k].enabled
                        /\ Stepped.handle = rings[k].handle
      <4> SUFFICES ASSUME k \in Outs
                   PROVE  /\ Stepped \in Ring /\ Stepped.enabled = rings[k].enabled
                          /\ Stepped.handle = rings[k].handle
        OBVIOUS
      <4>1. rings[k] \in Ring
        BY <1>0 DEF Basic
      <4>2. rings[k].out \in Slots
        BY <4>1 DEF Ring
      <4>3. Succ(rings[k].out) \in Slots
        BY <4>2, SuccSlot
      <4>4. Stepped \in Ring
        BY <4>1, <4>3, RingWritten
      <4> QED
        BY <4>1, <4>4 DEF Ring
    <3> HIDE DEF k, Stepped
    <3> QED
      BY <1>0, <3>1, <3>2, RingEdited DEF Basic
  <2>3. CASE UNCHANGED rings
    BY <1>0, <2>3 DEF Basic
  <2> QED
    BY <2>1, <2>2, <2>3 DEF Transmit, TxLook, TxTest, TxTake, TxSend
<1>3. \A q \in Peers : Holds(q)' <=> Holds(q)
  BY <1>1 DEF Holds
<1>4. EntryInv' /\ WsOwnerInv'
  BY <1>0, <1>1, <1>2, <1>3, HandsKept
<1> QED
  BY <1>0, <1>1, <1>2, <1>3, <1>4 DEF FreedInv, Basic

\* A printer stays one.
LEMMA PrinterStays ==
  ASSUME pr \in [Writers -> Printer], sent \in Nat, NEW w \in Writers,
         PrintLine(w) \/ Printing(w)
  PROVE  pr' \in [Writers -> Printer]
<1> DEFINE r == pr[w]
<1>0. r \in Printer
  OBVIOUS
<1>1. CASE PrintLine(w)
  BY <1>1 DEF PrintLine, Printer
<1>2. CASE PrintCopy(w)
  <2> DEFINE S == {k \in Outs : rings[k].enabled /\ k >= pr[w].ring}
             n == Lowest(S)
             c == "step"
  <2>1. CASE S = {}
    <3>1. pr' = [pr EXCEPT ![w] = [pc |-> "idle", ring |-> 0, line |-> 0]]
      BY <1>2, <2>1 DEF PrintCopy
    <3> QED
      BY <3>1 DEF Printer
  <2>2. CASE S # {}
    <3>1. pr' = [pr EXCEPT ![w] = [r EXCEPT !.pc = c, !.ring = n]]
      BY <1>2, <2>2 DEF PrintCopy
    <3>2. S \in SUBSET Nat
      BY ClientsAssumption
    <3>3. n \in Nat
      <4> HIDE DEF S
      <4> QED
        BY <2>2, <3>2, LowestIn
    <3>4. c \in {"idle", "scan", "step", "signal"}
      OBVIOUS
    <3> HIDE DEF n, c, r
    <3>5. [r EXCEPT !.pc = c, !.ring = n] \in Printer
      BY <1>0, <3>3, <3>4 DEF Printer
    <3> QED
      BY <3>1, <3>5
  <2> QED
    BY <2>1, <2>2
<1>3. CASE PrintStep(w)
  <2> DEFINE c == "signal"
  <2>1. pr' = [pr EXCEPT ![w] = [r EXCEPT !.pc = c]] /\ c \in {"idle", "scan", "step", "signal"}
    BY <1>3 DEF PrintStep
  <2> HIDE DEF c, r
  <2>2. [r EXCEPT !.pc = c] \in Printer
    BY <1>0, <2>1 DEF Printer
  <2> QED
    BY <2>1, <2>2
<1>4. CASE PrintSignal(w)
  <2> DEFINE c == "scan"
             n == pr[w].ring + 1
  <2>1. pr' = [pr EXCEPT ![w] = [r EXCEPT !.pc = c, !.ring = n]]
        /\ c \in {"idle", "scan", "step", "signal"}
    BY <1>4 DEF PrintSignal
  <2>2. n \in Nat
    BY <1>0 DEF Printer
  <2> HIDE DEF c, r, n
  <2>3. [r EXCEPT !.pc = c, !.ring = n] \in Printer
    BY <1>0, <2>1, <2>2 DEF Printer
  <2> QED
    BY <2>1, <2>3
<1> QED
  BY <1>1, <1>2, <1>3, <1>4 DEF Printing

\* What a printer does to entries and rings.
LEMMA PrintingFreed ==
  ASSUME FreedInv, NEW w \in Writers, PrintLine(w) \/ Printing(w)
  PROVE  FreedInv'
<1>0. Basic /\ EntryInv /\ WsOwnerInv /\ pr' \in [Writers -> Printer]
  BY PrinterStays DEF FreedInv, Basic
<1>1. UNCHANGED <<conn, at>> /\ sent' \in Nat
  BY <1>0 DEF PrintLine, Printing, PrintCopy, PrintStep, PrintSignal, Basic
<1>2. /\ rings' \in [Outs -> Ring]
      /\ \A l \in Outs : /\ rings'[l].enabled = rings[l].enabled
                         /\ rings'[l].handle = rings[l].handle
  <2>1. CASE PrintCopy(w) /\ rings' # rings
    <3> DEFINE S == {l \in Outs : rings[l].enabled /\ l >= pr[w].ring}
               k == Lowest(S)
               i == rings[k].in
               n == pr[w].line
               Copied == [rings[k] EXCEPT !.text[i] = n]
    <3>1. rings' = [rings EXCEPT ![k] = Copied]
      BY <1>0, <2>1 DEF PrintCopy, Basic
    <3> HIDE DEF k
    <3>2. k \in Outs => /\ Copied \in Ring /\ Copied.enabled = rings[k].enabled
                        /\ Copied.handle = rings[k].handle
      <4> SUFFICES ASSUME k \in Outs
                   PROVE  /\ Copied \in Ring /\ Copied.enabled = rings[k].enabled
                          /\ Copied.handle = rings[k].handle
        OBVIOUS
      <4>1. rings[k] \in Ring
        BY <1>0 DEF Basic
      <4>2. i \in Slots /\ n \in Nat
        BY <1>0, <4>1 DEF Ring, Printer, Basic
      <4> HIDE DEF i, n
      <4>3. Copied \in Ring
        BY <4>1, <4>2, RingWritten
      <4> QED
        BY <4>1, <4>3 DEF Ring
    <3> HIDE DEF Copied
    <3> QED
      BY <1>0, <3>1, <3>2, RingEdited DEF Basic
  <2>2. CASE PrintStep(w)
    <3> DEFINE k == pr[w].ring
               i == Succ(rings[k].in)
               o == IF Succ(rings[k].in) = rings[k].out THEN Succ(rings[k].out) ELSE rings[k].out
               Stepped == [rings[k] EXCEPT !.in = i, !.out = o]
    <3>1. rings' = [rings EXCEPT ![k] = Stepped]
      BY <1>0, <2>2 DEF PrintStep, Basic
    <3> HIDE DEF k
    <3>2. k \in Outs => /\ Stepped \in Ring /\ Stepped.enabled = rings[k].enabled
                        /\ Stepped.handle = rings[k].handle
      <4> SUFFICES ASSUME k \in Outs
                   PROVE  /\ Stepped \in Ring /\ Stepped.enabled = rings[k].enabled
                          /\ Stepped.handle = rings[k].handle
        OBVIOUS
      <4>1. rings[k] \in Ring
        BY <1>0 DEF Basic
      <4>2. rings[k].in \in Slots /\ rings[k].out \in Slots
        BY <4>1 DEF Ring
      <4>3. i \in Slots /\ o \in Slots
        BY <4>2, SuccSlot
      <4> HIDE DEF i, o
      <4>4. Stepped \in Ring
        BY <4>1, <4>3, RingWritten
      <4> QED
        BY <4>1, <4>4 DEF Ring
    <3> HIDE DEF Stepped
    <3> QED
      BY <1>0, <3>1, <3>2, RingEdited DEF Basic
  <2>3. CASE PrintSignal(w)
    <3> DEFINE k == pr[w].ring
               Said == [rings[k] EXCEPT !.signalled = TRUE]
    <3>1. rings' = [rings EXCEPT ![k] = Said]
      BY <1>0, <2>3 DEF PrintSignal, Basic
    <3> HIDE DEF k
    <3>2. k \in Outs => /\ Said \in Ring /\ Said.enabled = rings[k].enabled
                        /\ Said.handle = rings[k].handle
      <4> SUFFICES ASSUME k \in Outs
                   PROVE  /\ Said \in Ring /\ Said.enabled = rings[k].enabled
                          /\ Said.handle = rings[k].handle
        OBVIOUS
      <4>1. rings[k] \in Ring
        BY <1>0 DEF Basic
      <4>2. Said \in Ring
        BY <4>1, RingWritten
      <4> QED
        BY <4>1, <4>2 DEF Ring
    <3> HIDE DEF Said
    <3> QED
      BY <1>0, <3>1, <3>2, RingEdited DEF Basic
  <2>4. CASE UNCHANGED rings
    BY <1>0, <2>4 DEF Basic
  <2> QED
    BY <2>1, <2>2, <2>3, <2>4 DEF Printing, PrintLine
<1>3. \A q \in Peers : Holds(q)' <=> Holds(q)
  BY <1>1 DEF Holds
<1>4. EntryInv' /\ WsOwnerInv'
  BY <1>0, <1>1, <1>2, <1>3, HandsKept
<1> QED
  BY <1>0, <1>1, <1>2, <1>3, <1>4 DEF FreedInv, Basic

\* A handle leads to the only ring that has it.
LEMMA IndexOfOnly ==
  ASSUME NEW h, \A k, l \in Outs : rings[k].enabled /\ rings[k].handle = h
                                   /\ rings[l].enabled /\ rings[l].handle = h => k = l
  PROVE  /\ \A k \in Outs : rings[k].enabled /\ rings[k].handle = h => IndexOf(h) = k
         /\ (\A k \in Outs : ~(rings[k].enabled /\ rings[k].handle = h)) => IndexOf(h) = -1
<1> DEFINE S == {k \in Outs : rings[k].enabled /\ rings[k].handle = h}
<1>1. IndexOf(h) = IF S = {} THEN -1 ELSE Lowest(S)
  BY DEF IndexOf
<1>2. \A k \in S : S = {k}
  OBVIOUS
<1>3. Outs \subseteq Nat
  BY ClientsAssumption
<1>4. ASSUME NEW k \in S PROVE Lowest(S) = k
  <2>1. Lowest({k}) = k
    BY <1>3 DEF Lowest
  <2> QED
    BY <1>2, <2>1
<1>5. ASSUME NEW k \in S PROVE IndexOf(h) = k
  BY <1>1, <1>4, <1>5
<1> QED
  BY <1>1, <1>5

\* A connection that takes an entry nobody has is alone in it.
LEMMA EntryTaken ==
  ASSUME Basic, EntryInv, NEW p \in Peers, NEW i \in Entries, conn[p] = "new",
         In(Kind[p], i) = {}, at' = [at EXCEPT ![p] = i], conn' = [conn EXCEPT ![p] = "open"]
  PROVE  /\ EntryInv' /\ at'[p] = i /\ Holds(p)'
         /\ \A q \in Peers : q # p => at'[q] = at[q] /\ (Holds(q)' <=> Holds(q))
         /\ conn' \in [Peers -> {"new", "open", "leaving", "removing", "gone"}]
         /\ at' \in [Peers -> Entries \cup {-1}]
         /\ \A q \in Peers : Holds(q)' => at'[q] \in Entries
<1>1. conn'[p] = "open" /\ at'[p] = i
      /\ \A q \in Peers : q # p => conn'[q] = conn[q] /\ at'[q] = at[q]
  BY DEF Basic
<1>2. Holds(p)' /\ \A q \in Peers : q # p => (Holds(q)' <=> Holds(q))
  BY <1>1 DEF Holds
<1>3. \A q \in Peers : q # p /\ Holds(q)' /\ Kind[q] = Kind[p] => at'[q] # i
  BY <1>1, <1>2 DEF In
<1>4. EntryInv'
  BY <1>1, <1>2, <1>3 DEF EntryInv
<1> QED
  BY <1>1, <1>2, <1>4 DEF Basic

\* A connection that comes takes a free entry; a ring it is given has its handle.
LEMMA ComeFreed ==
  ASSUME FreedInv, NEW p \in Peers, AcceptData(p) \/ AcceptCmd(p) \/ WsOpen(p)
  PROVE  FreedInv'
<1>0. Basic /\ EntryInv /\ WsOwnerInv
  BY DEF FreedInv
<1>1. CASE UNCHANGED <<conn, at, rings>>
  <2>1. pr' = pr /\ sent' = sent
    BY DEF AcceptData, AcceptCmd, WsOpen
  <2>2. \A q \in Peers : Holds(q)' <=> Holds(q)
    BY <1>1 DEF Holds
  <2>3. EntryInv' /\ WsOwnerInv'
    BY <1>0, <1>1, <2>2, HandsKept
  <2> QED
    BY <1>0, <1>1, <2>1, <2>2, <2>3 DEF FreedInv, Basic
<1>2. CASE conn[p] = "new" /\ pr' = pr /\ sent' = sent
           /\ \E i \in Entries :
                /\ In(Kind[p], i) = {} /\ at' = [at EXCEPT ![p] = i]
                /\ conn' = [conn EXCEPT ![p] = "open"]
                /\ rings' = rings \/ rings' = Registered(<<Kind[p] = "ws", i>>)
  <2>1. PICK i \in Entries :
          /\ In(Kind[p], i) = {} /\ at' = [at EXCEPT ![p] = i]
          /\ conn' = [conn EXCEPT ![p] = "open"]
          /\ rings' = rings \/ rings' = Registered(<<Kind[p] = "ws", i>>)
    BY <1>2
  <2>2. /\ EntryInv' /\ at'[p] = i /\ Holds(p)'
        /\ \A q \in Peers : q # p => at'[q] = at[q] /\ (Holds(q)' <=> Holds(q))
        /\ conn' \in [Peers -> {"new", "open", "leaving", "removing", "gone"}]
        /\ at' \in [Peers -> Entries \cup {-1}]
        /\ \A q \in Peers : Holds(q)' => at'[q] \in Entries
    BY <1>0, <1>2, <2>1, EntryTaken
  <2>3. ~Holds(p)
    BY <1>2 DEF Holds
  <2>4. \A j \in Entries : In("ws", j) # {} => In("ws", j)' # {}
    <3> SUFFICES ASSUME NEW j \in Entries, NEW q \in In("ws", j) PROVE In("ws", j)' # {}
      OBVIOUS
    <3>1. q \in In("ws", j)'
      BY <2>2, <2>3 DEF In
    <3> QED
      BY <3>1
  <2> DEFINE h == <<Kind[p] = "ws", i>>
  <2>5. \/ rings' = rings
        \/ \E k \in Outs : ~rings[k].enabled /\ rings' = [rings EXCEPT ![k] = Fresh(h)]
    BY <2>1, RegisteredRing
  <2>6. rings' \in [Outs -> Ring]
    <3>1. Fresh(h) \in Ring
      BY FreshType
    <3> HIDE DEF h
    <3> QED
      BY <1>0, <2>5, <3>1 DEF Basic
  <2>7. CASE rings' = rings
    <3>1. \A l \in Outs, j \in Entries : OfWs(l, j)' <=> OfWs(l, j)
      BY <2>7 DEF OfWs
    <3>2. WsOwnerInv'
      BY <1>0, <2>4, <3>1 DEF WsOwnerInv
    <3> QED
      BY <1>0, <1>2, <2>2, <2>6, <3>2 DEF FreedInv, Basic
  <2>8. ASSUME NEW k \in Outs, ~rings[k].enabled, rings' = [rings EXCEPT ![k] = Fresh(h)]
        PROVE  FreedInv'
    <3>1. rings'[k] = Fresh(h) /\ \A l \in Outs : l # k => rings'[l] = rings[l]
      BY <1>0, <2>8 DEF Basic
    <3>2. \A l \in Outs, j \in Entries : l # k => (OfWs(l, j)' <=> OfWs(l, j))
      BY <3>1 DEF OfWs
    <3>3. rings'[k].handle = h
      BY <3>1 DEF Fresh
    <3>4. CASE Kind[p] = "ws"
      <4>1. h = <<TRUE, i>>
        BY <3>4
      <4>2. \A j \in Entries : OfWs(k, j)' => j = i
        BY <3>3, <4>1 DEF OfWs
      <4>3. In("ws", i)' # {}
        <5>1. p \in In("ws", i)'
          BY <2>2, <3>4 DEF In
        <5> QED
          BY <5>1
      <4>4. \A l \in Outs : ~OfWs(l, i)
        BY <1>0, <2>1, <3>4 DEF WsOwnerInv
      <4>5. \A l \in Outs, j \in Entries : OfWs(l, j)' => In("ws", j)' # {}
        BY <1>0, <2>4, <3>2, <4>2, <4>3 DEF WsOwnerInv
      <4>6. \A l, m \in Outs, j \in Entries : OfWs(l, j)' /\ OfWs(m, j)' => l = m
        BY <1>0, <3>2, <4>2, <4>4 DEF WsOwnerInv
      <4>7. WsOwnerInv'
        BY <4>5, <4>6 DEF WsOwnerInv
      <4> QED
        BY <1>0, <1>2, <2>2, <2>6, <4>7 DEF FreedInv, Basic
    <3>5. CASE Kind[p] # "ws"
      <4>1. h = <<FALSE, i>>
        BY <3>5
      <4>2. \A j \in Entries : <<TRUE, j>> # h
        BY <4>1, TwoHandles, Zenon
      <4>3. \A j \in Entries : ~OfWs(k, j)'
        BY <3>3, <4>2, Zenon DEF OfWs
      <4>4. WsOwnerInv'
        BY <1>0, <2>4, <3>2, <4>3 DEF WsOwnerInv
      <4> QED
        BY <1>0, <1>2, <2>2, <2>6, <4>4 DEF FreedInv, Basic
    <3> QED
      BY <3>4, <3>5
  <2> QED
    BY <2>5, <2>7, <2>8
<1>3. CASE AcceptData(p)
  BY <1>2, <1>3, FreeEntry DEF AcceptData, Arrives
<1>4. CASE AcceptCmd(p)
  <2>1. CASE Lowest(Free("cmd")) \in Free("data")
    BY <1>1, <1>4, <2>1 DEF AcceptCmd
  <2>2. CASE Lowest(Free("cmd")) \notin Free("data")
    <3> DEFINE i == Lowest(Free("cmd"))
    <3>1. i \in Entries /\ In("cmd", i) = {} /\ Kind[p] = "cmd" /\ conn[p] = "new"
      BY <1>4, FreeEntry DEF AcceptCmd, Arrives
    <3>2. /\ at' = [at EXCEPT ![p] = i] /\ conn' = [conn EXCEPT ![p] = "open"]
          /\ rings' = Registered(<<FALSE, i>>) /\ pr' = pr /\ sent' = sent
      BY <1>4, <2>2 DEF AcceptCmd
    <3> HIDE DEF i
    <3>3. rings' = Registered(<<Kind[p] = "ws", i>>) /\ In(Kind[p], i) = {}
      BY <3>1, <3>2
    <3> QED
      BY <1>2, <3>1, <3>2, <3>3
  <2> QED
    BY <2>1, <2>2
<1>5. CASE WsOpen(p)
  <2> DEFINE i == Lowest(Free("ws"))
  <2>1. i \in Entries /\ In("ws", i) = {} /\ Kind[p] = "ws" /\ conn[p] = "new"
    BY <1>5, FreeEntry DEF WsOpen, Arrives
  <2>2. /\ at' = [at EXCEPT ![p] = i] /\ conn' = [conn EXCEPT ![p] = "open"]
        /\ rings' = Registered(<<TRUE, i>>) /\ pr' = pr /\ sent' = sent
    BY <1>5 DEF WsOpen
  <2> HIDE DEF i
  <2>3. rings' = Registered(<<Kind[p] = "ws", i>>) /\ In(Kind[p], i) = {}
    BY <2>1, <2>2
  <2> QED
    BY <1>2, <2>1, <2>2, <2>3
<1> QED
  BY <1>3, <1>4, <1>5

\* A connection that is refused or that begins to leave, and exitwait.
LEMMA AwayFreed ==
  ASSUME FreedInv, NEW p \in Peers, Refuse(p) \/ Leave(p) \/ ExitWait(p)
  PROVE  FreedInv'
<1>0. Basic /\ EntryInv /\ WsOwnerInv
  BY DEF FreedInv
<1>1. UNCHANGED <<at, pr, sent>>
  BY DEF Refuse, Leave, ExitWait
<1>2. /\ conn' \in [Peers -> {"new", "open", "leaving", "removing", "gone"}]
      /\ \A q \in Peers : Holds(q)' <=> Holds(q)
  BY <1>0 DEF Basic, Holds, Refuse, Arrives, Leave, ExitWait
<1>3. /\ rings' \in [Outs -> Ring]
      /\ \A l \in Outs : /\ rings'[l].enabled = rings[l].enabled
                         /\ rings'[l].handle = rings[l].handle
  <2>1. CASE ExitWait(p) /\ rings' # rings
    <3> DEFINE k == IndexOf(Handle(p))
    <3>1. rings' = [rings EXCEPT ![k] = Ended(rings[k])]
      BY <1>0, <2>1 DEF ExitWait, Basic, Ended
    <3> HIDE DEF k
    <3>2. k \in Outs => /\ Ended(rings[k]) \in Ring /\ Ended(rings[k]).enabled = rings[k].enabled
                        /\ Ended(rings[k]).handle = rings[k].handle
      BY <1>0, EndedRing DEF Basic
    <3> QED
      BY <1>0, <3>1, <3>2, RingEdited DEF Basic
  <2>2. CASE UNCHANGED rings
    BY <1>0, <2>2 DEF Basic
  <2> QED
    BY <2>1, <2>2 DEF Refuse, Leave
<1>4. EntryInv' /\ WsOwnerInv'
  BY <1>0, <1>1, <1>2, <1>3, HandsKept
<1> QED
  BY <1>0, <1>1, <1>2, <1>3, <1>4 DEF FreedInv, Basic

\* onclose disables the ring that has the entry's handle before the entry is free.
LEMMA ClearFreed ==
  ASSUME FreedInv, NEW p \in Peers, Clear(p)
  PROVE  FreedInv'
<1>0. Basic /\ EntryInv /\ WsOwnerInv
  BY DEF FreedInv
<1> DEFINE k == IndexOf(Handle(p))
<1>1. /\ conn[p] = "removing" /\ conn' = [conn EXCEPT ![p] = "gone"]
      /\ UNCHANGED <<at, pr, sent>>
      /\ rings' = IF Kind[p] # "ws" \/ k = -1 THEN rings
                  ELSE [rings EXCEPT ![k].in = 0, ![k].out = 0,
                          ![k].text = [i \in 0 .. N - 1 |-> 0], ![k].enabled = FALSE]
  BY DEF Clear
<1>2. Holds(p) /\ ~Holds(p)' /\ \A q \in Peers : q # p => (Holds(q)' <=> Holds(q))
  BY <1>0, <1>1 DEF Basic, Holds
<1>3. at[p] \in Entries /\ -1 \notin Outs
  BY <1>0, <1>2, ClientsAssumption DEF Basic
<1>4. Kind[p] = "ws" => \A l \in Outs : OfWs(l, at[p]) => k = l
  <2> SUFFICES ASSUME Kind[p] = "ws" PROVE \A l \in Outs : OfWs(l, at[p]) => k = l
    OBVIOUS
  <2>1. Handle(p) = <<TRUE, at[p]>>
    BY DEF Handle
  <2> DEFINE h == <<TRUE, at[p]>>
  <2>2. \A l, m \in Outs : rings[l].enabled /\ rings[l].handle = h
                           /\ rings[m].enabled /\ rings[m].handle = h => l = m
    <3>1. \A l, m \in Outs : OfWs(l, at[p]) /\ OfWs(m, at[p]) => l = m
      BY <1>0, <1>3 DEF WsOwnerInv
    <3>2. \A l \in Outs : OfWs(l, at[p]) <=> rings[l].enabled /\ rings[l].handle = h
      BY DEF OfWs
    <3> HIDE DEF h
    <3> QED
      BY <3>1, <3>2
  <2> HIDE DEF h
  <2>3. \A l \in Outs : rings[l].enabled /\ rings[l].handle = h => IndexOf(h) = l
    BY <2>2, IndexOfOnly
  <2> QED
    BY <2>1, <2>3 DEF OfWs, h
<1> HIDE DEF k
<1>5. /\ rings' \in [Outs -> Ring]
      /\ \A l \in Outs : /\ rings'[l].handle = rings[l].handle
                         /\ rings'[l].enabled => rings[l].enabled
      /\ Kind[p] = "ws" /\ k \in Outs => ~rings'[k].enabled
  <2>1. CASE Kind[p] # "ws" \/ k \notin Outs
    <3>1. rings' = rings
      BY <1>0, <1>1, <2>1 DEF Basic
    <3> QED
      BY <1>0, <2>1, <3>1 DEF Basic
  <2>2. CASE Kind[p] = "ws" /\ k \in Outs
    <3>1. rings[k] \in Ring
      BY <1>0, <2>2 DEF Basic
    <3>2. rings' = [rings EXCEPT ![k] = Removed(rings[k])]
      BY <1>0, <1>1, <1>3, <2>2 DEF Basic, Removed
    <3>3. Removed(rings[k]) \in Ring /\ ~Removed(rings[k]).enabled
          /\ Removed(rings[k]).handle = rings[k].handle
      BY <3>1, EndedRing
    <3>4. rings'[k] = Removed(rings[k]) /\ \A l \in Outs : l # k => rings'[l] = rings[l]
      BY <1>0, <2>2, <3>2 DEF Basic
    <3>5. rings' \in [Outs -> Ring]
      BY <1>0, <3>2, <3>3 DEF Basic
    <3> QED
      BY <3>3, <3>4, <3>5
  <2> QED
    BY <2>1, <2>2
<1>6. EntryInv'
  BY <1>0, <1>1, <1>2 DEF EntryInv
<1>7. \A l \in Outs, j \in Entries : OfWs(l, j)' => OfWs(l, j)
  BY <1>5 DEF OfWs
<1>8. ASSUME NEW l \in Outs, NEW j \in Entries, OfWs(l, j)'
      PROVE  In("ws", j)' # {}
  <2>1. PICK q \in In("ws", j) : TRUE
    BY <1>0, <1>7, <1>8 DEF WsOwnerInv
  <2>2. q # p
    <3>1. SUFFICES ASSUME q = p PROVE FALSE
      OBVIOUS
    <3>2. Kind[p] = "ws" /\ at[p] = j
      BY <2>1, <3>1 DEF In
    <3>3. k = l
      BY <1>4, <1>7, <1>8, <3>2
    <3> QED
      BY <1>5, <1>8, <3>2, <3>3 DEF OfWs
  <2>3. q \in In("ws", j)'
    BY <1>1, <1>2, <2>1, <2>2 DEF In
  <2> QED
    BY <2>3
<1>9. WsOwnerInv'
  BY <1>0, <1>7, <1>8 DEF WsOwnerInv
<1>10. Basic'
  BY <1>0, <1>1, <1>2, <1>5 DEF Basic
<1> QED
  BY <1>6, <1>9, <1>10 DEF FreedInv

LEMMA InitFreed == Init => FreedInv
<1> SUFFICES ASSUME Init PROVE FreedInv
  OBVIOUS
<1>1. IInv
  BY InitIInv
<1>2. Basic /\ EntryInv
  BY <1>1 DEF IInv, TypeInv, Basic
<1>3. \A k \in Outs, i \in Entries : ~OfWs(k, i)
  BY DEF Init, OfWs
<1> QED
  BY <1>2, <1>3 DEF FreedInv, WsOwnerInv

LEMMA StepFreed ==
  ASSUME FreedInv, [Next]_vars
  PROVE  FreedInv'
<1>1. ASSUME NEW p \in Peers, Come(p) \/ Leave(p) \/ Close(p) PROVE FreedInv'
  BY <1>1, ComeFreed, AwayFreed, ClearFreed DEF Come, Close
<1>2. ASSUME NEW p \in Peers, Transmit(p) PROVE FreedInv'
  BY <1>2, TransmitFreed
<1>3. ASSUME NEW w \in Writers, PrintLine(w) \/ Printing(w) PROVE FreedInv'
  BY <1>3, PrintingFreed
<1>4. CASE UNCHANGED vars
  <2>1. EntryInv' /\ WsOwnerInv'
    BY <1>4, HandsKept DEF vars, Holds, FreedInv
  <2> QED
    BY <1>4, <2>1 DEF vars, FreedInv, Basic, Holds
<1> QED
  BY <1>1, <1>2, <1>3, <1>4 DEF Next

\* Of a WebSocket client that left no ring remains (the second part of
\* LeftNothingBehind), and an entry has one connection (tcp_listener and ws.c's
\* table): whoever comes, goes and prints, in any order, whatever the threads
\* are doing meanwhile.
THEOREM RingGoesWithClient ==
  /\ Spec => []EntryInv
  /\ \A i \in Entries :
       Spec => [](In("ws", i) = {} /\ ~crashed => IndexOf(<<TRUE, i>>) = -1)
<1>1. Init => FreedInv
  BY InitFreed
<1>2. FreedInv /\ [Next]_vars => FreedInv'
  BY StepFreed
<1>3. Spec => []FreedInv
  BY <1>1, <1>2, PTL DEF Spec
<1>4. FreedInv => EntryInv
  BY DEF FreedInv
<1>5. ASSUME NEW i \in Entries
      PROVE  Spec => [](In("ws", i) = {} /\ ~crashed => IndexOf(<<TRUE, i>>) = -1)
  <2>1. FreedInv => (In("ws", i) = {} /\ ~crashed => IndexOf(<<TRUE, i>>) = -1)
    <3> SUFFICES ASSUME FreedInv, In("ws", i) = {} PROVE IndexOf(<<TRUE, i>>) = -1
      OBVIOUS
    <3> DEFINE h == <<TRUE, i>>
    <3>1. \A l \in Outs : ~(rings[l].enabled /\ rings[l].handle = h)
      BY DEF FreedInv, WsOwnerInv, OfWs
    <3> HIDE DEF h
    <3>2. \A k, l \in Outs : rings[k].enabled /\ rings[k].handle = h
                             /\ rings[l].enabled /\ rings[l].handle = h => k = l
      BY <3>1
    <3>3. (\A l \in Outs : ~(rings[l].enabled /\ rings[l].handle = h)) => IndexOf(h) = -1
      BY <3>2, IndexOfOnly
    <3> QED
      BY <3>1, <3>3 DEF h
  <2> QED
    BY <1>3, <2>1, PTL
<1>6. Spec => []EntryInv
  BY <1>3, <1>4, PTL
<1> QED
  BY <1>5, <1>6

=============================================================================
