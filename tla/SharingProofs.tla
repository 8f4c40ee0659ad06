---------------------------- MODULE SharingProofs ----------------------------
(***************************************************************************)
(* Theorems about what the program's threads have in common: the registers *)
(* of the FPGA, of which io_fpga_mutex makes whole settings (Board), and   *)
(* the ring of the clients' command lines under its mutex (InQueue).       *)
(*                                                                         *)
(* Of Board: nothing a thread writes is undone by another, each capture is *)
(* triggered as its dump asked, the interface is the same for the program  *)
(* and the FPGA between commands, a drive's image is all of one file and   *)
(* the detection of drives asks one line at a time -- for any drives,      *)
(* wiring, commands and number of calls, while drives are wired to the     *)
(* port (Wired), the commands are of the kinds the model knows (Commands)  *)
(* and a shell sets up what the clients leave alone meanwhile (Apart).     *)
(* Each theorem names its hypotheses.                                      *)
(*                                                                         *)
(* Of InQueue: its invariants and its refinement, for every size of the    *)
(* ring and any set of clients.                                            *)
(***************************************************************************)
EXTENDS Board, InQueue, SequenceTheorems, FiniteSetTheorems, TLAPS

-----------------------------------------------------------------------------
(* Lists of accesses                                                        *)

Listing(s) == \E S : s \in Seq(S)

\* What two lists make, one after the other.
LEMMA Joined ==
  ASSUME NEW s, NEW u, Listing(s), Listing(u)
  PROVE  /\ Listing(s \o u) /\ Len(s \o u) = Len(s) + Len(u)
         /\ Len(s) \in Nat /\ Len(u) \in Nat /\ Len(s \o u) \in Nat
         /\ DOMAIN s = 1 .. Len(s) /\ DOMAIN u = 1 .. Len(u)
         /\ DOMAIN (s \o u) = 1 .. Len(s) + Len(u)
         /\ \A i \in 1 .. Len(s) : (s \o u)[i] = s[i]
         /\ \A i \in 1 .. Len(u) : (s \o u)[Len(s) + i] = u[i]
<1>1. PICK S : s \in Seq(S)
  BY DEF Listing
<1>2. PICK U : u \in Seq(U)
  BY DEF Listing
<1> DEFINE T == S \cup U
<1>3. s \in Seq(T) /\ u \in Seq(T)
  BY <1>1, <1>2
<1> HIDE DEF T
<1>4. s \o u \in Seq(T)
  BY <1>3
<1>5. Len(s \o u) = Len(s) + Len(u) /\ Len(s) \in Nat /\ Len(u) \in Nat
  BY <1>3
<1>6. /\ DOMAIN s = 1 .. Len(s) /\ DOMAIN u = 1 .. Len(u)
      /\ DOMAIN (s \o u) = 1 .. Len(s \o u)
  BY <1>3, <1>4
<1>7. \A i \in 1 .. Len(s) : (s \o u)[i] = s[i]
  BY <1>3
<1>8. \A i \in 1 .. Len(u) : (s \o u)[Len(s) + i] = u[i]
  BY <1>3
<1> QED
  BY <1>4, <1>5, <1>6, <1>7, <1>8 DEF Listing

\* A list is what its first access and the others make.
LEMMA Rest ==
  ASSUME NEW s, Listing(s), s # <<>>
  PROVE  /\ Listing(Tail(s)) /\ Len(s) \in Nat \ {0} /\ Len(Tail(s)) = Len(s) - 1
         /\ DOMAIN s = 1 .. Len(s) /\ DOMAIN Tail(s) = 1 .. Len(s) - 1
         /\ Head(s) = s[1] /\ \A i \in 1 .. Len(s) - 1 : Tail(s)[i] = s[i + 1]
<1>1. PICK S : s \in Seq(S)
  BY DEF Listing
<1>2. Len(s) \in Nat \ {0} /\ DOMAIN s = 1 .. Len(s)
  BY <1>1
<1>3. Tail(s) \in Seq(S) /\ Len(Tail(s)) = Len(s) - 1
  BY <1>1
<1>4. DOMAIN Tail(s) = 1 .. Len(s) - 1
  BY <1>2, <1>3
<1>5. \A i \in 1 .. Len(s) - 1 : Tail(s)[i] = s[i + 1]
  BY <1>1
<1>6. Head(s) = s[1]
  BY <1>1
<1> QED
  BY <1>2, <1>3, <1>4, <1>5, <1>6 DEF Listing

LEMMA Listed ==
  /\ Listing(<<>>) /\ Len(<<>>) = 0 /\ DOMAIN <<>> = {}
  /\ \A a : Listing(<<a>>) /\ Len(<<a>>) = 1 /\ DOMAIN <<a>> = {1} /\ <<a>>[1] = a
<1>1. <<>> \in Seq({})
  OBVIOUS
<1>2. \A a : <<a>> \in Seq({a}) /\ Len(<<a>>) = 1 /\ <<a>>[1] = a
  OBVIOUS
<1>3. \A a : DOMAIN <<a>> = {1}
  BY <1>2
<1>4. Len(<<>>) = 0 /\ DOMAIN <<>> = {}
  OBVIOUS
<1> QED
  BY <1>1, <1>2, <1>3, <1>4 DEF Listing

-----------------------------------------------------------------------------
(* The mutex in a list                                                      *)

\* The mutex is held before access i: the next the list does with it is to
\* release it.
Closing(s, i) ==
  \E k \in i .. Len(s) : s[k].op = "unlock" /\ \A j \in i .. k - 1 : s[j].op # "lock"

LEMMA ClosingStep ==
  ASSUME NEW s, NEW i \in 1 .. Len(s), Len(s) \in Nat
  PROVE  /\ s[i].op = "lock" => ~Closing(s, i)
         /\ s[i].op = "unlock" => Closing(s, i)
         /\ s[i].op \notin {"lock", "unlock"} => (Closing(s, i) <=> Closing(s, i + 1))
<1>1. ASSUME s[i].op = "lock" PROVE ~Closing(s, i)
  BY <1>1 DEF Closing
<1>2. ASSUME s[i].op = "unlock" PROVE Closing(s, i)
  BY <1>2 DEF Closing
<1>3. ASSUME s[i].op \notin {"lock", "unlock"}, Closing(s, i) PROVE Closing(s, i + 1)
  BY <1>3 DEF Closing
<1>4. ASSUME s[i].op \notin {"lock", "unlock"}, Closing(s, i + 1) PROVE Closing(s, i)
  <2>1. PICK k \in i + 1 .. Len(s) : s[k].op = "unlock" /\ \A j \in i + 1 .. k - 1 : s[j].op # "lock"
    BY <1>4 DEF Closing
  <2>2. \A j \in i .. k - 1 : j = i \/ j \in i + 1 .. k - 1
    BY <2>1
  <2> QED
    BY <1>4, <2>1, <2>2 DEF Closing
<1> QED
  BY <1>1, <1>2, <1>3, <1>4

LEMMA ClosingEnd == ASSUME NEW s, Len(s) \in Nat PROVE ~Closing(s, Len(s) + 1)
BY DEF Closing

LEMMA ClosingJoin ==
  ASSUME NEW s, NEW u, Listing(s), Listing(u), ~Closing(u, 1)
  PROVE  /\ \A i \in 1 .. Len(s) + 1 : Closing(s \o u, i) <=> Closing(s, i)
         /\ \A i \in 1 .. Len(u) + 1 : Closing(s \o u, Len(s) + i) <=> Closing(u, i)
<1> DEFINE c == s \o u  n == Len(s)  m == Len(u)
<1>0. /\ n \in Nat /\ m \in Nat /\ Len(c) = n + m
      /\ \A i \in 1 .. n : c[i] = s[i]
      /\ \A i \in 1 .. m : c[n + i] = u[i]
  BY Joined
<1> HIDE DEF c, n, m
<1>1. ASSUME NEW i \in 1 .. n + 1, NEW k \in i .. n,
             s[k].op = "unlock", \A j \in i .. k - 1 : s[j].op # "lock"
      PROVE  Closing(c, i)
  <2>1. k \in i .. Len(c) /\ c[k].op = "unlock" /\ \A j \in i .. k - 1 : c[j].op # "lock"
    BY <1>0, <1>1
  <2> QED
    BY <2>1 DEF Closing
<1>2. ASSUME NEW i \in 1 .. n + 1, NEW k \in i .. n + m,
             c[k].op = "unlock", \A j \in i .. k - 1 : c[j].op # "lock"
      PROVE  k \in i .. n /\ s[k].op = "unlock" /\ \A j \in i .. k - 1 : s[j].op # "lock"
  <2>1. CASE k <= n
    BY <1>0, <1>2, <2>1
  <2>2. CASE k > n
    <3>1. PICK l \in 1 .. m : k = n + l
      <4>1. k - n \in 1 .. m /\ k = n + (k - n)
        BY <1>0, <2>2
      <4> QED
        BY <4>1
    <3>2. u[l].op = "unlock"
      BY <1>0, <1>2, <3>1
    <3>3. \A j \in 1 .. l - 1 : u[j].op # "lock"
      <4> SUFFICES ASSUME NEW j \in 1 .. l - 1 PROVE u[j].op # "lock"
        OBVIOUS
      <4>1. n + j \in i .. k - 1 /\ c[n + j] = u[j]
        BY <1>0, <3>1
      <4> QED
        BY <4>1, <1>2
    <3>4. Closing(u, 1)
      BY <3>1, <3>2, <3>3, <1>0 DEF Closing, m
    <3> QED
      BY <3>4
  <2> QED
    BY <2>1, <2>2, <1>0
<1>3. ASSUME NEW i \in 1 .. n + 1 PROVE Closing(c, i) <=> Closing(s, i)
  <2>1. ASSUME Closing(s, i) PROVE Closing(c, i)
    <3>1. PICK k \in i .. n : s[k].op = "unlock" /\ \A j \in i .. k - 1 : s[j].op # "lock"
      BY <2>1 DEF Closing, n
    <3> QED
      BY <1>1, <3>1
  <2>2. ASSUME Closing(c, i) PROVE Closing(s, i)
    <3>1. PICK k \in i .. n + m : c[k].op = "unlock" /\ \A j \in i .. k - 1 : c[j].op # "lock"
      BY <2>2, <1>0 DEF Closing
    <3>2. k \in i .. n /\ s[k].op = "unlock" /\ \A j \in i .. k - 1 : s[j].op # "lock"
      BY <1>2, <3>1
    <3> QED
      BY <3>2 DEF Closing, n
  <2> QED
    BY <2>1, <2>2
<1>4. ASSUME NEW i \in 1 .. m + 1, Closing(u, i) PROVE Closing(c, n + i)
  <2>1. PICK k \in i .. m : u[k].op = "unlock" /\ \A j \in i .. k - 1 : u[j].op # "lock"
    BY <1>4 DEF Closing, m
  <2>2. n + k \in n + i .. Len(c) /\ c[n + k].op = "unlock"
    BY <1>0, <2>1
  <2>3. \A j \in n + i .. n + k - 1 : c[j].op # "lock"
    <3> SUFFICES ASSUME NEW j \in n + i .. n + k - 1 PROVE c[j].op # "lock"
      OBVIOUS
    <3>1. j - n \in i .. k - 1 /\ j - n \in 1 .. m /\ n + (j - n) = j
      BY <1>0, <2>1
    <3> QED
      BY <1>0, <2>1, <3>1
  <2>4. n + k - 1 = (n + k) - 1
    BY <1>0, <2>1
  <2> DEFINE l == n + k
  <2>5. l \in n + i .. Len(c) /\ c[l].op = "unlock" /\ \A j \in n + i .. l - 1 : c[j].op # "lock"
    BY <2>2, <2>3, <2>4
  <2> HIDE DEF l
  <2> QED
    BY <2>5 DEF Closing
<1>5. ASSUME NEW i \in 1 .. m + 1, Closing(c, n + i) PROVE Closing(u, i)
  <2>1. PICK k \in n + i .. n + m : c[k].op = "unlock" /\ \A j \in n + i .. k - 1 : c[j].op # "lock"
    BY <1>0, <1>5 DEF Closing
  <2>2. k - n \in i .. m /\ k - n \in 1 .. m /\ n + (k - n) = k
    BY <1>0, <2>1
  <2>3. u[k - n].op = "unlock"
    BY <1>0, <2>1, <2>2
  <2>4. \A j \in i .. k - n - 1 : u[j].op # "lock"
    <3> SUFFICES ASSUME NEW j \in i .. k - n - 1 PROVE u[j].op # "lock"
      OBVIOUS
    <3>1. n + j \in n + i .. k - 1 /\ j \in 1 .. m
      BY <1>0, <2>1, <2>2
    <3> QED
      BY <1>0, <2>1, <3>1
  <2> QED
    BY <2>2, <2>3, <2>4 DEF Closing, m
<1> QED
  BY <1>3, <1>4, <1>5 DEF c, n, m

LEMMA ClosingTail ==
  ASSUME NEW s, Listing(s), s # <<>>, NEW i \in Nat \ {0}
  PROVE  Closing(Tail(s), i) <=> Closing(s, i + 1)
<1>0. /\ Len(s) \in Nat \ {0} /\ Len(Tail(s)) = Len(s) - 1
      /\ \A j \in 1 .. Len(s) - 1 : Tail(s)[j] = s[j + 1]
  BY Rest
<1>1. ASSUME Closing(Tail(s), i) PROVE Closing(s, i + 1)
  <2>1. PICK k \in i .. Len(s) - 1 : /\ Tail(s)[k].op = "unlock"
                                     /\ \A j \in i .. k - 1 : Tail(s)[j].op # "lock"
    BY <1>0, <1>1 DEF Closing
  <2>2. k + 1 \in i + 1 .. Len(s) /\ s[k + 1].op = "unlock"
    BY <1>0, <2>1
  <2>3. \A j \in i + 1 .. k : s[j].op # "lock"
    <3> SUFFICES ASSUME NEW j \in i + 1 .. k PROVE s[j].op # "lock"
      OBVIOUS
    <3>1. j - 1 \in i .. k - 1 /\ j - 1 \in 1 .. Len(s) - 1 /\ (j - 1) + 1 = j
      BY <1>0, <2>1
    <3> QED
      BY <1>0, <2>1, <3>1
  <2> QED
    BY <2>2, <2>3 DEF Closing
<1>2. ASSUME Closing(s, i + 1) PROVE Closing(Tail(s), i)
  <2>1. PICK k \in i + 1 .. Len(s) : /\ s[k].op = "unlock"
                                     /\ \A j \in i + 1 .. k - 1 : s[j].op # "lock"
    BY <1>2 DEF Closing
  <2>2. k - 1 \in i .. Len(Tail(s)) /\ Tail(s)[k - 1].op = "unlock"
    BY <1>0, <2>1
  <2>3. \A j \in i .. k - 1 - 1 : Tail(s)[j].op # "lock"
    BY <1>0, <2>1
  <2> QED
    BY <2>2, <2>3 DEF Closing
<1> QED
  BY <1>1, <1>2

-----------------------------------------------------------------------------
(* Lists in order                                                           *)

Names == {"motor", "headload", "side", "track00", "move", "eject", "release"}

\* Of a call that depends on the state: it is one of Body's, and of a drive.
Proper(a) ==
  /\ a.op \in {"lock", "unlock", "change", "write", "do", "interface", "type", "end"}
  /\ a.op = "do" => /\ a.call[1] \in Names /\ a.call[2] \in Drives \cup {-1}
                    /\ a.call[2] = -1 => a.call[1] = "track00"

\* What locks by itself comes unlocked.
Outer(a) == a.op = "interface" \/ (a.op = "do" /\ a.call[1] \in {"eject", "release"})

\* Locks and unlocks take turns.
Balanced(s) == \A i \in DOMAIN s :
  /\ s[i].op = "lock" => Closing(s, i + 1)
  /\ s[i].op = "unlock" => ~Closing(s, i + 1)
  /\ Outer(s[i]) => ~Closing(s, i)

Tidy(s) == /\ Listing(s) /\ \A i \in DOMAIN s : Proper(s[i])
           /\ Balanced(s) /\ ~Closing(s, 1)

\* The registers of K are changed with the mutex held.
Covered(s, K) == \A i \in DOMAIN s :
  /\ s[i].op \in {"change", "write"} /\ s[i].reg \in K => Closing(s, i)
  /\ s[i].op = "do" /\ s[i].call[1] \in {"motor", "side"} => Closing(s, i)
  /\ s[i].op \notin {"interface", "type"}

LEMMA TidyEmpty == Tidy(<<>>) /\ \A K : Covered(<<>>, K)
<1>1. Listing(<<>>) /\ Len(<<>>) = 0 /\ DOMAIN <<>> = {}
  BY Listed
<1>2. ~Closing(<<>>, 1)
  BY <1>1 DEF Closing
<1> QED
  BY <1>1, <1>2 DEF Tidy, Balanced, Covered

LEMMA TidyOne ==
  ASSUME NEW a, Proper(a), a.op \notin {"lock", "unlock"}
  PROVE  /\ Tidy(<<a>>)
         /\ \A K : a.op \notin {"interface", "type"}
                   /\ ~(a.op \in {"change", "write"} /\ a.reg \in K)
                   /\ ~(a.op = "do" /\ a.call[1] \in {"motor", "side"})
                   => Covered(<<a>>, K)
<1> DEFINE s == <<a>>
<1>1. Listing(s) /\ Len(s) = 1 /\ DOMAIN s = {1} /\ s[1] = a
  BY Listed
<1> HIDE DEF s
<1>2. ~Closing(s, 1)
  <2>1. 1 \in 1 .. Len(s) /\ Len(s) \in Nat /\ s[1].op \notin {"lock", "unlock"}
    BY <1>1
  <2>2. Closing(s, 1) <=> Closing(s, 1 + 1)
    BY <2>1, ClosingStep
  <2>3. ~Closing(s, Len(s) + 1)
    BY <2>1, ClosingEnd
  <2> QED
    BY <2>2, <2>3, <1>1
<1>3. Tidy(s)
  BY <1>1, <1>2 DEF Tidy, Balanced
<1>4. \A K : a.op \notin {"interface", "type"}
             /\ ~(a.op \in {"change", "write"} /\ a.reg \in K)
             /\ ~(a.op = "do" /\ a.call[1] \in {"motor", "side"})
             => Covered(s, K)
  BY <1>1 DEF Covered
<1> QED
  BY <1>3, <1>4 DEF s

LEMMA TidyJoin ==
  ASSUME NEW s, NEW u, Tidy(s), Tidy(u)
  PROVE  /\ Tidy(s \o u)
         /\ \A K : Covered(s, K) /\ Covered(u, K) => Covered(s \o u, K)
<1> DEFINE c == s \o u  n == Len(s)  m == Len(u)
<1>1. Listing(s) /\ Listing(u) /\ ~Closing(u, 1) /\ ~Closing(s, 1)
  BY DEF Tidy
<1>2. /\ Listing(c) /\ n \in Nat /\ m \in Nat /\ DOMAIN c = 1 .. n + m
      /\ DOMAIN s = 1 .. n /\ DOMAIN u = 1 .. m
      /\ \A i \in 1 .. n : c[i] = s[i]
      /\ \A i \in 1 .. m : c[n + i] = u[i]
  BY <1>1, Joined
<1>3. /\ \A i \in 1 .. n + 1 : Closing(c, i) <=> Closing(s, i)
      /\ \A i \in 1 .. m + 1 : Closing(c, n + i) <=> Closing(u, i)
  BY <1>1, ClosingJoin
<1> HIDE DEF c, n, m
<1>4. \A i \in 1 .. n + m : i \in 1 .. n \/ (i - n \in 1 .. m /\ i = n + (i - n))
  BY <1>2
<1>5. ~Closing(c, 1)
  BY <1>1, <1>2, <1>3
<1>6. ASSUME NEW i \in 1 .. n
      PROVE  /\ c[i] = s[i] /\ (Closing(c, i) <=> Closing(s, i))
             /\ (Closing(c, i + 1) <=> Closing(s, i + 1))
  BY <1>2, <1>3
<1>7. ASSUME NEW i \in 1 .. m
      PROVE  /\ c[n + i] = u[i] /\ (Closing(c, n + i) <=> Closing(u, i))
             /\ (Closing(c, n + i + 1) <=> Closing(u, i + 1))
  <2>1. n + i + 1 = n + (i + 1) /\ i + 1 \in 1 .. m + 1 /\ i \in 1 .. m + 1
    BY <1>2
  <2> QED
    BY <1>2, <1>3, <2>1
<1>8. Balanced(c)
  <2> SUFFICES ASSUME NEW k \in 1 .. n + m
               PROVE  /\ c[k].op = "lock" => Closing(c, k + 1)
                      /\ c[k].op = "unlock" => ~Closing(c, k + 1)
                      /\ Outer(c[k]) => ~Closing(c, k)
    BY <1>2 DEF Balanced
  <2>1. CASE k \in 1 .. n
    BY <1>2, <1>6, <2>1 DEF Tidy, Balanced
  <2>2. CASE k - n \in 1 .. m /\ k = n + (k - n)
    <3> DEFINE i == k - n
    <3>1. /\ c[n + i] = u[i] /\ (Closing(c, n + i) <=> Closing(u, i))
          /\ (Closing(c, n + i + 1) <=> Closing(u, i + 1)) /\ i \in DOMAIN u /\ k = n + i
      BY <1>2, <1>7, <2>2
    <3> HIDE DEF i
    <3> QED
      BY <3>1 DEF Tidy, Balanced
  <2> QED
    BY <1>4, <2>1, <2>2
<1>9. \A i \in DOMAIN c : Proper(c[i])
  <2> SUFFICES ASSUME NEW k \in 1 .. n + m PROVE Proper(c[k])
    BY <1>2
  <2>1. CASE k \in 1 .. n
    BY <1>2, <2>1 DEF Tidy
  <2>2. CASE k - n \in 1 .. m /\ k = n + (k - n)
    BY <1>2, <2>2 DEF Tidy
  <2> QED
    BY <1>4, <2>1, <2>2
<1>10. ASSUME NEW K, Covered(s, K), Covered(u, K) PROVE Covered(c, K)
  <2> SUFFICES ASSUME NEW k \in 1 .. n + m
               PROVE  /\ c[k].op \in {"change", "write"} /\ c[k].reg \in K => Closing(c, k)
                      /\ c[k].op = "do" /\ c[k].call[1] \in {"motor", "side"} => Closing(c, k)
                      /\ c[k].op \notin {"interface", "type"}
    BY <1>2 DEF Covered
  <2>1. CASE k \in 1 .. n
    BY <1>2, <1>6, <1>10, <2>1 DEF Covered
  <2>2. CASE k - n \in 1 .. m /\ k = n + (k - n)
    <3> DEFINE i == k - n
    <3>1. /\ c[n + i] = u[i] /\ (Closing(c, n + i) <=> Closing(u, i))
          /\ i \in DOMAIN u /\ k = n + i
      BY <1>2, <1>7, <2>2
    <3> HIDE DEF i
    <3> QED
      BY <3>1, <1>10 DEF Covered
  <2> QED
    BY <1>4, <2>1, <2>2
<1>11. Tidy(c)
  BY <1>2, <1>5, <1>8, <1>9 DEF Tidy
<1> QED
  BY <1>10, <1>11 DEF c

\* Between lock and unlock may come what does neither.
Plain(a) == Proper(a) /\ /\ a.op \in {"change", "write", "do"}
                         /\ a.op = "do" => a.call[1] \notin {"eject", "release"}
PlainList(s) == Listing(s) /\ \A i \in DOMAIN s : Plain(s[i])

LEMMA PlainJoin ==
  /\ PlainList(<<>>)
  /\ \A a : Plain(a) => PlainList(<<a>>)
  /\ \A s, u : PlainList(s) /\ PlainList(u) => PlainList(s \o u)
<1>1. PlainList(<<>>)
  BY Listed DEF PlainList
<1>2. \A a : Plain(a) => PlainList(<<a>>)
  <2> SUFFICES ASSUME NEW a, Plain(a) PROVE PlainList(<<a>>)
    OBVIOUS
  <2>1. Listing(<<a>>) /\ DOMAIN <<a>> = {1} /\ <<a>>[1] = a
    BY Listed
  <2> QED
    BY <2>1 DEF PlainList
<1>3. ASSUME NEW s, NEW u, PlainList(s), PlainList(u) PROVE PlainList(s \o u)
  <2> DEFINE c == s \o u
  <2>1. /\ Listing(c) /\ Len(s) \in Nat /\ Len(u) \in Nat /\ DOMAIN c = 1 .. Len(s) + Len(u)
        /\ DOMAIN s = 1 .. Len(s) /\ DOMAIN u = 1 .. Len(u)
        /\ \A i \in 1 .. Len(s) : c[i] = s[i]
        /\ \A i \in 1 .. Len(u) : c[Len(s) + i] = u[i]
    BY <1>3, Joined DEF PlainList
  <2> HIDE DEF c
  <2>2. ASSUME NEW k \in DOMAIN c PROVE Plain(c[k])
    <3>1. k \in 1 .. Len(s) \/ (k - Len(s) \in 1 .. Len(u) /\ k = Len(s) + (k - Len(s)))
      BY <2>1
    <3> QED
      BY <1>3, <2>1, <3>1 DEF PlainList
  <2> QED
    BY <2>1, <2>2 DEF c, PlainList
<1> QED
  BY <1>1, <1>2, <1>3

LEMMA AccessIs ==
  ASSUME NEW o, NEW r, NEW u, NEW c
  PROVE  /\ Access(o, r, u, c).op = o /\ Access(o, r, u, c).reg = r
         /\ Access(o, r, u, c).upd = u /\ Access(o, r, u, c).call = c
BY DEF Access

LEMMA JoinedThree ==
  ASSUME NEW l, NEW x, NEW u, Listing(l), Listing(x), Listing(u)
  PROVE  /\ Listing(l \o x \o u) /\ Len(x) \in Nat /\ DOMAIN x = 1 .. Len(x)
         /\ Len(l \o x \o u) = Len(l) + Len(x) + Len(u)
         /\ DOMAIN (l \o x \o u) = 1 .. Len(l) + Len(x) + Len(u)
         /\ \A i \in 1 .. Len(l) : (l \o x \o u)[i] = l[i]
         /\ \A i \in 1 .. Len(x) : (l \o x \o u)[Len(l) + i] = x[i]
         /\ \A i \in 1 .. Len(u) : (l \o x \o u)[Len(l) + Len(x) + i] = u[i]
<1> DEFINE b == l \o x  c == b \o u
<1>1. /\ Listing(b) /\ Len(b) = Len(l) + Len(x) /\ Len(x) \in Nat /\ DOMAIN x = 1 .. Len(x)
      /\ \A i \in 1 .. Len(l) : b[i] = l[i]
      /\ \A i \in 1 .. Len(x) : b[Len(l) + i] = x[i]
      /\ Len(l) \in Nat
  BY Joined
<1> HIDE DEF b
<1>2. /\ Listing(c) /\ Len(c) = Len(b) + Len(u) /\ DOMAIN c = 1 .. Len(b) + Len(u)
      /\ \A i \in 1 .. Len(b) : c[i] = b[i]
      /\ \A i \in 1 .. Len(u) : c[Len(b) + i] = u[i]
  BY <1>1, Joined
<1> HIDE DEF c
<1>3. \A i \in 1 .. Len(l) : c[i] = l[i]
  BY <1>1, <1>2
<1>4. ASSUME NEW i \in 1 .. Len(x) PROVE c[Len(l) + i] = x[i]
  <2>1. Len(l) + i \in 1 .. Len(b) /\ b[Len(l) + i] = x[i]
    BY <1>1
  <2> QED
    BY <1>2, <2>1
<1> QED
  BY <1>1, <1>2, <1>3, <1>4 DEF b, c

\* What Locked makes of a list, access by access.
LEMMA LockedIs ==
  ASSUME NEW x, Listing(x)
  PROVE  /\ Listing(Locked(x)) /\ Len(x) \in Nat /\ DOMAIN x = 1 .. Len(x)
         /\ Len(Locked(x)) = Len(x) + 2 /\ DOMAIN Locked(x) = 1 .. Len(x) + 2
         /\ Locked(x)[1] = Calling("lock") /\ Locked(x)[Len(x) + 2] = Calling("unlock")
         /\ \A i \in 1 .. Len(x) : Locked(x)[i + 1] = x[i]
<1> DEFINE l == << Calling("lock") >>  u == << Calling("unlock") >>
<1>0. Listing(l) /\ Listing(u)
  BY Listed
<1>1. /\ Listing(l) /\ Listing(u) /\ Len(l) = 1 /\ Len(u) = 1
      /\ l[1] = Calling("lock") /\ u[1] = Calling("unlock")
  BY Listed
<1>2. Locked(x) = l \o x \o u
  BY DEF Locked
<1> HIDE DEF l, u
<1> DEFINE c == l \o x \o u  n == Len(x)
<1>3. /\ Listing(c) /\ n \in Nat /\ DOMAIN x = 1 .. n
      /\ Len(c) = Len(l) + n + Len(u) /\ DOMAIN c = 1 .. Len(l) + n + Len(u)
      /\ \A i \in 1 .. Len(l) : c[i] = l[i]
      /\ \A i \in 1 .. n : c[Len(l) + i] = x[i]
      /\ \A i \in 1 .. Len(u) : c[Len(l) + n + i] = u[i]
  BY <1>0, JoinedThree
<1> HIDE DEF c, n
<1>4. Len(c) = n + 2 /\ DOMAIN c = 1 .. n + 2 /\ c[1] = Calling("lock")
  BY <1>1, <1>3
<1>5. c[n + 2] = Calling("unlock")
  <2>1. c[1 + n + 1] = u[1] /\ 1 + n + 1 = n + 2
    BY <1>1, <1>3
  <2> QED
    BY <1>1, <2>1
<1>6. \A i \in 1 .. n : c[i + 1] = x[i]
  BY <1>1, <1>3
<1> QED
  BY <1>2, <1>3, <1>4, <1>5, <1>6 DEF c, n

LEMMA LockedTidy ==
  ASSUME NEW x, PlainList(x)
  PROVE  Tidy(Locked(x)) /\ \A K : Covered(Locked(x), K)
<1> DEFINE c == Locked(x)  n == Len(x)
<1>1. /\ Listing(c) /\ n \in Nat /\ DOMAIN x = 1 .. n
      /\ Len(c) = n + 2 /\ DOMAIN c = 1 .. n + 2
      /\ c[1] = Calling("lock") /\ c[n + 2] = Calling("unlock")
      /\ \A i \in 1 .. n : c[i + 1] = x[i]
  BY LockedIs DEF PlainList
<1> HIDE DEF c, n
<1>2. c[1].op = "lock" /\ c[n + 2].op = "unlock"
  BY <1>1, AccessIs DEF Calling
<1>3. ASSUME NEW k \in 2 .. n + 1 PROVE Plain(c[k])
  <2>1. k - 1 \in 1 .. n /\ (k - 1) + 1 = k
    BY <1>1
  <2> QED
    BY <1>1, <2>1 DEF PlainList
<1>4. \A k \in 1 .. n + 2 : k = 1 \/ k = n + 2 \/ k \in 2 .. n + 1
  BY <1>1
<1>5. ~Closing(c, 1) /\ ~Closing(c, n + 3)
  <2>1. 1 \in 1 .. Len(c) /\ Len(c) \in Nat /\ Len(c) + 1 = n + 3
    BY <1>1
  <2> QED
    BY <2>1, <1>2, ClosingStep, ClosingEnd
<1>6. ASSUME NEW k \in 2 .. n + 2 PROVE Closing(c, k)
  <2>1. n + 2 \in k .. Len(c)
    BY <1>1
  <2>2. \A j \in k .. n + 1 : c[j].op # "lock"
    <3> SUFFICES ASSUME NEW j \in k .. n + 1 PROVE c[j].op # "lock"
      OBVIOUS
    <3>1. j \in 2 .. n + 1
      BY <1>1
    <3> QED
      BY <1>3, <3>1 DEF Plain
  <2> DEFINE e == n + 2
  <2>3. e \in k .. Len(c)
    BY <2>1
  <2>4. c[e].op = "unlock"
    BY <1>2
  <2>5. \A j \in k .. e - 1 : c[j].op # "lock"
    BY <1>1, <2>2
  <2> HIDE DEF e
  <2> QED
    BY <2>3, <2>4, <2>5 DEF Closing
<1>7. ASSUME NEW k \in 1 .. n + 2 PROVE Proper(c[k])
  <2>1. Proper(c[1]) /\ Proper(c[n + 2])
    BY <1>2 DEF Proper
  <2> QED
    BY <1>3, <1>4, <2>1 DEF Plain
<1>8. Balanced(c)
  <2> SUFFICES ASSUME NEW k \in 1 .. n + 2
               PROVE  /\ c[k].op = "lock" => Closing(c, k + 1)
                      /\ c[k].op = "unlock" => ~Closing(c, k + 1)
                      /\ Outer(c[k]) => ~Closing(c, k)
    BY <1>1 DEF Balanced
  <2>1. CASE k = 1
    <3>1. k + 1 \in 2 .. n + 2
      BY <1>1, <2>1
    <3> QED
      BY <1>2, <1>6, <2>1, <3>1 DEF Outer
  <2>2. CASE k = n + 2
    <3>1. k + 1 = n + 3
      BY <1>1, <2>2
    <3> QED
      BY <1>2, <1>5, <2>2, <3>1 DEF Outer
  <2>3. CASE k \in 2 .. n + 1
    BY <1>3, <2>3 DEF Plain, Outer
  <2> QED
    BY <1>4, <2>1, <2>2, <2>3
<1>9. Tidy(c)
  BY <1>1, <1>5, <1>7, <1>8 DEF Tidy
<1>10. ASSUME NEW K PROVE Covered(c, K)
  <2> SUFFICES ASSUME NEW k \in 1 .. n + 2
               PROVE  /\ c[k].op \in {"change", "write"} /\ c[k].reg \in K => Closing(c, k)
                      /\ c[k].op = "do" /\ c[k].call[1] \in {"motor", "side"} => Closing(c, k)
                      /\ c[k].op \notin {"interface", "type"}
    BY <1>1 DEF Covered
  <2>1. CASE k = 1
    BY <1>2, <2>1
  <2>2. CASE k \in 2 .. n + 2
    <3>1. Closing(c, k)
      BY <1>6, <2>2
    <3>2. k = n + 2 \/ k \in 2 .. n + 1
      BY <1>4, <2>2, <1>1
    <3>3. c[k].op \notin {"interface", "type"}
      BY <1>2, <1>3, <3>2 DEF Plain
    <3> QED
      BY <3>1, <3>3
  <2>3. k = 1 \/ k \in 2 .. n + 2
    BY <1>1
  <2> QED
    BY <2>1, <2>2, <2>3
<1> QED
  BY <1>9, <1>10 DEF c

-----------------------------------------------------------------------------
(* Registers and pins                                                       *)

LEMMA RegistersDiffer ==
  /\ Control # FloppyCtrl /\ Control # ExtraOut /\ Control # Gpio /\ Control # GpioOe
  /\ Control # Mux /\ Control # Polarity
  /\ FloppyCtrl # ExtraOut /\ FloppyCtrl # Gpio /\ FloppyCtrl # GpioOe
  /\ FloppyCtrl # Mux /\ FloppyCtrl # Polarity
  /\ ExtraOut # Gpio /\ ExtraOut # GpioOe /\ ExtraOut # Mux /\ ExtraOut # Polarity
  /\ Gpio # Mux /\ Gpio # Polarity /\ GpioOe # Mux /\ GpioOe # Polarity /\ Mux # Polarity
  /\ \A d, e : /\ Config(d) # Image(e)
               /\ Config(d) \notin {Control, FloppyCtrl, ExtraOut, Gpio, GpioOe, Mux, Polarity}
               /\ Image(d) \notin {Control, FloppyCtrl, ExtraOut, Gpio, GpioOe, Mux, Polarity}
               /\ Config(d) = Config(e) => d = e
               /\ Image(d) = Image(e) => d = e
BY DEF Control, FloppyCtrl, ExtraOut, Gpio, GpioOe, Mux, Polarity, Config, Image

LEMMA PortPins ==
  \A name \in {"PIN6", "PIN10", "PIN12", "PIN14", "PIN16", "SIDE1", "OPTIONSEL0",
               "OPTIONSEL1", "OPTIONSEL2", "OPTIONSEL3", "BLINK", "LOCK", "EJECT"} :
    \A p \in Pin(name) : p[2] \in {FloppyCtrl, ExtraOut}
BY DEF Pin, Pins

LEMMA ExtraPins ==
  \A name \in {"BLINK", "LOCK", "EJECT"} : \A p \in Pin(name) : p[2] = ExtraOut
BY DEF Pin, Pins

LEMMA ApplePin ==
  /\ Pin("ENABLE_APPLE_MODE") # {}
  /\ \A p \in Pin("ENABLE_APPLE_MODE") : p[2] = Control /\ p[3] = 29
<1>1. \A p \in Pin("ENABLE_APPLE_MODE") : p[2] = Control /\ p[3] = 29
  BY DEF Pin, Pins
<1>2. << {"ENABLE_APPLE_MODE"}, Control, 29 >> \in Pin("ENABLE_APPLE_MODE")
  BY DEF Pin, Pins
<1> QED
  BY <1>1, <1>2

LEMMA SelectPins ==
  /\ \A p \in Pin("PIN10") : p[2] = FloppyCtrl /\ p[3] = 0
  /\ \A p \in Pin("PIN12") : p[2] = FloppyCtrl /\ p[3] = 1
  /\ \A p \in Pin("PIN14") : p[2] = FloppyCtrl /\ p[3] = 2
  /\ \A p \in Pin("PIN6")  : p[2] = FloppyCtrl /\ p[3] = 3
  /\ \A p \in Pin("PIN16") : p[2] = FloppyCtrl /\ p[3] = 4
  /\ \A name \in {"PIN10", "PIN12", "PIN14", "PIN6", "PIN16"} : Pin(name) # {}
<1>1. \A p \in Pin("PIN10") : p[2] = FloppyCtrl /\ p[3] = 0
  BY DEF Pin, Pins
<1>2. \A p \in Pin("PIN12") : p[2] = FloppyCtrl /\ p[3] = 1
  BY DEF Pin, Pins
<1>3. \A p \in Pin("PIN14") : p[2] = FloppyCtrl /\ p[3] = 2
  BY DEF Pin, Pins
<1>4. \A p \in Pin("PIN6")  : p[2] = FloppyCtrl /\ p[3] = 3
  BY DEF Pin, Pins
<1>5. \A p \in Pin("PIN16") : p[2] = FloppyCtrl /\ p[3] = 4
  BY DEF Pin, Pins
<1>6. \A name \in {"PIN10", "PIN12", "PIN14", "PIN6", "PIN16"} : Pin(name) # {}
  <2>1. \A name : (\E p \in Pins : name \in p[1]) => Pin(name) # {}
    BY DEF Pin
  <2>2. /\ \E p \in Pins : "PIN10" \in p[1]
        /\ \E p \in Pins : "PIN12" \in p[1]
        /\ \E p \in Pins : "PIN14" \in p[1]
        /\ \E p \in Pins : "PIN6" \in p[1]
        /\ \E p \in Pins : "PIN16" \in p[1]
    BY ZenonT(60) DEF Pins
  <2> QED
    BY <2>1, <2>2
<1> QED
  BY <1>1, <1>2, <1>3, <1>4, <1>5, <1>6

-----------------------------------------------------------------------------
(* What the calls consist of                                                *)

\* A list that changes registers of R and does nothing else, or only takes and
\* releases the mutex besides.
Changes(s, R) == Listing(s) /\ \A i \in DOMAIN s : s[i].op = "change" /\ s[i].reg \in R
Within(s, R)  == Listing(s) /\ \A i \in DOMAIN s :
  s[i].op \in {"lock", "unlock"} \/ (s[i].op = "change" /\ s[i].reg \in R)

LEMMA ChangesJoin ==
  /\ \A R : Changes(<<>>, R)
  /\ \A a, R : a.op = "change" /\ a.reg \in R => Changes(<<a>>, R)
  /\ \A s, u, R : Changes(s, R) /\ Changes(u, R) => Changes(s \o u, R)
<1>1. \A R : Changes(<<>>, R)
  BY Listed DEF Changes
<1>2. ASSUME NEW a, NEW R, a.op = "change", a.reg \in R PROVE Changes(<<a>>, R)
  <2>1. Listing(<<a>>) /\ DOMAIN <<a>> = {1} /\ <<a>>[1] = a
    BY Listed
  <2> QED
    BY <1>2, <2>1 DEF Changes
<1>3. ASSUME NEW s, NEW u, NEW R, Changes(s, R), Changes(u, R) PROVE Changes(s \o u, R)
  <2> DEFINE c == s \o u
  <2>1. /\ Listing(c) /\ Len(s) \in Nat /\ Len(u) \in Nat /\ DOMAIN c = 1 .. Len(s) + Len(u)
        /\ DOMAIN s = 1 .. Len(s) /\ DOMAIN u = 1 .. Len(u)
        /\ \A i \in 1 .. Len(s) : c[i] = s[i]
        /\ \A i \in 1 .. Len(u) : c[Len(s) + i] = u[i]
    BY <1>3, Joined DEF Changes
  <2> HIDE DEF c
  <2>2. ASSUME NEW k \in DOMAIN c PROVE c[k].op = "change" /\ c[k].reg \in R
    <3>1. k \in 1 .. Len(s) \/ (k - Len(s) \in 1 .. Len(u) /\ k = Len(s) + (k - Len(s)))
      BY <2>1
    <3> QED
      BY <1>3, <2>1, <3>1 DEF Changes
  <2> QED
    BY <2>1, <2>2 DEF c, Changes
<1> QED
  BY <1>1, <1>2, <1>3

LEMMA WithinJoin ==
  ASSUME NEW s, NEW u, NEW R, Within(s, R), Within(u, R)
  PROVE  Within(s \o u, R)
<1> DEFINE c == s \o u
<1>1. /\ Listing(c) /\ Len(s) \in Nat /\ Len(u) \in Nat /\ DOMAIN c = 1 .. Len(s) + Len(u)
      /\ DOMAIN s = 1 .. Len(s) /\ DOMAIN u = 1 .. Len(u)
      /\ \A i \in 1 .. Len(s) : c[i] = s[i]
      /\ \A i \in 1 .. Len(u) : c[Len(s) + i] = u[i]
  BY Joined DEF Within
<1> HIDE DEF c
<1>2. ASSUME NEW k \in DOMAIN c
      PROVE  c[k].op \in {"lock", "unlock"} \/ (c[k].op = "change" /\ c[k].reg \in R)
  <2>1. k \in 1 .. Len(s) \/ (k - Len(s) \in 1 .. Len(u) /\ k = Len(s) + (k - Len(s)))
    BY <1>1
  <2> QED
    BY <1>1, <2>1 DEF Within
<1> QED
  BY <1>1, <1>2 DEF c, Within

LEMMA ChangesTidy ==
  ASSUME NEW s, NEW R, Changes(s, R)
  PROVE  /\ PlainList(s) /\ Tidy(s) /\ Within(s, R) /\ Within(Locked(s), R)
         /\ Tidy(Locked(s)) /\ \A K : Covered(Locked(s), K)
         /\ \A K : K \cap R = {} => Covered(s, K)
<1>1. PlainList(s)
  BY DEF PlainList, Plain, Proper, Changes
<1>2. ~Closing(s, 1)
  <2>1. Listing(s) /\ DOMAIN s = 1 .. Len(s) /\ \A i \in DOMAIN s : s[i].op = "change"
    <3>1. Listing(s)
      BY DEF Changes
    <3> QED
      BY <3>1, Joined DEF Changes
  <2> QED
    BY <2>1 DEF Closing
<1>3. ~Closing(s, 1) /\ Balanced(s)
  BY <1>2 DEF Balanced, Changes, Outer
<1>4. Tidy(s)
  BY <1>1, <1>3 DEF Tidy, PlainList, Plain
<1>5. Within(Locked(s), R)
  <2> DEFINE c == Locked(s)  n == Len(s)
  <2>1. /\ Listing(c) /\ n \in Nat /\ DOMAIN s = 1 .. n
        /\ Len(c) = n + 2 /\ DOMAIN c = 1 .. n + 2
        /\ c[1] = Calling("lock") /\ c[n + 2] = Calling("unlock")
        /\ \A i \in 1 .. n : c[i + 1] = s[i]
    BY LockedIs DEF Changes
  <2> HIDE DEF c, n
  <2>2. c[1].op = "lock" /\ c[n + 2].op = "unlock"
    BY <2>1, AccessIs DEF Calling
  <2>3. ASSUME NEW k \in 1 .. n + 2
        PROVE  c[k].op \in {"lock", "unlock"} \/ (c[k].op = "change" /\ c[k].reg \in R)
    <3>1. k = 1 \/ k = n + 2 \/ (k - 1 \in 1 .. n /\ (k - 1) + 1 = k)
      BY <2>1
    <3> QED
      BY <2>1, <2>2, <3>1 DEF Changes
  <2> QED
    BY <2>1, <2>3 DEF Within, c
<1>6. Within(s, R)
  BY DEF Within, Changes
<1>7. ASSUME NEW K, K \cap R = {} PROVE Covered(s, K)
  BY <1>7 DEF Changes, Covered
<1> QED
  BY <1>1, <1>4, <1>5, <1>6, <1>7, LockedTidy

LEMMA ChangeIs ==
  ASSUME NEW r, NEW u
  PROVE  /\ Change(r, u).op = "change" /\ Change(r, u).reg = r /\ Change(r, u).upd = u
         /\ Change(r, u).call = None
BY AccessIs DEF Change

\* A pin is one bit.
LEMMA SetIoIs ==
  ASSUME NEW name, NEW v
  PROVE  \/ Pin(name) = {} /\ SetIo(name, v) = <<>>
         \/ \E p \in Pin(name) :
              /\ p = CHOOSE q \in Pin(name) : TRUE
              /\ SetIo(name, v) = << Change(p[2], p[3] :> IF v = 0 THEN 0 ELSE 1) >>
<1>1. CASE Pin(name) = {}
  BY <1>1 DEF SetIo
<1>2. CASE Pin(name) # {}
  <2>1. (CHOOSE q \in Pin(name) : TRUE) \in Pin(name)
    BY <1>2
  <2> QED
    BY <1>2, <2>1 DEF SetIo
<1> QED
  BY <1>1, <1>2

LEMMA SetIoChanges ==
  ASSUME NEW name, NEW v, NEW R, \A p \in Pin(name) : p[2] \in R
  PROVE  Changes(SetIo(name, v), R)
<1>1. CASE SetIo(name, v) = <<>>
  BY <1>1, ChangesJoin
<1>2. CASE \E p \in Pin(name) : SetIo(name, v) = << Change(p[2], p[3] :> IF v = 0 THEN 0 ELSE 1) >>
  <2>1. PICK p \in Pin(name) : SetIo(name, v) = << Change(p[2], p[3] :> IF v = 0 THEN 0 ELSE 1) >>
    BY <1>2
  <2> DEFINE a == Change(p[2], p[3] :> IF v = 0 THEN 0 ELSE 1)
  <2>2. a.op = "change" /\ a.reg \in R
    BY ChangeIs
  <2> HIDE DEF a
  <2>3. Changes(<<a>>, R)
    BY <2>2, ChangesJoin
  <2> QED
    BY <2>1, <2>3 DEF a
<1> QED
  BY <1>1, <1>2, SetIoIs

LEMMA MacChanges ==
  /\ \A cmd, data : Changes(WriteAppleMacCmd(cmd, data), {FloppyCtrl, ExtraOut})
  /\ \A sel : Changes(SetReadMuxAppleMac(sel), {FloppyCtrl, ExtraOut})
<1> DEFINE R == {FloppyCtrl, ExtraOut}
<1>1. \A v : /\ Changes(SetIo("PIN10", v), R) /\ Changes(SetIo("PIN12", v), R)
             /\ Changes(SetIo("PIN14", v), R) /\ Changes(SetIo("PIN16", v), R)
             /\ Changes(SetIo("SIDE1", v), R) /\ Changes(SetIo("OPTIONSEL0", v), R)
             /\ Changes(SetIo("OPTIONSEL1", v), R) /\ Changes(SetIo("OPTIONSEL2", v), R)
             /\ Changes(SetIo("OPTIONSEL3", v), R)
  BY SetIoChanges, PortPins
<1>2. \A u, c : Changes(<< Access("change", ExtraOut, u, c) >>, R)
  <2>1. \A u, c : /\ Access("change", ExtraOut, u, c).op = "change"
                  /\ Access("change", ExtraOut, u, c).reg \in R
    BY AccessIs
  <2> QED
    BY <2>1, ChangesJoin
<1>3. \A s, u : Changes(s, R) /\ Changes(u, R) => Changes(s \o u, R)
  BY ChangesJoin
<1> HIDE DEF R
<1>4. \A cmd, data : Changes(WriteAppleMacCmd(cmd, data), R)
  BY <1>1, <1>2, <1>3 DEF WriteAppleMacCmd
<1>5. \A sel : Changes(SetReadMuxAppleMac(sel), R)
  BY <1>1, <1>3 DEF SetReadMuxAppleMac
<1> QED
  BY <1>4, <1>5 DEF R

LEMMA Pair == ASSUME NEW a, NEW b PROVE <<a, b>> = <<a>> \o <<b>>
<1> DEFINE S == {a, b}
<1>1. <<a>> \in Seq(S) /\ <<b>> \in Seq(S) /\ <<a, b>> \in Seq(S)
  OBVIOUS
<1>2. /\ Len(<<a>>) = 1 /\ Len(<<b>>) = 1 /\ Len(<<a, b>>) = 2
      /\ <<a>>[1] = a /\ <<b>>[1] = b /\ <<a, b>>[1] = a /\ <<a, b>>[2] = b
  OBVIOUS
<1> DEFINE x == <<a>>  y == <<b>>  z == <<a, b>>
<1>3. /\ x \in Seq(S) /\ y \in Seq(S) /\ z \in Seq(S)
      /\ Len(x) = 1 /\ Len(y) = 1 /\ Len(z) = 2
      /\ x[1] = a /\ y[1] = b /\ z[1] = a /\ z[2] = b
  BY <1>1, <1>2
<1> HIDE DEF x, y, z, S
<1>4. x \o y \in Seq(S) /\ Len(x \o y) = 2 /\ (x \o y)[1] = a /\ (x \o y)[2] = b
  <2>1. x \o y \in Seq(S)
    BY <1>3
  <2>3. Listing(x) /\ Listing(y)
    BY <1>3 DEF Listing
  <2>2. Len(x \o y) = Len(x) + Len(y)
    BY <2>3, Joined
  <2>4. /\ \A i \in 1 .. Len(x) : (x \o y)[i] = x[i]
        /\ \A i \in 1 .. Len(y) : (x \o y)[Len(x) + i] = y[i]
    BY <2>3, Joined
  <2> DEFINE z1 == x \o y
  <2>5. /\ z1 \in Seq(S) /\ Len(z1) = Len(x) + Len(y)
        /\ \A i \in 1 .. Len(x) : z1[i] = x[i]
        /\ \A i \in 1 .. Len(y) : z1[Len(x) + i] = y[i]
    BY <2>1, <2>2, <2>4
  <2> HIDE DEF z1
  <2>6. Len(z1) = 2 /\ z1[1] = a /\ z1[1 + 1] = b
    BY <1>3, <2>5
  <2>7. z1[2] = b
    BY <2>6
  <2> QED
    BY <2>1, <2>6, <2>7 DEF z1
<1>5. x \o y = z
  BY <1>3, <1>4
<1> QED
  BY <1>5 DEF x, y, z

\* What is so of every access of two lists is so of every access of both.
LEMMA JoinEach ==
  ASSUME NEW s, NEW u, Listing(s), Listing(u)
  PROVE  /\ Listing(s \o u)
         /\ \A k \in DOMAIN (s \o u) : \/ \E i \in DOMAIN s : (s \o u)[k] = s[i]
                                       \/ \E i \in DOMAIN u : (s \o u)[k] = u[i]
<1> DEFINE c == s \o u
<1>1. /\ Listing(c) /\ Len(s) \in Nat /\ Len(u) \in Nat /\ DOMAIN c = 1 .. Len(s) + Len(u)
      /\ DOMAIN s = 1 .. Len(s) /\ DOMAIN u = 1 .. Len(u)
      /\ \A i \in 1 .. Len(s) : c[i] = s[i]
      /\ \A i \in 1 .. Len(u) : c[Len(s) + i] = u[i]
  BY Joined
<1> HIDE DEF c
<1>2. ASSUME NEW k \in DOMAIN c
      PROVE  (\E i \in DOMAIN s : c[k] = s[i]) \/ (\E i \in DOMAIN u : c[k] = u[i])
  <2>1. k \in 1 .. Len(s) \/ (k - Len(s) \in 1 .. Len(u) /\ k = Len(s) + (k - Len(s)))
    BY <1>1
  <2> QED
    BY <1>1, <2>1
<1> QED
  BY <1>1, <1>2 DEF c

LEMMA RestEach ==
  ASSUME NEW s, Listing(s), s # <<>>
  PROVE  /\ Listing(Tail(s)) /\ 1 \in DOMAIN s /\ Head(s) = s[1]
         /\ \A k \in DOMAIN Tail(s) : k + 1 \in DOMAIN s /\ Tail(s)[k] = s[k + 1]
<1>1. /\ Listing(Tail(s)) /\ Len(s) \in Nat \ {0}
      /\ DOMAIN s = 1 .. Len(s) /\ DOMAIN Tail(s) = 1 .. Len(s) - 1
      /\ Head(s) = s[1] /\ \A i \in 1 .. Len(s) - 1 : Tail(s)[i] = s[i + 1]
  BY Rest
<1> QED
  BY <1>1

LEMMA LockedEach ==
  ASSUME NEW x, Listing(x)
  PROVE  /\ Listing(Locked(x))
         /\ \A k \in DOMAIN Locked(x) : \/ Locked(x)[k] \in {Calling("lock"), Calling("unlock")}
                                        \/ \E i \in DOMAIN x : Locked(x)[k] = x[i]
<1> DEFINE c == Locked(x)  n == Len(x)
<1>1. /\ Listing(c) /\ n \in Nat /\ DOMAIN x = 1 .. n /\ DOMAIN c = 1 .. n + 2
      /\ c[1] = Calling("lock") /\ c[n + 2] = Calling("unlock")
      /\ \A i \in 1 .. n : c[i + 1] = x[i]
  BY LockedIs
<1> HIDE DEF c, n
<1>2. ASSUME NEW k \in 1 .. n + 2
      PROVE  c[k] \in {Calling("lock"), Calling("unlock")} \/ \E i \in DOMAIN x : c[k] = x[i]
  <2>1. k = 1 \/ k = n + 2 \/ (k - 1 \in 1 .. n /\ (k - 1) + 1 = k)
    BY <1>1
  <2> QED
    BY <1>1, <2>1
<1> QED
  BY <1>1, <1>2 DEF c

\* What is left of a list, once its first access is made, is in order too.
LEMMA TailTidy ==
  ASSUME NEW s, Listing(s), s # <<>>, Balanced(s)
  PROVE  /\ Balanced(Tail(s))
         /\ Head(s).op = "lock" => ~Closing(s, 1) /\ Closing(Tail(s), 1)
         /\ Head(s).op = "unlock" => Closing(s, 1) /\ ~Closing(Tail(s), 1)
         /\ Head(s).op \notin {"lock", "unlock"} => (Closing(s, 1) <=> Closing(Tail(s), 1))
         /\ Outer(Head(s)) => ~Closing(s, 1)
<1>1. /\ Len(s) \in Nat /\ 1 \in 1 .. Len(s) /\ 1 \in DOMAIN s /\ Head(s) = s[1]
      /\ DOMAIN Tail(s) = 1 .. Len(s) - 1 /\ DOMAIN s = 1 .. Len(s)
      /\ \A i \in 1 .. Len(s) - 1 : Tail(s)[i] = s[i + 1]
  BY Rest
<1>2. \A i \in Nat \ {0} : Closing(Tail(s), i) <=> Closing(s, i + 1)
  BY ClosingTail
<1>3. Closing(Tail(s), 1) <=> Closing(s, 2)
  <2>1. 1 \in Nat \ {0} /\ 1 + 1 = 2
    OBVIOUS
  <2> QED
    BY <1>2, <2>1
<1>4. /\ s[1].op = "lock" => ~Closing(s, 1)
      /\ s[1].op = "unlock" => Closing(s, 1)
      /\ s[1].op \notin {"lock", "unlock"} => (Closing(s, 1) <=> Closing(s, 2))
  <2>1. 1 + 1 = 2
    OBVIOUS
  <2> QED
    BY <1>1, <2>1, ClosingStep
<1>5. /\ s[1].op = "lock" => Closing(s, 2)
      /\ s[1].op = "unlock" => ~Closing(s, 2)
      /\ Outer(s[1]) => ~Closing(s, 1)
  <2>1. 1 + 1 = 2
    OBVIOUS
  <2> QED
    BY <1>1, <2>1 DEF Balanced
<1>6. ASSUME NEW i \in DOMAIN Tail(s)
      PROVE  /\ Tail(s)[i].op = "lock" => Closing(Tail(s), i + 1)
             /\ Tail(s)[i].op = "unlock" => ~Closing(Tail(s), i + 1)
             /\ Outer(Tail(s)[i]) =>
                  ~Closing(Tail(s), i)
  <2> DEFINE j == i + 1
  <2>1. j \in DOMAIN s /\ Tail(s)[i] = s[j] /\ i \in Nat \ {0} /\ j \in Nat \ {0}
    BY <1>1
  <2>2. (Closing(Tail(s), i) <=> Closing(s, j)) /\ (Closing(Tail(s), j) <=> Closing(s, j + 1))
    BY <1>2, <2>1
  <2> HIDE DEF j
  <2>3. /\ Tail(s)[i].op = "lock" => Closing(Tail(s), j)
        /\ Tail(s)[i].op = "unlock" => ~Closing(Tail(s), j)
        /\ Outer(Tail(s)[i]) =>
             ~Closing(Tail(s), i)
    BY <2>1, <2>2 DEF Balanced
  <2> QED
    BY <2>3 DEF j
<1>7. Balanced(Tail(s))
  BY <1>6 DEF Balanced
<1> QED
  BY <1>1, <1>3, <1>4, <1>5, <1>7

LEMMA TailCovered ==
  ASSUME NEW s, Listing(s), s # <<>>, NEW K, Covered(s, K)
  PROVE  Covered(Tail(s), K)
<1>1. \A k \in DOMAIN Tail(s) : k \in Nat \ {0} /\ k + 1 \in DOMAIN s /\ Tail(s)[k] = s[k + 1]
  BY Rest
<1>2. \A i \in Nat \ {0} : Closing(Tail(s), i) <=> Closing(s, i + 1)
  BY ClosingTail
<1> QED
  BY <1>1, <1>2 DEF Covered

\* Changes put where the mutex is held, or is not, leave it as it is.
LEMMA ChangesBefore ==
  ASSUME NEW s, NEW u, NEW R, Changes(s, R), Listing(u), Balanced(u)
  PROVE  /\ Balanced(s \o u) /\ (Closing(s \o u, 1) <=> Closing(u, 1))
         /\ \A K : /\ Covered(u, K)
                   /\ (R \cap K = {} \/ Closing(u, 1))
                   => Covered(s \o u, K)
<1> DEFINE c == s \o u  n == Len(s)  m == Len(u)
<1>1. /\ Listing(c) /\ n \in Nat /\ m \in Nat /\ DOMAIN c = 1 .. n + m /\ Len(c) = n + m
      /\ DOMAIN s = 1 .. n /\ DOMAIN u = 1 .. m
      /\ \A i \in 1 .. n : c[i] = s[i]
      /\ \A i \in 1 .. m : c[n + i] = u[i]
  BY Joined DEF Changes
<1>2. \A i \in 1 .. n : c[i].op = "change" /\ c[i].reg \in R
  BY <1>1 DEF Changes
<1> HIDE DEF c, n, m
<1>3. ASSUME NEW i \in 1 .. m + 1 PROVE Closing(c, n + i) <=> Closing(u, i)
  <2>1. ASSUME NEW k \in i .. m, u[k].op = "unlock", \A j \in i .. k - 1 : u[j].op # "lock"
        PROVE  Closing(c, n + i)
    <3> DEFINE l == n + k
    <3>1. l \in n + i .. Len(c) /\ c[l].op = "unlock"
      BY <1>1, <2>1
    <3>2. \A j \in n + i .. l - 1 : c[j].op # "lock"
      <4> SUFFICES ASSUME NEW j \in n + i .. l - 1 PROVE c[j].op # "lock"
        OBVIOUS
      <4>1. j - n \in i .. k - 1 /\ j - n \in 1 .. m /\ n + (j - n) = j
        BY <1>1
      <4> QED
        BY <1>1, <2>1, <4>1
    <3> HIDE DEF l
    <3> QED
      BY <3>1, <3>2 DEF Closing
  <2>2. ASSUME NEW k \in n + i .. n + m, c[k].op = "unlock",
               \A j \in n + i .. k - 1 : c[j].op # "lock"
        PROVE  Closing(u, i)
    <3> DEFINE l == k - n
    <3>1. l \in i .. m /\ l \in 1 .. m /\ n + l = k
      BY <1>1
    <3>2. u[l].op = "unlock"
      BY <1>1, <2>2, <3>1
    <3>3. \A j \in i .. l - 1 : u[j].op # "lock"
      <4> SUFFICES ASSUME NEW j \in i .. l - 1 PROVE u[j].op # "lock"
        OBVIOUS
      <4>1. n + j \in n + i .. k - 1 /\ j \in 1 .. m
        BY <1>1, <3>1
      <4> QED
        BY <1>1, <2>2, <4>1
    <3> HIDE DEF l
    <3> QED
      BY <3>1, <3>2, <3>3 DEF Closing, m
  <2>3. (\E k \in i .. m : u[k].op = "unlock" /\ \A j \in i .. k - 1 : u[j].op # "lock")
          <=> Closing(u, i)
    BY DEF Closing, m
  <2>4. Closing(c, n + i) <=>
          \E k \in n + i .. n + m : c[k].op = "unlock" /\ \A j \in n + i .. k - 1 : c[j].op # "lock"
    BY <1>1 DEF Closing
  <2> QED
    BY <2>1, <2>2, <2>3, <2>4
<1>4. ASSUME NEW i \in 1 .. n + 1 PROVE Closing(c, i) <=> Closing(u, 1)
  <2>1. ASSUME Closing(c, i) PROVE Closing(c, n + 1)
    <3>1. PICK k \in i .. n + m : c[k].op = "unlock" /\ \A j \in i .. k - 1 : c[j].op # "lock"
      BY <1>1, <2>1 DEF Closing
    <3>2. k \in n + 1 .. n + m
      BY <1>1, <1>2, <3>1
    <3>3. \A j \in n + 1 .. k - 1 : c[j].op # "lock"
      BY <1>1, <3>1
    <3> QED
      BY <1>1, <3>1, <3>2, <3>3 DEF Closing
  <2>2. ASSUME Closing(c, n + 1) PROVE Closing(c, i)
    <3>1. PICK k \in n + 1 .. n + m : c[k].op = "unlock" /\ \A j \in n + 1 .. k - 1 : c[j].op # "lock"
      BY <1>1, <2>2 DEF Closing
    <3>2. \A j \in i .. k - 1 : c[j].op # "lock"
      <4> SUFFICES ASSUME NEW j \in i .. k - 1 PROVE c[j].op # "lock"
        OBVIOUS
      <4>1. j \in 1 .. n \/ j \in n + 1 .. k - 1
        BY <1>1
      <4> QED
        BY <1>2, <3>1, <4>1
    <3>3. k \in i .. n + m
      BY <1>1, <3>1
    <3> QED
      BY <1>1, <3>1, <3>2, <3>3 DEF Closing
  <2>3. Closing(c, n + 1) <=> Closing(u, 1)
    BY <1>1, <1>3
  <2> QED
    BY <2>1, <2>2, <2>3
<1>5. \A i \in 1 .. n + m : i \in 1 .. n \/ (i - n \in 1 .. m /\ i = n + (i - n))
  BY <1>1
<1>6. ASSUME NEW i \in 1 .. m
      PROVE  /\ c[n + i] = u[i] /\ (Closing(c, n + i) <=> Closing(u, i))
             /\ (Closing(c, n + i + 1) <=> Closing(u, i + 1))
  <2>1. n + i + 1 = n + (i + 1) /\ i + 1 \in 1 .. m + 1 /\ i \in 1 .. m + 1
    BY <1>1
  <2> QED
    BY <1>1, <1>3, <2>1
<1>7. Balanced(c)
  <2> SUFFICES ASSUME NEW k \in 1 .. n + m
               PROVE  /\ c[k].op = "lock" => Closing(c, k + 1)
                      /\ c[k].op = "unlock" => ~Closing(c, k + 1)
                      /\ Outer(c[k]) => ~Closing(c, k)
    BY <1>1 DEF Balanced
  <2>1. CASE k \in 1 .. n
    BY <1>2, <2>1 DEF Outer
  <2>2. CASE k - n \in 1 .. m /\ k = n + (k - n)
    <3> DEFINE i == k - n
    <3>1. /\ c[n + i] = u[i] /\ (Closing(c, n + i) <=> Closing(u, i))
          /\ (Closing(c, n + i + 1) <=> Closing(u, i + 1)) /\ i \in DOMAIN u /\ k = n + i
      BY <1>1, <1>6, <2>2
    <3> HIDE DEF i
    <3> QED
      BY <3>1 DEF Balanced
  <2> QED
    BY <1>5, <2>1, <2>2
<1>8. Closing(c, 1) <=> Closing(u, 1)
  BY <1>1, <1>4
<1>9. ASSUME NEW K, Covered(u, K), R \cap K = {} \/ Closing(u, 1) PROVE Covered(c, K)
  <2> SUFFICES ASSUME NEW k \in 1 .. n + m
               PROVE  /\ c[k].op \in {"change", "write"} /\ c[k].reg \in K => Closing(c, k)
                      /\ c[k].op = "do" /\ c[k].call[1] \in {"motor", "side"} => Closing(c, k)
                      /\ c[k].op \notin {"interface", "type"}
    BY <1>1 DEF Covered
  <2>1. CASE k \in 1 .. n
    <3>1. Closing(c, k) <=> Closing(u, 1)
      BY <1>1, <1>4, <2>1
    <3> QED
      BY <1>2, <1>9, <2>1, <3>1
  <2>2. CASE k - n \in 1 .. m /\ k = n + (k - n)
    <3> DEFINE i == k - n
    <3>1. /\ c[n + i] = u[i] /\ (Closing(c, n + i) <=> Closing(u, i))
          /\ i \in DOMAIN u /\ k = n + i
      BY <1>1, <1>6, <2>2
    <3> HIDE DEF i
    <3> QED
      BY <3>1, <1>9 DEF Covered
  <2> QED
    BY <1>5, <2>1, <2>2
<1> QED
  BY <1>7, <1>8, <1>9 DEF c

-----------------------------------------------------------------------------
(* What depends on the type of the drives                                   *)

LEMMA ChangesWiden ==
  ASSUME NEW s, NEW R, NEW Q, Changes(s, R), R \subseteq Q
  PROVE  Changes(s, Q)
BY DEF Changes

LEMMA WithinWiden ==
  ASSUME NEW s, NEW R, NEW Q, Within(s, R), R \subseteq Q
  PROVE  Within(s, Q)
BY DEF Within

LEMMA LineChanges ==
  ASSUME Wired, NEW d \in Drives, NEW v
  PROVE  /\ Changes(SetIo(Line["select"][d], v), {FloppyCtrl})
         /\ Changes(SetIo(Line["motor"][d], v), {FloppyCtrl})
         /\ Changes(SetIo(Line["headload"][d], v), {ExtraOut})
         /\ Changes(SetIo(Line["option"][d], v), {ExtraOut})
<1>1. /\ \A p \in Pin(Line["select"][d]) : p[2] \in {FloppyCtrl}
      /\ \A p \in Pin(Line["motor"][d]) : p[2] \in {FloppyCtrl}
      /\ \A p \in Pin(Line["headload"][d]) : p[2] \in {ExtraOut}
      /\ \A p \in Pin(Line["option"][d]) : p[2] \in {ExtraOut}
  BY DEF Wired
<1> QED
  BY <1>1, SetIoChanges

\* A call that is made with the mutex held.
Inner(c) == c[1] \in {"motor", "headload", "side", "track00", "move"}

LEMMA BodyInner ==
  ASSUME Wired, NEW c, NEW ty, Inner(c), c[2] \in Drives \cup {-1},
         c[2] = -1 => c[1] = "track00"
  PROVE  /\ Changes(Body(c, ty), {FloppyCtrl, ExtraOut})
         /\ ty # "APPLE_MACINTOSH" \/ c[2] = -1 =>
              /\ c[1] \in {"motor", "side"} => Changes(Body(c, ty), {FloppyCtrl})
              /\ c[1] = "motor" => Body(c, ty) = SetIo(Line["motor"][c[2]], c[3])
              /\ c[1] = "side" => Body(c, ty) = << Change(FloppyCtrl, 5 :> c[3]) >>
              /\ c[1] = "headload" => Changes(Body(c, ty), {ExtraOut})
              /\ c[1] \in {"track00", "move"} => Body(c, ty) = <<>>
<1> DEFINE mac == ty = "APPLE_MACINTOSH" /\ c[2] # -1
           R == {FloppyCtrl, ExtraOut}
<1>0. /\ \A s : Changes(s, {FloppyCtrl}) => Changes(s, R)
      /\ \A s : Changes(s, {ExtraOut}) => Changes(s, R)
      /\ Changes(<<>>, R) /\ Changes(<<>>, {ExtraOut})
      /\ \A s, u : Changes(s, R) /\ Changes(u, R) => Changes(s \o u, R)
  BY ChangesWiden, ChangesJoin
<1>1. /\ \A cmd, data : Changes(WriteAppleMacCmd(cmd, data), R)
      /\ \A sel : Changes(SetReadMuxAppleMac(sel), R)
  BY MacChanges
<1>2. c[2] = -1 \/ c[2] \in Drives
  OBVIOUS
<1> HIDE DEF R
<1>3. CASE c[1] = "motor"
  <2>1. Body(c, ty) = IF mac THEN WriteAppleMacCmd(GcrMode, gcr) \o
                                  WriteAppleMacCmd(MotorOn, 1 - c[3])
                      ELSE SetIo(Line["motor"][c[2]], c[3])
    BY <1>3 DEF Body
  <2>2. c[2] \in Drives
    BY <1>2, <1>3
  <2>3. Changes(SetIo(Line["motor"][c[2]], c[3]), {FloppyCtrl})
    BY <2>2, LineChanges
  <2> QED
    BY <1>0, <1>1, <1>3, <2>1, <2>3 DEF R
<1>4. CASE c[1] = "headload"
  <2>1. Body(c, ty) = IF ty = "GENERIC" THEN SetIo(Line["headload"][c[2]], c[3]) ELSE <<>>
    BY <1>4 DEF Body
  <2>2. c[2] \in Drives
    BY <1>2, <1>4
  <2>3. Changes(SetIo(Line["headload"][c[2]], c[3]), {ExtraOut})
    BY <2>2, LineChanges
  <2> QED
    BY <1>0, <1>4, <2>1, <2>3 DEF R
<1>5. CASE c[1] = "side"
  <2>1. Body(c, ty) = IF mac THEN WriteAppleMacCmd(GcrMode, gcr) \o
                                  SetReadMuxAppleMac(RdDataHead0 + c[3])
                      ELSE << Change(FloppyCtrl, 5 :> c[3]) >>
    BY <1>5 DEF Body
  <2>2. Changes(<< Change(FloppyCtrl, 5 :> c[3]) >>, {FloppyCtrl})
    BY ChangeIs, ChangesJoin
  <2> QED
    BY <1>0, <1>1, <1>5, <2>1, <2>2 DEF R
<1>6. CASE c[1] = "track00"
  <2>1. Body(c, ty) = IF mac THEN SetReadMuxAppleMac(Trk0) ELSE <<>>
    BY <1>6 DEF Body
  <2> QED
    BY <1>0, <1>1, <1>6, <2>1 DEF R
<1>7. CASE c[1] = "move"
  <2>1. Body(c, ty) = IF mac THEN WriteAppleMacCmd(StepDir, 1 - c[3]) \o
                                  WriteAppleMacCmd(HeadStep, 0)
                      ELSE <<>>
    BY <1>7 DEF Body
  <2> QED
    BY <1>0, <1>1, <1>7, <2>1 DEF R
<1> QED
  BY <1>3, <1>4, <1>5, <1>6, <1>7 DEF Inner

LEMMA SelectIs ==
  ASSUME Wired, NEW d \in Drives, NEW v
  PROVE  /\ Tidy(SelectDrive(d, v)) /\ Within(SelectDrive(d, v), {FloppyCtrl})
         /\ \A K : Covered(SelectDrive(d, v), K)
         /\ Tidy(OptionSelect(d, v)) /\ Within(OptionSelect(d, v), {ExtraOut})
         /\ \A K : Covered(OptionSelect(d, v), K)
<1>1. /\ Changes(SetIo(Line["select"][d], v), {FloppyCtrl})
      /\ Changes(SetIo(Line["option"][d], v), {ExtraOut})
  BY LineChanges
<1> QED
  BY <1>1, ChangesTidy DEF SelectDrive, OptionSelect

LEMMA BodyOuter ==
  ASSUME Wired, NEW c, NEW ty, c[1] \in {"eject", "release"}, c[2] \in Drives
  PROVE  /\ Tidy(Body(c, ty)) /\ Within(Body(c, ty), {FloppyCtrl, ExtraOut})
         /\ \A K : /\ ExtraOut \notin K
                   /\ c[1] = "release" \/ ty # "APPLE_MACINTOSH" \/ FloppyCtrl \notin K
                   => Covered(Body(c, ty), K)
         /\ c[1] = "eject" /\ ty # "APPLE_MACINTOSH" => Within(Body(c, ty), {ExtraOut})
<1> DEFINE R == {FloppyCtrl, ExtraOut}
<1>0. /\ \A s : Within(s, {FloppyCtrl}) => Within(s, R)
      /\ \A s : Within(s, {ExtraOut}) => Within(s, R)
  BY WithinWiden
<1>1. Tidy(<<>>) /\ (\A K : Covered(<<>>, K)) /\ Within(<<>>, {ExtraOut})
  BY TidyEmpty, Listed DEF Within
<1> HIDE DEF R
<1>2. CASE c[1] = "release"
  <2>1. Body(c, ty) = IF dumping = None THEN SelectDrive(c[2], 0) ELSE <<>>
    BY <1>2 DEF Body
  <2> QED
    BY <1>0, <1>1, <1>2, <2>1, SelectIs DEF R
<1>3. CASE c[1] = "eject"
  <2> DEFINE mac == ty = "APPLE_MACINTOSH" /\ c[2] # -1
             gen == SetIo("BLINK", 0) \o SetIo("LOCK", 0) \o SetIo("EJECT", 1) \o
                    OptionSelect(c[2], 1) \o OptionSelect(c[2], 0) \o SetIo("EJECT", 0)
  <2>1. Body(c, ty) = IF mac THEN WriteAppleMacCmd(DiskEject, 1)
                      ELSE IF ~(ty = "GENERIC") THEN <<>> ELSE gen
    BY <1>3 DEF Body
  <2>2. /\ Tidy(WriteAppleMacCmd(DiskEject, 1)) /\ Within(WriteAppleMacCmd(DiskEject, 1), R)
        /\ \A K : K \cap R = {} => Covered(WriteAppleMacCmd(DiskEject, 1), K)
    BY MacChanges, ChangesTidy DEF R
  <2>3. \A v : /\ Changes(SetIo("BLINK", v), {ExtraOut}) /\ Changes(SetIo("LOCK", v), {ExtraOut})
               /\ Changes(SetIo("EJECT", v), {ExtraOut})
    <3>1. \A name \in {"BLINK", "LOCK", "EJECT"} : \A p \in Pin(name) : p[2] \in {ExtraOut}
      BY ExtraPins
    <3> QED
      BY <3>1, SetIoChanges
  <2> DEFINE Good(s) == /\ Tidy(s) /\ Within(s, {ExtraOut})
                        /\ \A K : ExtraOut \notin K => Covered(s, K)
  <2>4. \A s : Changes(s, {ExtraOut}) => Good(s)
    <3> SUFFICES ASSUME NEW s, Changes(s, {ExtraOut}) PROVE Good(s)
      OBVIOUS
    <3>1. \A K : ExtraOut \notin K => K \cap {ExtraOut} = {}
      OBVIOUS
    <3> QED
      BY <3>1, ChangesTidy
  <2>5. \A s, u : Good(s) /\ Good(u) => Good(s \o u)
    BY TidyJoin, WithinJoin
  <2>6. Good(OptionSelect(c[2], 1)) /\ Good(OptionSelect(c[2], 0))
    BY SelectIs
  <2>7. Good(SetIo("BLINK", 0)) /\ Good(SetIo("LOCK", 0)) /\ Good(SetIo("EJECT", 1)) /\ Good(SetIo("EJECT", 0))
    BY <2>3, <2>4
  <2>8. Good(gen)
    <3> HIDE DEF Good
    <3> QED
      BY <2>5, <2>6, <2>7
  <2>9. /\ Tidy(gen) /\ Within(gen, {ExtraOut})
        /\ \A K : ExtraOut \notin K => Covered(gen, K)
    BY <2>8
  <2> HIDE DEF gen, Good
  <2>10. c[2] # -1
    BY BoardAssumption
  <2>11. \A K : ExtraOut \notin K /\ FloppyCtrl \notin K => K \cap R = {}
    BY DEF R
  <2>12. CASE ty = "APPLE_MACINTOSH"
    BY <1>0, <1>3, <2>1, <2>2, <2>10, <2>11, <2>12 DEF R
  <2>13. CASE ty # "APPLE_MACINTOSH"
    BY <1>0, <1>1, <1>3, <2>1, <2>9, <2>13 DEF R
  <2> QED
    BY <2>12, <2>13
<1> QED
  BY <1>2, <1>3

-----------------------------------------------------------------------------
(* Programs that leave the interface and the disks alone                    *)

Meek(a) ==
  /\ Proper(a) /\ a.op \in {"lock", "unlock", "change", "do", "end"}
  /\ a.op = "change" =>
       /\ a.reg # Polarity /\ (a.reg = Control => 29 \notin DOMAIN a.upd)
       /\ \A d \in Drives : a.reg # Image(d) /\ (a.reg = Config(d) => 12 \notin DOMAIN a.upd)
  /\ a.op = "do" => a.call[2] # -1
MeekList(s) == Listing(s) /\ \A i \in DOMAIN s : Meek(s[i])

LEMMA MeekJoin ==
  /\ MeekList(<<>>)
  /\ \A a : Meek(a) => MeekList(<<a>>)
  /\ \A s, u : MeekList(s) /\ MeekList(u) => MeekList(s \o u)
  /\ \A x : MeekList(x) => MeekList(Locked(x))
  /\ \A s : MeekList(s) /\ s # <<>> => Meek(Head(s)) /\ MeekList(Tail(s))
<1>1. MeekList(<<>>) /\ \A a : Meek(a) => MeekList(<<a>>)
  BY Listed DEF MeekList
<1>2. ASSUME NEW s, NEW u, MeekList(s), MeekList(u) PROVE MeekList(s \o u)
  <2>0. Listing(s) /\ Listing(u)
    BY <1>2 DEF MeekList
  <2> DEFINE c == s \o u
  <2>1. Listing(c)
    BY <2>0, JoinEach
  <2>2. \A k \in DOMAIN c : (\E i \in DOMAIN s : c[k] = s[i]) \/ (\E i \in DOMAIN u : c[k] = u[i])
    BY <2>0, JoinEach
  <2> HIDE DEF c
  <2>3. MeekList(c)
    BY <1>2, <2>1, <2>2 DEF MeekList
  <2> QED
    BY <2>3 DEF c
<1>3. Meek(Calling("lock")) /\ Meek(Calling("unlock"))
  BY AccessIs DEF Calling, Meek, Proper
<1>4. ASSUME NEW x, MeekList(x) PROVE MeekList(Locked(x))
  BY <1>3, <1>4, LockedEach DEF MeekList
<1>5. ASSUME NEW s, MeekList(s), s # <<>> PROVE Meek(Head(s)) /\ MeekList(Tail(s))
  BY <1>5, RestEach DEF MeekList
<1> QED
  BY <1>1, <1>2, <1>4, <1>5

LEMMA OneField ==
  /\ \A f, v : DOMAIN (f :> v) = {f} /\ (f :> v)[f] = v
  /\ \A f, v, g, w : /\ DOMAIN ((f :> v) @@ (g :> w)) = {f, g}
                     /\ ((f :> v) @@ (g :> w))[f] = v
                     /\ f # g => ((f :> v) @@ (g :> w))[g] = w
BY DEF :>, @@

LEMMA Fewer == DOMAIN None = {}
BY DEF None

Ports == {FloppyCtrl, ExtraOut, Gpio, GpioOe, Mux}

LEMMA ChangesMeek ==
  ASSUME NEW s, NEW R, Changes(s, R), R \subseteq Ports \/ R \cap Shared = {}
  PROVE  MeekList(s)
<1>1. \A r \in R : /\ r # Polarity /\ r # Control
                   /\ \A d \in Drives : r # Image(d) /\ r # Config(d)
  BY RegistersDiffer DEF Ports, Shared
<1> QED
  BY <1>1 DEF Changes, MeekList, Meek, Proper

LEMMA WithinMeek ==
  ASSUME NEW s, NEW R, Within(s, R), R \subseteq Ports
  PROVE  MeekList(s)
<1>1. \A r \in R : /\ r # Polarity /\ r # Control
                   /\ \A d \in Drives : r # Image(d) /\ r # Config(d)
  BY RegistersDiffer DEF Ports
<1> QED
  BY <1>1 DEF Within, MeekList, Meek, Proper

LEMMA ChangeMeek ==
  ASSUME NEW r, NEW u, r # Polarity, r = Control => 29 \notin DOMAIN u,
         \A d \in Drives : r # Image(d) /\ (r = Config(d) => 12 \notin DOMAIN u)
  PROVE  Meek(Change(r, u)) /\ Plain(Change(r, u))
BY ChangeIs DEF Meek, Plain, Proper

\* What is in order, and changes no register of Shared but between lock and
\* unlock.
Good(s) == Tidy(s) /\ MeekList(s) /\ \A K : ExtraOut \notin K => Covered(s, K)

LEMMA GoodJoin ==
  /\ Good(<<>>)
  /\ \A s, u : Good(s) /\ Good(u) => Good(s \o u)
  /\ \A x : PlainList(x) /\ MeekList(x) => Good(Locked(x))
BY TidyEmpty, MeekJoin, TidyJoin, LockedTidy DEF Good

LEMMA DoIs ==
  ASSUME NEW c
  PROVE  Do(c).op = "do" /\ Do(c).call = c
BY AccessIs DEF Do

LEMMA DoOuter ==
  ASSUME NEW name \in {"track00", "release", "eject"}, NEW d \in Drives, NEW v
  PROVE  Good(<< Do(<<name, d, v>>) >>)
<1> DEFINE a == Do(<<name, d, v>>)
<1>1. a.op = "do" /\ a.call[1] = name /\ a.call[2] = d
  BY DoIs
<1>2. d # -1
  BY BoardAssumption
<1> HIDE DEF a
<1>3. Proper(a) /\ Meek(a)
  BY <1>1, <1>2 DEF Proper, Meek, Names
<1>4. Tidy(<<a>>) /\ \A K : Covered(<<a>>, K)
  BY <1>1, <1>3, TidyOne
<1> QED
  BY <1>3, <1>4, MeekJoin DEF Good, a

LEMMA DoInner ==
  ASSUME NEW name \in {"motor", "headload", "side", "track00", "move"}, NEW d \in Drives, NEW v
  PROVE  LET a == Do(<<name, d, v>>) IN Meek(a) /\ Plain(a)
<1> DEFINE a == Do(<<name, d, v>>)
<1>1. a.op = "do" /\ a.call[1] = name /\ a.call[2] = d
  BY DoIs
<1>2. d # -1
  BY BoardAssumption
<1> HIDE DEF a
<1>3. Meek(a) /\ Plain(a)
  BY <1>1, <1>2 DEF Proper, Meek, Names, Plain
<1> QED
  BY <1>3 DEF a

LEMMA OneGood ==
  /\ \A a : Meek(a) /\ Plain(a) => Good(Locked(<<a>>))
  /\ \A a, b : Meek(a) /\ Plain(a) /\ Meek(b) /\ Plain(b) => Good(Locked(<<a, b>>))
<1>1. \A a : Meek(a) /\ Plain(a) => PlainList(<<a>>) /\ MeekList(<<a>>)
  BY PlainJoin, MeekJoin
<1>2. \A a, b : /\ <<a, b>> \in Seq({a, b}) /\ DOMAIN <<a, b>> = {1, 2}
                /\ <<a, b>>[1] = a /\ <<a, b>>[2] = b
  OBVIOUS
<1>3. \A a, b : Meek(a) /\ Plain(a) /\ Meek(b) /\ Plain(b) => PlainList(<<a, b>>) /\ MeekList(<<a, b>>)
  <2> SUFFICES ASSUME NEW a, NEW b, Meek(a), Plain(a), Meek(b), Plain(b)
               PROVE  PlainList(<<a, b>>) /\ MeekList(<<a, b>>)
    OBVIOUS
  <2> DEFINE c == <<a, b>>
  <2>1. Listing(c) /\ DOMAIN c = {1, 2} /\ c[1] = a /\ c[2] = b
    BY <1>2 DEF Listing
  <2> HIDE DEF c
  <2>2. PlainList(c) /\ MeekList(c)
    BY <2>1 DEF PlainList, MeekList
  <2> QED
    BY <2>2 DEF c
<1> QED
  BY <1>1, <1>3, GoodJoin

LEMMA CallsGood ==
  ASSUME Wired, NEW d \in Drives, NEW v
  PROVE  /\ Good(Motor(d, v)) /\ Good(Headload(d, v)) /\ Good(Side(d, v))
         /\ Good(MoveHead(d, v)) /\ Good(AtTrack00(d)) /\ Good(Eject(d))
         /\ Good(SelectDrive(d, v)) /\ Good(OptionSelect(d, v))
         /\ Good(<< Do(<<"release", d, 0>>) >>)
<1>1. Good(Motor(d, v)) /\ Good(Headload(d, v)) /\ Good(Side(d, v)) /\ Good(MoveHead(d, v))
  BY DoInner, OneGood DEF Motor, Headload, Side, MoveHead
<1>2. Good(AtTrack00(d)) /\ Good(Eject(d)) /\ Good(<< Do(<<"release", d, 0>>) >>)
  BY DoOuter DEF AtTrack00, Eject
<1>3. MeekList(SelectDrive(d, v)) /\ MeekList(OptionSelect(d, v))
  <2>1. {FloppyCtrl} \subseteq Ports /\ {ExtraOut} \subseteq Ports
    BY DEF Ports
  <2> QED
    BY <2>1, SelectIs, WithinMeek
<1> QED
  BY <1>1, <1>2, <1>3, SelectIs DEF Good

LEMMA ConfigMeek ==
  ASSUME NEW d, NEW u, 12 \notin DOMAIN u
  PROVE  Meek(Change(Config(d), u)) /\ Plain(Change(Config(d), u))
BY ChangeMeek, RegistersDiffer

LEMMA PortMeek ==
  ASSUME NEW r \in Ports, NEW u
  PROVE  Meek(Change(r, u)) /\ Plain(Change(r, u))
<1>1. r # Polarity /\ r # Control /\ \A d \in Drives : r # Image(d) /\ r # Config(d)
  BY RegistersDiffer DEF Ports
<1> QED
  BY <1>1, ChangeMeek

LEMMA ControlMeek ==
  ASSUME NEW u, 29 \notin DOMAIN u
  PROVE  Meek(Change(Control, u)) /\ Plain(Change(Control, u))
BY ChangeMeek, RegistersDiffer

LEMMA FieldsGood ==
  /\ \A d, f, v : f # 12 => Good(SetConfig(d, f, v))
  /\ \A d, h, p : Good(IndexCfg(d, h, p))
  /\ \A d \in Drives : \A v : Good(EnableDrive(d, v))
  /\ \A l, v : Good(SetLedSrc(l, v))
  /\ \A b, o, v : Good(SetExtIo(b, o, v))
<1>1. ASSUME NEW d, NEW f, NEW v, f # 12 PROVE Good(SetConfig(d, f, v))
  <2>1. 12 \notin DOMAIN (f :> v)
    BY <1>1 DEF :>
  <2> QED
    BY <2>1, ConfigMeek, OneGood DEF SetConfig
<1>2. ASSUME NEW d, NEW h, NEW p PROVE Good(IndexCfg(d, h, p))
  <2> DEFINE u == (27 :> IF h = 0 THEN 0 ELSE 1) @@ (28 :> 1 - p)
  <2>1. 12 \notin DOMAIN u
    BY DEF :>, @@
  <2>2. IndexCfg(d, h, p) = Locked(<< Change(Config(d), u) >>)
    BY DEF IndexCfg
  <2> HIDE DEF u
  <2> QED
    BY <2>1, <2>2, ConfigMeek, OneGood
<1>3. ASSUME NEW d \in Drives, NEW v PROVE Good(EnableDrive(d, v))
  <2> DEFINE u == ((d % 4) :> v) @@ (15 :> 1)
  <2>1. 29 \notin DOMAIN u
    <3>1. d \in 0 .. 3
      BY BoardAssumption
    <3>2. d % 4 # 29
      BY <3>1
    <3> QED
      BY <3>2 DEF :>, @@
  <2>2. EnableDrive(d, v) = Locked(<< Change(Control, u) >>)
    BY DEF EnableDrive
  <2> HIDE DEF u
  <2> QED
    BY <2>1, <2>2, ControlMeek, OneGood
<1>4. ASSUME NEW l, NEW v PROVE Good(SetLedSrc(l, v))
  <2>1. Mux \in Ports
    BY DEF Ports
  <2>2. SetLedSrc(l, v) = <<>> \/ SetLedSrc(l, v) = Locked(<< Change(Mux, 16 + 8 * l :> v) >>)
    BY DEF SetLedSrc
  <2> QED
    BY <2>1, <2>2, PortMeek, OneGood, GoodJoin
<1>5. ASSUME NEW b, NEW o, NEW v PROVE Good(SetExtIo(b, o, v))
  <2> DEFINE x == Change(Gpio, 2 + (b % 4) :> v)  y == Change(GpioOe, 2 + (b % 4) :> o)
  <2>1. Gpio \in Ports /\ GpioOe \in Ports
    BY DEF Ports
  <2>2. Meek(x) /\ Plain(x) /\ Meek(y) /\ Plain(y)
    BY <2>1, PortMeek
  <2>3. SetExtIo(b, o, v) = IF o = 1 THEN Locked(<<x>> \o <<y>>) ELSE Locked(<<y>> \o <<x>>)
    BY DEF SetExtIo
  <2> HIDE DEF x, y
  <2>4. PlainList(<<x>>) /\ PlainList(<<y>>) /\ MeekList(<<x>>) /\ MeekList(<<y>>)
    BY <2>2, PlainJoin, MeekJoin
  <2>5. /\ PlainList(<<x>> \o <<y>>) /\ PlainList(<<y>> \o <<x>>)
        /\ MeekList(<<x>> \o <<y>>) /\ MeekList(<<y>> \o <<x>>)
    BY <2>4, PlainJoin, MeekJoin
  <2>6. Good(Locked(<<x>> \o <<y>>)) /\ Good(Locked(<<y>> \o <<x>>))
    BY <2>5, GoodJoin
  <2> QED
    BY <2>3, <2>6
<1> QED
  BY <1>1, <1>2, <1>3, <1>4, <1>5

LEMMA StartGood == \A v, x : Good(StartDump(v, x))
<1> SUFFICES ASSUME NEW v, NEW x PROVE Good(StartDump(v, x))
  OBVIOUS
<1> DEFINE a1 == Change(Control, 4 :> 0)
           a2 == Change(FloppyCtrl, (20 :> 0) @@ (21 :> 0))
           b1 == Change(Control, 4 :> 1)
           b2 == Change(FloppyCtrl, 22 :> 1 - v)
           b3 == Change(FloppyCtrl, 23 :> x)
           b4 == Change(FloppyCtrl, 21 :> 1)
           b5 == Access("change", FloppyCtrl, 20 :> 1, <<"capture">>)
<1>1. StartDump(v, x) = Locked(<<a1, a2>>) \o Locked(<<b1, b2, b3, b4, b5>>)
  BY DEF StartDump
<1>2. FloppyCtrl \in Ports /\ 29 \notin DOMAIN (4 :> 0) /\ 29 \notin DOMAIN (4 :> 1)
  BY DEF Ports, :>
<1>3. /\ Meek(a1) /\ Plain(a1) /\ Meek(a2) /\ Plain(a2) /\ Meek(b1) /\ Plain(b1)
      /\ Meek(b2) /\ Plain(b2) /\ Meek(b3) /\ Plain(b3) /\ Meek(b4) /\ Plain(b4)
  BY <1>2, PortMeek, ControlMeek
<1>4. Meek(b5) /\ Plain(b5)
  <2>1. b5.op = "change" /\ b5.reg = FloppyCtrl
    BY AccessIs
  <2> HIDE DEF b5
  <2>2. \A d \in Drives : FloppyCtrl # Image(d) /\ FloppyCtrl # Config(d)
    BY RegistersDiffer
  <2> QED
    BY <2>1, <2>2, RegistersDiffer DEF Meek, Plain, Proper
<1> HIDE DEF a1, a2, b1, b2, b3, b4, b5
<1> DEFINE c == << b1, b2, b3, b4, b5 >>
<1>5. /\ c \in Seq({b1, b2, b3, b4, b5}) /\ DOMAIN c = 1 .. 5
      /\ c[1] = b1 /\ c[2] = b2 /\ c[3] = b3 /\ c[4] = b4 /\ c[5] = b5
  OBVIOUS
<1>6. Listing(c) /\ \A i \in DOMAIN c : c[i] \in {b1, b2, b3, b4, b5}
  <2> HIDE DEF c
  <2> QED
    BY <1>5 DEF Listing
<1>7. PlainList(c) /\ MeekList(c)
  <2> HIDE DEF c
  <2> QED
    BY <1>3, <1>4, <1>6 DEF PlainList, MeekList
<1>8. Good(Locked(c)) /\ Good(Locked(<<a1, a2>>))
  BY <1>3, <1>7, GoodJoin, OneGood
<1> QED
  BY <1>1, <1>8, GoodJoin

\* The accesses of a dump, the one that ends it among them.
LEMMA DumpGood ==
  ASSUME Wired, NEW d \in Drives, NEW v, NEW x
  PROVE  Good(DumpProgram(d, v, x))
<1>1. Good(<< Calling("end") >>)
  <2> DEFINE a == Calling("end")
  <2>1. a.op = "end"
    BY AccessIs DEF Calling
  <2> HIDE DEF a
  <2>2. Proper(a) /\ Meek(a)
    BY <2>1 DEF Proper, Meek
  <2>3. Tidy(<<a>>) /\ \A K : Covered(<<a>>, K)
    BY <2>1, <2>2, TidyOne
  <2> QED
    BY <2>2, <2>3, MeekJoin DEF Good, a
<1>2. /\ Good(Motor(d, 1)) /\ Good(SelectDrive(d, 1)) /\ Good(AtTrack00(d)) /\ Good(MoveHead(d, 0))
      /\ Good(Headload(d, 1)) /\ Good(Side(d, v)) /\ Good(StartDump(1, x)) /\ Good(MoveHead(d, 1))
      /\ Good(Headload(d, 0)) /\ Good(SelectDrive(d, 0)) /\ Good(Motor(d, 0))
  BY CallsGood, StartGood
<1>3. \A s, u : Good(s) /\ Good(u) => Good(s \o u)
  BY GoodJoin
<1> QED
  BY <1>1, <1>2, <1>3 DEF DumpProgram

LEMMA ReadDskGood ==
  ASSUME Wired, NEW d \in Drives
  PROVE  Good(ReadDsk(d)) /\ \A x : Good(HeadOption(d, x))
<1>2. /\ Good(Motor(d, 1)) /\ Good(SelectDrive(d, 1)) /\ Good(AtTrack00(d))
      /\ Good(Headload(d, 1)) /\ Good(Side(d, 0)) /\ Good(StartDump(0, 0))
      /\ Good(Headload(d, 0)) /\ Good(SelectDrive(d, 0)) /\ Good(Motor(d, 0))
      /\ \A x : Good(MoveHead(d, x))
  BY CallsGood, StartGood
<1>3. \A s, u : Good(s) /\ Good(u) => Good(s \o u)
  BY GoodJoin
<1>4. Good(ReadDsk(d))
  BY <1>2, <1>3 DEF ReadDsk
<1>5. \A x : Good(HeadOption(d, x))
  BY <1>2, <1>3 DEF HeadOption
<1> QED
  BY <1>4, <1>5

-----------------------------------------------------------------------------
(* The clients' commands                                                    *)

\* What a reset does besides: registers are written.
\* An access to the image of the drive d, or one that gives it a disk.
Drawn(a, d)  == a.op \in {"change", "write"} /\ a.reg = Image(d)
Raises(a, d) == a.op \in {"change", "write"} /\ a.reg = Config(d) /\ 12 \in DOMAIN a.upd

Tame(a) == \A d \in Drives : ~Drawn(a, d) /\ ~Raises(a, d)

Mild(s) == Tidy(s) /\ \A i \in DOMAIN s :
  s[i].op \in {"lock", "unlock", "change", "write"} /\ Tame(s[i])

LEMMA MildJoin ==
  /\ Mild(<<>>)
  /\ \A s, u : Mild(s) /\ Mild(u) => Mild(s \o u)
  /\ \A r, u : Tame(Write(r, u)) => Mild(<< Write(r, u) >>)
  /\ \A x : Changes(x, {x[i].reg : i \in DOMAIN x}) /\ (\A i \in DOMAIN x : Tame(x[i]))
             => Mild(Locked(x))
<1>1. Mild(<<>>)
  BY TidyEmpty, Listed DEF Mild
<1>2. ASSUME NEW s, NEW u, Mild(s), Mild(u) PROVE Mild(s \o u)
  <2> DEFINE c == s \o u
  <2>1. Listing(s) /\ Listing(u) /\ Tidy(c)
    BY <1>2, TidyJoin DEF Mild, Tidy
  <2>2. \A k \in DOMAIN c : (\E i \in DOMAIN s : c[k] = s[i]) \/ (\E i \in DOMAIN u : c[k] = u[i])
    BY <2>1, JoinEach
  <2> HIDE DEF c
  <2>3. Mild(c)
    BY <1>2, <2>1, <2>2 DEF Mild
  <2> QED
    BY <2>3 DEF c
<1>3. ASSUME NEW r, NEW u, Tame(Write(r, u)) PROVE Mild(<< Write(r, u) >>)
  <2> DEFINE a == Write(r, u)
  <2>1. a.op = "write" /\ Tame(a)
    BY <1>3, AccessIs DEF Write
  <2> HIDE DEF a
  <2>2. Proper(a)
    BY <2>1 DEF Proper
  <2>3. Tidy(<<a>>)
    BY <2>1, <2>2, TidyOne
  <2>4. \A i \in DOMAIN <<a>> : <<a>>[i] = a
    BY Listed
  <2> QED
    BY <2>1, <2>3, <2>4 DEF Mild, a
<1>4. ASSUME NEW x, NEW Q, Changes(x, Q), \A i \in DOMAIN x : Tame(x[i])
      PROVE  Mild(Locked(x))
  <2> DEFINE c == Locked(x)
  <2>1. Tidy(c) /\ Within(c, Q)
    BY <1>4, ChangesTidy
  <2>2. \A k \in DOMAIN c : \/ c[k] \in {Calling("lock"), Calling("unlock")}
                           \/ \E i \in DOMAIN x : c[k] = x[i]
    BY <1>4, LockedEach DEF Changes
  <2>3. Tame(Calling("lock")) /\ Tame(Calling("unlock"))
    <3>1. Calling("lock").op = "lock" /\ Calling("unlock").op = "unlock"
      BY AccessIs DEF Calling
    <3> QED
      BY <3>1 DEF Tame, Drawn, Raises
  <2> HIDE DEF c
  <2>4. Mild(c)
    BY <1>4, <2>1, <2>2, <2>3 DEF Mild, Within
  <2> QED
    BY <2>4 DEF c
<1> QED
  BY <1>1, <1>2, <1>3, <1>4

LEMMA IndexMild == \A d, h, p : Mild(IndexCfg(d, h, p))
<1> SUFFICES ASSUME NEW d, NEW h, NEW p PROVE Mild(IndexCfg(d, h, p))
  OBVIOUS
<1> DEFINE a == Change(Config(d), (27 :> IF h = 0 THEN 0 ELSE 1) @@ (28 :> 1 - p))
<1>1. a.op = "change" /\ IndexCfg(d, h, p) = Locked(<<a>>)
  BY ChangeIs DEF IndexCfg
<1>4. Tame(a)
  <2>1. 12 \notin DOMAIN ((27 :> IF h = 0 THEN 0 ELSE 1) @@ (28 :> 1 - p))
    BY DEF :>, @@
  <2> QED
    BY <2>1, ChangeIs, RegistersDiffer DEF Tame, Drawn, Raises
<1> HIDE DEF a
<1>2. Changes(<<a>>, {a.reg})
  BY <1>1, ChangesJoin
<1>3. {<<a>>[i].reg : i \in DOMAIN <<a>>} = {a.reg} /\ \A i \in DOMAIN <<a>> : Tame(<<a>>[i])
  BY <1>4, Listed
<1> QED
  BY <1>1, <1>2, <1>3, MildJoin

LEMMA EachDrive ==
  /\ \A f : (\A d \in Drives : Mild(f[d])) => Mild(ForDrives(f))
  /\ \A f : (\A d \in Drives : Good(f[d])) => Good(ForDrives(f))
<1>1. ASSUME NEW f, \A d \in Drives : Mild(f[d]) PROVE Mild(ForDrives(f))
  <2> DEFINE on(d) == IF d \in Drives THEN f[d] ELSE <<>>
  <2>1. Mild(on(0)) /\ Mild(on(1)) /\ Mild(on(2)) /\ Mild(on(3))
    BY <1>1, MildJoin
  <2>2. ForDrives(f) = on(0) \o on(1) \o on(2) \o on(3)
    BY DEF ForDrives
  <2> HIDE DEF on
  <2> QED
    BY <2>1, <2>2, MildJoin
<1>2. ASSUME NEW f, \A d \in Drives : Good(f[d]) PROVE Good(ForDrives(f))
  <2> DEFINE on(d) == IF d \in Drives THEN f[d] ELSE <<>>
  <2>1. Good(on(0)) /\ Good(on(1)) /\ Good(on(2)) /\ Good(on(3))
    BY <1>2, GoodJoin
  <2>2. ForDrives(f) = on(0) \o on(1) \o on(2) \o on(3)
    BY DEF ForDrives
  <2> HIDE DEF on
  <2> QED
    BY <2>1, <2>2, GoodJoin
<1> QED
  BY <1>1, <1>2

Interface == Access("interface", Control, None, None)

\* A reset ends with the interface and the sources of the lights.
LEMMA ResetIs ==
  /\ Tidy(ResetFpga)
  /\ \E x : Mild(x) /\ ResetFpga = x \o << Interface, Write(Mux, None) >>
<1> DEFINE x == << Write(Control, None), Write(Control, 15 :> 1) >> \o
                ForDrives([d \in Drives |-> IndexCfg(d, 0, 1)]) \o
                ForDrives([d \in Drives |-> << Write(Config(d), (0 :> 4) @@ (4 :> 6)) >>])
           a == Write(Control, None)
           b == Write(Control, 15 :> 1)
           e == Write(Mux, None)
<1>1. ResetFpga = x \o << Interface, e >>
  BY DEF ResetFpga, Interface
<1>2. Mild(<<a, b>>)
  <2>2. Tame(a) /\ Tame(b)
    BY AccessIs, RegistersDiffer DEF Tame, Drawn, Raises, Write
  <2>1. Mild(<<a>>) /\ Mild(<<b>>) /\ <<a, b>> = <<a>> \o <<b>>
    BY <2>2, MildJoin
  <2> QED
    BY <2>1, MildJoin
<1>3. Mild(ForDrives([d \in Drives |-> IndexCfg(d, 0, 1)]))
  <2> DEFINE f == [d \in Drives |-> IndexCfg(d, 0, 1)]
  <2>1. \A d \in Drives : Mild(f[d])
    BY IndexMild
  <2> HIDE DEF f
  <2>2. Mild(ForDrives(f))
    BY <2>1, EachDrive
  <2> QED
    BY <2>2 DEF f
<1>4. Mild(ForDrives([d \in Drives |-> << Write(Config(d), (0 :> 4) @@ (4 :> 6)) >>]))
  <2> DEFINE f == [d \in Drives |-> << Write(Config(d), (0 :> 4) @@ (4 :> 6)) >>]
  <2>3. 12 \notin DOMAIN ((0 :> 4) @@ (4 :> 6))
    BY DEF :>, @@
  <2>4. \A d \in Drives : Tame(Write(Config(d), (0 :> 4) @@ (4 :> 6)))
    BY <2>3, AccessIs, RegistersDiffer DEF Tame, Drawn, Raises, Write
  <2>1. \A d \in Drives : Mild(f[d])
    BY <2>4, MildJoin
  <2> HIDE DEF f
  <2>2. Mild(ForDrives(f))
    BY <2>1, EachDrive
  <2> QED
    BY <2>2 DEF f
<1>5. Mild(x)
  BY <1>2, <1>3, <1>4, MildJoin
<1>6. Tidy(<< Interface, e >>)
  <2>1. Interface.op = "interface" /\ e.op = "write"
    BY AccessIs DEF Interface, Write
  <2> HIDE DEF e
  <2>2. Proper(Interface) /\ Proper(e)
    BY <2>1 DEF Proper
  <2>3. Tidy(<< Interface >>) /\ Tidy(<<e>>)
    BY <2>1, <2>2, TidyOne
  <2>4. << Interface, e >> = << Interface >> \o <<e>>
    BY Pair
  <2> QED
    BY <2>3, <2>4, TidyJoin
<1> HIDE DEF x, e
<1>7. Tidy(ResetFpga)
  BY <1>1, <1>5, <1>6, TidyJoin DEF Mild
<1> QED
  BY <1>1, <1>5, <1>7 DEF e

LEMMA ScriptIs ==
  ASSUME Wired, Commands, NEW m \in Modes, NEW c \in Calls["script"][m]
  PROVE  /\ Tidy(Program(c))
         /\ c[1] = "reset" => Program(c) = ResetFpga
         /\ c[1] # "reset" => MeekList(Program(c)) /\ \A K \in SUBSET Shared : Covered(Program(c), K)
<1>0. \/ c[1] = "setio" /\ \A p \in Pin(c[2]) : p[2] \notin Shared
      \/ c[1] = "config" /\ c[3] \in {0, 4, 13, 16, 20}
      \/ c[1] = "led"
      \/ c[1] = "reset"
      \/ c[1] \in {"eject", "headstep"} /\ c[2] \in Drives
  BY DEF Commands
<1> DEFINE Fit(s) == Tidy(s) /\ MeekList(s) /\ \A K \in SUBSET Shared : Covered(s, K)
<1>1. \A s : Good(s) => Fit(s)
  <2>1. \A K \in SUBSET Shared : ExtraOut \notin K
    BY RegistersDiffer DEF Shared
  <2> QED
    BY <2>1 DEF Good
<1>2. CASE c[1] = "setio"
  <2> DEFINE Q == {p[2] : p \in Pin(c[2])}  s == SetIo(c[2], c[3])
  <2>1. Changes(s, Q)
    BY SetIoChanges
  <2>2. Q \cap Shared = {}
    BY <1>0, <1>2
  <2>3. Program(c) = s
    BY <1>2 DEF Program
  <2> HIDE DEF Q, s
  <2>4. MeekList(s) /\ Tidy(s) /\ \A K : K \cap Q = {} => Covered(s, K)
    BY <2>1, <2>2, ChangesMeek, ChangesTidy
  <2>5. \A K \in SUBSET Shared : K \cap Q = {}
    BY <2>2
  <2> QED
    BY <1>2, <2>3, <2>4, <2>5
<1>3. CASE c[1] = "config"
  <2>1. Program(c) = SetConfig(c[2], c[3], c[4])
    BY <1>3 DEF Program
  <2>2. c[3] # 12
    BY <1>0, <1>3
  <2>3. Fit(Program(c))
    BY <1>1, <2>1, <2>2, FieldsGood
  <2> QED
    BY <1>3, <2>3
<1>4. CASE c[1] = "led"
  <2>1. Program(c) = SetLedSrc(c[2], c[3])
    BY <1>4 DEF Program
  <2>3. Fit(Program(c))
    BY <1>1, <2>1, FieldsGood
  <2> QED
    BY <1>4, <2>3
<1>5. CASE c[1] = "reset"
  <2>1. Program(c) = ResetFpga
    BY <1>5 DEF Program
  <2> QED
    BY <1>5, <2>1, ResetIs
<1>6. CASE c[1] = "eject"
  <2>1. Program(c) = Eject(c[2]) /\ c[2] \in Drives
    BY <1>0, <1>6 DEF Program
  <2>3. Fit(Program(c))
    BY <1>1, <2>1, CallsGood
  <2> QED
    BY <1>6, <2>3
<1>7. CASE c[1] = "headstep"
  <2>1. Program(c) = SelectDrive(c[2], 1) \o MoveHead(c[2], c[3]) \o
                     AtTrack00(c[2]) \o << Do(<<"release", c[2], 0>>) >>
    BY <1>7 DEF Program
  <2>2. c[2] \in Drives
    BY <1>0, <1>7
  <2>3. Good(Program(c))
    BY <2>1, <2>2, CallsGood, GoodJoin
  <2> QED
    BY <1>1, <1>7, <2>3
<1> QED
  BY <1>0, <1>2, <1>3, <1>4, <1>5, <1>6, <1>7

-----------------------------------------------------------------------------
(* A shell's invocation                                                     *)

\* Three lists one after the other, whichever two are joined first.
Regrouped(s, u, w) == (s \o u) \o w = s \o (u \o w)

LEMMA Regroup ==
  ASSUME NEW s, NEW u, NEW w, Listing(s), Listing(u), Listing(w)
  PROVE  Regrouped(s, u, w)
<1>1. PICK S : s \in Seq(S)
  BY DEF Listing
<1>2. PICK U : u \in Seq(U)
  BY DEF Listing
<1>3. PICK V : w \in Seq(V)
  BY DEF Listing
<1> DEFINE T == S \cup U \cup V
<1>4. s \in Seq(T) /\ u \in Seq(T) /\ w \in Seq(T)
  BY <1>1, <1>2, <1>3
<1> HIDE DEF T
<1> QED
  BY <1>4, ConcatAssociative DEF Regrouped

\* A list with what is in order and leaves the disks alone behind it.
Longer(s, u) == \E p : Good(p) /\ u = s \o p

LEMMA LongerJoin ==
  ASSUME NEW s, Listing(s)
  PROVE  /\ Longer(s, s)
         /\ \A u, p : Longer(s, u) /\ Good(p) => Longer(s, u \o p)
<1>1. Longer(s, s)
  <2>1. s = s \o <<>>
    <3>1. PICK S : s \in Seq(S)
      BY DEF Listing
    <3> QED
      BY <3>1, ConcatEmptySeq
  <2> QED
    BY <2>1, GoodJoin DEF Longer
<1>2. ASSUME NEW u, NEW p, Longer(s, u), Good(p) PROVE Longer(s, u \o p)
  <2>1. PICK q : Good(q) /\ u = s \o q
    BY <1>2 DEF Longer
  <2>2. u \o p = s \o (q \o p)
    <3>1. Listing(q) /\ Listing(p)
      BY <1>2, <2>1 DEF Good, Tidy
    <3>2. Regrouped(s, q, p)
      BY <3>1, Regroup
    <3> QED
      BY <2>1, <3>2, Zenon DEF Regrouped
  <2>3. Good(q \o p)
    BY <1>2, <2>1, GoodJoin
  <2> QED
    BY <2>2, <2>3 DEF Longer
<1> QED
  BY <1>1, <1>2

\* In an invocation what loads an image and what looks for the drives stand
\* among calls that do neither.
LEMMA InvocationIs ==
  ASSUME Wired, NEW d \in Drives, NEW opts, "reset" \notin DOMAIN opts
  PROVE  \E p, q, r, l, a :
           /\ Good(p) /\ Good(q) /\ Good(r)
           /\ \/ l = <<>>
              \/ /\ "load" \in DOMAIN opts
                 /\ \E h, e : l = LoadStreamHfe(d, opts["load"], h, e)
           /\ a \in {<<>>, Autodetect}
           /\ Listing(l) /\ Listing(a) => Invocation(d, opts) = (((p \o l) \o q) \o a) \o r
<1> DEFINE has(o)   == o \in DOMAIN opts
           on(o, s) == IF has(o) THEN s ELSE <<>>
           sectors  == IF has("hardsector") THEN opts["hardsector"] ELSE 0
           double   == IF has("doublestep") THEN 1 ELSE 0
           x0  == on("reset", ResetFpga)
           x1  == on("selsrc", SetConfig(d, 16, opts["selsrc"]))
           x2  == on("motsrc", SetConfig(d, 20, opts["motsrc"]))
           x3  == on("pin02mode", SetConfig(d, 0, opts["pin02mode"]))
           x4  == on("pin34mode", SetConfig(d, 4, opts["pin34mode"]))
           x5  == on("headrecal", HeadOption(d, 0))
           x6  == on("headstep", HeadOption(d, 1))
           l   == on("load", LoadStreamHfe(d, opts["load"], sectors, double))
           y1  == on("setiohigh", SetExtIo(opts["setiohigh"], 1, 1))
           y2  == on("setiolow", SetExtIo(opts["setiolow"], 1, 0))
           y3  == on("setiohz", SetExtIo(opts["setiohz"], 0, 0))
           y4  == on("led1src", SetLedSrc(0, opts["led1src"]))
           y5  == on("led2src", SetLedSrc(1, opts["led2src"]))
           y6  == on("enabledrive", EnableDrive(d, 1))
           y7  == on("disabledrive", EnableDrive(d, 0))
           y8  == on("writeprotectdrive", SetConfig(d, 13, opts["writeprotectdrive"]))
           a   == on("autodetect", Autodetect)
           r   == on("readdsk", ReadDsk(d))
           p   == x0 \o x1 \o x2 \o x3 \o x4 \o x5 \o x6
           s   == p \o l
           u   == s \o y1 \o y2 \o y3 \o y4 \o y5 \o y6 \o y7 \o y8
<1>1. Invocation(d, opts) = u \o a \o r
  BY DEF Invocation
<1>2. \A o, w : Good(w) => Good(on(o, w))
  BY GoodJoin
<1>3. Good(x0) /\ Good(x1) /\ Good(x2) /\ Good(x3) /\ Good(x4) /\ Good(x5) /\ Good(x6)
  <2>1. x0 = <<>>
    OBVIOUS
  <2>2. /\ Good(SetConfig(d, 16, opts["selsrc"])) /\ Good(SetConfig(d, 20, opts["motsrc"]))
        /\ Good(SetConfig(d, 0, opts["pin02mode"])) /\ Good(SetConfig(d, 4, opts["pin34mode"]))
    BY FieldsGood
  <2>3. Good(HeadOption(d, 0)) /\ Good(HeadOption(d, 1))
    BY ReadDskGood
  <2> HIDE DEF on
  <2> QED
    BY <1>2, <2>1, <2>2, <2>3, GoodJoin
<1>4. /\ Good(y1) /\ Good(y2) /\ Good(y3) /\ Good(y4) /\ Good(y5) /\ Good(y6) /\ Good(y7)
      /\ Good(y8) /\ Good(r)
  <2>1. /\ Good(SetExtIo(opts["setiohigh"], 1, 1)) /\ Good(SetExtIo(opts["setiolow"], 1, 0))
        /\ Good(SetExtIo(opts["setiohz"], 0, 0))
        /\ Good(SetLedSrc(0, opts["led1src"])) /\ Good(SetLedSrc(1, opts["led2src"]))
        /\ Good(EnableDrive(d, 1)) /\ Good(EnableDrive(d, 0))
        /\ Good(SetConfig(d, 13, opts["writeprotectdrive"])) /\ Good(ReadDsk(d))
    BY FieldsGood, ReadDskGood
  <2> HIDE DEF on
  <2> QED
    BY <1>2, <2>1
<1>5. \/ l = <<>>
      \/ /\ "load" \in DOMAIN opts
         /\ \E h, e : l = LoadStreamHfe(d, opts["load"], h, e)
  OBVIOUS
<1>6. a \in {<<>>, Autodetect}
  OBVIOUS
<1> HIDE DEF x0, x1, x2, x3, x4, x5, x6, l, y1, y2, y3, y4, y5, y6, y7, y8, a, r
<1>7. Good(p)
  BY <1>3, GoodJoin
<1> HIDE DEF p
<1>8. ASSUME Listing(l) PROVE \E q : Good(q) /\ u = s \o q
  <2>1. Listing(s)
    <3>1. Listing(p)
      BY <1>7 DEF Good, Tidy
    <3> QED
      BY <1>8, <3>1, Joined
  <2> HIDE DEF s
  <2>2. Longer(s, s) /\ \A w, z : Longer(s, w) /\ Good(z) => Longer(s, w \o z)
    BY <2>1, LongerJoin
  <2>3. Longer(s, u)
    BY <1>4, <2>2
  <2> QED
    BY <2>3 DEF Longer
<1>9. CASE Listing(l)
  <2>1. PICK q : Good(q) /\ u = s \o q
    BY <1>8, <1>9
  <2>2. Invocation(d, opts) = (((p \o l) \o q) \o a) \o r
    BY <1>1, <2>1
  <2> QED
    BY <1>4, <1>5, <1>6, <1>7, <2>1, <2>2
<1>10. CASE ~Listing(l)
  BY <1>4, <1>5, <1>6, <1>7, <1>10
<1> QED
  BY <1>9, <1>10

Fine(s) == Listing(s) /\ \A i \in DOMAIN s : Proper(s[i])

LEMMA FineJoin ==
  /\ Fine(<<>>) /\ \A a : Proper(a) => Fine(<<a>>)
  /\ \A s, u : Fine(s) /\ Fine(u) => Fine(s \o u)
  /\ \A s : Good(s) => Fine(s)
  /\ \A s, Q : Changes(s, Q) => Fine(s)
  /\ \A s : Fine(s) /\ s # <<>> => Fine(Tail(s)) /\ Proper(Head(s))
<1>1. Fine(<<>>) /\ \A a : Proper(a) => Fine(<<a>>)
  BY Listed DEF Fine
<1>2. ASSUME NEW s, NEW u, Fine(s), Fine(u) PROVE Fine(s \o u)
  <2> DEFINE c == s \o u
  <2>0. Listing(s) /\ Listing(u)
    BY <1>2 DEF Fine
  <2>1. Listing(c)
    BY <2>0, JoinEach
  <2>2. \A k \in DOMAIN c : (\E i \in DOMAIN s : c[k] = s[i]) \/ (\E i \in DOMAIN u : c[k] = u[i])
    BY <2>0, JoinEach
  <2> HIDE DEF c
  <2>3. Fine(c)
    BY <1>2, <2>1, <2>2 DEF Fine
  <2> QED
    BY <2>3 DEF c
<1>3. \A s : Good(s) => Fine(s)
  BY DEF Good, Tidy, Fine
<1>4. \A s, Q : Changes(s, Q) => Fine(s)
  BY DEF Changes, Fine, Proper
<1>5. ASSUME NEW s, Fine(s), s # <<>> PROVE Fine(Tail(s)) /\ Proper(Head(s))
  BY <1>5, RestEach DEF Fine
<1> QED
  BY <1>1, <1>2, <1>3, <1>4, <1>5

\* The accesses that fill an image.
Filling(d, f) == [t \in 1 .. f.read |-> Change(Image(d), (t - 1) :> f.id)]

LEMMA FillingIs ==
  ASSUME NEW d, NEW f \in Files
  PROVE  /\ Listing(Filling(d, f)) /\ Len(Filling(d, f)) = f.read
         /\ DOMAIN Filling(d, f) = 1 .. f.read /\ f.read \in Nat
         /\ \A i \in 1 .. f.read : /\ Filling(d, f)[i].op = "change"
                                   /\ Filling(d, f)[i].reg = Image(d)
                                   /\ Filling(d, f)[i].upd = ((i - 1) :> f.id)
<1> DEFINE n == f.read  e(i) == Change(Image(d), (i - 1) :> f.id)
           x == [i \in 1 .. n |-> e(i)]
<1>1. n \in Nat
  BY BoardAssumption
<1>2. \A i : e(i).op = "change" /\ e(i).reg = Image(d) /\ e(i).upd = ((i - 1) :> f.id)
  BY ChangeIs
<1>3. Filling(d, f) = x
  BY DEF Filling
<1> HIDE DEF n, e
<1>4. x \in Seq({e(i) : i \in 1 .. n}) /\ Len(x) = n
  BY <1>1
<1>5. DOMAIN x = 1 .. n /\ \A i \in 1 .. n : x[i] = e(i)
  OBVIOUS
<1>6. Listing(x)
  BY <1>4 DEF Listing
<1> HIDE DEF x
<1> QED
  BY <1>1, <1>2, <1>3, <1>4, <1>5, <1>6 DEF n

\* What loading an image does.
LEMMA LoadIs ==
  ASSUME NEW d, NEW f \in Files, NEW h, NEW e
  PROVE  LET fill == << Write(Image(d), None) >> \o Filling(d, f)
             end  == IF f.read < f.tracks THEN <<>>
                     ELSE << Change(Config(d), 12 :> 1), Change(Config(d), 25 :> e) >>
         IN  /\ Fine(fill) /\ Fine(end)
             /\ LoadStreamHfe(d, f, h, e) =
                  IF ~f.sound THEN <<>> ELSE (IndexCfg(d, h, 0) \o fill) \o end
<1> DEFINE w == Write(Image(d), None)
           fill == <<w>> \o Filling(d, f)
           b == Change(Config(d), 12 :> 1)
           c == Change(Config(d), 25 :> e)
           end == IF f.read < f.tracks THEN <<>> ELSE <<b, c>>
<1>1. Fine(<<w>>)
  <2>1. w.op = "write"
    BY AccessIs DEF Write
  <2> HIDE DEF w
  <2>2. Proper(w)
    BY <2>1 DEF Proper
  <2> QED
    BY <2>2, FineJoin
<1>2. Fine(Filling(d, f))
  BY FillingIs DEF Fine, Proper
<1>3. Fine(<<b>>) /\ Fine(<<c>>)
  <2>1. b.op = "change" /\ c.op = "change"
    BY ChangeIs
  <2> HIDE DEF b, c
  <2>2. Proper(b) /\ Proper(c)
    BY <2>1 DEF Proper
  <2> QED
    BY <2>2, FineJoin
<1>4. LoadStreamHfe(d, f, h, e) =
        IF ~f.sound THEN <<>>
        ELSE IndexCfg(d, h, 0) \o <<w>> \o Filling(d, f) \o end
  BY DEF LoadStreamHfe, Filling
<1>5. (IndexCfg(d, h, 0) \o <<w>>) \o Filling(d, f) = IndexCfg(d, h, 0) \o fill
  <2>1. Good(IndexCfg(d, h, 0))
    BY FieldsGood
  <2>2. Listing(IndexCfg(d, h, 0)) /\ Listing(<<w>>) /\ Listing(Filling(d, f))
    BY <1>1, <1>2, <2>1 DEF Good, Tidy, Fine
  <2> HIDE DEF w
  <2>3. Regrouped(IndexCfg(d, h, 0), <<w>>, Filling(d, f))
    BY <2>2, Regroup
  <2> QED
    BY <2>3, Zenon DEF Regrouped
<1>6. Fine(fill)
  BY <1>1, <1>2, FineJoin
<1>7. Fine(end)
  <2>1. <<b, c>> = <<b>> \o <<c>>
    BY Pair
  <2> HIDE DEF b, c
  <2> QED
    BY <1>3, <2>1, FineJoin
<1> HIDE DEF b, c, w
<1> QED
  BY <1>4, <1>5, <1>6, <1>7 DEF b, c, w

LEMMA LoadFine ==
  ASSUME NEW d, NEW f \in Files, NEW h, NEW e
  PROVE  Fine(LoadStreamHfe(d, f, h, e))
<1> DEFINE fill == << Write(Image(d), None) >> \o Filling(d, f)
           end  == IF f.read < f.tracks THEN <<>>
                   ELSE << Change(Config(d), 12 :> 1), Change(Config(d), 25 :> e) >>
<1>1. /\ Fine(fill) /\ Fine(end)
      /\ LoadStreamHfe(d, f, h, e) = IF ~f.sound THEN <<>> ELSE (IndexCfg(d, h, 0) \o fill) \o end
  BY LoadIs
<1>2. Fine(IndexCfg(d, h, 0))
  BY FieldsGood, FineJoin
<1> HIDE DEF fill, end
<1> QED
  BY <1>1, <1>2, FineJoin

\* Recalibration of "drive -1".
Asking == Do(<<"track00", -1, 0>>)

LEMMA AskingIs ==
  /\ Asking.op = "do" /\ Asking.call = <<"track00", -1, 0>>
  /\ Proper(Asking) /\ AtTrack00(-1) = << Asking >>
<1>1. Asking.op = "do" /\ Asking.call = <<"track00", -1, 0>>
  BY DoIs DEF Asking
<1>2. Asking.call[1] = "track00" /\ Asking.call[2] = -1
  BY <1>1
<1> QED
  BY <1>1, <1>2 DEF Proper, Names, AtTrack00, Asking

LEMMA AutodetectFine == Fine(Autodetect)
<1> DEFINE off(p)  == SetIo(p, 0)
           test(p) == SetIo(p, 1) \o AtTrack00(-1) \o off(p)
           all     == off("PIN10") \o off("PIN12") \o off("PIN14") \o off("PIN6") \o
                      off("PIN16")
<1>1. Autodetect = all \o test("PIN10") \o test("PIN12") \o test("PIN14") \o test("PIN6") \o
                   test("PIN16") \o all
  BY DEF Autodetect
<1>2. \A p : Fine(off(p)) /\ Fine(test(p))
  <2>1. \A p, v : Fine(SetIo(p, v))
    <3> SUFFICES ASSUME NEW p, NEW v PROVE Fine(SetIo(p, v))
      OBVIOUS
    <3> DEFINE Q == {x[2] : x \in Pin(p)}
    <3>1. Changes(SetIo(p, v), Q)
      BY SetIoChanges
    <3> QED
      BY <3>1, FineJoin
  <2>2. Fine(AtTrack00(-1))
    BY AskingIs, FineJoin
  <2> QED
    BY <2>1, <2>2, FineJoin
<1> HIDE DEF off, test
<1>3. Fine(all)
  BY <1>2, FineJoin
<1> HIDE DEF all
<1> QED
  BY <1>1, <1>2, <1>3, FineJoin

LEMMA ToolIs ==
  ASSUME Wired, Commands, NEW m \in Modes, NEW c \in Calls["tool"][m]
  PROVE  Fine(Program(c))
<1>1. /\ c[1] = "pauline" /\ c[2] \in Drives /\ "reset" \notin DOMAIN c[3]
      /\ "load" \in DOMAIN c[3] => c[3]["load"] \in Files
  BY DEF Commands
<1>2. Program(c) = Invocation(c[2], c[3])
  BY <1>1 DEF Program
<1>3. PICK p, q, r, l, a :
        /\ Good(p) /\ Good(q) /\ Good(r)
        /\ \/ l = <<>>
           \/ /\ "load" \in DOMAIN c[3]
              /\ \E h, e : l = LoadStreamHfe(c[2], c[3]["load"], h, e)
        /\ a \in {<<>>, Autodetect}
        /\ Listing(l) /\ Listing(a) => Invocation(c[2], c[3]) = (((p \o l) \o q) \o a) \o r
  BY <1>1, InvocationIs
<1>4. Fine(l)
  BY <1>1, <1>3, LoadFine, FineJoin
<1>5. Fine(a)
  BY <1>3, AutodetectFine, FineJoin
<1>6. Program(c) = (((p \o l) \o q) \o a) \o r
  BY <1>2, <1>3, <1>4, <1>5 DEF Fine
<1> QED
  BY <1>3, <1>4, <1>5, <1>6, FineJoin

-----------------------------------------------------------------------------
(* What lists reach                                                         *)

LEMMA ReachesJoin ==
  /\ Reaches(<<>>) = {}
  /\ \A s, u : Listing(s) /\ Listing(u) => Reaches(s \o u) \subseteq Reaches(s) \cup Reaches(u)
  /\ \A s : Listing(s) /\ s # <<>> =>
       Reaches(Tail(s)) \subseteq Reaches(s) /\ Reach(Head(s)) \subseteq Reaches(s)
  /\ \A s, R : Within(s, R) => Reaches(s) \subseteq R
  /\ \A s, R : Changes(s, R) => Reaches(s) \subseteq R
<1>1. Reaches(<<>>) = {}
  BY Listed DEF Reaches
<1>2. ASSUME NEW s, NEW u, Listing(s), Listing(u)
      PROVE  Reaches(s \o u) \subseteq Reaches(s) \cup Reaches(u)
  <2> DEFINE c == s \o u
  <2>2. \A k \in DOMAIN c : (\E i \in DOMAIN s : c[k] = s[i]) \/ (\E i \in DOMAIN u : c[k] = u[i])
    BY <1>2, JoinEach
  <2> HIDE DEF c
  <2>3. Reaches(c) \subseteq Reaches(s) \cup Reaches(u)
    BY <2>2 DEF Reaches
  <2> QED
    BY <2>3 DEF c
<1>3. ASSUME NEW s, Listing(s), s # <<>>
      PROVE  Reaches(Tail(s)) \subseteq Reaches(s) /\ Reach(Head(s)) \subseteq Reaches(s)
  BY <1>3, RestEach DEF Reaches
<1>4. ASSUME NEW s, NEW R, Within(s, R) PROVE Reaches(s) \subseteq R
  <2>1. \A i \in DOMAIN s : Reach(s[i]) \subseteq R
    BY <1>4 DEF Within, Reach
  <2> QED
    BY <2>1 DEF Reaches
<1>5. ASSUME NEW s, NEW R, Changes(s, R) PROVE Reaches(s) \subseteq R
  <2>1. \A i \in DOMAIN s : Reach(s[i]) \subseteq R
    BY <1>5 DEF Changes, Reach
  <2> QED
    BY <2>1 DEF Reaches
<1> QED
  BY <1>1, <1>2, <1>3, <1>4, <1>5

\* What a call that depends on the state comes to is within what it reaches.
LEMMA BodyReach ==
  ASSUME Wired, NEW a, Proper(a), a.op = "do", NEW ty
  PROVE  /\ Fine(Body(a.call, ty)) /\ Reaches(Body(a.call, ty)) \subseteq Reach(a)
         /\ ~Outer(a) => Inner(a.call) /\ Changes(Body(a.call, ty), {FloppyCtrl, ExtraOut})
         /\ Outer(a) => Tidy(Body(a.call, ty)) /\ Within(Body(a.call, ty), {FloppyCtrl, ExtraOut})
         /\ Meek(a) => MeekList(Body(a.call, ty))
<1> DEFINE c == a.call  R == {FloppyCtrl, ExtraOut}
<1>1. /\ c[1] \in Names /\ c[2] \in Drives \cup {-1}
      /\ c[2] = -1 => c[1] = "track00"
  BY DEF Proper
<1>2. Reach(a) = IF c[2] = -1 THEN {} ELSE R
  BY DEF Reach
<1>3. R \subseteq Ports
  BY DEF Ports
<1> HIDE DEF R
<1>4. CASE Inner(c)
  <2>1. Changes(Body(c, ty), R) /\ (c[2] = -1 => Body(c, ty) = <<>>)
    BY <1>1, <1>4, BodyInner DEF R
  <2>2. Fine(Body(c, ty)) /\ Reaches(Body(c, ty)) \subseteq R /\ MeekList(Body(c, ty))
    BY <1>3, <2>1, FineJoin, ReachesJoin, ChangesMeek
  <2>3. ~Outer(a)
    BY <1>4 DEF Inner, Outer
  <2>4. c[2] = -1 => Reaches(Body(c, ty)) = {}
    BY <2>1, ReachesJoin
  <2> HIDE DEF c
  <2> QED
    BY <1>2, <1>4, <2>1, <2>2, <2>3, <2>4 DEF R, c
<1>5. CASE c[1] \in {"eject", "release"}
  <2>1. c[2] \in Drives /\ c[2] # -1
    BY <1>1, <1>5
  <2>2. Tidy(Body(c, ty)) /\ Within(Body(c, ty), R)
    BY <1>5, <2>1, BodyOuter DEF R
  <2>3. Fine(Body(c, ty)) /\ Reaches(Body(c, ty)) \subseteq R /\ MeekList(Body(c, ty))
    BY <1>3, <2>2, ReachesJoin, WithinMeek DEF Tidy, Fine
  <2>4. Outer(a)
    BY <1>5 DEF Outer
  <2> HIDE DEF c
  <2> QED
    BY <1>2, <2>1, <2>2, <2>3, <2>4 DEF R, c
<1>6. Inner(c) \/ c[1] \in {"eject", "release"}
  BY <1>1 DEF Inner, Names
<1> QED
  BY <1>4, <1>5, <1>6

\* What DRIVES_INTERFACE_MODE comes to: three accesses.
LEMMA InterfaceIs ==
  ASSUME NEW m
  PROVE  LET x == SetInterface(m) IN
         /\ Tidy(x) /\ Reaches(x) \subseteq {Control, Polarity} /\ Len(x) = 3 /\ DOMAIN x = 1 .. 3
         /\ x[1] = Write(Polarity, 16 :> IF m = "GENERIC" THEN 0 ELSE 1)
         /\ x[2] = Change(Control, 29 :> IF m = "APPLE_II" THEN 1 ELSE 0)
         /\ x[3] = Access("type", Control, None, <<m>>)
<1> DEFINE a == Write(Polarity, 16 :> IF m = "GENERIC" THEN 0 ELSE 1)
           b == Change(Control, 29 :> IF m = "APPLE_II" THEN 1 ELSE 0)
           c == Access("type", Control, None, <<m>>)
           x == <<a>> \o <<b>> \o <<c>>
<1>1. SetIo("ENABLE_APPLE_MODE", IF m = "APPLE_II" THEN 1 ELSE 0) = <<b>>
  <2> DEFINE v == IF m = "APPLE_II" THEN 1 ELSE 0
  <2>1. v = IF v = 0 THEN 0 ELSE 1
    OBVIOUS
  <2> HIDE DEF v
  <2>2. SetIo("ENABLE_APPLE_MODE", v) = << Change(Control, 29 :> IF v = 0 THEN 0 ELSE 1) >>
    BY ApplePin, SetIoIs
  <2>3. SetIo("ENABLE_APPLE_MODE", v) = << Change(Control, 29 :> v) >>
    BY <2>1, <2>2
  <2> QED
    BY <2>3 DEF v
<1>2. SetInterface(m) = x
  BY <1>1 DEF SetInterface
<1>3. /\ a.op = "write" /\ a.reg = Polarity /\ b.op = "change" /\ b.reg = Control /\ c.op = "type"
  BY AccessIs, ChangeIs DEF Write
<1> HIDE DEF a, b, c
<1>4. Proper(a) /\ Proper(b) /\ Proper(c)
  BY <1>3 DEF Proper
<1>5. Tidy(<<a>>) /\ Tidy(<<b>>) /\ Tidy(<<c>>)
  BY <1>3, <1>4, TidyOne
<1>6. Tidy(x)
  BY <1>5, TidyJoin
<1>7. /\ Listing(<<a>>) /\ Listing(<<b>>) /\ Listing(<<c>>)
  BY <1>5 DEF Tidy
<1>8. /\ Len(<<a>>) = 1 /\ Len(<<b>>) = 1 /\ Len(<<c>>) = 1
      /\ <<a>>[1] = a /\ <<b>>[1] = b /\ <<c>>[1] = c
      /\ DOMAIN <<a>> = {1} /\ DOMAIN <<b>> = {1} /\ DOMAIN <<c>> = {1}
  BY Listed
<1>9. Len(x) = 3 /\ DOMAIN x = 1 .. 3 /\ x[1] = a /\ x[2] = b /\ x[3] = c
  <2> DEFINE l == <<a>>  y == <<b>>  u == <<c>>  z == l \o y \o u
  <2>1. /\ Len(z) = Len(l) + Len(y) + Len(u)
        /\ DOMAIN z = 1 .. Len(l) + Len(y) + Len(u)
        /\ \A i \in 1 .. Len(l) : z[i] = l[i]
        /\ \A i \in 1 .. Len(y) : z[Len(l) + i] = y[i]
        /\ \A i \in 1 .. Len(u) : z[Len(l) + Len(y) + i] = u[i]
    BY <1>7, JoinedThree
  <2>2. Len(l) = 1 /\ Len(y) = 1 /\ Len(u) = 1 /\ l[1] = a /\ y[1] = b /\ u[1] = c
    BY <1>8
  <2> HIDE DEF l, y, u, z
  <2>3. z[1] = a /\ z[1 + 1] = b /\ z[1 + 1 + 1] = c
    BY <2>1, <2>2
  <2>4. Len(z) = 3 /\ DOMAIN z = 1 .. 3 /\ z[1] = a /\ z[2] = b /\ z[3] = c
    BY <2>1, <2>2, <2>3
  <2> QED
    BY <2>4 DEF l, y, u, z
<1> HIDE DEF x
<1>10. Reaches(x) \subseteq {Control, Polarity}
  <2>1. \A i \in DOMAIN x : Reach(x[i]) \subseteq {Control, Polarity}
    <3> SUFFICES ASSUME NEW i \in DOMAIN x PROVE Reach(x[i]) \subseteq {Control, Polarity}
      OBVIOUS
    <3>1. i = 1 \/ i = 2 \/ i = 3
      BY <1>9
    <3> QED
      BY <1>3, <1>9, <3>1 DEF Reach
  <2> QED
    BY <2>1 DEF Reaches
<1>11. /\ Tidy(SetInterface(m)) /\ Reaches(SetInterface(m)) \subseteq {Control, Polarity}
       /\ Len(SetInterface(m)) = 3 /\ DOMAIN SetInterface(m) = 1 .. 3
       /\ SetInterface(m)[1] = a /\ SetInterface(m)[2] = b /\ SetInterface(m)[3] = c
  BY <1>2, <1>6, <1>9, <1>10
<1> QED
  BY <1>11 DEF a, b, c

-----------------------------------------------------------------------------
(* The inductive invariant: the lists, and whose turn it is                 *)

Shape ==
  /\ DOMAIN todo = Threads /\ DOMAIN loaded = Threads
  /\ DOMAIN mutex = {"server", "tool"} /\ DOMAIN type = {"server", "tool"}
  /\ DOMAIN reg = DOMAIN Fields /\ DOMAIN wanted = DOMAIN Fields
  /\ mode \in Modes

Lists == \A t \in Threads : Fine(todo[t])

Turns == \A t \in {"script", "dump"} :
  Balanced(todo[t]) /\ (mutex["server"] = t <=> Closing(todo[t], 1))

\* The registers the clients' commands and a dump change with the mutex held.
\* The multiplexer of a Macintosh drive is set without it.
Guarded(ty) == IF ty = "APPLE_MACINTOSH" THEN Shared \ {FloppyCtrl} ELSE Shared

\* What is not the port of a Macintosh drive.
OffPort(s) == \A i \in DOMAIN s :
  s[i].op # "do" /\ ~(s[i].op \in {"change", "write"} /\ s[i].reg = FloppyCtrl)

Aside == todo["dump"] # <<>> =>
  /\ \A t \in {"script", "dump"} :
       MeekList(todo[t]) /\ Covered(todo[t], Guarded(type["server"]))
  /\ type["server"] = "APPLE_MACINTOSH" => OffPort(todo["script"])

\* Whatever is left of a command is within what the command reaches.
Source ==
  /\ \A t \in {"script", "tool"} : todo[t] # <<>> =>
       \E c \in Calls[t][mode] : Reaches(todo[t]) \subseteq Reaches(Program(c))
  /\ todo["dump"] # <<>> =>
       Dumps[mode] # {} /\ Reaches(todo["dump"]) \subseteq {Control, FloppyCtrl, ExtraOut}

Ordered == Shape /\ Lists /\ Turns /\ Aside /\ Source

LEMMA ThreadsAre == Threads = {"script", "dump", "tool"} /\ \A t \in Threads :
  /\ Process(t) \in {"server", "tool"}
  /\ t \in {"script", "dump"} => Process(t) = "server"
  /\ t = "tool" => Process(t) = "tool"
BY DEF Threads, Process

LEMMA SharedFields == Shared \subseteq DOMAIN Fields /\ ExtraOut \notin Shared
<1> DEFINE a1 == Control :> (0..3 \cup {4, 15, 29})
           a2 == FloppyCtrl :> (0..5 \cup 20..23)
           a3 == ExtraOut :> 0..8
           a4 == Gpio :> 0..6
           a5 == GpioOe :> 2..5
           a6 == Mux :> {16, 24}
           a7 == Polarity :> {16}
           a8 == [r \in {Config(d) : d \in Drives} |-> {0, 4, 12, 13, 16, 20, 25, 27, 28}]
           a9 == [r \in {Image(d) : d \in Drives} |-> Tracks]
<1>2. Fields = a1 @@ a2 @@ a3 @@ a4 @@ a5 @@ a6 @@ a7 @@ a8 @@ a9
  BY DEF Fields
<1>3. /\ DOMAIN a1 = {Control} /\ DOMAIN a2 = {FloppyCtrl} /\ DOMAIN a6 = {Mux}
      /\ DOMAIN a7 = {Polarity} /\ DOMAIN a8 = {Config(d) : d \in Drives}
      /\ DOMAIN a9 = {Image(d) : d \in Drives}
  BY DEF :>
<1>4. \A f, g : DOMAIN (f @@ g) = DOMAIN f \cup DOMAIN g
  BY DEF @@
<1> HIDE DEF a1, a2, a3, a4, a5, a6, a7, a8, a9
<1>1. Shared \subseteq DOMAIN Fields
  <2> DEFINE b2 == a1 @@ a2
             b3 == b2 @@ a3
             b4 == b3 @@ a4
             b5 == b4 @@ a5
             b6 == b5 @@ a6
             b7 == b6 @@ a7
             b8 == b7 @@ a8
             b9 == b8 @@ a9
  <2>1. Fields = b9
    BY <1>2
  <2>2. /\ DOMAIN b2 = DOMAIN a1 \cup DOMAIN a2
        /\ DOMAIN b3 = DOMAIN b2 \cup DOMAIN a3
        /\ DOMAIN b4 = DOMAIN b3 \cup DOMAIN a4
        /\ DOMAIN b5 = DOMAIN b4 \cup DOMAIN a5
        /\ DOMAIN b6 = DOMAIN b5 \cup DOMAIN a6
        /\ DOMAIN b7 = DOMAIN b6 \cup DOMAIN a7
        /\ DOMAIN b8 = DOMAIN b7 \cup DOMAIN a8
        /\ DOMAIN b9 = DOMAIN b8 \cup DOMAIN a9
    BY <1>4, Zenon
  <2> HIDE DEF b2, b3, b4, b5, b6, b7, b8, b9
  <2> QED
    BY <1>3, <2>1, <2>2 DEF Shared
<1> QED
  BY <1>1, RegistersDiffer DEF Shared

\* An access is made, and with it the mutex taken or given back.
LEMMA TailKeeps ==
  ASSUME Ordered, NEW t \in Threads, todo[t] # <<>>,
         todo' = [todo EXCEPT ![t] = Tail(todo[t])], mode' = mode,
         todo["dump"] # <<>> => type'["server"] = type["server"],
         IF Head(todo[t]).op = "lock"
         THEN mutex[Process(t)] = "none" /\ mutex' = [mutex EXCEPT ![Process(t)] = t]
         ELSE IF Head(todo[t]).op = "unlock"
         THEN mutex' = [mutex EXCEPT ![Process(t)] = "none"]
         ELSE mutex' = mutex
  PROVE  Lists' /\ Turns' /\ Aside' /\ Source'
<1> DEFINE s == todo[t]
<1>1. todo'[t] = Tail(s) /\ \A u \in Threads : u # t => todo'[u] = todo[u]
  BY DEF Ordered, Shape
<1>2. Fine(s) /\ Listing(s) /\ Fine(Tail(s)) /\ s # <<>>
  BY FineJoin DEF Ordered, Lists, Fine
<1>3. Lists'
  BY <1>1, <1>2 DEF Ordered, Lists
<1>4. ASSUME NEW u \in {"script", "dump"}
      PROVE  Balanced(todo'[u]) /\ (mutex'["server"] = u <=> Closing(todo'[u], 1))
  <2>1. Balanced(todo[u]) /\ (mutex["server"] = u <=> Closing(todo[u], 1)) /\ u \in Threads
    BY ThreadsAre DEF Ordered, Turns
  <2>2. CASE u = t
    <3>1. Process(t) = "server" /\ "server" \in DOMAIN mutex /\ t # "none" /\ t = u
      BY <2>2, ThreadsAre DEF Ordered, Shape
    <3>2. /\ Balanced(Tail(s))
          /\ Head(s).op = "lock" => ~Closing(s, 1) /\ Closing(Tail(s), 1)
          /\ Head(s).op = "unlock" => Closing(s, 1) /\ ~Closing(Tail(s), 1)
          /\ Head(s).op \notin {"lock", "unlock"} => (Closing(s, 1) <=> Closing(Tail(s), 1))
      BY <1>2, <2>1, <2>2, TailTidy
    <3>3. CASE Head(s).op = "lock"
      <4>1. mutex'["server"] = t
        BY <3>1, <3>3
      <4> QED
        BY <1>1, <2>2, <3>2, <3>3, <4>1
    <3>4. CASE Head(s).op = "unlock"
      <4>1. mutex'["server"] = "none"
        BY <3>1, <3>4
      <4> QED
        BY <1>1, <3>1, <3>2, <3>4, <4>1
    <3>5. CASE Head(s).op \notin {"lock", "unlock"}
      <4>1. mutex' = mutex
        BY <3>5
      <4> QED
        BY <1>1, <2>1, <2>2, <3>2, <3>5, <4>1
    <3> QED
      BY <3>3, <3>4, <3>5
  <2>3. CASE u # t
    <3>1. todo'[u] = todo[u]
      BY <1>1, <2>1, <2>3
    <3>2. CASE t = "tool"
      <4>1. Process(t) = "tool" /\ mutex'["server"] = mutex["server"]
        BY <3>2, ThreadsAre DEF Ordered, Shape
      <4> QED
        BY <2>1, <3>1, <4>1
    <3>3. CASE t # "tool"
      <4>1. Process(t) = "server" /\ "server" \in DOMAIN mutex /\ u # "none"
        BY <3>3, ThreadsAre DEF Ordered, Shape
      <4>2. CASE Head(s).op = "lock"
        <5>1. mutex["server"] = "none" /\ mutex'["server"] = t
          BY <4>1, <4>2
        <5> QED
          BY <2>1, <2>3, <3>1, <4>1, <5>1
      <4>3. CASE Head(s).op = "unlock"
        <5>1. mutex'["server"] = "none"
          BY <4>1, <4>3
        <5>2. t \in {"script", "dump"} /\ Balanced(s) /\ (mutex["server"] = t <=> Closing(s, 1))
          BY <3>3, ThreadsAre DEF Ordered, Turns
        <5>3. Closing(s, 1)
          BY <1>2, <4>3, <5>2, TailTidy
        <5> QED
          BY <2>1, <2>3, <3>1, <4>1, <5>1, <5>2, <5>3
      <4>4. CASE Head(s).op \notin {"lock", "unlock"}
        <5>1. mutex' = mutex
          BY <4>4
        <5> QED
          BY <2>1, <3>1, <5>1
      <4> QED
        BY <4>2, <4>3, <4>4
    <3> QED
      BY <3>2, <3>3
  <2> QED
    BY <2>2, <2>3
<1>5. Turns'
  BY <1>4 DEF Turns
<1>6. ASSUME todo'["dump"] # <<>> PROVE todo["dump"] # <<>> /\ type'["server"] = type["server"]
  BY <1>1, <1>6, ThreadsAre
<1>7. Aside'
  <2> SUFFICES ASSUME todo'["dump"] # <<>>
               PROVE  /\ \A u \in {"script", "dump"} :
                           MeekList(todo'[u]) /\ Covered(todo'[u], Guarded(type'["server"]))
                      /\ type'["server"] = "APPLE_MACINTOSH" => OffPort(todo'["script"])
    BY DEF Aside
  <2>1. /\ \A u \in {"script", "dump"} :
             MeekList(todo[u]) /\ Covered(todo[u], Guarded(type["server"]))
        /\ type["server"] = "APPLE_MACINTOSH" => OffPort(todo["script"])
        /\ type'["server"] = type["server"]
    BY <1>6 DEF Ordered, Aside
  <2>2. ASSUME NEW u \in {"script", "dump"}
        PROVE  MeekList(todo'[u]) /\ Covered(todo'[u], Guarded(type["server"]))
    <3>1. u \in Threads
      BY ThreadsAre
    <3>2. CASE u = t
      BY <1>1, <1>2, <2>1, <3>2, MeekJoin, TailCovered
    <3>3. CASE u # t
      BY <1>1, <2>1, <3>1, <3>3
    <3> QED
      BY <3>2, <3>3
  <2>3. ASSUME OffPort(todo["script"]) PROVE OffPort(todo'["script"])
    <3>1. CASE t = "script"
      <4>1. \A k \in DOMAIN Tail(s) : k + 1 \in DOMAIN s /\ Tail(s)[k] = s[k + 1]
        BY <1>2, RestEach
      <4> QED
        BY <1>1, <2>3, <3>1, <4>1 DEF OffPort
    <3>2. CASE t # "script"
      BY <1>1, <2>3, <3>2, ThreadsAre
    <3> QED
      BY <3>1, <3>2
  <2> QED
    BY <2>1, <2>2, <2>3
<1>8. Reaches(Tail(s)) \subseteq Reaches(s)
  BY <1>2, ReachesJoin
<1>9. Source'
  <2>1. ASSUME NEW u \in {"script", "tool"}, todo'[u] # <<>>
        PROVE  \E c \in Calls[u][mode'] : Reaches(todo'[u]) \subseteq Reaches(Program(c))
    <3>1. u \in Threads /\ todo[u] # <<>>
      BY <1>1, <1>2, <2>1, ThreadsAre
    <3>2. PICK c \in Calls[u][mode] : Reaches(todo[u]) \subseteq Reaches(Program(c))
      BY <3>1 DEF Ordered, Source
    <3>3. Reaches(todo'[u]) \subseteq Reaches(todo[u])
      BY <1>1, <1>8, <3>1
    <3> QED
      BY <3>2, <3>3
  <2>2. ASSUME todo'["dump"] # <<>>
        PROVE  Dumps[mode'] # {} /\ Reaches(todo'["dump"]) \subseteq {Control, FloppyCtrl, ExtraOut}
    <3>1. Reaches(todo'["dump"]) \subseteq Reaches(todo["dump"])
      BY <1>1, <1>8, ThreadsAre
    <3>2. todo["dump"] # <<>>
      BY <1>6, <2>2
    <3> QED
      BY <3>1, <3>2 DEF Ordered, Source
  <2> QED
    BY <2>1, <2>2 DEF Source
<1> QED
  BY <1>3, <1>5, <1>7, <1>9

\* Commands that neither move a head nor eject leave the port alone.
LEMMA ScriptOffPort ==
  ASSUME Wired, Commands, NEW m \in Modes, NEW c \in Calls["script"][m],
         c[1] \notin {"reset", "headstep", "eject"}
  PROVE  OffPort(Program(c))
<1>0. \/ c[1] = "setio" /\ \A p \in Pin(c[2]) : p[2] \notin Shared
      \/ c[1] = "config" /\ c[3] \in {0, 4, 13, 16, 20}
      \/ c[1] = "led"
  BY DEF Commands
<1>1. FloppyCtrl \in Shared /\ FloppyCtrl # Mux /\ \A d : FloppyCtrl # Config(d)
  BY RegistersDiffer DEF Shared
<1>2. \A s, R : Within(s, R) /\ FloppyCtrl \notin R => OffPort(s)
  BY DEF Within, OffPort
<1>3. \A s, R : Changes(s, R) /\ FloppyCtrl \notin R => OffPort(s) /\ OffPort(Locked(s))
  BY <1>2, ChangesTidy
<1>4. CASE c[1] = "setio"
  <2> DEFINE Q == {p[2] : p \in Pin(c[2])}
  <2>1. Changes(SetIo(c[2], c[3]), Q) /\ FloppyCtrl \notin Q
    BY <1>0, <1>1, <1>4, SetIoChanges
  <2> QED
    BY <1>3, <1>4, <2>1 DEF Program
<1>5. CASE c[1] = "config"
  <2> DEFINE a == Change(Config(c[2] % 4), c[3] :> c[4])
  <2>1. a.op = "change" /\ a.reg \in {Config(c[2] % 4)} /\ Program(c) = Locked(<<a>>)
    BY <1>5, ChangeIs DEF Program, SetConfig
  <2> HIDE DEF a
  <2>2. Changes(<<a>>, {Config(c[2] % 4)})
    BY <2>1, ChangesJoin
  <2> QED
    BY <1>1, <1>3, <2>1, <2>2
<1>6. CASE c[1] = "led"
  <2> DEFINE a == Change(Mux, 16 + 8 * c[2] :> c[3])
  <2>1. a.op = "change" /\ a.reg \in {Mux} /\ (Program(c) = Locked(<<a>>) \/ Program(c) = <<>>)
    BY <1>6, ChangeIs DEF Program, SetLedSrc
  <2> HIDE DEF a
  <2>2. Changes(<<a>>, {Mux}) /\ Changes(<<>>, {Mux})
    BY <2>1, ChangesJoin
  <2> QED
    BY <1>1, <1>3, <2>1, <2>2
<1> QED
  BY <1>0, <1>4, <1>5, <1>6

\* A command begins.
LEMMA IssueKeeps ==
  ASSUME Wired, Commands, ~Overlap, Ordered, NEW t \in {"script", "tool"}, todo[t] = <<>>,
         NEW c \in Calls[t][mode],
         (c[1] \in {"headstep", "eject"} /\ type["server"] = "APPLE_MACINTOSH") =>
            todo["dump"] = <<>>,
         (c[1] = "reset") => todo["dump"] = <<>>,
         todo' = [todo EXCEPT ![t] = Program(c)], mode' = mode, mutex' = mutex,
         type'["server"] = type["server"]
  PROVE  Lists' /\ Turns' /\ Aside' /\ Source'
<1>1. t \in Threads /\ mode \in Modes /\ t # "dump"
  BY ThreadsAre DEF Ordered, Shape
<1>2. todo'[t] = Program(c) /\ \A u \in Threads : u # t => todo'[u] = todo[u]
  BY <1>1 DEF Ordered, Shape
<1>3. t = "script" => /\ Tidy(Program(c))
                      /\ c[1] # "reset" => /\ MeekList(Program(c))
                                           /\ \A K \in SUBSET Shared : Covered(Program(c), K)
  BY <1>1, ScriptIs
<1>4. Fine(Program(c))
  BY <1>1, <1>3, ToolIs DEF Tidy, Fine
<1>5. Lists'
  BY <1>2, <1>4 DEF Ordered, Lists
<1>6. ~Closing(<<>>, 1)
  BY TidyEmpty DEF Tidy
<1>7. Turns'
  <2> SUFFICES ASSUME NEW u \in {"script", "dump"}
               PROVE  Balanced(todo'[u]) /\ (mutex["server"] = u <=> Closing(todo'[u], 1))
    BY DEF Turns
  <2>1. Balanced(todo[u]) /\ (mutex["server"] = u <=> Closing(todo[u], 1)) /\ u \in Threads
    BY ThreadsAre DEF Ordered, Turns
  <2>2. CASE u = t
    <3>1. Balanced(Program(c)) /\ ~Closing(Program(c), 1)
      BY <1>3, <2>2 DEF Tidy
    <3> QED
      BY <1>2, <1>6, <2>1, <2>2, <3>1
  <2>3. CASE u # t
    BY <1>2, <2>1, <2>3
  <2> QED
    BY <2>2, <2>3
<1>8. Aside'
  <2> SUFFICES ASSUME todo'["dump"] # <<>>
               PROVE  /\ \A u \in {"script", "dump"} :
                           MeekList(todo'[u]) /\ Covered(todo'[u], Guarded(type["server"]))
                      /\ type["server"] = "APPLE_MACINTOSH" => OffPort(todo'["script"])
    BY DEF Aside
  <2>0. todo["dump"] # <<>> /\ todo'["dump"] = todo["dump"]
    BY <1>1, <1>2, ThreadsAre
  <2>1. /\ \A u \in {"script", "dump"} :
             MeekList(todo[u]) /\ Covered(todo[u], Guarded(type["server"]))
        /\ type["server"] = "APPLE_MACINTOSH" => OffPort(todo["script"])
    BY <2>0 DEF Ordered, Aside
  <2>2. Guarded(type["server"]) \in SUBSET Shared
    BY DEF Guarded
  <2>3. CASE t = "script"
    <3>1. MeekList(Program(c)) /\ Covered(Program(c), Guarded(type["server"]))
      BY <1>3, <2>0, <2>2, <2>3
    <3>2. ASSUME type["server"] = "APPLE_MACINTOSH" PROVE OffPort(Program(c))
      <4>1. c[1] \notin {"reset", "headstep", "eject"}
        BY <2>0, <3>2
      <4> QED
        BY <1>1, <2>3, <4>1, ScriptOffPort
    <3> QED
      BY <1>2, <2>0, <2>1, <2>3, <3>1, <3>2
  <2>4. CASE t # "script"
    <3>1. todo'["script"] = todo["script"]
      BY <1>2, <2>4, ThreadsAre
    <3> QED
      BY <2>0, <2>1, <3>1
  <2> QED
    BY <2>3, <2>4
<1>9. Source'
  <2>1. ASSUME NEW u \in {"script", "tool"}, todo'[u] # <<>>
        PROVE  \E e \in Calls[u][mode] : Reaches(todo'[u]) \subseteq Reaches(Program(e))
    <3>1. CASE u = t
      BY <1>2, <3>1
    <3>2. CASE u # t
      <4>1. todo'[u] = todo[u]
        BY <1>2, <3>2, ThreadsAre
      <4> QED
        BY <2>1, <4>1 DEF Ordered, Source
    <3> QED
      BY <3>1, <3>2
  <2>2. todo'["dump"] = todo["dump"]
    BY <1>1, <1>2, ThreadsAre
  <2> QED
    BY <2>1, <2>2 DEF Ordered, Source
<1> QED
  BY <1>5, <1>7, <1>8, <1>9

LEMMA DumpReaches ==
  ASSUME Wired, NEW d \in Drives, NEW v, NEW x
  PROVE  Reaches(DumpProgram(d, v, x)) \subseteq {Control, FloppyCtrl, ExtraOut}
<1> DEFINE R == {Control, FloppyCtrl, ExtraOut}
           Near(s) == Listing(s) /\ Reaches(s) \subseteq R
<1>1. \A s, u : Near(s) /\ Near(u) => Near(s \o u)
  BY Joined, ReachesJoin
<1>2. Reach(Calling("lock")) = {} /\ Reach(Calling("unlock")) = {} /\ Reach(Calling("end")) = {}
  BY AccessIs DEF Reach, Calling
<1>3. \A s : Near(s) => Near(Locked(s))
  <2> SUFFICES ASSUME NEW s, Near(s) PROVE Near(Locked(s))
    OBVIOUS
  <2> DEFINE c == Locked(s)
  <2>1. /\ Listing(c)
        /\ \A k \in DOMAIN c : c[k] \in {Calling("lock"), Calling("unlock")} \/ \E i \in DOMAIN s : c[k] = s[i]
    BY LockedEach
  <2> HIDE DEF c
  <2>2. Reaches(c) \subseteq R
    BY <1>2, <2>1 DEF Reaches
  <2> QED
    BY <2>1, <2>2 DEF c
<1>4. \A a : Reach(a) \subseteq R => Near(<<a>>)
  <2> SUFFICES ASSUME NEW a, Reach(a) \subseteq R PROVE Near(<<a>>)
    OBVIOUS
  <2>1. Listing(<<a>>) /\ DOMAIN <<a>> = {1} /\ <<a>>[1] = a
    BY Listed
  <2>2. Reaches(<<a>>) = Reach(a)
    <3> DEFINE s == <<a>>
    <3>1. DOMAIN s = {1} /\ s[1] = a
      BY <2>1
    <3> HIDE DEF s
    <3>2. Reaches(s) = Reach(a)
      BY <3>1 DEF Reaches
    <3> QED
      BY <3>2 DEF s
  <2> QED
    BY <2>1, <2>2
<1>5. \A name, e, y : Reach(Do(<<name, e, y>>)) \subseteq R
  <2> SUFFICES ASSUME NEW name, NEW e, NEW y PROVE Reach(Do(<<name, e, y>>)) \subseteq R
    OBVIOUS
  <2> DEFINE a == Do(<<name, e, y>>)
  <2>1. a.op = "do"
    BY DoIs
  <2> HIDE DEF a
  <2>2. Reach(a) \subseteq R
    BY <2>1 DEF Reach
  <2> QED
    BY <2>2 DEF a
<1>6. \A r \in R : \A u : Reach(Change(r, u)) \subseteq R
  <2> SUFFICES ASSUME NEW r \in R, NEW u PROVE Reach(Change(r, u)) \subseteq R
    OBVIOUS
  <2> DEFINE a == Change(r, u)
  <2>1. a.op = "change" /\ a.reg \in R
    BY ChangeIs
  <2> HIDE DEF a
  <2>2. Reach(a) \subseteq R
    BY <2>1 DEF Reach
  <2> QED
    BY <2>2 DEF a
<1>7. \A s : Within(s, {FloppyCtrl}) => Near(s)
  BY ReachesJoin DEF Within
<1>8. Control \in R /\ FloppyCtrl \in R
  OBVIOUS
<1>9. Reach(Access("change", FloppyCtrl, 20 :> 1, <<"capture">>)) \subseteq R
  <2> DEFINE a == Access("change", FloppyCtrl, 20 :> 1, <<"capture">>)
  <2>1. a.op = "change" /\ a.reg = FloppyCtrl
    BY AccessIs
  <2> HIDE DEF a
  <2>2. Reach(a) \subseteq R
    BY <2>1 DEF Reach
  <2> QED
    BY <2>2 DEF a
<1>10. \A a, b : <<a, b>> = <<a>> \o <<b>>
  BY Pair
<1> HIDE DEF R, Near
<1>11. /\ \A y : Near(Motor(d, y)) /\ Near(Headload(d, y)) /\ Near(Side(d, y)) /\ Near(MoveHead(d, y))
       /\ Near(AtTrack00(d)) /\ Near(<< Calling("end") >>)
  <2>1. \A name, e, y : Near(<< Do(<<name, e, y>>) >>)
    BY <1>4, <1>5
  <2>2. Near(AtTrack00(d))
    BY <2>1 DEF AtTrack00
  <2>3. Near(<< Calling("end") >>)
    BY <1>2, <1>4
  <2>4. \A y : Near(Motor(d, y)) /\ Near(Headload(d, y)) /\ Near(Side(d, y))
    BY <1>3, <2>1 DEF Motor, Headload, Side
  <2>5. \A y : Near(MoveHead(d, y))
    BY <1>1, <1>3, <1>10, <2>1 DEF MoveHead
  <2> QED
    BY <2>2, <2>3, <2>4, <2>5
<1>12. \A y : Near(SelectDrive(d, y))
  BY <1>7, SelectIs
<1>13. Near(StartDump(1, x))
  <2> DEFINE a1 == Change(Control, 4 :> 0)
             a2 == Change(FloppyCtrl, (20 :> 0) @@ (21 :> 0))
             b1 == Change(Control, 4 :> 1)
             b2 == Change(FloppyCtrl, 22 :> 1 - 1)
             b3 == Change(FloppyCtrl, 23 :> x)
             b4 == Change(FloppyCtrl, 21 :> 1)
             b5 == Access("change", FloppyCtrl, 20 :> 1, <<"capture">>)
             c  == <<b1, b2, b3, b4, b5>>
  <2>1. StartDump(1, x) = Locked(<<a1, a2>>) \o Locked(c)
    BY DEF StartDump
  <2>2. /\ Reach(a1) \subseteq R /\ Reach(a2) \subseteq R /\ Reach(b1) \subseteq R /\ Reach(b2) \subseteq R
        /\ Reach(b3) \subseteq R /\ Reach(b4) \subseteq R /\ Reach(b5) \subseteq R
    BY <1>6, <1>8, <1>9
  <2> HIDE DEF a1, a2, b1, b2, b3, b4, b5
  <2>3. /\ c \in Seq({b1, b2, b3, b4, b5}) /\ DOMAIN c = 1 .. 5
        /\ c[1] = b1 /\ c[2] = b2 /\ c[3] = b3 /\ c[4] = b4 /\ c[5] = b5
    OBVIOUS
  <2>4. Listing(c) /\ \A i \in DOMAIN c : c[i] \in {b1, b2, b3, b4, b5}
    <3> HIDE DEF c
    <3> QED
      BY <2>3 DEF Listing
  <2> HIDE DEF c
  <2>5. Near(c)
    BY <2>2, <2>4 DEF Near, Reaches
  <2>6. Near(<<a1, a2>>)
    BY <1>1, <1>4, <1>10, <2>2
  <2> QED
    BY <1>1, <1>3, <2>1, <2>5, <2>6
<1>14. Near(DumpProgram(d, v, x))
  BY <1>1, <1>11, <1>12, <1>13 DEF DumpProgram
<1> QED
  BY <1>14 DEF Near, R

\* A dump begins.
LEMMA BeginKeeps ==
  ASSUME Wired, Ordered, todo["dump"] = <<>>, todo["script"] = <<>>,
         NEW d \in Dumps[mode], NEW v, NEW x,
         todo' = [todo EXCEPT !["dump"] = DumpProgram(d, v, x)], mode' = mode, mutex' = mutex,
         type' = type
  PROVE  Lists' /\ Turns' /\ Aside' /\ Source'
<1> DEFINE p == DumpProgram(d, v, x)
<1>1. d \in Drives
  BY BoardAssumption DEF Ordered, Shape
<1>2. Good(p) /\ Reaches(p) \subseteq {Control, FloppyCtrl, ExtraOut}
  BY <1>1, DumpGood, DumpReaches
<1>3. todo'["dump"] = p /\ \A u \in Threads : u # "dump" => todo'[u] = todo[u]
  BY ThreadsAre DEF Ordered, Shape
<1> HIDE DEF p
<1>4. Lists'
  BY <1>2, <1>3, FineJoin DEF Ordered, Lists
<1>5. Turns'
  <2>1. Balanced(p) /\ ~Closing(p, 1) /\ ~Closing(<<>>, 1)
    BY <1>2, TidyEmpty DEF Good, Tidy
  <2> QED
    BY <1>3, <2>1, ThreadsAre DEF Ordered, Turns
<1>6. Aside'
  <2>1. ExtraOut \notin Guarded(type["server"])
    BY SharedFields DEF Guarded
  <2>2. /\ MeekList(p) /\ Covered(p, Guarded(type["server"]))
        /\ MeekList(<<>>) /\ Covered(<<>>, Guarded(type["server"])) /\ OffPort(<<>>)
    BY <1>2, <2>1, MeekJoin, TidyEmpty, Listed DEF Good, OffPort
  <2>3. todo'["script"] = <<>>
    BY <1>3, ThreadsAre
  <2> QED
    BY <1>3, <2>2, <2>3 DEF Aside
<1>7. Source'
  <2>1. ASSUME NEW u \in {"script", "tool"}, todo'[u] # <<>>
        PROVE  \E e \in Calls[u][mode] : Reaches(todo'[u]) \subseteq Reaches(Program(e))
    <3>1. todo'[u] = todo[u]
      BY <1>3, ThreadsAre
    <3> QED
      BY <2>1, <3>1 DEF Ordered, Source
  <2> QED
    BY <1>2, <1>3, <2>1 DEF Source
<1> QED
  BY <1>4, <1>5, <1>6, <1>7

\* What a call depends on is read.
LEMMA DecideKeeps ==
  ASSUME Wired, Ordered, NEW t \in Threads, todo[t] # <<>>, NEW b,
         \/ Head(todo[t]).op = "do" /\ b = Body(Head(todo[t]).call, type[Process(t)])
         \/ Head(todo[t]).op = "interface" /\ \E m : b = SetInterface(m),
         todo' = [todo EXCEPT ![t] = b \o Tail(todo[t])], mode' = mode, mutex' = mutex,
         type' = type
  PROVE  Lists' /\ Turns' /\ Aside' /\ Source'
<1> DEFINE s == todo[t]  a == Head(s)  u == Tail(s)  c == b \o u
<1>1. todo'[t] = c /\ \A w \in Threads : w # t => todo'[w] = todo[w]
  BY DEF Ordered, Shape
<1>2. /\ Fine(s) /\ Listing(s) /\ Fine(u) /\ Listing(u) /\ Proper(a) /\ s # <<>>
      /\ Reaches(u) \subseteq Reaches(s) /\ Reach(a) \subseteq Reaches(s)
  <2>1. Fine(s) /\ Listing(s)
    BY DEF Ordered, Lists, Fine
  <2>2. Fine(u) /\ Proper(a)
    BY <2>1, FineJoin
  <2> QED
    BY <2>1, <2>2, ReachesJoin DEF Fine
<1>3. a.op = "do" => b = Body(a.call, type[Process(t)])
  OBVIOUS
<1>4. a.op # "do" => a.op = "interface" /\ \E m : b = SetInterface(m)
  OBVIOUS
<1>5. Fine(b) /\ Reaches(b) \subseteq Reach(a)
  <2>1. CASE a.op = "do"
    BY <1>2, <1>3, <2>1, BodyReach
  <2>2. CASE a.op # "do"
    <3>1. PICK m : b = SetInterface(m)
      BY <1>4, <2>2
    <3>2. Reach(a) = {Control, Polarity}
      BY <1>4, <2>2 DEF Reach
    <3> QED
      BY <3>1, <3>2, InterfaceIs DEF Tidy, Fine
  <2> QED
    BY <2>1, <2>2
<1>6. Fine(c) /\ Reaches(c) \subseteq Reaches(s)
  <2>1. Fine(c)
    BY <1>2, <1>5, FineJoin
  <2>2. Reaches(c) \subseteq Reaches(b) \cup Reaches(u)
    BY <1>2, <1>5, ReachesJoin DEF Fine
  <2> QED
    BY <1>2, <1>5, <2>1, <2>2
<1>7. ASSUME t \in {"script", "dump"}
      PROVE  /\ Balanced(c) /\ (Closing(c, 1) <=> Closing(s, 1)) /\ Balanced(u)
             /\ (Closing(u, 1) <=> Closing(s, 1)) /\ (Outer(a) => Tidy(u) /\ Tidy(b))
  <2>1. Balanced(s) /\ a.op \notin {"lock", "unlock"}
    BY <1>7, <1>4 DEF Ordered, Turns
  <2>2. /\ Balanced(u) /\ (Closing(s, 1) <=> Closing(u, 1)) /\ (Outer(a) => ~Closing(s, 1))
    BY <1>2, <2>1, TailTidy
  <2>3. CASE Outer(a)
    <3>1. Tidy(u)
      BY <1>2, <2>2, <2>3 DEF Tidy, Fine
    <3>2. Tidy(b)
      <4>1. CASE a.op = "do"
        BY <1>2, <1>3, <2>3, <4>1, BodyReach
      <4>2. CASE a.op # "do"
        BY <1>4, <4>2, InterfaceIs
      <4> QED
        BY <4>1, <4>2
    <3>3. Tidy(c)
      BY <3>1, <3>2, TidyJoin
    <3> QED
      BY <2>2, <2>3, <3>1, <3>2, <3>3 DEF Tidy
  <2>4. CASE ~Outer(a)
    <3>1. a.op = "do"
      BY <1>4, <2>4 DEF Outer
    <3>2. Changes(b, {FloppyCtrl, ExtraOut})
      BY <1>2, <1>3, <2>4, <3>1, BodyReach
    <3>3. Balanced(c) /\ (Closing(c, 1) <=> Closing(u, 1))
      BY <1>2, <2>2, <3>2, ChangesBefore
    <3> QED
      BY <2>2, <2>4, <3>3
  <2> QED
    BY <2>3, <2>4
<1>8. Lists'
  BY <1>1, <1>6 DEF Ordered, Lists
<1>9. Turns'
  <2> SUFFICES ASSUME NEW w \in {"script", "dump"}
               PROVE  Balanced(todo'[w]) /\ (mutex["server"] = w <=> Closing(todo'[w], 1))
    BY DEF Turns
  <2>1. Balanced(todo[w]) /\ (mutex["server"] = w <=> Closing(todo[w], 1)) /\ w \in Threads
    BY ThreadsAre DEF Ordered, Turns
  <2> HIDE DEF c
  <2>2. CASE w = t
    BY <1>1, <1>7, <2>1, <2>2
  <2>3. CASE w # t
    BY <1>1, <2>1, <2>3
  <2> QED
    BY <2>2, <2>3
<1>10. Aside'
  <2> DEFINE K == Guarded(type["server"])
  <2> SUFFICES ASSUME todo'["dump"] # <<>>
               PROVE  /\ \A w \in {"script", "dump"} : MeekList(todo'[w]) /\ Covered(todo'[w], K)
                      /\ type["server"] = "APPLE_MACINTOSH" => OffPort(todo'["script"])
    BY DEF Aside
  <2>1. todo["dump"] # <<>>
    BY <1>1, ThreadsAre
  <2>2. /\ \A w \in {"script", "dump"} : MeekList(todo[w]) /\ Covered(todo[w], K)
        /\ type["server"] = "APPLE_MACINTOSH" => OffPort(todo["script"])
    BY <2>1 DEF Ordered, Aside
  <2>3. \A w \in Threads : w # t => todo'[w] = todo[w]
    BY <1>1
  <2>4. ExtraOut \notin K /\ K \subseteq Shared
    BY SharedFields DEF Guarded
  <2>5. CASE t = "tool"
    <3>1. todo'["script"] = todo["script"] /\ todo'["dump"] = todo["dump"]
      BY <2>3, <2>5, ThreadsAre
    <3> QED
      BY <2>2, <3>1
  <2>6. CASE t # "tool"
    <3>1. t \in {"script", "dump"} /\ Process(t) = "server"
      BY <2>6, ThreadsAre
    <3>2. MeekList(s) /\ Covered(s, K) /\ Meek(a) /\ MeekList(u) /\ Covered(u, K)
      BY <1>2, <2>2, <3>1, MeekJoin, TailCovered
    <3>3. a.op = "do" /\ b = Body(a.call, type["server"])
      BY <1>3, <1>4, <3>1, <3>2 DEF Meek
    <3>4. a.call[2] \in Drives /\ a.call[1] \in Names
      BY <3>2, <3>3 DEF Meek, Proper
    <3>5. MeekList(c)
      BY <1>2, <3>2, <3>3, BodyReach, MeekJoin
    <3>6. ASSUME type["server"] = "APPLE_MACINTOSH" PROVE t # "script" /\ FloppyCtrl \notin K
      <4>1. t # "script"
        <5>1. \A i \in DOMAIN todo["script"] : todo["script"][i].op # "do"
          BY <2>2, <3>6 DEF OffPort
        <5>2. 1 \in DOMAIN s /\ a = s[1]
          BY <1>2, RestEach
        <5> QED
          BY <3>3, <5>1, <5>2
      <4> QED
        BY <3>6, <4>1 DEF Guarded
    <3>7. Covered(c, K)
      <4>1. CASE Outer(a)
        <5>1. a.call[1] \in {"eject", "release"}
          BY <3>3, <4>1 DEF Outer
        <5>2. Covered(b, K)
          BY <2>4, <3>3, <3>4, <3>6, <5>1, BodyOuter
        <5>3. Tidy(b) /\ Tidy(u)
          BY <1>7, <3>1, <4>1
        <5> QED
          BY <3>2, <5>2, <5>3, TidyJoin
      <4>2. CASE ~Outer(a)
        <5>1. Inner(a.call)
          BY <1>2, <3>3, <4>2, BodyReach
        <5>2. Balanced(u) /\ (Closing(u, 1) <=> Closing(s, 1))
          BY <1>7, <3>1
        <5>3. \A R : Changes(b, R) /\ (R \cap K = {} \/ Closing(u, 1)) => Covered(c, K)
          BY <1>2, <3>2, <5>2, ChangesBefore
        <5>4. CASE type["server"] = "APPLE_MACINTOSH"
          <6>1. Changes(b, {FloppyCtrl, ExtraOut}) /\ {FloppyCtrl, ExtraOut} \cap K = {}
            BY <1>2, <2>4, <3>3, <3>6, <4>2, <5>4, BodyReach
          <6> QED
            BY <5>3, <6>1
        <5>5. CASE type["server"] # "APPLE_MACINTOSH"
          <6>0. /\ a.call[1] \in {"motor", "side"} => Changes(b, {FloppyCtrl})
                /\ a.call[1] = "headload" => Changes(b, {ExtraOut})
                /\ a.call[1] \in {"track00", "move"} => b = <<>>
            <7>1. a.call[2] \in Drives \cup {-1} /\ (a.call[2] = -1 => a.call[1] = "track00")
              BY <1>2, <3>3 DEF Proper
            <7> QED
              BY <3>3, <5>1, <5>5, <7>1, BodyInner
          <6>1. CASE a.call[1] \in {"motor", "side"}
            <7>1. Closing(s, 1)
              <8>1. 1 \in DOMAIN s /\ a = s[1]
                BY <1>2, RestEach
              <8> QED
                BY <3>2, <3>3, <6>1, <8>1 DEF Covered
            <7> QED
              BY <5>2, <5>3, <6>0, <6>1, <7>1
          <6>2. CASE a.call[1] = "headload"
            <7>1. {ExtraOut} \cap K = {}
              BY <2>4
            <7> QED
              BY <5>3, <6>0, <6>2, <7>1
          <6>3. CASE a.call[1] \in {"track00", "move"}
            <7>1. Changes(b, {}) /\ {} \cap K = {}
              BY <6>0, <6>3, ChangesJoin
            <7> QED
              BY <5>3, <7>1
          <6> QED
            BY <5>1, <6>1, <6>2, <6>3 DEF Inner
        <5> QED
          BY <5>4, <5>5
      <4> QED
        BY <4>1, <4>2
    <3>8. \A w \in {"script", "dump"} : MeekList(todo'[w]) /\ Covered(todo'[w], K)
      <4> SUFFICES ASSUME NEW w \in {"script", "dump"} PROVE MeekList(todo'[w]) /\ Covered(todo'[w], K)
        OBVIOUS
      <4> HIDE DEF c, K
      <4>1. CASE w = t
        BY <1>1, <3>5, <3>7, <4>1
      <4>2. CASE w # t
        <5>1. todo'[w] = todo[w]
          BY <2>3, <4>2, ThreadsAre
        <5> QED
          BY <2>2, <5>1
      <4> QED
        BY <4>1, <4>2
    <3>9. ASSUME type["server"] = "APPLE_MACINTOSH" PROVE OffPort(todo'["script"])
      <4>1. todo'["script"] = todo["script"]
        BY <2>3, <3>6, <3>9, ThreadsAre
      <4> QED
        BY <2>2, <3>9, <4>1
    <3> QED
      BY <3>8, <3>9
  <2> QED
    BY <2>5, <2>6
<1>11. Source'
  <2>1. ASSUME NEW w \in {"script", "tool"}, todo'[w] # <<>>
        PROVE  \E e \in Calls[w][mode] : Reaches(todo'[w]) \subseteq Reaches(Program(e))
    <3>1. CASE w = t
      <4>1. PICK e \in Calls[w][mode] : Reaches(s) \subseteq Reaches(Program(e))
        BY <3>1 DEF Ordered, Source
      <4> QED
        BY <1>1, <1>6, <3>1, <4>1
    <3>2. CASE w # t
      <4>1. todo'[w] = todo[w]
        BY <1>1, <3>2, ThreadsAre
      <4> QED
        BY <2>1, <4>1 DEF Ordered, Source
    <3> QED
      BY <3>1, <3>2
  <2>2. ASSUME todo'["dump"] # <<>>
        PROVE  Dumps[mode] # {} /\ Reaches(todo'["dump"]) \subseteq {Control, FloppyCtrl, ExtraOut}
    <3>1. todo["dump"] # <<>> /\ Reaches(todo'["dump"]) \subseteq Reaches(todo["dump"])
      <4>1. CASE t = "dump"
        BY <1>1, <1>2, <1>6, <4>1
      <4>2. CASE t # "dump"
        BY <1>1, <2>2, <4>2, ThreadsAre
      <4> QED
        BY <4>1, <4>2
    <3> QED
      BY <3>1 DEF Ordered, Source
  <2> QED
    BY <2>1, <2>2 DEF Source
<1> QED
  BY <1>8, <1>9, <1>10, <1>11

LEMMA ThreadOrdered ==
  ASSUME Wired, Ordered,
         (\E t \in Threads : ThreadStep(t)) \/ EndDump
  PROVE  Ordered'
<1>1. Shape
  BY DEF Ordered
<1>2. ASSUME NEW t \in Threads, Lock(t) PROVE Ordered'
  <2>1. /\ todo[t] # <<>> /\ Head(todo[t]).op = "lock"
        /\ todo' = [todo EXCEPT ![t] = Tail(todo[t])] /\ mode' = mode /\ type' = type
        /\ mutex[Process(t)] = "none" /\ mutex' = [mutex EXCEPT ![Process(t)] = t]
    BY <1>2 DEF Lock, Next1, Done
  <2>2. Lists' /\ Turns' /\ Aside' /\ Source'
    BY <2>1, TailKeeps
  <2>3. Shape'
    BY <1>1, <1>2, <2>1 DEF Shape, Lock
  <2> QED
    BY <2>2, <2>3 DEF Ordered
<1>3. ASSUME NEW t \in Threads, Unlock(t) PROVE Ordered'
  <2>1. /\ todo[t] # <<>> /\ Head(todo[t]).op = "unlock"
        /\ todo' = [todo EXCEPT ![t] = Tail(todo[t])] /\ mode' = mode /\ type' = type
        /\ mutex' = [mutex EXCEPT ![Process(t)] = "none"]
    BY <1>3 DEF Unlock, Next1, Done
  <2>2. Lists' /\ Turns' /\ Aside' /\ Source'
    BY <2>1, TailKeeps
  <2>3. Shape'
    BY <1>1, <1>3, <2>1 DEF Shape, Unlock
  <2> QED
    BY <2>2, <2>3 DEF Ordered
<1>4. ASSUME NEW t \in Threads, Load(t) PROVE Ordered'
  <2>1. /\ UNCHANGED <<reg, wanted, type, mode, mutex, todo>> /\ DOMAIN loaded' = DOMAIN loaded
    BY <1>4 DEF Load
  <2>2. Lists' /\ Turns' /\ Aside' /\ Source'
    BY <2>1 DEF Ordered, Lists, Turns, Aside, Source
  <2>3. Shape'
    BY <1>1, <2>1 DEF Shape
  <2> QED
    BY <2>2, <2>3 DEF Ordered
<1>5. ASSUME NEW t \in Threads, Store(t) \/ Overwrite(t) PROVE Ordered'
  <2>1. /\ todo[t] # <<>> /\ Head(todo[t]).op \in {"change", "write"}
        /\ todo' = [todo EXCEPT ![t] = Tail(todo[t])] /\ mode' = mode /\ type' = type
        /\ mutex' = mutex
        /\ DOMAIN loaded' = DOMAIN loaded /\ DOMAIN reg' = DOMAIN reg
        /\ DOMAIN wanted' = DOMAIN wanted
    BY <1>5 DEF Store, Overwrite, Next1, Done
  <2>2. Lists' /\ Turns' /\ Aside' /\ Source'
    BY <2>1, TailKeeps
  <2>3. Shape'
    BY <1>1, <2>1 DEF Shape
  <2> QED
    BY <2>2, <2>3 DEF Ordered
<1>6. ASSUME NEW t \in Threads, Decide(t) PROVE Ordered'
  <2>1. /\ todo[t] # <<>> /\ mode' = mode /\ type' = type /\ mutex' = mutex
        /\ UNCHANGED <<loaded, reg, wanted>>
    BY <1>6 DEF Decide, Next1
  <2>2. PICK b : /\ \/ Head(todo[t]).op = "do" /\ b = Body(Head(todo[t]).call, type[Process(t)])
                    \/ Head(todo[t]).op = "interface" /\ \E m : b = SetInterface(m)
                 /\ todo' = [todo EXCEPT ![t] = b \o Tail(todo[t])]
    BY <1>6 DEF Decide, Next1, Becomes
  <2>3. Lists' /\ Turns' /\ Aside' /\ Source'
    BY <2>1, <2>2, DecideKeeps
  <2>4. Shape'
    BY <1>1, <2>1, <2>2 DEF Shape
  <2> QED
    BY <2>3, <2>4 DEF Ordered
<1>7. ASSUME NEW t \in Threads, SetType(t) PROVE Ordered'
  <2>1. /\ todo[t] # <<>> /\ Head(todo[t]).op = "type"
        /\ todo' = [todo EXCEPT ![t] = Tail(todo[t])] /\ mode' = mode
        /\ mutex' = mutex /\ UNCHANGED <<loaded, reg, wanted>>
        /\ type' = [type EXCEPT ![Process(t)] = Head(todo[t]).call[1]]
    BY <1>7 DEF SetType, Next1, Done
  <2>2. ASSUME todo["dump"] # <<>> PROVE type'["server"] = type["server"]
    <3>1. CASE t = "tool"
      BY <1>1, <2>1, <3>1, ThreadsAre DEF Shape
    <3>2. CASE t # "tool"
      <4>1. t \in {"script", "dump"}
        BY <3>2, ThreadsAre
      <4>2. MeekList(todo[t])
        BY <2>2, <4>1 DEF Ordered, Aside
      <4>3. Meek(Head(todo[t]))
        BY <2>1, <4>2, MeekJoin
      <4> QED
        BY <2>1, <4>3 DEF Meek
    <3> QED
      BY <3>1, <3>2
  <2>3. Lists' /\ Turns' /\ Aside' /\ Source'
    BY <2>1, <2>2, TailKeeps
  <2>4. Shape'
    BY <1>1, <2>1 DEF Shape
  <2> QED
    BY <2>3, <2>4 DEF Ordered
<1>8. ASSUME EndDump PROVE Ordered'
  <2>1. /\ "dump" \in Threads /\ todo["dump"] # <<>> /\ Head(todo["dump"]).op = "end"
        /\ todo' = [todo EXCEPT !["dump"] = Tail(todo["dump"])] /\ mode' = mode /\ type' = type
        /\ mutex' = mutex /\ UNCHANGED <<loaded, reg, wanted>>
    BY <1>8, ThreadsAre DEF EndDump, Next1, Done
  <2>2. Lists' /\ Turns' /\ Aside' /\ Source'
    BY <2>1, TailKeeps
  <2>3. Shape'
    BY <1>1, <2>1 DEF Shape
  <2> QED
    BY <2>2, <2>3 DEF Ordered
<1> QED
  BY <1>2, <1>3, <1>4, <1>5, <1>6, <1>7, <1>8 DEF ThreadStep

LEMMA StepOrdered ==
  ASSUME Wired, Commands, ~Overlap, Ordered, [BoardNext]_boardVars
  PROVE  Ordered'
<1>1. Shape
  BY DEF Ordered
<1>2. CASE UNCHANGED boardVars
  BY <1>2 DEF boardVars, Ordered, Shape, Lists, Turns, Aside, Source
<1>3. ASSUME NEW t \in {"script", "tool"}, Issue(t) PROVE Ordered'
  <2>1. /\ todo[t] = <<>> /\ mode' = mode /\ mutex' = mutex /\ UNCHANGED <<loaded, reg, wanted>>
        /\ type' = IF t = "tool" THEN [type EXCEPT ![t] = "GENERIC"] ELSE type
    BY <1>3 DEF Issue
  <2>2. PICK c \in Calls[t][mode] :
          /\ (c[1] \in {"headstep", "eject"} /\ type["server"] = "APPLE_MACINTOSH") =>
               todo["dump"] = <<>>
          /\ (c[1] = "reset") => todo["dump"] = <<>>
          /\ todo' = [todo EXCEPT ![t] = Program(c)]
    BY <1>3 DEF Issue
  <2>3. type'["server"] = type["server"] /\ DOMAIN type' = DOMAIN type
    BY <1>1, <2>1 DEF Shape
  <2>4. Lists' /\ Turns' /\ Aside' /\ Source'
    BY <2>1, <2>2, <2>3, IssueKeeps
  <2>5. Shape'
    BY <1>1, <2>1, <2>2, <2>3 DEF Shape
  <2> QED
    BY <2>4, <2>5 DEF Ordered
<1>4. CASE BeginDump
  <2>1. /\ todo["dump"] = <<>> /\ todo["script"] = <<>> /\ mode' = mode /\ mutex' = mutex
        /\ type' = type /\ UNCHANGED <<loaded, reg, wanted>>
    BY <1>4 DEF BeginDump
  <2>2. PICK d \in Dumps[mode], v \in 0 .. 1, x \in 0 .. 1 :
          todo' = [todo EXCEPT !["dump"] = DumpProgram(d, v, x)]
    BY <1>4 DEF BeginDump
  <2>3. Lists' /\ Turns' /\ Aside' /\ Source'
    BY <2>1, <2>2, BeginKeeps
  <2>4. Shape'
    BY <1>1, <2>1, <2>2 DEF Shape
  <2> QED
    BY <2>3, <2>4 DEF Ordered
<1>5. CASE SetEnv
  <2>1. /\ UNCHANGED <<reg, wanted, type, mutex, todo, loaded>> /\ mode' \in Modes
        /\ \A t \in Threads : todo[t] = <<>>
    BY <1>1, <1>5 DEF SetEnv, Shape
  <2>2. Lists' /\ Turns' /\ Aside' /\ Source'
    BY <2>1, ThreadsAre DEF Ordered, Lists, Turns, Aside, Source
  <2>3. Shape'
    BY <1>1, <2>1 DEF Shape
  <2> QED
    BY <2>2, <2>3 DEF Ordered
<1> QED
  BY <1>2, <1>3, <1>4, <1>5, ThreadOrdered DEF BoardNext

LEMMA InitOrdered == ASSUME BoardInit PROVE Ordered
<1>1. /\ DOMAIN todo = Threads /\ DOMAIN loaded = Threads
      /\ DOMAIN mutex = {"server", "tool"} /\ DOMAIN type = {"server", "tool"}
      /\ DOMAIN reg = DOMAIN Fields /\ DOMAIN wanted = DOMAIN Fields /\ mode \in Modes
      /\ \A t \in Threads : todo[t] = <<>>
      /\ mutex["server"] = "none"
  BY DEF BoardInit
<1>2. Shape
  BY <1>1 DEF Shape
<1>3. Lists
  BY <1>1, FineJoin DEF Lists
<1>4. Turns
  BY <1>1, TidyEmpty, ThreadsAre DEF Turns, Tidy
<1>5. Aside /\ Source
  BY <1>1, ThreadsAre DEF Aside, Source
<1> QED
  BY <1>2, <1>3, <1>4, <1>5 DEF Ordered

-----------------------------------------------------------------------------
(* The inductive invariant: the values                                      *)

\* Thread t is about to change register r.
AtRegister(t, r) ==
  todo[t] # <<>> /\ Head(todo[t]).op \in {"change", "write"} /\ Head(todo[t]).reg = r

\* What a thread is changing is what the register still holds.
InHand == \A t \in Threads : loaded[t] # None =>
  /\ Next1(t, "change")
  /\ Head(todo[t]).reg \in Shared => loaded[t] = reg[Head(todo[t]).reg]

Kept == \A r \in Shared : reg[r] = wanted[r]

Held == Ordered /\ InHand /\ Kept

\* Two threads are never about to change the same register: of the server's
\* two the one has the mutex, or keeps off the port of a Macintosh drive, and
\* a shell's registers are its own.
LEMMA OneAtRegister ==
  ASSUME Apart, Ordered, NEW t \in Threads, NEW u \in Threads, t # u, NEW r \in Shared,
         AtRegister(t, r), AtRegister(u, r)
  PROVE  FALSE
<1>1. ASSUME NEW w \in Threads, AtRegister(w, r)
      PROVE  /\ todo[w] # <<>> /\ r \in Reaches(todo[w]) /\ 1 \in DOMAIN todo[w]
             /\ todo[w][1].op \in {"change", "write"} /\ todo[w][1].reg = r
             /\ Head(todo[w]) = todo[w][1] /\ Listing(todo[w])
  <2>1. Listing(todo[w]) /\ todo[w] # <<>>
    BY <1>1 DEF Ordered, Lists, Fine, AtRegister
  <2>2. 1 \in DOMAIN todo[w] /\ Head(todo[w]) = todo[w][1]
    BY <2>1, RestEach
  <2>3. r \in Reach(Head(todo[w]))
    BY <1>1 DEF AtRegister, Reach
  <2>4. r \in Reaches(todo[w])
    BY <2>1, <2>3, ReachesJoin
  <2> QED
    BY <1>1, <2>1, <2>2, <2>4 DEF AtRegister
<1>2. mode \in Modes
  BY DEF Ordered, Shape
<1>3. ASSUME AtRegister("script", r), AtRegister("dump", r) PROVE FALSE
  <2>1. /\ todo["dump"] # <<>> /\ todo["script"][1].op \in {"change", "write"}
        /\ todo["script"][1].reg = r /\ todo["dump"][1].op \in {"change", "write"}
        /\ todo["dump"][1].reg = r /\ 1 \in DOMAIN todo["script"] /\ 1 \in DOMAIN todo["dump"]
    BY <1>1, <1>3, ThreadsAre
  <2>2. /\ Covered(todo["script"], Guarded(type["server"]))
        /\ Covered(todo["dump"], Guarded(type["server"]))
        /\ type["server"] = "APPLE_MACINTOSH" => OffPort(todo["script"])
    BY <2>1 DEF Ordered, Aside
  <2>3. CASE r \in Guarded(type["server"])
    <3>1. Closing(todo["script"], 1) /\ Closing(todo["dump"], 1)
      BY <2>1, <2>2, <2>3 DEF Covered
    <3>2. mutex["server"] = "script" /\ mutex["server"] = "dump"
      BY <3>1 DEF Ordered, Turns
    <3> QED
      BY <3>2
  <2>4. CASE r \notin Guarded(type["server"])
    <3>1. type["server"] = "APPLE_MACINTOSH" /\ r = FloppyCtrl
      BY <2>4 DEF Guarded
    <3> QED
      BY <2>1, <2>2, <3>1 DEF OffPort
  <2> QED
    BY <2>3, <2>4
<1>4. ASSUME AtRegister("tool", r) PROVE \E c \in Calls["tool"][mode] : r \in Reaches(Program(c))
  <2>1. todo["tool"] # <<>> /\ r \in Reaches(todo["tool"])
    BY <1>1, <1>4, ThreadsAre
  <2> QED
    BY <2>1 DEF Ordered, Source
<1>5. ASSUME AtRegister("script", r), AtRegister("tool", r) PROVE FALSE
  <2>1. PICK c \in Calls["tool"][mode] : r \in Reaches(Program(c))
    BY <1>4, <1>5
  <2>2. todo["script"] # <<>> /\ r \in Reaches(todo["script"])
    BY <1>1, <1>5, ThreadsAre
  <2>3. PICK e \in Calls["script"][mode] : r \in Reaches(Program(e))
    BY <2>2 DEF Ordered, Source
  <2> QED
    BY <1>2, <2>1, <2>3 DEF Apart
<1>6. ASSUME AtRegister("dump", r), AtRegister("tool", r) PROVE FALSE
  <2>1. PICK c \in Calls["tool"][mode] : r \in Reaches(Program(c))
    BY <1>4, <1>6
  <2>2. todo["dump"] # <<>> /\ r \in Reaches(todo["dump"])
    BY <1>1, <1>6, ThreadsAre
  <2>3. Dumps[mode] # {} /\ r \in {Control, FloppyCtrl}
    BY <2>2, SharedFields DEF Ordered, Source
  <2> QED
    BY <1>2, <2>1, <2>3 DEF Apart
<1> QED
  BY <1>3, <1>5, <1>6, ThreadsAre

LEMMA StoreHeld ==
  ASSUME Apart, Held, NEW t \in Threads, Store(t) \/ Overwrite(t)
  PROVE  InHand' /\ Kept'
<1> DEFINE a == Head(todo[t])
<1>1. /\ todo[t] # <<>> /\ AtRegister(t, a.reg) /\ todo' = [todo EXCEPT ![t] = Tail(todo[t])]
      /\ \E v, w : /\ reg' = [reg EXCEPT ![a.reg] = v]
                   /\ wanted' = [wanted EXCEPT ![a.reg] = w]
                   /\ a.reg \in Shared => v = w
      /\ loaded'[t] = None /\ \A u \in Threads : u # t => loaded'[u] = loaded[u]
  <2>1. CASE Store(t)
    <3>1. /\ reg' = [reg EXCEPT ![a.reg] = a.upd @@ loaded[t]]
          /\ wanted' = [wanted EXCEPT ![a.reg] = a.upd @@ wanted[a.reg]]
          /\ a.op = "change" /\ loaded[t] # None /\ todo[t] # <<>>
          /\ todo' = [todo EXCEPT ![t] = Tail(todo[t])]
          /\ loaded' = [loaded EXCEPT ![t] = None]
      BY <2>1 DEF Store, Next1, Done
    <3>2. a.reg \in Shared => loaded[t] = wanted[a.reg]
      BY <3>1 DEF Held, InHand, Kept
    <3>3. loaded'[t] = None /\ \A u \in Threads : u # t => loaded'[u] = loaded[u]
      BY <3>1 DEF Held, Ordered, Shape
    <3> QED
      BY <3>1, <3>2, <3>3 DEF AtRegister
  <2>2. CASE Overwrite(t)
    <3>1. /\ reg' = [reg EXCEPT ![a.reg] = a.upd @@ Reset(a.reg)]
          /\ wanted' = [wanted EXCEPT ![a.reg] = a.upd @@ Reset(a.reg)]
          /\ a.op = "write" /\ todo[t] # <<>> /\ todo' = [todo EXCEPT ![t] = Tail(todo[t])]
          /\ loaded' = loaded
      BY <2>2 DEF Overwrite, Next1, Done
    <3>2. loaded[t] = None
      BY <3>1 DEF Held, InHand, Next1
    <3> QED
      BY <3>1, <3>2 DEF AtRegister
  <2> QED
    BY <2>1, <2>2
<1>2. /\ DOMAIN reg = DOMAIN Fields /\ DOMAIN wanted = DOMAIN Fields /\ Shared \subseteq DOMAIN Fields
      /\ DOMAIN todo = Threads
  BY SharedFields DEF Held, Ordered, Shape
<1> HIDE DEF a
<1>3. Kept'
  <2> SUFFICES ASSUME NEW r \in Shared PROVE reg'[r] = wanted'[r]
    BY DEF Kept
  <2>0. reg[r] = wanted[r]
    BY DEF Held, Kept
  <2> PICK v, w : /\ reg' = [reg EXCEPT ![a.reg] = v]
                  /\ wanted' = [wanted EXCEPT ![a.reg] = w]
                  /\ a.reg \in Shared => v = w
    BY <1>1
  <2>1. CASE r = a.reg
    BY <1>2, <2>1
  <2>2. CASE r # a.reg
    BY <1>2, <2>0, <2>2
  <2> QED
    BY <2>1, <2>2
<1>4. InHand'
  <2> SUFFICES ASSUME NEW u \in Threads, loaded'[u] # None
               PROVE  /\ todo'[u] # <<>> /\ Head(todo'[u]).op = "change"
                      /\ Head(todo'[u]).reg \in Shared => loaded'[u] = reg'[Head(todo'[u]).reg]
    BY DEF InHand, Next1
  <2>1. u # t /\ loaded'[u] = loaded[u] /\ todo'[u] = todo[u]
    BY <1>1, <1>2
  <2>2. /\ todo[u] # <<>> /\ Head(todo[u]).op = "change"
        /\ Head(todo[u]).reg \in Shared => loaded[u] = reg[Head(todo[u]).reg]
    BY <2>1 DEF Held, InHand, Next1
  <2>3. ASSUME Head(todo[u]).reg \in Shared PROVE reg'[Head(todo[u]).reg] = reg[Head(todo[u]).reg]
    <3>1. Head(todo[u]).reg # a.reg
      <4>1. ASSUME Head(todo[u]).reg = a.reg PROVE FALSE
        <5>1. AtRegister(u, a.reg) /\ a.reg \in Shared
          BY <2>2, <2>3, <4>1 DEF AtRegister
        <5> QED
          BY <1>1, <2>1, <5>1, OneAtRegister DEF Held
      <4> QED
        BY <4>1
    <3> QED
      BY <1>1, <1>2, <2>3, <3>1
  <2> QED
    BY <2>1, <2>2, <2>3
<1> QED
  BY <1>3, <1>4

\* Whatever else happens, a thread that has a register in hand keeps it.
LEMMA OtherHeld ==
  ASSUME Held, UNCHANGED <<reg, wanted>>,
         \A t \in Threads : loaded'[t] # None =>
           \/ loaded'[t] = loaded[t] /\ todo'[t] = todo[t]
           \/ todo'[t] = todo[t] /\ Next1(t, "change") /\ loaded'[t] = reg[Head(todo[t]).reg]
  PROVE  InHand' /\ Kept'
BY DEF Held, InHand, Kept, Next1

LEMMA StepHeld ==
  ASSUME Wired, Commands, Apart, ~Overlap, Held, [BoardNext]_boardVars
  PROVE  Held'
<1>0. Ordered'
  BY StepOrdered DEF Held
<1>1. Shape
  BY DEF Held, Ordered
<1>2. CASE UNCHANGED boardVars
  <2>1. UNCHANGED <<reg, wanted, loaded, todo>>
    BY <1>2 DEF boardVars
  <2> QED
    BY <1>0, <2>1, OtherHeld DEF Held
<1>3. ASSUME NEW t \in Threads, NEW s, todo' = [todo EXCEPT ![t] = s], loaded' = loaded,
             UNCHANGED <<reg, wanted>>, todo[t] = <<>> \/ Head(todo[t]).op # "change"
      PROVE  Held'
  <2>1. \A u \in Threads : u # t => todo'[u] = todo[u]
    BY <1>1, <1>3 DEF Shape
  <2>2. loaded[t] = None
    BY <1>3 DEF Held, InHand, Next1
  <2> QED
    BY <1>0, <1>3, <2>1, <2>2, OtherHeld DEF Held
<1>4. ASSUME NEW t \in {"script", "tool"}, Issue(t) PROVE Held'
  BY <1>3, <1>4, ThreadsAre DEF Issue
<1>5. CASE BeginDump
  BY <1>3, <1>5, ThreadsAre DEF BeginDump
<1>6. CASE SetEnv
  <2>1. UNCHANGED <<reg, wanted, loaded, todo>>
    BY <1>6 DEF SetEnv
  <2> QED
    BY <1>0, <2>1, OtherHeld DEF Held
<1>7. CASE EndDump
  BY <1>3, <1>7, ThreadsAre DEF EndDump, Next1, Done
<1>8. ASSUME NEW t \in Threads, ThreadStep(t) PROVE Held'
  <2>1. CASE Lock(t)
    BY <1>3, <2>1 DEF Lock, Next1, Done
  <2>2. CASE Unlock(t)
    BY <1>3, <2>2 DEF Unlock, Next1, Done
  <2>3. CASE Load(t)
    <3>1. /\ UNCHANGED <<reg, wanted, todo>> /\ Next1(t, "change")
          /\ loaded' = [loaded EXCEPT ![t] = reg[Head(todo[t]).reg]]
      BY <2>3 DEF Load
    <3>2. /\ loaded'[t] = reg[Head(todo[t]).reg]
          /\ \A u \in Threads : u # t => loaded'[u] = loaded[u]
      BY <1>1, <3>1 DEF Shape
    <3> QED
      BY <1>0, <3>1, <3>2, OtherHeld DEF Held
  <2>4. CASE Store(t) \/ Overwrite(t)
    BY <1>0, <2>4, StoreHeld DEF Held
  <2>5. CASE Decide(t)
    BY <1>3, <2>5 DEF Decide, Next1, Becomes
  <2>6. CASE SetType(t)
    BY <1>3, <2>6 DEF SetType, Next1, Done
  <2> QED
    BY <1>8, <2>1, <2>2, <2>3, <2>4, <2>5, <2>6 DEF ThreadStep
<1> QED
  BY <1>2, <1>4, <1>5, <1>6, <1>7, <1>8 DEF BoardNext

LEMMA InitHeld == ASSUME BoardInit PROVE Held
<1>1. InHand /\ Kept
  BY DEF BoardInit, InHand, Kept
<1> QED
  BY <1>1, InitOrdered DEF Held

\* Every register the threads have in common keeps what each of them wrote.
LEMMA NothingLostCorrect ==
  ASSUME Wired, Commands, Apart, ~Overlap
  PROVE  BoardSpec => []NothingLost
<1>1. BoardInit => Held
  BY InitHeld
<1>2. Held /\ [BoardNext]_boardVars => Held'
  BY StepHeld
<1>3. Held => NothingLost
  BY DEF Held, Kept, NothingLost, Shared
<1> QED
  BY <1>1, <1>2, <1>3, PTL DEF BoardSpec
-----------------------------------------------------------------------------
(* What a field will hold                                                  *)

LineBit(use, d) == (CHOOSE q \in Pin(Line[use][d]) : TRUE)[3]

\* An access may give the field b of the register r another value, but on the
\* floppy port of a Macintosh drive; or gives it the value v.
Touch(a, r, b) ==
  \/ a.op = "change" /\ a.reg = r /\ b \in DOMAIN a.upd
  \/ a.op = "write" /\ a.reg = r
  \/ a.op = "do" /\ r = FloppyCtrl /\ a.call[1] = "motor" /\ b = LineBit("motor", a.call[2])
  \/ a.op = "do" /\ r = FloppyCtrl /\ a.call[1] = "side" /\ b = 5
  \/ a.op = "do" /\ r = FloppyCtrl /\ a.call[1] = "release"
  \/ a.op = "interface" /\ r \in {Control, Polarity}

Put(a, r, b, v) ==
  \/ a.op \in {"change", "write"} /\ a.reg = r /\ b \in DOMAIN a.upd /\ a.upd[b] = v
  \/ a.op = "write" /\ a.reg = r /\ b \notin DOMAIN a.upd /\ v = 0
  \/ /\ a.op = "do" /\ r = FloppyCtrl /\ a.call[1] = "motor"
     /\ b = LineBit("motor", a.call[2]) /\ v = (IF a.call[3] = 0 THEN 0 ELSE 1)
  \/ a.op = "do" /\ r = FloppyCtrl /\ a.call[1] = "side" /\ b = 5 /\ v = a.call[3]

\* When the accesses before the k-th are made, the field holds v, whatever it
\* holds; or as it holds x.
Sure(s, k, r, b, v) ==
  \E i \in 1 .. k - 1 : Put(s[i], r, b, v) /\ \A j \in i + 1 .. k - 1 : ~Touch(s[j], r, b)

Will(s, k, r, b, v, x) ==
  Sure(s, k, r, b, v) \/ (x = v /\ \A j \in 1 .. k - 1 : ~Touch(s[j], r, b))

LEMMA WillPut ==
  ASSUME NEW s, NEW k, NEW r, NEW b, NEW v, NEW i \in 1 .. k - 1,
         Put(s[i], r, b, v), \A j \in i + 1 .. k - 1 : ~Touch(s[j], r, b)
  PROVE  Sure(s, k, r, b, v) /\ \A x : Will(s, k, r, b, v, x)
BY DEF Will, Sure

LEMMA WillFirst ==
  ASSUME NEW s, NEW u, Listing(s), Listing(u), NEW k \in 1 .. Len(s) + 1,
         NEW r, NEW b, NEW v, NEW x, Will(s, k, r, b, v, x)
  PROVE  Will(s \o u, k, r, b, v, x)
<1>1. Len(s) \in Nat /\ \A i \in 1 .. Len(s) : (s \o u)[i] = s[i]
  BY Joined
<1>2. \A i \in 1 .. k - 1 : (s \o u)[i] = s[i]
  BY <1>1
<1> QED
  BY <1>1, <1>2 DEF Will, Sure

LEMMA SureParts ==
  ASSUME NEW n \in Nat, NEW m \in Nat, NEW u, NEW z, NEW k \in 1 .. m + 1,
         NEW r, NEW b, NEW v,
         \A i \in 1 .. m : z[n + i] = u[i], Sure(u, k, r, b, v)
  PROVE  Sure(z, n + k, r, b, v)
<1>1. PICK i \in 1 .. k - 1 : Put(u[i], r, b, v) /\ \A j \in i + 1 .. k - 1 : ~Touch(u[j], r, b)
  BY DEF Sure
<1>2. PICK h : h = n + i
  OBVIOUS
<1>3. h \in 1 .. n + k - 1 /\ Put(z[h], r, b, v)
  BY <1>1, <1>2
<1>4. \A j \in h + 1 .. n + k - 1 : ~Touch(z[j], r, b)
  <2> SUFFICES ASSUME NEW j \in h + 1 .. n + k - 1 PROVE ~Touch(z[j], r, b)
    OBVIOUS
  <2>1. j - n \in i + 1 .. k - 1 /\ j - n \in 1 .. m /\ n + (j - n) = j
    BY <1>2
  <2> QED
    BY <1>1, <2>1
<1> QED
  BY <1>3, <1>4, WillPut

\* What the first list leaves, the second lets be.
LEMMA SureThen ==
  ASSUME NEW n \in Nat, NEW s, NEW z, NEW k \in Nat \ {0}, NEW r, NEW b,
         \A i \in 1 .. n : z[i] = s[i], \A j \in 1 .. k - 1 : ~Touch(z[n + j], r, b)
  PROVE  /\ \A v : Sure(s, n + 1, r, b, v) => Sure(z, n + k, r, b, v)
         /\ (\A j \in 1 .. n : ~Touch(s[j], r, b)) => \A j \in 1 .. n + k - 1 : ~Touch(z[j], r, b)
<1>1. \A j \in n + 1 .. n + k - 1 : ~Touch(z[j], r, b)
  <2> SUFFICES ASSUME NEW j \in n + 1 .. n + k - 1 PROVE ~Touch(z[j], r, b)
    OBVIOUS
  <2>1. j - n \in 1 .. k - 1 /\ n + (j - n) = j
    OBVIOUS
  <2> QED
    BY <2>1
<1>2. n + 1 - 1 = n
  OBVIOUS
<1>3. ASSUME NEW i \in 1 .. n, NEW v, Put(s[i], r, b, v),
             \A j \in i + 1 .. n : ~Touch(s[j], r, b)
      PROVE  Sure(z, n + k, r, b, v)
  <2>1. i \in 1 .. n + k - 1 /\ Put(z[i], r, b, v)
    BY <1>3
  <2>2. ASSUME NEW j \in i + 1 .. n + k - 1 PROVE ~Touch(z[j], r, b)
    <3>1. j \in i + 1 .. n \/ j \in n + 1 .. n + k - 1
      OBVIOUS
    <3>2. j \in i + 1 .. n => j \in 1 .. n
      OBVIOUS
    <3> QED
      BY <1>1, <1>3, <3>1, <3>2
  <2> QED
    BY <2>1, <2>2 DEF Sure
<1>4. ASSUME \A j \in 1 .. n : ~Touch(s[j], r, b), NEW j \in 1 .. n + k - 1
      PROVE  ~Touch(z[j], r, b)
  <2>1. j \in 1 .. n \/ j \in n + 1 .. n + k - 1
    OBVIOUS
  <2> QED
    BY <1>1, <1>4, <2>1
<1> QED
  BY <1>2, <1>3, <1>4 DEF Sure

LEMMA WillParts ==
  ASSUME NEW n \in Nat, NEW m \in Nat, NEW s, NEW u, NEW z, NEW k \in 1 .. m + 1,
         NEW r, NEW b, NEW v, NEW w, NEW x,
         \A i \in 1 .. n : z[i] = s[i], \A i \in 1 .. m : z[n + i] = u[i],
         Will(u, k, r, b, v, w)
  PROVE  /\ Sure(s, n + 1, r, b, w) => Sure(z, n + k, r, b, v)
         /\ Will(s, n + 1, r, b, w, x) => Will(z, n + k, r, b, v, x)
<1>1. CASE Sure(u, k, r, b, v)
  BY <1>1, SureParts DEF Will
<1>2. CASE w = v /\ \A j \in 1 .. k - 1 : ~Touch(u[j], r, b)
  <2>0. (\A j \in 1 .. k - 1 : ~Touch(z[n + j], r, b)) /\ k \in Nat \ {0}
    BY <1>2
  <2>1. /\ \A f : Sure(s, n + 1, r, b, f) => Sure(z, n + k, r, b, f)
        /\ (\A j \in 1 .. n : ~Touch(s[j], r, b)) => \A j \in 1 .. n + k - 1 : ~Touch(z[j], r, b)
    BY <2>0, SureThen
  <2>2. n + 1 - 1 = n
    OBVIOUS
  <2> QED
    BY <1>2, <2>1, <2>2 DEF Will
<1> QED
  BY <1>1, <1>2 DEF Will

\* Lists one after the other: what the first leaves is what the second finds.
LEMMA WillJoin ==
  ASSUME NEW s, NEW u, Listing(s), Listing(u), NEW k \in 1 .. Len(u) + 1,
         NEW r, NEW b, NEW v, NEW w, Will(u, k, r, b, v, w)
  PROVE  /\ Sure(s, Len(s) + 1, r, b, w) => Sure(s \o u, Len(s) + k, r, b, v)
         /\ \A x : Will(s, Len(s) + 1, r, b, w, x) => Will(s \o u, Len(s) + k, r, b, v, x)
<1>1. /\ Len(s) \in Nat /\ Len(u) \in Nat
      /\ \A i \in 1 .. Len(s) : (s \o u)[i] = s[i]
      /\ \A i \in 1 .. Len(u) : (s \o u)[Len(s) + i] = u[i]
  BY Joined
<1> QED
  BY <1>1, WillParts

\* A first access sets the field, leaves it alone, or is of no importance to it.
LEMMA WillHead ==
  ASSUME NEW s, Listing(s), s # <<>>, NEW k \in 2 .. Len(s) + 1,
         NEW r, NEW b, NEW v, NEW x, Will(s, k, r, b, v, x)
  PROVE  \/ Sure(Tail(s), k - 1, r, b, v)
         \/ /\ Put(s[1], r, b, v) \/ (x = v /\ ~Touch(s[1], r, b))
            /\ Will(Tail(s), k - 1, r, b, v, v)
<1>1. /\ Len(s) \in Nat \ {0} /\ \A i \in 1 .. Len(s) - 1 : Tail(s)[i] = s[i + 1]
  BY Rest
<1>2. \A j \in 1 .. k - 2 : j + 1 \in 2 .. k - 1 /\ Tail(s)[j] = s[j + 1]
  BY <1>1
<1>3. k - 1 - 1 = k - 2
  BY <1>1
<1>4. ASSUME NEW i \in 1 .. k - 1, Put(s[i], r, b, v),
             \A j \in i + 1 .. k - 1 : ~Touch(s[j], r, b), i # 1
      PROVE  Sure(Tail(s), k - 1, r, b, v)
  <2>1. i - 1 \in 1 .. k - 2 /\ i - 1 + 1 = i
    BY <1>1, <1>4
  <2>2. Put(Tail(s)[i - 1], r, b, v)
    BY <1>2, <1>4, <2>1
  <2>3. \A j \in i .. k - 2 : j \in 1 .. k - 2 /\ j + 1 \in i + 1 .. k - 1
    BY <1>1
  <2>4. \A j \in i .. k - 2 : ~Touch(Tail(s)[j], r, b)
    BY <1>2, <1>4, <2>3
  <2> QED
    BY <1>3, <2>1, <2>2, <2>4 DEF Will, Sure
<1>5. ASSUME \A j \in 2 .. k - 1 : ~Touch(s[j], r, b)
      PROVE  Will(Tail(s), k - 1, r, b, v, v)
  BY <1>2, <1>3, <1>5 DEF Will, Sure
<1>6. CASE x = v /\ \A j \in 1 .. k - 1 : ~Touch(s[j], r, b)
  <2>1. 1 \in 1 .. k - 1 /\ \A j \in 2 .. k - 1 : j \in 1 .. k - 1
    BY <1>1
  <2> QED
    BY <1>5, <1>6, <2>1
<1>7. ASSUME NEW i \in 1 .. k - 1, Put(s[i], r, b, v),
             \A j \in i + 1 .. k - 1 : ~Touch(s[j], r, b), i = 1
      PROVE  Put(s[1], r, b, v) /\ Will(Tail(s), k - 1, r, b, v, v)
  BY <1>5, <1>7
<1> QED
  BY <1>4, <1>6, <1>7 DEF Will, Sure
LEMMA LineBitIs ==
  ASSUME Wired, NEW d \in Drives, NEW use \in {"select", "motor"}, NEW v
  PROVE  /\ LineBit(use, d) \in 0 .. 4
         /\ SetIo(Line[use][d], v) =
              << Change(FloppyCtrl, LineBit(use, d) :> IF v = 0 THEN 0 ELSE 1) >>
<1>1. Pin(Line[use][d]) # {} /\ \A p \in Pin(Line[use][d]) : p[2] = FloppyCtrl /\ p[3] \in 0 .. 4
  BY DEF Wired
<1>2. PICK p \in Pin(Line[use][d]) :
        /\ p = CHOOSE q \in Pin(Line[use][d]) : TRUE
        /\ SetIo(Line[use][d], v) = << Change(p[2], p[3] :> IF v = 0 THEN 0 ELSE 1) >>
  BY <1>1, SetIoIs
<1>3. LineBit(use, d) = p[3]
  BY <1>2 DEF LineBit
<1> QED
  BY <1>1, <1>2, <1>3

LEMMA ChangeTouch ==
  ASSUME NEW r, NEW f, NEW v
  PROVE  /\ \A q, b : Touch(Change(r, f :> v), q, b) <=> (q = r /\ b = f)
         /\ Put(Change(r, f :> v), r, f, v)
<1>1. DOMAIN (f :> v) = {f} /\ (f :> v)[f] = v
  BY OneField
<1> QED
  BY <1>1, ChangeIs DEF Touch, Put

\* Accesses that only change registers of R leave the others alone.
LEMMA WithinTouch ==
  /\ \A s, R : Within(s, R) => \A i \in DOMAIN s : \A r, b : r \notin R => ~Touch(s[i], r, b)
  /\ \A s, R : Changes(s, R) => \A i \in DOMAIN s : \A r, b : r \notin R => ~Touch(s[i], r, b)
BY DEF Within, Changes, Touch

\* What the calls of a thread make of the drives that are no Macintosh drives.
LEMMA CallIs ==
  ASSUME Wired, NEW c, NEW ty, ty # "APPLE_MACINTOSH", c[1] \in Names,
         c[2] \in Drives \cup {-1}, c[2] = -1 => c[1] = "track00"
  PROVE  /\ c[1] = "motor" => Body(c, ty) =
              << Change(FloppyCtrl, LineBit("motor", c[2]) :> IF c[3] = 0 THEN 0 ELSE 1) >>
         /\ c[1] = "side" => Body(c, ty) = << Change(FloppyCtrl, 5 :> c[3]) >>
         /\ c[1] \in {"headload", "track00", "move", "eject"} => Within(Body(c, ty), {ExtraOut})
         /\ c[1] = "release" => Within(Body(c, ty), {FloppyCtrl, ExtraOut})
<1>1. ASSUME Inner(c)
      PROVE  /\ c[1] = "motor" => Body(c, ty) = SetIo(Line["motor"][c[2]], c[3])
             /\ c[1] = "side" => Body(c, ty) = << Change(FloppyCtrl, 5 :> c[3]) >>
             /\ c[1] = "headload" => Changes(Body(c, ty), {ExtraOut})
             /\ c[1] \in {"track00", "move"} => Body(c, ty) = <<>>
  BY <1>1, BodyInner
<1>2. c[1] = "motor" =>
        SetIo(Line["motor"][c[2]], c[3]) =
          << Change(FloppyCtrl, LineBit("motor", c[2]) :> IF c[3] = 0 THEN 0 ELSE 1) >>
  <2>1. c[1] = "motor" => c[2] \in Drives
    OBVIOUS
  <2> QED
    BY <2>1, LineBitIs
<1>3. c[1] \in {"headload", "track00", "move"} => Within(Body(c, ty), {ExtraOut})
  <2>1. c[1] \in {"track00", "move"} => Changes(Body(c, ty), {ExtraOut})
    BY <1>1, ChangesJoin DEF Inner
  <2>2. c[1] \in {"headload", "track00", "move"} => Changes(Body(c, ty), {ExtraOut})
    BY <1>1, <2>1 DEF Inner
  <2> QED
    BY <2>2 DEF Changes, Within
<1>4. ASSUME c[1] \in {"eject", "release"}
      PROVE  Within(Body(c, ty), {FloppyCtrl, ExtraOut})
             /\ (c[1] = "eject" => Within(Body(c, ty), {ExtraOut}))
  <2>1. c[2] \in Drives
    BY <1>4
  <2> QED
    BY <1>4, <2>1, BodyOuter
<1> QED
  BY <1>1, <1>2, <1>3, <1>4 DEF Inner

LEMMA OneWill ==
  ASSUME NEW r, NEW f, NEW v, NEW x
  PROVE  LET u == << Change(r, f :> v) >> IN
         /\ Listing(u) /\ Len(u) = 1 /\ DOMAIN u = {1} /\ Will(u, 2, r, f, v, x)
         /\ \A q, b : (q # r \/ b # f) => ~Touch(u[1], q, b)
<1>0. PICK u : u = << Change(r, f :> v) >>
  OBVIOUS
<1>1. Listing(u) /\ Len(u) = 1 /\ DOMAIN u = {1} /\ u[1] = Change(r, f :> v)
  BY <1>0, Listed
<1>2. Put(u[1], r, f, v) /\ \A q, b : Touch(u[1], q, b) <=> (q = r /\ b = f)
  BY <1>1, ChangeTouch
<1>3. 1 \in 1 .. 2 - 1 /\ 1 + 1 .. 2 - 1 = {}
  OBVIOUS
<1>4. Will(u, 2, r, f, v, x)
  BY <1>2, <1>3, WillPut
<1> QED
  BY <1>0, <1>1, <1>2, <1>4

\* What an access turns into does to a register what the access says.
LEMMA BodyWill ==
  ASSUME Wired, NEW a, Proper(a), a.op = "do", NEW ty, ty # "APPLE_MACINTOSH",
         NEW r \in Shared, NEW b, NEW u, u = Body(a.call, ty)
  PROVE  /\ Listing(u)
         /\ \A v, x : Put(a, r, b, v) => Will(u, Len(u) + 1, r, b, v, x)
         /\ ~Touch(a, r, b) => \A i \in DOMAIN u : ~Touch(u[i], r, b)
<1>0. PICK c : c = a.call
  OBVIOUS
<1>1. /\ c[1] \in Names /\ c[2] \in Drives \cup {-1} /\ r # ExtraOut
      /\ c[2] = -1 => c[1] = "track00"
  BY <1>0, SharedFields DEF Proper
<1>2. /\ c[1] = "motor" => u =
           << Change(FloppyCtrl, LineBit("motor", c[2]) :> IF c[3] = 0 THEN 0 ELSE 1) >>
      /\ c[1] = "side" => u = << Change(FloppyCtrl, 5 :> c[3]) >>
      /\ c[1] \in {"headload", "track00", "move", "eject"} => Within(u, {ExtraOut})
      /\ c[1] = "release" => Within(u, {FloppyCtrl, ExtraOut})
  BY <1>0, <1>1, CallIs
<1>3. ASSUME NEW f, NEW v, u = << Change(FloppyCtrl, f :> v) >>,
             Touch(a, r, b) <=> (r = FloppyCtrl /\ b = f),
             \A y : Put(a, r, b, y) => r = FloppyCtrl /\ b = f /\ y = v
      PROVE  /\ Listing(u)
             /\ \A y, x : Put(a, r, b, y) => Will(u, Len(u) + 1, r, b, y, x)
             /\ ~Touch(a, r, b) => \A i \in DOMAIN u : ~Touch(u[i], r, b)
  <2>1. \A x : /\ Listing(u) /\ Len(u) = 1 /\ DOMAIN u = {1} /\ Will(u, 2, FloppyCtrl, f, v, x)
               /\ \A q, e : (q # FloppyCtrl \/ e # f) => ~Touch(u[1], q, e)
    BY <1>3, OneWill
  <2>2. Len(u) = 1
    BY <1>3, Listed
  <2>3. Len(u) + 1 = 2
    BY <2>2
  <2> QED
    BY <1>3, <2>1, <2>3
<1>4. CASE c[1] = "motor"
  <2>1. /\ Touch(a, r, b) <=> (r = FloppyCtrl /\ b = LineBit("motor", c[2]))
        /\ \A y : Put(a, r, b, y) => /\ r = FloppyCtrl /\ b = LineBit("motor", c[2])
                                     /\ y = IF c[3] = 0 THEN 0 ELSE 1
    BY <1>0, <1>4 DEF Touch, Put
  <2> QED
    BY <1>2, <1>3, <1>4, <2>1
<1>5. CASE c[1] = "side"
  <2>1. /\ Touch(a, r, b) <=> (r = FloppyCtrl /\ b = 5)
        /\ \A y : Put(a, r, b, y) => r = FloppyCtrl /\ b = 5 /\ y = c[3]
    BY <1>0, <1>5 DEF Touch, Put
  <2> QED
    BY <1>2, <1>3, <1>5, <2>1
<1>6. ASSUME c[1] \notin {"motor", "side"} PROVE \A v : ~Put(a, r, b, v)
  BY <1>0, <1>6 DEF Put
<1>7. CASE c[1] \in {"headload", "track00", "move", "eject"}
  <2>1. Within(u, {ExtraOut}) /\ Listing(u)
    BY <1>2, <1>7 DEF Within
  <2>2. \A i \in DOMAIN u : ~Touch(u[i], r, b)
    BY <1>1, <2>1, WithinTouch
  <2> QED
    BY <1>6, <1>7, <2>1, <2>2
<1>8. CASE c[1] = "release"
  <2>1. Within(u, {FloppyCtrl, ExtraOut}) /\ Listing(u)
    BY <1>2, <1>8 DEF Within
  <2>2. ~Touch(a, r, b) => r \notin {FloppyCtrl, ExtraOut}
    BY <1>0, <1>1, <1>8 DEF Touch
  <2>3. ~Touch(a, r, b) => \A i \in DOMAIN u : ~Touch(u[i], r, b)
    BY <2>1, <2>2, WithinTouch
  <2> QED
    BY <1>6, <1>8, <2>1, <2>3
<1> QED
  BY <1>1, <1>4, <1>5, <1>7, <1>8 DEF Names
\* The first access of a list gives way to those it turns into, or to none.
LEMMA WillReplace ==
  ASSUME NEW s, NEW u, Listing(s), Listing(u), s # <<>>, NEW k \in 2 .. Len(s) + 1,
         NEW r, NEW b, NEW v, NEW x, NEW y, Will(s, k, r, b, v, x),
         Put(s[1], r, b, v) \/ (x = v /\ ~Touch(s[1], r, b)) => Will(u, Len(u) + 1, r, b, v, y)
  PROVE  Will(u \o Tail(s), Len(u) + (k - 1), r, b, v, y)
<1>0. PICK w : w = Tail(s)
  OBVIOUS
<1>1. Listing(w) /\ Len(s) \in Nat /\ Len(w) = Len(s) - 1 /\ Len(u) \in Nat /\ Len(w) \in Nat
  <2>1. Listing(w) /\ Len(s) \in Nat \ {0} /\ Len(w) = Len(s) - 1
    BY <1>0, Rest
  <2> QED
    BY <2>1, Joined
<1>2. k - 1 \in 1 .. Len(w) + 1
  BY <1>1
<1>3. ASSUME Sure(w, k - 1, r, b, v) PROVE Will(u \o w, Len(u) + (k - 1), r, b, v, y)
  <2>1. \A i \in 1 .. Len(w) : (u \o w)[Len(u) + i] = w[i]
    BY <1>1, Joined
  <2>2. Sure(u \o w, Len(u) + (k - 1), r, b, v)
    BY <1>1, <1>2, <1>3, <2>1, SureParts
  <2> QED
    BY <2>2 DEF Will
<1>4. \/ Sure(w, k - 1, r, b, v)
      \/ /\ Put(s[1], r, b, v) \/ (x = v /\ ~Touch(s[1], r, b))
         /\ Will(w, k - 1, r, b, v, v)
  BY <1>0, WillHead
<1>5. ASSUME Will(u, Len(u) + 1, r, b, v, y), Will(w, k - 1, r, b, v, v)
      PROVE  Will(u \o w, Len(u) + (k - 1), r, b, v, y)
  BY <1>1, <1>2, <1>5, WillJoin
<1> QED
  BY <1>0, <1>3, <1>4, <1>5

LEMMA WillEmpty ==
  /\ \A r, b, v : Will(<<>>, 1, r, b, v, v)
  /\ \A r, b, v, x : Will(<<>>, 1, r, b, v, x) => x = v
BY DEF Will, Sure

\* Once nothing is left before it, the field holds what it was to hold.
LEMMA WillNow == \A s, r, b, v, x : Will(s, 1, r, b, v, x) <=> x = v
BY DEF Will, Sure

-----------------------------------------------------------------------------
(* What a step does to the fields                                          *)

Full == \A r \in Shared : Fields[r] \subseteq DOMAIN reg[r]

LEMMA Stored ==
  ASSUME Held, Full, NEW t \in Threads, Store(t) \/ Overwrite(t)
  PROVE  /\ Full'
         /\ \A r \in Shared : \A b \in Fields[r] :
              /\ \A v : Put(Head(todo[t]), r, b, v) => reg'[r][b] = v
              /\ ~Touch(Head(todo[t]), r, b) => reg'[r][b] = reg[r][b]
<1>0. PICK a : a = Head(todo[t])
  OBVIOUS
<1>1. DOMAIN reg = DOMAIN Fields /\ Shared \subseteq DOMAIN Fields
  BY SharedFields DEF Held, Ordered, Shape
<1>2. ASSUME NEW old, a.reg \in Shared, reg' = [reg EXCEPT ![a.reg] = a.upd @@ old],
             \/ a.op = "change" /\ old = reg[a.reg]
             \/ a.op = "write" /\ old = Reset(a.reg)
      PROVE  /\ Full'
             /\ \A r \in Shared : \A b \in Fields[r] :
                  /\ \A v : Put(a, r, b, v) => reg'[r][b] = v
                  /\ ~Touch(a, r, b) => reg'[r][b] = reg[r][b]
  <2>1. \A r \in Shared \ {a.reg} : reg'[r] = reg[r]
    BY <1>1, <1>2
  <2>2. reg'[a.reg] = a.upd @@ old
    BY <1>1, <1>2
  <2>3. \A b \in Fields[a.reg] : b \in DOMAIN old /\ (a.op = "write" => old[b] = 0)
    BY <1>2 DEF Full, Reset
  <2>4. ASSUME NEW b \in Fields[a.reg]
        PROVE  /\ b \in DOMAIN reg'[a.reg]
               /\ reg'[a.reg][b] = IF b \in DOMAIN a.upd THEN a.upd[b] ELSE old[b]
    BY <2>2, <2>3 DEF @@
  <2>5. Full'
    BY <2>1, <2>4 DEF Full
  <2>6. ASSUME NEW r \in Shared, NEW b \in Fields[r]
        PROVE  /\ \A v : Put(a, r, b, v) => reg'[r][b] = v
               /\ ~Touch(a, r, b) => reg'[r][b] = reg[r][b]
    <3>1. CASE r = a.reg
      BY <1>2, <2>3, <2>4, <3>1 DEF Put, Touch
    <3>2. CASE r # a.reg
      BY <1>2, <2>1, <3>2 DEF Put
    <3> QED
      BY <3>1, <3>2
  <2> QED
    BY <2>5, <2>6
<1>3. ASSUME a.reg \notin Shared, \E w : reg' = [reg EXCEPT ![a.reg] = w],
             a.op \in {"change", "write"}
      PROVE  /\ Full'
             /\ \A r \in Shared : \A b \in Fields[r] :
                  /\ \A v : Put(a, r, b, v) => reg'[r][b] = v
                  /\ ~Touch(a, r, b) => reg'[r][b] = reg[r][b]
  <2>1. \A r \in Shared : reg'[r] = reg[r] /\ r # a.reg
    BY <1>1, <1>3
  <2>2. \A r \in Shared : \A b, v : ~Put(a, r, b, v)
    BY <1>3, <2>1 DEF Put
  <2> QED
    BY <2>1, <2>2 DEF Full
<1>4. CASE Store(t)
  <2>1. /\ reg' = [reg EXCEPT ![a.reg] = a.upd @@ loaded[t]] /\ a.op = "change"
        /\ loaded[t] # None
    BY <1>0, <1>4 DEF Store, Next1
  <2>2. a.reg \in Shared => loaded[t] = reg[a.reg]
    BY <1>0, <2>1 DEF Held, InHand
  <2> QED
    BY <1>0, <1>2, <1>3, <2>1, <2>2
<1>5. CASE Overwrite(t)
  <2>1. reg' = [reg EXCEPT ![a.reg] = a.upd @@ Reset(a.reg)] /\ a.op = "write"
    BY <1>0, <1>5 DEF Overwrite, Next1
  <2> QED
    BY <1>0, <1>2, <1>3, <2>1
<1> QED
  BY <1>4, <1>5
LEMMA FieldsAre ==
  /\ 29 \in Fields[Control] /\ 0 .. 5 \subseteq Fields[FloppyCtrl] /\ 16 \in Fields[Polarity]
  /\ \A d \in Drives : 12 \in Fields[Config(d)] /\ Fields[Image(d)] = Tracks
<1> DEFINE a1 == Control :> (0..3 \cup {4, 15, 29})
           a2 == FloppyCtrl :> (0..5 \cup 20..23)
           a3 == ExtraOut :> 0..8
           a4 == Gpio :> 0..6
           a5 == GpioOe :> 2..5
           a6 == Mux :> {16, 24}
           a7 == Polarity :> {16}
           a8 == [r \in {Config(d) : d \in Drives} |-> {0, 4, 12, 13, 16, 20, 25, 27, 28}]
           a9 == [r \in {Image(d) : d \in Drives} |-> Tracks]
<1>1. Fields = a1 @@ a2 @@ a3 @@ a4 @@ a5 @@ a6 @@ a7 @@ a8 @@ a9
  BY DEF Fields
<1>2. /\ DOMAIN a1 = {Control} /\ DOMAIN a2 = {FloppyCtrl} /\ DOMAIN a3 = {ExtraOut}
      /\ DOMAIN a4 = {Gpio} /\ DOMAIN a5 = {GpioOe} /\ DOMAIN a6 = {Mux}
      /\ DOMAIN a7 = {Polarity} /\ DOMAIN a8 = {Config(d) : d \in Drives}
      /\ DOMAIN a9 = {Image(d) : d \in Drives}
  BY DEF :>
<1>3. /\ 29 \in a1[Control] /\ 0 .. 5 \subseteq a2[FloppyCtrl] /\ 16 \in a7[Polarity]
      /\ \A d \in Drives : 12 \in a8[Config(d)] /\ a9[Image(d)] = Tracks
  BY DEF :>
<1>4. \A f, g : /\ DOMAIN (f @@ g) = DOMAIN f \cup DOMAIN g
                /\ \A x \in DOMAIN f : (f @@ g)[x] = f[x]
                /\ \A x \in DOMAIN g \ DOMAIN f : (f @@ g)[x] = g[x]
  BY DEF @@
<1> HIDE DEF a1, a2, a3, a4, a5, a6, a7, a8, a9
<1> DEFINE b2 == a1 @@ a2
           b3 == b2 @@ a3
           b4 == b3 @@ a4
           b5 == b4 @@ a5
           b6 == b5 @@ a6
           b7 == b6 @@ a7
           b8 == b7 @@ a8
           b9 == b8 @@ a9
<1>5. Fields = b9
  BY <1>1
<1>6. /\ DOMAIN b2 = DOMAIN a1 \cup DOMAIN a2
      /\ DOMAIN b3 = DOMAIN b2 \cup DOMAIN a3
      /\ DOMAIN b4 = DOMAIN b3 \cup DOMAIN a4
      /\ DOMAIN b5 = DOMAIN b4 \cup DOMAIN a5
      /\ DOMAIN b6 = DOMAIN b5 \cup DOMAIN a6
      /\ DOMAIN b7 = DOMAIN b6 \cup DOMAIN a7
      /\ DOMAIN b8 = DOMAIN b7 \cup DOMAIN a8
  BY <1>4, Zenon
<1> HIDE DEF b2, b3, b4, b5, b6, b7, b8, b9
<1>7. /\ \A x \in DOMAIN a1 : b2[x] = a1[x]
      /\ \A x \in DOMAIN a2 \ DOMAIN a1 : b2[x] = a2[x]
      /\ \A x \in DOMAIN b2 : b9[x] = b2[x]
      /\ \A x \in DOMAIN a7 \ DOMAIN b6 : b9[x] = a7[x]
      /\ \A x \in DOMAIN a8 \ DOMAIN b7 : b9[x] = a8[x]
      /\ \A x \in DOMAIN a9 \ DOMAIN b8 : b9[x] = a9[x]
  <2>2. (\A x \in DOMAIN a1 : b2[x] = a1[x]) /\ \A x \in DOMAIN a2 \ DOMAIN a1 : b2[x] = a2[x]
    BY DEF @@, b2
  <2>3. (\A x \in DOMAIN b2 : b3[x] = b2[x]) /\ \A x \in DOMAIN a3 \ DOMAIN b2 : b3[x] = a3[x]
    BY DEF @@, b3
  <2>4. (\A x \in DOMAIN b3 : b4[x] = b3[x]) /\ \A x \in DOMAIN a4 \ DOMAIN b3 : b4[x] = a4[x]
    BY DEF @@, b4
  <2>5. (\A x \in DOMAIN b4 : b5[x] = b4[x]) /\ \A x \in DOMAIN a5 \ DOMAIN b4 : b5[x] = a5[x]
    BY DEF @@, b5
  <2>6. (\A x \in DOMAIN b5 : b6[x] = b5[x]) /\ \A x \in DOMAIN a6 \ DOMAIN b5 : b6[x] = a6[x]
    BY DEF @@, b6
  <2>7. (\A x \in DOMAIN b6 : b7[x] = b6[x]) /\ \A x \in DOMAIN a7 \ DOMAIN b6 : b7[x] = a7[x]
    BY DEF @@, b7
  <2>8. (\A x \in DOMAIN b7 : b8[x] = b7[x]) /\ \A x \in DOMAIN a8 \ DOMAIN b7 : b8[x] = a8[x]
    BY DEF @@, b8
  <2>9. (\A x \in DOMAIN b8 : b9[x] = b8[x]) /\ \A x \in DOMAIN a9 \ DOMAIN b8 : b9[x] = a9[x]
    BY DEF @@, b9
  <2>10. /\ DOMAIN b2 \subseteq DOMAIN b3 /\ DOMAIN b3 \subseteq DOMAIN b4
         /\ DOMAIN b4 \subseteq DOMAIN b5 /\ DOMAIN b5 \subseteq DOMAIN b6
         /\ DOMAIN b6 \subseteq DOMAIN b7 /\ DOMAIN b7 \subseteq DOMAIN b8
         /\ DOMAIN a7 \subseteq DOMAIN b7 /\ DOMAIN a8 \subseteq DOMAIN b8
    BY <1>6
  <2>11. \A x \in DOMAIN b8 : b9[x] = b8[x]
    BY <2>9
  <2>12. \A x \in DOMAIN b7 : b9[x] = b7[x]
    BY <2>8, <2>10, <2>11
  <2>13. \A x \in DOMAIN b6 : b9[x] = b6[x]
    BY <2>7, <2>10, <2>12
  <2>14. \A x \in DOMAIN b5 : b9[x] = b5[x]
    BY <2>6, <2>10, <2>13
  <2>15. \A x \in DOMAIN b4 : b9[x] = b4[x]
    BY <2>5, <2>10, <2>14
  <2>16. \A x \in DOMAIN b3 : b9[x] = b3[x]
    BY <2>4, <2>10, <2>15
  <2> QED
    BY <2>2, <2>3, <2>7, <2>8, <2>9, <2>10, <2>11, <2>12, <2>16
<1>8. b9[Control] = a1[Control]
  BY <1>2, <1>6, <1>7
<1>9. b9[FloppyCtrl] = a2[FloppyCtrl]
  BY <1>2, <1>6, <1>7, RegistersDiffer
<1>10. b9[Polarity] = a7[Polarity]
  <2>1. Polarity \notin DOMAIN b6 /\ Polarity \in DOMAIN b7 /\ Polarity \in DOMAIN b8
    BY <1>2, <1>6, RegistersDiffer
  <2> QED
    BY <1>2, <1>7, <2>1
<1>11. ASSUME NEW d \in Drives PROVE b9[Config(d)] = a8[Config(d)]
  <2>1. Config(d) \notin DOMAIN b7 /\ Config(d) \in DOMAIN b8 /\ Config(d) \in DOMAIN a8
    BY <1>2, <1>6, RegistersDiffer
  <2> QED
    BY <1>7, <2>1
<1>12. ASSUME NEW d \in Drives PROVE b9[Image(d)] = a9[Image(d)]
  <2>1. Image(d) \notin DOMAIN b7 /\ Image(d) \notin DOMAIN a8 /\ Image(d) \in DOMAIN a9
    BY <1>2, <1>6, RegistersDiffer
  <2>2. Image(d) \notin DOMAIN b8
    BY <1>6, <2>1
  <2> QED
    BY <1>7, <2>1, <2>2
<1> QED
  BY <1>3, <1>5, <1>8, <1>9, <1>10, <1>11, <1>12

\* The thread t replaces its first access by the accesses u.
Moves(t, a, u) ==
  /\ todo[t] # <<>> /\ a = Head(todo[t])
  /\ todo' = [todo EXCEPT ![t] = u \o Tail(todo[t])]
  /\ \/ u = <<>> /\ a.op \notin {"do", "interface"}
     \/ a.op = "do" /\ u = Body(a.call, type[Process(t)]) /\ reg' = reg
     \/ a.op = "interface" /\ u = SetInterface(InterfaceMode) /\ reg' = reg
  /\ type' = IF a.op = "type" THEN [type EXCEPT ![Process(t)] = a.call[1]] ELSE type
  /\ dumping' = IF a.op = "end" /\ t = "dump" THEN None ELSE dumping
  /\ mode' = mode

\* What the move does to the shared registers.
Writes(a) == \A r \in Shared : \A b \in Fields[r] :
  /\ a.op \in {"change", "write"} => \A v : Put(a, r, b, v) => reg'[r][b] = v
  /\ ~Touch(a, r, b) => reg'[r][b] = reg[r][b]

Rests == UNCHANGED <<reg, todo, type, mode, dumping>>

LEMMA ThreadMoves ==
  ASSUME Held, Full, NEW t \in Threads, ThreadStep(t) \/ (t = "dump" /\ EndDump)
  PROVE  /\ Full'
         /\ Rests \/ \E a, u : Moves(t, a, u) /\ Writes(a)
<1>0. PICK a : a = Head(todo[t])
  OBVIOUS
<1>1. reg' = reg => Full' /\ (a.op \notin {"change", "write"} => Writes(a))
  BY DEF Full, Writes
<1>2. todo[t] # <<>> => <<>> \o Tail(todo[t]) = Tail(todo[t])
  BY DEF Held, Ordered, Lists, Fine, Listing
<1>3. Next1(t, a.op) => todo[t] # <<>>
  BY DEF Next1
<1>4. CASE Lock(t)
  <2>1. /\ Next1(t, "lock") /\ todo' = [todo EXCEPT ![t] = Tail(todo[t])]
        /\ UNCHANGED <<reg, type, mode, dumping>>
    BY <1>4 DEF Lock, Done
  <2>2. todo[t] # <<>> /\ a.op = "lock"
    BY <1>0, <2>1 DEF Next1
  <2>3. Moves(t, a, <<>>)
    BY <1>0, <1>2, <2>1, <2>2 DEF Moves
  <2> QED
    BY <1>1, <2>1, <2>2, <2>3
<1>5. CASE Unlock(t)
  <2>1. /\ Next1(t, "unlock") /\ todo' = [todo EXCEPT ![t] = Tail(todo[t])]
        /\ UNCHANGED <<reg, type, mode, dumping>>
    BY <1>5 DEF Unlock, Done
  <2>2. todo[t] # <<>> /\ a.op = "unlock"
    BY <1>0, <2>1 DEF Next1
  <2>3. Moves(t, a, <<>>)
    BY <1>0, <1>2, <2>1, <2>2 DEF Moves
  <2> QED
    BY <1>1, <2>1, <2>2, <2>3
<1>6. CASE Load(t)
  BY <1>1, <1>6 DEF Load, Rests
<1>7. CASE Store(t) \/ Overwrite(t)
  <2>1. /\ todo[t] # <<>> /\ a.op \in {"change", "write"}
        /\ todo' = [todo EXCEPT ![t] = Tail(todo[t])]
        /\ UNCHANGED <<type, mode, dumping>>
    BY <1>0, <1>7 DEF Store, Overwrite, Done, Next1
  <2>2. Moves(t, a, <<>>)
    BY <1>0, <1>2, <2>1 DEF Moves
  <2>3. Full' /\ Writes(a)
    BY <1>0, <1>7, Stored DEF Writes
  <2> QED
    BY <2>2, <2>3
<1>8. CASE Decide(t)
  <2>1. /\ todo[t] # <<>> /\ UNCHANGED <<reg, type, mode, dumping>>
        /\ a.op \in {"do", "interface"}
        /\ \/ /\ a.op = "do"
              /\ todo' = [todo EXCEPT ![t] = Body(a.call, type[Process(t)]) \o Tail(todo[t])]
           \/ /\ a.op = "interface"
              /\ todo' = [todo EXCEPT ![t] = SetInterface(InterfaceMode) \o Tail(todo[t])]
    BY <1>0, <1>8 DEF Decide, Next1, Becomes
  <2>2. \E u : Moves(t, a, u)
    BY <1>0, <2>1 DEF Moves
  <2> QED
    BY <1>1, <2>1, <2>2
<1>9. CASE SetType(t)
  <2>1. /\ Next1(t, "type") /\ todo' = [todo EXCEPT ![t] = Tail(todo[t])]
        /\ UNCHANGED <<reg, mode, dumping>>
        /\ type' = [type EXCEPT ![Process(t)] = a.call[1]]
    BY <1>0, <1>9 DEF SetType, Done
  <2>2. todo[t] # <<>> /\ a.op = "type"
    BY <1>0, <2>1 DEF Next1
  <2>3. Moves(t, a, <<>>)
    BY <1>0, <1>2, <2>1, <2>2 DEF Moves
  <2> QED
    BY <1>1, <2>1, <2>2, <2>3
<1>10. CASE t = "dump" /\ EndDump
  <2>1. /\ Next1(t, "end") /\ todo' = [todo EXCEPT ![t] = Tail(todo[t])]
        /\ UNCHANGED <<reg, mode, type>> /\ dumping' = None
    BY <1>10 DEF EndDump, Done
  <2>2. todo[t] # <<>> /\ a.op = "end"
    BY <1>0, <2>1 DEF Next1
  <2>3. Moves(t, a, <<>>)
    BY <1>0, <1>2, <1>10, <2>1, <2>2 DEF Moves
  <2> QED
    BY <1>1, <2>1, <2>2, <2>3
<1> QED
  BY <1>4, <1>5, <1>6, <1>7, <1>8, <1>9, <1>10 DEF ThreadStep
LEMMA MoveBody ==
  ASSUME Wired, Held, NEW t \in Threads, NEW a, NEW u, Moves(t, a, u)
  PROVE  /\ Listing(todo[t]) /\ 1 \in DOMAIN todo[t] /\ a = todo[t][1] /\ Proper(a)
         /\ Listing(u) /\ (a.op # "interface" => Within(u, {FloppyCtrl, ExtraOut}))
<1>1. todo[t] # <<>> /\ a = Head(todo[t]) /\ Fine(todo[t])
  BY DEF Moves, Held, Ordered, Lists
<1>2. Listing(todo[t]) /\ 1 \in DOMAIN todo[t] /\ a = todo[t][1] /\ Proper(a)
  BY <1>1, RestEach DEF Fine
<1>3. CASE u = <<>>
  BY <1>2, <1>3, ChangesJoin DEF Changes, Within
<1>4. CASE a.op = "do" /\ u = Body(a.call, type[Process(t)])
  <2>1. Fine(u)
    BY <1>2, <1>4, BodyReach
  <2>2. Within(u, {FloppyCtrl, ExtraOut})
    <3>1. CASE Outer(a)
      BY <1>2, <1>4, <3>1, BodyReach
    <3>2. CASE ~Outer(a)
      <4>1. Changes(u, {FloppyCtrl, ExtraOut})
        BY <1>2, <1>4, <3>2, BodyReach
      <4> QED
        BY <4>1 DEF Changes, Within
    <3> QED
      BY <3>1, <3>2
  <2> QED
    BY <1>2, <2>1, <2>2 DEF Fine
<1>5. CASE a.op = "interface" /\ u = SetInterface(InterfaceMode)
  <2>1. Tidy(SetInterface(InterfaceMode))
    BY InterfaceIs
  <2> QED
    BY <1>2, <1>5, <2>1 DEF Tidy
<1> QED
  BY <1>3, <1>4, <1>5 DEF Moves

LEMMA MoveList ==
  ASSUME Held, NEW t \in Threads, NEW a, NEW u, Moves(t, a, u), Listing(u)
  PROVE  /\ todo'[t] = u \o Tail(todo[t]) /\ \A o \in Threads : o # t => todo'[o] = todo[o]
         /\ Len(u) \in Nat /\ Len(todo[t]) \in Nat /\ DOMAIN todo[t] = 1 .. Len(todo[t])
         /\ DOMAIN u = 1 .. Len(u)
         /\ \A k \in DOMAIN todo'[t] :
              \/ k \in DOMAIN u /\ todo'[t][k] = u[k]
              \/ \E i \in 2 .. Len(todo[t]) :
                   k = Len(u) + (i - 1) /\ todo'[t][k] = todo[t][i]
         /\ \A i \in 2 .. Len(todo[t]) : /\ Len(u) + (i - 1) \in DOMAIN todo'[t]
                                         /\ todo'[t][Len(u) + (i - 1)] = todo[t][i]
<1>0. PICK s : s = todo[t]
  OBVIOUS
<1>00. PICK w : w = Tail(s)
  OBVIOUS
<1>1. s # <<>> /\ Listing(s) /\ DOMAIN todo = Threads
  BY <1>0 DEF Moves, Held, Ordered, Lists, Fine, Shape
<1>2. /\ Listing(w) /\ Len(s) \in Nat \ {0} /\ Len(w) = Len(s) - 1 /\ DOMAIN s = 1 .. Len(s)
      /\ \A i \in 1 .. Len(s) - 1 : w[i] = s[i + 1]
  BY <1>00, <1>1, Rest
<1>3. todo'[t] = u \o w /\ \A o \in Threads : o # t => todo'[o] = todo[o]
  BY <1>0, <1>00, <1>1 DEF Moves
<1>4. /\ Len(u) \in Nat /\ Len(w) \in Nat /\ DOMAIN u = 1 .. Len(u)
      /\ DOMAIN (u \o w) = 1 .. Len(u) + Len(w)
      /\ \A i \in 1 .. Len(u) : (u \o w)[i] = u[i]
      /\ \A i \in 1 .. Len(w) : (u \o w)[Len(u) + i] = w[i]
  BY <1>2, Joined
<1>5. PICK z : z = u \o w
  OBVIOUS
<1>6. ASSUME NEW i \in 2 .. Len(s)
      PROVE  Len(u) + (i - 1) \in DOMAIN z /\ z[Len(u) + (i - 1)] = s[i]
  <2>1. i - 1 \in 1 .. Len(w) /\ i - 1 \in 1 .. Len(s) - 1 /\ i - 1 + 1 = i
    BY <1>2
  <2>2. Len(u) + (i - 1) \in 1 .. Len(u) + Len(w)
    BY <1>2, <1>4
  <2> QED
    BY <1>2, <1>4, <1>5, <2>1, <2>2
<1>7. ASSUME NEW k \in DOMAIN z, k \notin DOMAIN u
      PROVE  \E i \in 2 .. Len(s) : k = Len(u) + (i - 1) /\ z[k] = s[i]
  <2>1. PICK i : i = k - Len(u) + 1
    OBVIOUS
  <2>2. k \in 1 .. Len(u) + Len(w) /\ k \notin 1 .. Len(u)
    BY <1>4, <1>5, <1>7
  <2>3. i \in 2 .. Len(s) /\ k = Len(u) + (i - 1)
    BY <1>2, <1>4, <2>1, <2>2
  <2> QED
    BY <1>6, <2>3
<1>8. \A k \in DOMAIN u : z[k] = u[k]
  BY <1>4, <1>5
<1> QED
  BY <1>0, <1>00, <1>2, <1>3, <1>4, <1>5, <1>6, <1>7, <1>8

\* A field that will hold a value at an access will still do after a step.
LEMMA WillMoves ==
  ASSUME Wired, Held, NEW t \in Threads, NEW a, NEW u, Moves(t, a, u), Writes(a),
         a.op # "interface", type[Process(t)] # "APPLE_MACINTOSH",
         NEW r \in Shared, NEW b \in Fields[r], NEW v, NEW k \in 2 .. Len(todo[t]) + 1,
         Will(todo[t], k, r, b, v, reg[r][b])
  PROVE  Will(todo'[t], Len(u) + (k - 1), r, b, v, reg'[r][b])
<1>0. PICK s, x, y : s = todo[t] /\ x = reg[r][b] /\ y = reg'[r][b]
  OBVIOUS
<1>1. /\ Listing(s) /\ s # <<>> /\ a = s[1] /\ Proper(a) /\ Listing(u)
      /\ todo'[t] = u \o Tail(s)
  <2>1. /\ Listing(todo[t]) /\ 1 \in DOMAIN todo[t] /\ a = todo[t][1] /\ Proper(a)
        /\ Listing(u)
    BY MoveBody
  <2>2. todo'[t] = u \o Tail(todo[t])
    BY <2>1, MoveList
  <2> QED
    BY <1>0, <2>1, <2>2 DEF Moves
<1>2. ASSUME Put(a, r, b, v) \/ (x = v /\ ~Touch(a, r, b))
      PROVE  Will(u, Len(u) + 1, r, b, v, y)
  <2>1. CASE u = <<>> /\ a.op \notin {"do", "interface"}
    <3>1. Put(a, r, b, v) => a.op \in {"change", "write"}
      BY <2>1 DEF Put
    <3>2. y = v
      BY <1>0, <1>2, <3>1 DEF Writes
    <3>3. Len(u) + 1 = 1
      BY <2>1, Listed
    <3> QED
      BY <3>2, <3>3, WillNow
  <2>2. CASE a.op = "do" /\ u = Body(a.call, type[Process(t)]) /\ reg' = reg
    <3>0. PICK ty : ty = type[Process(t)]
      OBVIOUS
    <3>4. ty # "APPLE_MACINTOSH" /\ u = Body(a.call, ty)
      BY <2>2, <3>0
    <3>5. /\ \A f, x1 : Put(a, r, b, f) => Will(u, Len(u) + 1, r, b, f, x1)
          /\ ~Touch(a, r, b) => \A i \in DOMAIN u : ~Touch(u[i], r, b)
      BY <1>1, <2>2, <3>4, BodyWill
    <3>1. /\ Put(a, r, b, v) => Will(u, Len(u) + 1, r, b, v, y)
          /\ ~Touch(a, r, b) => \A i \in DOMAIN u : ~Touch(u[i], r, b)
      BY <3>5
    <3>2. ASSUME x = v, ~Touch(a, r, b) PROVE Will(u, Len(u) + 1, r, b, v, y)
      <4>1. y = v
        BY <1>0, <2>2, <3>2
      <4>2. Len(u) \in Nat /\ DOMAIN u = 1 .. Len(u)
        BY <1>1, Joined
      <4>3. \A j \in 1 .. Len(u) + 1 - 1 : ~Touch(u[j], r, b)
        BY <3>1, <3>2, <4>2
      <4> QED
        BY <4>1, <4>3 DEF Will
    <3> QED
      BY <1>2, <3>1, <3>2
  <2> QED
    BY <2>1, <2>2 DEF Moves
<1> QED
  BY <1>0, <1>1, <1>2, WillReplace
-----------------------------------------------------------------------------
(* The interface: what the FPGA has of it, and the program                  *)

\* An access with no part in the interface.
Neutral(a) ==
  /\ a.op \notin {"interface", "type"}
  /\ a.op \in {"change", "write"} =>
       a.reg # Polarity /\ (a.reg = Control => a.op = "change" /\ 29 \notin DOMAIN a.upd)

NeutralList(s) == Listing(s) /\ \A i \in DOMAIN s : Neutral(s[i])

LEMMA NeutralJoin ==
  /\ NeutralList(<<>>)
  /\ \A a : Neutral(a) => NeutralList(<<a>>)
  /\ \A s, u : NeutralList(s) /\ NeutralList(u) => NeutralList(s \o u)
  /\ \A s : MeekList(s) \/ Good(s) => NeutralList(s)
  /\ \A s : Within(s, {FloppyCtrl, ExtraOut}) => NeutralList(s)
<1>1. NeutralList(<<>>) /\ \A a : Neutral(a) => NeutralList(<<a>>)
  BY Listed DEF NeutralList
<1>2. ASSUME NEW s, NEW u, NeutralList(s), NeutralList(u) PROVE NeutralList(s \o u)
  <2>1. Listing(s) /\ Listing(u)
    BY <1>2 DEF NeutralList
  <2>2. Listing(s \o u)
    BY <2>1, JoinEach
  <2>3. \A k \in DOMAIN (s \o u) : \/ \E i \in DOMAIN s : (s \o u)[k] = s[i]
                                   \/ \E i \in DOMAIN u : (s \o u)[k] = u[i]
    BY <2>1, JoinEach
  <2> QED
    BY <1>2, <2>2, <2>3 DEF NeutralList
<1>3. \A s : MeekList(s) \/ Good(s) => NeutralList(s)
  <2>1. \A a : Meek(a) => Neutral(a)
    BY DEF Meek, Neutral
  <2> QED
    BY <2>1 DEF MeekList, Good, NeutralList
<1>4. \A s : Within(s, {FloppyCtrl, ExtraOut}) => NeutralList(s)
  BY RegistersDiffer DEF Within, NeutralList, Neutral
<1> QED
  BY <1>1, <1>2, <1>3, <1>4

LEMMA NeutralChanges ==
  ASSUME NEW s, NEW R, Changes(s, R), Control \notin R, Polarity \notin R
  PROVE  NeutralList(s)
BY DEF Changes, NeutralList, Neutral

LEMMA PinChanges ==
  \A name \in {"PIN6", "PIN10", "PIN12", "PIN14", "PIN16"} : \A v :
    Changes(SetIo(name, v), {FloppyCtrl})
<1> SUFFICES ASSUME NEW name \in {"PIN6", "PIN10", "PIN12", "PIN14", "PIN16"}, NEW v
             PROVE  Changes(SetIo(name, v), {FloppyCtrl})
  OBVIOUS
<1>1. \A p \in Pin(name) : p[2] \in {FloppyCtrl}
  BY SelectPins
<1> QED
  BY <1>1, SetIoChanges

LEMMA AutodetectNeutral == NeutralList(Autodetect)
<1> DEFINE off(p)  == SetIo(p, 0)
           test(p) == SetIo(p, 1) \o AtTrack00(-1) \o off(p)
           all     == off("PIN10") \o off("PIN12") \o off("PIN14") \o off("PIN6") \o
                      off("PIN16")
           five    == {"PIN6", "PIN10", "PIN12", "PIN14", "PIN16"}
<1>1. Autodetect = all \o test("PIN10") \o test("PIN12") \o test("PIN14") \o test("PIN6") \o
                   test("PIN16") \o all
  BY DEF Autodetect
<1>2. \A p \in five : \A v : NeutralList(SetIo(p, v))
  BY PinChanges, NeutralChanges, RegistersDiffer
<1>3. NeutralList(AtTrack00(-1))
  <2>1. Neutral(Asking)
    BY AskingIs DEF Neutral
  <2> QED
    BY <2>1, AskingIs, NeutralJoin
<1>4. \A p \in five : NeutralList(off(p)) /\ NeutralList(test(p))
  BY <1>2, <1>3, NeutralJoin
<1> HIDE DEF off, test
<1>5. NeutralList(all)
  BY <1>4, NeutralJoin
<1> HIDE DEF all
<1> QED
  BY <1>1, <1>4, <1>5, NeutralJoin

LEMMA LoadNeutral ==
  ASSUME NEW d, NEW f \in Files, NEW h, NEW e
  PROVE  NeutralList(LoadStreamHfe(d, f, h, e))
<1> DEFINE clear == << Write(Image(d), None) >>
           fill == clear \o Filling(d, f)
           disk == Change(Config(d), 12 :> 1)
           step == Change(Config(d), 25 :> e)
           end  == IF f.read < f.tracks THEN <<>> ELSE <<disk, step>>
<1>1. LoadStreamHfe(d, f, h, e) = IF ~f.sound THEN <<>> ELSE (IndexCfg(d, h, 0) \o fill) \o end
  BY LoadIs
<1>2. NeutralList(IndexCfg(d, h, 0))
  BY FieldsGood, NeutralJoin
<1>3. NeutralList(clear)
  <2>1. Neutral(Write(Image(d), None))
    BY AccessIs, RegistersDiffer DEF Neutral, Write
  <2> QED
    BY <2>1, NeutralJoin
<1>4. NeutralList(Filling(d, f))
  BY FillingIs, RegistersDiffer DEF NeutralList, Neutral
<1>5. NeutralList(end)
  <2>1. Neutral(disk) /\ Neutral(step)
    BY ChangeIs, RegistersDiffer DEF Neutral
  <2>2. <<disk, step>> = <<disk>> \o <<step>>
    BY Pair
  <2> HIDE DEF disk, step
  <2>3. NeutralList(<<disk, step>>)
    BY <2>1, <2>2, NeutralJoin
  <2> QED
    BY <2>3, NeutralJoin
<1> HIDE DEF clear, end
<1> QED
  BY <1>1, <1>2, <1>3, <1>4, <1>5, NeutralJoin

\* What a shell runs, in its parts.
LEMMA ToolParts ==
  ASSUME Wired, Commands, NEW m \in Modes, NEW c \in Calls["tool"][m]
  PROVE  \E p, q, r, l, a :
           /\ Good(p) /\ Good(q) /\ Good(r) /\ Listing(l) /\ a \in {<<>>, Autodetect}
           /\ \/ l = <<>>
              \/ /\ "load" \in DOMAIN c[3] /\ c[3]["load"] \in Files
                 /\ \E h, e : l = LoadStreamHfe(c[2], c[3]["load"], h, e)
           /\ c[1] = "pauline" /\ c[2] \in Drives
           /\ Program(c) = (((p \o l) \o q) \o a) \o r
<1>1. /\ c[1] = "pauline" /\ c[2] \in Drives /\ "reset" \notin DOMAIN c[3]
      /\ "load" \in DOMAIN c[3] => c[3]["load"] \in Files
  BY DEF Commands
<1>2. Program(c) = Invocation(c[2], c[3])
  BY <1>1 DEF Program
<1>3. PICK p, q, r, l, a :
        /\ Good(p) /\ Good(q) /\ Good(r)
        /\ \/ l = <<>>
           \/ /\ "load" \in DOMAIN c[3]
              /\ \E h, e : l = LoadStreamHfe(c[2], c[3]["load"], h, e)
        /\ a \in {<<>>, Autodetect}
        /\ Listing(l) /\ Listing(a) => Invocation(c[2], c[3]) = (((p \o l) \o q) \o a) \o r
  BY <1>1, InvocationIs
<1>4. Fine(l)
  BY <1>1, <1>3, LoadFine, FineJoin
<1>5. Fine(a)
  BY <1>3, AutodetectFine, FineJoin
<1>6. Program(c) = (((p \o l) \o q) \o a) \o r
  BY <1>2, <1>3, <1>4, <1>5 DEF Fine
<1>7. Listing(l)
  BY <1>4 DEF Fine
<1>8. \/ l = <<>>
      \/ /\ "load" \in DOMAIN c[3] /\ c[3]["load"] \in Files
         /\ \E h, e : l = LoadStreamHfe(c[2], c[3]["load"], h, e)
  BY <1>1, <1>3
<1> QED
  BY <1>1, <1>3, <1>6, <1>7, <1>8

LEMMA ToolNeutral ==
  ASSUME Wired, Commands, NEW m \in Modes, NEW c \in Calls["tool"][m]
  PROVE  NeutralList(Program(c))
<1>1. PICK p, q, r, l, a :
        /\ Good(p) /\ Good(q) /\ Good(r) /\ Listing(l) /\ a \in {<<>>, Autodetect}
        /\ \/ l = <<>>
           \/ /\ "load" \in DOMAIN c[3] /\ c[3]["load"] \in Files
              /\ \E h, e : l = LoadStreamHfe(c[2], c[3]["load"], h, e)
        /\ c[1] = "pauline" /\ c[2] \in Drives
        /\ Program(c) = (((p \o l) \o q) \o a) \o r
  BY ToolParts
<1>2. NeutralList(p) /\ NeutralList(q) /\ NeutralList(r)
  BY <1>1, NeutralJoin
<1>3. NeutralList(l) /\ NeutralList(a)
  BY <1>1, LoadNeutral, AutodetectNeutral, NeutralJoin
<1> QED
  BY <1>1, <1>2, <1>3, NeutralJoin
Agreed(p, c, ty) == (c = 1 <=> ty = "APPLE_II") /\ (p = 1 <=> ty # "GENERIC")

Inverted(m) == IF m = "GENERIC" THEN 0 ELSE 1
Switch(m)   == IF m = "APPLE_II" THEN 1 ELSE 0

\* The interface is still to be chosen; or it is, and the polarities p, the
\* switch c and the type follow one by one.
Choosing(s) == \E k \in DOMAIN s :
  /\ s[k].op = "interface" /\ \A i \in DOMAIN s : i > k => Neutral(s[i])
  /\ \A i \in DOMAIN s : i < k => s[i].op \in {"lock", "unlock", "change", "write"}

Inverts(a, m)  == /\ a.op = "write" /\ a.reg = Polarity
                  /\ 16 \in DOMAIN a.upd /\ a.upd[16] = Inverted(m)
Switches(a, m) == /\ a.op = "change" /\ a.reg = Control
                  /\ 29 \in DOMAIN a.upd /\ a.upd[29] = Switch(m)

Chosen(s, k, m, p, c) ==
  /\ k \in DOMAIN s /\ s[k].op = "type" /\ s[k].call = <<m>>
  /\ \A i \in DOMAIN s : i > k => Neutral(s[i])
  /\ IF k = 3 THEN Inverts(s[1], m) ELSE p = Inverted(m)
  /\ IF k = 1 THEN c = Switch(m) ELSE Switches(s[k - 1], m)

Facing(s, p, c, ty) ==
  /\ Listing(s)
  /\ \/ NeutralList(s) /\ Agreed(p, c, ty)
     \/ Choosing(s)
     \/ \E k \in 1 .. 3 : \E m : Chosen(s, k, m, p, c)

Interfaces ==
  /\ type["tool"] = "GENERIC" /\ \A t \in {"dump", "tool"} : NeutralList(todo[t])
  /\ Facing(todo["script"], reg[Polarity][16], reg[Control][29], type["server"])

\* All the threads' lists can keep of the interface.
Stays == Held /\ Full /\ Interfaces

LEMMA NeutralKeeps ==
  ASSUME NEW a, Neutral(a), Writes(a)
  PROVE  reg'[Control][29] = reg[Control][29] /\ reg'[Polarity][16] = reg[Polarity][16]
<1>1. Control \in Shared /\ Polarity \in Shared
  BY DEF Shared
<1>2. ~Touch(a, Control, 29) /\ ~Touch(a, Polarity, 16)
  BY RegistersDiffer DEF Neutral, Touch
<1> QED
  BY <1>1, <1>2, FieldsAre DEF Writes

\* A list whose accesses from the first one on are neutral stays so.
LEMMA NeutralMoves ==
  ASSUME Wired, Held, NEW t \in Threads, NEW a, NEW u, Moves(t, a, u), NeutralList(todo[t])
  PROVE  NeutralList(todo'[t]) /\ Neutral(a)
<1>1. /\ Listing(todo[t]) /\ 1 \in DOMAIN todo[t] /\ a = todo[t][1]
      /\ Listing(u) /\ (a.op # "interface" => Within(u, {FloppyCtrl, ExtraOut}))
  BY MoveBody
<1>2. Neutral(a)
  BY <1>1 DEF NeutralList
<1>3. NeutralList(u)
  BY <1>1, <1>2, NeutralJoin DEF Neutral
<1>4. NeutralList(Tail(todo[t]))
  <2>1. todo[t] # <<>>
    BY DEF Moves
  <2> QED
    BY <1>1, <2>1, RestEach DEF NeutralList
<1>5. todo'[t] = u \o Tail(todo[t])
  BY <1>1, MoveList
<1> QED
  BY <1>2, <1>3, <1>4, <1>5, NeutralJoin

LEMMA ResetFacing ==
  /\ Choosing(ResetFpga) /\ Listing(ResetFpga)
  /\ \A i \in DOMAIN ResetFpga : Tame(ResetFpga[i])
<1>1. PICK x : Mild(x) /\ ResetFpga = x \o << Interface, Write(Mux, None) >>
  BY ResetIs
<1> DEFINE y == << Interface, Write(Mux, None) >>
<1>2. Len(y) = 2 /\ Listing(y) /\ y[1] = Interface /\ y[2] = Write(Mux, None)
  <2>1. y \in Seq({Interface, Write(Mux, None)})
    OBVIOUS
  <2> QED
    BY <2>1 DEF Listing
<1>3. Interface.op = "interface" /\ Neutral(Write(Mux, None)) /\ Tame(Interface)
      /\ Tame(Write(Mux, None))
  BY AccessIs, RegistersDiffer DEF Interface, Neutral, Write, Tame, Drawn, Raises
<1> HIDE DEF y
<1>4. /\ Listing(x) /\ \A i \in DOMAIN x : Tame(x[i])
      /\ \A i \in DOMAIN x : x[i].op \in {"lock", "unlock", "change", "write"}
  BY <1>1 DEF Mild, Tidy
<1>5. PICK z : z = x \o y
  OBVIOUS
<1>6. /\ Listing(z) /\ Len(x) \in Nat /\ DOMAIN x = 1 .. Len(x)
      /\ DOMAIN z = 1 .. Len(x) + 2
      /\ \A i \in 1 .. Len(x) : z[i] = x[i]
      /\ \A i \in 1 .. 2 : z[Len(x) + i] = y[i]
  <2>0. Listing(x) /\ Listing(y)
    BY <1>2, <1>4
  <2>1. /\ Listing(x \o y) /\ Len(x) \in Nat /\ DOMAIN x = 1 .. Len(x)
        /\ DOMAIN (x \o y) = 1 .. Len(x) + Len(y)
        /\ \A i \in 1 .. Len(x) : (x \o y)[i] = x[i]
        /\ \A i \in 1 .. Len(y) : (x \o y)[Len(x) + i] = y[i]
    BY <2>0, Joined
  <2> QED
    BY <1>2, <1>5, <2>1
<1>7. PICK k : k = Len(x) + 1
  OBVIOUS
<1>8. k \in DOMAIN z /\ z[k].op = "interface"
  BY <1>2, <1>3, <1>6, <1>7
<1>9. \A i \in DOMAIN z : i > k => i = Len(x) + 2
  BY <1>6, <1>7
<1>10. z[Len(x) + 2] = Write(Mux, None)
  BY <1>2, <1>6
<1>11. \A i \in DOMAIN z : i < k => i \in DOMAIN x /\ z[i] = x[i]
  BY <1>6, <1>7
<1>12. Choosing(z)
  BY <1>3, <1>4, <1>8, <1>9, <1>10, <1>11 DEF Choosing
<1>13. \A i \in DOMAIN z : i = k \/ i > k \/ i < k
  BY <1>6, <1>7
<1>14. z[k] = Interface
  BY <1>2, <1>6, <1>7
<1>15. \A i \in DOMAIN z : Tame(z[i])
  BY <1>3, <1>4, <1>9, <1>10, <1>11, <1>13, <1>14
<1> QED
  BY <1>1, <1>5, <1>6, <1>12, <1>15 DEF y

\* The first access of a list is done: the others move up by one.
LEMMA MoveUp ==
  ASSUME NEW s, Listing(s), s # <<>>, NEW z, z = Tail(s)
  PROVE  /\ Listing(z) /\ DOMAIN s = 1 .. Len(s) /\ Len(s) \in Nat \ {0}
         /\ DOMAIN z = 1 .. Len(s) - 1 /\ Len(z) = Len(s) - 1
         /\ \A i \in DOMAIN z : i \in Int /\ i + 1 \in DOMAIN s /\ z[i] = s[i + 1]
         /\ \A i \in DOMAIN s : i \in Int /\ (i > 1 => i - 1 \in DOMAIN z /\ z[i - 1] = s[i])
<1>1. /\ Listing(z) /\ DOMAIN s = 1 .. Len(s) /\ Len(s) \in Nat \ {0}
      /\ Len(z) = Len(s) - 1 /\ \A i \in 1 .. Len(s) - 1 : z[i] = s[i + 1]
  BY Rest
<1>2. DOMAIN z = 1 .. Len(s) - 1
  BY <1>1 DEF Listing
<1>3. ASSUME NEW i \in DOMAIN s, i > 1
      PROVE  i - 1 \in DOMAIN z /\ z[i - 1] = s[i]
  <2>1. i - 1 \in 1 .. Len(s) - 1 /\ i - 1 + 1 = i
    BY <1>1, <1>3
  <2> QED
    BY <1>1, <1>2, <2>1
<1>4. ASSUME NEW i \in DOMAIN z PROVE i \in Int /\ i + 1 \in DOMAIN s /\ z[i] = s[i + 1]
  BY <1>1, <1>2
<1>5. \A i \in DOMAIN s : i \in Int
  BY <1>1
<1> QED
  BY <1>1, <1>2, <1>3, <1>4, <1>5

\* One access of the script while the interface is chosen or set.
LEMMA FacingMoves ==
  ASSUME Wired, Held, NEW a, NEW u, Moves("script", a, u), Writes(a),
         Facing(todo["script"], reg[Polarity][16], reg[Control][29], type["server"])
  PROVE  Facing(todo'["script"], reg'[Polarity][16], reg'[Control][29], type'["server"])
<1>0. PICK s, z, p, c, ty :
        /\ s = todo["script"] /\ z = todo'["script"] /\ p = reg[Polarity][16]
        /\ c = reg[Control][29] /\ ty = type["server"]
  OBVIOUS
<1>00. PICK p1, c1, ty1 :
        /\ p1 = reg'[Polarity][16] /\ c1 = reg'[Control][29] /\ ty1 = type'["server"]
  OBVIOUS
<1>1. "script" \in Threads /\ Process("script") = "server" /\ DOMAIN type = {"server", "tool"}
  BY ThreadsAre DEF Held, Ordered, Shape
<1>2. Listing(s) /\ 1 \in DOMAIN s /\ a = s[1] /\ Listing(u) /\ s # <<>>
  <2>1. /\ Listing(todo["script"]) /\ 1 \in DOMAIN todo["script"] /\ a = todo["script"][1]
        /\ Listing(u)
    BY <1>1, MoveBody
  <2> QED
    BY <1>0, <2>1 DEF Moves
<1>3. z = u \o Tail(s) /\ Listing(z)
  <2>1. z = u \o Tail(s)
    BY <1>0, <1>1, <1>2, MoveList
  <2> QED
    BY <1>2, <2>1, RestEach, JoinEach
<1>4. ty1 = IF a.op = "type" THEN a.call[1] ELSE ty
  BY <1>0, <1>00, <1>1 DEF Moves
<1>5. Facing(s, p, c, ty)
  BY <1>0
<1>6. a.op \notin {"do", "interface"} => z = Tail(s)
  <2>1. a.op \notin {"do", "interface"} => u = <<>>
    BY DEF Moves
  <2>2. Listing(Tail(s)) => <<>> \o Tail(s) = Tail(s)
    BY DEF Listing
  <2> QED
    BY <1>2, <1>3, <2>1, <2>2, RestEach
<1>7. Control \in Shared /\ Polarity \in Shared /\ Control # Polarity
  BY RegistersDiffer DEF Shared
<1>8. /\ ~Touch(a, Control, 29) => c1 = c
      /\ ~Touch(a, Polarity, 16) => p1 = p
      /\ \A v : a.op \in {"change", "write"} /\ Put(a, Control, 29, v) => c1 = v
      /\ \A v : a.op \in {"change", "write"} /\ Put(a, Polarity, 16, v) => p1 = v
  BY <1>0, <1>00, <1>7, FieldsAre DEF Writes
<1>9. ASSUME z = Tail(s)
      PROVE  /\ \A i \in DOMAIN z : i \in Int /\ i + 1 \in DOMAIN s /\ z[i] = s[i + 1]
             /\ \A i \in DOMAIN s : i \in Int /\ (i > 1 => i - 1 \in DOMAIN z /\ z[i - 1] = s[i])
  BY <1>2, <1>9, MoveUp
<1>10. CASE NeutralList(s) /\ Agreed(p, c, ty)
  <2>1. NeutralList(z) /\ Neutral(a)
    BY <1>0, <1>1, <1>10, NeutralMoves
  <2>2. c1 = c /\ p1 = p
    BY <1>0, <1>00, <2>1, NeutralKeeps
  <2>3. ty1 = ty
    BY <1>4, <2>1 DEF Neutral
  <2> QED
    BY <1>0, <1>00, <1>3, <1>10, <2>1, <2>2, <2>3 DEF Facing
<1>11. CASE Choosing(s)
  <2>1. PICK k \in DOMAIN s :
          /\ s[k].op = "interface" /\ \A i \in DOMAIN s : i > k => Neutral(s[i])
          /\ \A i \in DOMAIN s : i < k => s[i].op \in {"lock", "unlock", "change", "write"}
    BY <1>11 DEF Choosing
  <2>2. \A i \in DOMAIN s : i \in Int /\ (i = 1 \/ i > 1)
    <3>1. DOMAIN s = 1 .. Len(s) /\ Len(s) \in Nat
      BY <1>2, MoveUp
    <3> QED
      BY <3>1
  <2>3. CASE k = 1
    <3>0. PICK m : m = InterfaceMode
      OBVIOUS
    <3>1. u = SetInterface(m)
      BY <1>2, <2>1, <2>3, <3>0 DEF Moves
    <3>2. /\ Len(u) = 3 /\ u[1] = Write(Polarity, 16 :> IF m = "GENERIC" THEN 0 ELSE 1)
          /\ u[2] = Change(Control, 29 :> IF m = "APPLE_II" THEN 1 ELSE 0)
          /\ u[3] = Access("type", Control, None, <<m>>)
      BY <3>1, InterfaceIs
    <3>3. /\ u[1].op = "write" /\ u[1].reg = Polarity /\ u[1].upd = (16 :> Inverted(m))
          /\ u[2].op = "change" /\ u[2].reg = Control /\ u[2].upd = (29 :> Switch(m))
          /\ u[3].op = "type" /\ u[3].call = <<m>>
      BY <3>2, AccessIs, ChangeIs DEF Write, Inverted, Switch
    <3>4. Inverts(u[1], m) /\ Switches(u[2], m)
      BY <3>3 DEF Inverts, Switches, :>
    <3>5. /\ Len(Tail(s)) \in Nat /\ DOMAIN z = 1 .. 3 + Len(Tail(s))
          /\ \A i \in 1 .. 3 : z[i] = u[i]
          /\ \A i \in 1 .. Len(Tail(s)) : z[3 + i] = Tail(s)[i]
      <4>1. Listing(Tail(s))
        BY <1>2, RestEach
      <4>2. /\ Len(Tail(s)) \in Nat /\ DOMAIN (u \o Tail(s)) = 1 .. Len(u) + Len(Tail(s))
            /\ \A i \in 1 .. Len(u) : (u \o Tail(s))[i] = u[i]
            /\ \A i \in 1 .. Len(Tail(s)) : (u \o Tail(s))[Len(u) + i] = Tail(s)[i]
        BY <1>2, <4>1, Joined
      <4> QED
        BY <1>3, <3>2, <4>2
    <3>6. \A i \in DOMAIN z : i > 3 => Neutral(z[i])
      <4> SUFFICES ASSUME NEW i \in DOMAIN z, i > 3 PROVE Neutral(z[i])
        OBVIOUS
      <4>0. PICK j : j = i - 3
        OBVIOUS
      <4>1. j \in 1 .. Len(Tail(s)) /\ i = 3 + j
        BY <3>5, <4>0
      <4>2. j + 1 \in DOMAIN s /\ Tail(s)[j] = s[j + 1] /\ j + 1 > 1
        <5>1. /\ Len(s) \in Nat \ {0} /\ Len(Tail(s)) = Len(s) - 1 /\ DOMAIN s = 1 .. Len(s)
              /\ \A n \in 1 .. Len(s) - 1 : Tail(s)[n] = s[n + 1]
          BY <1>2, Rest
        <5> QED
          BY <4>1, <5>1
      <4>3. z[i] = s[j + 1]
        BY <3>5, <4>1, <4>2
      <4> QED
        BY <2>1, <2>3, <4>2, <4>3
    <3>7. 1 \in 1 .. 3 /\ 2 \in 1 .. 3 /\ 3 \in 1 .. 3 /\ 3 - 1 = 2 /\ 3 # 1
          /\ 3 \in DOMAIN z
      BY <3>5
    <3>8. z[1] = u[1] /\ z[2] = u[2] /\ z[3] = u[3]
      BY <3>5, <3>7
    <3>9. Chosen(z, 3, m, p1, c1)
      BY <3>3, <3>4, <3>6, <3>7, <3>8 DEF Chosen
    <3> QED
      BY <1>0, <1>00, <1>3, <3>7, <3>9 DEF Facing
  <2>4. CASE k # 1
    <3>1. 1 < k /\ k \in Int
      BY <2>2, <2>4
    <3>2. a.op \in {"lock", "unlock", "change", "write"}
      BY <1>2, <2>1, <3>1
    <3>4. /\ \A i \in DOMAIN z : i \in Int /\ i + 1 \in DOMAIN s /\ z[i] = s[i + 1]
          /\ \A i \in DOMAIN s : i \in Int /\ (i > 1 => i - 1 \in DOMAIN z /\ z[i - 1] = s[i])
      BY <1>6, <1>9, <3>2
    <3>5. k - 1 \in DOMAIN z /\ z[k - 1].op = "interface"
      BY <2>1, <3>1, <3>4
    <3>6. \A i \in DOMAIN z : (i > k - 1 => i + 1 > k) /\ (i < k - 1 => i + 1 < k)
      BY <3>1, <3>4
    <3>7. Choosing(z)
      BY <2>1, <3>4, <3>5, <3>6 DEF Choosing
    <3> QED
      BY <1>0, <1>3, <3>7 DEF Facing
  <2> QED
    BY <2>3, <2>4
<1>12. ASSUME NEW k \in 1 .. 3, NEW m, Chosen(s, k, m, p, c) PROVE Facing(z, p1, c1, ty1)
  <2>0. /\ k \in DOMAIN s /\ s[k].op = "type" /\ s[k].call = <<m>>
        /\ \A i \in DOMAIN s : i > k => Neutral(s[i])
        /\ IF k = 3 THEN Inverts(a, m) ELSE p = Inverted(m)
        /\ IF k = 1 THEN c = Switch(m) ELSE Switches(s[k - 1], m)
    BY <1>2, <1>12 DEF Chosen
  <2>1. CASE k = 1
    <3>1. a.op = "type" /\ a.call = <<m>>
      BY <1>2, <2>0, <2>1
    <3>2. ty1 = m
      BY <1>4, <3>1
    <3>3. c1 = c /\ p1 = p
      BY <1>8, <3>1 DEF Touch
    <3>4. Agreed(p1, c1, ty1)
      BY <2>0, <2>1, <3>2, <3>3 DEF Agreed, Inverted, Switch
    <3>5. \A i \in DOMAIN z : i \in Int /\ i + 1 \in DOMAIN s /\ z[i] = s[i + 1]
      BY <1>6, <1>9, <3>1
    <3>6. \A i \in DOMAIN z : i + 1 > 1
      <4>1. DOMAIN z = 1 .. Len(s) - 1 /\ Len(s) \in Nat
        BY <1>2, <1>6, <3>1, MoveUp
      <4> QED
        BY <4>1
    <3>7. NeutralList(z)
      BY <1>3, <2>0, <2>1, <3>5, <3>6 DEF NeutralList
    <3> QED
      BY <1>3, <3>4, <3>7 DEF Facing
  <2>2. CASE k \in {2, 3}
    <3>1. a.op \in {"change", "write"}
      <4>1. CASE k = 3
        BY <2>0, <4>1 DEF Inverts
      <4>2. CASE k = 2
        <5>1. k - 1 = 1
          BY <4>2
        <5> QED
          BY <1>2, <2>0, <4>2, <5>1 DEF Switches
      <4> QED
        BY <2>2, <4>1, <4>2
    <3>2. /\ \A i \in DOMAIN z : i \in Int /\ i + 1 \in DOMAIN s /\ z[i] = s[i + 1]
          /\ \A i \in DOMAIN s : i \in Int /\ (i > 1 => i - 1 \in DOMAIN z /\ z[i - 1] = s[i])
      BY <1>6, <1>9, <3>1
    <3>3. k - 1 \in DOMAIN z /\ z[k - 1] = s[k]
      BY <2>0, <2>2, <3>2
    <3>4. \A i \in DOMAIN z : i > k - 1 => Neutral(z[i])
      <4>1. \A i \in DOMAIN z : i > k - 1 => i + 1 > k
        BY <3>2
      <4> QED
        BY <2>0, <3>2, <4>1
    <3>5. CASE k = 3
      <4>1. Inverts(a, m) /\ Switches(s[2], m)
        <5>1. k - 1 = 2 /\ k # 1
          BY <3>5
        <5> QED
          BY <2>0, <3>5, <5>1
      <4>2. p1 = Inverted(m)
        BY <1>8, <4>1 DEF Put, Inverts
      <4>3. z[1] = s[2]
        <5>1. 2 \in DOMAIN s
          <6>1. DOMAIN s = 1 .. Len(s) /\ Len(s) \in Nat
            BY <1>2, MoveUp
          <6> QED
            BY <2>0, <3>5, <6>1
        <5>2. 2 - 1 = 1 /\ 2 > 1
          OBVIOUS
        <5> QED
          BY <3>2, <5>1, <5>2
      <4>4. k - 1 = 2 /\ 2 - 1 = 1 /\ 2 \in 1 .. 3 /\ 2 # 3 /\ 2 # 1
        BY <3>5
      <4>5. Chosen(z, 2, m, p1, c1)
        BY <2>0, <3>3, <3>4, <4>1, <4>2, <4>3, <4>4 DEF Chosen
      <4> QED
        BY <1>3, <4>4, <4>5 DEF Facing
    <3>6. CASE k = 2
      <4>1. k - 1 = 1 /\ 1 # 2 /\ 1 # 3 /\ 1 \in 1 .. 3 /\ k # 3 /\ k # 1
        BY <3>6
      <4>2. Switches(a, m) /\ p = Inverted(m)
        BY <1>2, <2>0, <4>1
      <4>3. c1 = Switch(m) /\ p1 = p
        BY <1>7, <1>8, <4>2 DEF Put, Touch, Switches
      <4>4. Chosen(z, 1, m, p1, c1)
        BY <2>0, <3>3, <3>4, <4>1, <4>2, <4>3 DEF Chosen
      <4> QED
        BY <1>3, <4>1, <4>4 DEF Facing
    <3> QED
      BY <2>2, <3>5, <3>6
  <2> QED
    BY <2>1, <2>2
<1>13. CASE \E k \in 1 .. 3 : \E m : Chosen(s, k, m, p, c)
  BY <1>0, <1>00, <1>12, <1>13
<1> QED
  BY <1>5, <1>10, <1>11, <1>13 DEF Facing

LEMMA FacingEmpty ==
  ASSUME NEW p, NEW c, NEW ty, Facing(<<>>, p, c, ty)
  PROVE  Agreed(p, c, ty)
<1>1. DOMAIN <<>> = {}
  BY Listed
<1> QED
  BY <1>1 DEF Facing, Choosing, Chosen

\* What a command of the script begins with.
LEMMA IssueFacing ==
  ASSUME Wired, Commands, NEW m \in Modes, NEW e \in Calls["script"][m],
         NEW p, NEW c, NEW ty, Facing(<<>>, p, c, ty)
  PROVE  Facing(Program(e), p, c, ty)
<1>1. CASE e[1] = "reset"
  <2>1. Program(e) = ResetFpga
    BY <1>1, ScriptIs
  <2> QED
    BY <2>1, ResetFacing DEF Facing
<1>2. CASE e[1] # "reset"
  <2>1. NeutralList(Program(e))
    BY <1>2, ScriptIs, NeutralJoin
  <2> QED
    BY <2>1, FacingEmpty DEF Facing, NeutralList
<1> QED
  BY <1>1, <1>2

\* A thread that begins a list of accesses.
LEMMA Begins ==
  ASSUME Held, NEW t \in Threads, NEW s, todo' = [todo EXCEPT ![t] = s]
  PROVE  todo'[t] = s /\ \A o \in Threads : o # t => todo'[o] = todo[o]
BY DEF Held, Ordered, Shape

LEMMA StepStays ==
  ASSUME Wired, Commands, Apart, ~Overlap, Stays, [BoardNext]_boardVars
  PROVE  Stays'
<1>0. Held /\ Full /\ Interfaces /\ Held' /\ mode \in Modes
  BY StepHeld DEF Stays, Held, Ordered, Shape
<1>1. Threads = {"script", "dump", "tool"} /\ DOMAIN type = {"server", "tool"}
  BY <1>0, ThreadsAre DEF Held, Ordered, Shape
<1>2. ASSUME UNCHANGED <<reg, todo, type>> PROVE Stays'
  BY <1>0, <1>2 DEF Stays, Full, Interfaces
<1>3. ASSUME NEW t \in {"script", "tool"}, Issue(t) PROVE Stays'
  <2>1. PICK c \in Calls[t][mode] : todo' = [todo EXCEPT ![t] = Program(c)]
    BY <1>3 DEF Issue
  <2>2. /\ todo[t] = <<>> /\ reg' = reg
        /\ type' = IF t = "tool" THEN [type EXCEPT ![t] = "GENERIC"] ELSE type
    BY <1>3 DEF Issue
  <2>3. todo'[t] = Program(c) /\ \A o \in Threads : o # t => todo'[o] = todo[o]
    BY <1>0, <1>1, <2>1, Begins
  <2>4. Full'
    BY <1>0, <2>2 DEF Full
  <2>5. CASE t = "script"
    <3>1. Facing(Program(c), reg[Polarity][16], reg[Control][29], type["server"])
      BY <1>0, <2>2, <2>5, IssueFacing DEF Interfaces
    <3>2. Interfaces'
      BY <1>0, <1>1, <2>2, <2>3, <2>5, <3>1 DEF Interfaces
    <3> QED
      BY <1>0, <2>4, <3>2 DEF Stays
  <2>6. CASE t = "tool"
    <3>1. NeutralList(Program(c))
      BY <1>0, <2>6, ToolNeutral
    <3>2. type'["tool"] = "GENERIC" /\ type'["server"] = type["server"]
      BY <1>1, <2>2, <2>6
    <3>3. Interfaces'
      BY <1>0, <1>1, <2>2, <2>3, <2>6, <3>1, <3>2 DEF Interfaces
    <3> QED
      BY <1>0, <2>4, <3>3 DEF Stays
  <2> QED
    BY <2>5, <2>6
<1>4. CASE BeginDump
  <2>1. PICK d \in Dumps[mode], s \in 0 .. 1, n \in 0 .. 1 :
          todo' = [todo EXCEPT !["dump"] = DumpProgram(d, s, n)]
    BY <1>4 DEF BeginDump
  <2>2. UNCHANGED <<reg, type>>
    BY <1>4 DEF BeginDump
  <2>3. todo'["dump"] = DumpProgram(d, s, n) /\ \A o \in Threads : o # "dump" => todo'[o] = todo[o]
    BY <1>0, <1>1, <2>1, Begins
  <2>4. NeutralList(DumpProgram(d, s, n))
    <3>1. d \in Drives
      BY <1>0, BoardAssumption
    <3> QED
      BY <3>1, DumpGood, NeutralJoin
  <2>5. Full'
    BY <1>0, <2>2 DEF Full
  <2>6. Interfaces'
    BY <1>0, <1>1, <2>2, <2>3, <2>4 DEF Interfaces
  <2> QED
    BY <1>0, <2>5, <2>6 DEF Stays
<1>5. ASSUME NEW t \in Threads, ThreadStep(t) \/ (t = "dump" /\ EndDump) PROVE Stays'
  <2>1. Full' /\ (Rests \/ \E a, u : Moves(t, a, u) /\ Writes(a))
    BY <1>0, <1>5, ThreadMoves
  <2>2. CASE Rests
    BY <1>2, <2>2 DEF Rests
  <2>3. ASSUME NEW a, NEW u, Moves(t, a, u), Writes(a) PROVE Stays'
    <3>1. \A o \in Threads : o # t => todo'[o] = todo[o]
      <4>1. Listing(u)
        BY <1>0, <2>3, MoveBody
      <4> QED
        BY <1>0, <2>3, <4>1, MoveList
    <3>2. CASE t = "script"
      <4>1. Facing(todo'["script"], reg'[Polarity][16], reg'[Control][29], type'["server"])
        BY <1>0, <2>3, <3>2, FacingMoves DEF Interfaces
      <4>2. type'["tool"] = type["tool"]
        BY <1>1, <2>3, <3>2, ThreadsAre DEF Moves
      <4>3. Interfaces'
        BY <1>0, <1>1, <3>1, <3>2, <4>1, <4>2 DEF Interfaces
      <4> QED
        BY <1>0, <2>1, <4>3 DEF Stays
    <3>3. CASE t \in {"dump", "tool"}
      <4>1. NeutralList(todo'[t]) /\ Neutral(a)
        BY <1>0, <2>3, <3>3, NeutralMoves DEF Interfaces
      <4>2. reg'[Control][29] = reg[Control][29] /\ reg'[Polarity][16] = reg[Polarity][16]
        BY <2>3, <4>1, NeutralKeeps
      <4>3. type' = type
        BY <2>3, <4>1 DEF Moves, Neutral
      <4>4. Interfaces'
        BY <1>0, <1>1, <3>1, <3>3, <4>1, <4>2, <4>3 DEF Interfaces
      <4> QED
        BY <1>0, <2>1, <4>4 DEF Stays
    <3> QED
      BY <1>1, <3>2, <3>3
  <2> QED
    BY <2>1, <2>2, <2>3
<1>6. CASE UNCHANGED boardVars
  BY <1>2, <1>6 DEF boardVars
<1>7. CASE SetEnv
  BY <1>2, <1>7 DEF SetEnv
<1> QED
  BY <1>1, <1>3, <1>4, <1>5, <1>6, <1>7 DEF BoardNext

LEMMA InitStays == ASSUME BoardInit PROVE Stays
<1>1. /\ type["tool"] = "GENERIC" /\ type["server"] = "GENERIC"
      /\ \A t \in Threads : todo[t] = <<>>
      /\ reg = [r \in DOMAIN Fields |-> Reset(r)]
  BY DEF BoardInit
<1>2. Full
  BY <1>1, SharedFields DEF Full, Reset
<1>3. reg[Control][29] = 0 /\ reg[Polarity][16] = 0
  <2>1. {Control, Polarity} \subseteq DOMAIN Fields
    BY SharedFields DEF Shared
  <2> QED
    BY <1>1, <2>1, FieldsAre DEF Reset
<1>4. Facing(<<>>, 0, 0, "GENERIC")
  <2>1. Agreed(0, 0, "GENERIC")
    BY DEF Agreed
  <2> QED
    BY <2>1, NeutralJoin DEF Facing, NeutralList
<1>5. Interfaces
  BY <1>1, <1>3, <1>4, NeutralJoin, ThreadsAre DEF Interfaces
<1> QED
  BY <1>2, <1>5, InitHeld DEF Stays

\* Between commands the polarities, the switch of the Apple mode and the type
\* of the server's drives say the same, whatever a shell and a dump do.
THEOREM InterfaceAgreesCorrect ==
  ASSUME Wired, Commands, Apart, ~Overlap
  PROVE  BoardSpec => []InterfaceAgrees
<1>1. BoardInit => Stays
  BY InitStays
<1>2. Stays /\ [BoardNext]_boardVars => Stays'
  BY StepStays
<1>3. Stays => InterfaceAgrees
  BY FacingEmpty DEF Stays, Interfaces, InterfaceAgrees, Agreed
<1> QED
  BY <1>1, <1>2, <1>3, PTL DEF BoardSpec
-----------------------------------------------------------------------------
(* The disks: an image is all there before the drive has it                *)

TameList(s) == Listing(s) /\ \A i \in DOMAIN s : Tame(s[i])

LEMMA TameJoin ==
  /\ TameList(<<>>)
  /\ \A a : Tame(a) => TameList(<<a>>)
  /\ \A s, u : TameList(s) /\ TameList(u) => TameList(s \o u)
  /\ \A s : MeekList(s) \/ Good(s) => TameList(s)
  /\ \A s : Within(s, {FloppyCtrl, ExtraOut, Control, Polarity}) => TameList(s)
<1>1. TameList(<<>>) /\ \A a : Tame(a) => TameList(<<a>>)
  BY Listed DEF TameList
<1>2. ASSUME NEW s, NEW u, TameList(s), TameList(u) PROVE TameList(s \o u)
  <2>1. Listing(s) /\ Listing(u)
    BY <1>2 DEF TameList
  <2>2. Listing(s \o u)
    BY <2>1, JoinEach
  <2>3. \A k \in DOMAIN (s \o u) : \/ \E i \in DOMAIN s : (s \o u)[k] = s[i]
                                   \/ \E i \in DOMAIN u : (s \o u)[k] = u[i]
    BY <2>1, JoinEach
  <2> QED
    BY <1>2, <2>2, <2>3 DEF TameList
<1>3. \A s : MeekList(s) \/ Good(s) => TameList(s)
  <2>1. \A a : Meek(a) => Tame(a)
    BY DEF Meek, Tame, Drawn, Raises
  <2> QED
    BY <2>1 DEF MeekList, Good, TameList
<1>4. \A s : Within(s, {FloppyCtrl, ExtraOut, Control, Polarity}) => TameList(s)
  BY RegistersDiffer DEF Within, TameList, Tame, Drawn, Raises
<1> QED
  BY <1>1, <1>2, <1>3, <1>4

LEMMA AutodetectTame == TameList(Autodetect)
<1> DEFINE off(p)  == SetIo(p, 0)
           test(p) == SetIo(p, 1) \o AtTrack00(-1) \o off(p)
           all     == off("PIN10") \o off("PIN12") \o off("PIN14") \o off("PIN6") \o
                      off("PIN16")
           five    == {"PIN6", "PIN10", "PIN12", "PIN14", "PIN16"}
<1>1. Autodetect = all \o test("PIN10") \o test("PIN12") \o test("PIN14") \o test("PIN6") \o
                   test("PIN16") \o all
  BY DEF Autodetect
<1>2. \A p \in five : \A v : TameList(SetIo(p, v))
  <2>1. \A s : Changes(s, {FloppyCtrl}) => TameList(s)
    BY RegistersDiffer DEF Changes, TameList, Tame, Drawn, Raises
  <2> QED
    BY <2>1, PinChanges
<1>3. TameList(AtTrack00(-1))
  <2>1. Tame(Asking)
    BY AskingIs DEF Tame, Drawn, Raises
  <2> QED
    BY <2>1, AskingIs, TameJoin
<1>4. \A p \in five : TameList(off(p)) /\ TameList(test(p))
  BY <1>2, <1>3, TameJoin
<1> HIDE DEF off, test
<1>5. TameList(all)
  BY <1>4, TameJoin
<1> HIDE DEF all
<1> QED
  BY <1>1, <1>4, <1>5, TameJoin

\* Where an access of two lists comes from.
Halves(z, s, u) ==
  /\ Listing(z) /\ Len(s) \in Nat /\ Len(u) \in Nat
  /\ DOMAIN s = 1 .. Len(s) /\ DOMAIN u = 1 .. Len(u)
  /\ Len(z) = Len(s) + Len(u) /\ DOMAIN z = 1 .. Len(s) + Len(u)
  /\ \A i \in 1 .. Len(s) : z[i] = s[i]
  /\ \A i \in 1 .. Len(u) : z[Len(s) + i] = u[i]
  /\ \A k \in DOMAIN z :
       /\ k \in Int
       /\ \/ k \in DOMAIN s /\ z[k] = s[k] /\ k <= Len(s)
          \/ \E i \in DOMAIN u : k = Len(s) + i /\ z[k] = u[i] /\ i >= 1

LEMMA JoinAt ==
  ASSUME NEW s, NEW u, Listing(s), Listing(u), NEW z, z = s \o u
  PROVE  Halves(z, s, u)
<1>1. /\ Listing(z) /\ Len(s) \in Nat /\ Len(u) \in Nat
      /\ DOMAIN s = 1 .. Len(s) /\ DOMAIN u = 1 .. Len(u)
      /\ Len(z) = Len(s) + Len(u) /\ DOMAIN z = 1 .. Len(s) + Len(u)
      /\ \A i \in 1 .. Len(s) : z[i] = s[i]
      /\ \A i \in 1 .. Len(u) : z[Len(s) + i] = u[i]
  BY Joined
<1>2. ASSUME NEW k \in DOMAIN z
      PROVE  /\ k \in Int
             /\ \/ k \in DOMAIN s /\ z[k] = s[k] /\ k <= Len(s)
                \/ \E i \in DOMAIN u : k = Len(s) + i /\ z[k] = u[i] /\ i >= 1
  <2>1. CASE k \in 1 .. Len(s)
    BY <1>1, <2>1
  <2>2. CASE k \notin 1 .. Len(s)
    <3>0. PICK i : i = k - Len(s)
      OBVIOUS
    <3>1. i \in 1 .. Len(u) /\ k = Len(s) + i
      BY <1>1, <2>2, <3>0
    <3> QED
      BY <1>1, <3>1
  <2> QED
    BY <2>1, <2>2
<1> QED
  BY <1>1, <1>2 DEF Halves

\* What an image of the file f holds in its track e.
Content(f, e) == IF e < f.tracks THEN f.id ELSE 0

\* A drive has its disk after all of its image, and the image is then left alone.
Loads(s) == Listing(s) /\ \A d \in Drives : \A k \in DOMAIN s : Raises(s[k], d) =>
  /\ \E f \in Files : f.sound /\ \A e \in Tracks : Sure(s, k, Image(d), e, Content(f, e))
  /\ \A j \in DOMAIN s : j > k => ~Drawn(s[j], d)

Leaves(s, d) == \A i \in DOMAIN s : ~Drawn(s[i], d) /\ ~Raises(s[i], d)

LEMMA LoadsAfter ==
  ASSUME NEW p, NEW l, TameList(p), Loads(l), NEW z, z = p \o l
  PROVE  Loads(z) /\ \A d \in Drives : Leaves(l, d) => Leaves(z, d)
<1>1. /\ Listing(z) /\ Len(p) \in Nat /\ Len(l) \in Nat
      /\ DOMAIN p = 1 .. Len(p) /\ DOMAIN l = 1 .. Len(l)
      /\ Len(z) = Len(p) + Len(l) /\ DOMAIN z = 1 .. Len(p) + Len(l)
      /\ \A i \in 1 .. Len(p) : z[i] = p[i]
      /\ \A i \in 1 .. Len(l) : z[Len(p) + i] = l[i]
      /\ \A k \in DOMAIN z :
           /\ k \in Int
           /\ \/ k \in DOMAIN p /\ z[k] = p[k] /\ k <= Len(p)
              \/ \E i \in DOMAIN l : k = Len(p) + i /\ z[k] = l[i] /\ i >= 1
  <2>1. Listing(p) /\ Listing(l)
    BY DEF TameList, Loads
  <2>2. Halves(z, p, l)
    BY <2>1, JoinAt
  <2> QED
    BY <2>2 DEF Halves
<1>2. ASSUME NEW d \in Drives, NEW k \in DOMAIN z, Raises(z[k], d)
      PROVE  /\ \E f \in Files : f.sound /\ \A e \in Tracks : Sure(z, k, Image(d), e, Content(f, e))
             /\ \A j \in DOMAIN z : j > k => ~Drawn(z[j], d)
  <2>1. PICK i \in DOMAIN l : k = Len(p) + i /\ z[k] = l[i] /\ i >= 1
    BY <1>1, <1>2 DEF TameList, Tame
  <2>2. PICK f \in Files : f.sound /\ \A e \in Tracks : Sure(l, i, Image(d), e, Content(f, e))
    BY <1>2, <2>1 DEF Loads
  <2>3. ASSUME NEW e \in Tracks PROVE Sure(z, k, Image(d), e, Content(f, e))
    <3>1. /\ Sure(l, i, Image(d), e, Content(f, e)) /\ i \in 1 .. Len(l) + 1
          /\ Len(p) \in Nat /\ Len(l) \in Nat
          /\ \A h \in 1 .. Len(l) : z[Len(p) + h] = l[h]
      BY <1>1, <2>2
    <3>2. Sure(z, Len(p) + i, Image(d), e, Content(f, e))
      BY <3>1, SureParts
    <3> QED
      BY <2>1, <3>2
  <2>4. ASSUME NEW j \in DOMAIN z, j > k PROVE ~Drawn(z[j], d)
    <3>1. PICK h \in DOMAIN l : j = Len(p) + h /\ z[j] = l[h] /\ h >= 1
      <4>1. ~(j <= Len(p))
        BY <1>1, <2>1, <2>4
      <4> QED
        BY <1>1, <4>1
    <3>2. h > i
      BY <1>1, <2>1, <2>4, <3>1
    <3> QED
      BY <1>2, <2>1, <3>1, <3>2 DEF Loads
  <2> QED
    BY <2>2, <2>3, <2>4
<1>3. \A d \in Drives : Leaves(l, d) => Leaves(z, d)
  BY <1>1 DEF Leaves, TameList, Tame
<1> QED
  BY <1>1, <1>2, <1>3 DEF Loads

LEMMA LoadsBefore ==
  ASSUME NEW l, NEW q, TameList(q), Loads(l), NEW z, z = l \o q
  PROVE  Loads(z) /\ \A d \in Drives : Leaves(l, d) => Leaves(z, d)
<1>1. /\ Listing(z) /\ Len(l) \in Nat /\ Len(q) \in Nat
      /\ DOMAIN l = 1 .. Len(l) /\ DOMAIN q = 1 .. Len(q)
      /\ Len(z) = Len(l) + Len(q) /\ DOMAIN z = 1 .. Len(l) + Len(q)
      /\ \A i \in 1 .. Len(l) : z[i] = l[i]
      /\ \A i \in 1 .. Len(q) : z[Len(l) + i] = q[i]
      /\ \A k \in DOMAIN z :
           /\ k \in Int
           /\ \/ k \in DOMAIN l /\ z[k] = l[k] /\ k <= Len(l)
              \/ \E i \in DOMAIN q : k = Len(l) + i /\ z[k] = q[i] /\ i >= 1
  <2>1. Listing(l) /\ Listing(q)
    BY DEF TameList, Loads
  <2>2. Halves(z, l, q)
    BY <2>1, JoinAt
  <2> QED
    BY <2>2 DEF Halves
<1>2. ASSUME NEW d \in Drives, NEW k \in DOMAIN z, Raises(z[k], d)
      PROVE  /\ \E f \in Files : f.sound /\ \A e \in Tracks : Sure(z, k, Image(d), e, Content(f, e))
             /\ \A j \in DOMAIN z : j > k => ~Drawn(z[j], d)
  <2>1. k \in DOMAIN l /\ z[k] = l[k]
    BY <1>1, <1>2 DEF TameList, Tame
  <2>2. PICK f \in Files : f.sound /\ \A e \in Tracks : Sure(l, k, Image(d), e, Content(f, e))
    BY <1>2, <2>1 DEF Loads
  <2>3. ASSUME NEW e \in Tracks PROVE Sure(z, k, Image(d), e, Content(f, e))
    <3>1. Sure(l, k, Image(d), e, Content(f, e)) /\ \A i \in 1 .. k - 1 : z[i] = l[i]
      BY <1>1, <2>1, <2>2
    <3>2. PICK i \in 1 .. k - 1 : /\ Put(l[i], Image(d), e, Content(f, e))
                                  /\ \A j \in i + 1 .. k - 1 : ~Touch(l[j], Image(d), e)
      BY <3>1 DEF Sure
    <3>3. \A j \in i + 1 .. k - 1 : j \in 1 .. k - 1
      BY <1>1, <2>1
    <3> QED
      BY <3>1, <3>2, <3>3 DEF Sure
  <2>4. ASSUME NEW j \in DOMAIN z, j > k PROVE ~Drawn(z[j], d)
    BY <1>1, <1>2, <2>1, <2>4 DEF Loads, TameList, Tame
  <2> QED
    BY <2>2, <2>3, <2>4
<1>3. \A d \in Drives : Leaves(l, d) => Leaves(z, d)
  BY <1>1 DEF Leaves, TameList, Tame
<1> QED
  BY <1>1, <1>2, <1>3 DEF Loads

LEMMA TameLoads == ASSUME NEW s, TameList(s) PROVE Loads(s) /\ \A d \in Drives : Leaves(s, d)
BY DEF Loads, TameList, Tame, Leaves

\* Clearing an image and reading a file into it.
LEMMA FillSure ==
  ASSUME NEW d, NEW f \in Files, f.read = f.tracks, NEW fill,
         fill = << Write(Image(d), None) >> \o Filling(d, f)
  PROVE  /\ Listing(fill) /\ \A i \in DOMAIN fill : fill[i].reg = Image(d)
         /\ \A e \in Tracks : Sure(fill, Len(fill) + 1, Image(d), e, Content(f, e))
<1>1. PICK w, x : w = Write(Image(d), None) /\ x = Filling(d, f)
  OBVIOUS
<1>2. w.op = "write" /\ w.reg = Image(d) /\ w.upd = None
  BY <1>1, AccessIs DEF Write
<1>3. /\ Listing(x) /\ Len(x) = f.read /\ f.read \in Nat
      /\ \A i \in 1 .. f.read : x[i].op = "change" /\ x[i].reg = Image(d) /\ x[i].upd = ((i - 1) :> f.id)
  BY <1>1, FillingIs
<1>4. Listing(<<w>>) /\ Len(<<w>>) = 1 /\ <<w>>[1] = w
  BY Listed
<1>5. /\ Listing(fill) /\ Len(fill) = f.read + 1 /\ DOMAIN fill = 1 .. f.read + 1 /\ fill[1] = w
      /\ \A i \in 1 .. f.read : fill[i + 1] = x[i]
  <2>1. fill = <<w>> \o x
    BY <1>1
  <2>2. Halves(fill, <<w>>, x)
    BY <1>3, <1>4, <2>1, JoinAt
  <2>3. \A i \in 1 .. f.read : fill[1 + i] = x[i] /\ 1 + i = i + 1
    BY <1>3, <1>4, <2>2 DEF Halves
  <2> QED
    BY <1>3, <1>4, <2>2, <2>3 DEF Halves
<1>6. ASSUME NEW i \in 2 .. f.read + 1
      PROVE  fill[i].op = "change" /\ fill[i].reg = Image(d) /\ fill[i].upd = ((i - 2) :> f.id)
  <2>1. i - 1 \in 1 .. f.read /\ i - 1 + 1 = i /\ i - 1 - 1 = i - 2
    BY <1>3
  <2> QED
    BY <1>3, <1>5, <2>1
<1>7. \A i \in DOMAIN fill : fill[i].reg = Image(d)
  <2>1. \A i \in DOMAIN fill : i = 1 \/ i \in 2 .. f.read + 1
    BY <1>3, <1>5
  <2> QED
    BY <1>2, <1>5, <1>6, <2>1
<1>8. ASSUME NEW e \in Tracks PROVE Sure(fill, Len(fill) + 1, Image(d), e, Content(f, e))
  <2>0. e \in Nat /\ Len(fill) + 1 - 1 = f.read + 1
    BY <1>3, <1>5, BoardAssumption
  <2>1. Image(d) \notin {FloppyCtrl, Control, Polarity}
    BY RegistersDiffer
  <2>2. ASSUME NEW i \in 2 .. f.read + 1, i # e + 2 PROVE ~Touch(fill[i], Image(d), e)
    <3>1. e # i - 2
      BY <1>3, <2>0, <2>2
    <3>2. e \notin DOMAIN ((i - 2) :> f.id)
      BY <3>1 DEF :>
    <3> QED
      BY <1>6, <2>1, <3>2 DEF Touch
  <2>3. CASE e < f.tracks
    <3>1. e + 2 \in 2 .. f.read + 1 /\ e + 2 - 2 = e
      BY <1>3, <2>0, <2>3
    <3>2. Put(fill[e + 2], Image(d), e, f.id)
      <4>1. e \in DOMAIN (e :> f.id) /\ (e :> f.id)[e] = f.id
        BY DEF :>
      <4>2. fill[e + 2].op = "change" /\ fill[e + 2].reg = Image(d) /\ fill[e + 2].upd = (e :> f.id)
        <5>1. PICK i : i = e + 2
          OBVIOUS
        <5>2. i \in 2 .. f.read + 1 /\ i - 2 = e
          BY <1>3, <2>0, <3>1, <5>1
        <5>3. fill[i].op = "change" /\ fill[i].reg = Image(d) /\ fill[i].upd = (e :> f.id)
          BY <1>6, <5>2
        <5> QED
          BY <5>1, <5>3
      <4> QED
        BY <4>1, <4>2 DEF Put
    <3>3. e + 2 \in 1 .. f.read + 1 /\ \A j \in e + 3 .. f.read + 1 : j \in 2 .. f.read + 1 /\ j # e + 2
      BY <1>3, <2>0, <3>1
    <3>4. e + 2 + 1 = e + 3
      BY <2>0
    <3> QED
      BY <2>0, <2>2, <2>3, <3>2, <3>3, <3>4 DEF Sure, Content
  <2>4. CASE ~(e < f.tracks)
    <3>1. Put(fill[1], Image(d), e, 0)
      BY <1>2, <1>5, Fewer DEF Put
    <3>2. 1 \in 1 .. f.read + 1 /\ \A j \in 2 .. f.read + 1 : j # e + 2
      BY <1>3, <2>0, <2>4
    <3>3. 1 + 1 = 2
      OBVIOUS
    <3> QED
      BY <2>0, <2>2, <2>4, <3>1, <3>2, <3>3 DEF Sure, Content
  <2> QED
    BY <2>3, <2>4
<1> QED
  BY <1>5, <1>7, <1>8

LEMMA LoadLoads ==
  ASSUME NEW d \in Drives, NEW f \in Files, NEW h, NEW e
  PROVE  /\ Loads(LoadStreamHfe(d, f, h, e))
         /\ \A o \in Drives : o # d => Leaves(LoadStreamHfe(d, f, h, e), o)
<1>1. PICK fill, a, b, end, x, w, z :
        /\ fill = << Write(Image(d), None) >> \o Filling(d, f)
        /\ a = Change(Config(d), 12 :> 1) /\ b = Change(Config(d), 25 :> e)
        /\ end = IF f.read < f.tracks THEN <<>> ELSE <<a, b>>
        /\ x = IndexCfg(d, h, 0) /\ w = x \o fill /\ z = w \o end
  OBVIOUS
<1>2. Fine(fill) /\ Fine(end) /\ LoadStreamHfe(d, f, h, e) = IF ~f.sound THEN <<>> ELSE z
  BY <1>1, LoadIs
<1>3. CASE ~f.sound
  BY <1>2, <1>3, TameJoin, TameLoads
<1>4. CASE f.sound
  <2>1. TameList(x) /\ Listing(x) /\ Listing(fill) /\ Listing(end)
    BY <1>1, <1>2, FieldsGood, TameJoin DEF Fine, TameList
  <2>2. /\ a.op = "change" /\ a.reg = Config(d) /\ DOMAIN a.upd = {12}
        /\ b.op = "change" /\ b.reg = Config(d) /\ DOMAIN b.upd = {25}
    <3>1. DOMAIN (12 :> 1) = {12} /\ DOMAIN (25 :> e) = {25}
      BY DEF :>
    <3> QED
      BY <1>1, <3>1, ChangeIs
  <2>3. Halves(w, x, fill)
    BY <1>1, <2>1, JoinAt
  <2>4. Listing(w) /\ Len(w) \in Nat
    BY <2>3 DEF Halves
  <2>5. Halves(z, w, end)
    BY <1>1, <2>1, <2>4, JoinAt
  <2>6. \A i \in DOMAIN fill : fill[i].reg = Image(d)
    <3>1. fill = << Write(Image(d), None) >> \o Filling(d, f)
      BY <1>1
    <3>2. Write(Image(d), None).reg = Image(d)
      BY AccessIs DEF Write
    <3>3. Listing(<< Write(Image(d), None) >>) /\ Listing(Filling(d, f))
      BY Listed, FillingIs
    <3>4. Halves(fill, << Write(Image(d), None) >>, Filling(d, f))
      BY <3>1, <3>3, JoinAt
    <3>5. \A i \in DOMAIN << Write(Image(d), None) >> :
            << Write(Image(d), None) >>[i] = Write(Image(d), None)
      BY Listed
    <3>6. \A i \in DOMAIN Filling(d, f) : Filling(d, f)[i].reg = Image(d)
      BY FillingIs
    <3> QED
      BY <3>2, <3>4, <3>5, <3>6 DEF Halves
  <2>7. \A k \in DOMAIN w, o \in Drives : ~Raises(w[k], o) /\ (o # d => ~Drawn(w[k], o))
    <3>1. \A i \in DOMAIN fill, o \in Drives : ~Raises(fill[i], o) /\ (o # d => ~Drawn(fill[i], o))
      BY <2>6, RegistersDiffer DEF Raises, Drawn
    <3> QED
      BY <2>1, <2>3, <3>1 DEF Halves, TameList, Tame
  <2>8. \A i \in DOMAIN end : f.read = f.tracks /\ ((i = 1 /\ end[i] = a) \/ (i = 2 /\ end[i] = b))
    <3>1. CASE f.read < f.tracks
      BY <1>1, <3>1, Listed
    <3>2. CASE ~(f.read < f.tracks)
      <4>1. f.read = f.tracks
        BY <3>2, BoardAssumption
      <4>2. DOMAIN <<a, b>> = 1 .. 2 /\ <<a, b>>[1] = a /\ <<a, b>>[2] = b
        OBVIOUS
      <4> QED
        BY <1>1, <3>2, <4>1, <4>2
    <3> QED
      BY <3>1, <3>2
  <2>9. \A i \in DOMAIN end, o \in Drives :
          ~Drawn(end[i], o) /\ (Raises(end[i], o) => i = 1 /\ o = d)
    BY <2>2, <2>8, RegistersDiffer DEF Drawn, Raises
  <2>10. ASSUME NEW o \in Drives, NEW k \in DOMAIN z, Raises(z[k], o)
         PROVE  /\ o = d
                /\ \E g \in Files : g.sound /\ \A t \in Tracks : Sure(z, k, Image(o), t, Content(g, t))
                /\ \A j \in DOMAIN z : j > k => ~Drawn(z[j], o)
    <3>1. PICK i \in DOMAIN end : k = Len(w) + i /\ z[k] = end[i] /\ i >= 1
      BY <2>5, <2>7, <2>10 DEF Halves
    <3>2. i = 1 /\ o = d /\ f.read = f.tracks
      BY <2>8, <2>9, <2>10, <3>1
    <3>3. ASSUME NEW t \in Tracks PROVE Sure(z, k, Image(d), t, Content(f, t))
      <4>1. Sure(fill, Len(fill) + 1, Image(d), t, Content(f, t))
        BY <1>1, <3>2, FillSure
      <4>2. /\ Len(x) \in Nat /\ Len(fill) \in Nat /\ Len(fill) + 1 \in 1 .. Len(fill) + 1
            /\ \A i2 \in 1 .. Len(fill) : w[Len(x) + i2] = fill[i2]
        BY <2>3 DEF Halves
      <4>3. Sure(w, Len(x) + (Len(fill) + 1), Image(d), t, Content(f, t))
        BY <4>1, <4>2, SureParts
      <4>4. Len(x) + (Len(fill) + 1) = Len(w) + 1 /\ Len(w) + 1 - 1 = Len(w) /\ k = Len(w) + 1
        BY <2>3, <2>4, <3>1, <3>2, <4>2 DEF Halves
      <4>5. \A i2 \in 1 .. Len(w) : z[i2] = w[i2]
        BY <2>5 DEF Halves
      <4>6. Sure(w, Len(w) + 1, Image(d), t, Content(f, t))
        BY <4>3, <4>4
      <4>7. PICK i2 \in 1 .. Len(w) : /\ Put(w[i2], Image(d), t, Content(f, t))
                                      /\ \A j \in i2 + 1 .. Len(w) : ~Touch(w[j], Image(d), t)
        BY <4>4, <4>6 DEF Sure
      <4>8. \A j \in i2 + 1 .. Len(w) : j \in 1 .. Len(w)
        BY <2>4
      <4>9. Put(z[i2], Image(d), t, Content(f, t)) /\ \A j \in i2 + 1 .. Len(w) : ~Touch(z[j], Image(d), t)
        BY <4>5, <4>7, <4>8
      <4> QED
        BY <4>4, <4>9 DEF Sure
    <3>4. ASSUME NEW j \in DOMAIN z, j > k PROVE ~Drawn(z[j], d)
      <4>1. ~(j <= Len(w))
        BY <2>4, <2>5, <3>1, <3>2, <3>4 DEF Halves
      <4> QED
        BY <2>5, <2>9, <4>1 DEF Halves
    <3> QED
      BY <1>4, <3>2, <3>3, <3>4
  <2>11. ASSUME NEW o \in Drives, o # d PROVE Leaves(z, o)
    <3>1. \A k \in DOMAIN z : ~Raises(z[k], o)
      BY <2>10, <2>11
    <3>2. \A k \in DOMAIN z : ~Drawn(z[k], o)
      BY <2>5, <2>7, <2>9, <2>11 DEF Halves
    <3> QED
      BY <3>1, <3>2 DEF Leaves
  <2>12. Listing(z)
    BY <2>5 DEF Halves
  <2>13. Loads(z)
    BY <2>10, <2>12 DEF Loads
  <2> QED
    BY <1>2, <1>4, <2>11, <2>13
<1> QED
  BY <1>3, <1>4

LEMMA ToolLoads ==
  ASSUME Wired, Commands, NEW m \in Modes, NEW c \in Calls["tool"][m]
  PROVE  /\ Loads(Program(c)) /\ c[1] = "pauline" /\ c[2] \in Drives
         /\ \A d \in Drives : (d # c[2] \/ "load" \notin DOMAIN c[3]) => Leaves(Program(c), d)
<1>1. PICK p, q, r, l, a :
        /\ Good(p) /\ Good(q) /\ Good(r) /\ Listing(l) /\ a \in {<<>>, Autodetect}
        /\ \/ l = <<>>
           \/ /\ "load" \in DOMAIN c[3] /\ c[3]["load"] \in Files
              /\ \E h, e : l = LoadStreamHfe(c[2], c[3]["load"], h, e)
        /\ c[1] = "pauline" /\ c[2] \in Drives
        /\ Program(c) = (((p \o l) \o q) \o a) \o r
  BY ToolParts
<1>2. TameList(p) /\ TameList(q) /\ TameList(r) /\ TameList(a)
  BY <1>1, TameJoin, AutodetectTame
<1>3. Loads(l) /\ \A d \in Drives : (d # c[2] \/ "load" \notin DOMAIN c[3]) => Leaves(l, d)
  BY <1>1, LoadLoads, TameLoads, TameJoin
<1>4. PICK s1, s2, s3, s4 : s1 = p \o l /\ s2 = s1 \o q /\ s3 = s2 \o a /\ s4 = s3 \o r
  OBVIOUS
<1>5. Loads(s1) /\ \A d \in Drives : Leaves(l, d) => Leaves(s1, d)
  BY <1>2, <1>3, <1>4, LoadsAfter
<1>6. Loads(s2) /\ \A d \in Drives : Leaves(s1, d) => Leaves(s2, d)
  BY <1>2, <1>4, <1>5, LoadsBefore
<1>7. Loads(s3) /\ \A d \in Drives : Leaves(s2, d) => Leaves(s3, d)
  BY <1>2, <1>4, <1>6, LoadsBefore
<1>8. Loads(s4) /\ \A d \in Drives : Leaves(s3, d) => Leaves(s4, d)
  BY <1>2, <1>4, <1>7, LoadsBefore
<1> QED
  BY <1>1, <1>3, <1>4, <1>5, <1>6, <1>7, <1>8

Whole(w) == \E f \in Files : f.sound /\ \A e \in Tracks : w[e] = Content(f, e)

\* The image w of the drive d and its disk x, with the accesses s still to come.
Orderly(s, d, w, x) ==
  /\ \A k \in DOMAIN s : Raises(s[k], d) =>
       /\ \E f \in Files : f.sound /\
            \A e \in Tracks : Will(s, k, Image(d), e, Content(f, e), w[e])
       /\ \A j \in DOMAIN s : j > k => ~Drawn(s[j], d)
  /\ x = 1 => Whole(w) /\ \A k \in DOMAIN s : ~Drawn(s[k], d)

Disks ==
  /\ \A t \in {"script", "dump"} : TameList(todo[t])
  /\ \A d \in Drives : Orderly(todo["tool"], d, reg[Image(d)], reg[Config(d)][12])

LEMMA DiskKeeps ==
  ASSUME NEW a, Writes(a), NEW d \in Drives
  PROVE  /\ ~Drawn(a, d) => \A e \in Tracks : reg'[Image(d)][e] = reg[Image(d)][e]
         /\ ~Raises(a, d) => (reg'[Config(d)][12] = 1 => reg[Config(d)][12] = 1)
<1>1. Image(d) \in Shared /\ Config(d) \in Shared
  BY DEF Shared
<1>2. ASSUME ~Drawn(a, d), NEW e \in Tracks PROVE reg'[Image(d)][e] = reg[Image(d)][e]
  <2>1. ~Touch(a, Image(d), e)
    BY <1>2, RegistersDiffer DEF Drawn, Touch
  <2> QED
    BY <1>1, <2>1, FieldsAre DEF Writes
<1>3. ASSUME ~Raises(a, d), reg'[Config(d)][12] = 1 PROVE reg[Config(d)][12] = 1
  <2>1. CASE Touch(a, Config(d), 12)
    <3>1. a.op = "write" /\ a.reg = Config(d) /\ 12 \notin DOMAIN a.upd
      BY <1>3, <2>1, RegistersDiffer DEF Raises, Touch
    <3>2. Put(a, Config(d), 12, 0)
      BY <3>1 DEF Put
    <3>3. reg'[Config(d)][12] = 0
      BY <1>1, <3>1, <3>2, FieldsAre DEF Writes
    <3> QED
      BY <1>3, <3>3
  <2>2. CASE ~Touch(a, Config(d), 12)
    BY <1>1, <1>3, <2>2, FieldsAre DEF Writes
  <2> QED
    BY <2>1, <2>2
<1> QED
  BY <1>2, <1>3

LEMMA OrderlySame ==
  ASSUME NEW s, NEW d, NEW w, NEW x, Orderly(s, d, w, x), NEW w1, NEW x1,
         \A e \in Tracks : w1[e] = w[e], x1 = 1 => x = 1
  PROVE  Orderly(s, d, w1, x1)
BY DEF Orderly, Whole

\* A drive whose image is about to be drawn has no disk.
LEMMA OrderlyBegins ==
  ASSUME NEW d \in Drives, NEW w, NEW x, Orderly(<<>>, d, w, x), NEW s, Loads(s),
         x = 0 \/ Leaves(s, d)
  PROVE  Orderly(s, d, w, x)
<1>1. ASSUME NEW k \in DOMAIN s, Raises(s[k], d)
      PROVE  /\ \E f \in Files : f.sound /\
                  \A e \in Tracks : Will(s, k, Image(d), e, Content(f, e), w[e])
             /\ \A j \in DOMAIN s : j > k => ~Drawn(s[j], d)
  <2>1. /\ \E f \in Files : f.sound /\ \A e \in Tracks : Sure(s, k, Image(d), e, Content(f, e))
        /\ \A j \in DOMAIN s : j > k => ~Drawn(s[j], d)
    BY <1>1 DEF Loads
  <2> QED
    BY <2>1 DEF Will
<1>2. ASSUME x = 1 PROVE Whole(w) /\ \A k \in DOMAIN s : ~Drawn(s[k], d)
  BY <1>2 DEF Orderly, Leaves
<1> QED
  BY <1>1, <1>2 DEF Orderly

LEMMA TameMoves ==
  ASSUME Wired, Held, NEW t \in Threads, NEW a, NEW u, Moves(t, a, u), TameList(todo[t])
  PROVE  TameList(todo'[t]) /\ Tame(a)
<1>1. /\ Listing(todo[t]) /\ 1 \in DOMAIN todo[t] /\ a = todo[t][1]
      /\ Listing(u) /\ (a.op # "interface" => Within(u, {FloppyCtrl, ExtraOut}))
  BY MoveBody
<1>2. Tame(a)
  BY <1>1 DEF TameList
<1>3. TameList(u)
  <2>1. CASE a.op = "interface"
    <3>0. PICK m : m = InterfaceMode
      OBVIOUS
    <3>1. u = SetInterface(m) \/ u = <<>>
      BY <2>1, <3>0 DEF Moves
    <3>2. CASE u = SetInterface(m)
      <4>1. /\ DOMAIN u = 1 .. 3
            /\ u[1] = Write(Polarity, 16 :> IF m = "GENERIC" THEN 0 ELSE 1)
            /\ u[2] = Change(Control, 29 :> IF m = "APPLE_II" THEN 1 ELSE 0)
            /\ u[3] = Access("type", Control, None, <<m>>)
        BY <3>2, InterfaceIs
      <4>2. u[1].reg = Polarity /\ u[2].reg = Control /\ u[3].op = "type"
        BY <4>1, AccessIs, ChangeIs DEF Write
      <4>3. Tame(u[1]) /\ Tame(u[2]) /\ Tame(u[3])
        BY <4>2, RegistersDiffer DEF Tame, Drawn, Raises
      <4>4. \A i \in 1 .. 3 : i = 1 \/ i = 2 \/ i = 3
        OBVIOUS
      <4>5. \A i \in DOMAIN u : Tame(u[i])
        BY <4>1, <4>3, <4>4
      <4> QED
        BY <1>1, <4>5 DEF TameList
    <3>3. CASE u = <<>>
      BY <3>3, TameJoin
    <3> QED
      BY <3>1, <3>2, <3>3
  <2>2. CASE a.op # "interface"
    <3>1. Within(u, {FloppyCtrl, ExtraOut})
      BY <1>1, <2>2
    <3>2. Within(u, {FloppyCtrl, ExtraOut, Control, Polarity})
      BY <3>1 DEF Within
    <3> QED
      BY <3>2, TameJoin
  <2> QED
    BY <2>1, <2>2
<1>4. TameList(Tail(todo[t]))
  <2>1. todo[t] # <<>>
    BY DEF Moves
  <2> QED
    BY <1>1, <2>1, RestEach DEF TameList
<1>5. todo'[t] = u \o Tail(todo[t])
  BY <1>1, MoveList
<1> QED
  BY <1>2, <1>3, <1>4, <1>5, TameJoin

\* One access of the program run from a shell.
LEMMA DiskMoves ==
  ASSUME Wired, Held, NEW a, NEW u, Moves("tool", a, u), Writes(a), NeutralList(todo["tool"]),
         type["tool"] = "GENERIC", NEW d \in Drives,
         Orderly(todo["tool"], d, reg[Image(d)], reg[Config(d)][12])
  PROVE  Orderly(todo'["tool"], d, reg'[Image(d)], reg'[Config(d)][12])
<1>0. "tool" \in Threads /\ Process("tool") = "tool" /\ Image(d) \in Shared
  BY ThreadsAre DEF Shared
<1>00. PICK s, z, w, w1, x, x1 :
         /\ s = todo["tool"] /\ z = todo'["tool"] /\ w = reg[Image(d)] /\ w1 = reg'[Image(d)]
         /\ x = reg[Config(d)][12] /\ x1 = reg'[Config(d)][12]
  OBVIOUS
<1>1. /\ Listing(s) /\ 1 \in DOMAIN s /\ a = s[1] /\ Listing(u) /\ Neutral(a)
      /\ Within(u, {FloppyCtrl, ExtraOut})
  <2>1. /\ Listing(todo["tool"]) /\ 1 \in DOMAIN todo["tool"] /\ a = todo["tool"][1] /\ Listing(u)
        /\ (a.op # "interface" => Within(u, {FloppyCtrl, ExtraOut}))
    BY <1>0, MoveBody
  <2>2. Neutral(a)
    BY <2>1 DEF NeutralList
  <2> QED
    BY <1>00, <2>1, <2>2 DEF Neutral
<1>2. /\ Len(u) \in Nat /\ Len(s) \in Nat /\ DOMAIN s = 1 .. Len(s) /\ DOMAIN u = 1 .. Len(u)
      /\ \A k \in DOMAIN z :
           \/ k \in DOMAIN u /\ z[k] = u[k]
           \/ \E i \in 2 .. Len(s) : k = Len(u) + (i - 1) /\ z[k] = s[i]
  <2>0. "tool" \in Threads /\ Listing(u)
    BY <1>0, <1>1
  <2>1. /\ Len(u) \in Nat /\ Len(todo["tool"]) \in Nat /\ DOMAIN todo["tool"] = 1 .. Len(todo["tool"])
        /\ DOMAIN u = 1 .. Len(u)
    BY <2>0, MoveList
  <2>2. \A k \in DOMAIN todo'["tool"] :
          \/ k \in DOMAIN u /\ todo'["tool"][k] = u[k]
          \/ \E i \in 2 .. Len(todo["tool"]) :
               k = Len(u) + (i - 1) /\ todo'["tool"][k] = todo["tool"][i]
    BY <2>0, MoveList
  <2> QED
    BY <1>00, <2>1, <2>2
<1>3. Orderly(s, d, w, x)
  BY <1>00
<1>4. \A i \in DOMAIN u : ~Drawn(u[i], d) /\ ~Raises(u[i], d)
  BY <1>1, RegistersDiffer DEF Within, Drawn, Raises
<1>5. \A k \in DOMAIN z : Drawn(z[k], d) \/ Raises(z[k], d) =>
        \E i \in 2 .. Len(s) : i \in DOMAIN s /\ k = Len(u) + (i - 1) /\ z[k] = s[i]
  BY <1>2, <1>4
<1>6. /\ ~Drawn(a, d) => \A e \in Tracks : w1[e] = w[e]
      /\ ~Raises(a, d) => (x1 = 1 => x = 1)
  BY <1>00, DiskKeeps
<1>7. ASSUME NEW k \in DOMAIN z, Raises(z[k], d)
      PROVE  /\ \E f \in Files : f.sound /\
                  \A e \in Tracks : Will(z, k, Image(d), e, Content(f, e), w1[e])
             /\ \A j \in DOMAIN z : j > k => ~Drawn(z[j], d)
  <2>1. PICK i \in 2 .. Len(s) : i \in DOMAIN s /\ k = Len(u) + (i - 1) /\ z[k] = s[i]
    BY <1>5, <1>7
  <2>2. /\ \E f \in Files : f.sound /\
             \A e \in Tracks : Will(s, i, Image(d), e, Content(f, e), w[e])
        /\ \A j \in DOMAIN s : j > i => ~Drawn(s[j], d)
    BY <1>3, <1>7, <2>1 DEF Orderly
  <2>3. PICK f \in Files : f.sound /\
          \A e \in Tracks : Will(s, i, Image(d), e, Content(f, e), w[e])
    BY <2>2
  <2>4. ASSUME NEW e \in Tracks PROVE Will(z, k, Image(d), e, Content(f, e), w1[e])
    <3>1. Will(todo["tool"], i, Image(d), e, Content(f, e), reg[Image(d)][e])
      BY <1>00, <2>3
    <3>2. i \in 2 .. Len(todo["tool"]) + 1
      BY <1>00, <1>2, <2>1
    <3>3. e \in Fields[Image(d)] /\ a.op # "interface" /\ type[Process("tool")] # "APPLE_MACINTOSH"
      BY <1>0, <1>1, FieldsAre DEF Neutral
    <3>4. Will(todo'["tool"], Len(u) + (i - 1), Image(d), e, Content(f, e), reg'[Image(d)][e])
      BY <1>0, <3>1, <3>2, <3>3, WillMoves
    <3> QED
      BY <1>00, <2>1, <3>4
  <2>5. ASSUME NEW j \in DOMAIN z, j > k, Drawn(z[j], d) PROVE FALSE
    <3>1. PICK h \in 2 .. Len(s) : h \in DOMAIN s /\ j = Len(u) + (h - 1) /\ z[j] = s[h]
      BY <1>5, <2>5
    <3>2. h > i
      BY <1>2, <2>1, <2>5, <3>1
    <3> QED
      BY <2>2, <2>5, <3>1, <3>2
  <2> QED
    BY <2>3, <2>4, <2>5
<1>8. ASSUME x1 = 1 PROVE Whole(w1) /\ \A k \in DOMAIN z : ~Drawn(z[k], d)
  <2>1. CASE Raises(a, d)
    <3>1. /\ \E f \in Files : f.sound /\
               \A e \in Tracks : Will(s, 1, Image(d), e, Content(f, e), w[e])
          /\ \A j \in DOMAIN s : j > 1 => ~Drawn(s[j], d)
      BY <1>1, <1>3, <2>1 DEF Orderly
    <3>2. PICK f \in Files : f.sound /\
            \A e \in Tracks : Will(s, 1, Image(d), e, Content(f, e), w[e])
      BY <3>1
    <3>3. \A e \in Tracks : w[e] = Content(f, e)
      BY <3>2, WillNow
    <3>4. ~Drawn(a, d)
      BY <2>1, RegistersDiffer DEF Drawn, Raises
    <3>5. Whole(w1)
      BY <1>6, <3>2, <3>3, <3>4 DEF Whole
    <3>6. \A i \in 2 .. Len(s) : i > 1
      BY <1>2
    <3> QED
      BY <1>5, <3>1, <3>5, <3>6
  <2>2. CASE ~Raises(a, d)
    <3>1. Whole(w) /\ \A k \in DOMAIN s : ~Drawn(s[k], d)
      BY <1>3, <1>6, <1>8, <2>2 DEF Orderly
    <3>2. \A e \in Tracks : w1[e] = w[e]
      BY <1>1, <1>6, <3>1
    <3> QED
      BY <1>5, <3>1, <3>2 DEF Whole
  <2> QED
    BY <2>1, <2>2
<1>9. Orderly(z, d, w1, x1)
  BY <1>7, <1>8 DEF Orderly
<1> QED
  BY <1>00, <1>9

LEMMA StepDisks ==
  ASSUME Wired, Commands, Apart, ~Overlap, ~Reload, Stays, Disks, [BoardNext]_boardVars
  PROVE  Disks'
<1>0. Held /\ Full /\ Interfaces /\ mode \in Modes
  BY DEF Stays, Held, Ordered, Shape
<1>1. Threads = {"script", "dump", "tool"}
  BY ThreadsAre
<1>2. ASSUME UNCHANGED <<reg, todo>> PROVE Disks'
  BY <1>2 DEF Disks
<1>3. ASSUME NEW t \in {"script", "tool"}, Issue(t) PROVE Disks'
  <2>1. PICK c \in Calls[t][mode] :
          /\ todo' = [todo EXCEPT ![t] = Program(c)]
          /\ (c[1] = "pauline" /\ "load" \in DOMAIN c[3]) => reg[Config(c[2])][12] = 0
    BY <1>3 DEF Issue
  <2>2. todo[t] = <<>> /\ reg' = reg
    BY <1>3 DEF Issue
  <2>3. todo'[t] = Program(c) /\ \A o \in Threads : o # t => todo'[o] = todo[o]
    BY <1>0, <1>1, <2>1, Begins
  <2>4. CASE t = "script"
    <3>1. TameList(Program(c))
      <4>1. CASE c[1] = "reset"
        BY <1>0, <2>4, <4>1, ScriptIs, ResetFacing DEF TameList
      <4>2. CASE c[1] # "reset"
        BY <1>0, <2>4, <4>2, ScriptIs, TameJoin
      <4> QED
        BY <4>1, <4>2
    <3> QED
      BY <1>1, <2>2, <2>3, <2>4, <3>1 DEF Disks
  <2>5. CASE t = "tool"
    <3>1. /\ Loads(Program(c)) /\ c[1] = "pauline" /\ c[2] \in Drives
          /\ \A d \in Drives : (d # c[2] \/ "load" \notin DOMAIN c[3]) => Leaves(Program(c), d)
      BY <1>0, <2>5, ToolLoads
    <3>2. ASSUME NEW d \in Drives PROVE Orderly(Program(c), d, reg[Image(d)], reg[Config(d)][12])
      <4>1. reg[Config(d)][12] = 0 \/ Leaves(Program(c), d)
        BY <2>1, <3>1
      <4>2. Orderly(<<>>, d, reg[Image(d)], reg[Config(d)][12])
        BY <2>2, <2>5 DEF Disks
      <4> QED
        BY <3>1, <4>1, <4>2, OrderlyBegins
    <3> QED
      BY <1>1, <2>2, <2>3, <2>5, <3>2 DEF Disks
  <2> QED
    BY <2>4, <2>5
<1>4. CASE BeginDump
  <2>1. PICK d \in Dumps[mode], s \in 0 .. 1, n \in 0 .. 1 :
          todo' = [todo EXCEPT !["dump"] = DumpProgram(d, s, n)]
    BY <1>4 DEF BeginDump
  <2>2. reg' = reg
    BY <1>4 DEF BeginDump
  <2>3. todo'["dump"] = DumpProgram(d, s, n) /\ \A o \in Threads : o # "dump" => todo'[o] = todo[o]
    BY <1>0, <1>1, <2>1, Begins
  <2>4. TameList(DumpProgram(d, s, n))
    <3>1. d \in Drives
      BY <1>0, BoardAssumption
    <3> QED
      BY <3>1, DumpGood, TameJoin
  <2> QED
    BY <1>1, <2>2, <2>3, <2>4 DEF Disks
<1>5. ASSUME NEW t \in Threads, ThreadStep(t) \/ (t = "dump" /\ EndDump) PROVE Disks'
  <2>1. Rests \/ \E a, u : Moves(t, a, u) /\ Writes(a)
    BY <1>0, <1>5, ThreadMoves
  <2>2. CASE Rests
    BY <1>2, <2>2 DEF Rests
  <2>3. ASSUME NEW a, NEW u, Moves(t, a, u), Writes(a) PROVE Disks'
    <3>1. \A o \in Threads : o # t => todo'[o] = todo[o]
      <4>1. Listing(u)
        BY <1>0, <2>3, MoveBody
      <4> QED
        BY <1>0, <2>3, <4>1, MoveList
    <3>2. CASE t \in {"script", "dump"}
      <4>1. TameList(todo'[t]) /\ Tame(a)
        BY <1>0, <2>3, <3>2, TameMoves DEF Disks
      <4>2. ASSUME NEW d \in Drives
            PROVE  Orderly(todo["tool"], d, reg'[Image(d)], reg'[Config(d)][12])
        <5>1. /\ \A e \in Tracks : reg'[Image(d)][e] = reg[Image(d)][e]
              /\ reg'[Config(d)][12] = 1 => reg[Config(d)][12] = 1
          BY <2>3, <4>1, DiskKeeps DEF Tame
        <5>2. Orderly(todo["tool"], d, reg[Image(d)], reg[Config(d)][12])
          BY DEF Disks
        <5> QED
          BY <5>1, <5>2, OrderlySame
      <4> QED
        BY <1>1, <3>1, <3>2, <4>1, <4>2 DEF Disks
    <3>3. CASE t = "tool"
      <4>1. \A d \in Drives : Orderly(todo'["tool"], d, reg'[Image(d)], reg'[Config(d)][12])
        BY <1>0, <2>3, <3>3, DiskMoves DEF Disks, Interfaces
      <4> QED
        BY <1>1, <3>1, <3>3, <4>1 DEF Disks
    <3> QED
      BY <1>1, <3>2, <3>3
  <2> QED
    BY <2>1, <2>2, <2>3
<1>6. CASE UNCHANGED boardVars
  BY <1>2, <1>6 DEF boardVars
<1>7. CASE SetEnv
  BY <1>2, <1>7 DEF SetEnv
<1> QED
  BY <1>1, <1>3, <1>4, <1>5, <1>6, <1>7 DEF BoardNext

LEMMA InitDisks == ASSUME BoardInit PROVE Disks
<1>1. /\ \A t \in Threads : todo[t] = <<>>
      /\ reg = [r \in DOMAIN Fields |-> Reset(r)]
  BY DEF BoardInit
<1>2. ASSUME NEW d \in Drives PROVE reg[Config(d)][12] = 0
  <2>1. Config(d) \in DOMAIN Fields
    BY SharedFields DEF Shared
  <2> QED
    BY <1>1, <2>1, FieldsAre DEF Reset
<1>3. ASSUME NEW d \in Drives PROVE Orderly(<<>>, d, reg[Image(d)], reg[Config(d)][12])
  BY <1>2, Listed DEF Orderly
<1> QED
  BY <1>1, <1>3, TameJoin, ThreadsAre DEF Disks

\* A drive that has a disk has the whole image of one sound file: what is read
\* is all there before the disk is, and is left alone from then on.
THEOREM DiskIsWholeCorrect ==
  ASSUME Wired, Commands, Apart, ~Overlap, ~Reload
  PROVE  BoardSpec => []DiskIsWhole
<1>1. BoardInit => Stays /\ Disks
  BY InitStays, InitDisks
<1>2. Stays /\ Disks /\ [BoardNext]_boardVars => (Stays /\ Disks)'
  BY StepStays, StepDisks
<1>3. Disks => DiskIsWhole
  BY DEF Disks, Orderly, Whole, Content, DiskIsWhole
<1> QED
  BY <1>1, <1>2, <1>3, PTL DEF BoardSpec
-----------------------------------------------------------------------------
(* The detection: one select line at a time                                *)

Asks(a) == a.op = "do" /\ a.call[2] = -1

\* Before access k the select lines of the port are off, but for the line c;
\* there is no line 5.
Lit(s, k, c) == \A b \in 0 .. 4 : Sure(s, k, FloppyCtrl, b, IF b = c THEN 1 ELSE 0)

\* Each question is asked of one line, which is then let go.
Follows(s, k) == \E j \in DOMAIN s : j > k /\ s[j].op = "change" /\ s[j].reg = FloppyCtrl

AskedList(s) == Listing(s) /\ \A k \in DOMAIN s : Asks(s[k]) =>
  (\E c \in 0 .. 4 : Lit(s, k, c)) /\ Follows(s, k)

Silent(s) == Listing(s) /\ \A i \in DOMAIN s : ~Asks(s[i])

LEMMA SilentJoin ==
  /\ Silent(<<>>)
  /\ \A a : ~Asks(a) => Silent(<<a>>)
  /\ \A s, u : Silent(s) /\ Silent(u) => Silent(s \o u)
  /\ \A s : MeekList(s) \/ Good(s) => Silent(s)
  /\ \A s : \A R : Within(s, R) \/ Changes(s, R) => Silent(s)
<1>1. Silent(<<>>) /\ \A a : ~Asks(a) => Silent(<<a>>)
  BY Listed DEF Silent
<1>2. ASSUME NEW s, NEW u, Silent(s), Silent(u) PROVE Silent(s \o u)
  <2>1. Listing(s) /\ Listing(u)
    BY <1>2 DEF Silent
  <2>2. Listing(s \o u)
    BY <2>1, JoinEach
  <2>3. \A k \in DOMAIN (s \o u) : \/ \E i \in DOMAIN s : (s \o u)[k] = s[i]
                                   \/ \E i \in DOMAIN u : (s \o u)[k] = u[i]
    BY <2>1, JoinEach
  <2> QED
    BY <1>2, <2>2, <2>3 DEF Silent
<1>3. \A s : MeekList(s) \/ Good(s) => Silent(s)
  BY DEF Meek, Asks, MeekList, Good, Silent
<1>4. \A s : \A R : Within(s, R) \/ Changes(s, R) => Silent(s)
  BY DEF Within, Changes, Asks, Silent
<1> QED
  BY <1>1, <1>2, <1>3, <1>4

\* A list with one access more.
LEMMA SureOne ==
  ASSUME NEW s, Listing(s), NEW a, NEW z, z = s \o <<a>>
  PROVE  /\ Halves(z, s, <<a>>) /\ Len(s) \in Nat /\ Len(z) = Len(s) + 1 /\ z[Len(s) + 1] = a
         /\ \A r, b, v : Put(a, r, b, v) => Sure(z, Len(z) + 1, r, b, v)
         /\ \A r, b, v : ~Touch(a, r, b) /\ Sure(s, Len(s) + 1, r, b, v) => Sure(z, Len(z) + 1, r, b, v)
         /\ \A k \in 1 .. Len(s) + 1 : \A r, b, v : Sure(s, k, r, b, v) => Sure(z, k, r, b, v)
<1>1. Halves(z, s, <<a>>)
  BY Listed, JoinAt
<1>2. /\ Len(s) \in Nat /\ Len(z) = Len(s) + 1 /\ \A i \in 1 .. Len(s) : z[i] = s[i]
      /\ z[Len(s) + 1] = a
  <2>1. Len(<<a>>) = 1 /\ <<a>>[1] = a /\ 1 \in 1 .. 1
    BY Listed
  <2> QED
    BY <1>1, <2>1 DEF Halves
<1>3. PICK n : n = Len(s)
  OBVIOUS
<1>4. n \in Nat /\ Len(z) + 1 = n + 2 /\ n + 2 - 1 = n + 1 /\ n + 1 - 1 = n
  BY <1>2, <1>3
<1>5. ASSUME NEW r, NEW b, NEW v, Put(a, r, b, v) PROVE Sure(z, Len(z) + 1, r, b, v)
  <2>1. n + 1 \in 1 .. n + 1 /\ \A j \in n + 1 + 1 .. n + 1 : FALSE
    BY <1>4
  <2> QED
    BY <1>2, <1>3, <1>4, <1>5, <2>1 DEF Sure
<1>6. ASSUME NEW r, NEW b, NEW v, ~Touch(a, r, b), Sure(s, Len(s) + 1, r, b, v)
      PROVE  Sure(z, Len(z) + 1, r, b, v)
  <2>1. PICK i \in 1 .. n : Put(s[i], r, b, v) /\ \A j \in i + 1 .. n : ~Touch(s[j], r, b)
    BY <1>3, <1>4, <1>6 DEF Sure
  <2>2. i \in 1 .. n + 1 /\ \A j \in i + 1 .. n + 1 : j = n + 1 \/ (j \in i + 1 .. n /\ j \in 1 .. n)
    BY <1>4
  <2>3. Put(z[i], r, b, v) /\ \A j \in i + 1 .. n + 1 : ~Touch(z[j], r, b)
    BY <1>2, <1>3, <1>6, <2>1, <2>2
  <2> QED
    BY <1>4, <2>2, <2>3 DEF Sure
<1>7. ASSUME NEW k \in 1 .. Len(s) + 1, NEW r, NEW b, NEW v, Sure(s, k, r, b, v)
      PROVE  Sure(z, k, r, b, v)
  <2>1. \A i \in 1 .. k - 1 : i \in 1 .. Len(s) /\ \A j \in i + 1 .. k - 1 : j \in 1 .. Len(s)
    BY <1>2
  <2>2. PICK i \in 1 .. k - 1 : Put(s[i], r, b, v) /\ \A j \in i + 1 .. k - 1 : ~Touch(s[j], r, b)
    BY <1>7 DEF Sure
  <2>3. Put(z[i], r, b, v) /\ \A j \in i + 1 .. k - 1 : ~Touch(z[j], r, b)
    BY <1>2, <2>1, <2>2
  <2> QED
    BY <2>3 DEF Sure
<1> QED
  BY <1>1, <1>2, <1>5, <1>6, <1>7

LEMMA AskedAfter ==
  ASSUME NEW p, NEW l, Silent(p), AskedList(l), NEW z, z = p \o l
  PROVE  AskedList(z)
<1>1. Halves(z, p, l)
  BY JoinAt DEF Silent, AskedList
<1>2. ASSUME NEW k \in DOMAIN z, Asks(z[k])
      PROVE  (\E c \in 0 .. 4 : Lit(z, k, c)) /\ Follows(z, k)
  <2>1. PICK i \in DOMAIN l : k = Len(p) + i /\ z[k] = l[i] /\ i >= 1
    BY <1>1, <1>2 DEF Silent, Halves
  <2>2. PICK c \in 0 .. 4 : Lit(l, i, c)
    BY <1>2, <2>1 DEF AskedList
  <2>3. PICK j \in DOMAIN l : j > i /\ l[j].op = "change" /\ l[j].reg = FloppyCtrl
    BY <1>2, <2>1 DEF AskedList, Follows
  <2>4. /\ Len(p) \in Nat /\ Len(l) \in Nat /\ i \in 1 .. Len(l) + 1
        /\ \A h \in 1 .. Len(l) : z[Len(p) + h] = l[h]
    BY <1>1 DEF Halves
  <2>5. \A b, v : Sure(l, i, FloppyCtrl, b, v) => Sure(z, Len(p) + i, FloppyCtrl, b, v)
    BY <2>4, SureParts
  <2>6. Lit(z, k, c)
    BY <2>1, <2>2, <2>5 DEF Lit
  <2>7. Len(p) + j \in DOMAIN z /\ Len(p) + j > k /\ z[Len(p) + j] = l[j]
    BY <1>1, <2>1, <2>3 DEF Halves
  <2> QED
    BY <2>3, <2>6, <2>7 DEF Follows
<1> QED
  BY <1>1, <1>2 DEF AskedList, Halves

LEMMA AskedBefore ==
  ASSUME NEW l, NEW q, Silent(q), AskedList(l), NEW z, z = l \o q
  PROVE  AskedList(z)
<1>1. Halves(z, l, q)
  BY JoinAt DEF Silent, AskedList
<1>2. ASSUME NEW k \in DOMAIN z, Asks(z[k])
      PROVE  (\E c \in 0 .. 4 : Lit(z, k, c)) /\ Follows(z, k)
  <2>1. k \in DOMAIN l /\ z[k] = l[k]
    BY <1>1, <1>2 DEF Silent, Halves
  <2>2. PICK c \in 0 .. 4 : Lit(l, k, c)
    BY <1>2, <2>1 DEF AskedList
  <2>3. PICK j \in DOMAIN l : j > k /\ l[j].op = "change" /\ l[j].reg = FloppyCtrl
    BY <1>2, <2>1 DEF AskedList, Follows
  <2>4. /\ \A i \in DOMAIN l : z[i] = l[i] /\ i \in DOMAIN z
        /\ \A i \in 1 .. k - 1 : i \in DOMAIN l /\ \A h \in i + 1 .. k - 1 : h \in DOMAIN l
    BY <1>1, <2>1 DEF Halves
  <2>5. \A b, v : Sure(l, k, FloppyCtrl, b, v) => Sure(z, k, FloppyCtrl, b, v)
    BY <2>4 DEF Sure
  <2> QED
    BY <2>2, <2>3, <2>4, <2>5 DEF Lit, Follows
<1> QED
  BY <1>1, <1>2 DEF AskedList, Halves

LEMMA SilentAsked == \A s : Silent(s) => AskedList(s)
BY DEF Silent, AskedList

Turn(c, v) == Change(FloppyCtrl, c :> v)

LEMMA TurnIs ==
  ASSUME NEW c, NEW v
  PROVE  /\ Turn(c, v).op = "change" /\ Turn(c, v).reg = FloppyCtrl /\ ~Asks(Turn(c, v))
         /\ Put(Turn(c, v), FloppyCtrl, c, v) /\ \A b : b # c => ~Touch(Turn(c, v), FloppyCtrl, b)
<1>1. /\ Turn(c, v).op = "change" /\ Turn(c, v).reg = FloppyCtrl
      /\ DOMAIN Turn(c, v).upd = {c} /\ Turn(c, v).upd[c] = v
  <2>1. DOMAIN (c :> v) = {c} /\ (c :> v)[c] = v
    BY DEF :>
  <2> QED
    BY <2>1, ChangeIs DEF Turn
<1> QED
  BY <1>1 DEF Asks, Put, Touch

LEMMA PinIs ==
  /\ SetIo("PIN10", 0) = << Turn(0, 0) >> /\ SetIo("PIN10", 1) = << Turn(0, 1) >>
  /\ SetIo("PIN12", 0) = << Turn(1, 0) >> /\ SetIo("PIN12", 1) = << Turn(1, 1) >>
  /\ SetIo("PIN14", 0) = << Turn(2, 0) >> /\ SetIo("PIN14", 1) = << Turn(2, 1) >>
  /\ SetIo("PIN6", 0) = << Turn(3, 0) >> /\ SetIo("PIN6", 1) = << Turn(3, 1) >>
  /\ SetIo("PIN16", 0) = << Turn(4, 0) >> /\ SetIo("PIN16", 1) = << Turn(4, 1) >>
<1>1. ASSUME NEW name, NEW c, Pin(name) # {}, \A p \in Pin(name) : p[2] = FloppyCtrl /\ p[3] = c
      PROVE  SetIo(name, 0) = << Turn(c, 0) >> /\ SetIo(name, 1) = << Turn(c, 1) >>
  <2>1. ASSUME NEW v PROVE SetIo(name, v) = << Turn(c, IF v = 0 THEN 0 ELSE 1) >>
    <3>1. PICK p \in Pin(name) :
            SetIo(name, v) = << Change(p[2], p[3] :> IF v = 0 THEN 0 ELSE 1) >>
      BY <1>1, SetIoIs
    <3>2. p[2] = FloppyCtrl /\ p[3] = c
      BY <1>1
    <3> QED
      BY <3>1, <3>2 DEF Turn
  <2>2. SetIo(name, 0) = << Turn(c, IF 0 = 0 THEN 0 ELSE 1) >>
    BY <2>1
  <2>3. SetIo(name, 1) = << Turn(c, IF 1 = 0 THEN 0 ELSE 1) >>
    BY <2>1
  <2> QED
    BY <2>2, <2>3
<1> QED
  BY <1>1, SelectPins

\* One question of the line c.
LEMMA AskedTest ==
  ASSUME NEW s, AskedList(s), Lit(s, Len(s) + 1, 5), NEW c \in 0 .. 4, NEW z,
         z = s \o ((<< Turn(c, 1) >> \o << Asking >>) \o << Turn(c, 0) >>)
  PROVE  AskedList(z) /\ Lit(z, Len(z) + 1, 5)
<1>1. PICK on, off : on = Turn(c, 1) /\ off = Turn(c, 0)
  OBVIOUS
<1>2. PICK s1, s2 : s1 = s \o <<on>> /\ s2 = s1 \o <<Asking>>
  OBVIOUS
<1>3. Listing(s) /\ Listing(s1) /\ Listing(s2) /\ z = s2 \o <<off>>
  <2>1. PICK x, y, w : x = <<on>> /\ y = <<Asking>> /\ w = <<off>>
    OBVIOUS
  <2>2. Listing(s) /\ Listing(x) /\ Listing(y) /\ Listing(w)
    BY <2>1, Listed DEF AskedList
  <2>3. z = s \o ((x \o y) \o w) /\ s1 = s \o x /\ s2 = s1 \o y
    BY <1>1, <1>2, <2>1, Zenon
  <2>4. Listing(x \o y) /\ Listing(s1)
    BY <2>2, <2>3, JoinEach
  <2>5. Listing(s2)
    BY <2>2, <2>3, <2>4, JoinEach
  <2>6. Regrouped(s, x, y) /\ Regrouped(s, x \o y, w)
    BY <2>2, <2>4, Regroup
  <2>7. z = s2 \o w
    BY <2>3, <2>6, Zenon DEF Regrouped
  <2> QED
    BY <2>1, <2>2, <2>4, <2>5, <2>7, Zenon
<1>4. PICK n : n = Len(s)
  OBVIOUS
<1>5. /\ Halves(s1, s, <<on>>) /\ n \in Nat /\ Len(s1) = n + 1 /\ s1[n + 1] = on
      /\ \A r, b, v : Put(on, r, b, v) => Sure(s1, Len(s1) + 1, r, b, v)
      /\ \A r, b, v : ~Touch(on, r, b) /\ Sure(s, Len(s) + 1, r, b, v) => Sure(s1, Len(s1) + 1, r, b, v)
      /\ \A k \in 1 .. Len(s) + 1 : \A r, b, v : Sure(s, k, r, b, v) => Sure(s1, k, r, b, v)
  BY <1>2, <1>3, <1>4, SureOne
<1>6. /\ Halves(s2, s1, <<Asking>>) /\ Len(s2) = Len(s1) + 1 /\ s2[Len(s1) + 1] = Asking
      /\ \A r, b, v : ~Touch(Asking, r, b) /\ Sure(s1, Len(s1) + 1, r, b, v) => Sure(s2, Len(s2) + 1, r, b, v)
      /\ \A k \in 1 .. Len(s1) + 1 : \A r, b, v : Sure(s1, k, r, b, v) => Sure(s2, k, r, b, v)
  BY <1>2, <1>3, SureOne
<1>7. /\ Halves(z, s2, <<off>>) /\ Len(z) = Len(s2) + 1 /\ z[Len(s2) + 1] = off
      /\ \A r, b, v : Put(off, r, b, v) => Sure(z, Len(z) + 1, r, b, v)
      /\ \A r, b, v : ~Touch(off, r, b) /\ Sure(s2, Len(s2) + 1, r, b, v) => Sure(z, Len(z) + 1, r, b, v)
      /\ \A k \in 1 .. Len(s2) + 1 : \A r, b, v : Sure(s2, k, r, b, v) => Sure(z, k, r, b, v)
  BY <1>3, SureOne
<1>8. /\ on.op = "change" /\ off.op = "change" /\ off.reg = FloppyCtrl /\ ~Asks(on) /\ ~Asks(off)
      /\ Put(on, FloppyCtrl, c, 1) /\ Put(off, FloppyCtrl, c, 0)
      /\ \A b : b # c => ~Touch(on, FloppyCtrl, b) /\ ~Touch(off, FloppyCtrl, b)
      /\ \A b : ~Touch(Asking, FloppyCtrl, b)
  <2>1. Asking.op = "do" /\ Asking.call[1] = "track00"
    BY AskingIs
  <2>2. \A b : ~Touch(Asking, FloppyCtrl, b)
    BY <2>1 DEF Touch
  <2> QED
    BY <1>1, <2>2, TurnIs
<1>9. \A b \in 0 .. 4 : Sure(s, Len(s) + 1, FloppyCtrl, b, 0)
  <2>1. \A b \in 0 .. 4 : b # 5
    OBVIOUS
  <2> QED
    BY <2>1 DEF Lit
<1>10. Lit(s1, Len(s1) + 1, c)
  BY <1>5, <1>8, <1>9 DEF Lit
<1>11. Lit(s2, Len(s2) + 1, c)
  BY <1>6, <1>8, <1>10 DEF Lit
<1>12. Lit(z, Len(z) + 1, 5)
  <2>1. ASSUME NEW b \in 0 .. 4 PROVE Sure(z, Len(z) + 1, FloppyCtrl, b, 0)
    <3>1. CASE b = c
      BY <1>7, <1>8, <3>1
    <3>2. CASE b # c
      BY <1>7, <1>8, <1>11, <3>2 DEF Lit
    <3> QED
      BY <3>1, <3>2
  <2>2. \A b \in 0 .. 4 : b # 5
    OBVIOUS
  <2> QED
    BY <2>1, <2>2 DEF Lit
<1>13. /\ Len(s1) = n + 1 /\ Len(s2) = n + 2 /\ Len(z) = n + 3 /\ DOMAIN z = 1 .. n + 3
       /\ DOMAIN s = 1 .. n /\ DOMAIN s1 = 1 .. n + 1 /\ DOMAIN s2 = 1 .. n + 2
       /\ \A i \in 1 .. n : s1[i] = s[i]
       /\ \A i \in 1 .. n + 1 : s2[i] = s1[i]
       /\ \A i \in 1 .. n + 2 : z[i] = s2[i]
  <2>1. n + 1 + 1 = n + 2 /\ n + 2 + 1 = n + 3
    BY <1>5
  <2>2. Len(s1) = n + 1 /\ Len(s2) = n + 2 /\ Len(z) = n + 3
    BY <1>5, <1>6, <1>7, <2>1
  <2>3. Listing(z)
    BY <1>7 DEF Halves
  <2>4. \A y : Listing(y) => DOMAIN y = 1 .. Len(y)
    BY DEF Listing
  <2>5. /\ \A i \in 1 .. n : s1[i] = s[i]
        /\ \A i \in 1 .. n + 1 : s2[i] = s1[i]
        /\ \A i \in 1 .. n + 2 : z[i] = s2[i]
    BY <1>4, <1>5, <1>6, <1>7, <2>2 DEF Halves
  <2> QED
    BY <1>3, <1>4, <2>2, <2>3, <2>4, <2>5
<1>14. /\ \A i \in 1 .. n : z[i] = s[i]
       /\ z[n + 1] = on /\ z[n + 2] = Asking /\ z[n + 3] = off
  <2>1. /\ \A i \in 1 .. n : i \in 1 .. n + 1 /\ i \in 1 .. n + 2
        /\ n + 1 \in 1 .. n + 1 /\ n + 1 \in 1 .. n + 2 /\ n + 2 \in 1 .. n + 2
        /\ n + 1 + 1 = n + 2 /\ n + 2 + 1 = n + 3
    BY <1>5
  <2> QED
    BY <1>5, <1>6, <1>7, <1>13, <2>1
<1>15. ASSUME NEW k \in DOMAIN z, Asks(z[k])
       PROVE  (\E e \in 0 .. 4 : Lit(z, k, e)) /\ Follows(z, k)
  <2>1. k \in 1 .. n \/ k = n + 1 \/ k = n + 2 \/ k = n + 3
    BY <1>5, <1>13
  <2>2. CASE k \in 1 .. n
    <3>1. PICK e \in 0 .. 4 : Lit(s, k, e)
      BY <1>13, <1>14, <1>15, <2>2 DEF AskedList
    <3>2. PICK j \in DOMAIN s : j > k /\ s[j].op = "change" /\ s[j].reg = FloppyCtrl
      BY <1>13, <1>14, <1>15, <2>2 DEF AskedList, Follows
    <3>3. k \in 1 .. Len(s) + 1 /\ k \in 1 .. Len(s1) + 1 /\ k \in 1 .. Len(s2) + 1
      BY <1>4, <1>5, <1>13, <2>2
    <3>4. \A r, b, v : Sure(s, k, r, b, v) => Sure(z, k, r, b, v)
      BY <1>5, <1>6, <1>7, <3>3
    <3>5. Lit(z, k, e)
      BY <3>1, <3>4 DEF Lit
    <3>6. j \in DOMAIN z /\ z[j] = s[j]
      BY <1>5, <1>13, <1>14, <3>2
    <3> QED
      BY <3>2, <3>5, <3>6 DEF Follows
  <2>3. CASE k = n + 2
    <3>1. k \in 1 .. Len(s1) + 1 /\ k \in 1 .. Len(s2) + 1 /\ k = Len(s1) + 1
      BY <1>5, <1>13, <2>3
    <3>2. \A r, b, v : Sure(s1, k, r, b, v) => Sure(z, k, r, b, v)
      BY <1>6, <1>7, <3>1
    <3>3. Lit(z, k, c)
      BY <1>10, <3>1, <3>2 DEF Lit
    <3>4. n + 3 \in DOMAIN z /\ n + 3 > k
      BY <1>5, <1>13, <2>3
    <3> QED
      BY <1>8, <1>14, <3>3, <3>4 DEF Follows
  <2> QED
    BY <1>8, <1>14, <1>15, <2>1, <2>2, <2>3
<1>16. Listing(z)
  BY <1>7 DEF Halves
<1> QED
  BY <1>12, <1>15, <1>16 DEF AskedList

\* The five select lines are switched off.
LEMMA OffIs ==
  ASSUME NEW z, z = << Turn(0, 0) >> \o << Turn(1, 0) >> \o << Turn(2, 0) >> \o
                    << Turn(3, 0) >> \o << Turn(4, 0) >>
  PROVE  Silent(z) /\ Lit(z, Len(z) + 1, 5)
<1>1. PICK a0, a1, a2, a3, a4 : /\ a0 = Turn(0, 0) /\ a1 = Turn(1, 0) /\ a2 = Turn(2, 0)
                                /\ a3 = Turn(3, 0) /\ a4 = Turn(4, 0)
  OBVIOUS
<1>2. PICK s0, s1, s2, s3 : /\ s0 = <<a0>> /\ s1 = s0 \o <<a1>> /\ s2 = s1 \o <<a2>>
                            /\ s3 = s2 \o <<a3>>
  OBVIOUS
<1>3. z = s3 \o <<a4>>
  BY <1>1, <1>2
<1>4. /\ \A b : b # 0 => ~Touch(a0, FloppyCtrl, b)
      /\ \A b : b # 1 => ~Touch(a1, FloppyCtrl, b)
      /\ \A b : b # 2 => ~Touch(a2, FloppyCtrl, b)
      /\ \A b : b # 3 => ~Touch(a3, FloppyCtrl, b)
      /\ \A b : b # 4 => ~Touch(a4, FloppyCtrl, b)
  BY <1>1, TurnIs
<1>5. /\ Put(a0, FloppyCtrl, 0, 0) /\ Put(a1, FloppyCtrl, 1, 0) /\ Put(a2, FloppyCtrl, 2, 0)
      /\ Put(a3, FloppyCtrl, 3, 0) /\ Put(a4, FloppyCtrl, 4, 0)
  BY <1>1, TurnIs
<1>6. ~Asks(a0) /\ ~Asks(a1) /\ ~Asks(a2) /\ ~Asks(a3) /\ ~Asks(a4)
  BY <1>1, TurnIs
<1>7. Silent(s0) /\ Silent(s1) /\ Silent(s2) /\ Silent(s3) /\ Silent(z)
  <2>1. Silent(s0)
    BY <1>2, <1>6, SilentJoin
  <2>2. Silent(s1)
    BY <1>2, <1>6, <2>1, SilentJoin
  <2>3. Silent(s2)
    BY <1>2, <1>6, <2>2, SilentJoin
  <2>4. Silent(s3)
    BY <1>2, <1>6, <2>3, SilentJoin
  <2>5. Silent(z)
    BY <1>3, <1>6, <2>4, SilentJoin
  <2> QED
    BY <2>1, <2>2, <2>3, <2>4, <2>5
<1>8. Listing(s0) /\ Listing(s1) /\ Listing(s2) /\ Listing(s3)
  BY <1>7 DEF Silent
<1> DEFINE Ends(s, b) == Sure(s, Len(s) + 1, FloppyCtrl, b, 0)
<1>9. ASSUME NEW s, Listing(s), NEW a, NEW y, y = s \o <<a>>
      PROVE  /\ \A b : Put(a, FloppyCtrl, b, 0) => Ends(y, b)
             /\ \A b : ~Touch(a, FloppyCtrl, b) /\ Ends(s, b) => Ends(y, b)
  BY <1>9, SureOne
<1>10. Ends(s0, 0)
  <2>1. Len(s0) = 1 /\ s0[1] = a0 /\ 1 \in 1 .. 1 /\ \A j \in 1 + 1 .. 1 : FALSE
    BY <1>2, Listed
  <2>2. Len(s0) + 1 - 1 = 1
    BY <2>1
  <2> QED
    BY <1>5, <2>1, <2>2 DEF Sure
<1> HIDE DEF Ends
<1>11. Ends(s1, 0) /\ Ends(s1, 1)
  <2>1. \A b : Put(a1, FloppyCtrl, b, 0) => Ends(s1, b)
    BY <1>2, <1>8, <1>9
  <2>2. \A b : ~Touch(a1, FloppyCtrl, b) /\ Ends(s0, b) => Ends(s1, b)
    BY <1>2, <1>8, <1>9
  <2> QED
    BY <1>4, <1>5, <1>10, <2>1, <2>2
<1>12. Ends(s2, 0) /\ Ends(s2, 1) /\ Ends(s2, 2)
  <2>1. \A b : Put(a2, FloppyCtrl, b, 0) => Ends(s2, b)
    BY <1>2, <1>8, <1>9
  <2>2. \A b : ~Touch(a2, FloppyCtrl, b) /\ Ends(s1, b) => Ends(s2, b)
    BY <1>2, <1>8, <1>9
  <2> QED
    BY <1>4, <1>5, <1>11, <2>1, <2>2
<1>13. Ends(s3, 0) /\ Ends(s3, 1) /\ Ends(s3, 2) /\ Ends(s3, 3)
  <2>1. \A b : Put(a3, FloppyCtrl, b, 0) => Ends(s3, b)
    BY <1>2, <1>8, <1>9
  <2>2. \A b : ~Touch(a3, FloppyCtrl, b) /\ Ends(s2, b) => Ends(s3, b)
    BY <1>2, <1>8, <1>9
  <2> QED
    BY <1>4, <1>5, <1>12, <2>1, <2>2
<1>14. Ends(z, 0) /\ Ends(z, 1) /\ Ends(z, 2) /\ Ends(z, 3) /\ Ends(z, 4)
  <2>1. \A b : Put(a4, FloppyCtrl, b, 0) => Ends(z, b)
    BY <1>3, <1>8, <1>9
  <2>2. \A b : ~Touch(a4, FloppyCtrl, b) /\ Ends(s3, b) => Ends(z, b)
    BY <1>3, <1>8, <1>9
  <2> QED
    BY <1>4, <1>5, <1>13, <2>1, <2>2
<1>15. \A b \in 0 .. 4 : b # 5 /\ (b = 0 \/ b = 1 \/ b = 2 \/ b = 3 \/ b = 4)
  OBVIOUS
<1>16. Lit(z, Len(z) + 1, 5)
  BY <1>14, <1>15 DEF Lit, Ends
<1> QED
  BY <1>7, <1>16

LEMMA AutodetectAsked == AskedList(Autodetect)
<1> DEFINE all   == SetIo("PIN10", 0) \o SetIo("PIN12", 0) \o SetIo("PIN14", 0) \o
                    SetIo("PIN6", 0) \o SetIo("PIN16", 0)
           ask(c) == (<< Turn(c, 1) >> \o << Asking >>) \o << Turn(c, 0) >>
<1>1. Autodetect = all \o ask(0) \o ask(1) \o ask(2) \o ask(3) \o ask(4) \o all
  BY PinIs, AskingIs DEF Autodetect
<1>2. Silent(all) /\ Lit(all, Len(all) + 1, 5)
  BY PinIs, OffIs
<1> HIDE DEF all
<1>3. PICK s0, s1, s2, s3, s4 :
        /\ s0 = all \o ask(0) /\ s1 = s0 \o ask(1) /\ s2 = s1 \o ask(2) /\ s3 = s2 \o ask(3)
        /\ s4 = s3 \o ask(4)
  OBVIOUS
<1>4. ASSUME NEW s, AskedList(s), Lit(s, Len(s) + 1, 5), NEW c \in 0 .. 4, NEW z, z = s \o ask(c)
      PROVE  AskedList(z) /\ Lit(z, Len(z) + 1, 5)
  BY <1>4, AskedTest
<1> HIDE DEF ask
<1>5. 0 \in 0 .. 4 /\ 1 \in 0 .. 4 /\ 2 \in 0 .. 4 /\ 3 \in 0 .. 4 /\ 4 \in 0 .. 4
  OBVIOUS
<1>6. AskedList(s0) /\ Lit(s0, Len(s0) + 1, 5)
  BY <1>2, <1>3, <1>4, <1>5, SilentAsked
<1>7. AskedList(s1) /\ Lit(s1, Len(s1) + 1, 5)
  BY <1>3, <1>4, <1>5, <1>6
<1>8. AskedList(s2) /\ Lit(s2, Len(s2) + 1, 5)
  BY <1>3, <1>4, <1>5, <1>7
<1>9. AskedList(s3) /\ Lit(s3, Len(s3) + 1, 5)
  BY <1>3, <1>4, <1>5, <1>8
<1>10. AskedList(s4) /\ Lit(s4, Len(s4) + 1, 5)
  BY <1>3, <1>4, <1>5, <1>9
<1>11. Autodetect = s4 \o all
  BY <1>1, <1>3
<1> QED
  BY <1>2, <1>10, <1>11, AskedBefore

LEMMA LoadSilent ==
  ASSUME NEW d, NEW f \in Files, NEW h, NEW e
  PROVE  Silent(LoadStreamHfe(d, f, h, e))
<1>1. PICK clear, x, disk, step :
        /\ clear = Write(Image(d), None) /\ x = Filling(d, f)
        /\ disk = Change(Config(d), 12 :> 1) /\ step = Change(Config(d), 25 :> e)
  OBVIOUS
<1>2. PICK end : end = IF f.read < f.tracks THEN <<>> ELSE <<disk, step>>
  OBVIOUS
<1>3. LoadStreamHfe(d, f, h, e) = IF ~f.sound THEN <<>> ELSE (IndexCfg(d, h, 0) \o (<<clear>> \o x)) \o end
  BY <1>1, <1>2, LoadIs
<1>4. ~Asks(clear) /\ ~Asks(disk) /\ ~Asks(step)
  BY <1>1, AccessIs, ChangeIs DEF Asks, Write
<1>5. Silent(IndexCfg(d, h, 0))
  BY FieldsGood, SilentJoin
<1>6. Silent(x)
  <2>1. Listing(x) /\ \A i \in DOMAIN x : x[i].op = "change"
    BY <1>1, FillingIs
  <2> QED
    BY <2>1 DEF Silent, Asks
<1>7. Silent(end)
  <2>1. <<disk, step>> = <<disk>> \o <<step>>
    BY Pair
  <2>2. Silent(<<disk, step>>)
    BY <1>4, <2>1, SilentJoin
  <2> QED
    BY <1>2, <2>2, SilentJoin
<1>8. Silent(<<clear>> \o x)
  BY <1>4, <1>6, SilentJoin
<1> QED
  BY <1>3, <1>5, <1>7, <1>8, SilentJoin

LEMMA ToolAsked ==
  ASSUME Wired, Commands, NEW m \in Modes, NEW c \in Calls["tool"][m]
  PROVE  AskedList(Program(c))
<1>1. PICK p, q, r, l, a :
        /\ Good(p) /\ Good(q) /\ Good(r) /\ Listing(l) /\ a \in {<<>>, Autodetect}
        /\ \/ l = <<>>
           \/ /\ "load" \in DOMAIN c[3] /\ c[3]["load"] \in Files
              /\ \E h, e : l = LoadStreamHfe(c[2], c[3]["load"], h, e)
        /\ c[1] = "pauline" /\ c[2] \in Drives
        /\ Program(c) = (((p \o l) \o q) \o a) \o r
  BY ToolParts
<1>2. Silent(p) /\ Silent(q) /\ Silent(r)
  BY <1>1, SilentJoin
<1>3. Silent(l) /\ AskedList(a)
  BY <1>1, LoadSilent, SilentJoin, AutodetectAsked, SilentAsked
<1>4. PICK s1, s2 : s1 = (p \o l) \o q /\ s2 = s1 \o a
  OBVIOUS
<1>5. Silent(s1)
  BY <1>2, <1>3, <1>4, SilentJoin
<1>6. AskedList(s2)
  BY <1>3, <1>4, <1>5, AskedAfter
<1> QED
  BY <1>1, <1>2, <1>4, <1>6, AskedBefore

-----------------------------------------------------------------------------
(* The questions that are still to be asked, w being what the port holds.  *)

Answered(s, w) == \A k \in DOMAIN s : Asks(s[k]) =>
  /\ \E c \in 0 .. 4 : \A b \in 0 .. 4 :
       Will(s, k, FloppyCtrl, b, IF b = c THEN 1 ELSE 0, w[b])
  /\ Follows(s, k)

Asked == Answered(todo["tool"], reg[FloppyCtrl])

LEMMA AskedAnswered == \A s : AskedList(s) => \A w : Answered(s, w)
BY DEF AskedList, Answered, Lit, Will

LEMMA AnsweredSame ==
  ASSUME NEW s, NEW w, Answered(s, w), NEW w1,
         (\E k \in DOMAIN s : Follows(s, k)) => \A b \in 0 .. 4 : w1[b] = w[b]
  PROVE  Answered(s, w1)
<1>1. ASSUME NEW k \in DOMAIN s, Asks(s[k])
      PROVE  /\ \E c \in 0 .. 4 : \A b \in 0 .. 4 :
                  Will(s, k, FloppyCtrl, b, IF b = c THEN 1 ELSE 0, w1[b])
             /\ Follows(s, k)
  <2>1. /\ \E c \in 0 .. 4 : \A b \in 0 .. 4 :
             Will(s, k, FloppyCtrl, b, IF b = c THEN 1 ELSE 0, w[b])
        /\ Follows(s, k)
    BY <1>1 DEF Answered
  <2>2. \A b \in 0 .. 4 : w1[b] = w[b]
    BY <2>1
  <2>3. PICK c \in 0 .. 4 : \A b \in 0 .. 4 :
             Will(s, k, FloppyCtrl, b, IF b = c THEN 1 ELSE 0, w[b])
    BY <2>1
  <2>4. \A b \in 0 .. 4 : Will(s, k, FloppyCtrl, b, IF b = c THEN 1 ELSE 0, w1[b])
    BY <2>2, <2>3
  <2> QED
    BY <2>1, <2>4
<1> QED
  BY <1>1 DEF Answered

\* One access of the program run from a shell.
LEMMA AskMoves ==
  ASSUME Wired, Held, NEW a, NEW u, Moves("tool", a, u), Writes(a), NeutralList(todo["tool"]),
         type["tool"] = "GENERIC", Asked
  PROVE  Asked'
<1>0. "tool" \in Threads /\ Process("tool") = "tool" /\ FloppyCtrl \in Shared
  BY ThreadsAre DEF Shared
<1>00. PICK s, z, w, w1 :
         s = todo["tool"] /\ z = todo'["tool"] /\ w = reg[FloppyCtrl] /\ w1 = reg'[FloppyCtrl]
  OBVIOUS
<1>1. Listing(s) /\ 1 \in DOMAIN s /\ a = s[1] /\ Listing(u) /\ Neutral(a) /\ Silent(u)
  <2>1. /\ Listing(todo["tool"]) /\ 1 \in DOMAIN todo["tool"] /\ a = todo["tool"][1] /\ Listing(u)
        /\ (a.op # "interface" => Within(u, {FloppyCtrl, ExtraOut}))
    BY <1>0, MoveBody
  <2>2. Neutral(a)
    BY <2>1 DEF NeutralList
  <2>3. Within(u, {FloppyCtrl, ExtraOut})
    BY <2>1, <2>2 DEF Neutral
  <2>4. Silent(u)
    BY <2>3, SilentJoin
  <2> QED
    BY <1>00, <2>1, <2>2, <2>4
<1>2. /\ Len(u) \in Nat /\ Len(s) \in Nat /\ DOMAIN s = 1 .. Len(s) /\ DOMAIN u = 1 .. Len(u)
      /\ \A k \in DOMAIN z :
           \/ k \in DOMAIN u /\ z[k] = u[k]
           \/ \E i \in 2 .. Len(s) : k = Len(u) + (i - 1) /\ z[k] = s[i]
      /\ \A i \in 2 .. Len(s) : /\ Len(u) + (i - 1) \in DOMAIN z
                                /\ z[Len(u) + (i - 1)] = s[i]
  <2>0. "tool" \in Threads /\ Listing(u)
    BY <1>0, <1>1
  <2>1. /\ Len(u) \in Nat /\ Len(todo["tool"]) \in Nat /\ DOMAIN todo["tool"] = 1 .. Len(todo["tool"])
        /\ DOMAIN u = 1 .. Len(u)
    BY <2>0, MoveList
  <2>2. \A k \in DOMAIN todo'["tool"] :
          \/ k \in DOMAIN u /\ todo'["tool"][k] = u[k]
          \/ \E i \in 2 .. Len(todo["tool"]) :
               k = Len(u) + (i - 1) /\ todo'["tool"][k] = todo["tool"][i]
    BY <2>0, MoveList
  <2>3. \A i \in 2 .. Len(todo["tool"]) : /\ Len(u) + (i - 1) \in DOMAIN todo'["tool"]
                                         /\ todo'["tool"][Len(u) + (i - 1)] = todo["tool"][i]
    BY <2>0, MoveList
  <2> QED
    BY <1>00, <2>1, <2>2, <2>3
<1>3. ASSUME NEW k \in DOMAIN z, Asks(z[k])
      PROVE  /\ \E c \in 0 .. 4 : \A b \in 0 .. 4 :
                  Will(z, k, FloppyCtrl, b, IF b = c THEN 1 ELSE 0, w1[b])
             /\ Follows(z, k)
  <2>1. PICK i \in 2 .. Len(s) : k = Len(u) + (i - 1) /\ z[k] = s[i]
    BY <1>1, <1>2, <1>3 DEF Silent
  <2>2. i \in DOMAIN s /\ Answered(s, w)
    BY <1>00, <1>2, <2>1 DEF Asked
  <2>3. PICK c \in 0 .. 4 : \A b \in 0 .. 4 :
          Will(s, i, FloppyCtrl, b, IF b = c THEN 1 ELSE 0, w[b])
    BY <1>3, <2>1, <2>2 DEF Answered
  <2>4. PICK j \in DOMAIN s : j > i /\ s[j].op = "change" /\ s[j].reg = FloppyCtrl
    BY <1>3, <2>1, <2>2 DEF Answered, Follows
  <2>5. ASSUME NEW b \in 0 .. 4
        PROVE  Will(z, k, FloppyCtrl, b, IF b = c THEN 1 ELSE 0, w1[b])
    <3>0. PICK v : v = IF b = c THEN 1 ELSE 0
      OBVIOUS
    <3>1. Will(todo["tool"], i, FloppyCtrl, b, v, reg[FloppyCtrl][b])
      BY <1>00, <2>3, <3>0
    <3>2. i \in 2 .. Len(todo["tool"]) + 1
      BY <1>00, <1>2, <2>1
    <3>3. b \in Fields[FloppyCtrl] /\ a.op # "interface" /\ type[Process("tool")] # "APPLE_MACINTOSH"
      <4>1. b \in 0 .. 5
        OBVIOUS
      <4> QED
        BY <1>0, <1>1, <4>1, FieldsAre DEF Neutral
    <3>4. Will(todo'["tool"], Len(u) + (i - 1), FloppyCtrl, b, v, reg'[FloppyCtrl][b])
      BY <1>0, <3>1, <3>2, <3>3, WillMoves
    <3> QED
      BY <1>00, <2>1, <3>0, <3>4
  <2>6. Follows(z, k)
    <3>1. j \in 2 .. Len(s) /\ Len(u) + (j - 1) > k
      BY <1>2, <2>1, <2>4
    <3>2. Len(u) + (j - 1) \in DOMAIN z /\ z[Len(u) + (j - 1)] = s[j]
      BY <1>2, <3>1
    <3> QED
      BY <2>4, <3>1, <3>2 DEF Follows
  <2> QED
    BY <2>5, <2>6
<1>4. Answered(z, w1)
  BY <1>3 DEF Answered
<1> QED
  BY <1>00, <1>4 DEF Asked

\* While a question is to come, the port is the shell's.
LEMMA PortLeft ==
  ASSUME Wired, Apart, Held, NEW t \in {"script", "dump"}, NEW a, NEW u, Moves(t, a, u), Writes(a),
         \E k \in DOMAIN todo["tool"] : Follows(todo["tool"], k)
  PROVE  \A b \in 0 .. 4 : reg'[FloppyCtrl][b] = reg[FloppyCtrl][b]
<1>0. t \in Threads /\ "tool" \in Threads /\ mode \in Modes /\ Source /\ FloppyCtrl \in Shared
  BY ThreadsAre DEF Held, Ordered, Shape, Shared
<1>1. /\ Listing(todo[t]) /\ 1 \in DOMAIN todo[t] /\ a = todo[t][1] /\ Proper(a)
      /\ todo[t] # <<>>
  BY <1>0, MoveBody DEF Moves
<1>2. FloppyCtrl \in Reaches(todo["tool"]) /\ todo["tool"] # <<>>
  <2>1. PICK j \in DOMAIN todo["tool"] :
          todo["tool"][j].op = "change" /\ todo["tool"][j].reg = FloppyCtrl
    BY DEF Follows
  <2>2. FloppyCtrl \in Reach(todo["tool"][j])
    BY <2>1 DEF Reach
  <2>3. todo["tool"] # <<>>
    BY <2>1, Listed
  <2> QED
    BY <2>2, <2>3 DEF Reaches
<1>3. PICK c \in Calls["tool"][mode] : FloppyCtrl \in Reaches(Program(c))
  BY <1>0, <1>2 DEF Source
<1>4. t = "script"
  <2>1. CASE t = "dump"
    <3>1. Dumps[mode] # {}
      BY <1>0, <1>1, <2>1 DEF Source
    <3> QED
      BY <1>0, <1>3, <3>1 DEF Apart
  <2> QED
    BY <2>1
<1>5. PICK e \in Calls["script"][mode] : Reaches(todo[t]) \subseteq Reaches(Program(e))
  BY <1>0, <1>1, <1>4 DEF Source
<1>6. FloppyCtrl \notin Reaches(Program(e))
  BY <1>0, <1>3, <1>5 DEF Apart
<1>7. FloppyCtrl \notin Reach(a)
  BY <1>1, <1>5, <1>6 DEF Reaches
<1>8. \A b : ~Touch(a, FloppyCtrl, b)
  <2>1. ~(a.op \in {"change", "write"} /\ a.reg = FloppyCtrl)
    BY <1>7 DEF Reach
  <2>2. a.op = "do" => a.call[2] = -1
    BY <1>7 DEF Reach
  <2>3. a.op = "do" => a.call[1] = "track00"
    BY <1>1, <2>2 DEF Proper
  <2> QED
    BY <2>1, <2>3, RegistersDiffer DEF Touch
<1>9. \A b \in 0 .. 4 : b \in Fields[FloppyCtrl]
  <2>1. \A b \in 0 .. 4 : b \in 0 .. 5
    OBVIOUS
  <2> QED
    BY <2>1, FieldsAre
<1> QED
  BY <1>0, <1>8, <1>9 DEF Writes

LEMMA StepAsked ==
  ASSUME Wired, Commands, Apart, ~Overlap, Stays, Asked, [BoardNext]_boardVars
  PROVE  Asked'
<1>0. Held /\ Full /\ Interfaces /\ mode \in Modes
  BY DEF Stays, Held, Ordered, Shape
<1>1. Threads = {"script", "dump", "tool"}
  BY ThreadsAre
<1>2. ASSUME todo'["tool"] = todo["tool"], reg' = reg PROVE Asked'
  BY <1>2 DEF Asked
<1>3. ASSUME NEW t \in {"script", "tool"}, Issue(t) PROVE Asked'
  <2>1. PICK c \in Calls[t][mode] : todo' = [todo EXCEPT ![t] = Program(c)]
    BY <1>3 DEF Issue
  <2>2. reg' = reg
    BY <1>3 DEF Issue
  <2>3. todo'[t] = Program(c) /\ \A o \in Threads : o # t => todo'[o] = todo[o]
    BY <1>0, <1>1, <2>1, Begins
  <2>4. CASE t = "script"
    BY <1>1, <1>2, <2>2, <2>3, <2>4
  <2>5. CASE t = "tool"
    <3>1. AskedList(Program(c))
      BY <1>0, <2>5, ToolAsked
    <3>2. \A w : Answered(Program(c), w)
      BY <3>1, AskedAnswered
    <3> QED
      BY <2>3, <2>5, <3>2 DEF Asked
  <2> QED
    BY <2>4, <2>5
<1>4. CASE BeginDump
  <2>1. PICK s : todo' = [todo EXCEPT !["dump"] = s]
    BY <1>4 DEF BeginDump
  <2>2. reg' = reg
    BY <1>4 DEF BeginDump
  <2>3. todo'["tool"] = todo["tool"]
    BY <1>0, <1>1, <2>1, Begins
  <2> QED
    BY <1>2, <2>2, <2>3
<1>5. ASSUME NEW t \in Threads, ThreadStep(t) \/ (t = "dump" /\ EndDump) PROVE Asked'
  <2>1. Rests \/ \E a, u : Moves(t, a, u) /\ Writes(a)
    BY <1>0, <1>5, ThreadMoves
  <2>2. CASE Rests
    BY <1>2, <2>2 DEF Rests
  <2>3. ASSUME NEW a, NEW u, Moves(t, a, u), Writes(a) PROVE Asked'
    <3>1. \A o \in Threads : o # t => todo'[o] = todo[o]
      <4>1. Listing(u)
        BY <1>0, <2>3, MoveBody
      <4> QED
        BY <1>0, <2>3, <4>1, MoveList
    <3>2. CASE t \in {"script", "dump"}
      <4>1. (\E k \in DOMAIN todo["tool"] : Follows(todo["tool"], k)) =>
              \A b \in 0 .. 4 : reg'[FloppyCtrl][b] = reg[FloppyCtrl][b]
        BY <1>0, <2>3, <3>2, PortLeft
      <4>2. Answered(todo["tool"], reg'[FloppyCtrl])
        BY <4>1, AnsweredSame DEF Asked
      <4> QED
        BY <1>1, <3>1, <3>2, <4>2 DEF Asked
    <3>3. CASE t = "tool"
      BY <1>0, <2>3, <3>3, AskMoves DEF Interfaces
    <3> QED
      BY <1>1, <3>2, <3>3
  <2> QED
    BY <2>1, <2>2, <2>3
<1>6. CASE UNCHANGED boardVars
  BY <1>2, <1>6 DEF boardVars
<1>7. CASE SetEnv
  BY <1>2, <1>7 DEF SetEnv
<1> QED
  BY <1>1, <1>3, <1>4, <1>5, <1>6, <1>7 DEF BoardNext

\* What the head of the shell's list asks, it asks of one line.
LEMMA AskedNow == ASSUME Held, Asked PROVE OneLineAsked
<1> SUFFICES ASSUME Next1("tool", "do"), Head(todo["tool"]).call[2] = -1
             PROVE  Cardinality({b \in 0 .. 4 : reg[FloppyCtrl][b] = 1}) = 1
  BY DEF OneLineAsked
<1>0. PICK s, w : s = todo["tool"] /\ w = reg[FloppyCtrl]
  OBVIOUS
<1>1. Listing(s) /\ s # <<>>
  BY <1>0, ThreadsAre DEF Held, Ordered, Lists, Fine, Next1
<1>2. 1 \in DOMAIN s /\ Head(s) = s[1]
  BY <1>1, RestEach
<1>3. Asks(s[1]) /\ Answered(s, w)
  BY <1>0, <1>2 DEF Next1, Asks, Asked
<1>4. PICK c \in 0 .. 4 : \A b \in 0 .. 4 : Will(s, 1, FloppyCtrl, b, IF b = c THEN 1 ELSE 0, w[b])
  BY <1>2, <1>3 DEF Answered
<1>5. \A b \in 0 .. 4 : w[b] = IF b = c THEN 1 ELSE 0
  BY <1>4, WillNow
<1>6. {b \in 0 .. 4 : w[b] = 1} = {c}
  BY <1>4, <1>5
<1>7. Cardinality({c}) = 1
  BY FS_Singleton
<1> QED
  BY <1>0, <1>6, <1>7

\* When a shell's detection of the drives asks whether a head is at track 0,
\* one of the five select lines is on, whatever the clients do meanwhile.
THEOREM OneLineAskedCorrect ==
  ASSUME Wired, Commands, Apart, ~Overlap
  PROVE  BoardSpec => []OneLineAsked
<1>1. BoardInit => Stays /\ Asked
  <2>1. BoardInit => Asked
    <3>1. ASSUME BoardInit PROVE todo["tool"] = <<>>
      BY <3>1, ThreadsAre DEF BoardInit
    <3>2. \A w : Answered(<<>>, w)
      BY Listed DEF Answered
    <3> QED
      BY <3>1, <3>2 DEF Asked
  <2> QED
    BY <2>1, InitStays
<1>2. Stays /\ Asked /\ [BoardNext]_boardVars => (Stays /\ Asked)'
  BY StepStays, StepAsked
<1>3. Stays /\ Asked => OneLineAsked
  BY AskedNow DEF Stays
<1> QED
  BY <1>1, <1>2, <1>3, PTL DEF BoardSpec
-----------------------------------------------------------------------------
(* The capture: the lines of the floppy port a dump needs                   *)

Shoots(a) == a.op = "change" /\ a.call = <<"capture">>

\* Of the port, the dump of the side sd of the drive d wants bit b to be v.
Wants(d, sd, b, v) ==
  \/ b = LineBit("select", d) /\ v = 1
  \/ b = LineBit("motor", d) /\ v = 1
  \/ b = 5 /\ v = sd

Mute(s)   == Listing(s) /\ \A i \in DOMAIN s : ~Shoots(s[i])
Lasts(s)  == \A i \in DOMAIN s : s[i].op # "end"
Closes(s) == \E i \in DOMAIN s : s[i].op = "end"
Clear(s)  == Listing(s) /\ \A i \in DOMAIN s : \A b \in 0 .. 5 : ~Touch(s[i], FloppyCtrl, b)

\* After the accesses s bit b of the port is v; or what the dump wants is left so.
Brings(s, b, v) == Sure(s, Len(s) + 1, FloppyCtrl, b, v)
Firm(s, d, sd)  == Listing(s) /\ \A b, v : Wants(d, sd, b, v) =>
                     Will(s, Len(s) + 1, FloppyCtrl, b, v, v)

\* The capture comes before the dump's end, with the port as the dump wants it.
Taken(s, d, sd) == Listing(s) /\ \A k \in DOMAIN s : Shoots(s[k]) =>
  /\ \A i \in DOMAIN s : s[i].op = "end" => i > k
  /\ \A b, v : Wants(d, sd, b, v) => Sure(s, k, FloppyCtrl, b, v)

LEMMA WantsPort ==
  ASSUME Wired, NEW d \in Drives, NEW sd, NEW b, NEW v, Wants(d, sd, b, v)
  PROVE  b \in 0 .. 5 /\ b \in Fields[FloppyCtrl]
<1>1. LineBit("select", d) \in 0 .. 4 /\ LineBit("motor", d) \in 0 .. 4
  BY LineBitIs
<1>2. b \in 0 .. 5
  BY <1>1 DEF Wants
<1> QED
  BY <1>2, FieldsAre

LEMMA MuteJoin ==
  /\ Mute(<<>>) /\ Clear(<<>>) /\ Lasts(<<>>)
  /\ \A a : ~Shoots(a) => Mute(<<a>>)
  /\ \A a : a.op # "end" => Lasts(<<a>>)
  /\ \A a : (\A b \in 0 .. 5 : ~Touch(a, FloppyCtrl, b)) => Clear(<<a>>)
  /\ \A s, u : Mute(s) /\ Mute(u) => Mute(s \o u)
  /\ \A s, u : Clear(s) /\ Clear(u) => Clear(s \o u)
  /\ \A s, u : Listing(s) /\ Listing(u) /\ Lasts(s) /\ Lasts(u) => Lasts(s \o u)
<1>1. /\ Mute(<<>>) /\ Clear(<<>>) /\ Lasts(<<>>)
      /\ \A a : ~Shoots(a) => Mute(<<a>>)
      /\ \A a : a.op # "end" => Lasts(<<a>>)
      /\ \A a : (\A b \in 0 .. 5 : ~Touch(a, FloppyCtrl, b)) => Clear(<<a>>)
  BY Listed DEF Mute, Clear, Lasts
<1>2. ASSUME NEW s, NEW u, Listing(s), Listing(u)
      PROVE  /\ Mute(s) /\ Mute(u) => Mute(s \o u)
             /\ Clear(s) /\ Clear(u) => Clear(s \o u)
             /\ Lasts(s) /\ Lasts(u) => Lasts(s \o u)
  <2>1. Listing(s \o u)
    BY <1>2, JoinEach
  <2>2. \A k \in DOMAIN (s \o u) : \/ \E i \in DOMAIN s : (s \o u)[k] = s[i]
                                   \/ \E i \in DOMAIN u : (s \o u)[k] = u[i]
    BY <1>2, JoinEach
  <2>3. PICK z : z = s \o u
    OBVIOUS
  <2>4. Listing(z) /\ \A k \in DOMAIN z : \/ \E i \in DOMAIN s : z[k] = s[i]
                                          \/ \E i \in DOMAIN u : z[k] = u[i]
    BY <2>1, <2>2, <2>3
  <2>5. Mute(s) /\ Mute(u) => Mute(z)
    BY <2>4 DEF Mute
  <2>6. Clear(s) /\ Clear(u) => Clear(z)
    BY <2>4 DEF Clear
  <2>7. Lasts(s) /\ Lasts(u) => Lasts(z)
    BY <2>4 DEF Lasts
  <2> QED
    BY <2>3, <2>5, <2>6, <2>7
<1>3. \A s, u : Mute(s) /\ Mute(u) => Mute(s \o u)
  BY <1>2 DEF Mute
<1>4. \A s, u : Clear(s) /\ Clear(u) => Clear(s \o u)
  BY <1>2 DEF Clear
<1> QED
  BY <1>1, <1>2, <1>3, <1>4

LEMMA MuteLocked ==
  ASSUME NEW x, Listing(x)
  PROVE  /\ Mute(x) => Mute(Locked(x))
         /\ Lasts(x) => Lasts(Locked(x))
         /\ Clear(x) => Clear(Locked(x))
<1>1. PICK z, l, u : z = Locked(x) /\ l = Calling("lock") /\ u = Calling("unlock")
  OBVIOUS
<1>2. Listing(z) /\ \A k \in DOMAIN z : z[k] \in {l, u} \/ \E i \in DOMAIN x : z[k] = x[i]
  BY <1>1, LockedEach
<1>3. l.op = "lock" /\ u.op = "unlock"
  BY <1>1, AccessIs DEF Calling
<1>4. /\ ~Shoots(l) /\ ~Shoots(u) /\ l.op # "end" /\ u.op # "end"
      /\ \A b : ~Touch(l, FloppyCtrl, b) /\ ~Touch(u, FloppyCtrl, b)
  BY <1>3 DEF Shoots, Touch
<1>5. Mute(x) => Mute(z)
  BY <1>2, <1>4 DEF Mute
<1>6. Lasts(x) => Lasts(z)
  BY <1>2, <1>4 DEF Lasts
<1>7. Clear(x) => Clear(z)
  BY <1>2, <1>4 DEF Clear
<1> QED
  BY <1>1, <1>5, <1>6, <1>7

LEMMA ClearFirm ==
  ASSUME Wired, NEW d \in Drives, NEW sd, NEW s, Clear(s)
  PROVE  /\ Firm(s, d, sd)
         /\ \A k \in 1 .. Len(s) + 1 : \A b, v : Wants(d, sd, b, v) =>
              Will(s, k, FloppyCtrl, b, v, v)
<1>1. Listing(s) /\ Len(s) \in Nat /\ DOMAIN s = 1 .. Len(s)
  BY Joined DEF Clear
<1>2. ASSUME NEW k \in 1 .. Len(s) + 1, NEW b, NEW v, Wants(d, sd, b, v)
      PROVE  Will(s, k, FloppyCtrl, b, v, v)
  <2>1. b \in 0 .. 5
    BY <1>2, WantsPort
  <2>2. \A j \in 1 .. k - 1 : j \in DOMAIN s
    BY <1>1
  <2> QED
    BY <2>1, <2>2 DEF Clear, Will
<1>3. Len(s) + 1 \in 1 .. Len(s) + 1
  BY <1>1
<1> QED
  BY <1>1, <1>2, <1>3 DEF Firm

LEMMA BringJoin ==
  ASSUME NEW s, NEW u, Listing(s), Listing(u), NEW z, z = s \o u
  PROVE  /\ \A d, sd, b, v : Wants(d, sd, b, v) /\ Brings(s, b, v) /\ Firm(u, d, sd) => Brings(z, b, v)
         /\ \A b, v : Brings(u, b, v) => Brings(z, b, v)
<1>1. /\ Len(s) \in Nat /\ Len(u) \in Nat /\ Len(z) = Len(s) + Len(u)
      /\ \A i \in 1 .. Len(u) : z[Len(s) + i] = u[i]
  BY Joined
<1>2. Len(u) + 1 \in 1 .. Len(u) + 1 /\ Len(s) + (Len(u) + 1) = Len(z) + 1
  BY <1>1
<1>3. ASSUME NEW d, NEW sd, NEW b, NEW v, Wants(d, sd, b, v), Brings(s, b, v), Firm(u, d, sd)
      PROVE  Brings(z, b, v)
  <2>1. Will(u, Len(u) + 1, FloppyCtrl, b, v, v)
    BY <1>3 DEF Firm
  <2>2. Sure(s, Len(s) + 1, FloppyCtrl, b, v)
    BY <1>3 DEF Brings
  <2>3. PICK k : k = Len(u) + 1
    OBVIOUS
  <2>4. Sure(s \o u, Len(s) + k, FloppyCtrl, b, v)
    BY <1>2, <2>1, <2>2, <2>3, WillJoin
  <2> QED
    BY <1>2, <2>3, <2>4 DEF Brings
<1>4. ASSUME NEW b, NEW v, Brings(u, b, v) PROVE Brings(z, b, v)
  <2>1. Sure(u, Len(u) + 1, FloppyCtrl, b, v)
    BY <1>4 DEF Brings
  <2>2. PICK k, n : k = Len(u) + 1 /\ n = Len(s)
    OBVIOUS
  <2>3. Sure(z, n + k, FloppyCtrl, b, v)
    BY <1>1, <1>2, <2>1, <2>2, SureParts
  <2> QED
    BY <1>2, <2>2, <2>3 DEF Brings
<1> QED
  BY <1>3, <1>4

\* A call of one access, the mutex held.
LEMMA OneCall ==
  ASSUME NEW a, ~Shoots(a), a.op # "end", NEW d, NEW sd,
         \A b, v : Wants(d, sd, b, v) => Put(a, FloppyCtrl, b, v) \/ ~Touch(a, FloppyCtrl, b),
         NEW z, z = Locked(<<a>>)
  PROVE  /\ Mute(z) /\ Lasts(z) /\ Firm(z, d, sd)
         /\ \A b, v : Put(a, FloppyCtrl, b, v) => Brings(z, b, v)
<1>1. Listing(<<a>>) /\ Len(<<a>>) = 1 /\ DOMAIN <<a>> = {1} /\ <<a>>[1] = a
  BY Listed
<1>2. Mute(z) /\ Lasts(z) /\ Listing(z)
  <2>1. Mute(<<a>>) /\ Lasts(<<a>>)
    BY MuteJoin
  <2> QED
    BY <1>1, <2>1, MuteLocked DEF Mute
<1>3. Len(z) = 3 /\ z[1] = Calling("lock") /\ z[2] = a /\ z[3] = Calling("unlock")
  <2>1. /\ Len(Locked(<<a>>)) = Len(<<a>>) + 2
        /\ Locked(<<a>>)[1] = Calling("lock") /\ Locked(<<a>>)[Len(<<a>>) + 2] = Calling("unlock")
        /\ \A i \in 1 .. Len(<<a>>) : Locked(<<a>>)[i + 1] = <<a>>[i]
    BY <1>1, LockedIs
  <2>2. 1 \in 1 .. 1 /\ 1 + 1 = 2 /\ 1 + 2 = 3
    OBVIOUS
  <2> QED
    BY <1>1, <2>1, <2>2
<1>4. \A b : ~Touch(z[1], FloppyCtrl, b) /\ ~Touch(z[3], FloppyCtrl, b)
  <2>1. Calling("lock").op = "lock" /\ Calling("unlock").op = "unlock"
    BY AccessIs DEF Calling
  <2> QED
    BY <1>3, <2>1 DEF Touch
<1>5. /\ Len(z) + 1 = 4 /\ 2 \in 1 .. 4 - 1 /\ \A j \in 2 + 1 .. 4 - 1 : j = 3
      /\ \A j \in 1 .. 4 - 1 : j = 1 \/ j = 2 \/ j = 3
  <2>1. Len(z) + 1 = 4
    <3>1. PICK n : n = Len(z)
      OBVIOUS
    <3>2. n = 3
      BY <1>3, <3>1
    <3>3. n + 1 = 4
      BY <3>2
    <3> QED
      BY <3>1, <3>3, Zenon
  <2>2. 2 \in 1 .. 4 - 1 /\ \A j \in 2 + 1 .. 4 - 1 : j = 3
    OBVIOUS
  <2>3. \A j \in 1 .. 4 - 1 : j = 1 \/ j = 2 \/ j = 3
    OBVIOUS
  <2> QED
    BY <2>1, <2>2, <2>3
<1>6. ASSUME NEW b, NEW v, Put(a, FloppyCtrl, b, v)
      PROVE  Sure(z, 4, FloppyCtrl, b, v)
  BY <1>3, <1>4, <1>5, <1>6 DEF Sure
<1>7. ASSUME NEW b, NEW v, Wants(d, sd, b, v) PROVE Will(z, 4, FloppyCtrl, b, v, v)
  <2>1. CASE Put(a, FloppyCtrl, b, v)
    BY <1>6, <2>1 DEF Will
  <2>2. CASE ~Touch(a, FloppyCtrl, b)
    BY <1>3, <1>4, <1>5, <2>2 DEF Will
  <2> QED
    BY <1>7, <2>1, <2>2
<1> QED
  BY <1>2, <1>5, <1>6, <1>7 DEF Firm, Brings

\* The calls of the dump.
LEMMA CallsBring ==
  ASSUME Wired, NEW d \in Drives, NEW sd, NEW v, NEW x
  PROVE  /\ Mute(Motor(d, 1)) /\ Lasts(Motor(d, 1)) /\ Brings(Motor(d, 1), LineBit("motor", d), 1)
         /\ Firm(SelectDrive(d, 1), d, sd) /\ Mute(SelectDrive(d, 1)) /\ Lasts(SelectDrive(d, 1))
         /\ Brings(SelectDrive(d, 1), LineBit("select", d), 1)
         /\ Firm(Side(d, sd), d, sd) /\ Mute(Side(d, sd)) /\ Lasts(Side(d, sd))
         /\ Brings(Side(d, sd), 5, sd)
         /\ Mute(AtTrack00(d)) /\ Lasts(AtTrack00(d)) /\ Clear(AtTrack00(d))
         /\ Mute(MoveHead(d, v)) /\ Lasts(MoveHead(d, v)) /\ Clear(MoveHead(d, v))
         /\ Mute(Headload(d, v)) /\ Lasts(Headload(d, v)) /\ Clear(Headload(d, v))
         /\ Mute(SelectDrive(d, v)) /\ Mute(Motor(d, v))
<1>1. ASSUME NEW name, NEW y, NEW a, a = Do(<<name, d, y>>)
      PROVE  /\ a.op = "do" /\ a.call = <<name, d, y>> /\ a.call[1] = name /\ a.call[2] = d
             /\ a.call[3] = y /\ ~Shoots(a) /\ a.op # "end"
             /\ \A b, w : Put(a, FloppyCtrl, b, w) <=>
                  \/ name = "motor" /\ b = LineBit("motor", d) /\ w = (IF y = 0 THEN 0 ELSE 1)
                  \/ name = "side" /\ b = 5 /\ w = y
             /\ \A b : Touch(a, FloppyCtrl, b) <=>
                  \/ name = "motor" /\ b = LineBit("motor", d)
                  \/ name = "side" /\ b = 5
                  \/ name = "release"
  <2>1. a.op = "do" /\ a.call = <<name, d, y>>
    BY <1>1, DoIs
  <2>2. a.call[1] = name /\ a.call[2] = d /\ a.call[3] = y
    BY <2>1
  <2> QED
    BY <2>1, <2>2 DEF Shoots, Put, Touch
<1>2. LineBit("motor", d) \in 0 .. 4 /\ LineBit("select", d) \in 0 .. 4
  BY LineBitIs
<1>3. /\ Mute(Motor(d, 1)) /\ Lasts(Motor(d, 1)) /\ Brings(Motor(d, 1), LineBit("motor", d), 1)
  <2>1. PICK a : a = Do(<<"motor", d, 1>>)
    OBVIOUS
  <2>2. /\ ~Shoots(a) /\ a.op # "end"
        /\ \A b, w : Put(a, FloppyCtrl, b, w) <=> (b = LineBit("motor", d) /\ w = 1)
        /\ \A b : Touch(a, FloppyCtrl, b) <=> b = LineBit("motor", d)
    BY <1>1, <2>1
  <2>3. \A b, w : Wants(d, 1, b, w) => Put(a, FloppyCtrl, b, w) \/ ~Touch(a, FloppyCtrl, b)
    BY <1>2, <2>2 DEF Wants
  <2>4. Motor(d, 1) = Locked(<<a>>)
    BY <2>1 DEF Motor
  <2> QED
    BY <2>2, <2>3, <2>4, OneCall
<1>4. Firm(Side(d, sd), d, sd) /\ Mute(Side(d, sd)) /\ Lasts(Side(d, sd)) /\ Brings(Side(d, sd), 5, sd)
  <2>1. PICK a : a = Do(<<"side", d, sd>>)
    OBVIOUS
  <2>2. /\ ~Shoots(a) /\ a.op # "end"
        /\ \A b, w : Put(a, FloppyCtrl, b, w) <=> (b = 5 /\ w = sd)
        /\ \A b : Touch(a, FloppyCtrl, b) <=> b = 5
    BY <1>1, <2>1
  <2>3. \A b, w : Wants(d, sd, b, w) => Put(a, FloppyCtrl, b, w) \/ ~Touch(a, FloppyCtrl, b)
    BY <1>2, <2>2 DEF Wants
  <2>4. Side(d, sd) = Locked(<<a>>)
    BY <2>1 DEF Side
  <2> QED
    BY <2>2, <2>3, <2>4, OneCall
<1>5. /\ Firm(SelectDrive(d, 1), d, sd) /\ Mute(SelectDrive(d, 1)) /\ Lasts(SelectDrive(d, 1))
      /\ Brings(SelectDrive(d, 1), LineBit("select", d), 1)
  <2>1. PICK a : a = Change(FloppyCtrl, LineBit("select", d) :> 1)
    OBVIOUS
  <2>2. SetIo(Line["select"][d], 1) = <<a>>
    <3>1. SetIo(Line["select"][d], 1) =
            << Change(FloppyCtrl, LineBit("select", d) :> IF 1 = 0 THEN 0 ELSE 1) >>
      BY LineBitIs
    <3> QED
      BY <2>1, <3>1
  <2>3. /\ a.op = "change" /\ a.reg = FloppyCtrl /\ a.call = None
        /\ DOMAIN a.upd = {LineBit("select", d)} /\ a.upd[LineBit("select", d)] = 1
    <3>1. /\ DOMAIN (LineBit("select", d) :> 1) = {LineBit("select", d)}
          /\ (LineBit("select", d) :> 1)[LineBit("select", d)] = 1
      BY OneField
    <3> QED
      BY <2>1, <3>1, ChangeIs
  <2>4. ~Shoots(a)
    <3>1. <<>> # <<"capture">>
      OBVIOUS
    <3> QED
      BY <2>3, <3>1 DEF Shoots, None
  <2>5. /\ Put(a, FloppyCtrl, LineBit("select", d), 1)
        /\ \A b : Touch(a, FloppyCtrl, b) => b = LineBit("select", d)
    BY <2>3 DEF Put, Touch
  <2>6. \A b, w : Wants(d, sd, b, w) => Put(a, FloppyCtrl, b, w) \/ ~Touch(a, FloppyCtrl, b)
    BY <1>2, <2>5 DEF Wants
  <2>7. SelectDrive(d, 1) = Locked(<<a>>)
    BY <2>2 DEF SelectDrive
  <2> QED
    BY <2>3, <2>4, <2>5, <2>6, <2>7, OneCall
<1>6. ASSUME NEW name \in {"track00", "move", "headload"}, NEW y, NEW a, a = Do(<<name, d, y>>)
      PROVE  Mute(<<a>>) /\ Lasts(<<a>>) /\ Clear(<<a>>) /\ Listing(<<a>>)
  <2>1. ~Shoots(a) /\ a.op # "end" /\ \A b : ~Touch(a, FloppyCtrl, b)
    BY <1>1, <1>6
  <2> QED
    BY <2>1, MuteJoin, Listed
<1>7. Mute(AtTrack00(d)) /\ Lasts(AtTrack00(d)) /\ Clear(AtTrack00(d))
  BY <1>6 DEF AtTrack00
<1>8. Mute(Headload(d, v)) /\ Lasts(Headload(d, v)) /\ Clear(Headload(d, v))
  <2>1. PICK a : a = Do(<<"headload", d, v>>)
    OBVIOUS
  <2>2. Mute(<<a>>) /\ Lasts(<<a>>) /\ Clear(<<a>>) /\ Listing(<<a>>)
    BY <1>6, <2>1
  <2> QED
    BY <2>1, <2>2, MuteLocked DEF Headload
<1>9. Mute(MoveHead(d, v)) /\ Lasts(MoveHead(d, v)) /\ Clear(MoveHead(d, v))
  <2>1. PICK a, b : a = Do(<<"track00", d, 0>>) /\ b = Do(<<"move", d, v>>)
    OBVIOUS
  <2>2. Mute(<<a>>) /\ Lasts(<<a>>) /\ Clear(<<a>>) /\ Listing(<<a>>)
    BY <1>6, <2>1
  <2>3. Mute(<<b>>) /\ Lasts(<<b>>) /\ Clear(<<b>>) /\ Listing(<<b>>)
    BY <1>6, <2>1
  <2>4. <<a, b>> = <<a>> \o <<b>>
    BY Pair
  <2>5. Mute(<<a, b>>) /\ Lasts(<<a, b>>) /\ Clear(<<a, b>>)
    BY <2>2, <2>3, <2>4, MuteJoin
  <2>6. Listing(<<a, b>>)
    BY <2>5 DEF Mute
  <2> QED
    BY <2>1, <2>5, <2>6, MuteLocked DEF MoveHead
<1>10. Mute(SelectDrive(d, v)) /\ Mute(Motor(d, v))
  <2>1. Mute(SetIo(Line["select"][d], v))
    <3>1. PICK a : /\ SetIo(Line["select"][d], v) = <<a>>
                   /\ a = Change(FloppyCtrl, LineBit("select", d) :> IF v = 0 THEN 0 ELSE 1)
      BY LineBitIs
    <3>2. a.call = None
      BY <3>1, ChangeIs
    <3>3. <<>> # <<"capture">>
      OBVIOUS
    <3> QED
      BY <3>1, <3>2, <3>3, MuteJoin DEF Shoots, None
  <2>2. Mute(<< Do(<<"motor", d, v>>) >>)
    BY <1>1, MuteJoin
  <2> QED
    BY <2>1, <2>2, MuteLocked DEF SelectDrive, Motor, Mute
<1> QED
  BY <1>3, <1>4, <1>5, <1>7, <1>8, <1>9, <1>10

LEMMA StartClear == \A res, x : Clear(StartDump(res, x)) /\ Lasts(StartDump(res, x))
<1> SUFFICES ASSUME NEW res, NEW x PROVE Clear(StartDump(res, x)) /\ Lasts(StartDump(res, x))
  OBVIOUS
<1>1. ASSUME NEW a, a.op = "change",
             a.reg = Control \/ (a.reg = FloppyCtrl /\ DOMAIN a.upd \cap 0 .. 5 = {})
      PROVE  a.op # "end" /\ \A b \in 0 .. 5 : ~Touch(a, FloppyCtrl, b)
  BY <1>1, RegistersDiffer DEF Touch
<1>2. PICK a0, b0, a1, b1, b2, b3, b4 :
        /\ a0 = Change(Control, 4 :> 0) /\ b0 = Change(FloppyCtrl, (20 :> 0) @@ (21 :> 0))
        /\ a1 = Change(Control, 4 :> 1) /\ b1 = Change(FloppyCtrl, 22 :> 1 - res)
        /\ b2 = Change(FloppyCtrl, 23 :> x) /\ b3 = Change(FloppyCtrl, 21 :> 1)
        /\ b4 = Access("change", FloppyCtrl, 20 :> 1, <<"capture">>)
  OBVIOUS
<1>3. /\ \A f, v : DOMAIN (f :> v) = {f}
      /\ \A f, v, g, w : DOMAIN ((f :> v) @@ (g :> w)) = {f, g}
  BY OneField
<1>4. /\ a0.op = "change" /\ a0.reg = Control /\ a1.op = "change" /\ a1.reg = Control
  BY <1>2, ChangeIs
<1>5. /\ b0.op = "change" /\ b0.reg = FloppyCtrl /\ DOMAIN b0.upd = {20, 21}
      /\ b1.op = "change" /\ b1.reg = FloppyCtrl /\ DOMAIN b1.upd = {22}
      /\ b2.op = "change" /\ b2.reg = FloppyCtrl /\ DOMAIN b2.upd = {23}
      /\ b3.op = "change" /\ b3.reg = FloppyCtrl /\ DOMAIN b3.upd = {21}
  <2>1. PICK w0, w1, w2, w3 :
          w0 = (20 :> 0) @@ (21 :> 0) /\ w1 = 22 :> 1 - res /\ w2 = 23 :> x /\ w3 = 21 :> 1
    OBVIOUS
  <2>2. b0 = Change(FloppyCtrl, w0) /\ b1 = Change(FloppyCtrl, w1)
    BY <1>2, <2>1, Zenon
  <2>3. b2 = Change(FloppyCtrl, w2) /\ b3 = Change(FloppyCtrl, w3)
    BY <1>2, <2>1, Zenon
  <2>4. DOMAIN w0 = {20, 21} /\ DOMAIN w1 = {22} /\ DOMAIN w2 = {23} /\ DOMAIN w3 = {21}
    <3>1. DOMAIN w0 = {20, 21}
      <4>1. DOMAIN ((20 :> 0) @@ (21 :> 0)) = {20, 21}
        BY DEF :>, @@
      <4> QED
        BY <2>1, <4>1, Zenon
    <3>2. DOMAIN w1 = {22}
      BY <1>3, <2>1, Zenon
    <3>3. DOMAIN w2 = {23}
      BY <1>3, <2>1, Zenon
    <3>4. DOMAIN w3 = {21}
      BY <1>3, <2>1, Zenon
    <3> QED
      BY <3>1, <3>2, <3>3, <3>4
  <2> QED
    BY <2>2, <2>3, <2>4, ChangeIs
<1>6. b4.op = "change" /\ b4.reg = FloppyCtrl /\ DOMAIN b4.upd = {20}
  <2>1. PICK w, c : w = 20 :> 1 /\ c = <<"capture">>
    OBVIOUS
  <2>2. b4 = Access("change", FloppyCtrl, w, c)
    BY <1>2, <2>1, Zenon
  <2>3. DOMAIN w = {20}
    BY <1>3, <2>1, Zenon
  <2> QED
    BY <2>2, <2>3, AccessIs
<1>7. \A a \in {a0, a1, b0, b1, b2, b3, b4} :
        a.op # "end" /\ \A b \in 0 .. 5 : ~Touch(a, FloppyCtrl, b)
  <2>1. /\ {20, 21} \cap 0 .. 5 = {} /\ {22} \cap 0 .. 5 = {} /\ {23} \cap 0 .. 5 = {}
        /\ {21} \cap 0 .. 5 = {} /\ {20} \cap 0 .. 5 = {}
    OBVIOUS
  <2>2. \A a \in {a0, a1, b0, b1, b2, b3, b4} :
          a.op = "change" /\ (a.reg = Control \/ (a.reg = FloppyCtrl /\ DOMAIN a.upd \cap 0 .. 5 = {}))
    BY <1>4, <1>5, <1>6, <2>1
  <2> QED
    BY <1>1, <2>2
<1>8. PICK s, u : s = <<a0, b0>> /\ u = <<a1, b1, b2, b3, b4>>
  OBVIOUS
<1>9. Clear(s) /\ Lasts(s) /\ Clear(u) /\ Lasts(u)
  <2>1. s \in Seq({a0, b0}) /\ DOMAIN s = 1 .. 2 /\ s[1] = a0 /\ s[2] = b0
    BY <1>8
  <2>2. /\ u \in Seq({a1, b1, b2, b3, b4}) /\ DOMAIN u = 1 .. 5
        /\ u[1] = a1 /\ u[2] = b1 /\ u[3] = b2 /\ u[4] = b3 /\ u[5] = b4
    BY <1>8
  <2>3. Listing(s) /\ \A i \in DOMAIN s : s[i] \in {a0, b0}
    BY <2>1 DEF Listing
  <2>4. Listing(u) /\ \A i \in DOMAIN u : u[i] \in {a1, b1, b2, b3, b4}
    BY <2>2 DEF Listing
  <2> QED
    BY <1>7, <2>3, <2>4 DEF Clear, Lasts
<1>10. StartDump(res, x) = Locked(s) \o Locked(u)
  BY <1>2, <1>8 DEF StartDump
<1>11. /\ Clear(Locked(s)) /\ Lasts(Locked(s)) /\ Clear(Locked(u)) /\ Lasts(Locked(u))
  BY <1>9, MuteLocked DEF Clear
<1> QED
  BY <1>10, <1>11, MuteJoin DEF Clear

LEMMA TakenStart ==
  ASSUME Wired, NEW d \in Drives, NEW sd, NEW p, NEW q, Mute(p), Lasts(p), Clear(q), Lasts(q),
         \A b, v : Wants(d, sd, b, v) => Brings(p, b, v), NEW z, z = p \o q
  PROVE  Taken(z, d, sd) /\ Lasts(z)
<1>1. Halves(z, p, q) /\ Listing(p) /\ Listing(q)
  BY JoinAt DEF Mute, Clear
<1>2. Lasts(z)
  BY <1>1, MuteJoin
<1>3. ASSUME NEW k \in DOMAIN z, Shoots(z[k]), NEW b, NEW v, Wants(d, sd, b, v)
      PROVE  Sure(z, k, FloppyCtrl, b, v)
  <2>1. PICK i \in DOMAIN q : k = Len(p) + i
    BY <1>1, <1>3 DEF Mute, Halves
  <2>2. i \in 1 .. Len(q) + 1
    BY <1>1 DEF Halves
  <2>3. Will(q, i, FloppyCtrl, b, v, v)
    BY <1>3, <2>2, ClearFirm
  <2>4. Sure(p, Len(p) + 1, FloppyCtrl, b, v)
    BY <1>3 DEF Brings
  <2>5. Sure(p \o q, Len(p) + i, FloppyCtrl, b, v)
    BY <1>1, <2>2, <2>3, <2>4, WillJoin
  <2> QED
    BY <2>1, <2>5
<1> QED
  BY <1>1, <1>2, <1>3 DEF Taken, Lasts, Halves

LEMMA TakenBefore ==
  ASSUME NEW d, NEW sd, NEW s, NEW q, Taken(s, d, sd), Mute(q), NEW z, z = s \o q
  PROVE  Taken(z, d, sd) /\ (Closes(s) \/ Closes(q) => Closes(z))
<1>1. Halves(z, s, q)
  BY JoinAt DEF Mute, Taken
<1>2. ASSUME NEW k \in DOMAIN z, Shoots(z[k])
      PROVE  /\ \A i \in DOMAIN z : z[i].op = "end" => i > k
             /\ \A b, v : Wants(d, sd, b, v) => Sure(z, k, FloppyCtrl, b, v)
  <2>1. k \in DOMAIN s /\ z[k] = s[k]
    BY <1>1, <1>2 DEF Mute, Halves
  <2>2. ASSUME NEW i \in DOMAIN z, z[i].op = "end" PROVE i > k
    <3>1. CASE i \in DOMAIN s
      BY <1>1, <1>2, <2>1, <2>2, <3>1 DEF Taken, Halves
    <3>2. CASE i \notin DOMAIN s
      BY <1>1, <2>1, <3>2 DEF Halves
    <3> QED
      BY <3>1, <3>2
  <2>3. k \in 1 .. Len(s) + 1 /\ \A i \in 1 .. k - 1 : i \in DOMAIN s /\ z[i] = s[i]
    BY <1>1, <2>1 DEF Halves
  <2>4. \A i \in 1 .. k - 1 : \A j \in i + 1 .. k - 1 : j \in 1 .. k - 1
    BY <2>3
  <2>5. ASSUME NEW b, NEW v, Wants(d, sd, b, v) PROVE Sure(z, k, FloppyCtrl, b, v)
    <3>1. Sure(s, k, FloppyCtrl, b, v)
      BY <1>2, <2>1, <2>5 DEF Taken
    <3>2. PICK i \in 1 .. k - 1 : Put(s[i], FloppyCtrl, b, v) /\
                                  \A j \in i + 1 .. k - 1 : ~Touch(s[j], FloppyCtrl, b)
      BY <3>1 DEF Sure
    <3>3. Put(z[i], FloppyCtrl, b, v) /\ \A j \in i + 1 .. k - 1 : ~Touch(z[j], FloppyCtrl, b)
      BY <2>3, <2>4, <3>2
    <3> QED
      BY <3>3 DEF Sure
  <2> QED
    BY <2>2, <2>5
<1>3. Closes(s) \/ Closes(q) => Closes(z)
  <2>1. \A i \in DOMAIN s : i \in DOMAIN z /\ z[i] = s[i]
    BY <1>1 DEF Halves
  <2>2. \A i \in DOMAIN q : Len(s) + i \in DOMAIN z /\ z[Len(s) + i] = q[i]
    BY <1>1 DEF Halves
  <2> QED
    BY <2>1, <2>2 DEF Closes
<1> QED
  BY <1>1, <1>2, <1>3 DEF Taken, Halves

LEMMA DumpTaken ==
  ASSUME Wired, NEW d \in Drives, NEW sd, NEW n
  PROVE  Taken(DumpProgram(d, sd, n), d, sd) /\ Closes(DumpProgram(d, sd, n))
<1>1. PICK mo, se, tr, m0, h1, si, st, m1, en, h0, s0, mf :
        /\ mo = Motor(d, 1) /\ se = SelectDrive(d, 1) /\ tr = AtTrack00(d) /\ m0 = MoveHead(d, 0)
        /\ h1 = Headload(d, 1) /\ si = Side(d, sd) /\ st = StartDump(1, n) /\ m1 = MoveHead(d, 1)
        /\ en = << Calling("end") >> /\ h0 = Headload(d, 0) /\ s0 = SelectDrive(d, 0)
        /\ mf = Motor(d, 0)
  OBVIOUS
<1>2. DumpProgram(d, sd, n) =
        mo \o se \o tr \o m0 \o h1 \o si \o st \o m1 \o en \o h0 \o s0 \o mf
  BY <1>1 DEF DumpProgram
<1>3. /\ Mute(mo) /\ Lasts(mo) /\ Brings(mo, LineBit("motor", d), 1)
      /\ Firm(se, d, sd) /\ Mute(se) /\ Lasts(se) /\ Brings(se, LineBit("select", d), 1)
      /\ Firm(si, d, sd) /\ Mute(si) /\ Lasts(si) /\ Brings(si, 5, sd)
      /\ Mute(tr) /\ Lasts(tr) /\ Clear(tr)
  BY <1>1, CallsBring
<1>4. /\ Mute(m0) /\ Lasts(m0) /\ Clear(m0) /\ Mute(h1) /\ Lasts(h1) /\ Clear(h1)
      /\ Mute(m1) /\ Mute(h0) /\ Mute(s0) /\ Mute(mf)
  BY <1>1, CallsBring
<1>5. Firm(tr, d, sd) /\ Firm(m0, d, sd) /\ Firm(h1, d, sd)
  BY <1>3, <1>4, ClearFirm
<1>6. Clear(st) /\ Lasts(st)
  BY <1>1, StartClear
<1>7. Mute(en) /\ Closes(en)
  <2>1. Calling("end").op = "end"
    BY AccessIs DEF Calling
  <2> QED
    BY <1>1, <2>1, MuteJoin, Listed DEF Shoots, Closes
<1>8. PICK b1, b2, b3 : b1 = LineBit("motor", d) /\ b2 = LineBit("select", d) /\ b3 = 5
  OBVIOUS
<1>9. ASSUME NEW s, Mute(s), Lasts(s), NEW u, Mute(u), Lasts(u), NEW z, z = s \o u
      PROVE  /\ Mute(z) /\ Lasts(z)
             /\ \A b, v : Wants(d, sd, b, v) /\ Brings(s, b, v) /\ Firm(u, d, sd) => Brings(z, b, v)
             /\ \A b, v : Brings(u, b, v) => Brings(z, b, v)
  <2>1. Listing(s) /\ Listing(u)
    BY <1>9 DEF Mute
  <2> QED
    BY <1>9, <2>1, MuteJoin, BringJoin
<1>10. Wants(d, sd, b1, 1) /\ Wants(d, sd, b2, 1) /\ Wants(d, sd, b3, sd)
  BY <1>8 DEF Wants
<1>11. PICK p2, p3, p4, p5, p6 :
         p2 = mo \o se /\ p3 = p2 \o tr /\ p4 = p3 \o m0 /\ p5 = p4 \o h1 /\ p6 = p5 \o si
  OBVIOUS
<1>12. Mute(p2) /\ Lasts(p2) /\ Brings(p2, b1, 1) /\ Brings(p2, b2, 1)
  BY <1>3, <1>8, <1>9, <1>10, <1>11
<1>13. Mute(p3) /\ Lasts(p3) /\ Brings(p3, b1, 1) /\ Brings(p3, b2, 1)
  BY <1>3, <1>5, <1>9, <1>10, <1>11, <1>12
<1>14. Mute(p4) /\ Lasts(p4) /\ Brings(p4, b1, 1) /\ Brings(p4, b2, 1)
  BY <1>4, <1>5, <1>9, <1>10, <1>11, <1>13
<1>15. Mute(p5) /\ Lasts(p5) /\ Brings(p5, b1, 1) /\ Brings(p5, b2, 1)
  BY <1>4, <1>5, <1>9, <1>10, <1>11, <1>14
<1>16. Mute(p6) /\ Lasts(p6) /\ Brings(p6, b1, 1) /\ Brings(p6, b2, 1) /\ Brings(p6, b3, sd)
  <2>1. /\ \A b, v : Wants(d, sd, b, v) /\ Brings(p5, b, v) => Brings(p6, b, v)
        /\ \A b, v : Brings(si, b, v) => Brings(p6, b, v)
        /\ Mute(p6) /\ Lasts(p6)
    BY <1>3, <1>9, <1>11, <1>15
  <2>2. Brings(p6, b1, 1) /\ Brings(p6, b2, 1)
    BY <1>10, <1>15, <2>1
  <2>3. Brings(p6, b3, sd)
    BY <1>3, <1>8, <2>1
  <2> QED
    BY <2>1, <2>2, <2>3
<1>17. \A b, v : Wants(d, sd, b, v) => Brings(p6, b, v)
  BY <1>8, <1>16 DEF Wants
<1>18. PICK q1, q2, q3, q4, q5, q6 :
         /\ q1 = p6 \o st /\ q2 = q1 \o m1 /\ q3 = q2 \o en /\ q4 = q3 \o h0 /\ q5 = q4 \o s0
         /\ q6 = q5 \o mf
  OBVIOUS
<1>19. Taken(q1, d, sd)
  BY <1>6, <1>16, <1>17, <1>18, TakenStart
<1>20. Taken(q2, d, sd)
  BY <1>4, <1>18, <1>19, TakenBefore
<1>21. Taken(q3, d, sd) /\ Closes(q3)
  BY <1>7, <1>18, <1>20, TakenBefore
<1>22. Taken(q4, d, sd) /\ Closes(q4)
  BY <1>4, <1>18, <1>21, TakenBefore
<1>23. Taken(q5, d, sd) /\ Closes(q5)
  BY <1>4, <1>18, <1>22, TakenBefore
<1>24. Taken(q6, d, sd) /\ Closes(q6)
  BY <1>4, <1>18, <1>23, TakenBefore
<1>25. DumpProgram(d, sd, n) = q6
  BY <1>2, <1>11, <1>18
<1> QED
  BY <1>24, <1>25

-----------------------------------------------------------------------------
(* The capture a dump is to make, and what the script may do meanwhile      *)

Readied(s, d, sd, w) == \A k \in DOMAIN s : Shoots(s[k]) =>
  /\ \A i \in DOMAIN s : s[i].op = "end" => i > k
  /\ \A b, v : Wants(d, sd, b, v) => Will(s, k, FloppyCtrl, b, v, w[b])

\* An access that at most selects the drive d, or releases it if no dump runs.
Kind(a, d) == \A b \in 0 .. 5 : Touch(a, FloppyCtrl, b) =>
  \/ a.op = "change" /\ b = LineBit("select", d) /\ Put(a, FloppyCtrl, b, 1)
  \/ a.op = "do" /\ a.call[1] = "release"

Gentle(s, d) == \A i \in DOMAIN s : Kind(s[i], d)

Dumped ==
  IF dumping = None
  THEN type["server"] # "APPLE_MACINTOSH" => \A k \in DOMAIN todo["dump"] : ~Shoots(todo["dump"][k])
  ELSE /\ dumping[1] \in Drives /\ Closes(todo["dump"])
       /\ type["server"] # "APPLE_MACINTOSH" =>
            /\ Readied(todo["dump"], dumping[1], dumping[2], reg[FloppyCtrl])
            /\ Gentle(todo["script"], dumping[1])

LEMMA ReadiedSame ==
  ASSUME Wired, NEW s, NEW d \in Drives, NEW sd, NEW w, Readied(s, d, sd, w), NEW w1,
         \A b \in 0 .. 5 : w1[b] = w[b] \/ (b = LineBit("select", d) /\ w1[b] = 1)
  PROVE  Readied(s, d, sd, w1)
<1>1. ASSUME NEW k \in DOMAIN s, Shoots(s[k]), NEW b, NEW v, Wants(d, sd, b, v)
      PROVE  Will(s, k, FloppyCtrl, b, v, w1[b])
  <2>1. Will(s, k, FloppyCtrl, b, v, w[b])
    BY <1>1 DEF Readied
  <2>2. b \in 0 .. 5 /\ LineBit("select", d) \in 0 .. 4
    BY <1>1, WantsPort, LineBitIs
  <2>3. CASE w1[b] = w[b]
    BY <2>1, <2>3
  <2>4. CASE b = LineBit("select", d) /\ w1[b] = 1
    <3>1. v = 1
      BY <1>1, <2>2, <2>4 DEF Wants
    <3> QED
      BY <2>1, <2>4, <3>1 DEF Will
  <2> QED
    BY <2>2, <2>3, <2>4
<1> QED
  BY <1>1 DEF Readied

LEMMA TakenReadied ==
  \A s, d, sd : Taken(s, d, sd) => \A w : Readied(s, d, sd, w)
BY DEF Taken, Readied, Will

LEMMA GentleJoin ==
  ASSUME NEW d
  PROVE  /\ Gentle(<<>>, d) /\ \A a : Kind(a, d) => Gentle(<<a>>, d)
         /\ \A s, u : Listing(s) /\ Listing(u) /\ Gentle(s, d) /\ Gentle(u, d) => Gentle(s \o u, d)
         /\ \A s : Clear(s) => Gentle(s, d)
         /\ \A s : OffPort(s) => Gentle(s, d)
<1>1. Gentle(<<>>, d) /\ \A a : Kind(a, d) => Gentle(<<a>>, d)
  BY Listed DEF Gentle
<1>2. ASSUME NEW s, NEW u, Listing(s), Listing(u), Gentle(s, d), Gentle(u, d)
      PROVE  Gentle(s \o u, d)
  <2>0. PICK z : z = s \o u
    OBVIOUS
  <2>1. Listing(s) /\ Listing(u)
    BY <1>2
  <2>2. \A k \in DOMAIN (s \o u) : \/ \E i \in DOMAIN s : (s \o u)[k] = s[i]
                                   \/ \E i \in DOMAIN u : (s \o u)[k] = u[i]
    BY <2>1, JoinEach
  <2>3. \A k \in DOMAIN z : \/ \E i \in DOMAIN s : z[k] = s[i]
                            \/ \E i \in DOMAIN u : z[k] = u[i]
    BY <2>0, <2>2
  <2>4. Gentle(z, d)
    BY <1>2, <2>3 DEF Gentle
  <2> QED
    BY <2>0, <2>4
<1>3. \A s : Clear(s) => Gentle(s, d)
  BY DEF Clear, Gentle, Kind
<1>4. \A s : OffPort(s) => Gentle(s, d)
  BY RegistersDiffer DEF OffPort, Gentle, Kind, Touch
<1> QED
  BY <1>1, <1>2, <1>3, <1>4

\* A call of a drive that is no Macintosh drive raises no capture's trigger.
LEMMA BodyMute ==
  ASSUME Wired, NEW c, NEW ty, ty # "APPLE_MACINTOSH", c[1] \in Names,
         c[2] \in Drives \cup {-1}, c[2] = -1 => c[1] = "track00"
  PROVE  Mute(Body(c, ty)) /\ Lasts(Body(c, ty))
         /\ (c[1] = "release" /\ dumping # None => Body(c, ty) = <<>>)
<1>00. <<"capture">> # None
  BY DEF None
<1>0. PICK ca, no : ca = <<"capture">> /\ no = None /\ ca # no
  BY <1>00, Zenon
<1>1. ASSUME NEW r, NEW f PROVE Mute(<< Change(r, f) >>) /\ Lasts(<< Change(r, f) >>)
  <2>1. Change(r, f).call = no /\ Change(r, f).op = "change"
    BY <1>0, ChangeIs
  <2>2. ~Shoots(Change(r, f)) /\ Change(r, f).op # "end"
    BY <1>0, <2>1 DEF Shoots
  <2> QED
    BY <2>2, MuteJoin
<1> DEFINE Still(s) == Mute(s) /\ Lasts(s)
<1>2. \A s, u : Still(s) /\ Still(u) => Still(s \o u)
  BY MuteJoin DEF Mute
<1>3. \A s : Still(s) => Still(Locked(s))
  BY MuteLocked DEF Mute
<1>4. Still(<<>>) /\ \A r, f : Still(<< Change(r, f) >>)
  BY <1>1, MuteJoin
<1> HIDE DEF Still
<1>5. \A name, v : Still(SetIo(name, v))
  <2> SUFFICES ASSUME NEW name, NEW v PROVE Still(SetIo(name, v))
    OBVIOUS
  <2> QED
    BY <1>4, SetIoIs
<1>6. \A d, v : Still(SelectDrive(d, v)) /\ Still(OptionSelect(d, v))
  BY <1>3, <1>5 DEF SelectDrive, OptionSelect
<1>7. c[1] \in {"motor", "side"} => Still(Body(c, ty))
  BY <1>4, CallIs
<1>8. c[1] \in {"headload", "track00", "move"} => Still(Body(c, ty))
  BY <1>4, <1>5 DEF Body
<1>9. c[1] = "eject" => Still(Body(c, ty))
  <2> SUFFICES ASSUME c[1] = "eject" PROVE Still(Body(c, ty))
    OBVIOUS
  <2>1. PICK s1, s2, s3, s4, s5, s6 :
          /\ s1 = SetIo("BLINK", 0) /\ s2 = SetIo("LOCK", 0) /\ s3 = SetIo("EJECT", 1)
          /\ s4 = OptionSelect(c[2], 1) /\ s5 = OptionSelect(c[2], 0) /\ s6 = SetIo("EJECT", 0)
    OBVIOUS
  <2>2. Body(c, ty) = <<>> \/ Body(c, ty) = s1 \o s2 \o s3 \o s4 \o s5 \o s6
    BY <2>1 DEF Body
  <2>3. Still(s1) /\ Still(s2) /\ Still(s3) /\ Still(s4) /\ Still(s5) /\ Still(s6)
    BY <1>5, <1>6, <2>1
  <2> QED
    BY <1>2, <1>4, <2>2, <2>3
<1>10. c[1] = "release" => /\ Still(Body(c, ty))
                           /\ dumping # None => Body(c, ty) = <<>>
  BY <1>4, <1>6 DEF Body
<1> QED
  BY <1>7, <1>8, <1>9, <1>10 DEF Names, Still

\* While a dump's accesses are left, the server's type of drives stays.
LEMMA ServerStays ==
  ASSUME Wired, Held, NEW t \in Threads, NEW a, NEW u, Moves(t, a, u), todo["dump"] # <<>>
  PROVE  /\ type'["server"] = type["server"]
         /\ t \in {"script", "dump"} => Meek(a)
<1>1. 1 \in DOMAIN todo[t] /\ a = todo[t][1]
  BY MoveBody
<1>2. DOMAIN type = {"server", "tool"} /\ Process(t) \in {"server", "tool"}
      /\ (t = "tool" => Process(t) = "tool")
  BY ThreadsAre DEF Held, Ordered, Shape
<1>3. t \in {"script", "dump"} => Meek(a)
  BY <1>1 DEF Held, Ordered, Aside, MeekList
<1>4. CASE t = "tool"
  BY <1>2, <1>4 DEF Moves
<1>5. CASE t \in {"script", "dump"}
  BY <1>3, <1>5 DEF Meek, Moves
<1> QED
  BY <1>3, <1>4, <1>5, ThreadsAre

\* What an access of a drive that is no Macintosh drive turns into triggers
\* no capture and ends no dump.
LEMMA MovesMute ==
  ASSUME Wired, Held, NEW t \in Threads, NEW a, NEW u, Moves(t, a, u), Meek(a),
         type[Process(t)] # "APPLE_MACINTOSH"
  PROVE  Mute(u) /\ Lasts(u)
<1>1. CASE u = <<>>
  BY <1>1, MuteJoin
<1>2. CASE a.op = "do" /\ u = Body(a.call, type[Process(t)])
  <2>0. PICK c, ty : c = a.call /\ ty = type[Process(t)]
    OBVIOUS
  <2>1. c[1] \in Names /\ c[2] \in Drives \cup {-1} /\ (c[2] = -1 => c[1] = "track00")
    BY <1>2, <2>0 DEF Meek, Proper
  <2>2. Mute(Body(c, ty)) /\ Lasts(Body(c, ty))
    BY <2>0, <2>1, BodyMute
  <2> QED
    BY <1>2, <2>0, <2>2
<1> QED
  BY <1>1, <1>2 DEF Moves, Meek

\* The script, while a dump runs, at most selects the dump's drive.
LEMMA ScriptGentle ==
  ASSUME Wired, Held, Full, NEW a, NEW u, Moves("script", a, u), Writes(a),
         todo["dump"] # <<>>, dumping # None, type["server"] # "APPLE_MACINTOSH",
         NEW d \in Drives, Gentle(todo["script"], d)
  PROVE  /\ Gentle(todo'["script"], d)
         /\ \A b \in 0 .. 5 : \/ reg'[FloppyCtrl][b] = reg[FloppyCtrl][b]
                              \/ b = LineBit("select", d) /\ reg'[FloppyCtrl][b] = 1
<1>0. "script" \in Threads /\ Process("script") = "server" /\ FloppyCtrl \in Shared
      /\ \A b \in 0 .. 5 : b \in Fields[FloppyCtrl]
  BY ThreadsAre, FieldsAre DEF Shared
<1>1. PICK s : s = todo["script"]
  OBVIOUS
<1>2. Listing(s) /\ 1 \in DOMAIN s /\ a = s[1] /\ Proper(a) /\ Listing(u)
  BY <1>0, <1>1, MoveBody
<1>3. Meek(a) /\ Kind(a, d)
  BY <1>0, <1>1, <1>2, ServerStays DEF Gentle
<1>4. ASSUME NEW b \in 0 .. 5
      PROVE  \/ reg'[FloppyCtrl][b] = reg[FloppyCtrl][b]
             \/ b = LineBit("select", d) /\ reg'[FloppyCtrl][b] = 1
  <2>1. CASE ~Touch(a, FloppyCtrl, b)
    BY <1>0, <2>1 DEF Writes
  <2>2. CASE a.op = "change" /\ b = LineBit("select", d) /\ Put(a, FloppyCtrl, b, 1)
    BY <1>0, <2>2 DEF Writes
  <2>3. CASE a.op = "do"
    BY <2>3 DEF Moves
  <2> QED
    BY <1>3, <2>1, <2>2, <2>3 DEF Kind
<1>5. Gentle(u, d)
  <2>1. CASE u = <<>>
    BY <2>1, GentleJoin
  <2>2. ASSUME a.op = "do", u = Body(a.call, type["server"]) PROVE Gentle(u, d)
    <3>0. PICK c, ty : c = a.call /\ ty = type["server"]
      OBVIOUS
    <3>1. c[1] \in Names /\ c[2] \in Drives \cup {-1} /\ (c[2] = -1 => c[1] = "track00")
      BY <1>2, <2>2, <3>0 DEF Proper
    <3>2. ty # "APPLE_MACINTOSH" /\ u = Body(c, ty)
      BY <2>2, <3>0
    <3>3. CASE c[1] = "release"
      <4>1. u = <<>>
        BY <3>1, <3>2, <3>3, BodyMute
      <4> QED
        BY <4>1, GentleJoin
    <3>4. CASE c[1] # "release"
      <4>1. \A b \in 0 .. 5 : ~Touch(a, FloppyCtrl, b)
        BY <1>3, <2>2, <3>0, <3>4 DEF Kind
      <4>2. ASSUME NEW b \in 0 .. 5 PROVE \A i \in DOMAIN u : ~Touch(u[i], FloppyCtrl, b)
        <5>1. u = Body(a.call, ty)
          BY <3>0, <3>2
        <5> QED
          BY <1>0, <1>2, <2>2, <3>2, <4>1, <5>1, BodyWill
      <4>3. Clear(u)
        BY <1>2, <4>2 DEF Clear
      <4> QED
        BY <4>3, GentleJoin
    <3> QED
      BY <3>3, <3>4
  <2> QED
    BY <1>0, <1>3, <2>1, <2>2 DEF Moves, Meek
<1>6. s # <<>> /\ todo'["script"] = u \o Tail(s)
  <2>1. todo'["script"] = u \o Tail(todo["script"])
    BY <1>0, <1>2, MoveList
  <2> QED
    BY <1>1, <2>1 DEF Moves
<1>7. Listing(Tail(s)) /\ Gentle(Tail(s), d)
  <2>1. Listing(Tail(s)) /\ \A k \in DOMAIN Tail(s) : k + 1 \in DOMAIN s /\ Tail(s)[k] = s[k + 1]
    BY <1>2, <1>6, RestEach
  <2> QED
    BY <1>1, <2>1 DEF Gentle
<1>8. Gentle(u \o Tail(s), d)
  BY <1>2, <1>5, <1>7, GentleJoin
<1> QED
  BY <1>4, <1>6, <1>8

\* A command the script begins while a dump of the drive d runs.
LEMMA IssueGentle ==
  ASSUME Wired, Commands, NEW m \in Modes, NEW c \in Calls["script"][m], c[1] # "reset",
         NEW d \in Drives, c[1] = "headstep" => c[2] = d
  PROVE  Gentle(Program(c), d)
<1>1. \A name, e, v : name \in {"eject", "release"} =>
        Listing(<< Do(<<name, e, v>>) >>) /\ Gentle(<< Do(<<name, e, v>>) >>, d)
  <2> SUFFICES ASSUME NEW name, NEW e, NEW v, name \in {"eject", "release"}
               PROVE  Listing(<< Do(<<name, e, v>>) >>) /\ Gentle(<< Do(<<name, e, v>>) >>, d)
    OBVIOUS
  <2>1. PICK a : a = Do(<<name, e, v>>)
    OBVIOUS
  <2>2. a.op = "do" /\ a.call[1] = name
    BY <2>1, DoIs
  <2>3. Kind(a, d)
    BY <2>2 DEF Kind, Touch
  <2>4. Listing(<<a>>) /\ Gentle(<<a>>, d)
    BY <2>3, GentleJoin, Listed
  <2> QED
    BY <2>1, <2>4
<1>2. CASE c[1] = "eject"
  BY <1>1, <1>2 DEF Program, Eject
<1>3. CASE c[1] = "headstep"
  <2>1. PICK s, m0, z, r : /\ s = SelectDrive(d, 1) /\ m0 = MoveHead(d, c[3])
                           /\ z = AtTrack00(d) /\ r = << Do(<<"release", d, 0>>) >>
    OBVIOUS
  <2>2. Program(c) = s \o m0 \o z \o r
    BY <1>3, <2>1 DEF Program
  <2>3. Clear(m0) /\ Clear(z)
    BY <2>1, CallsBring
  <2>4. Listing(s) /\ Gentle(s, d)
    <3>1. PICK b : b = LineBit("select", d)
      OBVIOUS
    <3>2. PICK a : a = Change(FloppyCtrl, b :> 1)
      OBVIOUS
    <3>3. s = Locked(<<a>>)
      <4>1. SetIo(Line["select"][d], 1) = << Change(FloppyCtrl, b :> IF 1 = 0 THEN 0 ELSE 1) >>
        BY <3>1, LineBitIs
      <4>2. SetIo(Line["select"][d], 1) = <<a>>
        BY <3>2, <4>1
      <4> QED
        BY <2>1, <4>2 DEF SelectDrive
    <3>4. /\ a.op = "change" /\ \A e : Touch(a, FloppyCtrl, e) => e = b
          /\ Put(a, FloppyCtrl, b, 1)
      BY <3>2, ChangeTouch, ChangeIs
    <3>5. Kind(a, d)
      BY <3>1, <3>4 DEF Kind
    <3>6. PICK x : x = <<a>>
      OBVIOUS
    <3>7. Listing(x) /\ \A i \in DOMAIN x : x[i] = a
      BY <3>6, Listed
    <3>8. PICK l, n : l = Calling("lock") /\ n = Calling("unlock")
      OBVIOUS
    <3>9. Listing(Locked(x)) /\ \A k \in DOMAIN Locked(x) :
            Locked(x)[k] \in {l, n} \/ \E i \in DOMAIN x : Locked(x)[k] = x[i]
      BY <3>7, <3>8, LockedEach
    <3>10. Kind(l, d) /\ Kind(n, d)
      <4>1. l.op = "lock" /\ n.op = "unlock"
        BY <3>8, AccessIs DEF Calling
      <4> QED
        BY <4>1 DEF Kind, Touch
    <3> QED
      BY <3>3, <3>5, <3>6, <3>7, <3>9, <3>10 DEF Gentle
  <2>5. Listing(m0) /\ Gentle(m0, d) /\ Listing(z) /\ Gentle(z, d)
    BY <2>3, GentleJoin DEF Clear
  <2>6. Listing(r) /\ Gentle(r, d)
    BY <1>1, <2>1
  <2>7. PICK p : p = s \o m0
    OBVIOUS
  <2>8. Listing(p) /\ Gentle(p, d)
    BY <2>4, <2>5, <2>7, GentleJoin, JoinEach
  <2>9. PICK q : q = p \o z
    OBVIOUS
  <2>10. Listing(q) /\ Gentle(q, d)
    BY <2>5, <2>8, <2>9, GentleJoin, JoinEach
  <2>11. Gentle(q \o r, d)
    BY <2>6, <2>10, GentleJoin
  <2> QED
    BY <2>2, <2>7, <2>9, <2>11
<1>4. CASE c[1] \notin {"reset", "headstep", "eject"}
  BY <1>4, ScriptOffPort, GentleJoin
<1> QED
  BY <1>2, <1>3, <1>4

\* While a dump's accesses are left, a shell leaves the port alone.
LEMMA ToolGentle ==
  ASSUME Wired, Apart, Held, NEW a, NEW u, Moves("tool", a, u), Writes(a), todo["dump"] # <<>>
  PROVE  \A b \in 0 .. 5 : reg'[FloppyCtrl][b] = reg[FloppyCtrl][b]
<1>0. "tool" \in Threads /\ mode \in Modes /\ Source /\ FloppyCtrl \in Shared
      /\ \A b \in 0 .. 5 : b \in Fields[FloppyCtrl]
  BY ThreadsAre, FieldsAre DEF Held, Ordered, Shape, Shared
<1>1. 1 \in DOMAIN todo["tool"] /\ a = todo["tool"][1] /\ Proper(a) /\ todo["tool"] # <<>>
  BY <1>0, MoveBody DEF Moves
<1>2. PICK c \in Calls["tool"][mode] : Reaches(todo["tool"]) \subseteq Reaches(Program(c))
  BY <1>0, <1>1 DEF Source
<1>3. FloppyCtrl \notin Reaches(Program(c))
  BY <1>0, <1>2 DEF Apart, Source
<1>4. FloppyCtrl \notin Reach(a)
  BY <1>1, <1>2, <1>3 DEF Reaches
<1>5. \A b : ~Touch(a, FloppyCtrl, b)
  <2>1. ~(a.op \in {"change", "write"} /\ a.reg = FloppyCtrl)
    BY <1>4 DEF Reach
  <2>2. a.op = "do" => a.call[2] = -1
    BY <1>4 DEF Reach
  <2>3. a.op = "do" => a.call[1] = "track00"
    BY <1>1, <2>2 DEF Proper
  <2> QED
    BY <2>1, <2>3, RegistersDiffer DEF Touch
<1> QED
  BY <1>0, <1>5 DEF Writes

\* A step of the dump towards its capture, and past it.
LEMMA DumpMoves ==
  ASSUME Wired, Held, Full, NEW a, NEW u, Moves("dump", a, u), Writes(a),
         NEW s, s = todo["dump"], NEW z, z = todo'["dump"]
  PROVE  /\ Closes(s) /\ a.op # "end" => Closes(z)
         /\ type["server"] # "APPLE_MACINTOSH" =>
              /\ (\A k \in DOMAIN s : ~Shoots(s[k])) => \A k \in DOMAIN z : ~Shoots(z[k])
              /\ \A d \in Drives : \A sd : Readied(s, d, sd, reg[FloppyCtrl]) =>
                   /\ Readied(z, d, sd, reg'[FloppyCtrl])
                   /\ a.op = "end" => \A k \in DOMAIN z : ~Shoots(z[k])
<1>0. "dump" \in Threads /\ Process("dump") = "server" /\ FloppyCtrl \in Shared
  BY ThreadsAre DEF Shared
<1>1. /\ Listing(s) /\ 1 \in DOMAIN s /\ a = s[1] /\ Proper(a) /\ Listing(u)
      /\ s # <<>> /\ Meek(a)
  <2>1. /\ Listing(todo["dump"]) /\ 1 \in DOMAIN todo["dump"] /\ a = todo["dump"][1] /\ Proper(a)
        /\ Listing(u)
    BY <1>0, MoveBody
  <2>2. todo["dump"] # <<>>
    BY DEF Moves
  <2>3. Meek(a)
    BY <1>0, <2>2, ServerStays
  <2> QED
    BY <2>1, <2>2, <2>3
<1>2. /\ Len(u) \in Nat /\ Len(s) \in Nat /\ DOMAIN s = 1 .. Len(s) /\ DOMAIN u = 1 .. Len(u)
      /\ \A k \in DOMAIN z :
           \/ k \in DOMAIN u /\ z[k] = u[k]
           \/ \E i \in 2 .. Len(s) : k = Len(u) + (i - 1) /\ z[k] = s[i]
      /\ \A i \in 2 .. Len(s) : /\ Len(u) + (i - 1) \in DOMAIN z
                                /\ z[Len(u) + (i - 1)] = s[i]
  <2>0. "dump" \in Threads /\ Listing(u)
    BY <1>0, <1>1
  <2>1. /\ Len(u) \in Nat /\ Len(todo["dump"]) \in Nat
        /\ DOMAIN todo["dump"] = 1 .. Len(todo["dump"]) /\ DOMAIN u = 1 .. Len(u)
    BY <2>0, MoveList
  <2>2. \A k \in DOMAIN todo'["dump"] :
          \/ k \in DOMAIN u /\ todo'["dump"][k] = u[k]
          \/ \E i \in 2 .. Len(todo["dump"]) :
               k = Len(u) + (i - 1) /\ todo'["dump"][k] = todo["dump"][i]
    BY <2>0, MoveList
  <2>3. \A i \in 2 .. Len(todo["dump"]) : /\ Len(u) + (i - 1) \in DOMAIN todo'["dump"]
                                         /\ todo'["dump"][Len(u) + (i - 1)] = todo["dump"][i]
    BY <2>0, MoveList
  <2> QED
    BY <2>1, <2>2, <2>3
<1>3. ASSUME Closes(s), a.op # "end" PROVE Closes(z)
  <2>1. PICK j \in DOMAIN s : s[j].op = "end"
    BY <1>3 DEF Closes
  <2>2. j \in 2 .. Len(s)
    BY <1>1, <1>2, <1>3, <2>1
  <2> QED
    BY <1>2, <2>1, <2>2 DEF Closes
<1>4. type["server"] # "APPLE_MACINTOSH" => Mute(u) /\ Lasts(u)
  BY <1>0, <1>1, MovesMute
<1>5. ASSUME type["server"] # "APPLE_MACINTOSH", \A k \in DOMAIN s : ~Shoots(s[k])
      PROVE  \A k \in DOMAIN z : ~Shoots(z[k])
  <2>1. \A i \in 2 .. Len(s) : i \in DOMAIN s
    BY <1>2
  <2> QED
    BY <1>2, <1>4, <1>5, <2>1 DEF Mute
<1>6. ASSUME type["server"] # "APPLE_MACINTOSH", NEW d \in Drives, NEW sd,
             Readied(s, d, sd, reg[FloppyCtrl]), NEW k \in DOMAIN z, Shoots(z[k])
      PROVE  /\ \A j \in DOMAIN z : z[j].op = "end" => j > k
             /\ \A b, v : Wants(d, sd, b, v) => Will(z, k, FloppyCtrl, b, v, reg'[FloppyCtrl][b])
             /\ a.op # "end"
  <2>1. PICK i \in 2 .. Len(s) : k = Len(u) + (i - 1) /\ z[k] = s[i]
    BY <1>2, <1>4, <1>6 DEF Mute
  <2>2. i \in DOMAIN s /\ Shoots(s[i])
    BY <1>2, <1>6, <2>1
  <2>3. \A j \in DOMAIN s : s[j].op = "end" => j > i
    BY <1>6, <2>2 DEF Readied
  <2>4. a.op # "end"
    BY <1>1, <2>1, <2>3
  <2>5. ASSUME NEW j \in DOMAIN z, z[j].op = "end" PROVE j > k
    <3>1. PICK h \in 2 .. Len(s) : j = Len(u) + (h - 1) /\ z[j] = s[h]
      BY <1>2, <1>4, <1>6, <2>5 DEF Lasts
    <3>2. h \in DOMAIN s /\ s[h].op = "end"
      BY <1>2, <2>5, <3>1
    <3>3. h > i
      BY <2>3, <3>2
    <3> QED
      BY <1>2, <2>1, <3>1, <3>3
  <2>6. ASSUME NEW b, NEW v, Wants(d, sd, b, v)
        PROVE  Will(z, k, FloppyCtrl, b, v, reg'[FloppyCtrl][b])
    <3>1. b \in Fields[FloppyCtrl]
      BY <2>6, WantsPort
    <3>2. Will(todo["dump"], i, FloppyCtrl, b, v, reg[FloppyCtrl][b])
      BY <1>6, <2>2, <2>6 DEF Readied
    <3>3. i \in 2 .. Len(todo["dump"]) + 1
      BY <1>2, <2>1
    <3>4. a.op # "interface" /\ type[Process("dump")] # "APPLE_MACINTOSH"
      BY <1>0, <1>1, <1>6 DEF Meek
    <3>5. Will(todo'["dump"], Len(u) + (i - 1), FloppyCtrl, b, v, reg'[FloppyCtrl][b])
      BY <1>0, <3>1, <3>2, <3>3, <3>4, WillMoves
    <3> QED
      BY <2>1, <3>5
  <2> QED
    BY <2>4, <2>5, <2>6
<1>7. ASSUME type["server"] # "APPLE_MACINTOSH", NEW d \in Drives, NEW sd,
             Readied(s, d, sd, reg[FloppyCtrl])
      PROVE  /\ Readied(z, d, sd, reg'[FloppyCtrl])
             /\ a.op = "end" => \A k \in DOMAIN z : ~Shoots(z[k])
  BY <1>6, <1>7 DEF Readied
<1> QED
  BY <1>3, <1>5, <1>7

LEMMA StepDumped ==
  ASSUME Wired, Commands, Apart, ~Overlap, Stays, Dumped, [BoardNext]_boardVars
  PROVE  Dumped'
<1>0. Held /\ Full /\ mode \in Modes
  BY DEF Stays, Held, Ordered, Shape
<1>1. Threads = {"script", "dump", "tool"} /\ DOMAIN type = {"server", "tool"}
  BY <1>0, ThreadsAre DEF Held, Ordered, Shape
<1>00. PICK d, sd : d = dumping[1] /\ sd = dumping[2]
  OBVIOUS
<1>01. Closes(todo["dump"]) => todo["dump"] # <<>>
  BY Listed DEF Closes
<1>2. ASSUME type'["server"] = type["server"], dumping' = dumping, todo'["dump"] = todo["dump"],
             dumping = None \/ (todo'["script"] = todo["script"] /\
                                \A b \in 0 .. 5 : reg'[FloppyCtrl][b] = reg[FloppyCtrl][b])
      PROVE  Dumped'
  <2>1. CASE dumping = None
    BY <1>2, <2>1 DEF Dumped
  <2>2. CASE dumping # None
    <3>1. d \in Drives /\ Closes(todo["dump"])
      BY <1>00, <2>2 DEF Dumped
    <3>2. type["server"] # "APPLE_MACINTOSH" => Readied(todo["dump"], d, sd, reg'[FloppyCtrl])
      <4> SUFFICES ASSUME type["server"] # "APPLE_MACINTOSH"
                   PROVE  Readied(todo["dump"], d, sd, reg'[FloppyCtrl])
        OBVIOUS
      <4>1. Readied(todo["dump"], d, sd, reg[FloppyCtrl])
        BY <1>00, <2>2 DEF Dumped
      <4> QED
        BY <1>2, <2>2, <3>1, <4>1, ReadiedSame
    <3> QED
      BY <1>00, <1>2, <2>2, <3>1, <3>2 DEF Dumped
  <2> QED
    BY <2>1, <2>2
<1>3. ASSUME NEW t \in {"script", "tool"}, Issue(t) PROVE Dumped'
  <2>1. PICK c \in Calls[t][mode] :
          /\ todo' = [todo EXCEPT ![t] = Program(c)]
          /\ (c[1] = "headstep" /\ dumping # None) => dumping[1] = c[2]
          /\ (c[1] = "reset") => todo["dump"] = <<>>
    BY <1>3 DEF Issue
  <2>2. /\ reg' = reg /\ dumping' = dumping
        /\ type' = IF t = "tool" THEN [type EXCEPT ![t] = "GENERIC"] ELSE type
    BY <1>3 DEF Issue
  <2>3. todo'[t] = Program(c) /\ \A o \in Threads : o # t => todo'[o] = todo[o]
    BY <1>0, <1>1, <2>1, Begins
  <2>4. type'["server"] = type["server"] /\ todo'["dump"] = todo["dump"]
    BY <1>1, <2>2, <2>3
  <2>5. CASE t = "tool" \/ dumping = None
    BY <1>1, <1>2, <2>2, <2>3, <2>4, <2>5
  <2>6. CASE t = "script" /\ dumping # None
    <3>1. d \in Drives /\ Closes(todo["dump"]) /\ c[1] # "reset"
      BY <1>00, <1>01, <2>1, <2>6 DEF Dumped
    <3>2. c \in Calls["script"][mode] /\ (c[1] = "headstep" => c[2] = d)
      BY <1>00, <2>1, <2>6
    <3>3. Gentle(Program(c), d)
      BY <1>0, <3>1, <3>2, IssueGentle
    <3>4. todo'["script"] = Program(c)
      BY <2>3, <2>6
    <3> QED
      BY <1>00, <2>2, <2>4, <2>6, <3>3, <3>4 DEF Dumped
  <2> QED
    BY <2>5, <2>6
<1>4. CASE BeginDump
  <2>1. PICK e \in Dumps[mode], s \in 0 .. 1, n \in 0 .. 1 :
          todo' = [todo EXCEPT !["dump"] = DumpProgram(e, s, n)] /\ dumping' = <<e, s>>
    BY <1>4 DEF BeginDump
  <2>2. todo["script"] = <<>>
    BY <1>4 DEF BeginDump
  <2>3. todo'["dump"] = DumpProgram(e, s, n) /\ \A o \in Threads : o # "dump" => todo'[o] = todo[o]
    BY <1>0, <1>1, <2>1, Begins
  <2>4. e \in Drives
    BY <1>0, BoardAssumption
  <2>5. Taken(todo'["dump"], e, s) /\ Closes(todo'["dump"])
    BY <2>3, <2>4, DumpTaken
  <2>6. \A w : Readied(todo'["dump"], e, s, w)
    BY <2>5, TakenReadied
  <2>7. todo'["script"] = <<>> /\ Gentle(<<>>, e)
    BY <1>1, <2>2, <2>3, GentleJoin
  <2>8. dumping' # None /\ dumping'[1] = e /\ dumping'[2] = s
    BY <2>1 DEF None
  <2> QED
    BY <2>4, <2>5, <2>6, <2>7, <2>8 DEF Dumped
<1>5. ASSUME NEW t \in Threads, ThreadStep(t) \/ (t = "dump" /\ EndDump) PROVE Dumped'
  <2>1. Rests \/ \E a, u : Moves(t, a, u) /\ Writes(a)
    BY <1>0, <1>5, ThreadMoves
  <2>2. CASE Rests
    BY <1>2, <2>2 DEF Rests
  <2>3. ASSUME NEW a, NEW u, Moves(t, a, u), Writes(a) PROVE Dumped'
    <3>1. \A o \in Threads : o # t => todo'[o] = todo[o]
      <4>1. Listing(u)
        BY <1>0, <2>3, MoveBody
      <4> QED
        BY <1>0, <2>3, <4>1, MoveList
    <3>2. todo["dump"] # <<>> => type'["server"] = type["server"]
      BY <1>0, <2>3, ServerStays
    <3>3. dumping # None => d \in Drives /\ Closes(todo["dump"]) /\ todo["dump"] # <<>>
      BY <1>00, <1>01 DEF Dumped
    <3>4. t # "dump" => dumping' = dumping /\ todo'["dump"] = todo["dump"]
      BY <1>1, <2>3, <3>1 DEF Moves
    <3>5. CASE t # "dump" /\ dumping = None
      <4>1. CASE todo["dump"] = <<>>
        BY <3>4, <3>5, <4>1, Listed DEF Dumped
      <4>2. CASE todo["dump"] # <<>>
        BY <1>2, <3>2, <3>4, <3>5, <4>2
      <4> QED
        BY <4>1, <4>2
    <3>6. CASE t = "script" /\ dumping # None
      <4>1. type'["server"] = type["server"]
        BY <3>2, <3>3, <3>6
      <4>2. CASE type["server"] = "APPLE_MACINTOSH"
        BY <1>00, <3>3, <3>4, <3>6, <4>1, <4>2 DEF Dumped
      <4>3. CASE type["server"] # "APPLE_MACINTOSH"
        <5>1. Gentle(todo["script"], d) /\ Readied(todo["dump"], d, sd, reg[FloppyCtrl])
          BY <1>00, <3>6, <4>3 DEF Dumped
        <5>2. /\ Gentle(todo'["script"], d)
              /\ \A b \in 0 .. 5 : \/ reg'[FloppyCtrl][b] = reg[FloppyCtrl][b]
                                   \/ b = LineBit("select", d) /\ reg'[FloppyCtrl][b] = 1
          BY <1>0, <2>3, <3>3, <3>6, <4>3, <5>1, ScriptGentle
        <5>3. Readied(todo["dump"], d, sd, reg'[FloppyCtrl])
          BY <3>3, <3>6, <5>1, <5>2, ReadiedSame
        <5> QED
          BY <1>00, <3>3, <3>4, <3>6, <4>1, <5>2, <5>3 DEF Dumped
      <4> QED
        BY <4>2, <4>3
    <3>7. CASE t = "tool" /\ dumping # None
      <4>1. \A b \in 0 .. 5 : reg'[FloppyCtrl][b] = reg[FloppyCtrl][b]
        BY <1>0, <2>3, <3>3, <3>7, ToolGentle
      <4>2. todo'["script"] = todo["script"]
        BY <1>1, <3>1, <3>7
      <4> QED
        BY <1>2, <3>2, <3>3, <3>4, <3>7, <4>1, <4>2
    <3>8. CASE t = "dump"
      <4>0. PICK s, z : s = todo["dump"] /\ z = todo'["dump"]
        OBVIOUS
      <4>1. s # <<>> /\ type'["server"] = type["server"]
        BY <2>3, <3>2, <3>8, <4>0 DEF Moves
      <4>2. todo'["script"] = todo["script"]
        BY <1>1, <3>1, <3>8
      <4>3. dumping' = IF a.op = "end" THEN None ELSE dumping
        BY <2>3, <3>8 DEF Moves
      <4>4. /\ Closes(s) /\ a.op # "end" => Closes(z)
            /\ type["server"] # "APPLE_MACINTOSH" =>
                 /\ (\A k \in DOMAIN s : ~Shoots(s[k])) => \A k \in DOMAIN z : ~Shoots(z[k])
                 /\ \A e \in Drives : \A f : Readied(s, e, f, reg[FloppyCtrl]) =>
                      /\ Readied(z, e, f, reg'[FloppyCtrl])
                      /\ a.op = "end" => \A k \in DOMAIN z : ~Shoots(z[k])
        <5>1. Moves("dump", a, u) /\ Writes(a)
          BY <2>3, <3>8
        <5> QED
          BY <1>0, <4>0, <5>1, DumpMoves
      <4>5. CASE dumping = None
        <5>1. dumping' = None
          BY <4>3, <4>5
        <5>2. type["server"] # "APPLE_MACINTOSH" => \A k \in DOMAIN s : ~Shoots(s[k])
          BY <4>0, <4>5 DEF Dumped
        <5>3. type'["server"] # "APPLE_MACINTOSH" => \A k \in DOMAIN z : ~Shoots(z[k])
          BY <4>1, <4>4, <5>2
        <5> QED
          BY <4>0, <5>1, <5>3 DEF Dumped
      <4>6. CASE dumping # None
        <5>1. d \in Drives /\ Closes(s)
          BY <3>3, <4>0, <4>6
        <5>2. type["server"] # "APPLE_MACINTOSH" =>
                Readied(s, d, sd, reg[FloppyCtrl]) /\ Gentle(todo["script"], d)
          BY <1>00, <4>0, <4>6 DEF Dumped
        <5>3. CASE a.op = "end"
          <6>1. type'["server"] # "APPLE_MACINTOSH" => \A k \in DOMAIN z : ~Shoots(z[k])
            BY <4>1, <4>4, <5>1, <5>2, <5>3
          <6>2. dumping' = None
            BY <4>3, <5>3
          <6> QED
            BY <4>0, <6>1, <6>2 DEF Dumped
        <5>4. CASE a.op # "end"
          <6>1. dumping' = dumping /\ Closes(z)
            BY <4>3, <4>4, <5>1, <5>4
          <6>2. type'["server"] # "APPLE_MACINTOSH" =>
                  Readied(z, d, sd, reg'[FloppyCtrl]) /\ Gentle(todo'["script"], d)
            BY <4>1, <4>2, <4>4, <5>1, <5>2
          <6> QED
            BY <1>00, <4>0, <4>6, <5>1, <6>1, <6>2 DEF Dumped
        <5> QED
          BY <5>3, <5>4
      <4> QED
        BY <4>5, <4>6
    <3> QED
      BY <1>1, <3>5, <3>6, <3>7, <3>8
  <2> QED
    BY <2>1, <2>2, <2>3
<1>6. CASE UNCHANGED boardVars
  BY <1>2, <1>6 DEF boardVars
<1>7. CASE SetEnv
  BY <1>2, <1>7 DEF SetEnv
<1> QED
  BY <1>1, <1>3, <1>4, <1>5, <1>6, <1>7 DEF BoardNext

\* The access that triggers the capture finds the port as the dump wants it.
LEMMA DumpedNow == ASSUME Wired, Held, Dumped PROVE SettingsKept
<1>1. NothingLost
  <2>1. {Control, FloppyCtrl, Mux} \cup {Config(d) : d \in Drives} \subseteq Shared
    BY DEF Shared
  <2> QED
    BY <2>1 DEF NothingLost, Held, Kept
<1>2. ASSUME Capturing("dump"), type["server"] # "APPLE_MACINTOSH"
      PROVE  /\ Line1("select", dumping[1]) /\ Line1("motor", dumping[1])
             /\ reg[FloppyCtrl][5] = dumping[2]
  <2>0. PICK s, w, d, sd :
          s = todo["dump"] /\ w = reg[FloppyCtrl] /\ d = dumping[1] /\ sd = dumping[2]
    OBVIOUS
  <2>1. Listing(s) /\ s # <<>>
    BY <1>2, <2>0, ThreadsAre DEF Held, Ordered, Lists, Fine, Capturing, Next1
  <2>2. 1 \in DOMAIN s /\ Head(s) = s[1]
    BY <2>1, RestEach
  <2>3. Shoots(s[1])
    BY <1>2, <2>0, <2>2 DEF Capturing, Next1, Shoots
  <2>4. d \in Drives /\ Readied(s, d, sd, w)
    BY <1>2, <2>0, <2>2, <2>3 DEF Dumped
  <2>5. \A b, v : Wants(d, sd, b, v) => w[b] = v
    <3>1. \A b, v : Wants(d, sd, b, v) => Will(s, 1, FloppyCtrl, b, v, w[b])
      BY <2>2, <2>3, <2>4 DEF Readied
    <3> QED
      BY <3>1, WillNow
  <2>6. w[LineBit("select", d)] = 1 /\ w[LineBit("motor", d)] = 1 /\ w[5] = sd
    BY <2>5 DEF Wants
  <2>7. ASSUME NEW use \in {"select", "motor"}, w[LineBit(use, d)] = 1 PROVE Line1(use, d)
    <3>1. PICK p : p = CHOOSE q \in Pin(Line[use][d]) : TRUE
      OBVIOUS
    <3>2. p[2] = FloppyCtrl
      <4>1. Pin(Line[use][d]) # {} /\ \A q \in Pin(Line[use][d]) : q[2] = FloppyCtrl
        BY <2>4 DEF Wired
      <4>2. p \in Pin(Line[use][d])
        BY <3>1, <4>1
      <4> QED
        BY <4>1, <4>2
    <3> QED
      BY <2>0, <2>7, <3>1, <3>2 DEF Line1, LineBit
  <2> QED
    BY <2>0, <2>6, <2>7
<1> QED
  BY <1>1, <1>2 DEF SettingsKept, CaptureAsAsked

\* The mutex of fpga.c, and a shell kept to what the clients leave alone,
\* keep every setting, and trigger each capture with the drive of its dump
\* selected, its motor on and the side set, whatever the clients do meanwhile.
THEOREM SettingsKeptCorrect ==
  ASSUME Wired, Commands, Apart, ~Overlap
  PROVE  BoardSpec => []SettingsKept
<1>1. BoardInit => Stays /\ Dumped
  <2>1. BoardInit => Dumped
    BY ThreadsAre, Listed DEF BoardInit, Dumped
  <2> QED
    BY <2>1, InitStays
<1>2. Stays /\ Dumped /\ [BoardNext]_boardVars => (Stays /\ Dumped)'
  BY StepStays, StepDumped
<1>3. Stays /\ Dumped => SettingsKept
  BY DumpedNow DEF Stays
<1> QED
  BY <1>1, <1>2, <1>3, PTL DEF BoardSpec

-----------------------------------------------------------------------------
(* Arithmetic of the ring: each remainder the code takes is within one turn *)
(* of the ring, where it is an addition or a subtraction.                   *)

LEMMA FirstTurn ==
  ASSUME NEW n \in Nat \ {0}, NEW a \in Nat, a < n
  PROVE  a % n = a
  BY SMT

LEMMA SecondTurn ==
  ASSUME NEW n \in Nat \ {0}, NEW a \in Nat, ~(a < n), a < 2 * n
  PROVE  a % n = a - n
  BY SMT

LEMMA OneTurnDown ==
  ASSUME NEW n \in Nat \ {0}, NEW a \in -n .. -1
  PROVE  a % n = a + n
  BY SMT

LEMMA SuccInSlots ==
  ASSUME NEW i \in Slots
  PROVE  /\ Succ(i) \in Slots
         /\ Succ(i) = IF i + 1 < N THEN i + 1 ELSE 0
<1>1. N \in Nat \ {0} /\ i + 1 \in Nat /\ i + 1 < 2 * N
  BY QueueAssumption, SMT DEF Slots
<1>2. /\ i + 1 < N => (i + 1) % N = i + 1
      /\ ~(i + 1 < N) => (i + 1) % N = (i + 1) - N
  <2>1. CASE i + 1 < N
    BY <1>1, <2>1, FirstTurn
  <2>2. CASE ~(i + 1 < N)
    <3>1. (i + 1) % N = (i + 1) - N
      BY <1>1, <2>2, SecondTurn
    <3> QED BY <2>2, <3>1
  <2> QED BY <2>1, <2>2
<1> QED BY <1>2, QueueAssumption, SMT DEF Succ, Slots

\* The slot that holds the k-th pending line.
At(out, k) == IF out + k < N THEN out + k ELSE out + k - N

LEMMA AtIsSlot ==
  ASSUME NEW i \in Slots, NEW k \in 0 .. N - 1
  PROVE  (i + k) % N = At(i, k) /\ At(i, k) \in Slots
<1>1. N \in Nat \ {0} /\ i + k \in Nat /\ i + k < 2 * N
  BY QueueAssumption, SMT DEF Slots
<1>2. /\ i + k < N => (i + k) % N = i + k
      /\ ~(i + k < N) => (i + k) % N = (i + k) - N
  <2>1. CASE i + k < N
    BY <1>1, <2>1, FirstTurn
  <2>2. CASE ~(i + k < N)
    <3>1. (i + k) % N = (i + k) - N
      BY <1>1, <2>2, SecondTurn
    <3> QED BY <2>2, <3>1
  <2> QED BY <2>1, <2>2
<1> QED BY <1>2, QueueAssumption, SMT DEF At, Slots

\* The number of pending lines, from the two indices.
Between(out, in) == IF in < out THEN in - out + N ELSE in - out

LEMMA CountIsBetween ==
  ASSUME NEW i \in Slots, NEW o \in Slots
  PROVE  (i - o) % N = Between(o, i) /\ Between(o, i) \in Slots
<1>0. N \in Nat \ {0}
  BY QueueAssumption
<1>1. CASE i < o
  <2>1. i - o \in -N .. -1
    BY <1>0, <1>1, SMT DEF Slots
  <2>2. (i - o) % N = i - o + N
    BY <1>0, <2>1, OneTurnDown
  <2> QED BY <1>0, <1>1, <2>2, SMT DEF Between, Slots
<1>2. CASE ~(i < o)
  <2>1. i - o \in Nat /\ i - o < 2 * N /\ i - o < N
    BY <1>0, <1>2, SMT DEF Slots
  <2>2. (i - o) % N = i - o
    BY <1>0, <2>1, FirstTurn, SecondTurn
  <2> QED BY <1>0, <1>2, <2>2, SMT DEF Between, Slots
<1> QED BY <1>1, <1>2

-----------------------------------------------------------------------------
(* The inductive invariant.                                                 *)

\* The lines in the ring are numbered without a gap up to the last one sent;
\* what precedes them was taken, or the ring is full.
RingInv ==
  /\ Between(outIndex, inIndex) <= sent
  /\ \A k \in Slots : k < Between(outIndex, inIndex) =>
       slots[At(outIndex, k)] = sent - Between(outIndex, inIndex) + 1 + k
  /\ got <= sent - Between(outIndex, inIndex)
  /\ \/ got = sent - Between(outIndex, inIndex)
     \/ Between(outIndex, inIndex) = N - 1

IInv == TypeOK /\ RingInv /\ NoLostWakeup

LEMMA EmptyCount ==
  ASSUME TypeOK
  PROVE  Empty <=> Between(outIndex, inIndex) = 0
  BY QueueAssumption, SMT DEF TypeOK, Empty, Between, Slots

LEMMA InitIInv == Init => IInv
<1> SUFFICES ASSUME Init PROVE IInv
  OBVIOUS
<1>1. TypeOK
  <2>1. slots \in [Slots -> 0 .. MaxLines]
    BY QueueAssumption DEF Init
  <2>2. 0 \in Slots /\ 0 \in 0 .. MaxLines
    BY QueueAssumption, SMT DEF Slots
  <2> QED BY <2>1, <2>2 DEF Init, TypeOK
<1>2. RingInv
  BY QueueAssumption, SMT DEF Init, RingInv, Between, Slots
<1>3. NoLostWakeup
  BY DEF Init, NoLostWakeup
<1> QED BY <1>1, <1>2, <1>3 DEF IInv

\* Pushing a line appends it; a full ring gives up its oldest line.
LEMMA PushRing ==
  ASSUME IInv, NEW c \in Clients, Push(c)
  PROVE  /\ TypeOK' /\ RingInv'
         /\ Between(outIndex, inIndex) < N - 1 =>
              /\ outIndex' = outIndex
              /\ Between(outIndex', inIndex') = Between(outIndex, inIndex) + 1
         /\ Between(outIndex, inIndex) = N - 1 =>
              /\ outIndex' = Succ(outIndex)
              /\ Between(outIndex', inIndex') = N - 1
<1> DEFINE b == Between(outIndex, inIndex)
<1>0. /\ inIndex \in Slots /\ outIndex \in Slots /\ b \in Slots /\ sent \in Nat
      /\ got \in Nat /\ slots \in [Slots -> 0 .. MaxLines] /\ sent + 1 \in 0 .. MaxLines
  <2>1. sent < MaxLines
    BY DEF Push
  <2> QED BY <2>1, CountIsBetween, QueueAssumption, SMT DEF IInv, TypeOK
<1>1. /\ inIndex' \in Slots
      /\ inIndex' = IF inIndex + 1 < N THEN inIndex + 1 ELSE 0
  BY <1>0, SuccInSlots DEF Push
<1>2. /\ Succ(outIndex) \in Slots
      /\ Succ(outIndex) = IF outIndex + 1 < N THEN outIndex + 1 ELSE 0
  BY <1>0, SuccInSlots
<1>3. TypeOK'
  <2>1. slots' \in [Slots -> 0 .. MaxLines]
    BY <1>0 DEF Push
  <2>2. outIndex' \in Slots
    BY <1>0, <1>2 DEF Push
  <2>3. signalled' \in BOOLEAN /\ signalling' \subseteq Clients /\ deaf' \in BOOLEAN
        /\ kills' \subseteq Lines
    <3>1. sent + 1 \in Lines
      BY <1>0, SMT DEF Lines
    <3> QED BY <3>1 DEF IInv, TypeOK, Push
  <2> QED BY <2>1, <2>2, <2>3, <1>0, <1>1 DEF IInv, TypeOK, Push
<1>4. CASE b < N - 1
  <2>1. outIndex' = outIndex /\ Between(outIndex', inIndex') = b + 1
    <3>1. inIndex' # outIndex
      BY <1>0, <1>1, <1>4, QueueAssumption, SMT DEF Between, Slots
    <3>2. outIndex' = outIndex
      BY <3>1 DEF Push
    <3> QED BY <1>0, <1>1, <1>4, <3>2, QueueAssumption, SMT DEF Between, Slots
  <2>2. ASSUME NEW k \in Slots, k < b + 1
        PROVE  slots'[At(outIndex, k)] = (sent + 1) - (b + 1) + 1 + k
    <3>0. At(outIndex, k) \in Slots
      <4>1. k \in 0 .. N - 1
        BY DEF Slots
      <4> QED BY <4>1, <1>0, AtIsSlot
    <3>1. CASE k < b
      <4>1. At(outIndex, k) # inIndex
        BY <1>0, <3>1, QueueAssumption, SMT DEF At, Between, Slots
      <4>2. slots'[At(outIndex, k)] = slots[At(outIndex, k)]
        BY <4>1, <3>0, <1>0 DEF Push
      <4>3. slots[At(outIndex, k)] = sent - b + 1 + k
        BY <3>1 DEF IInv, RingInv
      <4> HIDE DEF b
      <4> QED BY <4>2, <4>3, <1>0, QueueAssumption, SMT DEF Slots
    <3>2. CASE k = b
      <4>1. At(outIndex, k) = inIndex
        BY <1>0, <3>2, QueueAssumption, SMT DEF At, Between, Slots
      <4>2. slots'[inIndex] = sent + 1
        BY <1>0 DEF Push
      <4> HIDE DEF b
      <4> QED BY <4>1, <4>2, <3>2, <1>0, QueueAssumption, SMT DEF Slots
    <3> HIDE DEF b
    <3> QED BY <3>1, <3>2, <2>2, <1>0, QueueAssumption, SMT DEF Slots
  <2>3. got' = got /\ sent' = sent + 1
    BY DEF Push
  <2>4. got = sent - b /\ b <= sent
    <3>1. b # N - 1
      BY <1>0, <1>4, QueueAssumption, SMT DEF Slots
    <3> QED BY <3>1 DEF IInv, RingInv
  <2> HIDE DEF b
  <2>5. RingInv'
    BY <2>1, <2>2, <2>3, <2>4, <1>0, QueueAssumption, SMT DEF RingInv, Slots
  <2>6. b # N - 1
    BY <1>4, <1>0, QueueAssumption, SMT DEF Slots
  <2> QED BY <2>1, <2>5, <2>6, <1>3 DEF b
<1>5. CASE b = N - 1
  <2>1. outIndex' = Succ(outIndex) /\ Between(outIndex', inIndex') = N - 1
    BY <1>0, <1>1, <1>2, <1>5, QueueAssumption, SMT DEF Push, Between, Slots
  <2>2. ASSUME NEW k \in Slots, k < N - 1
        PROVE  slots'[At(outIndex', k)] = (sent + 1) - (N - 1) + 1 + k
    <3>0. At(outIndex', k) \in Slots
      <4>1. k \in 0 .. N - 1
        BY DEF Slots
      <4> QED BY <4>1, <1>2, <2>1, AtIsSlot
    <3>1. CASE k < N - 2
      <4>1. At(outIndex', k) # inIndex /\ At(outIndex', k) = At(outIndex, k + 1)
        BY <1>0, <1>2, <1>5, <2>1, <3>1, QueueAssumption, SMT DEF At, Between, Slots
      <4>2. slots'[At(outIndex', k)] = slots[At(outIndex, k + 1)]
        BY <4>1, <3>0, <1>0 DEF Push
      <4>3. k + 1 \in Slots /\ k + 1 < b
        BY <3>1, <1>5, QueueAssumption, SMT DEF Slots
      <4>4. slots[At(outIndex, k + 1)] = sent - b + 1 + (k + 1)
        BY <4>3 DEF IInv, RingInv
      <4> HIDE DEF b
      <4> QED BY <4>2, <4>4, <1>0, <1>5, QueueAssumption, SMT DEF Slots
    <3>2. CASE k = N - 2
      <4>1. At(outIndex', k) = inIndex
        BY <1>0, <1>2, <1>5, <2>1, <3>2, QueueAssumption, SMT DEF At, Between, Slots
      <4>2. slots'[inIndex] = sent + 1
        BY <1>0 DEF Push
      <4> HIDE DEF b
      <4> QED BY <4>1, <4>2, <3>2, <1>0, QueueAssumption, SMT DEF Slots
    <3> HIDE DEF b
    <3> QED BY <3>1, <3>2, <2>2, <1>0, QueueAssumption, SMT DEF Slots
  <2>3. got' = got /\ sent' = sent + 1
    BY DEF Push
  <2>4. got <= sent - b /\ b <= sent
    BY <1>0 DEF IInv, RingInv
  <2> HIDE DEF b
  <2>5. RingInv'
    BY <1>5, <2>1, <2>2, <2>3, <2>4, <1>0, QueueAssumption, SMT DEF RingInv, Slots
  <2>6. ~(b < N - 1)
    BY <1>5, QueueAssumption, SMT
  <2> QED BY <2>1, <2>5, <2>6, <1>3 DEF b
<1> HIDE DEF b
<1>6. b < N - 1 \/ b = N - 1
  BY <1>0, QueueAssumption, SMT DEF Slots
<1> QED BY <1>4, <1>5, <1>6

\* Taking a line removes the oldest one.
LEMMA TakeRing ==
  ASSUME IInv, Take
  PROVE  /\ TypeOK' /\ RingInv'
         /\ got' = sent - Between(outIndex, inIndex) + 1
         /\ Between(outIndex', inIndex') = Between(outIndex, inIndex) - 1
         /\ outIndex' = Succ(outIndex) /\ Between(outIndex, inIndex) > 0
<1> DEFINE b == Between(outIndex, inIndex)
<1>0. /\ inIndex \in Slots /\ outIndex \in Slots /\ b \in Slots /\ sent \in Nat
      /\ got \in Nat /\ slots \in [Slots -> 0 .. MaxLines] /\ b <= sent
  BY CountIsBetween, QueueAssumption, SMT DEF IInv, TypeOK, RingInv
<1>1. /\ outIndex' \in Slots
      /\ outIndex' = IF outIndex + 1 < N THEN outIndex + 1 ELSE 0
  BY <1>0, SuccInSlots DEF Take
<1>2. b # 0 /\ b > 0
  <2>1. b # 0
    BY EmptyCount DEF Take, IInv
  <2> HIDE DEF b
  <2> QED BY <2>1, <1>0, QueueAssumption, SMT DEF Slots
<1>3. inIndex' = inIndex /\ slots' = slots /\ sent' = sent
  BY DEF Take
<1>4. Between(outIndex', inIndex') = b - 1
  BY <1>0, <1>1, <1>2, <1>3, QueueAssumption, SMT DEF Between, Slots
<1>5. got' = sent - b + 1
  <2>1. 0 \in Slots /\ At(outIndex, 0) = outIndex
    BY <1>0, QueueAssumption, SMT DEF At, Slots
  <2>2. slots[outIndex] = sent - b + 1 + 0
    BY <2>1, <1>2 DEF IInv, RingInv
  <2> HIDE DEF b
  <2> QED BY <2>2, <1>0, QueueAssumption, SMT DEF Take, Slots
<1>6. TypeOK'
  <2>1. got' \in 0 .. MaxLines
    BY <1>0 DEF Take
  <2> QED BY <2>1, <1>1 DEF IInv, TypeOK, Take
<1>7. ASSUME NEW k \in Slots, k < b - 1
      PROVE  slots'[At(outIndex', k)] = sent - (b - 1) + 1 + k
  <2>1. k + 1 \in Slots /\ k + 1 < b
    <3> HIDE DEF b
    <3> QED BY <1>7, <1>0, QueueAssumption, SMT DEF Slots
  <2>2. At(outIndex', k) = At(outIndex, k + 1)
    BY <1>0, <1>1, <2>1, QueueAssumption, SMT DEF At, Between, Slots
  <2>3. slots[At(outIndex, k + 1)] = sent - b + 1 + (k + 1)
    BY <2>1 DEF IInv, RingInv
  <2> HIDE DEF b
  <2> QED BY <2>2, <2>3, <1>0, <1>3, QueueAssumption, SMT DEF Slots
<1> HIDE DEF b
<1>8. RingInv'
  BY <1>0, <1>2, <1>3, <1>4, <1>5, <1>7, QueueAssumption, SMT DEF RingInv, Slots
<1> QED BY <1>1, <1>2, <1>4, <1>5, <1>6, <1>8 DEF b, Take

LEMMA StepIInv == IInv /\ [Next]_vars => IInv'
<1> SUFFICES ASSUME IInv, [Next]_vars PROVE IInv'
  OBVIOUS
<1>1. ASSUME NEW c \in Clients, Push(c) PROVE IInv'
  <2>1. TypeOK' /\ RingInv'
    BY <1>1, PushRing
  <2>2. NoLostWakeup'
    BY <1>1 DEF Push, NoLostWakeup
  <2> QED BY <2>1, <2>2 DEF IInv
<1>2. ASSUME NEW c \in Clients, Signal(c) PROVE IInv'
  BY <1>2 DEF IInv, Signal, TypeOK, RingInv, NoLostWakeup, Empty
<1>3. CASE FindEmpty
  BY <1>3 DEF IInv, FindEmpty, TypeOK, RingInv, NoLostWakeup, Empty
<1>4. CASE Awake
  BY <1>4 DEF IInv, Awake, TypeOK, RingInv, NoLostWakeup, Empty
<1>5. CASE Spurious
  BY <1>5 DEF IInv, Spurious, TypeOK, RingInv, NoLostWakeup, Empty
<1>6. CASE Take
  <2>1. TypeOK' /\ RingInv'
    BY <1>6, TakeRing
  <2>2. NoLostWakeup'
    BY <1>6 DEF Take, NoLostWakeup
  <2> QED BY <2>1, <2>2 DEF IInv
<1>7. CASE Ignore
  BY <1>7 DEF IInv, Ignore, TypeOK, RingInv, NoLostWakeup, Empty
<1>8. CASE Execute
  BY <1>8 DEF IInv, Execute, TypeOK, RingInv, NoLostWakeup, Empty
<1>9. CASE UNCHANGED vars
  BY <1>9 DEF IInv, vars, TypeOK, RingInv, NoLostWakeup, Empty
<1> QED BY <1>1, <1>2, <1>3, <1>4, <1>5, <1>6, <1>7, <1>8, <1>9
        DEF Next, ScriptThread

\* The invariant holds in every behaviour of the queue.
THEOREM IInvCorrect == Spec => []IInv
<1>1. Init => IInv
  BY InitIInv
<1>2. IInv /\ [Next]_vars => IInv'
  BY StepIInv
<1> QED BY <1>1, <1>2, PTL DEF Spec

\* Every variable keeps its type: msg_push_in_msg and msg_in_wait never index
\* outside of the ring.
THEOREM TypeCorrect == Spec => []TypeOK
<1>1. IInv => TypeOK
  BY DEF IInv
<1> QED BY <1>1, IInvCorrect, PTL

\* waitEvent after the emptiness test of msg_in_wait never sleeps through a
\* line pushed in between.
THEOREM NoLostWakeupCorrect == Spec => []NoLostWakeup
<1>1. IInv => NoLostWakeup
  BY DEF IInv
<1> QED BY <1>1, IInvCorrect, PTL

\* The number of pending lines and the lines themselves, as numbers.
LEMMA PendingLines ==
  ASSUME IInv
  PROVE  /\ Count = Between(outIndex, inIndex) /\ Count \in Slots
         /\ Count <= sent
         /\ \A k \in 1 .. Count : Pending[k] = sent - Count + k
<1>1. Count = Between(outIndex, inIndex) /\ Count \in Slots
  BY CountIsBetween DEF IInv, TypeOK, Count
<1>2. ASSUME NEW k \in 1 .. Count PROVE Pending[k] = sent - Count + k
  <2>1. /\ k - 1 \in 0 .. N - 1 /\ k - 1 \in Slots /\ k - 1 < Count
        /\ outIndex + k - 1 = outIndex + (k - 1)
    BY <1>1, QueueAssumption, SMT DEF IInv, TypeOK, Slots
  <2>2. Pending[k] = slots[(outIndex + k - 1) % N]
    BY DEF Pending
  <2>3. (outIndex + (k - 1)) % N = At(outIndex, k - 1)
    BY <2>1, AtIsSlot DEF IInv, TypeOK
  <2>4. slots[At(outIndex, k - 1)] = sent - Count + 1 + (k - 1)
    BY <1>1, <2>1 DEF IInv, RingInv
  <2>5. sent \in Nat /\ Count \in Nat
    BY <1>1, QueueAssumption, SMT DEF IInv, TypeOK, Slots
  <2> QED BY <2>1, <2>2, <2>3, <2>4, <2>5, SMT
<1> QED BY <1>1, <1>2 DEF IInv, RingInv

\* Only a full ring loses lines, and it loses the oldest.
THEOREM NewestKeptCorrect == Spec => []NewestKept
<1>1. ASSUME IInv PROVE NewestKept
  <2>1. got <= sent - Count /\ (got = sent - Count \/ Count = N - 1)
    BY <1>1, PendingLines DEF IInv, RingInv
  <2>2. sent \in Nat /\ got \in Nat /\ Count \in Nat /\ Count <= N - 1
    BY <1>1, PendingLines, QueueAssumption, SMT DEF IInv, TypeOK, Slots
  <2>3. Larger(got, sent - (N - 1)) = sent - Count
    BY <2>1, <2>2, QueueAssumption, SMT DEF Larger
  <2>4. Count = sent - (sent - Count)
    BY <2>2, SMT
  <2> QED BY <1>1, <2>3, <2>4, PendingLines DEF NewestKept
<1> QED BY <1>1, IInvCorrect, PTL

\* msg_in_wait gives the lines in the order msg_push_in_msg queued them, none
\* of them twice, also when the ring overflows between two takes.
THEOREM InOrderCorrect == Spec => InOrder
<1>1. IInv /\ [Next]_vars => [got' # got => got' > got]_vars
  <2> SUFFICES ASSUME IInv, [Next]_vars, got' # got PROVE got' > got
    OBVIOUS
  <2>1. Take
    BY DEF Next, ScriptThread, vars, Push, Signal, FindEmpty, Awake, Spurious,
           Ignore, Execute
  <2>2. got' = sent - Between(outIndex, inIndex) + 1
    BY <2>1, TakeRing
  <2>3. got <= sent - Between(outIndex, inIndex) /\ sent \in Nat /\ got \in Nat
        /\ Between(outIndex, inIndex) \in Slots
    BY CountIsBetween, QueueAssumption, SMT DEF IInv, RingInv, TypeOK
  <2> QED BY <2>2, <2>3, QueueAssumption, SMT DEF Slots
<1> QED BY <1>1, IInvCorrect, PTL DEF Spec, InOrder

-----------------------------------------------------------------------------
(* The ring implements the mailbox.                                         *)

\* The sequence of the numbers from a + 1 to a + n.
Numbers(a, n) == [k \in 1 .. n |-> a + k]

LEMMA NumbersSeq ==
  ASSUME NEW a \in Nat, NEW n \in Nat
  PROVE  Numbers(a, n) \in Seq(Nat) /\ Len(Numbers(a, n)) = n
  BY SMT DEF Numbers

LEMMA NumbersAppend ==
  ASSUME NEW a \in Nat, NEW n \in Nat
  PROVE  Append(Numbers(a, n), a + n + 1) = Numbers(a, n + 1)
  BY SMT DEF Numbers

LEMMA NumbersTail ==
  ASSUME NEW a \in Nat, NEW n \in Nat, n > 0
  PROVE  /\ Numbers(a, n) # <<>>
         /\ Head(Numbers(a, n)) = a + 1
         /\ Tail(Numbers(a, n)) = Numbers(a + 1, n - 1)
<1>1. Numbers(a, n) \in Seq(Nat) /\ Len(Numbers(a, n)) = n
  BY NumbersSeq
<1>2. Numbers(a + 1, n - 1) \in Seq(Nat) /\ Len(Numbers(a + 1, n - 1)) = n - 1
  BY NumbersSeq, SMT
<1>3. Numbers(a, n) # <<>>
  BY <1>1, EmptySeq, SMT
<1>4. /\ Tail(Numbers(a, n)) \in Seq(Nat)
      /\ Len(Tail(Numbers(a, n))) = n - 1
      /\ \A i \in 1 .. n - 1 : Tail(Numbers(a, n))[i] = Numbers(a, n)[i + 1]
  BY <1>1, <1>3, HeadTailProperties
<1>5. \A i \in 1 .. n - 1 : Numbers(a, n)[i + 1] = Numbers(a + 1, n - 1)[i]
  BY SMT DEF Numbers
<1>6. Tail(Numbers(a, n)) = Numbers(a + 1, n - 1)
  BY <1>2, <1>4, <1>5, SeqEqual
<1>7. Head(Numbers(a, n)) = a + 1
  BY <1>1, SMT DEF Numbers
<1> QED BY <1>3, <1>6, <1>7

LEMMA NoNumbers ==
  ASSUME NEW a \in Nat
  PROVE  Numbers(a, 0) = <<>>
  BY SMT DEF Numbers

LEMMA PendingNumbers == IInv => Pending = Numbers(sent - Count, Count)
<1> SUFFICES ASSUME IInv PROVE Pending = Numbers(sent - Count, Count)
  OBVIOUS
<1>1. \A k \in 1 .. Count : Pending[k] = sent - Count + k
  BY PendingLines
<1> QED BY <1>1 DEF Pending, Numbers

LEMMA InitMailbox == Init => Mailbox!Init
<1> SUFFICES ASSUME Init PROVE Mailbox!Init
  OBVIOUS
<1>1. IInv
  BY InitIInv
<1>2. Count = 0 /\ sent = 0
  <2>1. Count = Between(outIndex, inIndex)
    BY <1>1, PendingLines
  <2> QED BY <2>1, QueueAssumption, SMT DEF Init, Between
<1>3. sent - Count = 0
  BY <1>2
<1>4. Pending = <<>>
  BY <1>1, <1>2, <1>3, PendingNumbers, NoNumbers
<1>5. got \notin Lines
  BY SMT DEF Init, Lines
<1> QED BY <1>4, <1>5 DEF Mailbox!Init

LEMMA StepMailbox == IInv /\ IInv' /\ [Next]_vars => [Mailbox!Next]_(Mailbox!vars)
<1> SUFFICES ASSUME IInv, IInv', [Next]_vars
             PROVE  Mailbox!Next \/ (Pending' = Pending /\ got' = got)
  BY DEF Mailbox!vars
<1> DEFINE b == Between(outIndex, inIndex)
<1>0. /\ Count = b /\ b \in Nat /\ b <= N - 1 /\ sent \in Nat /\ sent - b \in Nat
      /\ Len(Pending) = b /\ Pending = Numbers(sent - b, b)
  <2>1. Count = b /\ Count \in Slots /\ Count <= sent
    BY PendingLines
  <2>2. sent \in Nat
    BY QueueAssumption, SMT DEF IInv, TypeOK
  <2> HIDE DEF b
  <2>3. b \in Nat /\ b <= N - 1 /\ sent - b \in Nat
    BY <2>1, <2>2, QueueAssumption, SMT DEF Slots
  <2>4. Pending = Numbers(sent - b, b)
    BY <2>1, PendingNumbers
  <2> QED BY <2>1, <2>2, <2>3, <2>4, NumbersSeq
<1>1. ASSUME NEW c \in Clients, Push(c) PROVE Mailbox!Send
  <2>1. /\ Count' = Between(outIndex', inIndex') /\ sent' = sent + 1 /\ got' = got
        /\ Pending' = Numbers(sent' - Count', Count') /\ sent + 1 \in Lines
    <3>1. Count' = Between(outIndex', inIndex')
      BY CountIsBetween DEF IInv, TypeOK, Count
    <3>2. Pending' = Numbers(sent' - Count', Count')
      <4>1. (IInv => Pending = Numbers(sent - Count, Count))'
        BY PendingNumbers, PTL
      <4> QED BY <4>1 DEF Numbers
    <3>3. sent + 1 \in Lines
      BY <1>1, <1>0, SMT DEF Push, Lines, IInv, TypeOK
    <3> QED BY <1>1, <3>1, <3>2, <3>3 DEF Push
  <2>2. CASE b < N - 1
    <3>1. Between(outIndex', inIndex') = b + 1
      BY <1>1, <2>2, PushRing
    <3> HIDE DEF b
    <3>2. Pending' = Numbers(sent - b, b + 1)
      <4>1. (sent + 1) - (b + 1) = sent - b
        BY <1>0, SMT
      <4> QED BY <2>1, <3>1, <4>1
    <3>3. sent - b + b + 1 = sent + 1
      BY <1>0, SMT
    <3>4. Pending' = Append(Pending, sent + 1)
      BY <1>0, <3>2, <3>3, NumbersAppend
    <3>5. Len(Pending) # N - 1
      BY <1>0, <2>2, QueueAssumption, SMT
    <3> QED BY <2>1, <3>4, <3>5 DEF Mailbox!Send
  <2>3. CASE b = N - 1
    <3>1. Between(outIndex', inIndex') = N - 1
      BY <1>1, <2>3, PushRing
    <3> HIDE DEF b
    <3>2. Pending' = Numbers(sent - b + 1, b)
      <4>1. (sent + 1) - (N - 1) = sent - b + 1
        BY <1>0, <2>3, QueueAssumption, SMT
      <4> QED BY <2>1, <2>3, <3>1, <4>1
    <3>3. b > 0 /\ b - 1 \in Nat /\ sent - b + 1 \in Nat /\ b - 1 + 1 = b
          /\ sent - b + 1 + (b - 1) + 1 = sent + 1
      BY <1>0, <2>3, QueueAssumption, SMT
    <3>4. Tail(Pending) = Numbers(sent - b + 1, b - 1)
      <4>1. sent - b \in Nat /\ b \in Nat /\ Pending = Numbers(sent - b, b)
        BY <1>0
      <4>2. Tail(Numbers(sent - b, b)) = Numbers(sent - b + 1, b - 1)
        BY <3>3, <4>1, NumbersTail
      <4> QED BY <4>1, <4>2, Zenon
    <3>5. Append(Numbers(sent - b + 1, b - 1), sent + 1) = Numbers(sent - b + 1, b)
      BY <3>3, NumbersAppend
    <3>6. Pending' = Append(Tail(Pending), sent + 1)
      BY <3>2, <3>4, <3>5
    <3> QED BY <1>0, <2>1, <2>3, <3>6 DEF Mailbox!Send
  <2> HIDE DEF b
  <2>4. b < N - 1 \/ b = N - 1
    BY <1>0, QueueAssumption, SMT
  <2> QED BY <2>2, <2>3, <2>4
<1>2. ASSUME Take PROVE Mailbox!Receive
  <2>1. /\ got' = sent - b + 1 /\ Between(outIndex', inIndex') = b - 1 /\ b > 0
        /\ sent' = sent
    BY <1>2, TakeRing DEF Take
  <2>2. Count' = Between(outIndex', inIndex')
    BY CountIsBetween DEF IInv, TypeOK, Count
  <2>3. Pending' = Numbers(sent' - Count', Count')
    <3>1. (IInv => Pending = Numbers(sent - Count, Count))'
      BY PendingNumbers, PTL
    <3> QED BY <3>1 DEF Numbers
  <2> HIDE DEF b
  <2>4. sent - (b - 1) = sent - b + 1
    BY <1>0, SMT
  <2>5. Pending' = Numbers(sent - b + 1, b - 1)
    BY <2>1, <2>2, <2>3, <2>4
  <2>6. /\ Numbers(sent - b, b) # <<>>
        /\ Head(Numbers(sent - b, b)) = sent - b + 1
        /\ Tail(Numbers(sent - b, b)) = Numbers(sent - b + 1, b - 1)
    BY <1>0, <2>1, NumbersTail
  <2> QED BY <1>0, <2>1, <2>5, <2>6 DEF Mailbox!Receive
<1>3. ASSUME UNCHANGED <<slots, inIndex, outIndex, got>>
      PROVE  Pending' = Pending /\ got' = got
  BY <1>3 DEF Pending, Count
<1> HIDE DEF b
<1> QED
  BY <1>1, <1>2, <1>3 DEF Next, ScriptThread, vars, Signal, FindEmpty, Awake,
     Spurious, Ignore, Execute, Mailbox!Next

\* The console is a mailbox that drops its oldest line when it is full: what
\* the clients may rely on, whatever their number and the order in which
\* their threads, the ring's lock and the event's lock interleave.
THEOREM MailboxImplemented == Spec => ImplementsMailbox
<1>1. IInv /\ IInv' /\ [Next]_vars => [Mailbox!Next]_(Mailbox!vars)
  BY StepMailbox
<1> QED BY <1>1, InitMailbox, IInvCorrect, PTL
        DEF Spec, ImplementsMailbox, Mailbox!Spec
=============================================================================
