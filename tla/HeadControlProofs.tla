-------------------------- MODULE HeadControlProofs --------------------------
(***************************************************************************)
(* Theorems about HeadControl, for drives of any size and loops of any     *)
(* length that can cross them.                                             *)
(*                                                                         *)
(* The types hold whatever the clients do.  The others are for clients     *)
(* that do not move the head while a dump runs (~Overlap) and never ask    *)
(* for a headstep of no tracks: at most one thread then has a move under   *)
(* way, and the stepper's count stays below its command.                   *)
(***************************************************************************)
EXTENDS HeadControl, TLAPS

\* The counts that reach the stepper fit its counter.
AmountInv == amount \in Steps \cup {1}

TypeInv == TypeOK /\ AmountInv

\* At most one thread moves the head, and only while it does is the stepper
\* at work.
SerialInv ==
  /\ \A t \in waiting : pc[t] # "idle"
  /\ pc["script"] = "idle" \/ pc["dump"] = "idle"
  /\ waiting = {} => st = "wait"

\* The stepper has made fewer steps than it was told, or just as many.
CountInv ==
  /\ st = "pre" => cnt < cmd
  /\ st = "move" => 1 <= cnt /\ cnt <= cmd

\* Tracks the stepper has still to go.
Left == IF st = "wait" THEN 0 ELSE cmd - cnt

\* What a thread can do to the head and the stepper: nothing, ...
Quiet(t) ==
  /\ t \notin waiting /\ UNCHANGED <<stepper, head, waiting>>
  /\ \E p : pc' = [pc EXCEPT ![t] = p]
  /\ pc[t] # "idle" \/ \A u \in Threads : pc[u] = "idle"

\* ... ask for a move, ...
Asks(t) ==
  /\ t \notin waiting /\ pc[t] # "idle"
  /\ pc' = pc \/ pc' = [pc EXCEPT ![t] = "walked"]
  /\ \E in \in BOOLEAN, n \in Nat :
       n >= 1 /\ n < CountMod /\ MoveHead(t, in, n)

\* ... or see that it is over.
Acts(t) == Quiet(t) \/ Asks(t) \/ MoveOver(t)

MoveInv == TypeInv /\ SerialInv /\ CountInv

\* Where the head can be in the loops of floppy_head_recalibrate, from the
\* steps counted so far and those still under way.
OutInv ==
  pc["script"] = "recalOut" =>
    /\ st # "wait" => ~inward
    /\ sensor = "stuck" => i["script"] = 0
    /\ sensor = "good" =>
         head >= Left /\ i["script"] + head - Left <= Last
    /\ sensor = "blind" =>
         head <= Left \/ i["script"] + head - Left <= Last

PhaseInv ==
  pc["script"] = "recalPhase" =>
    apple /\ head = 0 /\ (st # "wait" => ~inward)

InInv ==
  pc["script"] = "recalIn" =>
    /\ ~apple /\ sensor # "blind"
    /\ st # "wait" => inward
    /\ sensor = "good" =>
         head + Left = i["script"] /\ i["script"] <= RecalIn

BackInv ==
  pc["script"] = "recalBack" =>
    /\ ~apple /\ sensor = "good"
    /\ st # "wait" => ~inward
    /\ head >= Left /\ head - Left + i["script"] = RecalIn

EndInv ==
  pc["script"] = "recalEnd" =>
    /\ waiting = {}
    /\ \/ ret = "ok" /\ head = 0 /\ (apple \/ sensor = "good")
       \/ ret = "noTrack0" /\ sensor = "blind"
       \/ ret = "alwaysTrack0" /\ sensor = "stuck"

RecalInv ==
  /\ apple => sensor = "blind"
  /\ OutInv /\ PhaseInv /\ InInv /\ BackInv /\ EndInv

-----------------------------------------------------------------------------
(* Types                                                                   *)

\* The head stays between the stops.
LEMMA NeighbourType ==
  ASSUME NEW h \in 0 .. Last, NEW in \in BOOLEAN
  PROVE  Mover!Neighbour(h, in) \in 0 .. Last
BY DriveAssumption DEF Mover!Neighbour

\* A command of floppy_ctrl_move_head that fits the counter keeps the types.
LEMMA MoveHeadType ==
  ASSUME TypeOK, NEW t \in Threads, NEW in \in BOOLEAN,
         NEW n \in Nat, n < CountMod, MoveHead(t, in, n)
  PROVE  /\ head' \in 0 .. Last /\ sensor' \in {"good", "blind", "stuck"}
         /\ apple' \in BOOLEAN
         /\ st' \in {"wait", "pre", "move"} /\ inward' \in BOOLEAN
         /\ cmd' \in 0 .. CountMod - 1 /\ cnt' \in 0 .. CountMod - 1
         /\ phase' \in 0 .. 3
         /\ position' \in Nat /\ known' \in BOOLEAN
         /\ waiting' \subseteq Threads
<1> USE DEF TypeOK, MoveHead, drive
<1>1. position' \in Nat
  <2>1. (IF AtTrack00 THEN 0 ELSE position) \in Nat
    OBVIOUS
  <2>2. \A p \in Nat : Counted(p, in, n) \in Nat
    BY DEF Counted
  <2>. QED
    BY <2>1, <2>2
<1>2. known' \in BOOLEAN
  BY DEF AtTrack00
<1>3. cmd' \in 0 .. CountMod - 1 /\ cnt' \in 0 .. CountMod - 1
  BY DriveAssumption
<1>4. st' \in {"wait", "pre", "move"} /\ inward' \in BOOLEAN
  OBVIOUS
<1>. QED
  BY <1>1, <1>2, <1>3, <1>4

LEMMA TypeInit == Init => TypeInv
<1> SUFFICES ASSUME Init PROVE TypeInv
  OBVIOUS
<1>1. sensor \in {"good", "blind", "stuck"} /\ head \in 0 .. Last
  BY DEF Init
<1>2. cmd \in 0 .. CountMod - 1 /\ cnt \in 0 .. CountMod - 1
  BY DriveAssumption DEF Init
<1>3. i \in [Threads -> Nat]
  BY DEF Init
<1>4. pc \in [Threads -> {"idle", "step", "walk", "walked", "recalOut",
                         "recalPhase", "recalIn", "recalBack", "recalEnd",
                         "seek", "seekIn", "capture"}]
  BY DEF Init
<1>5. /\ apple \in BOOLEAN /\ st = "wait" /\ inward \in BOOLEAN /\ phase = 0
      /\ position = 0 /\ known \in BOOLEAN /\ waiting = {} /\ amount = 1
      /\ way \in BOOLEAN /\ ret = "none" /\ order \in Orders /\ track = 0
  BY DEF Init
<1>7. TypeOK
  BY <1>1, <1>2, <1>3, <1>4, <1>5 DEF TypeOK
<1>6. AmountInv
  BY DEF Init, AmountInv
<1>. QED
  BY <1>6, <1>7 DEF TypeInv

LEMMA TypeCommand ==
  ASSUME TypeInv, Command \/ BeginDump
  PROVE  TypeInv'
<1> USE DEF TypeInv, TypeOK, AmountInv, Still, drive, stepper, script, dump,
            Goto, Restart, Threads
<1>1. ASSUME NEW n \in Steps, NEW in \in BOOLEAN, NEW double \in BOOLEAN,
             CmdHeadstep(n, in, double)
      PROVE  TypeInv'
  BY <1>1, CommandAssumption DEF CmdHeadstep
<1>2. ASSUME NEW target \in Targets, NEW double \in BOOLEAN,
             CmdMovehead(target, double)
      PROVE  TypeInv'
  <2> DEFINE to   == IF target > MaxSteps THEN MaxSteps ELSE target
             from == Tracks(position, double)
             gap  == IF from < to THEN to - from ELSE from - to
  <2>1. to \in Nat /\ from \in Nat
    BY CommandAssumption, DriveAssumption DEF Tracks
  <2>2. gap \in Nat /\ gap * 2 \in Nat /\ (from < to) \in BOOLEAN
    BY <2>1
  <2>3. i' \in [Threads -> Nat] /\ way' \in BOOLEAN
    <3> HIDE DEF gap, from, to
    <3>1. i' = [i EXCEPT !["script"] = IF double THEN gap * 2 ELSE gap]
      BY <1>2 DEF CmdMovehead, gap, from, to
    <3>2. way' = (from < to)
      BY <1>2 DEF CmdMovehead, from, to
    <3>. QED
      BY <2>2, <3>1, <3>2
  <2>. QED
    BY <1>2, <2>3 DEF CmdMovehead
<1>3. CASE CmdRecalibrate
  BY <1>3 DEF CmdRecalibrate
<1>4. CASE BeginDump
  BY <1>4 DEF BeginDump
<1>. QED
  BY <1>1, <1>2, <1>3, <1>4 DEF Command

LEMMA TypeScript ==
  ASSUME TypeInv, ScriptThread
  PROVE  TypeInv'
<1> USE DEF TypeInv, AmountInv
<1>s. "script" \in Threads
  BY DEF Threads
<1>1. CASE MoveOver("script")
  BY <1>1 DEF MoveOver, TypeOK, drive, stepper, script, dump
<1>2. CASE Headstep
  <2>1. amount \in Nat /\ amount < CountMod /\ way \in BOOLEAN
    BY CommandAssumption, DriveAssumption DEF TypeOK
  <2>2. MoveHead("script", way, amount)
    BY <1>2 DEF Headstep
  <2>3. i' \in [Threads -> Nat]
    BY <1>2, <1>s DEF Headstep, At, TypeOK
  <2>4. UNCHANGED <<pc, script, dump>>
    BY <1>2 DEF Headstep
  <2>. QED
    BY <1>s, <2>1, <2>2, <2>3, <2>4, MoveHeadType DEF TypeOK, script, dump
<1>3. CASE Movehead
  <2>1. MoveHead("script", way, 1) /\ 1 < CountMod /\ way \in BOOLEAN
    BY <1>3, CommandAssumption, DriveAssumption DEF Movehead, TypeOK
  <2>2. i' \in [Threads -> Nat]
    BY <1>3, <1>s DEF Movehead, At, TypeOK
  <2>3. /\ UNCHANGED <<script, dump>>
        /\ pc' = [pc EXCEPT !["script"] = "walked"]
    BY <1>3 DEF Movehead, Goto
  <2>. QED
    BY <1>s, <2>1, <2>2, <2>3, MoveHeadType DEF TypeOK, script, dump
<1>4. CASE Moved
  <2>1. position' \in Nat /\ known' \in BOOLEAN
    BY <1>4 DEF Moved, TypeOK, AtTrack00
  <2>. QED
    BY <1>4, <2>1 DEF Moved, TypeOK, Goto, drive, stepper, script, dump
<1>5. CASE MoveheadEnd
  BY <1>5 DEF MoveheadEnd, TypeOK, Still, Goto, drive, stepper, script, dump
<1>6. CASE RecalStep
  <2>1. 1 < CountMod
    BY CommandAssumption, DriveAssumption
  <2>2. PICK in \in BOOLEAN : MoveHead("script", in, 1)
    BY <1>6 DEF RecalStep
  <2>3. UNCHANGED <<pc, script, dump>> /\ i' = [i EXCEPT !["script"] = @ + 1]
    BY <1>6 DEF RecalStep, Count
  <2>4. i' \in [Threads -> Nat]
    BY <1>s, <2>3 DEF TypeOK
  <2>. QED
    BY <1>s, <2>1, <2>2, <2>3, <2>4, MoveHeadType DEF TypeOK, script, dump
<1>7. CASE RecalOutEnd
  <2>1. position' \in {0, position} /\ known' \in BOOLEAN
    BY <1>7 DEF RecalOutEnd, TypeOK
  <2>2. \E p \in {"recalPhase", "recalEnd", "recalIn"} :
          pc' = [pc EXCEPT !["script"] = p]
    BY <1>7 DEF RecalOutEnd, Goto
  <2>3. i' = [i EXCEPT !["script"] = 0] /\ ret' \in {ret, "noTrack0"}
    BY <1>7 DEF RecalOutEnd, Restart
  <2>4. UNCHANGED <<drive, stepper, waiting, amount, way, dump>>
    BY <1>7 DEF RecalOutEnd
  <2>5. /\ pc' \in [Threads -> {"idle", "step", "walk", "walked", "recalOut",
                                "recalPhase", "recalIn", "recalBack",
                                "recalEnd", "seek", "seekIn", "capture"}]
        /\ i' \in [Threads -> Nat]
    BY <2>2, <2>3 DEF TypeOK
  <2>. QED
    BY <2>1, <2>3, <2>4, <2>5 DEF TypeOK, drive, stepper, dump
<1>8. CASE RecalPhaseEnd
  BY <1>8 DEF RecalPhaseEnd, TypeOK, Goto, drive, stepper, dump
<1>9. CASE RecalInEnd
  BY <1>9 DEF RecalInEnd, TypeOK, Still, Goto, Restart, drive, stepper, dump
<1>10. CASE RecalBackEnd
  <2>1. position' \in {0, position} /\ ret' \in {"lost", "ok"}
    BY <1>10 DEF RecalBackEnd
  <2>2. /\ pc' = [pc EXCEPT !["script"] = "recalEnd"]
        /\ UNCHANGED <<drive, stepper, known, waiting, i, amount, way, dump>>
    BY <1>10 DEF RecalBackEnd, Goto
  <2>3. pc' \in [Threads -> {"idle", "step", "walk", "walked", "recalOut",
                             "recalPhase", "recalIn", "recalBack", "recalEnd",
                             "seek", "seekIn", "capture"}]
    BY <2>2 DEF TypeOK
  <2>. QED
    BY <2>1, <2>2, <2>3 DEF TypeOK, drive, stepper, dump
<1>11. CASE RecalEnd
  BY <1>11 DEF RecalEnd, TypeOK, Still, Goto, drive, stepper, dump
<1>. QED
  BY <1>1, <1>2, <1>3, <1>4, <1>5, <1>6, <1>7, <1>8, <1>9, <1>10, <1>11
     DEF ScriptThread

LEMMA TypeDump ==
  ASSUME TypeInv, DumpThread
  PROVE  TypeInv'
<1> USE DEF TypeInv, AmountInv
<1>d. "dump" \in Threads /\ 1 < CountMod /\ 2 < CountMod
  BY CommandAssumption, DriveAssumption DEF Threads
<1>o. order.start \in Nat /\ order.max \in Nat /\ order.double \in BOOLEAN
  BY CommandAssumption DEF TypeOK
<1>1. CASE MoveOver("dump")
  BY <1>1 DEF MoveOver, TypeOK, drive, stepper, script, dump
<1>2. CASE SeekOut
  <2>1. MoveHead("dump", FALSE, 1)
    BY <1>2 DEF SeekOut
  <2>2. UNCHANGED <<pc, script, dump>> /\ i' = [i EXCEPT !["dump"] = @ + 1]
    BY <1>2 DEF SeekOut, Count
  <2>3. i' \in [Threads -> Nat]
    BY <1>d, <2>2 DEF TypeOK
  <2>. QED
    BY <1>d, <2>1, <2>2, <2>3, MoveHeadType DEF TypeOK, script, dump
<1>3. CASE SeekOutEnd
  BY <1>3 DEF SeekOutEnd, TypeOK, Still, Goto, Restart, drive, stepper,
              script, dump
<1>4. CASE SeekIn
  <2>1. MoveHead("dump", TRUE, 1)
    BY <1>4 DEF SeekIn
  <2>2. UNCHANGED <<pc, script, dump>> /\ i' = [i EXCEPT !["dump"] = @ + 1]
    BY <1>4 DEF SeekIn, Count
  <2>3. i' \in [Threads -> Nat]
    BY <1>d, <2>2 DEF TypeOK
  <2>. QED
    BY <1>d, <2>1, <2>2, <2>3, MoveHeadType DEF TypeOK, script, dump
<1>5. CASE SeekInEnd
  <2>1. /\ UNCHANGED <<drive, stepper, position, known, waiting>>
        /\ UNCHANGED <<i, script, order>> /\ track' = order.start
    BY <1>5 DEF SeekInEnd, Still
  <2>2. /\ UNCHANGED <<head, sensor, apple, st, inward, cmd, cnt, phase, position, known, waiting>>
        /\ UNCHANGED <<i, amount, way, ret, order>> /\ track' \in Nat
    BY <1>o, <2>1 DEF drive, stepper, script
  <2>3. pc' = [pc EXCEPT !["dump"] = "capture"] \/ pc' = [pc EXCEPT !["dump"] = "idle"]
    BY <1>5 DEF SeekInEnd, Goto
  <2>4. pc' \in [Threads -> {"idle", "step", "walk", "walked", "recalOut",
                             "recalPhase", "recalIn", "recalBack", "recalEnd",
                             "seek", "seekIn", "capture"}]
    BY <2>3 DEF TypeOK
  <2>5. TypeOK'
    BY <2>2, <2>4 DEF TypeOK
  <2>. QED
    BY <2>2, <2>5
<1>6. CASE NextTrack
  <2>1. PICK n \in {1, 2} : MoveHead("dump", TRUE, n)
    BY <1>6 DEF NextTrack
  <2>2. UNCHANGED <<pc, i, script, order>> /\ track' = track + 1
    BY <1>6 DEF NextTrack
  <2>. QED
    <3>1. n \in Nat /\ n < CountMod
      BY <1>d, DriveAssumption
    <3>2. track' \in Nat
      BY <2>2 DEF TypeOK
    <3>. QED
      BY <1>d, <2>1, <2>2, <3>1, <3>2, MoveHeadType DEF TypeOK, script
<1>7. CASE DumpEnd
  BY <1>7 DEF DumpEnd, TypeOK, Still, Goto, drive, stepper, script, dump
<1>. QED
  BY <1>1, <1>2, <1>3, <1>4, <1>5, <1>6, <1>7 DEF DumpThread

LEMMA TypeStepper ==
  ASSUME TypeInv, Stepper
  PROVE  TypeInv'
<1> USE DEF TypeInv, AmountInv
<1>1. CASE Pulse
  <2>1. cnt' \in 0 .. CountMod - 1
    BY <1>1, DriveAssumption DEF Pulse, TypeOK
  <2>2. phase' \in 0 .. 3
    BY <1>1 DEF Pulse, TypeOK
  <2>3. head' \in 0 .. Last
    BY <1>1, NeighbourType DEF Pulse, TypeOK
  <2>. QED
    BY <1>1, <2>1, <2>2, <2>3 DEF Pulse, TypeOK, script, dump
<1>2. CASE StepOver
  BY <1>2 DEF StepOver, TypeOK, drive, script, dump
<1>. QED
  BY <1>1, <1>2 DEF Stepper

LEMMA TypeStep == TypeInv /\ [Next]_vars => TypeInv'
<1> SUFFICES ASSUME TypeInv, [Next]_vars PROVE TypeInv'
  OBVIOUS
<1>1. CASE UNCHANGED vars
  BY <1>1 DEF vars, TypeInv, TypeOK, AmountInv, drive, stepper, script, dump
<1>. QED
  BY <1>1, TypeCommand, TypeScript, TypeDump, TypeStepper DEF Next

LEMMA TypeInvariant == Spec => []TypeInv
BY TypeInit, TypeStep, PTL DEF Spec

\* Every counter and register stays in its range: the step counter of the
\* stepper never exceeds its width, the head never leaves the drive, the
\* software position never goes below 0, also when two threads move the head.
THEOREM TypeCorrect == Spec => []TypeOK
BY TypeInvariant, PTL DEF TypeInv

-----------------------------------------------------------------------------
(* One move at a time                                                      *)

\* Each action of a thread is one of the three kinds.
LEMMA Kinds ==
  ASSUME ~Overlap, 0 \notin Steps, TypeInv,
         Command \/ BeginDump \/ ScriptThread \/ DumpThread
  PROVE  \E t \in Threads : Acts(t)
<1>n. \A n \in Steps \cup {1, 2} : n \in Nat /\ n >= 1 /\ n < CountMod
  BY CommandAssumption, DriveAssumption
<1>a. amount \in Steps \cup {1} /\ way \in BOOLEAN
  BY DEF TypeInv, TypeOK, AmountInv
<1>t. "script" \in Threads /\ "dump" \in Threads
  BY DEF Threads
<1>1. ASSUME Command \/ BeginDump
      PROVE  Quiet("script") \/ Quiet("dump")
  BY <1>1 DEF Command, BeginDump, CmdHeadstep, CmdMovehead, CmdRecalibrate,
              Quiet, MaySend, At, Goto, Still, Threads, drive
<1>2. ASSUME ScriptThread
      PROVE  Acts("script")
  <2>1. ASSUME \/ Moved \/ MoveheadEnd \/ RecalOutEnd \/ RecalPhaseEnd
               \/ RecalInEnd \/ RecalBackEnd \/ RecalEnd
        PROVE  Quiet("script")
    <3>1. "script" \notin waiting /\ pc["script"] # "idle"
      BY <2>1 DEF Moved, MoveheadEnd, RecalOutEnd, RecalPhaseEnd, RecalInEnd,
                  RecalBackEnd, RecalEnd, At
    <3>2. UNCHANGED <<stepper, head, waiting>>
      BY <2>1 DEF Moved, MoveheadEnd, RecalOutEnd, RecalPhaseEnd, RecalInEnd,
                  RecalBackEnd, RecalEnd, Still, drive
    <3>3. \E p : pc' = [pc EXCEPT !["script"] = p]
      BY <2>1 DEF Moved, MoveheadEnd, RecalOutEnd, RecalPhaseEnd, RecalInEnd,
                  RecalBackEnd, RecalEnd, Goto
    <3>. QED
      BY <3>1, <3>2, <3>3 DEF Quiet
  <2>2. CASE Headstep
    BY <2>2, <1>n, <1>a DEF Headstep, Asks, Acts, At
  <2>3. CASE Movehead
    BY <2>3, <1>n, <1>a DEF Movehead, Asks, Acts, At, Goto
  <2>4. CASE RecalStep
    <3>1. \E in \in BOOLEAN : MoveHead("script", in, 1)
      BY <2>4 DEF RecalStep
    <3>2. "script" \notin waiting /\ pc["script"] # "idle" /\ pc' = pc
      BY <2>4 DEF RecalStep, At
    <3>. QED
      BY <3>1, <3>2, <1>n DEF Asks, Acts
  <2>. QED
    BY <1>2, <2>1, <2>2, <2>3, <2>4 DEF ScriptThread, Acts
<1>3. ASSUME DumpThread
      PROVE  Acts("dump")
  <2>1. ASSUME SeekOutEnd \/ SeekInEnd \/ DumpEnd
        PROVE  Quiet("dump")
    BY <2>1 DEF SeekOutEnd, SeekInEnd, DumpEnd, Quiet, At, Goto, Still, drive
  <2>2. ASSUME SeekOut \/ SeekIn \/ NextTrack
        PROVE  Asks("dump")
    <3>1. \E in \in BOOLEAN, n \in {1, 2} : MoveHead("dump", in, n)
      BY <2>2 DEF SeekOut, SeekIn, NextTrack
    <3>2. "dump" \notin waiting /\ pc["dump"] # "idle" /\ pc' = pc
      BY <2>2 DEF SeekOut, SeekIn, NextTrack, At
    <3>. QED
      BY <3>1, <3>2, <1>n DEF Asks
  <2>. QED
    BY <1>3, <2>1, <2>2 DEF DumpThread, Acts
<1>. QED
  BY <1>1, <1>2, <1>3, <1>t DEF Acts

\* A thread that asks finds the stepper at rest, since no other waits for it.
LEMMA AskAlone ==
  ASSUME MoveInv, NEW t \in Threads, NEW in \in BOOLEAN, NEW n \in Nat,
         n >= 1, n < CountMod, t \notin waiting, pc[t] # "idle",
         MoveHead(t, in, n)
  PROVE  /\ waiting = {} /\ st = "wait" /\ Left = 0
         /\ st' = "pre" /\ inward' = in /\ cmd' = n /\ cnt' = 0 /\ Left' = n
         /\ waiting' = {t} /\ head' = head /\ sensor' = sensor
         /\ apple' = apple
<1>1. waiting = {}
  BY DEF MoveInv, TypeInv, TypeOK, SerialInv, Threads
<1>2. st = "wait"
  BY <1>1 DEF MoveInv, SerialInv
<1>3. /\ st' = "pre" /\ inward' = in /\ cmd' = n /\ cnt' = 0
      /\ waiting' = {t} /\ head' = head /\ sensor' = sensor /\ apple' = apple
  BY <1>1, <1>2 DEF MoveHead, drive
<1>4. Left = 0 /\ Left' = n
  BY <1>2, <1>3 DEF Left
<1>. QED
  BY <1>1, <1>2, <1>3, <1>4

\* The stepper takes its steps one by one and stops at the last.
LEMMA PulseLeft ==
  ASSUME MoveInv, Pulse
  PROVE  /\ Left \in Nat /\ Left >= 1 /\ Left' = Left - 1
         /\ st = "pre" /\ st' = "move" /\ 1 <= cnt' /\ cnt' <= cmd'
<1>1. cnt < cmd /\ cnt \in Nat /\ cmd \in Nat /\ cmd < CountMod
      /\ CountMod \in Nat \ {0} /\ cmd' = cmd
  BY DriveAssumption DEF MoveInv, TypeInv, TypeOK, CountInv, Pulse
<1>2. cnt' = cnt + 1
  BY <1>1 DEF Pulse
<1>. QED
  BY <1>1, <1>2 DEF Pulse, Left

LEMMA StepOverLeft ==
  ASSUME MoveInv, StepOver
  PROVE  /\ Left \in Nat /\ Left' = Left
         /\ st' = "pre" => cnt' < cmd'
         /\ st = "move" /\ st' # "move"
BY DEF MoveInv, TypeInv, TypeOK, CountInv, StepOver, Left

LEMMA MoveInit == Init => MoveInv
<1> SUFFICES ASSUME Init PROVE MoveInv
  OBVIOUS
<1>1. SerialInv /\ CountInv
  BY DEF Init, SerialInv, CountInv, Threads
<1>. QED
  BY <1>1, TypeInit DEF MoveInv

LEMMA MoveStep ==
  ASSUME ~Overlap, 0 \notin Steps, MoveInv, [Next]_vars
  PROVE  MoveInv'
<1>0. TypeInv'
  BY TypeStep DEF MoveInv
<1>1. ASSUME NEW t \in Threads, Acts(t)
      PROVE  SerialInv' /\ CountInv'
  <2>1. CASE Quiet(t)
    <3>1. PICK p : pc' = [pc EXCEPT ![t] = p]
      BY <2>1 DEF Quiet
    <3>2. CountInv'
      BY <2>1 DEF Quiet, MoveInv, CountInv, stepper
    <3>3. \A u \in waiting' : pc'[u] # "idle"
      BY <2>1, <3>1 DEF Quiet, MoveInv, SerialInv, TypeInv, TypeOK
    <3>4. pc'["script"] = "idle" \/ pc'["dump"] = "idle"
      BY <2>1, <3>1 DEF Quiet, MoveInv, SerialInv, TypeInv, TypeOK, Threads
    <3>. QED
      BY <2>1, <3>2, <3>3, <3>4 DEF Quiet, MoveInv, SerialInv, stepper
  <2>2. CASE Asks(t)
    <3>1. PICK in \in BOOLEAN, n \in Nat :
            n >= 1 /\ n < CountMod /\ MoveHead(t, in, n)
      BY <2>2 DEF Asks
    <3>2. t \notin waiting /\ pc[t] # "idle"
      BY <2>2 DEF Asks
    <3>3. /\ waiting' = {t} /\ st' = "pre" /\ cmd' = n /\ cnt' = 0
      BY <1>1, <3>1, <3>2, AskAlone
    <3>4. /\ pc'[t] # "idle"
          /\ \A u \in Threads : u # t => pc'[u] = pc[u]
      BY <2>2 DEF Asks, MoveInv, TypeInv, TypeOK
    <3>5. SerialInv'
      BY <3>2, <3>3, <3>4 DEF MoveInv, SerialInv, Threads
    <3>. QED
      BY <3>1, <3>3, <3>5 DEF CountInv
  <2>3. CASE MoveOver(t)
    BY <2>3 DEF MoveOver, MoveInv, SerialInv, CountInv, stepper
  <2>. QED
    BY <1>1, <2>1, <2>2, <2>3 DEF Acts
<1>2. CASE Pulse
  BY <1>0, <1>2, PulseLeft DEF MoveInv, Pulse, SerialInv, CountInv
<1>3. CASE StepOver
  BY <1>0, <1>3, StepOverLeft DEF MoveInv, StepOver, SerialInv, CountInv
<1>4. CASE UNCHANGED vars
  BY <1>0, <1>4 DEF MoveInv, SerialInv, CountInv, vars, stepper
<1>. QED
  BY <1>0, <1>1, <1>2, <1>3, <1>4, Kinds DEF Next, Stepper, MoveInv

LEMMA MoveInvariant ==
  ASSUME ~Overlap, 0 \notin Steps
  PROVE  Spec => []MoveInv
<1>1. MoveInv /\ [Next]_vars => MoveInv'
  BY MoveStep
<1>. QED
  BY <1>1, MoveInit, PTL DEF Spec

-----------------------------------------------------------------------------
(* Refinement                                                              *)

\* The stepper's registers, the wait of floppy_ctrl_move_head and the threads
\* that use it implement a head that carries out one request after another,
\* step by step, for every drive and every width of the step counter.
THEOREM MoverImplemented ==
  ASSUME ~Overlap, 0 \notin Steps
  PROVE  Spec => ImplementsMover
<1>1. Init => Mover!Init
  <2> SUFFICES ASSUME Init PROVE Mover!Init
    OBVIOUS
  <2>1. head \in 0 .. Last /\ st = "wait" /\ inward \in BOOLEAN
    BY DEF Init
  <2>. QED
    BY <2>1 DEF Mover!Init
<1>2. MoveInv /\ [Next]_vars => [Mover!Next]_(Mover!vars)
  <2> SUFFICES ASSUME MoveInv, [Next]_vars
               PROVE  [Mover!Next]_(Mover!vars)
    OBVIOUS
  <2>1. ASSUME NEW t \in Threads, Acts(t)
        PROVE  [Mover!Next]_(Mover!vars)
    <3>1. CASE Quiet(t) \/ MoveOver(t)
      <4>1. UNCHANGED <<head, inward, st, cmd, cnt>>
        BY <3>1 DEF Quiet, MoveOver, drive, stepper
      <4>. QED
        BY <4>1 DEF Mover!vars
    <3>2. CASE Asks(t)
      <4>1. PICK in \in BOOLEAN, n \in Nat :
              n >= 1 /\ n < CountMod /\ MoveHead(t, in, n)
        BY <3>2 DEF Asks
      <4>2. /\ Left = 0 /\ Left' = n /\ inward' = in /\ head' = head
        BY <2>1, <3>2, <4>1, AskAlone DEF Asks
      <4>3. n \in 1 .. CountMod - 1
        BY <4>1, DriveAssumption
      <4>4. Mover!Ask
        BY <4>2, <4>3 DEF Mover!Ask, Left
      <4>. QED
        BY <4>4 DEF Mover!Next
    <3>. QED
      BY <2>1, <3>1, <3>2 DEF Acts
  <2>2. CASE Pulse
    <3>1. Mover!Move
      BY <2>2, PulseLeft DEF Mover!Move, Pulse, Left
    <3>. QED
      BY <3>1 DEF Mover!Next
  <2>3. CASE StepOver
    <3>1. Left' = Left /\ head' = head /\ inward' = inward
      BY <2>3, StepOverLeft DEF StepOver, drive
    <3>. QED
      BY <3>1 DEF Mover!vars, Left
  <2>4. CASE UNCHANGED vars
    BY <2>4 DEF vars, drive, stepper, Mover!vars
  <2>. QED
    BY <2>1, <2>2, <2>3, <2>4, Kinds DEF Next, Stepper, MoveInv
<1>. QED
  BY <1>1, <1>2, MoveInvariant, PTL DEF Spec, ImplementsMover, Mover!Spec

-----------------------------------------------------------------------------
(* Recalibration                                                           *)

\* Steps of the dump thread and commands leave the recalibration alone, as it
\* does not run; so do the other steps of the script thread.
LEMMA RecalOthers ==
  ASSUME ~Overlap, 0 \notin Steps, MoveInv, RecalInv,
         \/ Command \/ BeginDump \/ DumpThread
         \/ Headstep \/ Movehead \/ Moved \/ MoveheadEnd \/ RecalEnd
  PROVE  RecalInv'
<1>1. pc'["script"] \notin {"recalOut", "recalPhase", "recalIn", "recalBack",
                          "recalEnd"}
      \/ CmdRecalibrate
  <2>. /\ "script" \in Threads /\ "dump" \in Threads
       /\ \E P : pc \in [Threads -> P]
    BY DEF MoveInv, TypeInv, TypeOK, Threads
  <2>1. CASE Command
    <3>1. ASSUME NEW p, Goto("script", p)
          PROVE  pc'["script"] = p
      BY <3>1 DEF Goto
    <3>2. CASE \E n \in Steps, in \in BOOLEAN, double \in BOOLEAN :
                 CmdHeadstep(n, in, double)
      <4>1. pc'["script"] = "step"
        BY <3>1, <3>2 DEF CmdHeadstep
      <4>. QED
        BY <4>1
    <3>3. CASE \E target \in Targets, double \in BOOLEAN :
                 CmdMovehead(target, double)
      <4>1. pc'["script"] = "walk"
        BY <3>1, <3>3 DEF CmdMovehead
      <4>. QED
        BY <4>1
    <3>. QED
      BY <2>1, <3>2, <3>3 DEF Command
  <2>2. CASE BeginDump
    BY <2>2 DEF BeginDump, Goto, MoveInv, TypeInv, TypeOK
  <2>3. CASE DumpThread
    <3>1. pc["dump"] # "idle"
      BY <2>3 DEF DumpThread, MoveOver, SeekOut, SeekOutEnd, SeekIn, SeekInEnd,
                  NextTrack, DumpEnd, At, MoveInv, SerialInv
    <3>2. pc["script"] = "idle"
      BY <3>1 DEF MoveInv, SerialInv
    <3>3. ASSUME NEW p, Goto("dump", p)
          PROVE  pc'["script"] = pc["script"]
      BY <3>3 DEF Goto
    <3>4. pc' = pc \/ \E p : Goto("dump", p)
      BY <2>3 DEF DumpThread, MoveOver, SeekOut, SeekOutEnd, SeekIn, SeekInEnd,
                  NextTrack, DumpEnd
    <3>. QED
      BY <3>2, <3>3, <3>4
  <2>4. CASE Headstep \/ Movehead \/ Moved \/ MoveheadEnd \/ RecalEnd
    BY <2>4 DEF Headstep, Movehead, Moved, MoveheadEnd, RecalEnd, At, Goto,
                MoveInv, TypeInv, TypeOK, Threads
  <2>. QED
    BY <2>1, <2>2, <2>3, <2>4
<1>2. apple' = apple /\ sensor' = sensor
  BY DEF Command, CmdHeadstep, CmdMovehead, CmdRecalibrate, BeginDump,
         DumpThread, MoveOver, SeekOut, SeekOutEnd, SeekIn, SeekInEnd,
         NextTrack, DumpEnd, Headstep, Movehead, Moved, MoveheadEnd, RecalEnd,
         MoveHead, Still, drive
<1>3. CASE ~CmdRecalibrate
  BY <1>1, <1>2, <1>3 DEF RecalInv, OutInv, PhaseInv, InInv, BackInv, EndInv
<1>4. CASE CmdRecalibrate
  <2>1. /\ "script" \notin waiting /\ pc["script"] = "idle"
        /\ pc["dump"] = "idle"
    BY <1>4 DEF CmdRecalibrate, MaySend, At
  <2>2. waiting = {} /\ st = "wait"
    BY <2>1 DEF MoveInv, SerialInv, TypeInv, TypeOK, Threads
  <2>3. /\ pc'["script"] = "recalOut" /\ i'["script"] = 0
        /\ UNCHANGED <<st, head>>
    BY <1>4 DEF CmdRecalibrate, Goto, Restart, Still, drive, stepper, MoveInv,
                TypeInv, TypeOK, Threads
  <2>4. Left' = 0 /\ head \in 0 .. Last
    BY <2>2, <2>3 DEF Left, MoveInv, TypeInv, TypeOK
  <2>. QED
    BY <1>2, <2>2, <2>3, <2>4, DriveAssumption
       DEF RecalInv, OutInv, PhaseInv, InInv, BackInv, EndInv
<1>. QED
  BY <1>3, <1>4

\* The loops: one step counted, one under way.
LEMMA RecalLoops ==
  ASSUME MoveInv, RecalInv, RecalStep
  PROVE  RecalInv'
<1>1. /\ "script" \notin waiting /\ pc["script"] # "idle" /\ pc' = pc
      /\ "script" \in Threads
  BY DEF RecalStep, At, Threads
<1>2. PICK in \in BOOLEAN : MoveHead("script", in, 1)
  BY DEF RecalStep
<1>3. 1 < CountMod /\ 1 \in Nat
  BY CommandAssumption, DriveAssumption
<1>4. /\ st = "wait" /\ Left = 0 /\ st' = "pre" /\ Left' = 1
      /\ head' = head /\ sensor' = sensor /\ apple' = apple
  BY <1>1, <1>2, <1>3, AskAlone
<1>5. i'["script"] = i["script"] + 1 /\ i["script"] \in Nat
  BY <1>1 DEF RecalStep, Count, MoveInv, TypeInv, TypeOK
<1>6. head \in 0 .. Last /\ Last \in Nat /\ RecalIn \in Nat
  BY DriveAssumption DEF MoveInv, TypeInv, TypeOK
<1>7. ASSUME NEW out \in BOOLEAN, MoveHead("script", out, 1)
      PROVE  inward' = out
  BY <1>1, <1>3, <1>7, AskAlone
<1>8. CASE pc["script"] = "recalOut"
  <2>1. ~inward' /\ ~AtTrack00
    BY <1>7, <1>8 DEF RecalStep, At
  <2>2. sensor # "stuck" /\ (sensor = "good" => head >= 1)
    BY <1>6, <2>1 DEF AtTrack00
  <2>. QED
    BY <1>1, <1>4, <1>5, <1>6, <1>8, <2>1, <2>2
       DEF RecalInv, OutInv, PhaseInv, InInv, BackInv, EndInv
<1>9. CASE pc["script"] = "recalPhase"
  <2>1. ~inward'
    BY <1>7, <1>9 DEF RecalStep, At
  <2>. QED
    BY <1>1, <1>4, <1>9, <2>1
       DEF RecalInv, OutInv, PhaseInv, InInv, BackInv, EndInv
<1>10. CASE pc["script"] = "recalIn"
  <2>1. inward' /\ i["script"] < RecalIn
    BY <1>7, <1>10 DEF RecalStep, At
  <2>. QED
    BY <1>1, <1>4, <1>5, <1>6, <1>10, <2>1
       DEF RecalInv, OutInv, PhaseInv, InInv, BackInv, EndInv
<1>11. CASE pc["script"] = "recalBack"
  <2>1. ~inward' /\ ~AtTrack00
    BY <1>7, <1>11 DEF RecalStep, At
  <2>2. head >= 1
    BY <1>6, <1>11, <2>1 DEF AtTrack00, RecalInv, BackInv
  <2>. QED
    BY <1>1, <1>4, <1>5, <1>6, <1>11, <2>1, <2>2
       DEF RecalInv, OutInv, PhaseInv, InInv, BackInv, EndInv
<1>. QED
  BY <1>8, <1>9, <1>10, <1>11 DEF RecalStep, At

\* The ends of the loops: what the counter and the sensor tell of the head.
LEMMA RecalEnds ==
  ASSUME MoveInv, RecalInv,
         RecalOutEnd \/ RecalPhaseEnd \/ RecalInEnd \/ RecalBackEnd
  PROVE  RecalInv'
<1>1. /\ "script" \notin waiting /\ pc["script"] # "idle"
      /\ UNCHANGED <<st, inward, cmd, cnt, waiting, head, sensor, apple>>
  BY DEF RecalOutEnd, RecalPhaseEnd, RecalInEnd, RecalBackEnd, At, Still,
         drive, stepper
<1>2. waiting = {} /\ st = "wait" /\ Left = 0 /\ Left' = 0
  BY <1>1 DEF MoveInv, SerialInv, TypeInv, TypeOK, Threads, Left
<1>3. /\ head \in 0 .. Last /\ i["script"] \in Nat
      /\ sensor \in {"good", "blind", "stuck"}
  BY DEF MoveInv, TypeInv, TypeOK, Threads
<1>4. \A p : pc' = [pc EXCEPT !["script"] = p] => pc'["script"] = p
  BY DEF MoveInv, TypeInv, TypeOK, Threads
<1>5. i' = [i EXCEPT !["script"] = 0] => i'["script"] = 0
  BY DEF MoveInv, TypeInv, TypeOK, Threads
<1>6. /\ Last \in Nat \ {0} /\ RecalMax \in Nat /\ RecalIn \in Nat \ {0}
      /\ Last < RecalMax
  BY DriveAssumption
<1>7. CASE RecalOutEnd
  <2>1. /\ pc["script"] = "recalOut" /\ i'["script"] = 0
        /\ AtTrack00 \/ i["script"] >= RecalMax
    BY <1>5, <1>7 DEF RecalOutEnd, At, Restart
  <2>2. i["script"] >= RecalMax => sensor = "blind" /\ head = 0
    BY <1>2, <1>3, <1>6, <2>1 DEF RecalInv, OutInv
  <2>3. ~(i["script"] >= RecalMax) =>
          sensor # "blind" /\ (sensor = "good" => head = 0) /\ ~apple
    BY <2>1 DEF AtTrack00, RecalInv
  <2>4. CASE apple
    <3>1. pc'["script"] = "recalPhase"
      BY <1>4, <1>7, <2>4 DEF RecalOutEnd, Goto
    <3>. QED
      BY <1>1, <1>2, <2>2, <2>3, <2>4, <3>1
         DEF RecalInv, OutInv, PhaseInv, InInv, BackInv, EndInv
  <2>5. CASE ~apple /\ i["script"] >= RecalMax
    <3>1. pc'["script"] = "recalEnd" /\ ret' = "noTrack0"
      BY <1>4, <1>7, <2>5 DEF RecalOutEnd, Goto
    <3>. QED
      BY <1>1, <1>2, <2>2, <2>5, <3>1
         DEF RecalInv, OutInv, PhaseInv, InInv, BackInv, EndInv
  <2>6. CASE ~apple /\ ~(i["script"] >= RecalMax)
    <3>1. pc'["script"] = "recalIn"
      BY <1>4, <1>7, <2>6 DEF RecalOutEnd, Goto
    <3>. QED
      BY <1>1, <1>2, <1>3, <1>6, <2>1, <2>3, <2>6, <3>1
         DEF RecalInv, OutInv, PhaseInv, InInv, BackInv, EndInv
  <2>. QED
    BY <2>4, <2>5, <2>6
<1>8. CASE RecalPhaseEnd
  <2>1. /\ pc["script"] = "recalPhase" /\ pc'["script"] = "recalEnd"
        /\ ret' = "ok"
    BY <1>4, <1>8 DEF RecalPhaseEnd, At, Goto
  <2>. QED
    BY <1>1, <1>2, <2>1
       DEF RecalInv, OutInv, PhaseInv, InInv, BackInv, EndInv
<1>9. CASE RecalInEnd
  <2>1. /\ pc["script"] = "recalIn" /\ i["script"] >= RecalIn
        /\ i'["script"] = 0
    BY <1>5, <1>9 DEF RecalInEnd, At, Restart
  <2>2. /\ ~apple /\ sensor # "blind"
        /\ sensor = "good" => head = RecalIn
    BY <1>2, <1>3, <1>6, <2>1 DEF RecalInv, InInv
  <2>3. CASE AtTrack00
    <3>1. pc'["script"] = "recalEnd" /\ ret' = "alwaysTrack0"
      BY <1>4, <1>9, <2>3 DEF RecalInEnd, Goto
    <3>2. sensor = "stuck"
      BY <1>6, <2>2, <2>3 DEF AtTrack00
    <3>. QED
      BY <1>1, <1>2, <2>2, <3>1, <3>2
         DEF RecalInv, OutInv, PhaseInv, InInv, BackInv, EndInv
  <2>4. CASE ~AtTrack00
    <3>1. pc'["script"] = "recalBack"
      BY <1>4, <1>9, <2>4 DEF RecalInEnd, Goto
    <3>2. sensor = "good"
      BY <1>3, <2>2, <2>4 DEF AtTrack00
    <3>. QED
      BY <1>1, <1>2, <1>3, <1>6, <2>1, <2>2, <3>1, <3>2
         DEF RecalInv, OutInv, PhaseInv, InInv, BackInv, EndInv
  <2>. QED
    BY <2>3, <2>4
<1>10. CASE RecalBackEnd
  <2>1. /\ pc["script"] = "recalBack" /\ pc'["script"] = "recalEnd"
        /\ AtTrack00 \/ i["script"] >= RecalIn + 1
    BY <1>4, <1>10 DEF RecalBackEnd, At, Goto
  <2>2. /\ ~apple /\ sensor = "good" /\ head + i["script"] = RecalIn
    BY <1>2, <1>3, <1>6, <2>1 DEF RecalInv, BackInv
  <2>3. ~(i["script"] >= RecalIn + 1)
    BY <1>3, <1>6, <2>2
  <2>4. head = 0 /\ ret' = "ok"
    BY <1>10, <2>1, <2>2, <2>3 DEF AtTrack00, RecalBackEnd
  <2>. QED
    BY <1>1, <1>2, <2>1, <2>2, <2>4
       DEF RecalInv, OutInv, PhaseInv, InInv, BackInv, EndInv
<1>. QED
  BY <1>7, <1>8, <1>9, <1>10

LEMMA RecalPulse ==
  ASSUME MoveInv, RecalInv, Pulse
  PROVE  RecalInv'
<1>1. /\ Left \in Nat /\ Left >= 1 /\ Left' = Left - 1 /\ st = "pre"
      /\ st' = "move" /\ waiting # {}
  BY PulseLeft DEF MoveInv, SerialInv
<1>2. /\ UNCHANGED <<pc, i, inward, sensor, apple, waiting, ret>>
      /\ head' = Mover!Neighbour(head, inward)
  BY DEF Pulse, script
<1>3. /\ head \in 0 .. Last /\ i["script"] \in Nat /\ Last \in Nat
      /\ RecalIn \in Nat /\ RecalIn <= Last
      /\ sensor \in {"good", "blind", "stuck"}
  BY DriveAssumption DEF MoveInv, TypeInv, TypeOK, Threads
<1>4. ~inward => head' = (IF head > 0 THEN head - 1 ELSE 0)
  BY <1>2 DEF Mover!Neighbour
<1>5. inward => head' = (IF head < Last THEN head + 1 ELSE Last)
  BY <1>2 DEF Mover!Neighbour
<1>6. OutInv'
  BY <1>1, <1>2, <1>3, <1>4 DEF RecalInv, OutInv
<1>7. PhaseInv'
  BY <1>1, <1>2, <1>4 DEF RecalInv, PhaseInv
<1>8. InInv'
  <2> SUFFICES ASSUME pc["script"] = "recalIn" PROVE InInv'
    BY <1>2 DEF InInv
  <2>1. /\ ~apple /\ sensor # "blind" /\ inward
        /\ sensor = "good" =>
             head + Left = i["script"] /\ i["script"] <= RecalIn
    BY <1>1 DEF RecalInv, InInv
  <2>2. sensor = "good" => head < Last
    BY <1>1, <1>3, <2>1
  <2>3. sensor = "good" => head' = head + 1
    BY <1>5, <2>1, <2>2
  <2>4. sensor = "good" => head' + Left' = i["script"]
    BY <1>1, <1>3, <2>1, <2>3
  <2>. QED
    BY <1>2, <2>1, <2>4 DEF InInv
<1>9. BackInv'
  BY <1>1, <1>2, <1>3, <1>4 DEF RecalInv, BackInv
<1>10. EndInv'
  BY <1>1, <1>2 DEF RecalInv, EndInv
<1>. QED
  BY <1>2, <1>6, <1>7, <1>8, <1>9, <1>10 DEF RecalInv

LEMMA RecalStepOver ==
  ASSUME MoveInv, RecalInv, StepOver
  PROVE  RecalInv'
<1>1. /\ Left' = Left /\ st = "move"
      /\ UNCHANGED <<pc, i, inward, head, sensor, apple, waiting, ret>>
  BY StepOverLeft DEF StepOver, drive, script
<1>. QED
  BY <1>1 DEF RecalInv, OutInv, PhaseInv, InInv, BackInv, EndInv

LEMMA RecalKeeps ==
  ASSUME ~Overlap, 0 \notin Steps, MoveInv, RecalInv, [Next]_vars
  PROVE  RecalInv'
<1>1. CASE MoveOver("script") \/ UNCHANGED vars
  <2>1. /\ UNCHANGED <<pc, i, drive, stepper, ret>>
        /\ waiting' \subseteq waiting
    BY <1>1 DEF MoveOver, vars, script
  <2>2. Left' = Left
    BY <2>1 DEF Left, stepper
  <2>. QED
    BY <2>1, <2>2 DEF RecalInv, OutInv, PhaseInv, InInv, BackInv, EndInv,
                      drive, stepper
<1>. QED
  BY <1>1, RecalOthers, RecalLoops, RecalEnds, RecalPulse, RecalStepOver
     DEF Next, ScriptThread, Stepper

LEMMA RecalInit == Init => RecalInv
BY DEF Init, RecalInv, OutInv, PhaseInv, InInv, BackInv, EndInv, Threads

\* What floppy_head_recalibrate returns is true of the drive, for every size of
\* drive its loops can cross: 0 only with the head on track 0, -1 only when the
\* sensor is never on, -2 only when it always is, and -3 never.
THEOREM RecalibrationCorrect ==
  ASSUME ~Overlap, 0 \notin Steps
  PROVE  Spec => []RecalibrationHonest
<1>1. MoveInv /\ RecalInv /\ [Next]_vars => RecalInv'
  BY RecalKeeps
<1>2. RecalInv => RecalibrationHonest
  BY DEF RecalInv, EndInv, RecalibrationHonest, At
<1>. QED
  BY <1>1, <1>2, RecalInit, MoveInvariant, PTL DEF Spec

-----------------------------------------------------------------------------
(* Where the head is                                                       *)

\* A dump that double steps starts at track 0.
FromZero == \A o \in Orders : o.double => o.start = 0

\* The track the head comes to, by the steps under way and the drive's stops.
Final == IF inward THEN UpToLast(head + Left)
                   ELSE IF head >= Left THEN head - Left ELSE 0

\* The position is counted ahead of the steps.
BeliefInv == known /\ sensor # "stuck" => position = Final

\* Where the head can be while a dump looks for track 0, goes to its first
\* track and from one to the next.
SeekInv ==
  pc["dump"] = "seek" =>
    /\ st # "wait" => ~inward
    /\ sensor = "good" => head >= Left /\ i["dump"] + head - Left <= Last
    /\ sensor = "blind" => head <= Left \/ i["dump"] + head - Left <= Last

SeekInInv ==
  pc["dump"] = "seekIn" =>
    /\ st # "wait" => inward
    /\ i["dump"] <= order.start
    /\ sensor # "stuck" => UpToLast(head + Left) = UpToLast(i["dump"])

CaptureInv ==
  pc["dump"] = "capture" =>
    /\ st # "wait" => inward
    /\ sensor # "stuck" =>
         UpToLast(head + Left) = UpToLast(IF order.double THEN 2 * track ELSE track)

DumpInv == SeekInv /\ SeekInInv /\ CaptureInv

\* An Apple II drive has fewer tracks than Apple mode searches.
AppleInv == apple => Last < SeekApple

HeadInv == BeliefInv /\ DumpInv /\ AppleInv

\* The constants and variables as numbers.
LEMMA Numbers ==
  ASSUME MoveInv
  PROVE  /\ head \in Nat /\ head <= Last /\ Last \in Nat /\ 1 <= Last
         /\ position \in Nat /\ amount \in Nat /\ way \in BOOLEAN
         /\ known \in BOOLEAN /\ inward \in BOOLEAN /\ track \in Nat
         /\ i["script"] \in Nat /\ i["dump"] \in Nat
         /\ MaxSteps \in Nat /\ RecalIn \in Nat
         /\ SeekApple \in Nat /\ SeekMax \in Nat /\ Last < SeekMax
         /\ order \in Orders /\ order.start \in Nat /\ order.max \in Nat
         /\ order.double \in BOOLEAN
         /\ sensor \in {"good", "blind", "stuck"} /\ apple \in BOOLEAN
<1>1. /\ head \in 0 .. Last /\ position \in Nat /\ amount \in Nat
      /\ way \in BOOLEAN /\ known \in BOOLEAN /\ inward \in BOOLEAN
      /\ track \in Nat /\ order \in Orders /\ apple \in BOOLEAN
      /\ sensor \in {"good", "blind", "stuck"}
      /\ i["script"] \in Nat /\ i["dump"] \in Nat
  BY DEF MoveInv, TypeInv, TypeOK, Threads
<1>2. order \in [start : Nat, max : Nat, double : BOOLEAN]
  BY <1>1, CommandAssumption
<1>. QED
  BY <1>1, <1>2, DriveAssumption

\* A thread that is not idle, and waits for no move, has the stepper at rest
\* and the other thread idle.
LEMMA Alone ==
  ASSUME MoveInv, NEW t \in Threads, pc[t] # "idle", t \notin waiting
  PROVE  /\ waiting = {} /\ st = "wait" /\ Left = 0
         /\ \A u \in Threads : u # t => pc[u] = "idle"
<1>1. waiting = {} /\ \A u \in Threads : u # t => pc[u] = "idle"
  BY DEF MoveInv, TypeInv, TypeOK, SerialInv, Threads
<1>. QED
  BY <1>1 DEF MoveInv, SerialInv, Left

\* A move keeps the belief.
LEMMA BelievedMove ==
  ASSUME MoveInv, BeliefInv, NEW t \in Threads, NEW in \in BOOLEAN,
         NEW n \in Nat, n >= 1, n < CountMod, t \notin waiting, pc[t] # "idle",
         MoveHead(t, in, n)
  PROVE  BeliefInv'
<1>1. /\ st = "wait" /\ Left = 0 /\ Left' = n /\ inward' = in
      /\ head' = head /\ sensor' = sensor
  BY AskAlone
<1>2. /\ position' = Counted(IF AtTrack00 THEN 0 ELSE position, in, n)
      /\ known' = ((known \/ AtTrack00) /\ position' <= Last)
  BY DEF MoveHead
<1>3. SUFFICES ASSUME known', sensor # "stuck"
               PROVE  position' = Final'
  BY <1>1 DEF BeliefInv
<1>4. (IF AtTrack00 THEN 0 ELSE position) = head
  <2>1. AtTrack00 => head = 0
    BY <1>3 DEF AtTrack00
  <2>2. ~AtTrack00 => position = head
    BY <1>1, <1>2, <1>3, Numbers DEF BeliefInv, Final, UpToLast
  <2>. QED
    BY <2>1, <2>2
<1>5. Final' = IF in THEN UpToLast(head + n)
                     ELSE IF head >= n THEN head - n ELSE 0
  BY <1>1 DEF Final, UpToLast
<1>6. position' = IF in THEN head + n ELSE IF head > n THEN head - n ELSE 0
  BY <1>2, <1>4 DEF Counted
<1>7. position' <= Last
  BY <1>2, <1>3
<1>. QED
  BY <1>5, <1>6, <1>7, Numbers DEF UpToLast

\* So does putting the position right with the head at track 0.
LEMMA BelievedZero ==
  ASSUME MoveInv, BeliefInv, Left = 0, UNCHANGED <<drive, stepper>>,
         \/ position' = 0 /\ (sensor # "stuck" => head = 0)
         \/ UNCHANGED <<position, known>>
  PROVE  BeliefInv'
<1>1. /\ Left' = 0 /\ head' = head /\ sensor' = sensor /\ inward' = inward
  BY DEF drive, stepper, Left
<1>2. Final = head /\ Final' = head
  BY <1>1, Numbers DEF Final, UpToLast
<1>3. CASE position' = 0 /\ (sensor # "stuck" => head = 0)
  BY <1>1, <1>2, <1>3, Numbers DEF BeliefInv
<1>4. CASE UNCHANGED <<position, known>>
  <2>1. position' = position /\ known' = known
    BY <1>4
  <2>. QED
    BY <1>1, <1>2, <2>1 DEF BeliefInv
<1>. QED
  BY <1>3, <1>4

-----------------------------------------------------------------------------
\* Steps that ask for nothing and leave drive, stepper and position alone.
LEMMA BeliefStill ==
  ASSUME BeliefInv, UNCHANGED <<drive, stepper, position, known>>
  PROVE  BeliefInv'
<1>1. Final' = Final /\ position' = position /\ known' = known /\ sensor' = sensor
  BY DEF drive, stepper, Final, Left, UpToLast
<1>. QED
  BY <1>1 DEF BeliefInv

LEMMA HeadCommand ==
  ASSUME ~Overlap, MoveInv, HeadInv, Command
  PROVE  HeadInv'
<1>1. /\ pc["dump"] = "idle" /\ pc'["dump"] = "idle"
      /\ UNCHANGED <<drive, stepper, position, known>>
  BY DEF Command, CmdHeadstep, CmdMovehead, CmdRecalibrate, MaySend, Still,
         Goto, MoveInv, TypeInv, TypeOK, Threads
<1>. QED
  BY <1>1, BeliefStill
     DEF HeadInv, AppleInv, DumpInv, SeekInv, SeekInInv, CaptureInv, drive

\* The script thread outside a recalibration.
LEMMA HeadScript ==
  ASSUME 0 \notin Steps, MoveInv, HeadInv,
         Headstep \/ Movehead \/ Moved \/ MoveheadEnd \/ RecalEnd
  PROVE  HeadInv'
<1>t. "script" \in Threads /\ "dump" \in Threads /\ "dump" # "script"
  BY DEF Threads
<1>a. "script" \notin waiting /\ pc["script"] # "idle"
  BY DEF Headstep, Movehead, Moved, MoveheadEnd, RecalEnd, At
<1>b. waiting = {} /\ st = "wait" /\ Left = 0 /\ pc["dump"] = "idle"
  BY <1>a, <1>t, Alone
<1>f. \A p : Goto("script", p) =>
        pc'["script"] = p /\ pc'["dump"] = pc["dump"]
  BY DEF Goto, MoveInv, TypeInv, TypeOK, Threads
<1>1. pc'["dump"] = "idle"
  BY <1>b, <1>f DEF Headstep, Movehead, Moved, MoveheadEnd, RecalEnd
<1>2. DumpInv' /\ AppleInv'
  <2>1. apple' = apple
    BY DEF Headstep, Movehead, Moved, MoveheadEnd, RecalEnd, MoveHead, Still, drive
  <2>. QED
    BY <1>1, <2>1 DEF HeadInv, AppleInv, DumpInv, SeekInv, SeekInInv, CaptureInv
<1>3. CASE Headstep
  <2>1. MoveHead("script", way, amount)
    BY <1>3 DEF Headstep
  <2>2. /\ amount \in Nat /\ amount >= 1 /\ amount < CountMod
    BY CommandAssumption, DriveAssumption, Numbers DEF MoveInv, TypeInv, AmountInv
  <2>3. BeliefInv'
    BY <1>a, <1>t, <2>1, <2>2, Numbers, BelievedMove DEF HeadInv
  <2>. QED
    BY <1>2, <2>3 DEF HeadInv
<1>4. CASE Movehead
  <2>1. MoveHead("script", way, 1)
    BY <1>4 DEF Movehead
  <2>2. 1 \in Nat /\ 1 < CountMod
    BY CommandAssumption, DriveAssumption
  <2>3. BeliefInv'
    BY <1>a, <1>t, <2>1, <2>2, Numbers, BelievedMove DEF HeadInv
  <2>. QED
    BY <1>2, <2>3 DEF HeadInv
<1>5. CASE Moved
  <2>1. /\ UNCHANGED <<drive, stepper>>
        /\ position' = (IF AtTrack00 THEN 0 ELSE position)
        /\ known' = (known \/ AtTrack00)
    BY <1>5 DEF Moved
  <2>2. AtTrack00 /\ sensor # "stuck" => head = 0
    BY DEF AtTrack00
  <2>3. CASE AtTrack00
    BY <1>2, <1>b, <2>1, <2>2, <2>3, BelievedZero DEF HeadInv
  <2>4. CASE ~AtTrack00
    <3>1. position' = position /\ known' = known
      BY <2>1, <2>4, Numbers
    <3>. QED
      BY <1>2, <1>b, <2>1, <3>1, BelievedZero DEF HeadInv
  <2>. QED
    BY <2>3, <2>4
<1>6. CASE MoveheadEnd \/ RecalEnd
  <2>1. UNCHANGED <<drive, stepper, position, known>>
    BY <1>6 DEF MoveheadEnd, RecalEnd, Still
  <2>. QED
    BY <1>2, <2>1, BeliefStill DEF HeadInv
<1>. QED
  BY <1>3, <1>4, <1>5, <1>6

\* The loops of a recalibration.
LEMMA HeadRecalStep ==
  ASSUME MoveInv, RecalInv, HeadInv, RecalStep
  PROVE  HeadInv'
<1>t. "script" \in Threads /\ "dump" \in Threads /\ "dump" # "script"
  BY DEF Threads
<1>1. /\ "script" \notin waiting /\ pc' = pc
      /\ pc["script"] \in {"recalOut", "recalPhase", "recalIn", "recalBack"}
  BY DEF RecalStep, At
<1>2. Left = 0 /\ pc["dump"] = "idle"
  BY <1>1, <1>t, Alone
<1>3. 1 \in Nat /\ 1 < CountMod
  BY CommandAssumption, DriveAssumption
<1>4. PICK in \in BOOLEAN : MoveHead("script", in, 1)
  BY DEF RecalStep, At
<1>6. BeliefInv'
  BY <1>1, <1>3, <1>4, <1>t, Numbers, BelievedMove DEF HeadInv
<1>7. AppleInv' /\ DumpInv'
  BY <1>1, <1>2, <1>4
     DEF HeadInv, AppleInv, DumpInv, SeekInv, SeekInInv, CaptureInv, MoveHead, drive
<1>. QED
  BY <1>6, <1>7 DEF HeadInv

LEMMA HeadRecalEnds ==
  ASSUME MoveInv, RecalInv, HeadInv,
         RecalOutEnd \/ RecalPhaseEnd \/ RecalInEnd \/ RecalBackEnd
  PROVE  HeadInv'
<1>t. "script" \in Threads /\ "dump" \in Threads /\ "dump" # "script"
  BY DEF Threads
<1>1. /\ "script" \notin waiting /\ pc["script"] # "idle"
      /\ UNCHANGED <<drive, stepper>>
  BY DEF RecalOutEnd, RecalPhaseEnd, RecalInEnd, RecalBackEnd, At, Still
<1>2. Left = 0 /\ pc["dump"] = "idle"
  BY <1>1, <1>t, Alone
<1>3. /\ pc'["dump"] = pc["dump"]
      /\ pc'["script"] \in {"recalPhase", "recalIn", "recalBack", "recalEnd"}
  BY DEF RecalOutEnd, RecalPhaseEnd, RecalInEnd, RecalBackEnd, Goto, MoveInv,
         TypeInv, TypeOK, Threads
<1>4. \/ position' = 0 /\ (sensor # "stuck" => head = 0)
      \/ UNCHANGED <<position, known>>
  <2>1. CASE RecalOutEnd
    BY <2>1 DEF RecalOutEnd, AtTrack00
  <2>2. CASE RecalPhaseEnd
    BY <2>2 DEF RecalPhaseEnd, RecalInv, PhaseInv, At
  <2>3. CASE RecalInEnd
    BY <2>3 DEF RecalInEnd, Still
  <2>4. CASE RecalBackEnd
    BY <2>4 DEF RecalBackEnd, AtTrack00
  <2>. QED
    BY <2>1, <2>2, <2>3, <2>4
<1>5. BeliefInv'
  BY <1>1, <1>2, <1>4, BelievedZero DEF HeadInv
<1>6. AppleInv' /\ DumpInv'
  BY <1>1, <1>2, <1>3
     DEF HeadInv, AppleInv, DumpInv, SeekInv, SeekInInv, CaptureInv, drive
<1>. QED
  BY <1>5, <1>6 DEF HeadInv

\* A dump: it finds track 0, or has the head there by its limit; goes to the
\* first track, and by one or two tracks to the next.
LEMMA HeadBegin ==
  ASSUME ~Overlap, MoveInv, HeadInv, BeginDump
  PROVE  HeadInv'
<1>1. /\ pc["script"] = "idle" /\ pc["dump"] = "idle"
      /\ UNCHANGED <<drive, stepper, position, known>>
  BY DEF BeginDump, At, Still
<1>2. waiting = {} /\ st = "wait" /\ Left = 0
  BY <1>1 DEF MoveInv, SerialInv, TypeInv, TypeOK, Threads, Left
<1>3. /\ pc'["dump"] = "seek" /\ pc'["script"] = "idle" /\ i'["dump"] = 0
      /\ st' = st /\ head' = head /\ Left' = 0
  BY <1>1, <1>2 DEF BeginDump, Goto, Restart, drive, stepper, Left, MoveInv,
                    TypeInv, TypeOK, Threads
<1>4. DumpInv'
  BY <1>2, <1>3, Numbers DEF DumpInv, SeekInv, SeekInInv, CaptureInv
<1>5. AppleInv' /\ BeliefInv'
  BY <1>1, BeliefStill DEF HeadInv, AppleInv, drive
<1>. QED
  BY <1>4, <1>5 DEF HeadInv

\* At the end of its search a dump has the head on track 0.
LEMMA Sought ==
  ASSUME MoveInv, HeadInv, SeekOutEnd, sensor # "stuck"
  PROVE  head = 0
<1>1. /\ "dump" \notin waiting /\ pc["dump"] = "seek"
      /\ AtTrack00 \/ i["dump"] >= SeekLimit
  BY DEF SeekOutEnd, At
<1>2. Left = 0
  BY <1>1, Alone DEF Threads
<1>3. SeekLimit > Last /\ SeekLimit \in Nat
  BY Numbers DEF SeekLimit, HeadInv, AppleInv
<1>4. /\ sensor = "good" => i["dump"] + head <= Last
      /\ sensor = "blind" => head <= 0 \/ i["dump"] + head <= Last
  BY <1>1, <1>2, Numbers DEF HeadInv, DumpInv, SeekInv
<1>5. CASE AtTrack00
  BY <1>5 DEF AtTrack00
<1>6. CASE i["dump"] >= SeekLimit
  BY <1>3, <1>4, <1>6, Numbers
<1>. QED
  BY <1>1, <1>5, <1>6

LEMMA HeadDump ==
  ASSUME FromZero, MoveInv, HeadInv,
         SeekOut \/ SeekOutEnd \/ SeekIn \/ SeekInEnd \/ NextTrack \/ DumpEnd
  PROVE  HeadInv'
<1>t. "script" \in Threads /\ "dump" \in Threads /\ "dump" # "script"
  BY DEF Threads
<1>a. "dump" \notin waiting /\ pc["dump"] # "idle"
  BY DEF SeekOut, SeekOutEnd, SeekIn, SeekInEnd, NextTrack, DumpEnd, At
<1>b. st = "wait" /\ Left = 0 /\ pc["script"] = "idle"
  BY <1>a, <1>t, Alone
<1>f. /\ \A p : Goto("dump", p) =>
           pc'["dump"] = p /\ pc'["script"] = pc["script"]
      /\ Count("dump") => i'["dump"] = i["dump"] + 1
      /\ Restart("dump") => i'["dump"] = 0
  BY DEF Goto, Count, Restart, MoveInv, TypeInv, TypeOK, Threads
<1>n. \A n \in {1, 2} : n \in Nat /\ n >= 1 /\ n < CountMod
  BY CommandAssumption, DriveAssumption
<1>m. ASSUME NEW in \in BOOLEAN, NEW n \in {1, 2}, MoveHead("dump", in, n)
      PROVE  /\ Left' = n /\ inward' = in /\ head' = head /\ sensor' = sensor
  BY <1>a, <1>m, <1>n, <1>t, AskAlone
<1>c. AppleInv'
  <2>1. apple' = apple
    BY DEF SeekOut, SeekOutEnd, SeekIn, SeekInEnd, NextTrack, DumpEnd, MoveHead,
           Still, drive
  <2>. QED
    BY <2>1 DEF HeadInv, AppleInv
<1>s. UNCHANGED <<drive, stepper>> =>
        Left' = Left /\ head' = head /\ sensor' = sensor /\ st' = st
  BY DEF drive, stepper, Left
<1>1. CASE SeekOut
  <2>1. /\ pc["dump"] = "seek" /\ pc' = pc /\ i'["dump"] = i["dump"] + 1
        /\ ~AtTrack00 /\ MoveHead("dump", FALSE, 1)
    BY <1>1, <1>f DEF SeekOut, At
  <2>2. BeliefInv'
    BY <1>a, <1>n, <1>t, <2>1, BelievedMove DEF HeadInv
  <2>3. Left' = 1 /\ ~inward' /\ head' = head /\ sensor' = sensor
    BY <2>1, <1>m
  <2>4. sensor = "good" => head >= 1
    BY <2>1, Numbers DEF AtTrack00
  <2>5. DumpInv'
    BY <1>b, <2>1, <2>3, <2>4, Numbers
       DEF HeadInv, DumpInv, SeekInv, SeekInInv, CaptureInv
  <2>. QED
    BY <1>c, <2>2, <2>5 DEF HeadInv
<1>2. CASE SeekOutEnd
  <2>1. /\ pc'["dump"] \in {"idle", "seekIn"} /\ pc'["script"] = "idle"
        /\ i'["dump"] = 0 /\ order' = order
        /\ UNCHANGED <<drive, stepper, position, known>>
    BY <1>2, <1>b, <1>f DEF SeekOutEnd, Still, dump
  <2>2. sensor # "stuck" => head = 0
    BY <1>2, Sought
  <2>3. DumpInv'
    BY <1>b, <1>s, <2>1, <2>2, Numbers
       DEF DumpInv, SeekInv, SeekInInv, CaptureInv, UpToLast
  <2>4. BeliefInv'
    BY <2>1, BeliefStill DEF HeadInv
  <2>. QED
    BY <1>c, <2>3, <2>4 DEF HeadInv
<1>3. CASE SeekIn
  <2>1. /\ pc["dump"] = "seekIn" /\ pc' = pc /\ i'["dump"] = i["dump"] + 1
        /\ i["dump"] < order.start /\ MoveHead("dump", TRUE, 1) /\ order' = order
    BY <1>3, <1>f DEF SeekIn, At, dump
  <2>2. sensor # "stuck" => head = UpToLast(i["dump"])
    BY <1>b, <2>1, Numbers DEF HeadInv, DumpInv, SeekInInv, UpToLast
  <2>4. BeliefInv'
    BY <1>a, <1>n, <1>t, <2>1, Numbers, BelievedMove DEF HeadInv
  <2>5. Left' = 1 /\ inward' /\ head' = head /\ sensor' = sensor
    BY <2>1, <1>m
  <2>6. DumpInv'
    BY <2>1, <2>2, <2>5, Numbers
       DEF DumpInv, SeekInv, SeekInInv, CaptureInv, UpToLast
  <2>. QED
    BY <1>c, <2>4, <2>6 DEF HeadInv
<1>4. CASE SeekInEnd
  <2>1. /\ pc["dump"] = "seekIn" /\ i["dump"] >= order.start
        /\ pc'["dump"] \in {"idle", "capture"}
        /\ pc'["script"] = "idle" /\ track' = order.start /\ order' = order
        /\ UNCHANGED <<drive, stepper, position, known>>
    BY <1>4, <1>b, <1>f DEF SeekInEnd, At, Still
  <2>2. sensor # "stuck" => head = UpToLast(order.start)
    BY <1>b, <2>1, Numbers DEF HeadInv, DumpInv, SeekInInv, UpToLast
  <2>3. order.double => order.start = 0
    BY Numbers DEF FromZero
  <2>4. DumpInv'
    BY <1>b, <1>s, <2>1, <2>2, <2>3, Numbers
       DEF DumpInv, SeekInv, SeekInInv, CaptureInv, UpToLast
  <2>5. BeliefInv'
    BY <2>1, BeliefStill DEF HeadInv
  <2>. QED
    BY <1>c, <2>4, <2>5 DEF HeadInv
<1>5. CASE NextTrack
  <2> DEFINE n == IF order.double THEN 2 ELSE 1
  <2>1. /\ pc["dump"] = "capture" /\ pc' = pc
        /\ track' = track + 1 /\ order' = order /\ MoveHead("dump", TRUE, n)
    BY <1>5 DEF NextTrack, At
  <2>2. sensor # "stuck" => head = UpToLast(IF order.double THEN 2 * track ELSE track)
    BY <1>b, <2>1, Numbers DEF HeadInv, DumpInv, CaptureInv, UpToLast
  <2>3. n \in {1, 2}
    OBVIOUS
  <2>4. Left' = n /\ inward' /\ head' = head /\ sensor' = sensor
    <3> HIDE DEF n
    <3>. QED
      BY <1>m, <2>1, <2>3
  <2>5. BeliefInv'
    <3> HIDE DEF n
    <3>. QED
      BY <1>a, <1>n, <1>t, <2>1, <2>3, Numbers, BelievedMove DEF HeadInv
  <2>6. DumpInv'
    BY <2>1, <2>2, <2>4, Numbers
       DEF DumpInv, SeekInv, SeekInInv, CaptureInv, UpToLast
  <2>. QED
    BY <1>c, <2>5, <2>6 DEF HeadInv
<1>6. CASE DumpEnd
  <2>1. /\ pc'["dump"] = "idle" /\ pc'["script"] = "idle"
        /\ UNCHANGED <<drive, stepper, position, known>>
    BY <1>6, <1>b, <1>f DEF DumpEnd, Still
  <2>. QED
    BY <1>c, <2>1, BeliefStill DEF HeadInv, DumpInv, SeekInv, SeekInInv, CaptureInv
<1>. QED
  BY <1>1, <1>2, <1>3, <1>4, <1>5, <1>6

\* The stepper brings the head to where it is believed to go.
LEMMA HeadPulse ==
  ASSUME MoveInv, HeadInv, Pulse
  PROVE  HeadInv'
<1>1. /\ Left \in Nat /\ Left >= 1 /\ Left' = Left - 1 /\ st = "pre"
      /\ st' = "move"
  BY PulseLeft
<1>2. /\ UNCHANGED <<pc, i, inward, sensor, apple, position, known, order, track>>
      /\ head' = Mover!Neighbour(head, inward)
  BY DEF Pulse, script, dump
<1>3. /\ ~inward => head' = (IF head > 0 THEN head - 1 ELSE 0)
      /\ inward => head' = (IF head < Last THEN head + 1 ELSE Last)
  BY <1>2 DEF Mover!Neighbour
<1>4. inward => UpToLast(head' + Left') = UpToLast(head + Left)
  BY <1>1, <1>3, Numbers DEF UpToLast
<1>5. BeliefInv'
  <2>1. Final' = IF inward THEN UpToLast(head' + Left')
                 ELSE IF head' >= Left' THEN head' - Left' ELSE 0
    BY <1>2 DEF Final, UpToLast
  <2>2. Final' = Final
    BY <1>1, <1>3, <1>4, <2>1, Numbers DEF Final
  <2>. QED
    BY <1>2, <2>2 DEF HeadInv, BeliefInv
<1>6. SeekInv'
  BY <1>1, <1>2, <1>3, Numbers DEF HeadInv, DumpInv, SeekInv
<1>7. SeekInInv'
  BY <1>1, <1>2, <1>4 DEF HeadInv, DumpInv, SeekInInv, UpToLast
<1>8. CaptureInv'
  BY <1>1, <1>2, <1>4 DEF HeadInv, DumpInv, CaptureInv, UpToLast
<1>9. AppleInv'
  BY <1>2 DEF HeadInv, AppleInv
<1>. QED
  BY <1>5, <1>6, <1>7, <1>8, <1>9 DEF HeadInv, DumpInv

LEMMA HeadStepOver ==
  ASSUME MoveInv, HeadInv, StepOver
  PROVE  HeadInv'
<1>1. /\ Left' = Left /\ st = "move"
      /\ UNCHANGED <<pc, i, inward, head, sensor, apple, position, known, order,
                     track>>
  BY StepOverLeft DEF StepOver, drive, script, dump
<1>2. Final' = Final
  BY <1>1 DEF Final, UpToLast
<1>. QED
  BY <1>1, <1>2 DEF HeadInv, BeliefInv, AppleInv, DumpInv, SeekInv, SeekInInv,
                    CaptureInv, UpToLast

LEMMA HeadKeeps ==
  ASSUME ~Overlap, 0 \notin Steps, FromZero, MoveInv, RecalInv, HeadInv, [Next]_vars
  PROVE  HeadInv'
<1>1. CASE MoveOver("script") \/ MoveOver("dump") \/ UNCHANGED vars
  <2>1. UNCHANGED <<pc, i, drive, stepper, position, known, order, track>>
    BY <1>1 DEF MoveOver, vars, script, dump
  <2>2. Left' = Left /\ Final' = Final
    BY <2>1 DEF Left, Final, UpToLast, stepper, drive
  <2>. QED
    BY <2>1, <2>2 DEF HeadInv, BeliefInv, AppleInv, DumpInv, SeekInv, SeekInInv,
                      CaptureInv, UpToLast, drive, stepper
<1>. QED
  BY <1>1, HeadCommand, HeadBegin, HeadScript, HeadRecalStep, HeadRecalEnds,
     HeadDump, HeadPulse, HeadStepOver
     DEF Next, ScriptThread, DumpThread, Stepper

LEMMA HeadInit == Init => HeadInv
BY DEF Init, HeadInv, BeliefInv, AppleInv, DumpInv, SeekInv, SeekInInv,
       CaptureInv, Threads

\* Once track 0 was found, the position the program counts is the head's
\* whenever no move is under way, through headsteps, moveheads, recalibrations
\* and dumps in any order, unless a command has gone past the drive's last
\* track since; and the tracks of a dump are numbered as the head is.  For
\* every drive and every MAX_STEPS, whatever the sensor but one that is always
\* on: the commands come one at a time, no headstep asks for 0 tracks, and a
\* dump that double steps starts at track 0.
THEOREM HeadKnownCorrect ==
  ASSUME ~Overlap, 0 \notin Steps, FromZero
  PROVE  Spec => []HeadKnown
<1>1. MoveInv /\ RecalInv /\ [Next]_vars => RecalInv'
  BY RecalKeeps
<1>2. MoveInv /\ RecalInv /\ HeadInv /\ [Next]_vars => HeadInv'
  BY HeadKeeps
<1>3. ASSUME MoveInv, HeadInv
      PROVE  HeadKnown
  <2>1. ASSUME known, waiting = {}, sensor # "stuck"
        PROVE  position = head
    <3>1. Left = 0
      BY <1>3, <2>1 DEF MoveInv, SerialInv, Left
    <3>. QED
      BY <1>3, <2>1, <3>1, Numbers DEF HeadInv, BeliefInv, Final, UpToLast
  <2>2. ASSUME At("dump", "capture"), sensor # "stuck"
        PROVE  head = UpToLast(IF order.double THEN 2 * track ELSE track)
    <3>1. Left = 0
      BY <1>3, <2>2, Alone DEF At, Threads
    <3>. QED
      BY <1>3, <2>2, <3>1, Numbers DEF HeadInv, DumpInv, CaptureInv, At, UpToLast
  <2>. QED
    BY <2>1, <2>2 DEF HeadKnown, PositionTrue, TrackAsNamed
<1>. QED
  BY <1>1, <1>2, <1>3, RecalInit, HeadInit, MoveInvariant, PTL DEF Spec

=============================================================================
