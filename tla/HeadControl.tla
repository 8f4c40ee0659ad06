----------------------------- MODULE HeadControl -----------------------------
(***************************************************************************)
(* Moving the head of a drive: the script thread (headstep, movehead,      *)
(* recalibrate) and the dump thread (readdisk) command the FPGA's stepper, *)
(* which steps the drive, and keep their own idea of where the head is.    *)
(* The mutex of floppy_ctrl_move_head covers the command, not the wait for *)
(* the stepper; and nothing reports the head's track but a sensor that     *)
(* sees track 0.                                                           *)
(*                                                                         *)
(* One drive with a step and direction interface, selected throughout;     *)
(* Apple II drives differ in having no sensor and in the four phases of    *)
(* their motor.                                                            *)
(***************************************************************************)
EXTENDS Integers

CONSTANTS
  Last,       \* the drive's innermost track, where its stop is
  MaxSteps,   \* DRIVE_n_MAX_STEPS
  CountMod,   \* the stepper counts its steps modulo this (2^10)
  RecalMax,   \* floppy_head_recalibrate steps out this often (100)
  RecalIn,    \* then in, to see the sensor go off (4), and out again
  SeekMax,    \* readdisk steps out this often to find track 0 (160)
  SeekApple,  \* and this often in Apple mode (80)
  Steps,      \* track counts of the headstep commands, of 9 bits at most
  Targets,    \* tracks of the movehead commands
  Orders,     \* dump commands: first and last track, double stepping
  Overlap     \* whether clients move the head while a dump runs

ASSUME DriveAssumption ==
  /\ Last \in Nat \ {0} /\ MaxSteps \in Nat /\ CountMod \in Nat \ {0}
  /\ RecalMax \in Nat /\ RecalIn \in Nat \ {0} /\ SeekMax \in Nat
  /\ SeekApple \in Nat
  /\ RecalIn <= Last /\ Last < RecalMax /\ Last < SeekMax
  /\ SeekApple < SeekMax

ASSUME CommandAssumption ==
  /\ Steps \subseteq Nat /\ Targets \subseteq Nat
  /\ \A n \in Steps : n < CountMod
  /\ Orders \subseteq [start : Nat, max : Nat, double : BOOLEAN]
  /\ Overlap \in BOOLEAN /\ CountMod > 2

VARIABLES
  \* the drive and its sensor
  head,      \* the track the head is on
  sensor,    \* "good", "blind" (never on) or "stuck" (always on)
  apple,     \* ENABLE_APPLE_MODE
  \* the stepper of the FPGA
  st,        \* state_stepper_register: "wait", "pre" or "move"
  inward,    \* floppy_ctrl_dir_q
  cmd,       \* track_pos_cmd: steps to make
  cnt,       \* track_pos_cnt: steps made
  phase,     \* motor_phases_cnt
  \* Pauline_control
  position,  \* drive_current_head_position
  known,     \* history: track 0 was found, and the position has not been
             \* counted past the drive's last track since
  pc,        \* where each thread is
  i,         \* the loop counter of each thread
  waiting,   \* threads waiting in floppy_ctrl_move_head for the stepper
  amount,    \* the script thread's move: tracks at a time
  way,       \* and its direction, inward or not
  ret,       \* what floppy_head_recalibrate returned
  order,     \* the dump's parameters
  track      \* the track the dump is at, as it numbers them

drive   == <<head, sensor, apple>>
stepper == <<st, inward, cmd, cnt, phase>>
script  == <<amount, way, ret>>
dump    == <<order, track>>
vars    == <<drive, stepper, position, known, pc, i, waiting, script, dump>>

Threads == {"script", "dump"}

AtTrack00 == sensor = "stuck" \/ (sensor = "good" /\ head = 0)

Mover == INSTANCE HeadMover WITH
  MostAsk <- CountMod - 1, left <- IF st = "wait" THEN 0 ELSE cmd - cnt

-----------------------------------------------------------------------------
(* The stepper                                                             *)

\* Half a step period: one step, and the head follows.
Pulse ==
  /\ st = "pre"
  /\ st' = "move" /\ cnt' = (cnt + 1) % CountMod
  /\ head' = Mover!Neighbour(head, inward)
  /\ phase' = (IF inward THEN phase + 1 ELSE phase - 1) % 4
  /\ UNCHANGED <<sensor, apple, inward, cmd, position, known, pc, i, waiting,
                 script, dump>>

\* The rest of the period: another step, or the end.
StepOver ==
  /\ st = "move"
  /\ st' = IF cnt # cmd THEN "pre" ELSE "wait"
  /\ phase' = IF AtTrack00 THEN 0 ELSE phase
  /\ UNCHANGED <<drive, inward, cmd, cnt, position, known, pc, i, waiting,
                 script, dump>>

-----------------------------------------------------------------------------
(* floppy_ctrl_move_head                                                   *)

\* Where the program thinks the head goes.
Counted(p, in, n) == IF in THEN p + n ELSE IF p > n THEN p - n ELSE 0

\* The part under io_fpga_mutex: the position is put right at track 0, the
\* register written, the position counted on.  A stepper at work takes the new
\* count and misses the command.
MoveHead(t, in, n) ==
  /\ position' = Counted(IF AtTrack00 THEN 0 ELSE position, in, n)
  /\ known' = ((known \/ AtTrack00) /\ position' <= Last)
  /\ cmd' = n
  /\ IF st = "wait" THEN st' = "pre" /\ inward' = in /\ cnt' = 0
                    ELSE UNCHANGED <<st, inward, cnt>>
  /\ waiting' = waiting \cup {t}
  /\ UNCHANGED <<drive, phase>>

\* Mutation: the stepper is not waited for.
MoveOver_NoWait(t) ==
  /\ t \in waiting
  /\ waiting' = waiting \ {t}
  /\ UNCHANGED <<drive, stepper, position, known, pc, i, script, dump>>

\* The polling of the headmove register is over.
MoveOver(t) ==
  /\ t \in waiting /\ st = "wait"
  /\ waiting' = waiting \ {t}
  /\ UNCHANGED <<drive, stepper, position, known, pc, i, script, dump>>

At(t, p)   == pc[t] = p /\ t \notin waiting
Goto(t, p) == pc' = [pc EXCEPT ![t] = p]
Count(t)   == i' = [i EXCEPT ![t] = @ + 1]
Restart(t) == i' = [i EXCEPT ![t] = 0]

\* As far as the drive's stop lets the head go.
UpToLast(n) == IF n < Last THEN n ELSE Last

\* Nothing moves and the position stays.
Still == UNCHANGED <<drive, stepper, position, known, waiting>>

-----------------------------------------------------------------------------
(* The script thread                                                       *)

MaySend == At("script", "idle") /\ (Overlap \/ pc["dump"] = "idle")

Tracks(p, double) == IF double THEN p \div 2 ELSE p

\* cmd_headstep: refused inward at or beyond the last track.
CmdHeadstep(n, in, double) ==
  /\ MaySend
  /\ n = 0 => in
  /\ ~(Tracks(position, double) >= MaxSteps /\ in /\ n > 0)
  /\ amount' = n /\ way' = in
  /\ i' = [i EXCEPT !["script"] = IF double THEN 2 ELSE 1]
  /\ Goto("script", "step")
  /\ Still /\ UNCHANGED <<ret, dump>>

Headstep ==
  /\ At("script", "step") /\ i["script"] > 0
  /\ MoveHead("script", way, amount)
  /\ i' = [i EXCEPT !["script"] = @ - 1]
  /\ UNCHANGED <<pc, script, dump>>

\* cmd_movehead: as many single tracks as it thinks are between.
CmdMovehead(target, double) ==
  /\ MaySend
  /\ LET to   == IF target > MaxSteps THEN MaxSteps ELSE target
         from == Tracks(position, double)
         gap  == IF from < to THEN to - from ELSE from - to
     IN  /\ way' = (from < to)
         /\ i' = [i EXCEPT !["script"] = IF double THEN gap * 2 ELSE gap]
  /\ amount' = 1 /\ Goto("script", "walk")
  /\ Still /\ UNCHANGED <<ret, dump>>

Movehead ==
  /\ At("script", "walk") /\ i["script"] > 0
  /\ MoveHead("script", way, 1)
  /\ i' = [i EXCEPT !["script"] = @ - 1] /\ Goto("script", "walked")
  /\ UNCHANGED <<script, dump>>

\* headstep and movehead look at the sensor when the head has moved.
Moved ==
  /\ At("script", "walked") \/ (At("script", "step") /\ i["script"] = 0)
  /\ position' = IF AtTrack00 THEN 0 ELSE position
  /\ known' = (known \/ AtTrack00)
  /\ Goto("script", IF pc["script"] = "walked" THEN "walk" ELSE "idle")
  /\ UNCHANGED <<drive, stepper, waiting, i, script, dump>>

MoveheadEnd ==
  /\ At("script", "walk") /\ i["script"] = 0
  /\ Goto("script", "idle")
  /\ Still /\ UNCHANGED <<i, script, dump>>

CmdRecalibrate ==
  /\ MaySend
  /\ Restart("script") /\ Goto("script", "recalOut")
  /\ Still /\ UNCHANGED <<script, dump>>

\* The loops of floppy_head_recalibrate: out to track 0, in Apple mode on to
\* phase 0; in until the sensor goes off; out again.
RecalStep ==
  /\ \/ /\ At("script", "recalOut") /\ ~AtTrack00 /\ i["script"] < RecalMax
        /\ MoveHead("script", FALSE, 1)
     \/ /\ At("script", "recalPhase") /\ phase # 0 /\ i["script"] < 4
        /\ MoveHead("script", FALSE, 1)
     \/ /\ At("script", "recalIn") /\ i["script"] < RecalIn
        /\ MoveHead("script", TRUE, 1)
     \/ /\ At("script", "recalBack") /\ ~AtTrack00 /\ i["script"] < RecalIn + 1
        /\ MoveHead("script", FALSE, 1)
  /\ Count("script")
  /\ UNCHANGED <<pc, script, dump>>

RecalOutEnd ==
  /\ At("script", "recalOut") /\ (AtTrack00 \/ i["script"] >= RecalMax)
  /\ IF apple
       THEN Goto("script", "recalPhase") /\ UNCHANGED <<position, known, ret>>
     ELSE IF i["script"] >= RecalMax
       THEN /\ Goto("script", "recalEnd") /\ ret' = "noTrack0"
            /\ UNCHANGED <<position, known>>
       ELSE /\ Goto("script", "recalIn") /\ position' = 0 /\ known' = TRUE
            /\ UNCHANGED ret
  /\ Restart("script")
  /\ UNCHANGED <<drive, stepper, waiting, amount, way, dump>>

RecalPhaseEnd ==
  /\ At("script", "recalPhase") /\ (phase = 0 \/ i["script"] >= 4)
  /\ Goto("script", "recalEnd") /\ ret' = "ok"
  /\ position' = 0 /\ known' = TRUE
  /\ UNCHANGED <<drive, stepper, waiting, i, amount, way, dump>>

\* Mutation: the sensor may still be on.
RecalInEnd_NoTest ==
  /\ At("script", "recalIn") /\ i["script"] >= RecalIn
  /\ Goto("script", "recalBack") /\ UNCHANGED ret
  /\ Restart("script")
  /\ Still /\ UNCHANGED <<amount, way, dump>>

RecalInEnd ==
  /\ At("script", "recalIn") /\ i["script"] >= RecalIn
  /\ IF AtTrack00
       THEN Goto("script", "recalEnd") /\ ret' = "alwaysTrack0"
       ELSE Goto("script", "recalBack") /\ UNCHANGED ret
  /\ Restart("script")
  /\ Still /\ UNCHANGED <<amount, way, dump>>

RecalBackEnd ==
  /\ At("script", "recalBack") /\ (AtTrack00 \/ i["script"] >= RecalIn + 1)
  /\ Goto("script", "recalEnd")
  /\ IF i["script"] >= RecalIn + 1
       THEN ret' = "lost" /\ UNCHANGED position
       ELSE ret' = "ok" /\ position' = 0
  /\ UNCHANGED <<drive, stepper, known, waiting, i, amount, way, dump>>

\* cmd_recalibrate reports the result.
RecalEnd ==
  /\ At("script", "recalEnd")
  /\ Goto("script", "idle") /\ ret' = "none"
  /\ Still /\ UNCHANGED <<i, amount, way, dump>>

-----------------------------------------------------------------------------
(* The dump thread: the head movements of readdisk                         *)

BeginDump ==
  /\ At("dump", "idle") /\ (Overlap \/ pc["script"] = "idle")
  /\ order' \in Orders
  /\ Restart("dump") /\ Goto("dump", "seek")
  /\ Still /\ UNCHANGED <<script, track>>

SeekLimit == IF apple THEN SeekApple ELSE SeekMax

\* Mutation: the search for track 0 is not bounded.
SeekOut_NoBound ==
  /\ At("dump", "seek") /\ ~AtTrack00
  /\ MoveHead("dump", FALSE, 1)
  /\ UNCHANGED <<pc, i, script, dump>>

SeekOut ==
  /\ At("dump", "seek") /\ ~AtTrack00 /\ i["dump"] < SeekLimit
  /\ MoveHead("dump", FALSE, 1) /\ Count("dump")
  /\ UNCHANGED <<pc, script, dump>>

\* "Head position calibration failed" only beyond SeekMax: never in Apple mode.
SeekOutEnd ==
  /\ At("dump", "seek") /\ (AtTrack00 \/ i["dump"] >= SeekLimit)
  /\ Goto("dump", IF i["dump"] >= SeekMax THEN "idle" ELSE "seekIn")
  /\ Restart("dump")
  /\ Still /\ UNCHANGED <<script, dump>>

SeekIn ==
  /\ At("dump", "seekIn") /\ i["dump"] < order.start
  /\ MoveHead("dump", TRUE, 1) /\ Count("dump")
  /\ UNCHANGED <<pc, script, dump>>

\* The last track is at most the drive's.
MaxTrack == IF order.max > MaxSteps THEN MaxSteps ELSE order.max

SeekInEnd ==
  /\ At("dump", "seekIn") /\ i["dump"] >= order.start
  /\ track' = order.start
  /\ Goto("dump", IF order.start <= MaxTrack THEN "capture" ELSE "idle")
  /\ Still /\ UNCHANGED <<i, script, order>>

\* Mutation: a track at a time, double stepping or not.
NextTrack_Single ==
  /\ At("dump", "capture") /\ track < MaxTrack
  /\ MoveHead("dump", TRUE, 1)
  /\ track' = track + 1
  /\ UNCHANGED <<pc, i, script, order>>

\* The track's sides are captured; on to the next track.
NextTrack ==
  /\ At("dump", "capture") /\ track < MaxTrack
  /\ MoveHead("dump", TRUE, IF order.double THEN 2 ELSE 1)
  /\ track' = track + 1
  /\ UNCHANGED <<pc, i, script, order>>

\* After the last track, a stop command or a failed capture.
DumpEnd ==
  /\ At("dump", "capture")
  /\ Goto("dump", "idle")
  /\ Still /\ UNCHANGED <<i, script, dump>>

-----------------------------------------------------------------------------
\* The program starts with the head anywhere.  Apple II drives have no sensor,
\* and fewer tracks than readdisk steps out in Apple mode.
Init ==
  /\ head \in 0 .. Last /\ apple \in BOOLEAN /\ (apple => Last < SeekApple)
  /\ sensor \in (IF apple THEN {"blind"} ELSE {"good", "blind", "stuck"})
  /\ st = "wait" /\ inward = FALSE /\ cmd = 0 /\ cnt = 0 /\ phase = 0
  /\ position = 0 /\ known = FALSE
  /\ pc = [t \in Threads |-> "idle"] /\ i = [t \in Threads |-> 0]
  /\ waiting = {} /\ amount = 1 /\ way = FALSE /\ ret = "none"
  /\ order \in Orders /\ track = 0

Command ==
  \/ \E n \in Steps, in \in BOOLEAN, double \in BOOLEAN :
       CmdHeadstep(n, in, double)
  \/ \E target \in Targets, double \in BOOLEAN : CmdMovehead(target, double)
  \/ CmdRecalibrate

ScriptThread ==
  \/ MoveOver("script") \/ Headstep \/ Movehead \/ Moved \/ MoveheadEnd
  \/ RecalStep \/ RecalOutEnd \/ RecalPhaseEnd \/ RecalInEnd \/ RecalBackEnd
  \/ RecalEnd

DumpThread ==
  \/ MoveOver("dump") \/ SeekOut \/ SeekOutEnd \/ SeekIn \/ SeekInEnd
  \/ NextTrack \/ DumpEnd

Stepper == Pulse \/ StepOver

Next == Command \/ BeginDump \/ ScriptThread \/ DumpThread \/ Stepper

\* Clocks and threads go on; commands may never come.
Fairness ==
  WF_vars(Stepper) /\ WF_vars(ScriptThread) /\ WF_vars(DumpThread)

Spec == Init /\ [][Next]_vars /\ Fairness

-----------------------------------------------------------------------------
TypeOK ==
  /\ head \in 0 .. Last /\ sensor \in {"good", "blind", "stuck"}
  /\ apple \in BOOLEAN
  /\ st \in {"wait", "pre", "move"} /\ inward \in BOOLEAN
  /\ cmd \in 0 .. CountMod - 1 /\ cnt \in 0 .. CountMod - 1
  /\ phase \in 0 .. 3
  /\ position \in Nat /\ known \in BOOLEAN
  /\ pc \in [Threads -> {"idle", "step", "walk", "walked", "recalOut",
                         "recalPhase", "recalIn", "recalBack", "recalEnd",
                         "seek", "seekIn", "capture"}]
  /\ i \in [Threads -> Nat] /\ waiting \subseteq Threads
  /\ amount \in Nat /\ way \in BOOLEAN
  /\ ret \in {"none", "ok", "noTrack0", "alwaysTrack0", "lost"}
  /\ order \in Orders /\ track \in Nat

\* Once track 0 was found, the program knows where the head is whenever no
\* move is under way, though it only counts its own commands: none of them is
\* lost.  A command that goes past the drive's last track, which its
\* MAX_STEPS does not keep it from, ends that until track 0 is found again.
PositionTrue ==
  known /\ waiting = {} /\ sensor # "stuck" => position = head

\* The tracks of a dump are numbered as the head is: track n of the disk is
\* the drive's track n, or 2n when it is double stepped (and starts at track
\* 0: readdisk goes to its first track by single tracks, always).  The tracks
\* the drive does not have are read from its last one.
TrackAsNamed ==
  At("dump", "capture") /\ sensor # "stuck" =>
    head = UpToLast(IF order.double THEN 2 * track ELSE track)

\* What the program believes of the head, and writes into the dump, is so.
HeadKnown == PositionTrue /\ TrackAsNamed

\* What recalibrate reports is true: the head is at track 0, or the sensor is
\* never on, or always; and it never finds track 0 and loses it again.
RecalibrationHonest ==
  At("script", "recalEnd") =>
    CASE ret = "ok"             -> head = 0 /\ (apple \/ sensor = "good")
      [] ret = "noTrack0"       -> sensor = "blind"
      [] ret = "alwaysTrack0"   -> sensor = "stuck"
      [] OTHER                  -> FALSE

\* Every command gets to its end, whatever the sensor does.
CommandsEnd == \A t \in Threads : (pc[t] # "idle") ~> (pc[t] = "idle")

\* The stepper and those who command it implement a head that carries out one
\* request at a time, track by track.
ImplementsMover == Mover!Spec

=============================================================================
