----------------------------- MODULE DumpSession -----------------------------
(***************************************************************************)
(* The script thread, which executes one console command after another,    *)
(* and the dump threads it creates.  They share, without a lock, the flags *)
(* dump_running, dump_drive and stop_process, the text of the last "dump"  *)
(* command, the mapping of the dump buffer, and the select and motor lines *)
(* of the floppy bus.                                                      *)
(*                                                                         *)
(* A dump command is known by its number; number d creates dump thread d.  *)
(* What happens inside one capture is the matter of DumpStream.            *)
(***************************************************************************)
EXTENDS Naturals, FiniteSets

CONSTANTS
  Drives,    \* the drives on the bus
  MaxDumps,  \* bound: dump commands in one behaviour
  Units,     \* captures (tracks times sides) a dump asks for
  Commands,  \* the kinds of commands the clients send
  Patient    \* whether the clients wait before they send, see MaySend

ASSUME SessionAssumption ==
  /\ MaxDumps \in Nat /\ Units \in Nat
  /\ Commands \subseteq {"dump", "stop", "headstep", "recalibrate", "reset"}
  /\ Patient \in BOOLEAN

Dumps == 1 .. MaxDumps

VARIABLES
  \* shared by all threads
  dumpRunning,  \* dump_running
  dumpDrive,    \* dump_drive
  stopProcess,  \* stop_process
  cmdline,      \* thread_dump_cmdline: number of the command it holds, or 0
  mapped,       \* whether dump_buffer is mapped
  selected,     \* drives whose select line is active
  motor,        \* drives whose motor line is active
  \* the script thread
  spc,          \* what it is doing
  sdrive,       \* the drive of its command
  order,        \* what each dump command asks for: a drive, spy mode or not
  issued,       \* dump commands accepted so far
  \* the dump threads
  tpc,          \* where each one is
  numbers,      \* the command whose numeric parameters it read
  name,         \* the command whose name and comments it read
  unit,         \* captures done
  hung          \* threads whose capture the FPGA will never finish

shared  == <<dumpRunning, dumpDrive, stopProcess, cmdline, mapped>>
bus     == <<selected, motor>>
script  == <<spc, sdrive, order, issued>>
threads == <<tpc, numbers, name, unit, hung>>
vars    == <<shared, bus, script, threads>>

\* The steps of a dump thread during which dump_running is set.
RunningPcs == {"drive", "folder", "motor", "select", "seek", "units",
               "capture", "free", "clear", "failSelect", "failMotor",
               "failClear"}
ReadPcs    == {"units", "capture", "free", "clear"}
StartPcs   == {"parse", "name", "begin"}      \* created, flag not yet set
EndPcs     == {"deselect", "motorOff"}        \* flag cleared, bus still held
IdlePcs    == {"none", "gone"}
Pcs        == RunningPcs \cup StartPcs \cup EndPcs \cup IdlePcs

DriveOf(d) == order[numbers[d]].drive
Spy(d)     == order[numbers[d]].spy

Select(d)   == selected' = selected \cup {d}
Deselect(d) == selected' = selected \ {d}
Goto(d, p)  == tpc' = [tpc EXCEPT ![d] = p]

-----------------------------------------------------------------------------
(* The dump thread: diskdump_thread and readdisk                           *)

ParseNumbers(d) ==
  /\ tpc[d] = "parse"
  /\ numbers' = [numbers EXCEPT ![d] = cmdline] /\ Goto(d, "name")
  /\ UNCHANGED <<shared, bus, script, name, unit, hung>>

ParseName(d) ==
  /\ tpc[d] = "name"
  /\ name' = [name EXCEPT ![d] = cmdline] /\ Goto(d, "begin")
  /\ UNCHANGED <<shared, bus, script, numbers, unit, hung>>

SetRunning(d) ==
  /\ tpc[d] = "begin"
  /\ dumpRunning' = TRUE /\ Goto(d, "drive")
  /\ UNCHANGED <<dumpDrive, stopProcess, cmdline, mapped, bus, script,
                 numbers, name, unit, hung>>

SetDrive(d) ==
  /\ tpc[d] = "drive"
  /\ dumpDrive' = DriveOf(d)
  /\ Goto(d, IF Spy(d) THEN "units" ELSE "folder")
  /\ UNCHANGED <<dumpRunning, stopProcess, cmdline, mapped, bus, script,
                 numbers, name, unit, hung>>

\* Mutation: the flag stays set when there is no folder.
PrepareFolder_KeepsFlag(d) ==
  /\ tpc[d] = "folder"
  /\ Goto(d, "motor") \/ Goto(d, "gone")
  /\ UNCHANGED <<shared, bus, script, numbers, name, unit, hung>>

\* prepare_folder: without a folder the dump ends at once.
PrepareFolder(d) ==
  /\ tpc[d] = "folder"
  /\ \/ Goto(d, "motor") /\ UNCHANGED dumpRunning
     \/ Goto(d, "gone") /\ dumpRunning' = FALSE
  /\ UNCHANGED <<dumpDrive, stopProcess, cmdline, mapped, bus, script,
                 numbers, name, unit, hung>>

MotorOn(d) ==
  /\ tpc[d] = "motor"
  /\ motor' = motor \cup {DriveOf(d)} /\ Goto(d, "select")
  /\ UNCHANGED <<shared, selected, script, numbers, name, unit, hung>>

SelectDrive(d) ==
  /\ tpc[d] = "select"
  /\ Select(DriveOf(d)) /\ Goto(d, "seek")
  /\ UNCHANGED <<shared, motor, script, numbers, name, unit, hung>>

\* The head is stepped out to track 0 and in to the first track, or track 0
\* is never seen.
Seek(d) ==
  /\ tpc[d] = "seek"
  /\ \/ Goto(d, "units")
     \/ Goto(d, "failSelect")
  /\ UNCHANGED <<shared, bus, script, numbers, name, unit, hung>>

\* Mutation: a dump that failed leaves its drive selected.
FailDeselect_Omitted(d) ==
  /\ tpc[d] = "failSelect" /\ Goto(d, "failMotor")
  /\ UNCHANGED <<shared, bus, script, numbers, name, unit, hung>>

FailDeselect(d) ==
  /\ tpc[d] = "failSelect"
  /\ Deselect(DriveOf(d)) /\ Goto(d, "failMotor")
  /\ UNCHANGED <<shared, motor, script, numbers, name, unit, hung>>

FailMotorOff(d) ==
  /\ tpc[d] = "failMotor"
  /\ motor' = motor \ {DriveOf(d)} /\ Goto(d, "failClear")
  /\ UNCHANGED <<shared, selected, script, numbers, name, unit, hung>>

FailClear(d) ==
  /\ tpc[d] = "failClear"
  /\ dumpRunning' = FALSE /\ Goto(d, "gone")
  /\ UNCHANGED <<dumpDrive, stopProcess, cmdline, mapped, bus, script,
                 numbers, name, unit, hung>>

\* Top of the side loop: stop_process is looked at only here.  start_dump maps
\* the buffer and sets the FPGA's dumper going again, for every thread.
NextUnit(d) ==
  /\ tpc[d] = "units"
  /\ IF stopProcess \/ unit[d] = Units
       THEN Goto(d, "free") /\ UNCHANGED <<mapped, hung>>
       ELSE Goto(d, "capture") /\ mapped' = TRUE /\ hung' = {}
  /\ UNCHANGED <<dumpRunning, dumpDrive, stopProcess, cmdline, bus, script,
                 numbers, name, unit>>

\* The capture completes, or the index timeout ends the dump.
EndUnit(d) ==
  /\ tpc[d] = "capture" /\ d \notin hung
  /\ \/ Goto(d, "units") /\ unit' = [unit EXCEPT ![d] = @ + 1]
     \/ Goto(d, "free") /\ UNCHANGED unit
  /\ UNCHANGED <<shared, bus, script, numbers, name, hung>>

FreeBuffer(d) ==
  /\ tpc[d] = "free"
  /\ mapped' = FALSE /\ Goto(d, "clear")
  /\ UNCHANGED <<dumpRunning, dumpDrive, stopProcess, cmdline, bus, script,
                 numbers, name, unit, hung>>

ClearRunning(d) ==
  /\ tpc[d] = "clear"
  /\ dumpRunning' = FALSE
  /\ Goto(d, IF Spy(d) THEN "gone" ELSE "deselect")
  /\ UNCHANGED <<dumpDrive, stopProcess, cmdline, mapped, bus, script,
                 numbers, name, unit, hung>>

DeselectDrive(d) ==
  /\ tpc[d] = "deselect"
  /\ Deselect(DriveOf(d)) /\ Goto(d, "motorOff")
  /\ UNCHANGED <<shared, motor, script, numbers, name, unit, hung>>

MotorOff(d) ==
  /\ tpc[d] = "motorOff"
  /\ motor' = motor \ {DriveOf(d)} /\ Goto(d, "gone")
  /\ UNCHANGED <<shared, selected, script, numbers, name, unit, hung>>

DumpThread(d) ==
  \/ ParseNumbers(d) \/ ParseName(d) \/ SetRunning(d) \/ SetDrive(d)
  \/ PrepareFolder(d) \/ MotorOn(d) \/ SelectDrive(d) \/ Seek(d)
  \/ FailDeselect(d) \/ FailMotorOff(d) \/ FailClear(d)
  \/ NextUnit(d) \/ EndUnit(d) \/ FreeBuffer(d) \/ ClearRunning(d)
  \/ DeselectDrive(d) \/ MotorOff(d)

-----------------------------------------------------------------------------
(* The script thread: one command at a time                                *)

\* Patient clients send nothing between a dump command and "Start disk
\* reading", nor between the end of a dump and its last message; they
\* recalibrate and reset only when no dump is under way, and step the head
\* during a dump only once it reads tracks, and not of a drive that is being
\* spied on.  (A step that overlaps a dump that fails before its first track
\* leaves the drive selected.)  Others send at any time.
MaySend(c) ==
  /\ spc = "idle" /\ c \in Commands
  /\ Patient =>
       /\ \A d \in Dumps : tpc[d] \notin StartPcs \cup {"drive"} \cup EndPcs
       /\ c \in {"recalibrate", "reset"} => \A d \in Dumps : tpc[d] \in IdlePcs
       /\ c = "headstep" =>
            \A d \in Dumps : tpc[d] \in RunningPcs =>
              tpc[d] \in ReadPcs /\ ~Spy(d)

\* Mutation: the thread is created before the text is copied.
CmdDump_LateCopy ==
  /\ MaySend("dump") /\ ~dumpRunning /\ issued < MaxDumps
  /\ \E drive \in Drives, spy \in BOOLEAN :
       order' = [order EXCEPT ![issued + 1] = [drive |-> drive, spy |-> spy]]
  /\ issued' = issued + 1 /\ cmdline' \in {cmdline, issued + 1}
  /\ Goto(issued + 1, "parse")
  /\ UNCHANGED <<dumpRunning, dumpDrive, stopProcess, mapped, bus,
                 spc, sdrive, numbers, name, unit, hung>>

\* cmd_dump; while dump_running is set it only prints "Dump already running".
\* The thread may fail to be created.
CmdDump ==
  /\ MaySend("dump") /\ ~dumpRunning /\ issued < MaxDumps
  /\ \E drive \in Drives, spy \in BOOLEAN :
       order' = [order EXCEPT ![issued + 1] = [drive |-> drive, spy |-> spy]]
  /\ issued' = issued + 1 /\ cmdline' = issued + 1
  /\ Goto(issued + 1, "parse") \/ UNCHANGED tpc
  /\ UNCHANGED <<dumpRunning, dumpDrive, stopProcess, mapped, bus,
                 spc, sdrive, numbers, name, unit, hung>>

CmdStop ==
  /\ MaySend("stop")
  /\ stopProcess' = TRUE /\ spc' = "stopping"
  /\ UNCHANGED <<dumpRunning, dumpDrive, cmdline, mapped, bus,
                 sdrive, order, issued, threads>>

\* Mutation: the end of the dump is not waited for.
StopSeen_NoWait ==
  /\ spc = "stopping" /\ spc' = "stopReply"
  /\ UNCHANGED <<shared, bus, sdrive, order, issued, threads>>

\* The sleep(1) loop of cmd_stop is left.
StopSeen ==
  /\ spc = "stopping" /\ ~dumpRunning
  /\ spc' = "stopReply"
  /\ UNCHANGED <<shared, bus, sdrive, order, issued, threads>>

\* "Current dump stopped !"
StopReply ==
  /\ spc = "stopReply"
  /\ stopProcess' = FALSE /\ spc' = "idle"
  /\ UNCHANGED <<dumpRunning, dumpDrive, cmdline, mapped, bus,
                 sdrive, order, issued, threads>>

\* cmd_headstep and cmd_movehead refuse with "Floppy bus busy" while another
\* drive is being dumped.
CmdHeadstep(drive) ==
  /\ MaySend("headstep") /\ ~(dumpRunning /\ dumpDrive # drive)
  /\ spc' = "tested" /\ sdrive' = drive
  /\ UNCHANGED <<shared, bus, order, issued, threads>>

\* The drive is selected on the strength of that test, whatever has become of
\* the dump since.
SelectStep ==
  /\ spc = "tested"
  /\ Select(sdrive) /\ spc' = "stepping"
  /\ UNCHANGED <<shared, motor, sdrive, order, issued, threads>>

\* cmd_recalibrate selects its drive without asking.
CmdRecalibrate(drive) ==
  /\ MaySend("recalibrate")
  /\ Select(drive) /\ spc' = "recalibrating" /\ sdrive' = drive
  /\ UNCHANGED <<shared, motor, order, issued, threads>>

\* Mutation: the drive is released also while it is being dumped.
HeadMoved_AlwaysReleases ==
  /\ spc \in {"stepping", "recalibrating"}
  /\ spc' = "release"
  /\ UNCHANGED <<shared, bus, sdrive, order, issued, threads>>

\* The head has moved; the drive is released unless a dump is running.
HeadMoved ==
  /\ spc \in {"stepping", "recalibrating"}
  /\ spc' = IF dumpRunning THEN "idle" ELSE "release"
  /\ UNCHANGED <<shared, bus, sdrive, order, issued, threads>>

\* Track 0 was not found: the drive is released whatever goes on.
RecalibrationFailed ==
  /\ spc = "recalibrating"
  /\ spc' = "release"
  /\ UNCHANGED <<shared, bus, sdrive, order, issued, threads>>

Release ==
  /\ spc = "release"
  /\ Deselect(sdrive) /\ spc' = "idle"
  /\ UNCHANGED <<shared, motor, sdrive, order, issued, threads>>

\* reset_fpga puts the dumper in reset under the capture.  A thread that waits
\* for the first chunk waits for ever; one past it runs on over the buffer.
CmdReset ==
  /\ MaySend("reset")
  /\ \E caught \in SUBSET {d \in Dumps : tpc[d] = "capture"} :
       hung' = hung \cup caught
  /\ UNCHANGED <<shared, bus, script, tpc, numbers, name, unit>>

Command ==
  \/ CmdDump \/ CmdStop \/ CmdReset
  \/ \E drive \in Drives : CmdHeadstep(drive) \/ CmdRecalibrate(drive)

ScriptStep == \/ StopSeen \/ StopReply \/ SelectStep \/ HeadMoved
              \/ RecalibrationFailed \/ Release

-----------------------------------------------------------------------------
Init ==
  /\ dumpRunning = FALSE /\ stopProcess = FALSE /\ dumpDrive \in Drives
  /\ cmdline = 0 /\ mapped = FALSE /\ selected = {} /\ motor = {}
  /\ spc = "idle" /\ sdrive = dumpDrive /\ issued = 0
  /\ order = [d \in Dumps |-> [drive |-> dumpDrive, spy |-> FALSE]]
  /\ tpc = [d \in Dumps |-> "none"] /\ hung = {}
  /\ numbers = [d \in Dumps |-> d] /\ name = [d \in Dumps |-> d]
  /\ unit = [d \in Dumps |-> 0]

Next == Command \/ ScriptStep \/ \E d \in Dumps : DumpThread(d)

\* The threads run; nobody has to send a command.
Fairness == WF_vars(ScriptStep) /\ \A d \in Dumps : WF_vars(DumpThread(d))

Spec == Init /\ [][Next]_vars /\ Fairness

-----------------------------------------------------------------------------
TypeOK ==
  /\ dumpRunning \in BOOLEAN /\ stopProcess \in BOOLEAN /\ mapped \in BOOLEAN
  /\ dumpDrive \in Drives /\ sdrive \in Drives
  /\ cmdline \in 0 .. MaxDumps /\ issued \in 0 .. MaxDumps
  /\ selected \subseteq Drives /\ motor \subseteq Drives
  /\ spc \in {"idle", "stopping", "stopReply", "tested", "stepping",
              "recalibrating", "release"}
  /\ order \in [Dumps -> [drive : Drives, spy : BOOLEAN]]
  /\ tpc \in [Dumps -> Pcs] /\ hung \subseteq Dumps
  /\ numbers \in [Dumps -> Dumps] /\ name \in [Dumps -> Dumps]
  /\ unit \in [Dumps -> 0 .. Units]

\* "Dump already running": two dump threads never run at the same time, though
\* the flag that forbids it is set by the thread and tested by the script.
OneDump ==
  \A c, d \in Dumps : tpc[c] \in RunningPcs /\ tpc[d] \in RunningPcs => c = d

\* A dump runs with the parameters of one command, its own, though all of them
\* are read from the same text, in two goes.
OwnParameters ==
  \A d \in Dumps : tpc[d] \in RunningPcs => numbers[d] = d /\ name[d] = d

\* cmd_dump keeps its dumps apart: in time, and in what they were asked for.
DumpsApart == OneDump /\ OwnParameters

\* No thread reads the dump buffer after another one unmapped it.
BufferMapped == (\E d \in Dumps : tpc[d] = "capture") => mapped

\* While a capture is under way its drive is selected and turns: no other
\* thread, nor the end of an earlier dump, has let go of the bus.
DriveHeld ==
  \A d \in Dumps : tpc[d] = "capture" /\ ~Spy(d) =>
    DriveOf(d) \in selected /\ DriveOf(d) \in motor

\* A capture of readdisk has all it needs for as long as it lasts.
CaptureEquipped == BufferMapped /\ DriveHeld

\* "Floppy bus busy": two drives are never selected together.
OneSelected == Cardinality(selected) <= 1

\* When nothing is under way no drive is left selected and no motor on.
BusReleased ==
  spc = "idle" /\ (\A d \in Dumps : tpc[d] \in IdlePcs) =>
    selected = {} /\ motor = {}

\* The floppy bus is nobody's when idle and never two drives'.
BusKept == OneSelected /\ BusReleased

\* When "Current dump stopped !" is printed, no dump is still to be read.
StopEndsDump ==
  spc = "stopReply" => \A d \in Dumps : tpc[d] \in IdlePcs \cup EndPcs

\* The stop command is answered.
StopReturns == (spc = "stopping") ~> (spc = "idle")

\* A dump that was started gets to its end.
DumpEnds == \A d \in Dumps : (tpc[d] = "parse") ~> (tpc[d] = "gone")

\* Neither of the two threads that wait on each other's flags waits for ever,
\* by whichever of its exits readdisk leaves.
NobodyHangs == StopReturns /\ DumpEnds

=============================================================================
