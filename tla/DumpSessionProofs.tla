-------------------------- MODULE DumpSessionProofs --------------------------
(***************************************************************************)
(* Theorems about DumpSession with patient clients: for every set of       *)
(* drives, any number of dump commands and any number of captures.         *)
(***************************************************************************)
EXTENDS DumpSession, FiniteSetTheorems, TLAPS

Alive(d) == tpc[d] \notin IdlePcs

\* The steps at which a thread that does not spy holds the motor line, and
\* those at which it holds the select line of its drive.
SelectPcs == {"seek", "units", "capture", "free", "clear", "deselect",
              "failSelect"}
MotorPcs  == SelectPcs \cup {"select", "motorOff", "failMotor"}

\* The steps a thread takes only when it does not spy.
BusPcs == {"folder", "motor", "select", "seek", "failSelect", "failMotor",
           "failClear", "deselect", "motorOff"}

HoldsSelect(d) == tpc[d] \in SelectPcs /\ ~Spy(d)
HoldsMotor(d)  == tpc[d] \in MotorPcs /\ ~Spy(d)

\* One thread at most is alive, and dump_running is its flag.
SingleInv ==
  /\ \A c, d \in Dumps : Alive(c) /\ Alive(d) => c = d
  /\ \A d \in Dumps : tpc[d] \in RunningPcs => dumpRunning
  /\ dumpRunning => \E d \in Dumps : tpc[d] \in RunningPcs
  /\ \A d \in Dumps : Alive(d) => d <= issued
  /\ \A d \in Dumps : tpc[d] = "capture" => unit[d] # Units

\* The text of the command stays what it was until its thread has read it.
ParameterInv ==
  /\ \A d \in Dumps : tpc[d] \in StartPcs => cmdline = d
  /\ \A d \in Dumps : tpc[d] \notin {"none", "parse"} => numbers[d] = d
  /\ \A d \in Dumps : tpc[d] \notin {"none", "parse", "name"} => name[d] = d
  /\ \A d \in Dumps :
       tpc[d] \in RunningPcs \ {"drive"} => dumpDrive = DriveOf(d)
  /\ \A d \in Dumps : tpc[d] \in BusPcs => ~Spy(d)

\* While the script thread is in a command no dump starts; while it moves a
\* head, the dump that runs is of the same drive.
ScriptInv ==
  /\ spc # "idle" => \A d \in Dumps : tpc[d] \notin StartPcs \cup {"drive"}
  /\ spc \in {"stopReply", "release"} =>
       \A d \in Dumps : tpc[d] \notin RunningPcs
  /\ spc \in {"tested", "stepping"} =>
       \A d \in Dumps : Alive(d) =>
         /\ tpc[d] \in ReadPcs \cup EndPcs
         /\ ~Spy(d) /\ DriveOf(d) = sdrive
  /\ spc = "release" =>
       \A d \in Dumps : Alive(d) => ~Spy(d) /\ DriveOf(d) = sdrive
  /\ spc = "recalibrating" => \A d \in Dumps : ~Alive(d)

\* The lines of the bus are held by the thread that is alive and by the
\* command that moves a head, and by nobody else.
BusInv ==
  /\ \A d \in Dumps : HoldsMotor(d) => DriveOf(d) \in motor
  /\ \A d \in Dumps : HoldsSelect(d) /\ tpc[d] # "deselect" =>
       DriveOf(d) \in selected
  /\ \A m \in motor : \E d \in Dumps : HoldsMotor(d) /\ m = DriveOf(d)
  /\ \A s \in selected :
       \/ \E d \in Dumps : HoldsSelect(d) /\ s = DriveOf(d)
       \/ spc \in {"stepping", "recalibrating", "release"} /\ s = sdrive

IInv ==
  /\ TypeOK /\ SingleInv /\ ParameterInv /\ ScriptInv /\ BufferMapped
  /\ BusInv

-----------------------------------------------------------------------------
\* The initial state.
LEMMA InitIInv == Init => IInv
<1> SUFFICES ASSUME Init PROVE IInv
  OBVIOUS
<1> USE SessionAssumption DEF Init
<1>1. TypeOK
  <2>1. /\ cmdline \in 0 .. MaxDumps /\ issued \in 0 .. MaxDumps
        /\ unit \in [Dumps -> 0 .. Units]
    OBVIOUS
  <2>2. /\ numbers \in [Dumps -> Dumps] /\ name \in [Dumps -> Dumps]
        /\ tpc \in [Dumps -> Pcs] /\ hung \subseteq Dumps
        /\ order \in [Dumps -> [drive : Drives, spy : BOOLEAN]]
    BY DEF Pcs, IdlePcs
  <2>3. /\ dumpRunning \in BOOLEAN /\ stopProcess \in BOOLEAN
        /\ mapped \in BOOLEAN
    OBVIOUS
  <2> QED
    BY <2>1, <2>2, <2>3 DEF TypeOK
<1>2. \A d \in Dumps : tpc[d] = "none"
  OBVIOUS
<1>3. SingleInv /\ ParameterInv /\ ScriptInv /\ BufferMapped
  BY <1>2 DEF SingleInv, ParameterInv, ScriptInv, BufferMapped, Alive, IdlePcs,
     RunningPcs, StartPcs, BusPcs
<1>4. BusInv
  BY <1>2 DEF BusInv, HoldsMotor, HoldsSelect, SelectPcs, MotorPcs
<1> QED
  BY <1>1, <1>3, <1>4 DEF IInv

\* A step of the only thread that is alive.
LEMMA ThreadStep ==
  ASSUME Patient, IInv, NEW d \in Dumps, DumpThread(d)
  PROVE  IInv'
<1> USE SessionAssumption DEF IInv, shared, bus, script, threads, Goto,
        Alive, IdlePcs, RunningPcs, StartPcs, EndPcs, ReadPcs, BusPcs
<1>a. Alive(d)
  BY DEF Alive, IdlePcs, DumpThread, ParseNumbers, ParseName, SetRunning,
     SetDrive, PrepareFolder, MotorOn, SelectDrive, Seek, FailDeselect,
     FailMotorOff, FailClear, NextUnit, EndUnit, FreeBuffer, ClearRunning,
     DeselectDrive, MotorOff
<1>b. \A c \in Dumps : Alive(c) => c = d
  BY <1>a DEF SingleInv
<1>c. d \in Nat
  BY DEF Dumps
<1>d. DriveOf(d) \in Drives
  BY DEF TypeOK, DriveOf
<1>0. /\ Alive(d) /\ \A c \in Dumps : Alive(c) => c = d
      /\ d \in Nat /\ DriveOf(d) \in Drives
  BY <1>a, <1>b, <1>c, <1>d
<1>1. CASE ParseNumbers(d)
  <2> USE <1>0, <1>1 DEF ParseNumbers
  <2>1. TypeOK'
    BY DEF TypeOK, Pcs, SingleInv, ParameterInv
  <2>2. SingleInv'
    BY DEF TypeOK, SingleInv
  <2>3. ParameterInv'
    BY DEF TypeOK, SingleInv, ParameterInv, DriveOf, Spy
  <2>4. ScriptInv'
    BY DEF TypeOK, SingleInv, ParameterInv, ScriptInv, DriveOf, Spy
  <2>5. BufferMapped'
    BY DEF TypeOK, SingleInv, BufferMapped
  <2>6. BusInv'
    BY DEF TypeOK, SingleInv, ParameterInv, ScriptInv, BusInv, HoldsSelect,
       HoldsMotor, SelectPcs, MotorPcs, DriveOf, Spy
  <2> QED
    BY <2>1, <2>2, <2>3, <2>4, <2>5, <2>6
<1>2. CASE ParseName(d)
  <2> USE <1>0, <1>2 DEF ParseName
  <2>1. TypeOK'
    BY DEF TypeOK, Pcs, SingleInv, ParameterInv
  <2>2. SingleInv'
    BY DEF TypeOK, SingleInv
  <2>3. ParameterInv'
    BY DEF TypeOK, SingleInv, ParameterInv, DriveOf, Spy
  <2>4. ScriptInv'
    BY DEF TypeOK, SingleInv, ParameterInv, ScriptInv, DriveOf, Spy
  <2>5. BufferMapped'
    BY DEF TypeOK, SingleInv, BufferMapped
  <2>6. BusInv'
    BY DEF TypeOK, SingleInv, ParameterInv, ScriptInv, BusInv, HoldsSelect,
       HoldsMotor, SelectPcs, MotorPcs, DriveOf, Spy
  <2> QED
    BY <2>1, <2>2, <2>3, <2>4, <2>5, <2>6
<1>3. CASE SetRunning(d)
  <2> USE <1>0, <1>3 DEF SetRunning
  <2>1. TypeOK'
    BY DEF TypeOK, Pcs, SingleInv, ParameterInv
  <2>2. SingleInv'
    BY DEF TypeOK, SingleInv
  <2>3. ParameterInv'
    BY DEF TypeOK, SingleInv, ParameterInv, DriveOf, Spy
  <2>4. ScriptInv'
    BY DEF TypeOK, SingleInv, ParameterInv, ScriptInv, DriveOf, Spy
  <2>5. BufferMapped'
    BY DEF TypeOK, SingleInv, BufferMapped
  <2>6. BusInv'
    BY DEF TypeOK, SingleInv, ParameterInv, ScriptInv, BusInv, HoldsSelect,
       HoldsMotor, SelectPcs, MotorPcs, DriveOf, Spy
  <2> QED
    BY <2>1, <2>2, <2>3, <2>4, <2>5, <2>6
<1>4. CASE SetDrive(d)
  <2> USE <1>0, <1>4 DEF SetDrive
  <2>1. TypeOK'
    BY DEF TypeOK, Pcs, SingleInv, ParameterInv
  <2>2. SingleInv'
    BY DEF TypeOK, SingleInv
  <2>3. ParameterInv'
    BY DEF TypeOK, SingleInv, ParameterInv, DriveOf, Spy
  <2>4. ScriptInv'
    BY DEF TypeOK, SingleInv, ParameterInv, ScriptInv, DriveOf, Spy
  <2>5. BufferMapped'
    BY DEF TypeOK, SingleInv, BufferMapped
  <2>6. BusInv'
    BY DEF TypeOK, SingleInv, ParameterInv, ScriptInv, BusInv, HoldsSelect,
       HoldsMotor, SelectPcs, MotorPcs, DriveOf, Spy
  <2> QED
    BY <2>1, <2>2, <2>3, <2>4, <2>5, <2>6
<1>5. CASE PrepareFolder(d)
  <2> USE <1>0, <1>5 DEF PrepareFolder
  <2>1. TypeOK'
    BY DEF TypeOK, Pcs, SingleInv, ParameterInv
  <2>2. SingleInv'
    BY DEF TypeOK, SingleInv
  <2>3. ParameterInv'
    BY DEF TypeOK, SingleInv, ParameterInv, DriveOf, Spy
  <2>4. ScriptInv'
    BY DEF TypeOK, SingleInv, ParameterInv, ScriptInv, DriveOf, Spy
  <2>5. BufferMapped'
    BY DEF TypeOK, SingleInv, BufferMapped
  <2>6. BusInv'
    BY DEF TypeOK, SingleInv, ParameterInv, ScriptInv, BusInv, HoldsSelect,
       HoldsMotor, SelectPcs, MotorPcs, DriveOf, Spy
  <2> QED
    BY <2>1, <2>2, <2>3, <2>4, <2>5, <2>6
<1>6. CASE MotorOn(d)
  <2> USE <1>0, <1>6 DEF MotorOn
  <2>1. TypeOK'
    BY DEF TypeOK, Pcs, SingleInv, ParameterInv
  <2>2. SingleInv'
    BY DEF TypeOK, SingleInv
  <2>3. ParameterInv'
    BY DEF TypeOK, SingleInv, ParameterInv, DriveOf, Spy
  <2>4. ScriptInv'
    BY DEF TypeOK, SingleInv, ParameterInv, ScriptInv, DriveOf, Spy
  <2>5. BufferMapped'
    BY DEF TypeOK, SingleInv, BufferMapped
  <2>6. BusInv'
    BY DEF TypeOK, SingleInv, ParameterInv, ScriptInv, BusInv, HoldsSelect,
       HoldsMotor, SelectPcs, MotorPcs, DriveOf, Spy
  <2> QED
    BY <2>1, <2>2, <2>3, <2>4, <2>5, <2>6
<1>7. CASE SelectDrive(d)
  <2> USE <1>0, <1>7 DEF SelectDrive, Select
  <2>1. TypeOK'
    BY DEF TypeOK, Pcs, SingleInv, ParameterInv
  <2>2. SingleInv'
    BY DEF TypeOK, SingleInv
  <2>3. ParameterInv'
    BY DEF TypeOK, SingleInv, ParameterInv, DriveOf, Spy
  <2>4. ScriptInv'
    BY DEF TypeOK, SingleInv, ParameterInv, ScriptInv, DriveOf, Spy
  <2>5. BufferMapped'
    BY DEF TypeOK, SingleInv, BufferMapped
  <2>6. BusInv'
    BY DEF TypeOK, SingleInv, ParameterInv, ScriptInv, BusInv, HoldsSelect,
       HoldsMotor, SelectPcs, MotorPcs, DriveOf, Spy
  <2> QED
    BY <2>1, <2>2, <2>3, <2>4, <2>5, <2>6
<1>8. CASE Seek(d)
  <2> USE <1>0, <1>8 DEF Seek
  <2>1. TypeOK'
    BY DEF TypeOK, Pcs, SingleInv, ParameterInv
  <2>2. SingleInv'
    BY DEF TypeOK, SingleInv
  <2>3. ParameterInv'
    BY DEF TypeOK, SingleInv, ParameterInv, DriveOf, Spy
  <2>4. ScriptInv'
    BY DEF TypeOK, SingleInv, ParameterInv, ScriptInv, DriveOf, Spy
  <2>5. BufferMapped'
    BY DEF TypeOK, SingleInv, BufferMapped
  <2>6. BusInv'
    BY DEF TypeOK, SingleInv, ParameterInv, ScriptInv, BusInv, HoldsSelect,
       HoldsMotor, SelectPcs, MotorPcs, DriveOf, Spy
  <2> QED
    BY <2>1, <2>2, <2>3, <2>4, <2>5, <2>6
<1>9. CASE FailDeselect(d)
  <2> USE <1>0, <1>9 DEF FailDeselect, Deselect
  <2>1. TypeOK'
    BY DEF TypeOK, Pcs, SingleInv, ParameterInv
  <2>2. SingleInv'
    BY DEF TypeOK, SingleInv
  <2>3. ParameterInv'
    BY DEF TypeOK, SingleInv, ParameterInv, DriveOf, Spy
  <2>4. ScriptInv'
    BY DEF TypeOK, SingleInv, ParameterInv, ScriptInv, DriveOf, Spy
  <2>5. BufferMapped'
    BY DEF TypeOK, SingleInv, BufferMapped
  <2>6. BusInv'
    BY DEF TypeOK, SingleInv, ParameterInv, ScriptInv, BusInv, HoldsSelect,
       HoldsMotor, SelectPcs, MotorPcs, DriveOf, Spy
  <2> QED
    BY <2>1, <2>2, <2>3, <2>4, <2>5, <2>6
<1>10. CASE FailMotorOff(d)
  <2> USE <1>0, <1>10 DEF FailMotorOff
  <2>1. TypeOK'
    BY DEF TypeOK, Pcs, SingleInv, ParameterInv
  <2>2. SingleInv'
    BY DEF TypeOK, SingleInv
  <2>3. ParameterInv'
    BY DEF TypeOK, SingleInv, ParameterInv, DriveOf, Spy
  <2>4. ScriptInv'
    BY DEF TypeOK, SingleInv, ParameterInv, ScriptInv, DriveOf, Spy
  <2>5. BufferMapped'
    BY DEF TypeOK, SingleInv, BufferMapped
  <2>6. BusInv'
    BY DEF TypeOK, SingleInv, ParameterInv, ScriptInv, BusInv, HoldsSelect,
       HoldsMotor, SelectPcs, MotorPcs, DriveOf, Spy
  <2> QED
    BY <2>1, <2>2, <2>3, <2>4, <2>5, <2>6
<1>11. CASE FailClear(d)
  <2> USE <1>0, <1>11 DEF FailClear
  <2>1. TypeOK'
    BY DEF TypeOK, Pcs, SingleInv, ParameterInv
  <2>2. SingleInv'
    BY DEF TypeOK, SingleInv
  <2>3. ParameterInv'
    BY DEF TypeOK, SingleInv, ParameterInv, DriveOf, Spy
  <2>4. ScriptInv'
    BY DEF TypeOK, SingleInv, ParameterInv, ScriptInv, DriveOf, Spy
  <2>5. BufferMapped'
    BY DEF TypeOK, SingleInv, BufferMapped
  <2>6. BusInv'
    BY DEF TypeOK, SingleInv, ParameterInv, ScriptInv, BusInv, HoldsSelect,
       HoldsMotor, SelectPcs, MotorPcs, DriveOf, Spy
  <2> QED
    BY <2>1, <2>2, <2>3, <2>4, <2>5, <2>6
<1>12. CASE NextUnit(d)
  <2> USE <1>0, <1>12 DEF NextUnit
  <2>1. TypeOK'
    <3>1. mapped' \in BOOLEAN /\ hung' \subseteq Dumps
      BY DEF TypeOK
    <3>2. tpc' \in [Dumps -> Pcs]
      BY DEF TypeOK, Pcs, RunningPcs
    <3> QED
      BY <3>1, <3>2 DEF TypeOK
  <2>2. SingleInv'
    BY DEF TypeOK, SingleInv
  <2>3. ParameterInv'
    BY DEF TypeOK, SingleInv, ParameterInv, DriveOf, Spy
  <2>4. ScriptInv'
    BY DEF TypeOK, SingleInv, ParameterInv, ScriptInv, DriveOf, Spy
  <2>5. BufferMapped'
    BY DEF TypeOK, SingleInv, BufferMapped
  <2>6. BusInv'
    BY DEF TypeOK, SingleInv, ParameterInv, ScriptInv, BusInv, HoldsSelect,
       HoldsMotor, SelectPcs, MotorPcs, DriveOf, Spy
  <2> QED
    BY <2>1, <2>2, <2>3, <2>4, <2>5, <2>6
<1>13. CASE EndUnit(d)
  <2> USE <1>0, <1>13 DEF EndUnit
  <2>1. TypeOK'
    BY DEF TypeOK, Pcs, SingleInv, ParameterInv
  <2>2. SingleInv'
    BY DEF TypeOK, SingleInv
  <2>3. ParameterInv'
    BY DEF TypeOK, SingleInv, ParameterInv, DriveOf, Spy
  <2>4. ScriptInv'
    BY DEF TypeOK, SingleInv, ParameterInv, ScriptInv, DriveOf, Spy
  <2>5. BufferMapped'
    BY DEF TypeOK, SingleInv, BufferMapped
  <2>6. BusInv'
    BY DEF TypeOK, SingleInv, ParameterInv, ScriptInv, BusInv, HoldsSelect,
       HoldsMotor, SelectPcs, MotorPcs, DriveOf, Spy
  <2> QED
    BY <2>1, <2>2, <2>3, <2>4, <2>5, <2>6
<1>14. CASE FreeBuffer(d)
  <2> USE <1>0, <1>14 DEF FreeBuffer
  <2>1. TypeOK'
    BY DEF TypeOK, Pcs, SingleInv, ParameterInv
  <2>2. SingleInv'
    BY DEF TypeOK, SingleInv
  <2>3. ParameterInv'
    BY DEF TypeOK, SingleInv, ParameterInv, DriveOf, Spy
  <2>4. ScriptInv'
    BY DEF TypeOK, SingleInv, ParameterInv, ScriptInv, DriveOf, Spy
  <2>5. BufferMapped'
    BY DEF TypeOK, SingleInv, BufferMapped
  <2>6. BusInv'
    BY DEF TypeOK, SingleInv, ParameterInv, ScriptInv, BusInv, HoldsSelect,
       HoldsMotor, SelectPcs, MotorPcs, DriveOf, Spy
  <2> QED
    BY <2>1, <2>2, <2>3, <2>4, <2>5, <2>6
<1>15. CASE ClearRunning(d)
  <2> USE <1>0, <1>15 DEF ClearRunning
  <2>1. TypeOK'
    BY DEF TypeOK, Pcs, SingleInv, ParameterInv
  <2>2. SingleInv'
    BY DEF TypeOK, SingleInv
  <2>3. ParameterInv'
    BY DEF TypeOK, SingleInv, ParameterInv, DriveOf, Spy
  <2>4. ScriptInv'
    BY DEF TypeOK, SingleInv, ParameterInv, ScriptInv, DriveOf, Spy
  <2>5. BufferMapped'
    BY DEF TypeOK, SingleInv, BufferMapped
  <2>6. BusInv'
    BY DEF TypeOK, SingleInv, ParameterInv, ScriptInv, BusInv, HoldsSelect,
       HoldsMotor, SelectPcs, MotorPcs, DriveOf, Spy
  <2> QED
    BY <2>1, <2>2, <2>3, <2>4, <2>5, <2>6
<1>16. CASE DeselectDrive(d)
  <2> USE <1>0, <1>16 DEF DeselectDrive, Deselect
  <2>1. TypeOK'
    BY DEF TypeOK, Pcs, SingleInv, ParameterInv
  <2>2. SingleInv'
    BY DEF TypeOK, SingleInv
  <2>3. ParameterInv'
    BY DEF TypeOK, SingleInv, ParameterInv, DriveOf, Spy
  <2>4. ScriptInv'
    BY DEF TypeOK, SingleInv, ParameterInv, ScriptInv, DriveOf, Spy
  <2>5. BufferMapped'
    BY DEF TypeOK, SingleInv, BufferMapped
  <2>6. BusInv'
    BY DEF TypeOK, SingleInv, ParameterInv, ScriptInv, BusInv, HoldsSelect,
       HoldsMotor, SelectPcs, MotorPcs, DriveOf, Spy
  <2> QED
    BY <2>1, <2>2, <2>3, <2>4, <2>5, <2>6
<1>17. CASE MotorOff(d)
  <2> USE <1>0, <1>17 DEF MotorOff
  <2>1. TypeOK'
    BY DEF TypeOK, Pcs, SingleInv, ParameterInv
  <2>2. SingleInv'
    BY DEF TypeOK, SingleInv
  <2>3. ParameterInv'
    BY DEF TypeOK, SingleInv, ParameterInv, DriveOf, Spy
  <2>4. ScriptInv'
    BY DEF TypeOK, SingleInv, ParameterInv, ScriptInv, DriveOf, Spy
  <2>5. BufferMapped'
    BY DEF TypeOK, SingleInv, BufferMapped
  <2>6. BusInv'
    BY DEF TypeOK, SingleInv, ParameterInv, ScriptInv, BusInv, HoldsSelect,
       HoldsMotor, SelectPcs, MotorPcs, DriveOf, Spy
  <2> QED
    BY <2>1, <2>2, <2>3, <2>4, <2>5, <2>6
<1> QED
  BY <1>1, <1>2, <1>3, <1>4, <1>5, <1>6, <1>7, <1>8, <1>9, <1>10, <1>11,
     <1>12, <1>13, <1>14, <1>15, <1>16, <1>17
     DEF DumpThread

\* A step of the script thread, commands included.
LEMMA ScriptThreadStep ==
  ASSUME Patient, IInv, Command \/ ScriptStep
  PROVE  IInv'
<1> USE SessionAssumption DEF IInv, shared, bus, script, threads, Goto,
        Alive, IdlePcs, RunningPcs, StartPcs, EndPcs, ReadPcs, BusPcs
<1>1. CASE CmdDump
  <2> USE <1>1 DEF CmdDump, MaySend
  <2> DEFINE new == issued + 1
  <2>1. \A d \in Dumps : ~Alive(d)
    BY DEF TypeOK, SingleInv, Pcs, Alive
  <2>2. new \in Dumps /\ new \in Nat /\ issued \in Nat
    BY DEF TypeOK, Dumps
  <2>3. \A d \in Dumps : d # new => tpc'[d] = tpc[d]
    BY DEF TypeOK
  <2>4. tpc'[new] = "parse" \/ tpc'[new] = tpc[new]
    BY <2>2 DEF TypeOK
  <2>5. \A d \in Dumps : tpc'[d] \in IdlePcs \/ (d = new /\ tpc'[d] = "parse")
    BY <2>1, <2>2, <2>3, <2>4 DEF Alive
  <2>6. \A d \in Dumps : d # new => order'[d] = order[d]
    BY DEF TypeOK
  <2>7. TypeOK'
    <3>1. order' \in [Dumps -> [drive : Drives, spy : BOOLEAN]]
      BY <2>2 DEF TypeOK
    <3>2. tpc' \in [Dumps -> Pcs]
      BY <2>2 DEF TypeOK, Pcs, StartPcs
    <3>3. issued' \in 0 .. MaxDumps /\ cmdline' \in 0 .. MaxDumps
      BY <2>2 DEF Dumps
    <3> QED
      BY <3>1, <3>2, <3>3 DEF TypeOK
  <2>8. SingleInv'
    BY <2>2, <2>5 DEF SingleInv, Alive, IdlePcs, RunningPcs, Dumps
  <2>9. ParameterInv'
    <3>1. \A d \in Dumps : tpc'[d] \in StartPcs => cmdline' = d
      BY <2>5 DEF IdlePcs, StartPcs
    <3>2. \A d \in Dumps : tpc'[d] \notin {"none", "parse"} =>
            numbers'[d] = d /\ name'[d] = d
      BY <2>3, <2>4, <2>5 DEF ParameterInv, IdlePcs
    <3>3. \A d \in Dumps : tpc'[d] \notin RunningPcs /\ tpc'[d] \notin BusPcs
      BY <2>5 DEF IdlePcs, RunningPcs, BusPcs
    <3> QED
      BY <3>1, <3>2, <3>3 DEF ParameterInv
  <2>10. ScriptInv'
    BY DEF ScriptInv
  <2>11. BufferMapped'
    BY <2>5 DEF BufferMapped, IdlePcs
  <2>12. BusInv'
    <3>1. \A d \in Dumps : tpc[d] \notin MotorPcs /\ tpc'[d] \notin MotorPcs
      BY <2>1, <2>5 DEF Alive, IdlePcs, MotorPcs, SelectPcs
    <3>2. motor = {} /\ selected = {}
      BY <3>1 DEF BusInv, HoldsMotor, HoldsSelect, MotorPcs
    <3> QED
      BY <3>1, <3>2 DEF BusInv, HoldsMotor, HoldsSelect, MotorPcs
  <2> QED
    BY <2>7, <2>8, <2>9, <2>10, <2>11, <2>12
<1>2. CASE CmdStop
  <2> USE <1>2 DEF CmdStop, MaySend
  <2>1. TypeOK'
    BY DEF TypeOK, Pcs, SingleInv, Dumps
  <2>2. SingleInv'
    BY DEF TypeOK, SingleInv, Dumps
  <2>3. ParameterInv'
    BY DEF TypeOK, SingleInv, ParameterInv, DriveOf, Spy, Dumps
  <2>4. ScriptInv'
    BY DEF TypeOK, SingleInv, ParameterInv, ScriptInv, DriveOf, Spy
  <2>5. BufferMapped'
    BY DEF TypeOK, SingleInv, BufferMapped
  <2>6. BusInv'
    BY DEF TypeOK, SingleInv, ParameterInv, ScriptInv, BusInv, HoldsSelect,
       HoldsMotor, SelectPcs, MotorPcs, DriveOf, Spy
  <2> QED
    BY <2>1, <2>2, <2>3, <2>4, <2>5, <2>6
<1>3. CASE CmdReset
  <2> USE <1>3 DEF CmdReset, MaySend
  <2>1. TypeOK'
    BY DEF TypeOK, Pcs, SingleInv, Dumps
  <2>2. SingleInv'
    BY DEF TypeOK, SingleInv, Dumps
  <2>3. ParameterInv'
    BY DEF TypeOK, SingleInv, ParameterInv, DriveOf, Spy, Dumps
  <2>4. ScriptInv'
    BY DEF TypeOK, SingleInv, ParameterInv, ScriptInv, DriveOf, Spy
  <2>5. BufferMapped'
    BY DEF TypeOK, SingleInv, BufferMapped
  <2>6. BusInv'
    BY DEF TypeOK, SingleInv, ParameterInv, ScriptInv, BusInv, HoldsSelect,
       HoldsMotor, SelectPcs, MotorPcs, DriveOf, Spy
  <2> QED
    BY <2>1, <2>2, <2>3, <2>4, <2>5, <2>6
<1>4. CASE StopSeen
  <2> USE <1>4 DEF StopSeen
  <2>1. TypeOK'
    BY DEF TypeOK, Pcs, SingleInv, Dumps
  <2>2. SingleInv'
    BY DEF TypeOK, SingleInv, Dumps
  <2>3. ParameterInv'
    BY DEF TypeOK, SingleInv, ParameterInv, DriveOf, Spy, Dumps
  <2>4. ScriptInv'
    BY DEF TypeOK, SingleInv, ParameterInv, ScriptInv, DriveOf, Spy
  <2>5. BufferMapped'
    BY DEF TypeOK, SingleInv, BufferMapped
  <2>6. BusInv'
    BY DEF TypeOK, SingleInv, ParameterInv, ScriptInv, BusInv, HoldsSelect,
       HoldsMotor, SelectPcs, MotorPcs, DriveOf, Spy
  <2> QED
    BY <2>1, <2>2, <2>3, <2>4, <2>5, <2>6
<1>5. CASE StopReply
  <2> USE <1>5 DEF StopReply
  <2>1. TypeOK'
    BY DEF TypeOK, Pcs, SingleInv, Dumps
  <2>2. SingleInv'
    BY DEF TypeOK, SingleInv, Dumps
  <2>3. ParameterInv'
    BY DEF TypeOK, SingleInv, ParameterInv, DriveOf, Spy, Dumps
  <2>4. ScriptInv'
    BY DEF TypeOK, SingleInv, ParameterInv, ScriptInv, DriveOf, Spy
  <2>5. BufferMapped'
    BY DEF TypeOK, SingleInv, BufferMapped
  <2>6. BusInv'
    BY DEF TypeOK, SingleInv, ParameterInv, ScriptInv, BusInv, HoldsSelect,
       HoldsMotor, SelectPcs, MotorPcs, DriveOf, Spy
  <2> QED
    BY <2>1, <2>2, <2>3, <2>4, <2>5, <2>6
<1>6. CASE HeadMoved
  <2> USE <1>6 DEF HeadMoved
  <2>1. TypeOK'
    BY DEF TypeOK, Pcs, SingleInv, Dumps
  <2>2. SingleInv'
    BY DEF TypeOK, SingleInv, Dumps
  <2>3. ParameterInv'
    BY DEF TypeOK, SingleInv, ParameterInv, DriveOf, Spy, Dumps
  <2>4. ScriptInv'
    BY DEF TypeOK, SingleInv, ParameterInv, ScriptInv, DriveOf, Spy
  <2>5. BufferMapped'
    BY DEF TypeOK, SingleInv, BufferMapped
  <2>6. BusInv'
    BY DEF TypeOK, SingleInv, ParameterInv, ScriptInv, BusInv, HoldsSelect,
       HoldsMotor, SelectPcs, MotorPcs, DriveOf, Spy
  <2> QED
    BY <2>1, <2>2, <2>3, <2>4, <2>5, <2>6
<1>7. CASE RecalibrationFailed
  <2> USE <1>7 DEF RecalibrationFailed
  <2>1. TypeOK'
    BY DEF TypeOK, Pcs, SingleInv, Dumps
  <2>2. SingleInv'
    BY DEF TypeOK, SingleInv, Dumps
  <2>3. ParameterInv'
    BY DEF TypeOK, SingleInv, ParameterInv, DriveOf, Spy, Dumps
  <2>4. ScriptInv'
    BY DEF TypeOK, SingleInv, ParameterInv, ScriptInv, DriveOf, Spy
  <2>5. BufferMapped'
    BY DEF TypeOK, SingleInv, BufferMapped
  <2>6. BusInv'
    BY DEF TypeOK, SingleInv, ParameterInv, ScriptInv, BusInv, HoldsSelect,
       HoldsMotor, SelectPcs, MotorPcs, DriveOf, Spy
  <2> QED
    BY <2>1, <2>2, <2>3, <2>4, <2>5, <2>6
<1>8. CASE Release
  <2> USE <1>8 DEF Release, Deselect
  <2>1. TypeOK'
    BY DEF TypeOK, Pcs, SingleInv, Dumps
  <2>2. SingleInv'
    BY DEF TypeOK, SingleInv, Dumps
  <2>3. ParameterInv'
    BY DEF TypeOK, SingleInv, ParameterInv, DriveOf, Spy, Dumps
  <2>4. ScriptInv'
    BY DEF TypeOK, SingleInv, ParameterInv, ScriptInv, DriveOf, Spy
  <2>5. BufferMapped'
    BY DEF TypeOK, SingleInv, BufferMapped
  <2>6. BusInv'
    BY DEF TypeOK, SingleInv, ParameterInv, ScriptInv, BusInv, HoldsSelect,
       HoldsMotor, SelectPcs, MotorPcs, DriveOf, Spy
  <2> QED
    BY <2>1, <2>2, <2>3, <2>4, <2>5, <2>6
<1>9. ASSUME NEW drive \in Drives, CmdHeadstep(drive) PROVE IInv'
  <2> USE <1>9 DEF CmdHeadstep, MaySend
  <2>1. TypeOK'
    BY DEF TypeOK, Pcs, SingleInv, Dumps
  <2>2. SingleInv'
    BY DEF TypeOK, SingleInv, Dumps
  <2>3. ParameterInv'
    BY DEF TypeOK, SingleInv, ParameterInv, DriveOf, Spy, Dumps
  <2>4. ScriptInv'
    <3>1. \A d \in Dumps : Alive(d) => tpc[d] \in ReadPcs /\ ~Spy(d)
      BY DEF TypeOK, Pcs, Alive
    <3>2. \A d \in Dumps : Alive(d) => DriveOf(d) = drive
      BY <3>1 DEF SingleInv, ParameterInv, ReadPcs, RunningPcs
    <3>3. \A d \in Dumps : tpc[d] \notin StartPcs \cup {"drive"}
      OBVIOUS
    <3> QED
      BY <3>1, <3>2, <3>3 DEF ScriptInv, Alive, DriveOf, Spy
  <2>5. BufferMapped'
    BY DEF TypeOK, SingleInv, BufferMapped
  <2>6. BusInv'
    BY DEF TypeOK, SingleInv, ParameterInv, ScriptInv, BusInv, HoldsSelect,
       HoldsMotor, SelectPcs, MotorPcs, DriveOf, Spy
  <2> QED
    BY <2>1, <2>2, <2>3, <2>4, <2>5, <2>6
<1>10. ASSUME NEW drive \in Drives, CmdRecalibrate(drive) PROVE IInv'
  <2> USE <1>10 DEF CmdRecalibrate, Select, MaySend
  <2>1. TypeOK'
    BY DEF TypeOK, Pcs, SingleInv, Dumps
  <2>2. SingleInv'
    BY DEF TypeOK, SingleInv, Dumps
  <2>3. ParameterInv'
    BY DEF TypeOK, SingleInv, ParameterInv, DriveOf, Spy, Dumps
  <2>4. ScriptInv'
    BY DEF TypeOK, SingleInv, ParameterInv, ScriptInv, DriveOf, Spy
  <2>5. BufferMapped'
    BY DEF TypeOK, SingleInv, BufferMapped
  <2>6. BusInv'
    BY DEF TypeOK, SingleInv, ParameterInv, ScriptInv, BusInv, HoldsSelect,
       HoldsMotor, SelectPcs, MotorPcs, DriveOf, Spy
  <2> QED
    BY <2>1, <2>2, <2>3, <2>4, <2>5, <2>6
<1>11. CASE SelectStep
  <2> USE <1>11 DEF SelectStep, Select
  <2>1. TypeOK'
    BY DEF TypeOK, Pcs, SingleInv, Dumps
  <2>2. SingleInv'
    BY DEF TypeOK, SingleInv, Dumps
  <2>3. ParameterInv'
    BY DEF TypeOK, SingleInv, ParameterInv, DriveOf, Spy, Dumps
  <2>4. ScriptInv'
    BY DEF TypeOK, SingleInv, ParameterInv, ScriptInv, DriveOf, Spy
  <2>5. BufferMapped'
    BY DEF TypeOK, SingleInv, BufferMapped
  <2>6. BusInv'
    BY DEF TypeOK, SingleInv, ParameterInv, ScriptInv, BusInv, HoldsSelect,
       HoldsMotor, SelectPcs, MotorPcs, DriveOf, Spy
  <2> QED
    BY <2>1, <2>2, <2>3, <2>4, <2>5, <2>6
<1> QED
  BY <1>1, <1>2, <1>3, <1>4, <1>5, <1>6, <1>7, <1>8, <1>9, <1>10, <1>11
     DEF Command, ScriptStep

LEMMA StepIInv == Patient /\ IInv /\ [Next]_vars => IInv'
<1> SUFFICES ASSUME Patient, IInv, [Next]_vars PROVE IInv'
  OBVIOUS
<1>1. CASE UNCHANGED vars
  BY <1>1 DEF vars, shared, bus, script, threads, IInv, TypeOK, SingleInv,
     ParameterInv, ScriptInv, BufferMapped, BusInv, Alive, HoldsSelect,
     HoldsMotor, DriveOf, Spy
<1> QED
  BY <1>1, ThreadStep, ScriptThreadStep DEF Next

-----------------------------------------------------------------------------
\* The invariant holds in every state: whichever thread holds the flag, the
\* buffer and the bus, the others have let go of them.
THEOREM IInvCorrect == ASSUME Patient PROVE Spec => []IInv
<1>1. IInv /\ [Next]_vars => IInv'
  BY StepIInv
<1> QED
  BY <1>1, InitIInv, PTL DEF Spec

\* Every variable stays in its type.
THEOREM TypeCorrect == ASSUME Patient PROVE Spec => []TypeOK
<1>1. IInv => TypeOK
  BY DEF IInv
<1> QED
  BY <1>1, IInvCorrect, PTL

\* Patient clients never have two dumps running, and every dump runs with the
\* parameters of its own command.
THEOREM DumpsApartCorrect == ASSUME Patient PROVE Spec => []DumpsApart
<1>1. IInv => DumpsApart
  BY DEF IInv, SingleInv, ParameterInv, OneDump, OwnParameters, Alive, IdlePcs,
     RunningPcs, DumpsApart
<1> QED
  BY <1>1, IInvCorrect, PTL

\* A capture has its buffer mapped, its drive selected and its motor on until
\* it ends, whatever the script thread and earlier dumps do.
THEOREM CaptureEquippedCorrect == ASSUME Patient PROVE Spec => []CaptureEquipped
<1>1. IInv => BufferMapped /\ DriveHeld
  BY DEF IInv, BusInv, DriveHeld, HoldsSelect, HoldsMotor, SelectPcs, MotorPcs
<1>2. IInv => CaptureEquipped
  BY <1>1 DEF CaptureEquipped
<1> QED
  BY <1>2, IInvCorrect, PTL

\* When everything is quiet the bus is: no select line, no motor line.
THEOREM BusReleasedCorrect == ASSUME Patient PROVE Spec => []BusReleased
<1>1. IInv => BusReleased
  BY DEF IInv, BusInv, BusReleased, HoldsSelect, HoldsMotor, SelectPcs, MotorPcs,
     IdlePcs
<1> QED
  BY <1>1, IInvCorrect, PTL

\* Two drives are never selected together.
THEOREM OneSelectedCorrect == ASSUME Patient PROVE Spec => []OneSelected
<1>1. ASSUME IInv PROVE OneSelected
  <2>1. \A s, r \in selected : s = r
    BY <1>1 DEF IInv, SingleInv, ScriptInv, BusInv, HoldsSelect, SelectPcs,
       Alive, IdlePcs
  <2>2. selected = {} \/ \E s \in selected : selected = {s}
    BY <2>1
  <2>3. CASE selected = {}
    BY <2>3, FS_EmptySet DEF OneSelected
  <2>4. ASSUME NEW s \in selected, selected = {s} PROVE OneSelected
    <3>1. Cardinality({s}) = 1
      BY FS_Singleton
    <3> QED
      BY <2>4, <3>1 DEF OneSelected
  <2> QED
    BY <2>2, <2>3, <2>4
<1> QED
  BY <1>1, IInvCorrect, PTL

\* The floppy bus is nobody's when idle and never two drives'.
THEOREM BusKeptCorrect == ASSUME Patient PROVE Spec => []BusKept
<1>1. OneSelected /\ BusReleased => BusKept
  BY DEF BusKept
<1> QED
  BY <1>1, OneSelectedCorrect, BusReleasedCorrect, PTL

\* When "Current dump stopped !" is printed to patient clients, no dump is
\* still to be read.
THEOREM StopEndsDumpCorrect == ASSUME Patient PROVE Spec => []StopEndsDump
<1>1. IInv => StopEndsDump
  BY DEF IInv, TypeOK, ScriptInv, StopEndsDump, Pcs
<1> QED
  BY <1>1, IInvCorrect, PTL

=============================================================================
