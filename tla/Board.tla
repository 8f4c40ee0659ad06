-------------------------------- MODULE Board --------------------------------
(***************************************************************************)
(* The registers of the FPGA as the program's threads write them: fpga.c   *)
(* and ios.c.  A pin, a line or a setting is a few bits of a register that *)
(* holds others too, so a write is a load, a change and a store; the mutex *)
(* io_fpga_mutex makes most of them one step, and setio, set_io_name,      *)
(* reset_fpga and the multiplexer of a Macintosh drive go without it.      *)
(*                                                                         *)
(* A call is the sequence of its accesses, one action each.  Three threads *)
(* issue calls: "script", which executes the clients' commands, "dump",    *)
(* which reads a disk, and "tool", the one thread of another pauline       *)
(* process, run from a shell, which has the registers in common with them  *)
(* and a mutex of its own.  The memory of the emulated drives' images is   *)
(* written the same way.  Delays, the sound generator and registers no     *)
(* call changes twice are left out.                                        *)
(***************************************************************************)
EXTENDS Integers, Sequences, FiniteSets

CONSTANTS
  Drives,     \* the drives, numbers from 0 to 3
  Line,       \* the outputs of a drive, by use: "select", "motor", "headload"
              \* and "option" (X68000), each in [Drives -> names]
  Modes,      \* values of DRIVES_INTERFACE_MODE the clients set ("UNKNOWN": no mode)
  Calls,      \* [{"script", "tool"} -> [Modes -> calls issued in that mode]]
  Dumps,      \* [Modes -> drives the clients dump in that mode]
  Tracks,     \* tracks of a disk image in memory, numbers from 0
  Reload,     \* whether an image is loaded into a drive that has one
  Files,      \* image files: [id, tracks, read, sound], see LoadStreamHfe
  Overlap,    \* whether a Macintosh drive's head is moved, or its disk ejected,
              \* while a dump runs
  MaxCalls    \* bound: calls issued

ASSUME BoardAssumption ==
  /\ Drives \subseteq 0..3 /\ MaxCalls \in Nat /\ Tracks \subseteq Nat
  /\ Dumps \in [Modes -> SUBSET Drives] /\ {Reload, Overlap} \subseteq BOOLEAN
  /\ Modes \subseteq {"GENERIC", "APPLE_II", "APPLE_MACINTOSH", "UNKNOWN"}
  /\ \A f \in Files : f.tracks \in Nat /\ f.read \in 0 .. f.tracks

VARIABLES
  reg,     \* the registers: [Registers -> [fields -> values]]
  wanted,  \* history: what the registers would hold had every write been one step
  type,    \* drive_type of each process, the same for all drives
  mode,    \* DRIVES_INTERFACE_MODE
  apple,   \* ENABLE_APPLE_MODE > 0
  gcr,     \* MACINTOSH_GCR_MODE
  mutex,   \* io_fpga_mutex of each process: who holds it, or "none"
  todo,    \* the accesses left to each thread
  loaded,  \* the value a thread is changing
  dumping, \* the drive and side of the dump that runs
  issued   \* counts the calls

boardVars == <<reg, wanted, type, mode, apple, gcr, mutex, todo, loaded, dumping,
               issued>>

Threads    == {"script", "dump", "tool"}
Process(t) == IF t = "tool" THEN "tool" ELSE "server"
None       == <<>>

-----------------------------------------------------------------------------
(* Registers and names                                                     *)

a :> b == [x \in {a} |-> b]
f @@ g == [x \in DOMAIN f \cup DOMAIN g |-> IF x \in DOMAIN f THEN f[x] ELSE g[x]]

Control    == <<"control_reg", 0>>
FloppyCtrl == <<"floppy_ctrl_control", 0>>
ExtraOut   == <<"gpio_extra_out", 0>>
Gpio       == <<"gpio_reg", 0>>
GpioOe     == <<"gpio_oe_reg", 0>>
Mux        == <<"dump_in_mux_sel_19_16", 0>>
Polarity   == <<"out_signal_polarity_reg", 0>>
Config(d)  == <<"drive_config", d>>
Image(d)   == <<"disk_image", d>>

\* Fields are numbered by their lowest bit.
Fields ==
  (Control    :> (0..3 \cup {4, 15, 29})) @@
  (FloppyCtrl :> (0..5 \cup 20..23)) @@
  (ExtraOut   :> 0..8) @@ (Gpio :> 0..6) @@ (GpioOe :> 2..5) @@
  (Mux        :> {16, 24}) @@ (Polarity :> {16}) @@
  [r \in {Config(d) : d \in Drives} |-> {0, 4, 12, 13, 16, 20, 25, 27, 28}] @@
  [r \in {Image(d) : d \in Drives} |-> Tracks]

\* The outputs of ios_definition: the names of one pin, its register and bit.
Pins == {
  << {"DS0", "MOTEA", "PIN10", "MOTON_TWISTED_RIBBON", "MOTEB_TWISTED_RIBBON",
      "PIN16_TWISTED_RIBBON"}, FloppyCtrl, 0 >>,
  << {"DS1", "DRVSB", "PIN12", "DS2_TWISTED_RIBBON", "DRVSA_TWISTED_RIBBON",
      "PIN14_TWISTED_RIBBON"}, FloppyCtrl, 1 >>,
  << {"DS2", "DRVSA", "PIN14", "DS1_TWISTED_RIBBON", "DRVSB_TWISTED_RIBBON",
      "PIN12_TWISTED_RIBBON"}, FloppyCtrl, 2 >>,
  << {"DS3", "PIN6"}, FloppyCtrl, 3 >>,
  << {"MOTON", "MOTEB", "PIN16", "DS0_TWISTED_RIBBON", "MOTEA_TWISTED_RIBBON",
      "PIN10_TWISTED_RIBBON"}, FloppyCtrl, 4 >>,
  << {"SIDE1"}, FloppyCtrl, 5 >>,
  << {"PIN02_OUT", "MODESELECT"}, ExtraOut, 0 >>,
  << {"PIN04_OUT"}, ExtraOut, 1 >>,
  << {"OPTIONSEL0", "PIN01_OUT"}, ExtraOut, 2 >>,
  << {"OPTIONSEL1", "PIN03_OUT"}, ExtraOut, 3 >>,
  << {"OPTIONSEL2", "PIN05_OUT"}, ExtraOut, 4 >>,
  << {"OPTIONSEL3", "PIN07_OUT"}, ExtraOut, 5 >>,
  << {"BLINK", "PIN13_OUT"}, ExtraOut, 6 >>,
  << {"LOCK", "PIN11_OUT"}, ExtraOut, 7 >>,
  << {"EJECT", "PIN09_OUT"}, ExtraOut, 8 >>,
  << {"LED1"}, Gpio, 0 >>, << {"LED2"}, Gpio, 1 >>,
  << {"IO0"}, Gpio, 2 >>, << {"IO1"}, Gpio, 3 >>,
  << {"IO2"}, Gpio, 4 >>, << {"IO3"}, Gpio, 5 >>, << {"EXT_IO"}, Gpio, 6 >>,
  << {"IO0_OE"}, GpioOe, 2 >>, << {"IO1_OE"}, GpioOe, 3 >>,
  << {"IO2_OE"}, GpioOe, 4 >>, << {"IO3_OE"}, GpioOe, 5 >>,
  << {"ENABLE_APPLE_MODE"}, Control, 29 >> }

Pin(name) == {p \in Pins : name \in p[1]}

-----------------------------------------------------------------------------
(* Accesses                                                                *)

Access(o, r, u, c) == [op |-> o, reg |-> r, upd |-> u, call |-> c]
Change(r, u)  == Access("change", r, u, None)    \* |= or &=
Write(r, u)   == Access("write", r, u, None)     \* =
Do(c)         == Access("do", Control, None, c)  \* what depends on the state
Calling(o)    == Access(o, Control, None, None)

Locked(s)     == <<Calling("lock")>> \o s \o <<Calling("unlock")>>
Locked_Not(s) == s  \* Mutation: the mutex is not taken.

\* A name nobody knows changes nothing.
SetIo(name, v) ==
  IF Pin(name) = {} THEN <<>>
  ELSE LET p == CHOOSE q \in Pin(name) : TRUE
       IN << Change(p[2], p[3] :> IF v = 0 THEN 0 ELSE 1) >>

Bit(n, b) == (n \div b) % 2

\* Mutation: the strobe comes before the last line is set.
WriteAppleMacCmd_Early(cmd, data) ==
  SetIo("SIDE1", Bit(cmd, 1)) \o
  SetIo("OPTIONSEL0", Bit(cmd, 2)) \o SetIo("OPTIONSEL1", Bit(cmd, 4)) \o
  SetIo("OPTIONSEL3", 0) \o
  << Access("change", ExtraOut, 5 :> 1, <<cmd, data>>) >> \o
  SetIo("OPTIONSEL2", data) \o SetIo("OPTIONSEL3", 0)

\* The lines of the command and its datum, then the strobe; the access that
\* raises the strobe carries what it is meant to say.
WriteAppleMacCmd(cmd, data) ==
  SetIo("PIN10", 1) \o SetIo("PIN12", 1) \o SetIo("PIN14", 1) \o
  SetIo("PIN16", 1) \o SetIo("SIDE1", Bit(cmd, 1)) \o
  SetIo("OPTIONSEL0", Bit(cmd, 2)) \o SetIo("OPTIONSEL1", Bit(cmd, 4)) \o
  SetIo("OPTIONSEL2", data) \o SetIo("OPTIONSEL3", 0) \o
  << Access("change", ExtraOut, 5 :> 1, <<cmd, data>>) >> \o
  SetIo("OPTIONSEL3", 0)

SetReadMuxAppleMac(sel) ==
  SetIo("SIDE1", Bit(sel, 1)) \o SetIo("OPTIONSEL0", Bit(sel, 2)) \o
  SetIo("OPTIONSEL1", Bit(sel, 4)) \o SetIo("OPTIONSEL2", Bit(sel, 8))

StepDir     == 0
HeadStep    == 2
GcrMode     == 3
MotorOn     == 4
DiskEject   == 6
Trk0        == 5
RdDataHead0 == 8

-----------------------------------------------------------------------------
(* The functions of fpga.c                                                 *)

\* Mutation: the mutex is forgotten.
SelectDrive_Unlocked(d, on) == Locked_Not(SetIo(Line["select"][d], on))

SelectDrive(d, on)  == Locked(SetIo(Line["select"][d], on))
OptionSelect(d, on) == Locked(SetIo(Line["option"][d], on))
Motor(d, on)        == Locked(<< Do(<<"motor", d, on>>) >>)
Headload(d, on)     == Locked(<< Do(<<"headload", d, on>>) >>)
Side(d, s)          == Locked(<< Do(<<"side", d, s>>) >>)
MoveHead(d, in)     == Locked(<< Do(<<"track00", d, 0>>), Do(<<"move", d, in>>) >>)
AtTrack00(d)        == << Do(<<"track00", d, 0>>) >>
Eject(d)            == << Do(<<"eject", d, 0>>) >>

\* What a call does once it has read drive_type, ty.
Body(c, ty) ==
  LET d == c[2]  v == c[3]  generic == ty = "GENERIC"
      mac == ty = "APPLE_MACINTOSH" /\ d # -1 IN
  CASE c[1] = "motor" ->
         IF mac THEN WriteAppleMacCmd(GcrMode, gcr) \o
                     WriteAppleMacCmd(MotorOn, 1 - v)
         ELSE SetIo(Line["motor"][d], v)
    [] c[1] = "headload" -> IF generic THEN SetIo(Line["headload"][d], v) ELSE <<>>
    [] c[1] = "side" ->
         IF mac THEN WriteAppleMacCmd(GcrMode, gcr) \o
                     SetReadMuxAppleMac(RdDataHead0 + v)
         ELSE << Change(FloppyCtrl, 5 :> v) >>
    [] c[1] = "track00" -> IF mac THEN SetReadMuxAppleMac(Trk0) ELSE <<>>
    [] c[1] = "move" ->
         IF mac THEN WriteAppleMacCmd(StepDir, 1 - v) \o
                     WriteAppleMacCmd(HeadStep, 0)
         ELSE <<>>
    [] c[1] = "eject" ->
         IF mac THEN WriteAppleMacCmd(DiskEject, 1)
         ELSE IF ~generic THEN <<>>
         ELSE SetIo("BLINK", 0) \o SetIo("LOCK", 0) \o SetIo("EJECT", 1) \o
              OptionSelect(d, 1) \o OptionSelect(d, 0) \o SetIo("EJECT", 0)
    [] c[1] = "release" -> IF dumping = None THEN SelectDrive(d, 0) ELSE <<>>

\* set_select_src, set_motor_src, set_pin02_mode, set_pin34_mode and
\* floppy_ctrl_writeprotect: one field of drive_config.
SetConfig(d, field, v) == Locked(<< Change(Config(d % 4), field :> v) >>)

IndexCfg(d, hs, sep) ==
  Locked(<< Change(Config(d), (27 :> IF hs = 0 THEN 0 ELSE 1) @@ (28 :> 1 - sep)) >>)

EnableDrive(d, on) == Locked(<< Change(Control, ((d % 4) :> on) @@ (15 :> 1)) >>)

SetLedSrc(led, src) ==
  IF led \in 0..1 THEN Locked(<< Change(Mux, 16 + 8 * led :> src) >>) ELSE <<>>

\* Mutation: the pin is driven before it has its level.
SetExtIo_OeFirst(io, oe, data) ==
  LET level  == << Change(Gpio, 2 + (io % 4) :> data) >>
      driver == << Change(GpioOe, 2 + (io % 4) :> oe) >>
  IN Locked(driver \o level)

\* Driven, a pin has its level first; released, it loses it last.
SetExtIo(io, oe, data) ==
  LET level  == << Change(Gpio, 2 + (io % 4) :> data) >>
      driver == << Change(GpioOe, 2 + (io % 4) :> oe) >>
  IN Locked(IF oe = 1 THEN level \o driver ELSE driver \o level)

\* The dumper is put in reset, set up, let go and triggered (bits 4 and 14
\* of the control register go together).
StartDump(res, noIndex) ==
  Locked(<< Change(Control, 4 :> 0), Change(FloppyCtrl, (20 :> 0) @@ (21 :> 0)) >>) \o
  Locked(<< Change(Control, 4 :> 1), Change(FloppyCtrl, 22 :> 1 - res),
            Change(FloppyCtrl, 23 :> noIndex), Change(FloppyCtrl, 21 :> 1),
            Access("change", FloppyCtrl, 20 :> 1, <<"capture">>) >>)

\* Mutation: the switch of the Apple mode is left as it was.
SetInterface_KeepsSwitch(m) ==
  << Write(Polarity, 16 :> IF m = "GENERIC" THEN 0 ELSE 1),
     Access("type", Control, None, <<m>>) >>

\* The polarities, the FPGA's switch and the type of the drives.
SetInterface(m) ==
  << Write(Polarity, 16 :> IF m = "GENERIC" THEN 0 ELSE 1) >> \o
  SetIo("ENABLE_APPLE_MODE", IF m = "APPLE_II" THEN 1 ELSE 0) \o
  << Access("type", Control, None, <<m>>) >>

\* DRIVES_INTERFACE_MODE, if it names a mode, decides after ENABLE_APPLE_MODE.
InterfaceMode ==
  IF mode \in {"GENERIC", "APPLE_II", "APPLE_MACINTOSH"} THEN mode
  ELSE IF apple THEN "APPLE_II" ELSE "GENERIC"

ForDrives(f) ==
  LET on(d) == IF d \in Drives THEN f[d] ELSE <<>>
  IN  on(0) \o on(1) \o on(2) \o on(3)

\* Pins 2 and 34 go to nDensity and nDiskChange, the sources to "off".
ResetFpga ==
  << Write(Control, None), Write(Control, 15 :> 1) >> \o
  ForDrives([d \in Drives |-> IndexCfg(d, 0, 1)]) \o
  ForDrives([d \in Drives |-> << Write(Config(d), (0 :> 4) @@ (4 :> 6)) >>]) \o
  << Access("interface", Control, None, None), Write(Mux, None) >>

-----------------------------------------------------------------------------
(* The program run from a shell                                            *)

\* Mutation: the drive has its disk before the image is there.
LoadStreamHfe_DiskFirst(d, f, hs, double) ==
  << Change(Config(d), 12 :> 1) >> \o IndexCfg(d, hs, 0) \o
  << Write(Image(d), None) >> \o
  [t \in 1 .. f.read |-> Change(Image(d), (t - 1) :> f.id)]

\* A file that is no image changes nothing.  Else the image is cleared and
\* read, track after track; a file cut short ends that, and leaves the rest.
LoadStreamHfe(d, f, hs, double) ==
  IF ~f.sound THEN <<>>
  ELSE IndexCfg(d, hs, 0) \o << Write(Image(d), None) >> \o
       [t \in 1 .. f.read |-> Change(Image(d), (t - 1) :> f.id)] \o
       (IF f.read < f.tracks THEN <<>>
        ELSE << Change(Config(d), 12 :> 1), Change(Config(d), 25 :> double) >>)

\* Mutation: a line is not released after its test.
Autodetect_KeepsLine ==
  LET off(p)  == SetIo(p, 0)
      test(p) == SetIo(p, 1) \o AtTrack00(-1)
  IN off("PIN10") \o off("PIN12") \o off("PIN14") \o off("PIN6") \o off("PIN16")
     \o test("PIN10") \o test("PIN12")

\* Which select lines have a drive: each alone, with a recalibration of
\* "drive -1", that is of whatever is selected.
Autodetect ==
  LET off(p)  == SetIo(p, 0)
      test(p) == SetIo(p, 1) \o AtTrack00(-1) \o off(p)
      all     == off("PIN10") \o off("PIN12") \o off("PIN14") \o off("PIN6") \o
                 off("PIN16")
  IN all \o test("PIN10") \o test("PIN12") \o test("PIN14") \o test("PIN6") \o
     test("PIN16") \o all

\* -readdsk gives up at the first capture: the call that reads a chunk is
\* commented out.
ReadDsk(d) ==
  Motor(d, 1) \o SelectDrive(d, 1) \o AtTrack00(d) \o Headload(d, 1) \o
  Side(d, 0) \o StartDump(0, 0) \o Headload(d, 0) \o SelectDrive(d, 0) \o Motor(d, 0)

HeadOption(d, in) == SelectDrive(d, 1) \o MoveHead(d, in) \o SelectDrive(d, 0)

\* The options main looks for, in its order: the command line has no say in
\* it.  opts is a function from the options given to their values; -hardsector
\* is kept for -load.
Invocation(d, opts) ==
  LET has(o)    == o \in DOMAIN opts
      on(o, s)  == IF has(o) THEN s ELSE <<>>
      sectors   == IF has("hardsector") THEN opts["hardsector"] ELSE 0
      double    == IF has("doublestep") THEN 1 ELSE 0
  IN on("reset", ResetFpga) \o
     on("selsrc", SetConfig(d, 16, opts["selsrc"])) \o
     on("motsrc", SetConfig(d, 20, opts["motsrc"])) \o
     on("pin02mode", SetConfig(d, 0, opts["pin02mode"])) \o
     on("pin34mode", SetConfig(d, 4, opts["pin34mode"])) \o
     on("headrecal", HeadOption(d, 0)) \o on("headstep", HeadOption(d, 1)) \o
     on("load", LoadStreamHfe(d, opts["load"], sectors, double)) \o
     on("setiohigh", SetExtIo(opts["setiohigh"], 1, 1)) \o
     on("setiolow", SetExtIo(opts["setiolow"], 1, 0)) \o
     on("setiohz", SetExtIo(opts["setiohz"], 0, 0)) \o
     on("led1src", SetLedSrc(0, opts["led1src"])) \o
     on("led2src", SetLedSrc(1, opts["led2src"])) \o
     on("enabledrive", EnableDrive(d, 1)) \o on("disabledrive", EnableDrive(d, 0)) \o
     on("writeprotectdrive", SetConfig(d, 13, opts["writeprotectdrive"])) \o
     on("autodetect", Autodetect) \o on("readdsk", ReadDsk(d))

-----------------------------------------------------------------------------
(* Commands and the dump                                                   *)

Program(c) ==
  CASE c[1] = "setio"    -> SetIo(c[2], c[3])
    [] c[1] = "config"   -> SetConfig(c[2], c[3], c[4])
    [] c[1] = "led"      -> SetLedSrc(c[2], c[3])
    [] c[1] = "pauline"  -> Invocation(c[2], c[3])
    [] c[1] = "eject"    -> Eject(c[2])
    [] c[1] = "reset"    -> ResetFpga
    [] c[1] = "headstep" -> SelectDrive(c[2], 1) \o MoveHead(c[2], c[3]) \o
                            AtTrack00(c[2]) \o << Do(<<"release", c[2], 0>>) >>

\* diskdump_thread, for one track.
DumpProgram(d, s, noIndex) ==
  Motor(d, 1) \o SelectDrive(d, 1) \o AtTrack00(d) \o MoveHead(d, 0) \o
  Headload(d, 1) \o Side(d, s) \o StartDump(1, noIndex) \o MoveHead(d, 1) \o
  << Calling("end") >> \o Headload(d, 0) \o SelectDrive(d, 0) \o Motor(d, 0)

-----------------------------------------------------------------------------
(* The threads                                                             *)

Reset(r) == [f \in Fields[r] |-> 0]

BoardInit ==
  /\ reg = [r \in DOMAIN Fields |-> Reset(r)]
  /\ wanted = reg
  /\ type = [p \in {"server", "tool"} |-> "GENERIC"] /\ mode \in Modes /\ apple \in BOOLEAN /\ gcr \in 0..1
  /\ mutex = [p \in {"server", "tool"} |-> "none"]
  /\ todo = [t \in Threads |-> <<>>] /\ loaded = [t \in Threads |-> None]
  /\ dumping = None /\ issued = 0

\* The accesses a command of a thread consists of begin.  A shell's is a new
\* process, for which the drives are generic ones.
Issue(t) ==
  /\ todo[t] = <<>> /\ issued < MaxCalls
  /\ \E c \in Calls[t][mode] :
       /\ (c[1] = "headstep" /\ dumping # None) => dumping[1] = c[2]
       /\ (c[1] \in {"headstep", "eject"} /\ type["server"] = "APPLE_MACINTOSH" /\ ~Overlap) =>
            todo["dump"] = <<>>
       /\ (c[1] = "reset") => todo["dump"] = <<>>   \* bound: no reset in a dump
       /\ (c[1] = "pauline" /\ "load" \in DOMAIN c[3] /\ ~Reload) =>
            reg[Config(c[2])][12] = 0
       /\ todo' = [todo EXCEPT ![t] = Program(c)]
  /\ type' = IF t = "tool" THEN [type EXCEPT ![t] = "GENERIC"] ELSE type
  /\ issued' = issued + 1
  /\ UNCHANGED <<reg, wanted, mode, apple, gcr, mutex, loaded, dumping>>

BeginDump ==
  /\ todo["dump"] = <<>> /\ dumping = None /\ issued < MaxCalls
  /\ todo["script"] = <<>>
  /\ \E d \in Dumps[mode], s \in 0..1, n \in 0..1 :
       /\ todo' = [todo EXCEPT !["dump"] = DumpProgram(d, s, n)]
       /\ dumping' = <<d, s>>
  /\ issued' = issued + 1
  /\ UNCHANGED <<reg, wanted, type, mode, apple, gcr, mutex, loaded>>

\* The clients set variables with the command "set".
SetEnv ==
  /\ (\A t \in Threads : todo[t] = <<>>) /\ issued < MaxCalls
  /\ issued' = issued + 1
  /\ \/ mode' \in Modes \ {mode} /\ UNCHANGED <<apple, gcr>>
     \/ apple' = ~apple /\ UNCHANGED <<mode, gcr>>
  /\ UNCHANGED <<reg, wanted, type, mutex, todo, loaded, dumping>>

Next1(t, o) == todo[t] # <<>> /\ Head(todo[t]).op = o
Done(t)     == todo' = [todo EXCEPT ![t] = Tail(@)]
Becomes(t, s) == todo' = [todo EXCEPT ![t] = s \o Tail(@)]

Lock(t) ==
  /\ Next1(t, "lock") /\ mutex[Process(t)] = "none"
  /\ mutex' = [mutex EXCEPT ![Process(t)] = t] /\ Done(t)
  /\ UNCHANGED <<reg, wanted, type, mode, apple, gcr, loaded, dumping, issued>>

Unlock(t) ==
  /\ Next1(t, "unlock")
  /\ mutex' = [mutex EXCEPT ![Process(t)] = "none"] /\ Done(t)
  /\ UNCHANGED <<reg, wanted, type, mode, apple, gcr, loaded, dumping, issued>>

Load(t) ==
  /\ Next1(t, "change") /\ loaded[t] = None
  /\ loaded' = [loaded EXCEPT ![t] = reg[Head(todo[t]).reg]]
  /\ UNCHANGED <<reg, wanted, type, mode, apple, gcr, mutex, todo, dumping, issued>>

Store(t) ==
  /\ Next1(t, "change") /\ loaded[t] # None
  /\ LET a == Head(todo[t]) IN
       /\ reg' = [reg EXCEPT ![a.reg] = a.upd @@ loaded[t]]
       /\ wanted' = [wanted EXCEPT ![a.reg] = a.upd @@ @]
  /\ loaded' = [loaded EXCEPT ![t] = None] /\ Done(t)
  /\ UNCHANGED <<type, mode, apple, gcr, mutex, dumping, issued>>

Overwrite(t) ==
  /\ Next1(t, "write")
  /\ LET a == Head(todo[t])  v == a.upd @@ Reset(a.reg) IN
       /\ reg' = [reg EXCEPT ![a.reg] = v]
       /\ wanted' = [wanted EXCEPT ![a.reg] = v]
  /\ Done(t)
  /\ UNCHANGED <<type, mode, apple, gcr, mutex, loaded, dumping, issued>>

\* drive_type, or the environment, is read: what follows depends on it.
Decide(t) ==
  /\ \/ Next1(t, "do") /\ Becomes(t, Body(Head(todo[t]).call, type[Process(t)]))
     \/ Next1(t, "interface") /\ Becomes(t, SetInterface(InterfaceMode))
  /\ UNCHANGED <<reg, wanted, type, mode, apple, gcr, mutex, loaded, dumping, issued>>

SetType(t) ==
  /\ Next1(t, "type") /\ Done(t)
  /\ type' = [type EXCEPT ![Process(t)] = Head(todo[t]).call[1]]
  /\ UNCHANGED <<reg, wanted, mode, apple, gcr, mutex, loaded, dumping, issued>>

EndDump ==
  /\ Next1("dump", "end") /\ dumping' = None /\ Done("dump")
  /\ UNCHANGED <<reg, wanted, type, mode, apple, gcr, mutex, loaded, issued>>

ThreadStep(t) ==
  Lock(t) \/ Unlock(t) \/ Load(t) \/ Store(t) \/ Overwrite(t) \/ Decide(t) \/ SetType(t)

BoardNext ==
  \/ \E t \in {"script", "tool"} : Issue(t)
  \/ BeginDump \/ SetEnv \/ EndDump
  \/ \E t \in Threads : ThreadStep(t)

\* The threads are scheduled; commands may never come.
BoardFairness ==
  WF_boardVars(EndDump) /\ \A t \in Threads : WF_boardVars(ThreadStep(t))

BoardSpec == BoardInit /\ [][BoardNext]_boardVars /\ BoardFairness

-----------------------------------------------------------------------------
(* What the threads have apart                                             *)

\* The registers several threads, or the program and the FPGA, rely on.
Shared == {Control, FloppyCtrl, Mux, Polarity} \cup {Config(d) : d \in Drives}
            \cup {Image(d) : d \in Drives}

\* The registers an access may change, itself or by what it calls.
Reach(a) ==
  CASE a.op \in {"change", "write"} -> {a.reg}
    [] a.op = "interface" -> {Control, Polarity}
    [] a.op = "do" -> IF a.call[2] = -1 THEN {} ELSE {FloppyCtrl, ExtraOut}
    [] OTHER -> {}

Reaches(s) == UNION {Reach(s[i]) : i \in DOMAIN s}

\* Drives are selected and their motors run by lines of the floppy port; the
\* others are on its extra outputs.
Wired ==
  \A d \in Drives :
    /\ \A use \in {"select", "motor"} :
         Pin(Line[use][d]) # {} /\ \A p \in Pin(Line[use][d]) : p[2] = FloppyCtrl /\ p[3] \in 0..4
    /\ \A use \in {"headload", "option"} : \A p \in Pin(Line[use][d]) : p[2] = ExtraOut

\* The script's commands, setio on pins of no shared register, and a shell's
\* invocations without -reset.
Commands ==
  \A m \in Modes :
    /\ \A c \in Calls["script"][m] :
         \/ c[1] = "setio" /\ \A p \in Pin(c[2]) : p[2] \notin Shared
         \/ c[1] = "config" /\ c[3] \in {0, 4, 13, 16, 20}
         \/ c[1] \in {"led", "reset"}
         \/ c[1] \in {"eject", "headstep"} /\ c[2] \in Drives
    /\ \A c \in Calls["tool"][m] :
         /\ c[1] = "pauline" /\ c[2] \in Drives /\ "reset" \notin DOMAIN c[3]
         /\ "load" \in DOMAIN c[3] => c[3]["load"] \in Files

\* A shell sets up what the clients leave alone in the meantime.
Apart ==
  \A m \in Modes : \A c \in Calls["tool"][m] :
    /\ \A e \in Calls["script"][m] :
         Reaches(Program(c)) \cap Reaches(Program(e)) \cap Shared = {}
    /\ Dumps[m] # {} => {Control, FloppyCtrl} \cap Reaches(Program(c)) = {}

-----------------------------------------------------------------------------
(* Properties                                                              *)

\* Selections, motors, the side and the trigger share floppy_ctrl_control,
\* the enables and the dumper control_reg: no store of one thread undoes what
\* another wrote between its load and its store.
NothingLost ==
  \A r \in {Control, FloppyCtrl, Mux} \cup {Config(d) : d \in Drives} :
    reg[r] = wanted[r]

Line1(use, d) == LET p == CHOOSE q \in Pin(Line[use][d]) : TRUE IN reg[p[2]][p[3]] = 1

Capturing(t) ==
  Next1(t, "change") /\ Head(todo[t]).call = <<"capture">> /\ loaded[t] # None

\* Whatever the clients do meanwhile, a capture is triggered with the drive of
\* the dump selected, its motor on and, but on a Macintosh drive, the side set.
CaptureAsAsked ==
  Capturing("dump") /\ type["server"] # "APPLE_MACINTOSH" =>
    /\ Line1("select", dumping[1]) /\ Line1("motor", dumping[1])
    /\ reg[FloppyCtrl][5] = dumping[2]

\* io_fpga_mutex and the split of the registers among the threads keep every
\* setting, those a capture is made with among them.
SettingsKept == NothingLost /\ CaptureAsAsked

\* A Macintosh drive takes, when the strobe rises, the command and the datum
\* of the call that raises it.
StrobedAsMeant ==
  [][\A t \in Threads :
       Store(t) /\ Head(todo[t]).reg = ExtraOut /\ 5 \in DOMAIN Head(todo[t]).upd
         /\ reg[ExtraOut][5] = 0 /\ reg'[ExtraOut][5] = 1 =>
         LET e == reg[ExtraOut] IN
         << reg[FloppyCtrl][5] + 2 * e[2] + 4 * e[3], e[4] >> = Head(todo[t]).call]_boardVars

\* An expansion pin that begins to be driven already has the level its next
\* level write of the same call gives: it never shows the level of before.
NoGlitch ==
  [][\A t \in Threads, b \in 2..5 :
       reg[GpioOe][b] = 0 /\ reg'[GpioOe][b] = 1 /\ Store(t) =>
         \A n \in 1..Len(todo'[t]) :
           todo'[t][n].reg = Gpio /\ b \in DOMAIN todo'[t][n].upd =>
             todo'[t][n].upd[b] = reg[Gpio][b]]_boardVars

\* Between commands the FPGA and the program agree on the interface,
\* whichever modes it had before.
InterfaceAgrees ==
  todo["script"] = <<>> =>
    /\ (reg[Control][29] = 1) <=> (type["server"] = "APPLE_II")
    /\ (reg[Polarity][16] = 1) <=> (type["server"] # "GENERIC")

\* A drive has a disk only when its image is all of one file: the host
\* machine, which reads the image while it is loaded, sees no mixture.
DiskIsWhole ==
  \A d \in Drives : reg[Config(d)][12] = 1 =>
    \E f \in Files : f.sound /\
      \A t \in Tracks : reg[Image(d)][t] = IF t < f.tracks THEN f.id ELSE 0

\* The detection of the drives asks one select line at a time: two drives that
\* answered together would be found on a line that has none.
OneLineAsked ==
  Next1("tool", "do") /\ Head(todo["tool"]).call[2] = -1 =>
    Cardinality({b \in 0..4 : reg[FloppyCtrl][b] = 1}) = 1

\* drives.script says of "set ENABLE_APPLE_MODE 1": "Uncomment the following
\* line to enable the Apple Disk II interface mode".
AppleEnabled ==
  [][\A t \in Threads : SetType(t) /\ apple => type'[Process(t)] = "APPLE_II"]_boardVars
=============================================================================
