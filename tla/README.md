# Pauline in TLA+

Pauline is a floppy disk flux reader and drive simulator: an FPGA that samples
the read line of a drive (or plays a track into a host), and a Linux program,
`Pauline_control`, that drives it and talks to its users over TCP and websocket
connections.  This directory holds TLA+ models of the program, the TLC
configurations that check them, and proofs checked by TLAPS.

Paths below are relative to `src/`; `control/` stands for
`Softwares_Pauline/Pauline_control/src/`, `core/` for
`FPGA_Pauline/Rev_A/ip/pauline_core/` and `ws/` for `Softwares_Pauline/wsServer/`.

## 1. The system

```
 telnet (600, 601)      web pages (console, control, picture)
      |                      | websocket
 connections  [Clients]  wsServer  [WsServer]
      |  lines  [Console]    |
      +----------+-----------+
                 v                              ^ lines printed [Clients]
          command ring  [InQueue]          client rings <-- msg_printf, any thread
                 v                              ^
           script thread ---- creates --> dump thread      image thread
            |        \      [DumpSession]   |     \   file_to_analyse |
            |         \                     |      +--[ImagePreview]--+
     head commands     registers            | chunks, folders
     [HeadControl]     [Board] <------------+ [DumpStream, FluxCode, Console]
            v             ^                 ^
        stepper, drive    |                 | offset, done; DRAM buffer (no lock)
                       a pauline          FPGA: DMA - dumper - trigger
                       from a shell
```

| Component | Code | State | Operations | Hard behaviours |
|---|---|---|---|---|
| Flux capture | `control/fpga.c`, `dump_chunk.c`, `script.c` (readdisk), `core/floppy_dumper.vhd`, `floppy_dma_master.vhd`, `floppy_trigger.vhd` | offset, done and control registers, DRAM buffer and its mapping, last chunk's end | start a capture, DMA and sampling, index pulse or timeout, poll, convert, hand over | two sides share memory without a lock; off-by-ones at the end of the buffer; timeout against pulse; a register protocol of several writes |
| Dump session | `control/script.c` | dump_running, dump_drive, stop_process, command text, drive select and motor lines | dump, stop, headstep, movehead, recalibrate, reset; the dump thread's steps | flags set by one thread and tested by another; release of shared lines on every path |
| Console command lines and dump folders | `control/script.c`, `network.c`, the page's script | the line being assembled, a command's words, folders and their indexes | type, click, receive, assemble, execute; prepare_folder | lines cut by sockets, quotes and #, CR and LF; names that come to be the same; what is overwritten |
| Command input | `control/messages.c`, `network.c` (server_script_thread) | ring of lines, event | push, signal, wait, take, execute | test, wait and push under different locks; overflow; kill_server |
| Client output and connections | `control/messages.c`, `websocket.c`, `network.c` | a ring and an event per client, tables of rings, sockets and threads | accept, print, wait, send, leave, remove | writers without a lock, slots and entries taken over from a client that is still going |
| WebSocket server | `ws/src/ws.c` | table of clients, their states, message under assembly, close timer | listen, accept, handshake, frame, close, time out | a table shared by all threads, entries used again, close against time-out |
| Head movement | `control/fpga.c`, `script.c`, `core/floppy_ctrl_stepper.vhd` | headmove register, step counters, software position | move, recalibrate, the moves of a dump | lock let go before the wait; wrap of the counters; a sensor that fails |
| Flux codec | `control/dump_chunk.c`, `stream_hfe.c` | running distance, bits left over | convert chunks and tracks, lay them out, read them back | distances across words and chunks, a ragged last chunk, buffer sizes |
| Image preview | `control/websocket.c`, `script.c`, `stream.c`, the page | file name under script_mutex, settings, PNG file | name a track, change a setting, ask, draw, send | mutex paths, a name read and changed while it is drawn |
| Registers, GPIO, pins | `control/fpga.c`, `ios.c`, `script.c`, `pauline.c` | registers of several fields, the interface mode, a mutex per process | settings, selection, pins, expansion port, images, detection, reset | load-change-store by three threads of two processes |
| FPGA pipeline | `core/floppy_dma_master.vhd`, `floppy_dumper.vhd` | FIFOs, DMA state machine | arbitrate ports, burst, shift | full and empty FIFOs, token order |
| Drive emulation | `core/floppy_drive.vhd`, `trackcore.vhd` | per-drive position, track buffers | step, select, play and record a track | track change while DMA runs |

What makes them correct:

* **Flux capture** - every chunk lies in the buffer and holds words of this
  capture; chunks join without gap; a capture marked as synchronised starts at
  the index; one called complete is complete; every capture ends.
* **Dump session** - one dump at a time, with its own parameters; the drive it
  reads stays selected and turning; two drives are never selected together; the
  bus is released on every path; stop is answered and means what it says.
* **Command lines and folders** - a dump runs with what was filled in for it; a
  command without its parameters does not run; no dump replaces the files of
  another that did not ask for it.
* **Command input** - lines are executed in order, none lost but those a full
  ring drops, and the oldest first; the script thread never sleeps on a line.
* **Clients** - a client sees the lines printed since it connected, in order,
  none of another client's; who has gone leaves no thread, ring or entry.
* **WebSocket server** - messages are whole and their sender's; onopen and
  onclose pair up; a CLOSE is answered; no connection outlives its peer.
* **Head movement** - the software position is the head's; a recalibrated head
  is at track 0; every loop is bounded.
* **Codec** - every pulse is read where it was sampled, the stated samples are
  the ones spanned, and the buffers hold what is written.
* **Image preview** - one thread at a time between lock and unlock; the page
  comes to show the last track with the last settings.
* **Registers** - no setting is lost to another's store; program and FPGA agree
  on the interface; a drive's image is of one file; no pin shows an old value.

The hazards this code is exposed to are listed, each at its line, in
`PROJECT.json` under `hazards`, with the properties that catch them.

## 2. The modules

| Module | What it is |
|---|---|
| `CaptureStream` | abstract: a run of captures, each delivered front to back, in pieces, and ended by one verdict |
| `DumpStream` | the FPGA's side and the dump thread's side of captures in a row; implements `CaptureStream` |
| `DumpSession` | the script thread and the dump threads: flags, bus, mapping |
| `Console` | a dump command from page or keyboard to its parameters and its folder |
| `LossyQueue` | abstract: a mailbox that drops its oldest line |
| `InQueue` | the command ring with its lock, its event and the script thread; implements `LossyQueue` |
| `Clients` | telnet and websocket clients with their rings, slots, threads, and what is printed to them |
| `WsServer` | the connections of the websocket server: listeners, frames, closing |
| `HeadMover` | abstract: a head that carries out one request at a time, track by track |
| `HeadControl` | the commands and the dump that move the head, the stepper, the drive and its sensor; implements `HeadMover` |
| `FluxCode` | samples to ticks to bytes and back, with the sizes and figures of a chunk |
| `ImagePreview` | dump, script and image threads around the picture of the last track |
| `Board` | the registers with several fields, store by store, under three threads of two processes |
| `MC*` | the values TLC uses |
| `*Proofs` | the theorems: of `DumpStream`, `DumpSession`, `HeadControl`, `FluxCode`, `Console` and `WsServer`; `InterfaceProofs` has those of `Clients` and `ImagePreview`, `SharingProofs` those of `Board` and `InQueue` |

Two parts meet through what one of them promises: `DumpSession` takes a capture
to end because `DumpStream` shows it (`CaptureEnds`), `Console` takes messages
to come in order because `InQueue` shows it, and `ImagePreview` takes a closed
track from `DumpSession`'s unit.

### DumpStream

Offsets are in 32-bit words; a word's value is the number of the capture that
wrote it, which is all the properties tell apart.

| Model | Code |
|---|---|
| `run` | `control_reg` bits 14 and 4 (dumper out of reset, DMA port 4 enabled) |
| `offset`, `done`, `timeout` | the registers `floppy_dump_cur_track_offset`, `floppy_done` bits 4 and 5 |
| `ignore`, `event` | `floppy_ctrl_control` bit 23, the trigger's `event_state` |
| `written`, `mem` | what reached the DRAM: `offset` runs ahead of it by at most `Lead` |
| `last` | `last_dump_offset`; `handed` counts what was handed over, which `last` no longer tells after an error |
| `wanted`, `stated` | `dump_time_per_track` and the copy in the metadata, both as the buffer size they stand for |
| `mapped` | `dump_buffer_size`, 0 when nothing is mapped |

The FPGA's actions are `DmaToken` (the DMA hands the next address to the
dumper, or raises `done` at the stop address), `CaptureWord` (a word is complete
and goes to the address of its token), `IndexPulse`, `IndexTimeout`.  The
thread's actions follow `start_dump` in its locked parts (`StartClear`,
`AllocDumpBuffer`, `LeaveReset`, `SetIndexMode`), then
`get_next_available_stream_chunk` (`WaitOver`, `GiveUp`, `GetChunk`),
`fast_convert_chunk` word by word (`ConvertWord`), and the loop of `readdisk`
(`DeliverChunk`, `NextChunk`, `CaptureDone`).  `Fail` is the error path: both
errors set `last_dump_offset` to the buffer size and end the dump.

Three assumptions are parameters, so that what they buy can be seen:

* `Steady`: clients send `dump_time` only between dumps.  Without it
  `TimeAsStated` fails (`DumpStreamResized.cfg`).
* `Prompt`: `start_dump` gets from its write of `control_reg` to that of
  `floppy_ctrl_control` before the dumper completes a word (16 sample periods,
  320 or 640 ns; the pops of the FIFO and the first full word come on top).
  Without it `SyncedToIndex` fails (`DumpStreamIndex.cfg`).
* `LongCaptures` (in the proofs): a capture is longer than `Lead`.  With
  `dump_time` at 3 ms or more it is.

`Lead` stands for the pop FIFO's almost-full level and the dumper's pipeline.

### DumpSession

One action per step of `readdisk` that another thread can see: the flag, the
drive number, the folder, the motor, the select line, the seek, each unit (a
capture), the unmapping, clearing the flag, and the release of the bus after
it; each failing path has its own steps.  A headstep tests the flag in one step
(`CmdHeadstep`) and selects its drive in the next (`SelectStep`), with whatever
has become of the dump in between.  `numbers` and `name` tell whose
command text a thread read, since `diskdump_thread` parses the shared text in
two goes.  `hung` holds the threads whose capture a reset has stopped.

`Patient` describes clients that wait for the messages the dump prints: nothing
between the command and "Start disk reading", nothing between the end and its
last message, no recalibrate or reset while a dump is under way, and head steps
during a dump only once it reads tracks.  The passing run and the theorems are
for patient clients; what others can reach is shown by the
run `dump_session_twice` and by `DumpSessionStop.cfg` and `DumpSessionReset.cfg`.

### Console

Text is a sequence of `Symbols`; a number (`Numeral`), and a word of a command,
is one; `sp` is the space.

| Model | Code |
|---|---|
| `Click`, `TypeDump`, `TypeOther` | the page's button and its line (`dump.html`, `pauline.js`), a telnet user |
| `wire`, `recvbuf`, `Recv` | what a socket has, and what one `recv` returns of it |
| `fullline`, `Assemble` | the line `connection_thread` puts together (`MAX_LINE_SIZE`) |
| `ring`, `message` | messages (`MAX_MESSAGES_SIZE`), and what `exec_cmd` has left of one |
| `get_next_word`, `copy_param`, `get_param` | the functions of that name in `script.c` |
| `ExecDump`, `ExecOther` | `pauline_execute_line`, `cmd_dump`'s checks, `diskdump_thread`'s reading |
| `Named`, `Numbered`, `Folder` | the folder: a path of two names, the inner one joined with dashes from name, comment and the four digits of the index (`Padded`), as the `sprintf`s write it |
| `display_info`, `NextIndex`, `prepare_folder` | the search for the highest index and the three modes; `disk` says which dump's files each folder has, and removing a folder removes those below |

`cut` remembers the dumps whose message was longer than a message may be.  A
dump is over before the next begins; the dumps that overlap are `DumpSession`'s.
No text has a dot or a `$`: no folder is named `.` or `..`, and the shell that
removes one (`system`, `script.c:422`) finds the name that was written.

A folder's name does not tell its dump: with name `a` and comment `0001` mode
NONE writes the name of the automatic folder `a-0001` and removes it
(`ConsoleClash.cfg`).  `DumpsKept` claims of every dump that only one whose folder
is its own or above takes its files, and that auto mode never does; and of dumps
with `Clear` names (not empty, and in mode NONE no comment that ends like an
index) that the one that takes them was told the same name, comment and index.

### InQueue

`Push` is `msg_push_in_msg` under its mutex, `Signal` the event after it;
`FindEmpty`, `Awake`, `Spurious` and `Take` are `msg_in_wait`; `Ignore` and
`Execute` the loop around it.  Each line has a number, so that order and loss
can be stated.  The event keeps one signal, as `sendEvent`/`waitEvent` do.

### Clients

One peer is one life of one connection.  `conn`, `at` are the connection's
thread and the entry it has; `rings` is `clients_out_buffer` with
`handle_to_index`; `tx`, `idx`, `hand` are the transmit thread, its ring and the
line it has taken; `pr` is a printing thread's place.  A full ring is advanced by
the printer; the reading side and the printing side share `in` and `out` without
a lock, and each statement that reads or writes an index is one step.  What the
code does with index -1 (`handle_to_index` of a client without a ring) is a
choice, `Wild`, over what memory before the array may hold.

`Calm` is an environment: clients come and go and lines are printed when the
threads concerned are at rest, and a printer leaves a ring room while it is read.
With `Calm` FALSE, or with two printers, TLC refutes `InOrder`: the unlocked
rings carry one printer that is not too fast.

### WsServer

`starting`, `events`, `listens` are the ports' `ws_socket` calls and the tables
they fill; `sock`, `state`, `counted` are an entry of `client_socks`; `thr` is a
connection's thread from the handshake to `onclose`, `msg` the message it is
putting together, `tout` the closing's time-out thread, `srv` a `ws_close_client`.
A frame is a type (text, binary or continuation), a final bit and what it holds:
whole characters, the first half of one, the rest of one, or nothing.  Only the
text of text messages is decoded; `onmessage` is given both kinds alike.  A
message of empty frames only is handed over as a null pointer (`ws.c:1162`), which
`msg_push_in_msg` copies from: on the ports of `Reading` the program may end then.

`Calm`: the listeners start in turn before clients come, and nobody comes while
a client the server closes is going.  Without the first, the second `ws_socket`'s
`memset` of `client_socks` (`ws.c:1763`) wipes a client that is connected; without
the second, a time-out thread takes an entry for the one it was started for, and
TLC refutes `MessagesWhole`, `CloseAnswered` and `EventsPaired`.  `ws_close_client`
is not called by the program; it is kept because the server's own closing
(time-out thread included) is reached by it and by nothing else.

### HeadControl

| Model | Code |
|---|---|
| `head`, `sensor` | the drive: nothing in the program shows the first, and only track 0 the second |
| `st`, `inward`, `cmd`, `cnt`, `phase` | `floppy_ctrl_stepper.vhd`: state, direction, `track_pos_cmd`, `track_pos_cnt`, `motor_phases_cnt` |
| `position` | `drive_current_head_position` |
| `known` | history: track 0 was found, and nothing was counted past the drive's last track since |
| `waiting` | the threads in the last loop of `floppy_ctrl_move_head`, past its lock |
| `pc`, `i` | the place and the loop counter of the script thread and of the dump thread |

`Pulse` and `StepOver` are the two halves of a step period.  `MoveHead` is the
locked part of `floppy_ctrl_move_head`, `MoveOver` the end of its wait.  Every
loop of `floppy_head_recalibrate` has its step (`RecalStep`) and its end;
`SeekOut` to `NextTrack` are the moves of `readdisk`, captures in between left
out.  A sensor that is never on, or always, is what the error returns are for.

The drive holds the head at its last track, whatever is asked.  The commands
count on: `MAX_STEPS` (82 in `drives.script`) is more than a drive of 80 tracks
has, and a double stepped movehead doubles what it bounds.  So `PositionTrue` is
claimed from the finding of track 0 until a command is counted past the last
track, and `TrackAsNamed` says that tracks the drive lacks are read from its last.

Clients are taken not to move the head while a dump runs (`Overlap` FALSE): the
lock does not cover the wait, so a second command would overwrite the count of
the first, and TLC refutes `PositionTrue` with `Overlap` TRUE.  Double stepped
dumps start at track 0: `readdisk` goes to its first track by single tracks, and
TLC refutes `TrackAsNamed` for a double stepped dump that starts elsewhere.

### FluxCode

A word is the set of its samples that are pulses.  `ConvertOne`, `ConvertMany`
and `ConvertEmpty` convert a word with one pulse, one with several, or a run of
words without, as `fast_convert_chunk` and `fast_convert_track` do; `Cut` and
`CutLast` build a chunk's figures (`generate_chunk`), `EndTrack` ends a track.  `true` is where `convert_track`, the sample by sample
conversion the source keeps beside the fast one, finds the pulses, `read` where
`decodestream` puts them; `Encode` and `Decode` are the byte code.  `R` and `W`
make the byte and the word smaller for TLC; the theorems hold for both sizes.

A word with several pulses is stored as one, and costs the stream that word's
`W` ticks: `DriftKnown` states it, since the source has the other conversion
beside it and does not say which is meant.

### ImagePreview

| Model | Code |
|---|---|
| `lock`, `file`, `last` | `script_mutex`, `file_to_analyse`, `last_file_to_analyse` |
| `dump`, `script`, `image` | the place of each thread, from its `pthread_mutex_lock` to its unlock |
| `asked`, `env`, `view` | the words of the decoders command, the `BMPEXPORT_ENABLE_*` variables, the scale |
| `drawing`, `png`, `shown` | what is drawn, what `/tmp/analysis.png` holds (`Torn` while it is written), what the page has |
| `checked`, `clicks` | the page's boxes |
| `img`, `page`, `seen` | `img_connection`; where each picture connection's thread is, and what it has loaded of the count (`onopen_img`, `onclose_img`: a test, a load and a store each) |

The image thread reads `img_connection` once, and if no page was counted it
unlocks the mutex without having locked it (`websocket.c:421`, `573`).  In between a
page may open and another thread lock: `Exclusive` is then lost, and
`ImageUnheld.cfg` shows it, so it is no property of a passing run.
`ExclusionKept` says what is left: no other step breaks the exclusion, ever, and
this one only while another thread is in its section (`Intrudes`).  Two pages that
come or go together may lose an update of the count (`ImagePages.cfg`), so
`PreviewFollows` is about pages that do so one at a time.

### Board

A call of `fpga.c` or `ios.c` is a sequence of accesses, one action each:
`Lock` and `Unlock` (`io_fpga_mutex` of the thread's process), `Load` and
`Store` of a register with several fields, `Overwrite` of a whole one, `Decide`
where the code looks at the drives' type or a setting and goes on by it.  `reg` is the
registers, field by field; `wanted` is history, what they would hold had each
change been one step; `todo` is what is left of each thread's call.  `script`
executes the clients' commands, `dump` reads a disk, and `tool` is a `pauline`
started from a shell beside the server: it has the same registers, and a mutex
and a `type` of drives of its own.  Disk images in memory are written the same
way.

What clients may do is `Calls`, by interface mode.  Four formulas say what is
needed of them and of the wiring, and the theorems name those they need:

* `Wired`: select and motor lines are pins of the floppy port, head load and
  option lines extra outputs, as in the configurations of the repository;
* `Commands`: the script's commands that change registers (`setio` only on pins
  of registers nobody else relies on), and invocations without `-reset`;
* `Apart`: a shell sets up what the clients leave alone meanwhile;
* `~Overlap`: no head or eject command on a Macintosh drive during a dump, since
  `fpga.c:181` sets its lines without the mutex.

`MCBoard` assumes the first three, which TLC evaluates.  Without them TLC refutes
`SettingsKept` (`setio` on the floppy port during a dump, a tool that enables a
drive during one, or `Overlap`), `StrobedAsMeant` (`Overlap`) and, with `Reload`,
`DiskIsWhole` (an image loaded over another: the disk flag is never cleared).

## 3. Runs

| Run | Question | Bounds |
|---|---|---|
| `dump_stream` | do the unlocked hand-over and the register protocol keep the promises of `CaptureStream`? | chunks of 4 words in groups of 4, a lead of 2, buffers of 6, 8 and 10 words in 12 words of DRAM, two captures in any number of dumps |
| `dump_session` | do the threads keep the flag, the bus and the buffer straight? | two dumps, two drives, two units each, patient clients |
| `dump_session_twice` | is a second dump refused? not at once | impatient clients |
| `console` | does a dump run with what was filled in, in a folder of its own? | two dumps of seven forms and two other lines, sockets that return 4 or 30 symbols, messages of 35 and lines of 60 symbols, a ring of 2, indexes to 4 |
| `console_telnet` | is a dump without parameters refused? not if the line ends in CR LF | one dump, two other lines |
| `in_queue` | do lines reach the script thread in order, and wake it? | a ring of 3 slots, 2 clients, 5 lines |
| `clients` | does each client see its lines, and leave nothing behind? | a data and a command connection, two websocket lives that share a ring of 2 slots, two lines, one printer |
| `web_server` | do messages, events and closings keep to their client? | two ports, one entry, a client of two frames of eight kinds, one the server closes, one that takes the entry over |
| `head_control` | does the program know where the head is, and say so? | a drive of 4 tracks with `MAX_STEPS` 3, loops of 4, 2 and 5 steps, headsteps of 1 and 2, movehead to 0, 2 and 4, single and double, a dump with each kind of stepping, one of them beyond the last track |
| `flux_code` | is a pulse read where it was sampled? | words of 4 samples, bytes of 16 values, chunks in groups of 4 words, gaps that give 1 to 4 bytes and one too many, 6 runs |
| `image_preview` | what can break the exclusion, and does the last picture come at last? | two tracks, one of them blank, one file that may be removed, one box, one change of scale, one click, two pages of which one leaves |
| `board` | is no setting lost, and does the board do what was asked? | two drives, three calls of those `MCCalls` lists by mode, three image files (one of them bad), three tracks |

Why the bounds are enough.  *DumpStream*: the three sizes put the rest of the
last chunk below, at and above a chunk; memory past the end exists; a second
capture meets what the first left (registers, memory, index mode), with a size
larger or smaller; the lead is shorter than a chunk, as in the FPGA, and longer
than the rest of one size.  *DumpSession*: two dumps give every pair of threads,
a dump in its first steps, in its captures, and in its last; two drives tell
"busy" from "mine".  *Console*: the forms hold names that clean to the same
folder, names of nothing and of spaces, a comment like an index, every mode,
indexes below, at and above the highest there is, quotes, # and a text that makes the message too long; 4
symbols cut a line within a word, 30 return several lines at once.  *InQueue*: 5
lines overflow a ring that holds 2.  *Clients*: a ring of 2 slots wraps with the
second line, the second websocket life takes over entry, ring and event of the
first, and the data connection precedes the command connection, as
`network.c:519` needs.  *WsServer*: one entry is used by three clients in turn;
two frames make a message of one or of two, text or binary, with a control frame
between.  *HeadControl*: the commands may come without end; the head starts on
each of the 4 tracks, the loops' limits are just beyond the drive's last track, as
100 and 160 are beyond 83, every command and the dumps reach the inner stop and
count past it, and the step counter (modulo 8) wraps.  *FluxCode*: six runs
span three chunks and more, so that bits left over are carried twice, and the
gaps reach each length of the code.  *ImagePreview*: two tracks make one overtake
the other, two pages count themselves in and out at any time, also at once.  *Board*: three
calls put a store of each of the three threads between a load and a store of
another, and a reset between two settings.

`CHECK_DEADLOCK FALSE` is said where the system may really stop: because a bound
on the work (captures, lines, calls, peers, dumps) runs out, or, in
`dump_session_twice`, because a thread waits for ever.  `dump_session` and
`head_control` are checked for deadlock.

### Configurations kept beside the runs

Each of these shows, run by hand, what happens outside the environment a passing
run assumes, or a disagreement too narrow for a run of its own.  TLC finds the
property violated in all of them.

| Configuration | Module | Property | What it shows |
|---|---|---|---|
| `DumpStreamTail.cfg` | `MCDumpStream` | `OnlyThisCapture` | the last chunk is converted past its end, into words an earlier capture left (`control/dump_chunk.c:63`) |
| `DumpStreamResized.cfg` | `MCDumpStream` | `TimeAsStated` | after `dump_time` during a dump the metadata's `time_per_track` is not the capture's (`control/script.c:714`) |
| `DumpStreamIndex.cfg` | `MCDumpStream` | `SyncedToIndex` | a `start_dump` held up between two writes lets the dumper run in the index mode of the dump before (`control/fpga.c:1004`) |
| `DumpSessionStop.cfg` | `MCDumpSession` | `StopEndsDump` | stop is answered before the dump it should stop has set its flag (`control/script.c:990`) |
| `DumpSessionReset.cfg` | `MCDumpSession` | `StopReturns` | reset during a capture leaves stop, and so the console, waiting for ever |
| `HeadControlZero.cfg` | `MCHeadControl` | `PositionTrue` | a headstep of 0 steps 1024 times, and the position stays (`core/floppy_ctrl_stepper.vhd:328`) |
| `ClientsAgain.cfg` | `MCClients` | `EveryLineArrives` | a telnet client's ring is never removed, so the next one's lines go to it (`control/network.c:197`) |
| `BoardOverlap.cfg` | `MCBoard` | `SettingsKept` | a head or eject command on a Macintosh drive during a dump undoes a store of the dump (`control/fpga.c:181`) |
| `BoardReload.cfg` | `MCBoard` | `DiskIsWhole` | an image loaded over another shows the host both: the disk flag is never cleared (`control/stream_hfe.c:228`) |
| `ImageBoxes.cfg` | `MCImagePreview` | `BoxesHonoured` | a decoder box of the page without a handler (`C64`) changes nothing |
| `ImagePages.cfg` | `MCImagePreview` | `PagesCounted` | two pages that come or go together lose an update of `img_connection`, and the one that stays is not drawn for (`control/websocket.c:200`) |
| `ImageUnheld.cfg` | `MCImagePreview` | `Exclusive` | the image thread lets go of the mutex another thread holds (`control/websocket.c:573`) |
| `ConsoleClash.cfg` | `MCConsole` | `FoldersApart` | a dump in mode NONE with a comment like an index removes a folder of auto mode (`control/script.c:411`) |
| `BoardApple.cfg` | `MCBoard` | `AppleEnabled` | `ENABLE_APPLE_MODE` alone, as `Softwares_Pauline/Pauline_control/settings/drives.script:96` has it, does not make the interface an Apple II one (`control/fpga.c:307`) |

### Fairness

* `DumpStream`: weak fairness of the dump thread (it polls and works as long as
  it can), of the DMA and of the sampling (they are clocked), and of the index
  timeout (a counter).  None on the index pulse, which a drive without a disk
  never gives, and none on commands.
* `DumpSession`: weak fairness of each thread; the head finds track 0 or the
  loop gives up, so `Seek` ends.  A capture ends by `CaptureEnds` of
  `DumpStream`, unless a reset took the FPGA away (`hung`).
* `InQueue`: weak fairness of the script thread and of a pushing thread's signal
  after its push.
* `HeadControl`: weak fairness of the stepper (clocked) and of each thread.  None
  on the commands.
* `Clients`: weak fairness of each connection's closing, of each transmit thread
  and of a printer inside `msg_print`.  None on clients coming, leaving, or on
  lines being printed.
* `WsServer`: weak fairness of each connection's thread and of its closing,
  time-out included (it is a timed wait).  None on peers and none on the program.
* `ImagePreview`: weak fairness of the three threads and of the page's timer, and
  strong fairness of the three locks: a mutex may be taken again and again by
  others between two tries, but each of them sleeps or waits for work in between,
  so a waiter is not passed for ever.
* `Board`: weak fairness of each thread's next access and of the end of a dump.
* `Console`, `FluxCode`: no liveness is claimed.

### Findings

| Run | Where | What |
|---|---|---|
| `dump_session_twice` | `control/script.c:960` | two dump commands in a row run two dump threads |
| `console_telnet` | `control/script.c:209` | a parameter is missing only where the line ends in 0 or #; with CR LF lines, `dump` alone starts a dump of drive 0 |

Each is quoted with its lines in `PROJECT.json`.

Seen while modelling, and not runs:

* `cmd_reload_config` executes the default configuration and resets; the user's
  settings `pauline.c:498` loads after it at start-up are lost.
* `cmd_set_motor_src` reads both parameters into one buffer and takes the source
  from another, which nothing has written (`script.c:1338`).
* `pauline.c` compares `dump_start_side` with `dump_max_track`; `-readdsk` reads
  nothing; `-autodetect` goes on with drive -1.
* `fpga.c:reset_fpga` compares a variable that may not be set, as a null pointer.
* mode NONE with a name of spaces and no comment empties the folder of all the
  dumps (`script.c:401`; `Folder` is then the empty path).
* `ws.c:1520` says a CLOSE is sent once; a server that closes while its client
  does sends two (`OneClose`, refuted with `ServerCloses`).
* `pthread_cond_signal` (`ws.c:1556`) does not end the time-out thread's wait.
* with the last track's file removed the image thread locks `script_mutex` twice.
* `stream_hfe.c:246` speaks of 6M where the code has 0x200000.

## 4. Proofs

The theorems hold for every value of the constants the named assumptions allow.

* **DumpStreamProofs.**  The inductive invariant `IInv` has five parts, since
  none of the properties is inductive: `RegistersInv` (the DMA stops at the stop
  address, `written <= offset <= written + Lead`, `done` means the address is
  the stop), `ResetInv` (before `LeaveReset` the FPGA's counters are zero),
  `MemoryInv` (the first `written` words are this capture's, the rest of the
  buffer is zero), `ReaderInv` (`last <= offset`, a chunk past the poll lies
  below `offset`), `HandedInv` (`handed` is `last` while nothing failed).  From
  it follow `TypeCorrect`, `ChunkInBufferCorrect` and `ChunkSoundCorrect`.  The
  statements about the index need more: with `LongCaptures` and `Prompt`,
  `TriggerInv` ties `written`, `event` and `ignore`, and gives `IndexCorrect`
  and then `StreamImplemented`, the refinement.  `SettingInv`, for `Steady`,
  gives `SettingCorrect`.
* **DumpSessionProofs.**  For patient clients: `SingleInv` (at most one thread
  beyond its end, and only when the script is not answering a stop),
  `ParameterInv` (the shared text is the thread's own until it has read it),
  `ScriptInv` (where the script thread may be when a dump is where it is),
  `BusInv` (who holds select and motor).
* **SharingProofs**, `Board`.  What makes these proofs long is that a thread's
  calls are lists of accesses, put together from other lists, and that `Decide`
  puts more in front.  Lemmas say what each function of `fpga.c` and each command
  consists of (`Tidy`: locks and unlocks take turns; `Covered`: shared registers
  are changed between them; `Meek`: the interface and the disks are left alone).
  `Ordered` carries this from a call's first access to its last: whoever holds
  the mutex is the one thread of its process whose list closes with an unlock
  (`Turns`), and what is left of a command is within what the command reaches
  (`Source`).  With it, the value a thread has in hand is what the register holds
  (`InHand`), and `reg` is `wanted` (`Kept`).  The other theorems look ahead in
  the lists: `Will(s, k, r, b, v, x)` says that field `b` of `r`, which holds `x`,
  is `v` when the accesses before the `k`-th are made.  `Dumped` says so of the
  lines a capture needs, at the access that triggers it, and that the script has
  nothing in hand but the selection of the dump's drive (`Gentle`); it gives
  `SettingsKeptCorrect`.  `Facing` follows a reset from its polarities over its
  switch to its type, `Disks` says that a drive that gets its disk has its whole
  image before, `Asked` that four lines are off and one on at each question.
* **SharingProofs**, `InQueue`.  `RingInv`: the slots from `out_index` to `in_index` hold
  the newest lines in order; with it order, the wake-up property and the
  refinement of `LossyQueue`.
* **HeadControlProofs.**  The types hold whatever the clients do.  The rest is
  for `~Overlap` and no headstep of 0.  `MoveInv` says that one thread at most
  is at work, that the stepper moves only for a thread that waits, and that its
  counter is below its command; so a command never meets a stepper at work, and
  the registers implement `HeadMover` (`MoverImplemented`).  `RecalInv` says for
  each loop of the recalibration where the head can be, from the steps counted
  and those still under way; `RecalibrationCorrect` follows.  `HeadKnownCorrect`
  needs more: what is counted is where the steps under way lead, the drive's
  stops included (`BeliefInv`, `Final`), and a dump's search for track 0, way to
  its first track and way from one to the next bring the head where its loops
  count, or to the last track (`DumpInv`).  Of the drive it takes what
  `DriveAssumption` says: it has fewer tracks than the loops of 100 and 160 steps
  cross, and an Apple II drive (`AppleInv`) fewer than Apple mode's 80.  Nothing
  relates `MaxSteps` to it: drives of 80 to 84 tracks with `MAX_STEPS` 82 are
  covered.  `FromZero` has double stepped dumps start at track 0.
* **FluxCodeProofs.**  `RoundTrip` is the byte code, for bytes of 256 and of 16
  values, by its four lengths.  `IInv` relates ticks read, ticks carried and
  samples converted; `StreamExact`, `TicksKept`, `SamplesCounted` and
  `BuffersLargeEnough` follow, for words, gaps and chunks of any number.
* **InterfaceProofs**, `ImagePreview`.  `HolderInv`: who is in its section holds
  the mutex, which is what `Exclusive` comes to (`HolderAlone`).  Every step of
  every thread keeps it but `UnlockUnheld` when the image thread intrudes, which
  gives `ExclusionKeptCorrect` without hypotheses, and `ExclusiveCorrect` for the
  behaviours in which it never does.
* **InterfaceProofs**, `Clients`.  `InOrderCorrect` is for rings and numbers of
  clients of any size, and has three hypotheses, each needed: `Calm`, and
  `OnePrinter`, since two printers advance the same index without a lock (TLC
  refutes both); `OneConnection`, one life of a command and of a data connection,
  since `network.c:197` never gives the ring of a TCP connection back, and its
  second life reads the first one's (`ClientsAgain.cfg`).  The invariant says
  whose each ring is (`EntryInv`, `OwnerInv`), what each thread works on
  (`ThreadInv`), that nobody prints while somebody leaves (`PauseInv`), that a
  ring the printer has not reached has room for a line (`RoomInv`), that a
  client's ring holds the lines after the last it had up to the last printed
  (`ContentInv`), and that the line in hand is the next (`HandInv`).
  `RingGoesWithClient` has no hypothesis: `FreedInv` says that a websocket
  client's entry and ring are its own, however printers and threads interleave.
* **ConsoleProofs.**  `DumpsKeptCorrect` holds for all texts, sizes and bounds.
  `TextInv`: what is on its way is made of symbols, so that names are.  `DiskInv`:
  each folder with files is that of its dump's parameters.  Since names are
  joined of pieces, that one folder's name tells the dump has to be proved where
  it is so (`LikeIndex`, `ToldSame`, `ClearFolders`: equal joined names have equal
  last digits and equal texts before); auto mode finds every index of its own
  name (`FoundIndex`), a set of indexes up to `MaxIndex` has a greatest
  (`Greatest`), and the next index is above it (`AutoTakes`).
  `ParamsAsSentCorrect` and `AllRunCorrect` are for
  all `OrdinaryTexts`: no quotes in a field (the parser drops them) and no line
  feed, and typed lines that run no dump (what such a dump was asked with is not
  stated).  That a message holds 8 symbols and a line a message follows from the
  code's 512 and 2048.  Lemmas say what the words of a page's line are, cut or
  whole (`copy_param`, `get_param`), and what cutting and joining does to lines.
  In `CommandInv`, `Flow` says which messages are still to come of what is on the
  wire, in the buffer and in the line begun, however they are cut, and
  `Covered` that each dump asked for has run or has its message among those in
  the ring, in hand or to come, and that no other message runs a dump.
  `MCConsole` assumes `OrdinaryTexts`, which TLC evaluates.
* **WsServerProofs.**  For the server as Pauline has it (`Calm`, and no
  `ServerCloses`), any number of clients, entries and frames.  `OwnInv` is the
  heart: an entry in use has one living thread, a living thread an entry of its
  own, and `opened` agrees while the thread speaks; it is what fails with
  `ws_close_client`.  `WireInv` says what may be on its way, `ListenInv` that a
  listening port is served.  `EventsPaired` follows from these, `CloseAnswered`
  with `CloseInv` (who still owes an answer), and `MessagesWhole` with
  `MessageInv`: what was delivered and what is begun are all the frames read, and
  the decoder's state says whether a text message has an unfinished character
  (`Decoded`).  Frames may be text, binary, empty or cut within a character.

Only model-checked: `StrobedAsMeant` and `NoGlitch` of `Board`, about registers
that `setio` may change at any time (they hold for the calls of the run, whose
`setio` does not use those pins); the server that closes clients itself; liveness under
fairness (`CaptureEnds`, `NobodyHangs`, `EveryLineHandled`, `CommandsEnd`,
`EveryLineArrives`, `LeftNothingBehind` but for its second half, `GoneAtLast`,
`PreviewFollows`, `LockGiven`), which is beyond this prover.
The refinement theorems cover the safety part.

## 5. What is not modelled

`PROJECT.json` lists every component with what is left out of it.

* The FPGA at clock level: `DumpStream` has what the program can see of it (a
  lead of tokens over words) and takes for granted that every completed word is
  written.  A push FIFO that overflows because the bus is starved is not there.
* The FPGA's emulated drive (step, select, track playing and recording): logic
  with a state machine per drive, which the program does not see.
* `HeadControl` has one drive, selected throughout, and leaves out `maxtrack`,
  Macintosh drives, dumps without a seek, and the stepper's own `track_pos`
  register, which stops inward steps at 900.
* Socket and thread calls that fail, and a dump's data sent to a data connection.
* `ws_ping`, the sending of frames, base64 and SHA-1 of the websocket server.
* Sounds, screen, fonts, bitmaps, paths, CRC: output, or stateless.
* LZ4 and the other vendored code, of which only LZ4's bound is used; build
  scripts and the system image.

## 6. Plan

1. A composition of `InQueue`, `DumpSession` and `CaptureStream`: a line sent by
   a client takes effect in order.
2. The hypotheses of the theorems made weaker: in `Board` a shell that shares a
   register with the clients but no field at the same time; in `Console` fields
   with quotes; in `Clients` two printers under the lock they lack.
3. `FpgaDumper` and `FloppyTrigger`: the DMA master's arbitration and FIFOs, the
   dumper's pipeline, the trigger at clock level; shown to implement the FPGA's
   actions of `DumpStream`, which gives `Lead` its value.
4. `DriveEmulation`: step, select and track playing of a simulated drive.
5. In `HeadControl`: `maxtrack`, and the dumps that start where the head is.
