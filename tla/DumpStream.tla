------------------------------ MODULE DumpStream ------------------------------
(***************************************************************************)
(* One flux capture after another: the FPGA writes 32-bit words into the   *)
(* DRAM buffer while the dump thread of Pauline_control reads the buffer   *)
(* chunk by chunk, converts each chunk and hands it to the file and to the *)
(* data connection.  Nothing locks the buffer: the thread only looks at    *)
(* the DMA's offset register, and that register counts the ADDRESSES the   *)
(* DMA has handed to the dumper, not the words that reached memory.        *)
(*                                                                         *)
(* Units: every offset is counted in 32-bit words (the code counts bytes,  *)
(* all of them multiples of 4).  A word's value is abstracted to the       *)
(* number of the capture that wrote it; 0 is a cleared word.               *)
(***************************************************************************)
EXTENDS Integers

CONSTANTS
  Chunk,     \* CHUNK_MAX_SIZE, in words
  Group,     \* fast_convert_chunk converts whole groups of this many words
  Lead,      \* addresses the DMA may be ahead of the written words: the
             \* almost-full level of the pop FIFO and the dumper's pipeline
  Wrap,      \* the offset registers count modulo this
  MaxSize,   \* words of DRAM in the model
  Sizes,     \* buffer sizes a capture may ask for, in words
  Captures,  \* bound: captures in one behaviour
  Steady,    \* whether clients send dump_time only between two dumps
  Prompt     \* whether start_dump is done with its registers before the FPGA
             \* completes a word, see LeaveReset

ASSUME ChunkAssumption ==
  /\ Chunk \in Nat \ {0} /\ Group \in Nat \ {0} /\ Lead \in Nat \ {0}
  /\ Chunk % Group = 0
  /\ Lead < Chunk                  \* 3968 FIFO entries, 195312 words a chunk

ASSUME SizeAssumption ==
  /\ Wrap \in Nat /\ MaxSize \in Nat /\ Captures \in Nat
  /\ MaxSize < Wrap
  /\ Sizes \subseteq 2 .. MaxSize
  /\ Steady \in BOOLEAN /\ Prompt \in BOOLEAN

VARIABLES
  \* the FPGA's side
  run,       \* control_reg bits 14 and 4: dumper out of reset, DMA port 4 on
  offset,    \* floppy_dump_cur_track_offset: the next address to hand out
  done,      \* floppy_done bit 4: the stop address was reached
  event,     \* event_state of the index trigger
  timeout,   \* floppy_done bit 5: the index timeout
  ignore,    \* floppy_ctrl_control bit 23: start without waiting for the index
  written,   \* words of this capture that reached the DRAM
  mem,       \* the DRAM: which capture wrote each word
  \* the dump thread's side
  pc,        \* where the dump thread is
  capture,   \* number of the capture, from 1
  size,      \* floppy_dump_buffer_size
  last,      \* last_dump_offset: words handed over so far
  pos,       \* next word fast_convert_chunk reads
  chunkEnd,  \* end of the chunk that is being converted
  handed,    \* words of this capture in the file and on the data connection
  result,    \* how the last capture ended
  \* what a dump, a run of captures, keeps from one capture to the next
  wanted,    \* the buffer size dump_time_per_track asks for now
  stated,    \* the one it asked for when the dump began: state.time_per_track
  unsynced,  \* the dump's ignore_index parameter
  mapped     \* dump_buffer_size: words of the mapping, 0 when there is none

hardware == <<run, offset, done, event, timeout, ignore, written, mem>>
cursor   == <<last, pos, chunkEnd, handed>>
software == <<pc, capture, size, cursor, result>>
setting  == <<wanted, stated, unsynced, mapped>>
vars     == <<hardware, software, setting>>

Words   == 0 .. MaxSize - 1
Stop    == size - 1        \* dma_stop_address: one word before the end
Running == ignore \/ event \* the dumper samples

-----------------------------------------------------------------------------
(* The FPGA                                                                *)

\* Reset of the dumper and of DMA port 4, which control_reg holds while its
\* bits are 0.
DumperReset ==
  /\ run' = FALSE /\ offset' = 0 /\ done' = FALSE
  /\ event' = FALSE /\ timeout' = FALSE /\ written' = 0

\* The DMA hands one address to the dumper.  At the stop address it raises
\* "done" and hands out a token that is never written.
DmaToken ==
  /\ run /\ ~done /\ offset - written < Lead
  /\ IF offset >= Stop
       THEN done' = TRUE /\ offset' = Stop
       ELSE offset' = offset + 1 /\ UNCHANGED done
  /\ UNCHANGED <<run, event, timeout, ignore, written, mem, software, setting>>

\* Sixteen samples are complete: the word goes to the address of its token.
CaptureWord ==
  /\ run /\ Running /\ written < offset
  /\ Prompt => pc # "go"
  /\ mem' = [mem EXCEPT ![written] = capture]
  /\ written' = written + 1
  /\ UNCHANGED <<run, offset, done, event, timeout, ignore, software, setting>>

\* The index pulse, then the trigger delay.
IndexPulse ==
  /\ run /\ ~ignore /\ ~event
  /\ event' = TRUE
  /\ UNCHANGED <<run, offset, done, timeout, ignore, written, mem,
                 software, setting>>

\* Two seconds without an index pulse.
IndexTimeout ==
  /\ run /\ ~ignore /\ ~event /\ ~timeout
  /\ timeout' = TRUE
  /\ UNCHANGED <<run, offset, done, event, ignore, written, mem,
                 software, setting>>

-----------------------------------------------------------------------------
(* The dump thread: readdisk, start_dump, get_next_available_stream_chunk   *)

\* The dump_time command; nothing keeps it from being sent during a dump.
SetDumpTime ==
  /\ Steady => pc = "idle"
  /\ wanted' \in Sizes
  /\ UNCHANGED <<hardware, software, stated, unsynced, mapped>>

\* readdisk notes the time it was asked to capture for.
BeginDump ==
  /\ pc = "idle"
  /\ pc' = "next" /\ stated' = wanted /\ unsynced' \in BOOLEAN
  /\ UNCHANGED <<hardware, capture, size, cursor, result, wanted, mapped>>

\* Mutation: a dump keeps the mapping of the one before.
FreeDumpBuffer_Kept ==
  /\ pc \in {"next", "free"} /\ pc' = "idle"
  /\ UNCHANGED <<hardware, capture, size, cursor, result, setting>>

\* readstop: after the last capture, a stop command or a failed capture.
FreeDumpBuffer ==
  /\ pc \in {"next", "free"}
  /\ pc' = "idle" /\ mapped' = 0
  /\ UNCHANGED <<hardware, capture, size, cursor, result, wanted, stated,
                 unsynced>>

\* Mutation: last_dump_offset is not put back to 0.
StartClear_KeepsLast ==
  /\ pc = "next" /\ capture < Captures
  /\ DumperReset
  /\ pc' = "cleared" /\ capture' = capture + 1
  /\ handed' = 0 /\ result' = "none"
  /\ UNCHANGED <<ignore, mem, size, last, pos, chunkEnd, setting>>

\* start_dump, first locked part: the dumper goes back into reset.
StartClear ==
  /\ pc = "next" /\ capture < Captures
  /\ DumperReset
  /\ pc' = "cleared" /\ capture' = capture + 1
  /\ last' = 0 /\ handed' = 0 /\ result' = "none"
  /\ UNCHANGED <<ignore, mem, size, pos, chunkEnd, setting>>

\* alloc_dump_buffer: the size register, the mapping unless there is one, and
\* the whole buffer is zeroed.
AllocDumpBuffer ==
  /\ pc = "cleared"
  /\ size' = wanted
  /\ mapped' = IF mapped = 0 THEN wanted ELSE mapped
  /\ mem' = [k \in Words |-> IF k < wanted THEN 0 ELSE mem[k]]
  /\ pc' = "zeroed"
  /\ UNCHANGED <<run, offset, done, event, timeout, ignore, written,
                 capture, cursor, result, wanted, stated, unsynced>>

\* start_dump, second locked part: control_reg lets the dumper out of reset,
\* still in the index mode of the capture before.
LeaveReset ==
  /\ pc = "zeroed"
  /\ run' = TRUE /\ pc' = "go"
  /\ UNCHANGED <<offset, done, event, timeout, ignore, written, mem,
                 capture, size, cursor, result, setting>>

\* Then floppy_ctrl_control gets the index mode; while the index is ignored
\* the trigger is held clear.
SetIndexMode ==
  /\ pc = "go"
  /\ ignore' = unsynced
  /\ event' = (event /\ ~unsynced) /\ timeout' = (timeout /\ ~unsynced)
  /\ pc' = "poll"
  /\ UNCHANGED <<run, offset, done, written, mem, capture, size, cursor,
                 result, setting>>

\* Mutation: anything new is enough.
Available_Any == offset # last

\* The 1 ms polling loop is left; the subtraction is unsigned.
Available == (offset - last) % Wrap >= Chunk

\* Mutation: the index timeout is not waited for.
WaitOver_NoTimeout ==
  /\ pc = "poll" /\ (Available \/ done)
  /\ pc' = "check"
  /\ UNCHANGED <<hardware, capture, size, cursor, result, setting>>

WaitOver ==
  /\ pc = "poll"
  /\ Available \/ done \/ timeout
  /\ pc' = "check"
  /\ UNCHANGED <<hardware, capture, size, cursor, result, setting>>

\* A chunk that cannot be had ends the capture, and the dump with it; the
\* timeout bit tells which of the two errors is reported.
Fail ==
  /\ pc' = "free" /\ last' = size
  /\ result' = IF timeout THEN "noindex" ELSE "internal"
  /\ UNCHANGED <<hardware, capture, size, pos, chunkEnd, handed, setting>>

GiveUp == pc = "check" /\ timeout /\ Fail

\* generate_chunk finds no memory.
ConvertFails == pc = "convert" /\ Fail

ChunkSize == IF size - last > Chunk THEN Chunk ELSE size - last - 1

\* Mutation: the index timeout is not looked at.
GetChunk_NoTimeout ==
  /\ pc = "check"
  /\ pc' = "convert" /\ pos' = last /\ chunkEnd' = last + ChunkSize
  /\ UNCHANGED <<hardware, capture, size, last, handed, result, setting>>

GetChunk ==
  /\ pc = "check" /\ ~timeout
  /\ pc' = "convert" /\ pos' = last /\ chunkEnd' = last + ChunkSize
  /\ UNCHANGED <<hardware, capture, size, last, handed, result, setting>>

\* Where fast_convert_chunk stops: the chunk's length in whole groups.
ConvertEnd == last + ((chunkEnd - last + Group - 1) \div Group) * Group

ConvertWord ==
  /\ pc = "convert" /\ pos < ConvertEnd
  /\ pos' = pos + 1
  /\ UNCHANGED <<hardware, pc, capture, size, last, chunkEnd, handed, result,
                 setting>>

\* The chunk goes to the file and to the data connection.
DeliverChunk ==
  /\ pc = "convert" /\ pos >= ConvertEnd
  /\ pc' = "loop" /\ last' = chunkEnd /\ handed' = chunkEnd
  /\ UNCHANGED <<hardware, capture, size, pos, chunkEnd, result, setting>>

\* The test of readdisk's while loop.
NextChunk ==
  /\ pc = "loop" /\ last < size - 1
  /\ pc' = "poll"
  /\ UNCHANGED <<hardware, capture, size, cursor, result, setting>>

CaptureDone ==
  /\ pc = "loop" /\ ~(last < size - 1)
  /\ pc' = "next" /\ result' = "complete"
  /\ UNCHANGED <<hardware, capture, size, cursor, setting>>

-----------------------------------------------------------------------------
Init ==
  /\ run = FALSE /\ offset = 0 /\ done = FALSE /\ event = FALSE
  /\ timeout = FALSE /\ ignore = FALSE /\ written = 0
  /\ mem = [k \in Words |-> 0]
  /\ pc = "idle" /\ capture = 0 /\ size \in Sizes /\ last = 0 /\ pos = 0
  /\ chunkEnd = 0 /\ handed = 0 /\ result = "none"
  /\ wanted \in Sizes /\ stated = wanted /\ unsynced = FALSE /\ mapped = 0

Dump       == BeginDump \/ StartClear \/ FreeDumpBuffer
DumpThread == \/ AllocDumpBuffer \/ LeaveReset \/ SetIndexMode
              \/ WaitOver \/ GiveUp \/ GetChunk \/ ConvertWord
              \/ ConvertFails \/ DeliverChunk \/ NextChunk \/ CaptureDone
Fpga       == DmaToken \/ CaptureWord \/ IndexPulse \/ IndexTimeout

Next == SetDumpTime \/ Dump \/ DumpThread \/ Fpga

\* The thread and the two pipelines of the FPGA keep going; a trigger that
\* sees no pulse counts its two seconds down.  A pulse may never come.
Fairness ==
  /\ WF_vars(DumpThread) /\ WF_vars(DmaToken) /\ WF_vars(CaptureWord)
  /\ WF_vars(IndexTimeout)

Spec == Init /\ [][Next]_vars /\ Fairness

-----------------------------------------------------------------------------
TypeOK ==
  /\ run \in BOOLEAN /\ done \in BOOLEAN /\ event \in BOOLEAN
  /\ timeout \in BOOLEAN /\ ignore \in BOOLEAN
  /\ offset \in 0 .. MaxSize - 1 /\ written \in 0 .. MaxSize - 1
  /\ mem \in [Words -> 0 .. Captures]
  /\ pc \in {"idle", "next", "cleared", "zeroed", "go", "poll", "check",
             "convert", "loop", "free"}
  /\ capture \in 0 .. Captures /\ size \in Sizes
  /\ last \in 0 .. MaxSize /\ chunkEnd \in 0 .. MaxSize
  /\ pos \in 0 .. MaxSize + Group /\ handed \in 0 .. MaxSize
  /\ result \in {"none", "complete", "noindex", "internal"}
  /\ wanted \in Sizes /\ stated \in Sizes /\ unsynced \in BOOLEAN
  /\ mapped \in Sizes \cup {0}

\* A chunk is never empty, never reaches the last word of the buffer (which
\* the FPGA does not write) and never goes past it: the "chunk_size > 0" test
\* of get_next_available_stream_chunk never fails, whatever the size is.
ChunkInBuffer ==
  pc = "convert" => last < chunkEnd /\ chunkEnd <= size - 1

\* What the poll of the offset register buys: of the words of a chunk, only
\* the last Lead can still be missing from memory when they are converted.
OnlyTailMissing ==
  pc = "convert" /\ pos < chunkEnd - Lead => mem[pos] = capture

\* A word of the chunk is never left over from an earlier capture: the buffer
\* is zeroed while the dumper is held in reset.
NoStaleWord ==
  pc = "convert" /\ pos < chunkEnd => mem[pos] \in {0, capture}

\* What fast_convert_chunk is given, though nothing is locked: a chunk that is
\* there, in the buffer, and of this capture but for its last few words.
ChunkSound == ChunkInBuffer /\ OnlyTailMissing /\ NoStaleWord

\* A chunk is handed over only after the index pulse (unless the index is
\* ignored), and never after the timeout was raised.
ChunkAfterIndex ==
  pc = "convert" => Running /\ ~timeout

\* A capture that ends as complete handed over the whole buffer but its last
\* word, all of it after the index pulse; one that ends as "No index signal"
\* handed over nothing.
EndsAreHonest ==
  /\ result = "complete" => handed = size - 1 /\ Running /\ ~timeout
  /\ result = "noindex" => handed = 0

\* However pulse, timeout and the end of the capture race with the polls of
\* get_next_available_stream_chunk, what it reports of the index is true.
IndexHonest == ChunkAfterIndex /\ EndsAreHonest

\* Chunks follow each other without gap or overlap: what is handed over begins
\* where the last chunk ended, and is a chunk that was wholly converted.
Gapless ==
  [][handed' > handed =>
       /\ pc = "convert" /\ handed = last
       /\ handed' = chunkEnd /\ pos >= chunkEnd]_vars

\* Every capture that was started ends.
CaptureEnds == (pc = "zeroed") ~> (pc \in {"next", "free"})

Capturing == pc \in {"zeroed", "go", "poll", "check", "convert", "loop"}

\* What is zeroed and read lies in the mapping, though alloc_dump_buffer keeps
\* the mapping of an earlier capture whatever its size.
MappingCovers == Capturing => size <= mapped

\* A capture takes the time that the metadata of its chunks states.
TimeAsStated == Capturing => size = stated

\* Nothing but the words of this capture is converted into its stream: also
\* the words read to fill the last group, past the end of the chunk.
OnlyThisCapture ==
  pc = "convert" /\ pos < ConvertEnd => mem[pos] \in {0, capture}

\* The metadata's "index_synced 1" is true: with the index not ignored, no word
\* is captured before the index.
SyncedToIndex == pc \in {"poll", "check"} /\ ~Running => written = 0

\* The captures implement the promise of CaptureStream.
Stream == INSTANCE CaptureStream WITH
  Lengths   <- {s - 1 : s \in Sizes},
  captured  <- written,
  delivered <- handed,
  length    <- size - 1,
  verdict   <- IF result = "none" THEN "open" ELSE result

ImplementsStream == Stream!Spec

\* Every buffer size is beyond what the DMA can hand out ahead of the capture:
\* 3968 FIFO entries are 2.6 ms of capture at 25 MHz, 1.3 ms at 50 MHz.
LongCaptures == \A s \in Sizes : s > Lead

=============================================================================
