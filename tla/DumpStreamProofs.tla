-------------------------- MODULE DumpStreamProofs --------------------------
(***************************************************************************)
(* Theorems about DumpStream, for every chunk length, FIFO depth, buffer   *)
(* size and number of captures.                                            *)
(***************************************************************************)
EXTENDS DumpStream, TLAPS

\* Facts of arithmetic the unsigned comparison and the rounding to whole
\* groups rest on.
LEMMA SmallMod ==
  ASSUME NEW a \in Nat, NEW w \in Nat, a < w
  PROVE  a % w = a
  BY SMT

LEMMA RoundUp ==
  ASSUME NEW n \in Nat, NEW g \in Nat \ {0}
  PROVE  /\ ((n + g - 1) \div g) * g \in Nat
         /\ n <= ((n + g - 1) \div g) * g
         /\ ((n + g - 1) \div g) * g < n + g
  BY SMT

-----------------------------------------------------------------------------
(* The inductive invariant, one part for each boundary between the two      *)
(* sides.                                                                   *)

\* The registers of the FPGA against each other: addresses run ahead of words
\* by at most Lead, and "done" means the last address was handed out.
RegistersInv ==
  /\ written <= offset /\ offset - written <= Lead /\ offset <= Stop
  /\ done => offset = Stop /\ Stop - written < Lead
  /\ ~run => offset = 0 /\ written = 0 /\ ~done /\ ~event /\ ~timeout

\* The dumper is in reset exactly while the buffer is being prepared.
ResetInv ==
  /\ pc \in {"cleared", "zeroed"} => ~run /\ last = 0
  /\ pc = "go" => run /\ last = 0
  /\ pc \in {"poll", "check", "convert", "loop"} => run

\* Memory: this capture's words, then zeros up to the end of the buffer.
MemoryInv ==
  /\ \A k \in Words : k < written => mem[k] = capture
  /\ pc # "cleared" =>
       \A k \in Words : written <= k /\ k < size => mem[k] = 0

\* The reader never passes the addresses handed out, nor the stop address.
ReaderInv ==
  /\ pc \in {"poll", "check"} => last < Stop
  /\ pc \in {"poll", "check", "loop"} => last <= offset /\ last <= Stop
  /\ pc = "check" => offset - last >= Chunk \/ done \/ timeout
  /\ pc = "convert" =>
       /\ last < chunkEnd /\ chunkEnd <= Stop /\ chunkEnd <= offset
       /\ last <= pos /\ pos <= ConvertEnd

\* last_dump_offset is what was handed over, as long as the capture goes on.
HandedInv ==
  /\ pc \in {"cleared", "zeroed", "go"} => handed = 0
  /\ pc \in {"poll", "check", "convert", "loop"} => handed = last

IInv ==
  /\ TypeOK /\ RegistersInv /\ ResetInv /\ MemoryInv /\ ReaderInv
  /\ HandedInv

\* The trigger against the reader: nothing is captured before the index, and
\* whatever was handed over was handed over after it.
TriggerInv ==
  /\ pc = "go" \/ ~Running => written = 0
  /\ pc \in {"convert", "loop"} => Running /\ ~timeout
  /\ pc = "convert" => written > 0
  /\ pc \in {"poll", "check"} /\ last > 0 => Running /\ ~timeout
  /\ result # "none" => pc \in {"idle", "next", "free"}
  /\ result = "complete" => handed = Stop /\ Running /\ ~timeout
  /\ result = "noindex" => handed = 0

-----------------------------------------------------------------------------
\* The parts of the initial state.
LEMMA InitIInv == Init => IInv
<1> SUFFICES ASSUME Init PROVE IInv
  OBVIOUS
<1> USE ChunkAssumption, SizeAssumption
<1>1. size \in 2 .. MaxSize
  BY DEF Init
<1>2. TypeOK
  <2>1. mem \in [Words -> 0 .. Captures]
    BY DEF Init
  <2>2. /\ offset \in 0 .. MaxSize - 1 /\ written \in 0 .. MaxSize - 1
        /\ last \in 0 .. MaxSize /\ chunkEnd \in 0 .. MaxSize
        /\ pos \in 0 .. MaxSize + Group /\ capture \in 0 .. Captures
        /\ handed \in 0 .. MaxSize
    BY <1>1 DEF Init
  <2>3. /\ run \in BOOLEAN /\ done \in BOOLEAN /\ event \in BOOLEAN
        /\ timeout \in BOOLEAN /\ ignore \in BOOLEAN
    BY DEF Init
  <2> QED
    BY <2>1, <2>2, <2>3 DEF Init, TypeOK
<1>3. RegistersInv /\ ResetInv /\ ReaderInv /\ HandedInv
  BY <1>1 DEF Init, RegistersInv, ResetInv, ReaderInv, HandedInv, Stop
<1>4. MemoryInv
  BY DEF Init, MemoryInv, Words
<1> QED
  BY <1>2, <1>3, <1>4 DEF IInv

-----------------------------------------------------------------------------
\* Every step keeps the invariant: one step of the proof per action.
LEMMA StepIInv == IInv /\ [Next]_vars => IInv'
<1> SUFFICES ASSUME IInv, [Next]_vars PROVE IInv'
  OBVIOUS
<1> USE ChunkAssumption, SizeAssumption
    DEF IInv, hardware, software, cursor, setting
<1>0. /\ size \in Nat /\ 2 <= size /\ size <= MaxSize
  BY DEF TypeOK
<1>1. CASE StartClear
  <2> USE <1>0, <1>1 DEF StartClear, DumperReset
  <2>1. TypeOK'
    <3>1. /\ run' \in BOOLEAN /\ done' \in BOOLEAN /\ event' \in BOOLEAN
          /\ timeout' \in BOOLEAN /\ ignore' \in BOOLEAN
      BY DEF TypeOK
    <3>2. /\ offset' \in 0 .. MaxSize - 1 /\ written' \in 0 .. MaxSize - 1
          /\ last' \in 0 .. MaxSize /\ capture' \in 0 .. Captures
          /\ handed' \in 0 .. MaxSize
      BY DEF TypeOK
    <3> QED
      BY <3>1, <3>2 DEF TypeOK
  <2>2. RegistersInv'
    BY DEF TypeOK, RegistersInv, ResetInv, Stop
  <2>3. ResetInv'
    BY DEF TypeOK, ResetInv
  <2>4. MemoryInv'
    BY DEF TypeOK, MemoryInv, RegistersInv, Words, Stop
  <2>5. ReaderInv'
    BY DEF TypeOK, ReaderInv, RegistersInv, ResetInv, Stop, ConvertEnd
  <2>6. HandedInv'
    BY DEF TypeOK, HandedInv, ResetInv, ReaderInv
  <2> QED
    BY <2>1, <2>2, <2>3, <2>4, <2>5, <2>6
<1>2. CASE AllocDumpBuffer
  <2> USE <1>0, <1>2 DEF AllocDumpBuffer
  <2>1. TypeOK'
    BY DEF TypeOK, Words, Stop, Running
  <2>2. RegistersInv'
    BY DEF TypeOK, RegistersInv, ResetInv, Stop
  <2>3. ResetInv'
    BY DEF TypeOK, ResetInv
  <2>4. MemoryInv'
    <3>1. written = 0
      BY DEF ResetInv, RegistersInv
    <3>2. mem' = [k \in Words |-> IF k < size' THEN 0 ELSE mem[k]]
      OBVIOUS
    <3> QED
      BY <3>1, <3>2 DEF TypeOK, MemoryInv, Words
  <2>5. ReaderInv'
    BY DEF TypeOK, ReaderInv, RegistersInv, ResetInv, Stop, ConvertEnd
  <2>6. HandedInv'
    BY DEF TypeOK, HandedInv, ResetInv, ReaderInv
  <2> QED
    BY <2>1, <2>2, <2>3, <2>4, <2>5, <2>6
<1>3. CASE LeaveReset
  <2> USE <1>0, <1>3 DEF LeaveReset
  <2>1. TypeOK'
    BY DEF TypeOK, Words, Stop, Running
  <2>2. RegistersInv'
    BY DEF TypeOK, RegistersInv, ResetInv, Stop
  <2>3. ResetInv'
    BY DEF TypeOK, ResetInv
  <2>4. MemoryInv'
    BY DEF TypeOK, MemoryInv, RegistersInv, Words, Stop
  <2>5. ReaderInv'
    BY DEF TypeOK, ReaderInv, RegistersInv, ResetInv, Stop, ConvertEnd
  <2>6. HandedInv'
    BY DEF TypeOK, HandedInv, ResetInv, ReaderInv
  <2> QED
    BY <2>1, <2>2, <2>3, <2>4, <2>5, <2>6
<1>4. CASE WaitOver
  <2> USE <1>0, <1>4 DEF WaitOver, Available
  <2>1. TypeOK'
    BY DEF TypeOK, Words, Stop, Running
  <2>2. RegistersInv'
    BY DEF TypeOK, RegistersInv, ResetInv, Stop
  <2>3. ResetInv'
    BY DEF TypeOK, ResetInv
  <2>4. MemoryInv'
    BY DEF TypeOK, MemoryInv, RegistersInv, Words, Stop
  <2>5. ReaderInv'
    BY DEF TypeOK, ReaderInv, RegistersInv, ResetInv, Stop, ConvertEnd
  <2>6. HandedInv'
    BY DEF TypeOK, HandedInv, ResetInv, ReaderInv
  <2> QED
    BY <2>1, <2>2, <2>3, <2>4, <2>5, <2>6
<1>5. CASE GiveUp
  <2> USE <1>0, <1>5 DEF GiveUp, Fail
  <2>1. TypeOK'
    BY DEF TypeOK, Words, Stop, Running
  <2>2. RegistersInv'
    BY DEF TypeOK, RegistersInv, ResetInv, Stop
  <2>3. ResetInv'
    BY DEF TypeOK, ResetInv
  <2>4. MemoryInv'
    BY DEF TypeOK, MemoryInv, RegistersInv, Words, Stop
  <2>5. ReaderInv'
    BY DEF TypeOK, ReaderInv, RegistersInv, ResetInv, Stop, ConvertEnd
  <2>6. HandedInv'
    BY DEF TypeOK, HandedInv, ResetInv, ReaderInv
  <2> QED
    BY <2>1, <2>2, <2>3, <2>4, <2>5, <2>6
<1>6. CASE GetChunk
  <2> USE <1>0, <1>6 DEF GetChunk, ChunkSize, ConvertEnd
  <2>1. TypeOK'
    BY DEF TypeOK, Words, Stop, Running
  <2>2. RegistersInv'
    BY DEF TypeOK, RegistersInv, ResetInv, Stop
  <2>3. ResetInv'
    BY DEF TypeOK, ResetInv
  <2>4. MemoryInv'
    BY DEF TypeOK, MemoryInv, RegistersInv, Words, Stop
  <2>5. ReaderInv'
    BY DEF TypeOK, ReaderInv, RegistersInv, ResetInv, Stop, ConvertEnd
  <2>6. HandedInv'
    BY DEF TypeOK, HandedInv, ResetInv, ReaderInv
  <2> QED
    BY <2>1, <2>2, <2>3, <2>4, <2>5, <2>6
<1>7. CASE ConvertWord
  <2> USE <1>0, <1>7 DEF ConvertWord, ConvertEnd
  <2>1. TypeOK'
    BY DEF TypeOK, Words, Stop, Running
  <2>2. RegistersInv'
    BY DEF TypeOK, RegistersInv, ResetInv, Stop
  <2>3. ResetInv'
    BY DEF TypeOK, ResetInv
  <2>4. MemoryInv'
    BY DEF TypeOK, MemoryInv, RegistersInv, Words, Stop
  <2>5. ReaderInv'
    BY DEF TypeOK, ReaderInv, RegistersInv, ResetInv, Stop, ConvertEnd
  <2>6. HandedInv'
    BY DEF TypeOK, HandedInv, ResetInv, ReaderInv
  <2> QED
    BY <2>1, <2>2, <2>3, <2>4, <2>5, <2>6
<1>8. CASE DeliverChunk
  <2> USE <1>0, <1>8 DEF DeliverChunk, ConvertEnd
  <2>1. TypeOK'
    BY DEF TypeOK, Words, Stop, Running
  <2>2. RegistersInv'
    BY DEF TypeOK, RegistersInv, ResetInv, Stop
  <2>3. ResetInv'
    BY DEF TypeOK, ResetInv
  <2>4. MemoryInv'
    BY DEF TypeOK, MemoryInv, RegistersInv, Words, Stop
  <2>5. ReaderInv'
    BY DEF TypeOK, ReaderInv, RegistersInv, ResetInv, Stop, ConvertEnd
  <2>6. HandedInv'
    BY DEF TypeOK, HandedInv, ResetInv, ReaderInv
  <2> QED
    BY <2>1, <2>2, <2>3, <2>4, <2>5, <2>6
<1>9. CASE NextChunk
  <2> USE <1>0, <1>9 DEF NextChunk
  <2>1. TypeOK'
    BY DEF TypeOK, Words, Stop, Running
  <2>2. RegistersInv'
    BY DEF TypeOK, RegistersInv, ResetInv, Stop
  <2>3. ResetInv'
    BY DEF TypeOK, ResetInv
  <2>4. MemoryInv'
    BY DEF TypeOK, MemoryInv, RegistersInv, Words, Stop
  <2>5. ReaderInv'
    BY DEF TypeOK, ReaderInv, RegistersInv, ResetInv, Stop, ConvertEnd
  <2>6. HandedInv'
    BY DEF TypeOK, HandedInv, ResetInv, ReaderInv
  <2> QED
    BY <2>1, <2>2, <2>3, <2>4, <2>5, <2>6
<1>10. CASE CaptureDone
  <2> USE <1>0, <1>10 DEF CaptureDone
  <2>1. TypeOK'
    BY DEF TypeOK, Words, Stop, Running
  <2>2. RegistersInv'
    BY DEF TypeOK, RegistersInv, ResetInv, Stop
  <2>3. ResetInv'
    BY DEF TypeOK, ResetInv
  <2>4. MemoryInv'
    BY DEF TypeOK, MemoryInv, RegistersInv, Words, Stop
  <2>5. ReaderInv'
    BY DEF TypeOK, ReaderInv, RegistersInv, ResetInv, Stop, ConvertEnd
  <2>6. HandedInv'
    BY DEF TypeOK, HandedInv, ResetInv, ReaderInv
  <2> QED
    BY <2>1, <2>2, <2>3, <2>4, <2>5, <2>6
<1>11. CASE DmaToken
  <2> USE <1>0, <1>11 DEF DmaToken
  <2>1. TypeOK'
    <3>1. offset' \in 0 .. MaxSize - 1
      BY DEF TypeOK, RegistersInv, Stop
    <3>2. done' \in BOOLEAN
      BY DEF TypeOK
    <3> QED
      BY <3>1, <3>2 DEF TypeOK
  <2>2. RegistersInv'
    BY DEF TypeOK, RegistersInv, ResetInv, Stop
  <2>3. ResetInv'
    BY DEF TypeOK, ResetInv
  <2>4. MemoryInv'
    BY DEF TypeOK, MemoryInv, RegistersInv, Words, Stop
  <2>5. ReaderInv'
    BY DEF TypeOK, ReaderInv, RegistersInv, ResetInv, Stop, ConvertEnd
  <2>6. HandedInv'
    BY DEF TypeOK, HandedInv, ResetInv, ReaderInv
  <2> QED
    BY <2>1, <2>2, <2>3, <2>4, <2>5, <2>6
<1>12. CASE CaptureWord
  <2> USE <1>0, <1>12 DEF CaptureWord
  <2>1. TypeOK'
    BY DEF TypeOK, Words, Stop, Running
  <2>2. RegistersInv'
    BY DEF TypeOK, RegistersInv, ResetInv, Stop
  <2>3. ResetInv'
    BY DEF TypeOK, ResetInv
  <2>4. MemoryInv'
    BY DEF TypeOK, MemoryInv, RegistersInv, Words, Stop
  <2>5. ReaderInv'
    BY DEF TypeOK, ReaderInv, RegistersInv, ResetInv, Stop, ConvertEnd
  <2>6. HandedInv'
    BY DEF TypeOK, HandedInv, ResetInv, ReaderInv
  <2> QED
    BY <2>1, <2>2, <2>3, <2>4, <2>5, <2>6
<1>13. CASE IndexPulse
  <2> USE <1>0, <1>13 DEF IndexPulse
  <2>1. TypeOK'
    BY DEF TypeOK, Words, Stop, Running
  <2>2. RegistersInv'
    BY DEF TypeOK, RegistersInv, ResetInv, Stop
  <2>3. ResetInv'
    BY DEF TypeOK, ResetInv
  <2>4. MemoryInv'
    BY DEF TypeOK, MemoryInv, RegistersInv, Words, Stop
  <2>5. ReaderInv'
    BY DEF TypeOK, ReaderInv, RegistersInv, ResetInv, Stop, ConvertEnd
  <2>6. HandedInv'
    BY DEF TypeOK, HandedInv, ResetInv, ReaderInv
  <2> QED
    BY <2>1, <2>2, <2>3, <2>4, <2>5, <2>6
<1>14. CASE IndexTimeout
  <2> USE <1>0, <1>14 DEF IndexTimeout
  <2>1. TypeOK'
    BY DEF TypeOK, Words, Stop, Running
  <2>2. RegistersInv'
    BY DEF TypeOK, RegistersInv, ResetInv, Stop
  <2>3. ResetInv'
    BY DEF TypeOK, ResetInv
  <2>4. MemoryInv'
    BY DEF TypeOK, MemoryInv, RegistersInv, Words, Stop
  <2>5. ReaderInv'
    BY DEF TypeOK, ReaderInv, RegistersInv, ResetInv, Stop, ConvertEnd
  <2>6. HandedInv'
    BY DEF TypeOK, HandedInv, ResetInv, ReaderInv
  <2> QED
    BY <2>1, <2>2, <2>3, <2>4, <2>5, <2>6
<1>15. CASE SetDumpTime
  <2> USE <1>0, <1>15 DEF SetDumpTime
  <2>1. TypeOK'
    BY DEF TypeOK, Words, Stop, Running
  <2>2. RegistersInv'
    BY DEF TypeOK, RegistersInv, ResetInv, Stop
  <2>3. ResetInv'
    BY DEF TypeOK, ResetInv
  <2>4. MemoryInv'
    BY DEF TypeOK, MemoryInv, RegistersInv, Words, Stop
  <2>5. ReaderInv'
    BY DEF TypeOK, ReaderInv, RegistersInv, ResetInv, Stop, ConvertEnd
  <2>6. HandedInv'
    BY DEF TypeOK, HandedInv, ResetInv, ReaderInv
  <2> QED
    BY <2>1, <2>2, <2>3, <2>4, <2>5, <2>6
<1>16. CASE BeginDump
  <2> USE <1>0, <1>16 DEF BeginDump
  <2>1. TypeOK'
    BY DEF TypeOK, Words, Stop, Running
  <2>2. RegistersInv'
    BY DEF TypeOK, RegistersInv, ResetInv, Stop
  <2>3. ResetInv'
    BY DEF TypeOK, ResetInv
  <2>4. MemoryInv'
    BY DEF TypeOK, MemoryInv, RegistersInv, Words, Stop
  <2>5. ReaderInv'
    BY DEF TypeOK, ReaderInv, RegistersInv, ResetInv, Stop, ConvertEnd
  <2>6. HandedInv'
    BY DEF TypeOK, HandedInv, ResetInv, ReaderInv
  <2> QED
    BY <2>1, <2>2, <2>3, <2>4, <2>5, <2>6
<1>17. CASE FreeDumpBuffer
  <2> USE <1>0, <1>17 DEF FreeDumpBuffer
  <2>1. TypeOK'
    BY DEF TypeOK, Words, Stop, Running
  <2>2. RegistersInv'
    BY DEF TypeOK, RegistersInv, ResetInv, Stop
  <2>3. ResetInv'
    BY DEF TypeOK, ResetInv
  <2>4. MemoryInv'
    BY DEF TypeOK, MemoryInv, RegistersInv, Words, Stop
  <2>5. ReaderInv'
    BY DEF TypeOK, ReaderInv, RegistersInv, ResetInv, Stop, ConvertEnd
  <2>6. HandedInv'
    BY DEF TypeOK, HandedInv, ResetInv, ReaderInv
  <2> QED
    BY <2>1, <2>2, <2>3, <2>4, <2>5, <2>6
<1>19. CASE SetIndexMode
  <2> USE <1>0, <1>19 DEF SetIndexMode
  <2>1. TypeOK'
    BY DEF TypeOK, Words, Stop, Running
  <2>2. RegistersInv'
    BY DEF TypeOK, RegistersInv, ResetInv, Stop
  <2>3. ResetInv'
    BY DEF TypeOK, ResetInv
  <2>4. MemoryInv'
    BY DEF TypeOK, MemoryInv, RegistersInv, Words, Stop
  <2>5. ReaderInv'
    BY DEF TypeOK, ReaderInv, RegistersInv, ResetInv, Stop, ConvertEnd
  <2>6. HandedInv'
    BY DEF TypeOK, HandedInv, ResetInv, ReaderInv
  <2> QED
    BY <2>1, <2>2, <2>3, <2>4, <2>5, <2>6
<1>20. CASE ConvertFails
  <2> USE <1>0, <1>20 DEF ConvertFails, Fail
  <2>1. TypeOK'
    BY DEF TypeOK, Words, Stop, Running
  <2>2. RegistersInv'
    BY DEF TypeOK, RegistersInv, ResetInv, Stop
  <2>3. ResetInv'
    BY DEF TypeOK, ResetInv
  <2>4. MemoryInv'
    BY DEF TypeOK, MemoryInv, RegistersInv, Words, Stop
  <2>5. ReaderInv'
    BY DEF TypeOK, ReaderInv, RegistersInv, ResetInv, Stop, ConvertEnd
  <2>6. HandedInv'
    BY DEF TypeOK, HandedInv, ResetInv, ReaderInv
  <2> QED
    BY <2>1, <2>2, <2>3, <2>4, <2>5, <2>6
<1>21. CASE UNCHANGED vars
  BY <1>21 DEF vars, TypeOK, RegistersInv, ResetInv,
     MemoryInv, ReaderInv, HandedInv, Stop, ConvertEnd
<1> QED
  BY <1>1, <1>2, <1>3, <1>4, <1>5, <1>6, <1>7, <1>8, <1>9, <1>10, <1>11,
     <1>12, <1>13, <1>14, <1>15, <1>16, <1>17, <1>19, <1>20, <1>21
     DEF Next, Dump, DumpThread, Fpga

-----------------------------------------------------------------------------
\* The invariant holds in every state of every behaviour: registers, memory and
\* reader keep step whatever the interleaving of the FPGA and the thread.
THEOREM IInvCorrect == Spec => []IInv
<1>1. Init => IInv
  BY InitIInv
<1>2. IInv /\ [Next]_vars => IInv'
  BY StepIInv
<1> QED
  BY <1>1, <1>2, PTL DEF Spec

\* The registers stay in their ranges: the offset never passes the stop
\* address, whatever size was programmed.
THEOREM TypeCorrect == Spec => []TypeOK
<1>1. IInv => TypeOK
  BY DEF IInv
<1> QED
  BY <1>1, IInvCorrect, PTL

\* Every chunk is non-empty and lies before the word the FPGA never writes.
THEOREM ChunkInBufferCorrect == Spec => []ChunkInBuffer
<1>1. IInv => ChunkInBuffer
  BY DEF IInv, ReaderInv, ChunkInBuffer, Stop
<1> QED
  BY <1>1, IInvCorrect, PTL

\* Every word a chunk hands over is of this capture, or zero, and it is zero
\* only within the last Lead words of its chunk.
THEOREM ChunkContents == Spec => [](OnlyTailMissing /\ NoStaleWord)
<1>1. ASSUME IInv PROVE OnlyTailMissing /\ NoStaleWord
  <2> USE <1>1, ChunkAssumption, SizeAssumption
  <2>1. SUFFICES ASSUME pc = "convert", pos < chunkEnd
                 PROVE  /\ pos < chunkEnd - Lead => mem[pos] = capture
                        /\ mem[pos] \in {0, capture}
    BY DEF OnlyTailMissing, NoStaleWord, IInv, TypeOK
  <2>2. pos \in Words /\ pos < size /\ chunkEnd <= written + Lead
    BY <2>1 DEF IInv, TypeOK, ReaderInv, RegistersInv, Words, Stop
  <2> QED
    BY <2>1, <2>2 DEF IInv, TypeOK, MemoryInv
<1> QED
  BY <1>1, IInvCorrect, PTL

\* What fast_convert_chunk is given is sound, though the reader looks only at
\* the address counter.
THEOREM ChunkSoundCorrect == Spec => []ChunkSound
<1>1. ChunkInBuffer /\ OnlyTailMissing /\ NoStaleWord => ChunkSound
  BY DEF ChunkSound
<1> QED
  BY <1>1, ChunkInBufferCorrect, ChunkContents, PTL

-----------------------------------------------------------------------------
\* A chunk found available proves that words were captured, hence that the
\* index has passed: Lead addresses alone never make a chunk, nor a buffer.
LEMMA AvailableMeansCaptured ==
  ASSUME LongCaptures, IInv, TriggerInv, pc = "check", ~timeout
  PROVE  Running /\ written > 0
<1> USE ChunkAssumption, SizeAssumption
<1>1. /\ size \in Nat /\ size > Lead /\ last \in Nat
      /\ offset \in Nat /\ written \in Nat
  BY DEF IInv, TypeOK, LongCaptures
<1>2. written > 0
  <2>1. CASE offset - last >= Chunk
    BY <1>1, <2>1 DEF IInv, RegistersInv
  <2>2. CASE done
    BY <1>1, <2>2 DEF IInv, RegistersInv, Stop
  <2> QED
    BY <2>1, <2>2 DEF IInv, ReaderInv
<1> QED
  BY <1>1, <1>2 DEF TriggerInv

LEMMA StepTriggerInv ==
  LongCaptures /\ Prompt /\ IInv /\ TriggerInv /\ [Next]_vars => TriggerInv'
<1> SUFFICES ASSUME LongCaptures, Prompt, IInv, TriggerInv, [Next]_vars
             PROVE  TriggerInv'
  OBVIOUS
<1> USE ChunkAssumption, SizeAssumption
    DEF TriggerInv, Running, Stop, IInv, ReaderInv, HandedInv, ResetInv,
        RegistersInv, hardware, software, cursor, setting
<1>0. size \in Nat /\ last \in Nat /\ written \in Nat
  BY DEF IInv, TypeOK
<1>1. CASE StartClear
  BY <1>0, <1>1 DEF StartClear, DumperReset
<1>2. CASE AllocDumpBuffer
  BY <1>0, <1>2 DEF AllocDumpBuffer
<1>3. CASE LeaveReset
  BY <1>0, <1>3 DEF LeaveReset
<1>4. CASE WaitOver
  BY <1>0, <1>4 DEF WaitOver
<1>5. CASE GiveUp
  BY <1>0, <1>5 DEF GiveUp, Fail
<1>6. CASE GetChunk
  BY <1>0, <1>6, AvailableMeansCaptured DEF GetChunk
<1>7. CASE ConvertWord
  BY <1>0, <1>7 DEF ConvertWord
<1>8. CASE DeliverChunk
  BY <1>0, <1>8 DEF DeliverChunk
<1>9. CASE NextChunk
  BY <1>0, <1>9 DEF NextChunk
<1>10. CASE CaptureDone
  BY <1>0, <1>10 DEF CaptureDone
<1>11. CASE DmaToken
  BY <1>0, <1>11 DEF DmaToken
<1>12. CASE CaptureWord
  BY <1>0, <1>12 DEF CaptureWord
<1>13. CASE IndexPulse
  BY <1>0, <1>13 DEF IndexPulse
<1>14. CASE IndexTimeout
  BY <1>0, <1>14 DEF IndexTimeout
<1>15. CASE SetDumpTime
  BY <1>0, <1>15 DEF SetDumpTime
<1>16. CASE BeginDump
  BY <1>0, <1>16 DEF BeginDump
<1>17. CASE FreeDumpBuffer
  BY <1>0, <1>17 DEF FreeDumpBuffer
<1>19. CASE SetIndexMode
  BY <1>0, <1>19 DEF SetIndexMode
<1>20. CASE ConvertFails
  BY <1>0, <1>20 DEF ConvertFails, Fail
<1>21. CASE UNCHANGED vars
  BY <1>21 DEF vars
<1> QED
  BY <1>1, <1>2, <1>3, <1>4, <1>5, <1>6, <1>7, <1>8, <1>9, <1>10, <1>11,
     <1>12, <1>13, <1>14, <1>15, <1>16, <1>17, <1>19, <1>20, <1>21
     DEF Next, Dump, DumpThread, Fpga

\* With buffers longer than the DMA's lead, nothing is handed over before the
\* index pulse or after the timeout.
THEOREM TriggerInvCorrect ==
  ASSUME LongCaptures, Prompt PROVE Spec => []TriggerInv
<1>1. Init => TriggerInv
  BY DEF Init, TriggerInv
<1>2. IInv /\ TriggerInv /\ [Next]_vars => TriggerInv'
  BY StepTriggerInv
<1> QED
  BY <1>1, <1>2, IInvCorrect, PTL DEF Spec

\* A chunk is handed over only after the index pulse and without a timeout; a
\* capture that gives up handed over nothing, one that completes everything;
\* and without ignoring the index nothing is captured before it.
THEOREM IndexCorrect ==
  ASSUME LongCaptures, Prompt
  PROVE  Spec => [](IndexHonest /\ SyncedToIndex)
<1>1. IInv /\ TriggerInv => ChunkAfterIndex /\ EndsAreHonest /\ SyncedToIndex
  BY DEF IInv, TypeOK, TriggerInv, ChunkAfterIndex, EndsAreHonest,
     SyncedToIndex, Stop
<1>2. IInv /\ TriggerInv => IndexHonest /\ SyncedToIndex
  BY <1>1 DEF IndexHonest
<1> QED
  BY <1>2, IInvCorrect, TriggerInvCorrect, PTL

-----------------------------------------------------------------------------
\* When dump_time is sent only between dumps, every capture of a dump has the
\* size the dump began with, and so has the mapping, from the first one on.
SettingInv ==
  /\ pc # "idle" => wanted = stated
  /\ pc = "idle" => mapped = 0
  /\ mapped \in {0, stated}
  /\ Capturing => size = stated /\ mapped = stated

\* alloc_dump_buffer keeps a mapping that is large enough, and the captures are
\* as long as their metadata says.
THEOREM SettingCorrect ==
  ASSUME Steady PROVE Spec => [](MappingCovers /\ TimeAsStated)
<1>1. Init => SettingInv
  BY DEF Init, SettingInv, Capturing
<1>2. IInv /\ SettingInv /\ [Next]_vars => SettingInv'
  <2> SUFFICES ASSUME IInv, SettingInv, [Next]_vars PROVE SettingInv'
    OBVIOUS
  <2> USE DEF SettingInv, Capturing
  <2>1. CASE SetDumpTime \/ BeginDump \/ StartClear \/ FreeDumpBuffer
    BY <2>1 DEF SetDumpTime, BeginDump, StartClear, FreeDumpBuffer, software,
       setting
  <2>2. CASE AllocDumpBuffer
    <3>1. stated # 0
      BY SizeAssumption DEF IInv, TypeOK
    <3> QED
      BY <2>2, <3>1 DEF AllocDumpBuffer
  <2>3. CASE \/ LeaveReset \/ SetIndexMode \/ WaitOver \/ GiveUp \/ ConvertFails
            \/ GetChunk \/ ConvertWord
    BY <2>3 DEF LeaveReset, SetIndexMode, WaitOver, GiveUp, ConvertFails, Fail,
       GetChunk, ConvertWord, setting
  <2>4. CASE DeliverChunk \/ NextChunk \/ CaptureDone
    BY <2>4 DEF DeliverChunk, NextChunk, CaptureDone, setting
  <2>5. CASE Fpga \/ UNCHANGED vars
    BY <2>5 DEF Fpga, DmaToken, CaptureWord, IndexPulse, IndexTimeout, vars,
       software, setting
  <2> QED
    BY <2>1, <2>2, <2>3, <2>4, <2>5 DEF Next, Dump, DumpThread
<1>3. IInv /\ SettingInv => MappingCovers /\ TimeAsStated
  BY SizeAssumption DEF IInv, TypeOK, SettingInv, MappingCovers, TimeAsStated
<1> QED
  BY <1>1, <1>2, <1>3, IInvCorrect, PTL DEF Spec

-----------------------------------------------------------------------------
\* Every hand-over continues the one before, by one converted chunk.
THEOREM GaplessCorrect == Spec => Gapless
<1> DEFINE Move == handed' > handed =>
                     /\ pc = "convert" /\ handed = last
                     /\ handed' = chunkEnd /\ pos >= chunkEnd
<1>1. ASSUME IInv, [Next]_vars PROVE [Move]_vars
  <2> USE <1>1, ChunkAssumption
  <2>0. last \in Nat /\ chunkEnd \in Nat /\ pos \in Nat /\ handed \in Nat
    BY SizeAssumption DEF IInv, TypeOK
  <2>1. CASE StartClear
    BY <2>0, <2>1 DEF StartClear
  <2>2. CASE DeliverChunk
    <3>1. chunkEnd - last \in Nat
      BY <2>0, <2>2 DEF IInv, ReaderInv, DeliverChunk
    <3>2. ConvertEnd >= chunkEnd /\ ConvertEnd \in Nat
      BY <2>0, <3>1, RoundUp DEF ConvertEnd
    <3> QED
      BY <2>0, <2>2, <3>2 DEF DeliverChunk, IInv, HandedInv
  <2>3. CASE UNCHANGED handed
    BY <2>0, <2>3
  <2> QED
    BY <2>1, <2>2, <2>3
       DEF Next, Dump, DumpThread, Fpga, AllocDumpBuffer, SetDumpTime,
           BeginDump, FreeDumpBuffer, LeaveReset, SetIndexMode, WaitOver,
           GiveUp, ConvertFails, Fail, GetChunk, ConvertWord, NextChunk,
           CaptureDone, DmaToken, CaptureWord, IndexPulse, IndexTimeout, vars,
           software, cursor, hardware, setting
<1> QED
  BY <1>1, IInvCorrect, PTL DEF Spec, Gapless

-----------------------------------------------------------------------------
\* The captures implement CaptureStream: each step of the thread or of the
\* FPGA begins, extends, hands over or ends the abstract stream, or stutters.
LEMMA InitStream == Init => Stream!Init
  BY DEF Init, Stream!Init

LEMMA StepStream ==
  ASSUME LongCaptures, IInv, TriggerInv, [Next]_vars
  PROVE  [Stream!Next]_(Stream!vars)
<1> USE ChunkAssumption, SizeAssumption
<1>0. /\ size \in Nat /\ last \in Nat /\ written \in Nat /\ offset \in Nat
      /\ chunkEnd \in Nat /\ handed \in Nat /\ size >= 2
  BY DEF IInv, TypeOK
<1>1. CASE StartClear
  <2>1. Stream!Begin
    BY <1>1 DEF StartClear, DumperReset, Stream!Begin
  <2> QED
    BY <2>1 DEF Stream!Next
<1>2. CASE AllocDumpBuffer
  <2>1. wanted - 1 \in {s - 1 : s \in Sizes} /\ size' = wanted
    BY <1>2 DEF AllocDumpBuffer, IInv, TypeOK
  <2>2. written = 0 /\ handed = 0 /\ result = "none"
    BY <1>0, <1>2 DEF AllocDumpBuffer, IInv, HandedInv, ResetInv,
       RegistersInv, TriggerInv
  <2>3. Stream!SetLength
    BY <1>2, <2>1, <2>2 DEF AllocDumpBuffer, Stream!SetLength, cursor
  <2> QED
    BY <2>3 DEF Stream!Next
<1>3. CASE CaptureWord
  <2>1. Stream!Capture
    BY <1>0, <1>3 DEF CaptureWord, Stream!Capture, IInv, RegistersInv, Stop,
       software, cursor
  <2> QED
    BY <2>1 DEF Stream!Next
<1>4. CASE DeliverChunk
  <2>1. result = "none" /\ result' = "none" /\ handed' = chunkEnd
    BY <1>4 DEF DeliverChunk, TriggerInv
  <2>2. /\ handed < chunkEnd /\ chunkEnd <= size - 1 /\ chunkEnd <= written + Lead
    BY <1>0, <1>4 DEF DeliverChunk, IInv, ReaderInv, HandedInv, RegistersInv,
       Stop
  <2>3. written > 0
    BY <1>4 DEF DeliverChunk, TriggerInv
  <2>4. Stream!Deliver
    <3> DEFINE n == chunkEnd - handed
    <3>1. n \in 1 .. size - 1 /\ handed + n = chunkEnd
      BY <1>0, <2>2
    <3> QED
      BY <1>0, <1>4, <2>1, <2>2, <2>3, <3>1
         DEF DeliverChunk, Stream!Deliver, hardware
  <2> QED
    BY <2>4 DEF Stream!Next
<1>5. CASE CaptureDone
  <2>1. Stream!Complete
    BY <1>0, <1>5 DEF CaptureDone, Stream!Complete, IInv, ReaderInv,
       HandedInv, Stop, TriggerInv, hardware, cursor
  <2> QED
    BY <2>1 DEF Stream!Next
<1>6. CASE GiveUp
  <2>1. Stream!GiveUp
    BY <1>0, <1>6 DEF GiveUp, Fail, Stream!GiveUp, TriggerInv, IInv, HandedInv,
       hardware
  <2> QED
    BY <2>1 DEF Stream!Next
<1>8. CASE ConvertFails
  <2>1. Stream!BreakOff
    BY <1>0, <1>8 DEF ConvertFails, Fail, Stream!BreakOff, TriggerInv, hardware
  <2> QED
    BY <2>1 DEF Stream!Next
<1>7. CASE UNCHANGED <<written, handed, size, result>>
  BY <1>7 DEF Stream!vars
<1> QED
  BY <1>1, <1>2, <1>3, <1>4, <1>5, <1>6, <1>7, <1>8
     DEF Next, Dump, DumpThread, Fpga, SetDumpTime, BeginDump, FreeDumpBuffer,
         LeaveReset, SetIndexMode, WaitOver, GetChunk, ConvertWord, NextChunk,
         DmaToken, IndexPulse, IndexTimeout, vars, software, cursor, hardware,
         setting

\* The captures of the dump thread and the FPGA keep the promise of
\* CaptureStream: gapless hand-over, never ahead of the capture by more than
\* Lead, and an honest verdict.
THEOREM StreamImplemented ==
  ASSUME LongCaptures, Prompt PROVE Spec => ImplementsStream
<1>1. Init => Stream!Init
  BY InitStream
<1>2. IInv /\ TriggerInv /\ [Next]_vars => [Stream!Next]_(Stream!vars)
  BY StepStream
<1> QED
  BY <1>1, <1>2, IInvCorrect, TriggerInvCorrect, PTL
  DEF Spec, ImplementsStream, Stream!Spec

=============================================================================
