------------------------------ MODULE FluxCode ------------------------------
(***************************************************************************)
(* How sampled pulses become a stream and a stream pulses again.  The       *)
(* capture and the images are words of W samples, one bit per sample;       *)
(* fast_convert_chunk (for the chunks of a dump) and fast_convert_track     *)
(* (for the tracks of a saved image) turn them into the ticks between       *)
(* pulses, each in one to four bytes; decodestream reads these back.        *)
(* The bits left over at the end of a chunk are carried to the next.        *)
(*                                                                          *)
(* A word is the set of its samples that are pulses.  true is what          *)
(* convert_track, the sample by sample conversion the source keeps beside   *)
(* the fast one, finds; read is where decodestream puts the pulses.         *)
(***************************************************************************)
EXTENDS Integers, Sequences

CONSTANTS
  W,        \* samples in a word: 16
  R,        \* values of a byte: 256
  G,        \* words in the group a chunk is rounded up to: 8
  Words,    \* the words that hold pulses
  Gaps,     \* how many words in a row hold none
  Shorts,   \* how much the last chunk of a dump lacks of a group
  Metas,    \* lengths of the text of a chunk
  MaxRuns   \* bound: words with pulses, and runs of words without, of a stream

METADATA_MAXSIZE == 8 * 1024

ASSUME FluxCodeAssumption ==
  /\ \/ R = 256 /\ W \in 1 .. 16
     \/ R = 16 /\ W \in 1 .. 4
  /\ G \in Nat /\ G >= 3
  /\ Words \subseteq (SUBSET (0 .. W - 1)) \ {{}} /\ Gaps \subseteq Nat \ {0}
  /\ Shorts \subseteq 0 .. G - 1 /\ Metas \subseteq 0 .. METADATA_MAXSIZE - 1

VARIABLES
  use,     \* "dump", "save", or "none" between two streams
  at,      \* words converted
  runs,    \* and in how many runs
  delta,   \* bits_delta
  cumul,   \* cumul, of the reader of what was written
  true, read,
  many,    \* words met that held several pulses
  lost,    \* whether a delta did not fit in four bytes
  words,   \* words of the chunk
  bytes,   \* bytes written for it
  prev,    \* prev_bitdelta
  mark,    \* cumul, at its start
  last     \* what was written of the last chunk

vars == <<use, at, runs, delta, cumul, true, read, many, lost, words, bytes, prev,
          mark, last>>

-----------------------------------------------------------------------------
(* Ticks as bytes: the top bits of the first byte tell how many follow      *)

Limit1 == R \div 2
Limit2 == (R \div 4) * R
Limit3 == (R \div 8) * R * R
Limit4 == (R \div 16) * R * R * R

Digit(d, p) == (d \div p) % R

Encode(d) ==
  IF d < Limit1 THEN <<d>>
  ELSE IF d < Limit2 THEN <<R \div 2 + d \div R, d % R>>
  ELSE IF d < Limit3 THEN <<R - R \div 4 + d \div (R * R), Digit(d, R), d % R>>
  ELSE IF d < Limit4
    THEN <<R - R \div 8 + d \div (R * R * R), Digit(d, R * R), Digit(d, R), d % R>>
  ELSE <<R - R \div 8 + R \div 16 - 1, R - 1, R - 1, R - 1>>

Decode(s) ==
  IF s[1] < R \div 2 THEN s[1]
  ELSE IF s[1] < R - R \div 4 THEN (s[1] % (R \div 4)) * R + s[2]
  ELSE IF s[1] < R - R \div 8
    THEN (s[1] % (R \div 8)) * (R * R) + s[2] * R + s[3]
  ELSE (s[1] % (R \div 16)) * (R * R * R) + s[2] * (R * R) + s[3] * R + s[4]

\* conv_lut: the samples before the pulse of a word that has one, and those
\* from it on.  The entry of any other word is zero.
Single(w) == \E b \in w : w = {b}
Place(w)  == CHOOSE b \in w : w = {b}
\* Mutation: the samples after the pulse, without the pulse's own.
Lut_After(w) == IF Single(w) THEN <<Place(w), W - Place(w) - 1>> ELSE <<0, 0>>

Lut(w) == IF Single(w) THEN <<Place(w), W - Place(w)>> ELSE <<0, 0>>

-----------------------------------------------------------------------------
(* The buffers                                                              *)

\* The converted chunk: half the bytes of the samples, which are half words.
Room(n) == 2 * n

Bound(n) == n + n \div 255 + 16   \* LZ4_compressBound
Pad(n)   == n + ((4 - (n % 4)) % 4)

\* Mutation: the packed stream is taken to be the larger of the two.
TempSize_One(stream, ios) == Bound(stream) + 8 * 1024 + 1024

\* temp_size, for bytes of stream and bytes of inputs, and what generate_chunk
\* puts in the block: the chunk's header, the text, and the two packed streams.
TempSize(stream, ios) == Bound(stream) + Bound(ios) + 8 * 1024 + 1024

Total(meta, packed, iopacked) ==
  12 + (8 + Pad(meta + 1)) + (20 + Pad(packed)) + (16 + Pad(iopacked)) + 4

-----------------------------------------------------------------------------
(* Conversion                                                               *)

\* The positions convert_track gives the pulses of the word.
Exact(w) == {W * at + b : b \in w}

\* One delta is written, then read.
Emit(d) ==
  /\ bytes' = bytes + Len(Encode(d))
  /\ cumul' = cumul + Decode(Encode(d))
  /\ read' = read \cup {cumul'}
  /\ lost' = (lost \/ d >= Limit4)

ConvertEmpty(n) ==
  /\ use # "none" /\ runs < MaxRuns
  /\ delta' = delta + W * n
  /\ at' = at + n /\ words' = words + n /\ runs' = runs + 1
  /\ UNCHANGED <<use, cumul, true, read, many, lost, bytes, prev, mark, last>>

ConvertOne(w) ==
  /\ use # "none" /\ runs < MaxRuns /\ Single(w)
  /\ Emit(delta + Lut(w)[1])
  /\ delta' = Lut(w)[2]
  /\ true' = true \cup Exact(w)
  /\ at' = at + 1 /\ words' = words + 1 /\ runs' = runs + 1
  /\ UNCHANGED <<use, many, prev, mark, last>>

\* Several pulses are one, at the start of the word, which then takes no time.
ConvertMany(w) ==
  /\ use # "none" /\ runs < MaxRuns /\ ~Single(w)
  /\ Emit(delta)
  /\ delta' = 0
  /\ many' = many + 1
  /\ true' = true \cup Exact(w)
  /\ at' = at + 1 /\ words' = words + 1 /\ runs' = runs + 1
  /\ UNCHANGED <<use, prev, mark, last>>

-----------------------------------------------------------------------------
(* Chunks and tracks                                                        *)

NoChunk == [samples |-> 0, span |-> 0, short |-> 0, bytes |-> 0, words |-> 0,
            whole |-> TRUE, total |-> 0, temp |-> 0]

\* Mutation: the bits left by the previous capture are not forgotten.
Begin_KeepsDelta(u) ==
  /\ use = "none"
  /\ use' = u
  /\ at' = 0 /\ runs' = 0 /\ cumul' = 0 /\ true' = {} /\ read' = {}
  /\ many' = 0 /\ lost' = FALSE
  /\ words' = 0 /\ bytes' = 0 /\ prev' = delta /\ mark' = 0 /\ last' = NoChunk
  /\ UNCHANGED delta

Begin(u) ==
  /\ use = "none"
  /\ use' = u
  /\ at' = 0 /\ runs' = 0 /\ delta' = 0 /\ cumul' = 0 /\ true' = {} /\ read' = {}
  /\ many' = 0 /\ lost' = FALSE
  /\ words' = 0 /\ bytes' = 0 /\ prev' = 0 /\ mark' = 0 /\ last' = NoChunk

\* Mutation: the bits carried from the previous chunk are not counted.
Chunk_NoCarry(short, meta) ==
  LET asked == words - short
      ios   == 2 * asked
  IN  [samples |-> W * asked - delta, span |-> cumul - mark,
       short |-> short, bytes |-> bytes, words |-> words,
       whole |-> many = 0 /\ ~lost,
       total |-> Total(meta, Bound(bytes), Bound(ios)),
       temp  |-> TempSize(bytes, ios)]

\* What generate_chunk writes of a chunk of asked words, of which the
\* conversion, which goes by groups, has done short more.
Chunk(short, meta) ==
  LET asked == words - short
      ios   == 2 * asked
  IN  [samples |-> (prev + W * asked) - delta, span |-> cumul - mark,
       short |-> short, bytes |-> bytes, words |-> words,
       whole |-> many = 0 /\ ~lost,
       total |-> Total(meta, Bound(bytes), Bound(ios)),
       temp  |-> TempSize(bytes, ios)]

Next0 == prev' = delta /\ mark' = cumul /\ words' = 0 /\ bytes' = 0

\* A chunk of the length of all but the last, CHUNK_MAX_SIZE.
Cut(meta) ==
  /\ use = "dump" /\ words > 0 /\ words % G = 0
  /\ last' = Chunk(0, meta) /\ Next0
  /\ UNCHANGED <<use, at, runs, delta, cumul, true, read, many, lost>>

\* The last chunk, of what is left less one word.
CutLast(short, meta) ==
  /\ use = "dump" /\ words > 0 /\ words % G = 0
  /\ last' = Chunk(short, meta) /\ Next0
  /\ use' = "none"
  /\ UNCHANGED <<at, runs, delta, cumul, true, read, many, lost>>

\* The end of a track of save_stream_hfe.
EndTrack ==
  /\ use = "save" /\ words > 0
  /\ use' = "none"
  /\ last' = [NoChunk EXCEPT !.bytes = bytes, !.words = words]
  /\ UNCHANGED <<at, runs, delta, cumul, true, read, many, lost, words, bytes, prev, mark>>

Init ==
  /\ use = "none"
  /\ at = 0 /\ runs = 0 /\ delta = 0 /\ cumul = 0 /\ true = {} /\ read = {}
  /\ many = 0 /\ lost = FALSE
  /\ words = 0 /\ bytes = 0 /\ prev = 0 /\ mark = 0 /\ last = NoChunk

Next ==
  \/ \E u \in {"dump", "save"} : Begin(u)
  \/ \E n \in Gaps : ConvertEmpty(n)
  \/ \E w \in Words : ConvertOne(w)
  \/ \E w \in Words : ConvertMany(w)
  \/ \E meta \in Metas : Cut(meta)
  \/ \E short \in Shorts, meta \in Metas : CutLast(short, meta)
  \/ EndTrack

Spec == Init /\ [][Next]_vars

-----------------------------------------------------------------------------
(* Properties                                                               *)

Chunks == [samples : Int, span : Int, short : Nat, bytes : Nat, words : Nat,
           whole : BOOLEAN, total : Nat, temp : Nat]

TypeOK ==
  /\ use \in {"none", "dump", "save"}
  /\ at \in Nat /\ runs \in Nat /\ delta \in Nat /\ cumul \in Nat /\ many \in Nat
  /\ true \subseteq Nat /\ read \subseteq Nat /\ lost \in BOOLEAN
  /\ words \in Nat /\ bytes \in Nat /\ prev \in Nat /\ mark \in Nat
  /\ last \in Chunks

\* As long as no word held two pulses and no gap was too long for four bytes,
\* a reader puts every pulse on the sample it was taken at, over as many chunks
\* as the capture has: the carried bits_delta loses nothing.
StreamTrue == many = 0 /\ ~lost => read = true

\* Two pulses in a word cost the stream that word's W ticks for every pulse that
\* follows, and nothing else moves them.
DriftKnown == ~lost => cumul + delta + W * many = W * at

\* number_of_data_samples is the time the chunk's own pulses span; in the last
\* chunk, where the conversion goes on to the end of a group of words, it is
\* less by the words past those asked for.
SamplesHonest == last.whole => last.samples = last.span - W * last.short

\* The converted chunk or track stays in the buffer allocated for it, two bytes
\* per word, whatever is carried in; and the block generate_chunk builds, with
\* both streams incompressible and the longest text, in its own.
OutFits ==
  /\ last.bytes <= Room(last.words)
  /\ last.total <= last.temp

=============================================================================
