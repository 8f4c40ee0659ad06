--------------------------- MODULE FluxCodeProofs ---------------------------
(***************************************************************************)
(* Theorems about FluxCode, for words of any width up to the code's, any    *)
(* words, gaps and chunks.                                                  *)
(***************************************************************************)
EXTENDS FluxCode, TLAPS

-----------------------------------------------------------------------------
(* The code of a delta                                                      *)

LEMMA Bytes256 ==
  ASSUME R = 256
  PROVE  /\ R \div 2 = 128 /\ R \div 4 = 64 /\ R \div 8 = 32 /\ R \div 16 = 16
         /\ R * R = 65536 /\ R * R * R = 16777216
         /\ R - R \div 4 = 192 /\ R - R \div 8 = 224
         /\ Limit1 = 128 /\ Limit2 = 16384 /\ Limit3 = 2097152
         /\ Limit4 = 268435456
<1>1. /\ 256 \div 2 = 128 /\ 256 \div 4 = 64 /\ 256 \div 8 = 32
      /\ 256 \div 16 = 16 /\ 256 * 256 = 65536 /\ 256 * 256 * 256 = 16777216
      /\ 256 - 64 = 192 /\ 256 - 32 = 224
      /\ 64 * 256 = 16384 /\ 32 * 256 * 256 = 2097152
      /\ 16 * 256 * 256 * 256 = 268435456
  BY SMT
<1> QED BY <1>1, SMT DEF Limit1, Limit2, Limit3, Limit4

LEMMA Bytes16 ==
  ASSUME R = 16
  PROVE  /\ R \div 2 = 8 /\ R \div 4 = 4 /\ R \div 8 = 2 /\ R \div 16 = 1
         /\ R * R = 256 /\ R * R * R = 4096
         /\ R - R \div 4 = 12 /\ R - R \div 8 = 14
         /\ Limit1 = 8 /\ Limit2 = 64 /\ Limit3 = 512 /\ Limit4 = 4096
<1>1. /\ 16 \div 2 = 8 /\ 16 \div 4 = 4 /\ 16 \div 8 = 2
      /\ 16 - 4 = 12 /\ 16 - 2 = 14
      /\ 16 \div 16 = 1 /\ 16 * 16 = 256 /\ 16 * 16 * 16 = 4096
      /\ 4 * 16 = 64 /\ 2 * 16 * 16 = 512 /\ 1 * 16 * 16 * 16 = 4096
  BY SMT
<1> QED BY <1>1, SMT DEF Limit1, Limit2, Limit3, Limit4

LEMMA Arithmetic256 ==
  ASSUME R = 256, NEW d \in Nat
  PROVE  /\ Limit1 <= d /\ d < Limit2 =>
              /\ ~(R \div 2 + d \div R < R \div 2)
              /\ R \div 2 + d \div R < R - R \div 4
              /\ ((R \div 2 + d \div R) % (R \div 4)) * R + (d % R) = d
         /\ Limit2 <= d /\ d < Limit3 =>
              /\ ~(R - R \div 4 + d \div (R * R) < R \div 2)
              /\ ~(R - R \div 4 + d \div (R * R) < R - R \div 4)
              /\ R - R \div 4 + d \div (R * R) < R - R \div 8
              /\ ((R - R \div 4 + d \div (R * R)) % (R \div 8)) * (R * R)
                   + Digit(d, R) * R + (d % R) = d
         /\ Limit3 <= d /\ d < Limit4 =>
              /\ ~(R - R \div 8 + d \div (R * R * R) < R \div 2)
              /\ ~(R - R \div 8 + d \div (R * R * R) < R - R \div 4)
              /\ ~(R - R \div 8 + d \div (R * R * R) < R - R \div 8)
              /\ ((R - R \div 8 + d \div (R * R * R)) % (R \div 16)) * (R * R * R)
                   + Digit(d, R * R) * (R * R) + Digit(d, R) * R + (d % R) = d
<1>1. 16384 > d /\ d >= 128 =>
        /\ ~(128 + d \div 256 < 128) /\ 128 + d \div 256 < 192
        /\ ((128 + d \div 256) % 64) * 256 + (d % 256) = d
  BY SMT
<1>2. d >= 16384 /\ d < 2097152 =>
        /\ ~(192 + d \div 65536 < 128) /\ ~(192 + d \div 65536 < 192)
        /\ 192 + d \div 65536 < 224
        /\ ((192 + d \div 65536) % 32) * 65536 + ((d \div 256) % 256) * 256 + (d % 256) = d
  BY SMT
<1>3. d >= 2097152 /\ d < 268435456 =>
        /\ ~(224 + d \div 16777216 < 128) /\ ~(224 + d \div 16777216 < 192)
        /\ ~(224 + d \div 16777216 < 224)
        /\ ((224 + d \div 16777216) % 16) * 16777216 + ((d \div 65536) % 256) * 65536
             + ((d \div 256) % 256) * 256 + (d % 256) = d
  BY SMT
<1> QED BY <1>1, <1>2, <1>3, Bytes256, SMT DEF Digit

LEMMA Arithmetic16 ==
  ASSUME R = 16, NEW d \in Nat
  PROVE  /\ Limit1 <= d /\ d < Limit2 =>
              /\ ~(R \div 2 + d \div R < R \div 2)
              /\ R \div 2 + d \div R < R - R \div 4
              /\ ((R \div 2 + d \div R) % (R \div 4)) * R + (d % R) = d
         /\ Limit2 <= d /\ d < Limit3 =>
              /\ ~(R - R \div 4 + d \div (R * R) < R \div 2)
              /\ ~(R - R \div 4 + d \div (R * R) < R - R \div 4)
              /\ R - R \div 4 + d \div (R * R) < R - R \div 8
              /\ ((R - R \div 4 + d \div (R * R)) % (R \div 8)) * (R * R)
                   + Digit(d, R) * R + (d % R) = d
         /\ Limit3 <= d /\ d < Limit4 =>
              /\ ~(R - R \div 8 + d \div (R * R * R) < R \div 2)
              /\ ~(R - R \div 8 + d \div (R * R * R) < R - R \div 4)
              /\ ~(R - R \div 8 + d \div (R * R * R) < R - R \div 8)
              /\ ((R - R \div 8 + d \div (R * R * R)) % (R \div 16)) * (R * R * R)
                   + Digit(d, R * R) * (R * R) + Digit(d, R) * R + (d % R) = d
<1>1. 64 > d /\ d >= 8 =>
        /\ ~(8 + d \div 16 < 8) /\ 8 + d \div 16 < 12
        /\ ((8 + d \div 16) % 4) * 16 + (d % 16) = d
  BY SMT
<1>2. d >= 64 /\ d < 512 =>
        /\ ~(12 + d \div 256 < 8) /\ ~(12 + d \div 256 < 12)
        /\ 12 + d \div 256 < 14
        /\ ((12 + d \div 256) % 2) * 256 + ((d \div 16) % 16) * 16 + (d % 16) = d
  BY SMT
<1>3. d >= 512 /\ d < 4096 =>
        /\ ~(14 + d \div 4096 < 8) /\ ~(14 + d \div 4096 < 12)
        /\ ~(14 + d \div 4096 < 14)
        /\ ((14 + d \div 4096) % 1) * 4096 + ((d \div 256) % 16) * 256
             + ((d \div 16) % 16) * 16 + (d % 16) = d
  BY SMT
<1> QED BY <1>1, <1>2, <1>3, Bytes16, SMT DEF Digit

LEMMA Arithmetic ==
  ASSUME NEW d \in Nat
  PROVE  /\ Limit1 <= d /\ d < Limit2 =>
              /\ ~(R \div 2 + d \div R < R \div 2)
              /\ R \div 2 + d \div R < R - R \div 4
              /\ ((R \div 2 + d \div R) % (R \div 4)) * R + (d % R) = d
         /\ Limit2 <= d /\ d < Limit3 =>
              /\ ~(R - R \div 4 + d \div (R * R) < R \div 2)
              /\ ~(R - R \div 4 + d \div (R * R) < R - R \div 4)
              /\ R - R \div 4 + d \div (R * R) < R - R \div 8
              /\ ((R - R \div 4 + d \div (R * R)) % (R \div 8)) * (R * R)
                   + Digit(d, R) * R + (d % R) = d
         /\ Limit3 <= d /\ d < Limit4 =>
              /\ ~(R - R \div 8 + d \div (R * R * R) < R \div 2)
              /\ ~(R - R \div 8 + d \div (R * R * R) < R - R \div 4)
              /\ ~(R - R \div 8 + d \div (R * R * R) < R - R \div 8)
              /\ ((R - R \div 8 + d \div (R * R * R)) % (R \div 16)) * (R * R * R)
                   + Digit(d, R * R) * (R * R) + Digit(d, R) * R + (d % R) = d
<1>1. CASE R = 256
  BY <1>1, Arithmetic256
<1>2. CASE R = 16
  BY <1>2, Arithmetic16
<1> QED BY <1>1, <1>2, FluxCodeAssumption

LEMMA LimitsOrdered ==
  /\ Limit1 \in Nat /\ Limit2 \in Nat /\ Limit3 \in Nat /\ Limit4 \in Nat
  /\ 2 * W <= Limit1 /\ Limit1 + W <= Limit2 /\ Limit2 + W <= Limit3
  /\ Limit3 + W <= Limit4 /\ Limit1 = R \div 2 /\ W \in Nat /\ W > 0
<1>1. CASE R = 256
  BY <1>1, Bytes256, FluxCodeAssumption, SMT
<1>2. CASE R = 16
  BY <1>2, Bytes16, FluxCodeAssumption, SMT
<1> QED BY <1>1, <1>2, FluxCodeAssumption

\* A delta that fits in four bytes is read back as it was written: each test of
\* the first byte in decodestream undoes the one in fast_convert_chunk.
THEOREM RoundTrip ==
  ASSUME NEW d \in Nat, d < Limit4
  PROVE  Decode(Encode(d)) = d
<1> DEFINE s == Encode(d)
<1>1. CASE d < Limit1
  <2>1. s = <<d>> /\ s[1] = d
    BY <1>1 DEF Encode
  <2> QED BY <2>1, <1>1, LimitsOrdered, Zenon DEF Decode
<1>2. CASE ~(d < Limit1) /\ d < Limit2
  <2>1. s = <<R \div 2 + d \div R, d % R>>
    BY <1>2, Zenon DEF Encode
  <2>2. s[1] = R \div 2 + d \div R /\ s[2] = d % R
    BY <2>1
  <2>3. Limit1 <= d
    BY <1>2, LimitsOrdered, SMT
  <2> QED BY <2>2, <2>3, <1>2, Arithmetic, Zenon DEF Decode
<1>3. CASE ~(d < Limit1) /\ ~(d < Limit2) /\ d < Limit3
  <2>1. s = <<R - R \div 4 + d \div (R * R), Digit(d, R), d % R>>
    BY <1>3, Zenon DEF Encode
  <2>2. s[1] = R - R \div 4 + d \div (R * R) /\ s[2] = Digit(d, R) /\ s[3] = d % R
    BY <2>1
  <2>3. Limit2 <= d
    BY <1>3, LimitsOrdered, SMT
  <2>4. /\ ~(s[1] < R \div 2) /\ ~(s[1] < R - R \div 4) /\ s[1] < R - R \div 8
        /\ (s[1] % (R \div 8)) * (R * R) + s[2] * R + s[3] = d
    <3> DEFINE a == R - R \div 4 + d \div (R * R)
    <3>1. /\ ~(a < R \div 2) /\ ~(a < R - R \div 4) /\ a < R - R \div 8
          /\ (a % (R \div 8)) * (R * R) + Digit(d, R) * R + (d % R) = d
      BY <2>3, <1>3, Arithmetic
    <3>2. s[1] = a /\ s[2] = Digit(d, R) /\ s[3] = d % R
      BY <2>2
    <3> HIDE DEF a, s
    <3> QED BY <3>1, <3>2, Zenon
  <2> QED BY <2>4, Zenon DEF Decode
<1>4. CASE ~(d < Limit1) /\ ~(d < Limit2) /\ ~(d < Limit3)
  <2>1. s = <<R - R \div 8 + d \div (R * R * R), Digit(d, R * R), Digit(d, R), d % R>>
    BY <1>4, Zenon DEF Encode
  <2>2. /\ s[1] = R - R \div 8 + d \div (R * R * R) /\ s[2] = Digit(d, R * R)
        /\ s[3] = Digit(d, R) /\ s[4] = d % R
    BY <2>1
  <2>3. Limit3 <= d
    BY <1>4, LimitsOrdered, SMT
  <2> QED BY <2>2, <2>3, <1>4, Arithmetic, Zenon DEF Decode
<1> QED BY <1>1, <1>2, <1>3, <1>4, LimitsOrdered, SMT

LEMMA ReadBack ==
  ASSUME NEW d \in Nat
  PROVE  Decode(Encode(d)) \in Nat
<1>1. CASE d < Limit4
  BY <1>1, RoundTrip
<1>2. CASE ~(d < Limit4)
  <2> DEFINE a == R - R \div 8 + R \div 16 - 1
             s == <<a, R - 1, R - 1, R - 1>>
  <2>1. Encode(d) = s
    <3>1. ~(d < Limit1) /\ ~(d < Limit2) /\ ~(d < Limit3)
      BY <1>2, LimitsOrdered, SMT
    <3> QED BY <3>1, <1>2, Zenon DEF Encode
  <2>2. s[1] = a /\ s[2] = R - 1 /\ s[3] = R - 1 /\ s[4] = R - 1
    BY Zenon
  <2>3. /\ ~(a < R \div 2) /\ ~(a < R - R \div 4) /\ ~(a < R - R \div 8)
        /\ (a % (R \div 16)) * (R * R * R) + (R - 1) * (R * R) + (R - 1) * R
             + (R - 1) \in Nat
    <3>1. CASE R = 256
      <4>1. 224 + 16 - 1 = 239 /\ 239 % 16 = 15 /\ 256 - 1 = 255
        BY SMT
      <4> QED BY <3>1, <4>1, Bytes256, SMT
    <3>2. CASE R = 16
      <4>1. 14 + 1 - 1 = 14 /\ 14 % 1 = 0 /\ 16 - 1 = 15
        BY SMT
      <4> QED BY <3>2, <4>1, Bytes16, SMT
    <3> QED BY <3>1, <3>2, FluxCodeAssumption
  <2>4. Decode(s) = (s[1] % (R \div 16)) * (R * R * R) + s[2] * (R * R) + s[3] * R + s[4]
    <3> HIDE DEF a
    <3> QED BY <2>2, <2>3, Zenon DEF Decode
  <2> QED BY <2>1, <2>2, <2>3, <2>4, Zenon
<1> QED BY <1>1, <1>2

\* The most bytes a delta takes.
Size(d) == IF d < Limit1 THEN 1 ELSE IF d < Limit2 THEN 2
           ELSE IF d < Limit3 THEN 3 ELSE 4

LEMMA EncodeSize ==
  ASSUME NEW d \in Nat
  PROVE  Len(Encode(d)) = Size(d)
<1>1. /\ \A x : Len(<<x>>) = 1
      /\ \A x, y : Len(<<x, y>>) = 2
      /\ \A x, y, z : Len(<<x, y, z>>) = 3
      /\ \A x, y, z, t : Len(<<x, y, z, t>>) = 4
  BY SMT
<1> QED BY <1>1, Zenon DEF Encode, Size

-----------------------------------------------------------------------------
(* Conversion                                                               *)

LEMMA PlaceOf ==
  ASSUME NEW w \in Words, Single(w)
  PROVE  /\ Place(w) \in 0 .. W - 1 /\ w = {Place(w)}
         /\ Lut(w)[1] = Place(w) /\ Lut(w)[2] = W - Place(w)
<1>1. w = {Place(w)}
  BY Zenon DEF Single, Place
<1>2. w \subseteq 0 .. W - 1
  BY FluxCodeAssumption
<1>3. Lut(w) = <<Place(w), W - Place(w)>>
  BY DEF Lut
<1>4. Lut(w)[1] = Place(w) /\ Lut(w)[2] = W - Place(w)
  BY <1>3
<1>5. Place(w) \in w
  BY <1>1
<1>6. Place(w) \in 0 .. W - 1
  BY <1>2, <1>5
<1> QED BY <1>1, <1>4, <1>6

\* The most bytes the next delta can take, less one.
Ahead(d) == Size(d + W - 1) - 1

LEMMA SizeSteps ==
  ASSUME NEW d \in Nat
  PROVE  /\ Ahead(d) \in 0 .. 3
         /\ d <= W => Ahead(d) = 0
         /\ \A b \in 0 .. W - 1 : Size(d + b) <= Ahead(d) + 1
         /\ \A n \in Nat \ {0} : Ahead(d + W * n) <= Ahead(d) + n
<1>1. /\ Ahead(d) \in 0 .. 3
      /\ d <= W => Ahead(d) = 0
      /\ \A b \in 0 .. W - 1 : Size(d + b) <= Ahead(d) + 1
  BY LimitsOrdered, SMT DEF Ahead, Size
<1>2. ASSUME NEW n \in Nat \ {0}
      PROVE  Ahead(d + W * n) <= Ahead(d) + n
  <2>1. CASE n = 1
    <3>1. W * n = W
      BY <2>1, LimitsOrdered, SMT
    <3> QED BY <3>1, <2>1, LimitsOrdered, SMT DEF Ahead, Size
  <2>2. CASE n = 2
    <3>1. W * n = W + W
      BY <2>2, LimitsOrdered, SMT
    <3> QED BY <3>1, <2>2, LimitsOrdered, SMT DEF Ahead, Size
  <2>3. CASE n >= 3
    <3>1. W * n \in Nat
      BY LimitsOrdered, SMT
    <3>2. Ahead(d + W * n) \in 0 .. 3
      BY <3>1, LimitsOrdered, SMT DEF Ahead, Size
    <3> QED BY <3>2, <2>3, <1>1, SMT
  <2> QED BY <2>1, <2>2, <2>3, SMT
<1> QED BY <1>1, <1>2

LEMMA PadSmall ==
  ASSUME NEW n \in Nat
  PROVE  Pad(n) \in Nat /\ Pad(n) <= n + 3
  BY SMT DEF Pad

LEMMA BoundNat ==
  ASSUME NEW n \in Nat
  PROVE  Bound(n) \in Nat
  BY SMT DEF Bound

LEMMA BlockFits ==
  ASSUME NEW meta \in 0 .. METADATA_MAXSIZE - 1, NEW stream \in Nat, NEW ios \in Nat
  PROVE  /\ Total(meta, Bound(stream), Bound(ios)) \in Nat
         /\ TempSize(stream, ios) \in Nat
         /\ Total(meta, Bound(stream), Bound(ios)) <= TempSize(stream, ios)
<1> DEFINE p == Bound(stream)
           q == Bound(ios)
<1>1. p \in Nat /\ q \in Nat
  BY BoundNat
<1> HIDE DEF p, q
<1>5. meta \in 0 .. 8191
  BY SMT DEF METADATA_MAXSIZE
<1>2. /\ Pad(meta + 1) \in Nat /\ Pad(meta + 1) <= meta + 4
      /\ Pad(p) \in Nat /\ Pad(p) <= p + 3
      /\ Pad(q) \in Nat /\ Pad(q) <= q + 3
  <2>1. meta + 1 \in Nat /\ (meta + 1) + 3 = meta + 4
    BY <1>5, SMT
  <2> QED BY <1>1, <2>1, PadSmall
<1>3. Total(meta, p, q) \in Nat /\ Total(meta, p, q) <= p + q + 9216
  BY <1>5, <1>1, <1>2, SMT DEF Total
<1>4. TempSize(stream, ios) = p + q + 9216
  <2>1. TempSize(stream, ios) = p + q + 8 * 1024 + 1024
    BY DEF TempSize, p, q
  <2> QED BY <2>1, <1>1, SMT
<1> QED BY <1>1, <1>3, <1>4, SMT DEF p, q

-----------------------------------------------------------------------------
(* The invariant                                                            *)

Carried == IF use = "save" THEN 0 ELSE 3

\* Beside the properties: the chunk's own ticks, and the bytes it can still take.
IInv ==
  /\ TypeOK
  /\ DriftKnown
  /\ many = 0 /\ ~lost => mark + prev + W * words = cumul + delta
  /\ StreamTrue
  /\ use # "none" => bytes + Ahead(delta) <= words + Carried
  /\ SamplesHonest
  /\ OutFits

LEMMA NoChunkType == NoChunk \in Chunks
BY SMT DEF NoChunk, Chunks

LEMMA Starts ==
  ASSUME Init
  PROVE  IInv
<1>1. TypeOK
  <2>1. 0 \in Nat
    BY SMT
  <2> QED BY <2>1, NoChunkType, Zenon DEF Init, TypeOK
<1>2. W * 0 = 0
  BY LimitsOrdered, SMT
<1>3. DriftKnown /\ StreamTrue /\ (mark + prev + W * words = cumul + delta)
  BY <1>2, LimitsOrdered, SMT DEF Init, DriftKnown, StreamTrue
<1>4. SamplesHonest /\ OutFits
  BY <1>2, LimitsOrdered, SMT DEF Init, SamplesHonest, OutFits, NoChunk, Room
<1> QED BY <1>1, <1>3, <1>4 DEF IInv, Init

LEMMA BeginKeeps ==
  ASSUME IInv, NEW u \in {"dump", "save"}, Begin(u)
  PROVE  IInv'
<1>1. TypeOK'
  <2>1. 0 \in Nat
    BY SMT
  <2> QED BY <2>1, NoChunkType, Zenon DEF Begin, TypeOK
<1>2. W * 0 = 0
  BY LimitsOrdered, SMT
<1>3. DriftKnown' /\ StreamTrue' /\ (mark + prev + W * words = cumul + delta)'
  BY <1>2, LimitsOrdered, SMT DEF Begin, DriftKnown, StreamTrue
<1>4. SamplesHonest' /\ OutFits'
  BY <1>2, LimitsOrdered, SMT DEF Begin, SamplesHonest, OutFits, NoChunk, Room
<1>5. Ahead(0) = 0
  BY LimitsOrdered, SizeSteps, SMT
<1>6. (bytes + Ahead(delta) <= words + Carried)'
  BY <1>5, SMT DEF Begin, Carried
<1> QED BY <1>1, <1>3, <1>4, <1>6 DEF IInv

\* What stays as it is through a conversion.
LEMMA LastStays ==
  ASSUME IInv, UNCHANGED last
  PROVE  SamplesHonest' /\ OutFits'
BY DEF IInv, SamplesHonest, OutFits

LEMMA EmptyKeeps ==
  ASSUME IInv, NEW n \in Gaps, ConvertEmpty(n)
  PROVE  IInv'
<1>1. n \in Nat \ {0} /\ W * n \in Nat
  <2>1. n \in Nat \ {0}
    BY FluxCodeAssumption
  <2> QED BY <2>1, LimitsOrdered, SMT
<1>2. TypeOK'
  BY <1>1, SMT DEF ConvertEmpty, TypeOK, IInv
<1>3. /\ W * (at + n) = W * at + W * n
      /\ W * (words + n) = W * words + W * n
  BY <1>1, LimitsOrdered, SMT DEF IInv, TypeOK
<1>4. DriftKnown' /\ (many = 0 /\ ~lost => mark + prev + W * words = cumul + delta)'
  <2>1. W * at \in Nat /\ W * many \in Nat /\ W * words \in Nat
    BY LimitsOrdered, SMT DEF IInv, TypeOK
  <2> QED BY <1>1, <1>3, <2>1, SMT DEF IInv, TypeOK, DriftKnown, ConvertEmpty
<1>5. StreamTrue'
  BY DEF IInv, StreamTrue, ConvertEmpty
<1>6. (bytes + Ahead(delta) <= words + Carried)'
  <2>1. /\ Ahead(delta) \in 0 .. 3 /\ delta + W * n \in Nat
        /\ Ahead(delta + W * n) <= Ahead(delta) + n
    BY <1>1, SizeSteps, SMT DEF IInv, TypeOK
  <2>2. Ahead(delta + W * n) \in 0 .. 3
    BY <2>1, SizeSteps
  <2> HIDE DEF Ahead
  <2> QED BY <1>1, <2>1, <2>2, SMT DEF IInv, TypeOK, ConvertEmpty, Carried
<1> QED BY <1>2, <1>4, <1>5, <1>6, LastStays DEF IInv, ConvertEmpty

\* One delta of b samples more than were pending, however it is followed.
LEMMA Emitted ==
  ASSUME IInv, use # "none", NEW b \in 0 .. W - 1, Emit(delta + b)
  PROVE  /\ cumul' \in Nat /\ read' \subseteq Nat /\ lost' \in BOOLEAN
         /\ bytes' \in Nat /\ bytes' <= (words + 1) + Carried
         /\ ~lost' => ~lost /\ cumul' = cumul + delta + b
         /\ read' = read \cup {cumul'}
<1> DEFINE d == delta + b
<1>1. d \in Nat /\ delta \in Nat
  BY LimitsOrdered, SMT DEF IInv, TypeOK
<1> HIDE DEF d
<1>2. /\ cumul' = cumul + Decode(Encode(d)) /\ read' = read \cup {cumul'}
      /\ bytes' = bytes + Len(Encode(d)) /\ lost' = (lost \/ d >= Limit4)
  BY DEF Emit, d
<1>3. cumul' \in Nat
  <2>1. Decode(Encode(d)) \in Nat /\ cumul \in Nat
    BY <1>1, ReadBack DEF IInv, TypeOK
  <2> QED BY <1>2, <2>1, SMT
<1>4. read' \subseteq Nat
  BY <1>2, <1>3 DEF IInv, TypeOK
<1>5. lost' \in BOOLEAN
  BY <1>2, Zenon
<1>6. Len(Encode(d)) \in 1 .. 4 /\ Len(Encode(d)) <= Ahead(delta) + 1
  <2>1. Len(Encode(d)) = Size(d)
    BY <1>1, EncodeSize
  <2>2. Size(d) \in 1 .. 4
    BY <1>1, LimitsOrdered, SMT DEF Size
  <2>3. Size(d) <= Ahead(delta) + 1
    BY <1>1, SizeSteps DEF d
  <2> QED BY <2>1, <2>2, <2>3
<1>7. bytes' \in Nat /\ bytes' <= (words + 1) + Carried
  <2>1. bytes + Ahead(delta) <= words + Carried /\ Ahead(delta) \in 0 .. 3
    BY <1>1, SizeSteps DEF IInv
  <2>2. Carried \in Nat
    BY SMT DEF Carried
  <2> HIDE DEF Ahead
  <2> QED BY <1>2, <1>6, <2>1, <2>2, SMT DEF IInv, TypeOK
<1>8. ASSUME ~lost'
      PROVE  ~lost /\ cumul' = cumul + delta + b
  <2>1. ~lost /\ ~(d >= Limit4)
    BY <1>2, <1>8, Zenon
  <2>2. Decode(Encode(d)) = d
    BY <2>1, <1>1, RoundTrip, LimitsOrdered, SMT
  <2>3. cumul' = cumul + d
    BY <1>2, <2>2
  <2> QED BY <2>1, <2>3, <1>1, LimitsOrdered, SMT DEF d, IInv, TypeOK
<1> QED BY <1>2, <1>3, <1>4, <1>5, <1>7, <1>8

LEMMA OneKeeps ==
  ASSUME IInv, NEW w \in Words, ConvertOne(w)
  PROVE  IInv'
<1> DEFINE b == Place(w)
<1>1. b \in 0 .. W - 1 /\ w = {b} /\ Lut(w)[1] = b /\ Lut(w)[2] = W - b
  BY PlaceOf DEF ConvertOne
<1> HIDE DEF b
<1>2. /\ cumul' \in Nat /\ read' \subseteq Nat /\ lost' \in BOOLEAN
      /\ bytes' \in Nat /\ bytes' <= (words + 1) + Carried
      /\ ~lost' => ~lost /\ cumul' = cumul + delta + b
      /\ read' = read \cup {cumul'}
  BY <1>1, Emitted DEF ConvertOne
<1>3. /\ delta' = W - b /\ delta' \in Nat /\ delta' <= W
      /\ W * at + b \in Nat /\ true' = true \cup {W * at + b}
  <2>1. delta' = W - b /\ true' = true \cup {W * at + c : c \in {b}}
    BY <1>1 DEF ConvertOne, Exact
  <2>2. {W * at + c : c \in {b}} = {W * at + b}
    BY Zenon
  <2> QED BY <1>1, <2>1, <2>2, LimitsOrdered, SMT DEF IInv, TypeOK
<1>4. TypeOK'
  <2>1. at' \in Nat /\ runs' \in Nat /\ words' \in Nat
    BY SMT DEF IInv, TypeOK, ConvertOne
  <2>2. true' \subseteq Nat
    BY <1>3 DEF IInv, TypeOK
  <2> QED BY <1>2, <1>3, <2>1, <2>2 DEF IInv, TypeOK, ConvertOne
<1>5. /\ W * (at + 1) = W * at + W /\ W * (words + 1) = W * words + W
      /\ W * at \in Nat /\ W * many \in Nat /\ W * words \in Nat
  BY LimitsOrdered, SMT DEF IInv, TypeOK
<1>6. DriftKnown' /\ (many = 0 /\ ~lost => mark + prev + W * words = cumul + delta)'
  BY <1>1, <1>2, <1>3, <1>5, LimitsOrdered, SMT DEF IInv, TypeOK, DriftKnown, ConvertOne
<1>7. StreamTrue'
  <2>1. ASSUME many = 0, ~lost'
        PROVE  read' = true'
    <3>1. W * many = 0
      BY <2>1, LimitsOrdered, SMT
    <3>2. cumul + delta = W * at
      BY <2>1, <1>2, <3>1, <1>5, SMT DEF IInv, TypeOK, DriftKnown
    <3>3. cumul' = W * at + b
      BY <2>1, <1>2, <3>2
    <3>4. read = true
      BY <2>1, <1>2 DEF IInv, StreamTrue
    <3> QED BY <1>2, <1>3, <3>3, <3>4, Zenon
  <2> QED BY <2>1 DEF StreamTrue, ConvertOne
<1>8. (bytes + Ahead(delta) <= words + Carried)'
  <2>1. Ahead(delta') = 0
    BY <1>3, SizeSteps
  <2>2. Carried' = Carried
    BY Zenon DEF Carried, ConvertOne
  <2>3. words' = words + 1
    BY DEF ConvertOne, IInv, TypeOK
  <2>4. bytes' \in Nat /\ bytes' <= (words + 1) + Carried
    BY <1>2
  <2>5. bytes' + 0 = bytes'
    <3>1. bytes' \in Nat
      BY <2>4
    <3>2. \A n \in Nat : n + 0 = n
      BY SMT
    <3> QED BY <3>1, <3>2, Zenon
  <2> QED BY <2>1, <2>2, <2>3, <2>4, <2>5, Zenon
<1> QED BY <1>4, <1>6, <1>7, <1>8, LastStays DEF IInv, ConvertOne

LEMMA ManyKeeps ==
  ASSUME IInv, NEW w \in Words, ConvertMany(w)
  PROVE  IInv'
<1>1. 0 \in 0 .. W - 1 /\ delta = delta + 0
  BY LimitsOrdered, SMT DEF IInv, TypeOK
<1>2. /\ cumul' \in Nat /\ read' \subseteq Nat /\ lost' \in BOOLEAN
      /\ bytes' \in Nat /\ bytes' <= (words + 1) + Carried
      /\ ~lost' => ~lost /\ cumul' = cumul + delta + 0
  <2>1. Emit(delta + 0)
    BY <1>1 DEF ConvertMany
  <2> QED BY <1>1, <2>1, Emitted DEF ConvertMany
<1>3. delta' = 0 /\ many' = many + 1
  BY DEF ConvertMany
<1>4. TypeOK'
  <2>1. /\ at' \in Nat /\ runs' \in Nat /\ words' \in Nat /\ many' \in Nat
        /\ delta' \in Nat
    BY SMT DEF IInv, TypeOK, ConvertMany
  <2>2. true' \subseteq Nat
    <3>1. \A c \in w : c \in 0 .. W - 1
      BY FluxCodeAssumption
    <3>2. \A c \in w : W * at + c \in Nat
      BY <3>1, LimitsOrdered, SMT DEF IInv, TypeOK
    <3> QED BY <3>2, Zenon DEF IInv, TypeOK, ConvertMany, Exact
  <2> QED BY <1>2, <2>1, <2>2 DEF IInv, TypeOK, ConvertMany
<1>5. /\ W * (at + 1) = W * at + W /\ W * (many + 1) = W * many + W
      /\ W * at \in Nat /\ W * many \in Nat
  BY LimitsOrdered, SMT DEF IInv, TypeOK
<1>6. DriftKnown'
  BY <1>2, <1>5, LimitsOrdered, SMT DEF IInv, TypeOK, DriftKnown, ConvertMany
<1>7. many' # 0
  BY <1>3, SMT DEF IInv, TypeOK
<1>8. (bytes + Ahead(delta) <= words + Carried)'
  <2>1. Ahead(delta') = 0
    BY <1>3, LimitsOrdered, SizeSteps, SMT
  <2>2. Carried' = Carried
    BY Zenon DEF Carried, ConvertMany
  <2>3. words' = words + 1
    BY DEF ConvertMany, IInv, TypeOK
  <2>4. bytes' \in Nat /\ bytes' <= (words + 1) + Carried
    BY <1>2
  <2>5. bytes' + 0 = bytes'
    <3>1. bytes' \in Nat
      BY <2>4
    <3>2. \A n \in Nat : n + 0 = n
      BY SMT
    <3> QED BY <3>1, <3>2, Zenon
  <2> QED BY <2>1, <2>2, <2>3, <2>4, <2>5, Zenon
<1> QED BY <1>4, <1>6, <1>7, <1>8, LastStays DEF IInv, ConvertMany, StreamTrue

LEMMA WholeGroups ==
  ASSUME NEW n \in Nat, n > 0, n % G = 0
  PROVE  n >= G
<1>1. G \in Nat /\ G > 0
  BY FluxCodeAssumption, SMT
<1>2. ASSUME n < G PROVE n % G = n
  BY <1>1, <1>2, SMT
<1> QED BY <1>1, <1>2, SMT

LEMMA ChunkHonest ==
  ASSUME IInv, use = "dump", words > 0, words % G = 0,
         NEW short \in 0 .. G - 1, NEW meta \in Metas, last' = Chunk(short, meta)
  PROVE  last' \in Chunks /\ SamplesHonest' /\ OutFits'
<1> DEFINE asked == words - short
           ios   == 2 * asked
<1>1. /\ words >= G /\ asked \in Nat /\ G \in Nat /\ G >= 3 /\ ios \in Nat /\ short \in Nat
  <2>1. words >= G
    BY WholeGroups DEF IInv, TypeOK
  <2>2. G \in Nat /\ G >= 3
    BY FluxCodeAssumption
  <2> QED BY <2>1, <2>2, SMT DEF IInv, TypeOK
<1>2. /\ last'.samples = (prev + W * asked) - delta /\ last'.span = cumul - mark
      /\ last'.short = short /\ last'.bytes = bytes /\ last'.words = words
      /\ last'.whole = (many = 0 /\ ~lost)
      /\ last'.total = Total(meta, Bound(bytes), Bound(ios))
      /\ last'.temp = TempSize(bytes, ios)
  BY Zenon DEF Chunk
<1>3. /\ Total(meta, Bound(bytes), Bound(ios)) \in Nat
      /\ TempSize(bytes, ios) \in Nat
      /\ Total(meta, Bound(bytes), Bound(ios)) <= TempSize(bytes, ios)
  <2>1. meta \in 0 .. METADATA_MAXSIZE - 1 /\ bytes \in Nat
    BY FluxCodeAssumption, Zenon DEF IInv, TypeOK
  <2>2. ios \in Nat
    BY <1>1
  <2> HIDE DEF ios
  <2> QED BY <2>1, <2>2, BlockFits, Zenon
<1> HIDE DEF ios
<1>4. W * asked = W * words - W * short /\ W * words \in Nat /\ W * short \in Nat
      /\ W * asked \in Nat
  BY <1>1, LimitsOrdered, SMT DEF IInv, TypeOK
<1>5. last' \in Chunks
  <2>1. (prev + W * asked) - delta \in Int /\ cumul - mark \in Int
    BY <1>4, SMT DEF IInv, TypeOK
  <2>2. bytes \in Nat /\ words \in Nat
    BY DEF IInv, TypeOK
  <2>3. (many = 0 /\ ~lost) \in BOOLEAN
    BY Zenon
  <2> QED BY <1>1, <1>3, <2>1, <2>2, <2>3, Zenon DEF Chunk, Chunks, ios
<1>6. SamplesHonest'
  <2>1. ASSUME many = 0, ~lost
        PROVE  (prev + W * asked) - delta = (cumul - mark) - W * short
    BY <2>1, <1>4, SMT DEF IInv, TypeOK
  <2> QED BY <2>1, <1>2, Zenon DEF SamplesHonest
<1>7. OutFits'
  <2>1. bytes <= words + 3
    <3>1. bytes + Ahead(delta) <= words + 3 /\ Ahead(delta) \in 0 .. 3
      BY SizeSteps DEF IInv, TypeOK, Carried
    <3> HIDE DEF Ahead
    <3> QED BY <3>1, SMT DEF IInv, TypeOK
  <2>2. bytes <= Room(words)
    BY <1>1, <2>1, SMT DEF Room, IInv, TypeOK
  <2> QED BY <1>2, <1>3, <2>2, Zenon DEF OutFits
<1> QED BY <1>5, <1>6, <1>7

LEMMA CutKeeps ==
  ASSUME IInv, NEW short \in 0 .. G - 1, NEW meta \in Metas,
         (Cut(meta) /\ short = 0) \/ CutLast(short, meta)
  PROVE  IInv'
<1>1. /\ use = "dump" /\ words > 0 /\ words % G = 0 /\ last' = Chunk(short, meta)
      /\ prev' = delta /\ mark' = cumul /\ words' = 0 /\ bytes' = 0
      /\ use' \in {"dump", "none"}
      /\ UNCHANGED <<at, runs, delta, cumul, true, read, many, lost>>
  BY Zenon DEF Cut, CutLast, Next0
<1>2. last' \in Chunks /\ SamplesHonest' /\ OutFits'
  BY <1>1, ChunkHonest
<1>3. TypeOK'
  <2>1. 0 \in Nat /\ use' \in {"none", "dump", "save"}
    BY <1>1, SMT
  <2> QED BY <1>1, <1>2, <2>1, Zenon DEF IInv, TypeOK
<1>4. W * 0 = 0
  BY LimitsOrdered, SMT
<1>5. DriftKnown' /\ StreamTrue' /\ (mark + prev + W * words = cumul + delta)'
  BY <1>1, <1>4, SMT DEF IInv, TypeOK, DriftKnown, StreamTrue
<1>6. (bytes + Ahead(delta) <= words + Carried)'
  <2>1. Ahead(delta) \in 0 .. 3 /\ delta' = delta
    BY <1>1, SizeSteps DEF IInv, TypeOK
  <2>2. Carried' = 3
    <3>1. use' # "save"
      BY <1>1
    <3> QED BY <3>1, Zenon DEF Carried
  <2>3. Ahead(delta') = Ahead(delta)
    BY <2>1
  <2> HIDE DEF Ahead, Carried
  <2>4. bytes' + Ahead(delta') <= words' + Carried'
    BY <1>1, <2>1, <2>2, <2>3, SMT
  <2> QED BY <2>4
<1> QED BY <1>2, <1>3, <1>5, <1>6 DEF IInv

LEMMA TrackKeeps ==
  ASSUME IInv, EndTrack
  PROVE  IInv'
<1>1. /\ use = "save" /\ words > 0 /\ use' = "none"
      /\ last' = [NoChunk EXCEPT !.bytes = bytes, !.words = words]
      /\ UNCHANGED <<at, runs, delta, cumul, true, read, many, lost, words, bytes,
                     prev, mark>>
  BY DEF EndTrack
<1>2. /\ last'.bytes = bytes /\ last'.words = words /\ last'.short = 0
      /\ last'.samples = 0 /\ last'.span = 0 /\ last'.total = 0 /\ last'.temp = 0
  BY <1>1, Zenon DEF NoChunk
<1>3. last' \in Chunks
  BY <1>1, NoChunkType, Zenon DEF Chunks, IInv, TypeOK
<1>4. bytes <= words
  <2>1. bytes + Ahead(delta) <= words /\ Ahead(delta) \in 0 .. 3
    BY <1>1, SizeSteps, SMT DEF IInv, TypeOK, Carried
  <2> HIDE DEF Ahead
  <2> QED BY <2>1, SMT DEF IInv, TypeOK
<1>5. OutFits'
  <2>1. bytes <= Room(words) /\ 0 <= 0
    BY <1>4, SMT DEF Room, IInv, TypeOK
  <2> QED BY <1>2, <2>1, Zenon DEF OutFits
<1>6. SamplesHonest'
  <2>1. 0 = 0 - W * 0
    BY LimitsOrdered, SMT
  <2> QED BY <1>2, <2>1, Zenon DEF SamplesHonest
<1>7. TypeOK'
  BY <1>1, <1>3, Zenon DEF IInv, TypeOK
<1> QED BY <1>1, <1>5, <1>6, <1>7 DEF IInv, DriftKnown, StreamTrue

LEMMA Keeps ==
  ASSUME IInv, [Next]_vars
  PROVE  IInv'
<1>1. CASE UNCHANGED vars
  BY <1>1, Zenon DEF vars, IInv, TypeOK, DriftKnown, StreamTrue, SamplesHonest,
     OutFits, Carried, Ahead
<1>2. CASE \E u \in {"dump", "save"} : Begin(u)
  BY <1>2, BeginKeeps
<1>3. CASE \E n \in Gaps : ConvertEmpty(n)
  BY <1>3, EmptyKeeps
<1>4. CASE \E w \in Words : ConvertOne(w)
  BY <1>4, OneKeeps
<1>5. CASE \E w \in Words : ConvertMany(w)
  BY <1>5, ManyKeeps
<1>6. CASE \E meta \in Metas : Cut(meta)
  <2>1. 0 \in 0 .. G - 1
    BY FluxCodeAssumption, SMT
  <2> QED BY <1>6, <2>1, CutKeeps
<1>7. CASE \E short \in Shorts, meta \in Metas : CutLast(short, meta)
  BY <1>7, CutKeeps, FluxCodeAssumption
<1>8. CASE EndTrack
  BY <1>8, TrackKeeps
<1> QED BY <1>1, <1>2, <1>3, <1>4, <1>5, <1>6, <1>7, <1>8 DEF Next

-----------------------------------------------------------------------------
(* Theorems                                                                 *)

\* The invariant the theorems below are parts of: each conversion, chunk and
\* track keeps it.
THEOREM Invariant == Spec => []IInv
<1>1. Init => IInv
  BY Starts
<1>2. IInv /\ [Next]_vars => IInv'
  BY Keeps
<1> QED BY <1>1, <1>2, PTL DEF Spec

\* Every variable of the conversion keeps its type.
THEOREM TypeCorrect == Spec => []TypeOK
<1>1. IInv => TypeOK
  BY DEF IInv
<1> QED BY <1>1, Invariant, PTL

\* What the stream loses of the time is W ticks for every word of several pulses,
\* whatever the words, the gaps and the chunks: fast_convert_chunk's carry is exact.
THEOREM TicksKept == Spec => []DriftKnown
<1>1. IInv => DriftKnown
  BY DEF IInv
<1> QED BY <1>1, Invariant, PTL

\* Without such a word the pulses read from the stream are those convert_track
\* finds, in a dump of any number of chunks and in a saved track.
THEOREM StreamExact == Spec => []StreamTrue
<1>1. IInv => StreamTrue
  BY DEF IInv
<1> QED BY <1>1, Invariant, PTL

\* number_of_data_samples of every chunk is the time its pulses span.
THEOREM SamplesCounted == Spec => []SamplesHonest
<1>1. IInv => SamplesHonest
  BY DEF IInv
<1> QED BY <1>1, Invariant, PTL

\* No chunk or track overruns the buffers of its conversion and of its block.
THEOREM BuffersLargeEnough == Spec => []OutFits
<1>1. IInv => OutFits
  BY DEF IInv
<1> QED BY <1>1, Invariant, PTL

=============================================================================
