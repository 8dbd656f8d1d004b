---------------------------- MODULE EncodingProofs ----------------------------
(***************************************************************************)
(* Proofs about what is encoded and how it is sent.  EncodePipeline, for   *)
(* every length of a codec frame, every block length, every MTU and every  *)
(* set of encoded sizes: the encoder sees the PCM in order, no encoded     *)
(* frame stays behind, and the packets are stamped in order, carry the     *)
(* bytes that were accounted for and respect the MTU and the header's      *)
(* frame count.  StreamSetup, for every mix format, profile and bitrate:   *)
(* codec, rate, mode and bitrate of a session fit together.                *)
(***************************************************************************)
EXTENDS EncodePipeline, StreamSetup, Integers, SequenceTheorems,
        WellFoundedInduction, TLAPS

\* The number of the PCM frame before the next one to be encoded.
Position == base + timestamp

\* The PCM frames of s come next, and end with the last converted one.
Continues(s) == s = Block(Position, Len(s)) /\ fed = Position + Len(s)

\* The PCM frames of s are not ahead of where they are in the stream.
NotAhead(s) ==
    /\ Position + Len(s) <= fed
    /\ \A i \in DOMAIN s : s[i] + Len(s) <= fed + i

\* Restarts and dropped blocks move what awaits encoding back at most.
BInv ==
    /\ phase = "idle" => combined = <<>>
    /\ phase # "encoding" => NotAhead(residual)
    /\ phase # "idle" => NotAhead(combined)

\* What awaits encoding continues where the encoder is and ends with the last
\* converted frame, unless a restart has overtaken the block.
OInv ==
    /\ phase = "idle" /\ ~raced => Continues(residual)
    /\ phase # "idle" /\ ~raced => Continues(combined)
    /\ input # <<>> /\ ~raced =>
          /\ timestamp >= FrameLength
          /\ input = Block(Position - FrameLength, FrameLength)

\* Encoded frames are only held back while a block is encoded.
FInv ==
    /\ phase # "encoding" => accum = <<>>
    /\ accum = <<>> => accumSize = 0
    /\ EveryFrameOffered

\* What was packed or sent ends before the PCM that is encoded next.  What was
\* sent also ends before the time stamp of the packet being filled, unless a
\* restart has overtaken the block.
SInv ==
    /\ packet.frames # <<>> =>
          /\ Last(packet.frames).first + FrameLength - 1 + Len(combined) <= fed
          /\ phase # "encoding" =>
                Last(packet.frames).first + FrameLength - 1 + Len(residual) <= fed
    /\ \A i \in DOMAIN accum :
          accum[i].first + FrameLength - 1 + Len(combined) <= fed
    /\ phase = "encoding" /\ ~raced =>
          /\ firstTs <= timestamp
          /\ accum # <<>> => base + firstTs < accum[1].first
          /\ packet.frames # <<>> =>
                Last(packet.frames).first + FrameLength - 1 <= base + firstTs
    /\ phase # "encoding" => accum = <<>>

-----------------------------------------------------------------------------
(* Blocks of consecutive PCM frames.                                       *)

\* A block has the length and the numbers it was asked for.
LEMMA BlockSeq ==
    ASSUME NEW k \in Nat, NEW n \in Nat
    PROVE  /\ Block(k, n) \in Seq(Nat) /\ Len(Block(k, n)) = n
           /\ \A i \in 1 .. n : Block(k, n)[i] = k + i
BY DEF Block

\* Two blocks that follow one another are one block.
LEMMA BlockJoin ==
    ASSUME NEW k \in Nat, NEW m \in Nat, NEW n \in Nat
    PROVE  Block(k, m) \o Block(k + m, n) = Block(k, m + n)
<1> DEFINE x == Block(k, m)
           y == Block(k + m, n)
           t == Block(k, m + n)
<1>1. x \in Seq(Nat) /\ Len(x) = m /\ \A i \in 1 .. m : x[i] = k + i
  BY BlockSeq
<1>0. k + m \in Nat /\ m + n \in Nat
  OBVIOUS
<1>2. y \in Seq(Nat) /\ Len(y) = n /\ \A i \in 1 .. n : y[i] = (k + m) + i
  BY <1>0, BlockSeq
<1>3. t \in Seq(Nat) /\ Len(t) = m + n /\ \A i \in 1 .. m + n : t[i] = k + i
  BY BlockSeq
<1> HIDE DEF x, y, t
<1>4. /\ x \o y \in Seq(Nat) /\ Len(x \o y) = Len(x) + Len(y)
      /\ \A i \in 1 .. Len(x) + Len(y) :
            (x \o y)[i] = IF i <= Len(x) THEN x[i] ELSE y[i - Len(x)]
  BY <1>1, <1>2, ConcatProperties
<1>5. ASSUME NEW i \in 1 .. m + n PROVE (x \o y)[i] = t[i]
  <2>1. (x \o y)[i] = IF i <= m THEN x[i] ELSE y[i - m]
    BY <1>1, <1>2, <1>4
  <2>2. CASE i <= m
    BY <1>1, <1>3, <2>1, <2>2
  <2>3. CASE i > m
    <3>1. i - m \in 1 .. n /\ ~(i <= m)
      BY <2>3
    <3>2. y[i - m] = (k + m) + (i - m)
      BY <1>2, <3>1
    <3>3. t[i] = k + i /\ (k + m) + (i - m) = k + i
      BY <1>3
    <3> QED
      BY <2>1, <3>1, <3>2, <3>3
  <2>4. i <= m \/ i > m
    OBVIOUS
  <2> QED
    BY <2>2, <2>3, <2>4
<1>6. Len(x \o y) = Len(t) /\ \A i \in 1 .. Len(x \o y) : (x \o y)[i] = t[i]
  BY <1>1, <1>2, <1>3, <1>4, <1>5
<1>7. x \o y = t
  BY <1>3, <1>4, <1>6, SeqEqual
<1> QED
  BY <1>7 DEF x, y, t

\* A block is cut into the frames of an encode call and the rest.
LEMMA BlockCut ==
    ASSUME NEW k \in Nat, NEW m \in Nat, NEW n \in Nat, n <= m
    PROVE  /\ SubSeq(Block(k, m), 1, n) = Block(k, n)
           /\ SubSeq(Block(k, m), n + 1, m) = Block(k + n, m - n)
<1> DEFINE s == Block(k, m)
           a == SubSeq(s, 1, n)
           b == SubSeq(s, n + 1, m)
           x == Block(k, n)
           y == Block(k + n, m - n)
<1>1. s \in Seq(Nat) /\ Len(s) = m /\ \A i \in 1 .. m : s[i] = k + i
  BY BlockSeq
<1>2. x \in Seq(Nat) /\ Len(x) = n /\ \A i \in 1 .. n : x[i] = k + i
  BY BlockSeq
<1>3. m - n \in Nat /\ k + n \in Nat
  OBVIOUS
<1>4. y \in Seq(Nat) /\ Len(y) = m - n
      /\ \A i \in 1 .. m - n : y[i] = (k + n) + i
  BY <1>3, BlockSeq
<1> HIDE DEF s, x, y
<1>5. /\ a \in Seq(Nat) /\ Len(a) = n
      /\ \A i \in 1 .. n : a[i] = s[i]
  <2>1. \A i \in 1 .. n : s[i] \in Nat
    BY <1>1
  <2>2. /\ a \in Seq(Nat) /\ Len(a) = IF 1 <= n THEN n - 1 + 1 ELSE 0
        /\ \A i \in 1 .. n - 1 + 1 : a[i] = s[1 + i - 1]
    BY <2>1, SubSeqProperties
  <2> HIDE DEF a
  <2>3. n - 1 + 1 = n /\ \A i \in 1 .. n : 1 + i - 1 = i
    OBVIOUS
  <2> QED
    BY <2>2, <2>3
<1>6. /\ b \in Seq(Nat) /\ Len(b) = m - n
      /\ \A i \in 1 .. m - n : b[i] = s[n + i]
  <2>1. \A i \in n + 1 .. m : s[i] \in Nat
    BY <1>1
  <2>2. /\ b \in Seq(Nat) /\ Len(b) = IF n + 1 <= m THEN m - (n + 1) + 1 ELSE 0
        /\ \A i \in 1 .. m - (n + 1) + 1 : b[i] = s[(n + 1) + i - 1]
    BY <2>1, SubSeqProperties
  <2> HIDE DEF b
  <2>3. m - (n + 1) + 1 = m - n /\ \A i \in 1 .. m - n : (n + 1) + i - 1 = n + i
    OBVIOUS
  <2>4. Len(b) = m - n
    BY <2>2, <2>3
  <2> QED
    BY <2>2, <2>3, <2>4
<1> HIDE DEF a, b
<1>7. Len(a) = Len(x) /\ \A i \in 1 .. Len(a) : a[i] = x[i]
  BY <1>1, <1>2, <1>5
<1>8. Len(b) = Len(y) /\ \A i \in 1 .. Len(b) : b[i] = y[i]
  <2>1. ASSUME NEW i \in 1 .. m - n PROVE b[i] = y[i]
    <3>1. n + i \in 1 .. m /\ k + (n + i) = (k + n) + i
      OBVIOUS
    <3> QED
      BY <1>1, <1>4, <1>6, <3>1
  <2> QED
    BY <1>4, <1>6, <2>1
<1>9. a = x /\ b = y
  BY <1>2, <1>4, <1>5, <1>6, <1>7, <1>8, SeqEqual
<1> QED
  BY <1>9 DEF a, b, s, x, y

-----------------------------------------------------------------------------
(* Types.                                                                  *)

\* The parameters one by one.
LEMMA Parameters ==
    /\ FrameLength \in Nat /\ FrameLength > 0
    /\ MaxAvail \in Nat /\ MaxBlock \in Nat /\ MaxBlock > 0
    /\ MaxRaw \in Nat /\ AccumBytes \in Nat /\ MaxTaken \in Nat
    /\ \A size \in OutSizes : size \in Nat
BY PipelineAssumption

\* Upsampling yields a number of frames, possibly none.
LEMMA ConvertedNat == \A n \in Nat : Converted(n) \in Nat
BY DEF Converted, upsample_2x

\* Both readers take a block, the encode thread a capped one.
LEMMA Reads ==
    ASSUME NEW n \in 1 .. MaxAvail, EncodeThreadReads(n) \/ CallbackReads(n)
    PROVE  \E m \in Nat : TakeBlock(m)
<1>1. n \in Nat /\ (IF n > MaxBlock THEN MaxBlock ELSE n) \in Nat
  BY Parameters
<1> QED
  BY <1>1 DEF EncodeThreadReads, CallbackReads

\* What is left of a number of which three parts are taken.
LEMMA Leaves ==
    ASSUME NEW i \in Nat, NEW j \in Nat, NEW k \in Nat, NEW n \in Nat,
           i + j + k <= n
    PROVE  n - j - k \in Nat /\ i <= n - j - k /\ (n - j - k) + j + k = n
OBVIOUS

\* Every step keeps the types, and the residual shorter than a codec frame.
LEMMA NextTypeOK ==
    ASSUME TypeOK, BInv, [Next]_vars
    PROVE  TypeOK'
<1> USE DEF cfgVars, linkVars, packVars
<1>1. ASSUME NEW n \in Nat, TakeBlock(n) PROVE TypeOK'
  <2>0. Converted(n) \in Nat
    BY ConvertedNat
  <2>a. fed \in Nat /\ taken \in Nat
    BY DEF TypeOK
  <2>1. taken' \in 0 .. MaxTaken /\ fed' \in Nat
    <3>1. taken' = taken + n /\ taken' <= MaxTaken /\ fed' = fed + Converted(n)
      BY <1>1 DEF TakeBlock
    <3> QED
      BY <2>0, <2>a, <3>1, Parameters
  <2>2. Block(fed, Converted(n)) \in Seq(Nat)
    BY ConvertedNat, BlockSeq DEF TypeOK
  <2>3. combined' \in Seq(Nat)
    BY <1>1, <2>2 DEF TakeBlock, TypeOK
  <2> QED
    BY <1>1, <2>1, <2>3 DEF TakeBlock, TypeOK
<1>2. CASE LoadTransport
  <2>1. CASE transportSet
    <3>1. /\ accum' = <<>> /\ accumSize' = 0 /\ firstTs' = timestamp
          /\ phase' = "encoding" /\ UNCHANGED <<combined, base>>
      BY <1>2, <2>1 DEF LoadTransport
    <3> QED
      BY <1>2, <3>1 DEF LoadTransport, TypeOK
  <2>2. CASE ~transportSet
    <3>1. /\ combined' = <<>> /\ phase' = "idle" /\ input' = <<>>
          /\ base' = fed - timestamp - Len(residual)
          /\ UNCHANGED <<accum, accumSize, firstTs>>
      BY <1>2, <2>2 DEF LoadTransport
    <3>2. base' \in Nat /\ raced' \in BOOLEAN
      <4>1. phase = "combined" /\ raced' = ~InSequence(residual)
        BY <1>2, <2>2 DEF LoadTransport
      <4>2. base + timestamp + Len(residual) <= fed
        BY <4>1 DEF BInv, NotAhead, Position
      <4>3. Len(residual) \in Nat
        BY DEF TypeOK
      <4>4. raced' \in BOOLEAN
        BY <4>1
      <4> QED
        BY <3>1, <4>2, <4>3, <4>4, Leaves DEF TypeOK
    <3> QED
      BY <1>2, <3>1, <3>2 DEF LoadTransport, TypeOK
  <2> QED
    BY <2>1, <2>2
<1>3. ASSUME NEW size \in OutSizes, EncodeFrame(size) PROVE TypeOK'
  <2>1. size \in Nat /\ FrameLength \in Nat \ {0} /\ Len(combined) \in Nat
    BY Parameters DEF TypeOK
  <2>2. combined[1] \in Nat
    <3>1. combined \in Seq(Nat) /\ 1 \in 1 .. Len(combined)
      BY <1>3, <2>1 DEF EncodeFrame, TypeOK
    <3> QED
      BY <3>1
  <2>3. [first |-> combined[1], size |-> size] \in Frames
    BY <2>1, <2>2 DEF Frames
  <2>4. accum' \in Seq(Frames)
    BY <1>3, <2>3 DEF EncodeFrame, TypeOK
  <2>5. packet' \in [ts : Nat, frames : Seq(Frames)]
    BY <1>3 DEF EncodeFrame, TypeOK
  <2>6. offered' \in Nat /\ produced' \in Nat /\ timestamp' \in Nat
    BY <1>3, <2>1 DEF EncodeFrame, TypeOK
  <2>7. accumSize' \in Nat /\ firstTs' \in Nat
    BY <1>3, <2>1 DEF EncodeFrame, TypeOK
  <2>8. input' \in Seq(Nat) /\ combined' \in Seq(Nat)
    <3>1. \A i \in 1 .. Len(combined) : combined[i] \in Nat
      BY DEF TypeOK
    <3>2. \A i \in 1 .. FrameLength : combined[i] \in Nat
      BY <1>3, <2>1, <3>1 DEF EncodeFrame
    <3>3. \A i \in FrameLength + 1 .. Len(combined) : combined[i] \in Nat
      BY <2>1, <3>1
    <3>4. SubSeq(combined, 1, FrameLength) \in Seq(Nat)
      BY <2>1, <3>2, SubSeqProperties
    <3>5. SubSeq(combined, FrameLength + 1, Len(combined)) \in Seq(Nat)
      BY <2>1, <3>3, SubSeqProperties
    <3> QED
      BY <1>3, <3>4, <3>5 DEF EncodeFrame
  <2> QED
    BY <1>3, <2>4, <2>5, <2>6, <2>7, <2>8 DEF EncodeFrame, TypeOK
<1>4. CASE FinishBlock
  <2>1. packet' \in [ts : Nat, frames : Seq(Frames)] /\ offered' \in Nat
    BY <1>4 DEF FinishBlock, TypeOK
  <2>2. residual' \in {combined, <<>>}
    BY <1>4 DEF FinishBlock
  <2>3. residual' \in Seq(Nat) /\ Len(residual') < FrameLength
        /\ Len(residual') \in Nat /\ Len(residual') <= Len(combined)
    <3>1. /\ combined \in Seq(Nat) /\ Len(combined) \in Nat
          /\ Len(combined) < FrameLength /\ Len(<<>>) = 0
      BY <1>4, Parameters DEF FinishBlock, TypeOK
    <3>2. CASE residual' = combined
      BY <3>1, <3>2
    <3>3. CASE residual' = <<>>
      BY <3>1, <3>3, Parameters
    <3> QED
      BY <2>2, <3>2, <3>3
  <2>4. base' \in Nat
    <3>1. base + timestamp + Len(combined) <= fed /\ Len(combined) \in Nat
      BY <1>4 DEF FinishBlock, BInv, NotAhead, Position, TypeOK
    <3>2. base + timestamp + Len(residual') <= fed
      BY <2>3, <3>1 DEF TypeOK
    <3>3. base' = base \/ base' = fed - timestamp - Len(residual')
      BY <1>4 DEF FinishBlock
    <3>4. base \in Nat /\ timestamp \in Nat /\ fed \in Nat
      BY DEF TypeOK
    <3>5. fed - timestamp - Len(residual') \in Nat
      BY <2>3, <3>2, <3>4, Leaves
    <3> QED
      BY <3>3, <3>4, <3>5
  <2>5. raced' \in BOOLEAN /\ input' \in Seq(Nat)
    BY <1>4 DEF FinishBlock, TypeOK
  <2>6. UNCHANGED <<cli, upsample, encoderSet, transportSet, taken, fed, timestamp,
                   firstTs, produced>>
        /\ phase' = "idle" /\ accum' = <<>> /\ accumSize' = 0 /\ combined' = <<>>
    BY <1>4 DEF FinishBlock
  <2> QED
    BY <2>1, <2>3, <2>4, <2>5, <2>6 DEF TypeOK
<1>5. CASE WorkerLosesLink
  <2>1. transportSet' \in BOOLEAN /\ encoderSet' \in BOOLEAN
    BY <1>5 DEF WorkerLosesLink
  <2> QED
    BY <1>5, <2>1 DEF WorkerLosesLink, TypeOK
<1>6. CASE WorkerRestarts
  <2>1. encoderSet' \in BOOLEAN /\ NoPacket \in [ts : Nat, frames : Seq(Frames)]
        /\ raced' \in BOOLEAN
    BY <1>6 DEF WorkerRestarts, NoPacket, TypeOK
  <2>2. timestamp' \in Nat
    BY <1>6 DEF WorkerRestarts, TypeOK
  <2>3. base' \in Nat
    <3>1. base' = fed - Len(combined) \/ base' = base
      BY <1>6 DEF WorkerRestarts
    <3>2. fed \in Nat /\ base \in Nat /\ Len(combined) \in Nat /\ Position \in Nat
      BY DEF TypeOK, Position
    <3>3. Len(combined) <= fed
      <4>1. CASE phase = "idle"
        BY <3>2, <4>1 DEF BInv
      <4>2. CASE phase # "idle"
        BY <3>2, <4>2 DEF BInv, NotAhead
      <4> QED
        BY <4>1, <4>2
    <3> QED
      BY <3>1, <3>2, <3>3
  <2> QED
    BY <1>6, <2>1, <2>2, <2>3, Parameters DEF WorkerRestarts, TypeOK
<1>7. CASE WorkerResumes
  <2>1. transportSet' \in BOOLEAN
    BY <1>7 DEF WorkerResumes
  <2> QED
    BY <1>7, <2>1 DEF WorkerResumes, TypeOK
<1>8. CASE UNCHANGED vars
  BY <1>8 DEF vars, TypeOK
<1> QED
  BY <1>1, <1>2, <1>3, <1>4, <1>5, <1>6, <1>7, <1>8, Reads DEF Next

-----------------------------------------------------------------------------
(* The three invariants.                                                   *)

\* TLC finds all of it at the start of either front end.
LEMMA InitAll == Init => TypeOK /\ BInv /\ OInv /\ FInv /\ SInv
<1> SUFFICES ASSUME Init PROVE TypeOK /\ BInv /\ OInv /\ FInv /\ SInv
  OBVIOUS
<1>1. encoderSet \in BOOLEAN /\ transportSet \in BOOLEAN
  BY DEF Init
<1>2. NoPacket \in [ts : Nat, frames : Seq(Frames)] /\ NoPacket.frames = <<>>
  BY DEF NoPacket
<1>3. TypeOK
  <2>1. raced \in BOOLEAN
    BY DEF Init
  <2> QED
    BY <1>1, <1>2, <2>1, Parameters DEF Init, TypeOK
<1>4. Block(0, 0) = <<>>
  <2>1. Block(0, 0) \in Seq(Nat) /\ Len(Block(0, 0)) = 0
    BY BlockSeq
  <2> QED
    BY <2>1, EmptySeq
<1>5. OInv
  <2>1. Position = 0 /\ Len(<<>>) = 0
    BY DEF Init, Position
  <2> QED
    BY <1>4, <2>1 DEF Init, OInv, Continues
<1>8. BInv
  BY DEF Init, BInv, NotAhead, Position
<1>6. FInv
  BY DEF Init, FInv, EveryFrameOffered
<1>7. SInv
  BY <1>2 DEF Init, SInv
<1> QED
  BY <1>3, <1>5, <1>6, <1>7, <1>8

\* The empty residual is an empty block anywhere.
LEMMA EmptyBlock == \A k \in Nat : Block(k, 0) = <<>>
<1> SUFFICES ASSUME NEW k \in Nat PROVE Block(k, 0) = <<>>
  OBVIOUS
<1>1. Block(k, 0) \in Seq(Nat) /\ Len(Block(k, 0)) = 0
  BY BlockSeq
<1> QED
  BY <1>1, EmptySeq

\* Joining, encoding and leaving over keep every PCM frame at or behind its
\* place in the stream; a restart and a dropped block move the place on.
LEMMA NextBInv ==
    ASSUME TypeOK, BInv, [Next]_vars
    PROVE  BInv'
<1> USE DEF cfgVars, linkVars, packVars
<1>a. /\ base \in Nat /\ timestamp \in Nat /\ fed \in Nat /\ Position \in Nat
      /\ residual \in Seq(Nat) /\ combined \in Seq(Nat)
      /\ Len(residual) \in Nat /\ Len(combined) \in Nat /\ Len(<<>>) = 0
      /\ FrameLength \in Nat /\ FrameLength > 0
      /\ Position = base + timestamp
  BY Parameters DEF TypeOK, Position
<1>b. ASSUME NEW s \in Seq(Nat), NotAhead(s), Position' = Position, fed' = fed
      PROVE  NotAhead(s)'
  BY <1>b DEF NotAhead
<1>1. ASSUME NEW n \in Nat, TakeBlock(n) PROVE BInv'
  <2> DEFINE c == Converted(n)
             new == Block(fed, c)
  <2>1. c \in Nat
    BY ConvertedNat
  <2>2. new \in Seq(Nat) /\ Len(new) = c /\ \A i \in 1 .. c : new[i] = fed + i
    BY <1>a, <2>1, BlockSeq
  <2>3. /\ phase = "idle" /\ phase' = "combined" /\ fed' = fed + c
        /\ combined' = residual \o new /\ residual' = residual
        /\ Position' = Position
    BY <1>1 DEF TakeBlock, Position
  <2>4. /\ Position + Len(residual) <= fed
        /\ \A i \in 1 .. Len(residual) : residual[i] + Len(residual) <= fed + i
    BY <1>a, <2>3 DEF BInv, NotAhead
  <2> HIDE DEF c, new
  <2>5. /\ Len(combined') = Len(residual) + c /\ combined' \in Seq(Nat)
        /\ \A i \in 1 .. Len(residual) + c :
              combined'[i] = IF i <= Len(residual) THEN residual[i]
                             ELSE new[i - Len(residual)]
    <3>1. residual \in Seq(Nat) /\ new \in Seq(Nat) /\ Len(new) = c
      BY <1>a, <2>2
    <3>2. /\ residual \o new \in Seq(Nat)
          /\ Len(residual \o new) = Len(residual) + Len(new)
          /\ \A i \in 1 .. Len(residual) + Len(new) :
                (residual \o new)[i] = IF i <= Len(residual) THEN residual[i]
                                      ELSE new[i - Len(residual)]
      BY <3>1, ConcatProperties
    <3> QED
      BY <2>3, <3>1, <3>2
  <2>6. NotAhead(combined)'
    <3>1. ASSUME NEW i \in DOMAIN combined'
          PROVE  combined'[i] + Len(combined') <= fed' + i
      <4>0. i \in 1 .. Len(residual) + c
        BY <2>5
      <4>1. CASE i <= Len(residual)
        <5>1. combined'[i] = residual[i] /\ i \in 1 .. Len(residual)
          BY <1>a, <2>1, <2>5, <4>0, <4>1
        <5>2. residual[i] \in Nat /\ residual[i] + Len(residual) <= fed + i
          BY <1>a, <2>4, <5>1
        <5>3. \A m \in Nat : m + Len(residual) <= fed + i
                 => m + (Len(residual) + c) <= (fed + c) + i
          BY <1>a, <2>1, <5>1
        <5>4. residual[i] + (Len(residual) + c) <= (fed + c) + i
          BY <5>2, <5>3
        <5> QED
          BY <2>3, <2>5, <5>1, <5>4
      <4>2. CASE ~(i <= Len(residual))
        <5>1. i - Len(residual) \in 1 .. c
          BY <1>a, <2>1, <4>0, <4>2
        <5>2. combined'[i] = fed + (i - Len(residual))
          BY <2>2, <2>5, <4>0, <4>2, <5>1
        <5>3. (fed + (i - Len(residual))) + (Len(residual) + c) = (fed + c) + i
          BY <1>a, <2>1, <4>0
        <5>4. combined'[i] + Len(combined') = fed' + i
          BY <2>3, <2>5, <5>2, <5>3
        <5>5. fed' + i \in Nat
          BY <1>a, <2>1, <2>3, <4>0
        <5> QED
          BY <5>4, <5>5
      <4> QED
        BY <4>1, <4>2
    <3>2. Position' + Len(combined') <= fed'
      BY <1>a, <2>1, <2>3, <2>4, <2>5
    <3> QED
      BY <3>1, <3>2 DEF NotAhead
  <2>7. NotAhead(residual)'
    <3>1. ASSUME NEW i \in 1 .. Len(residual)
          PROVE  residual[i] + Len(residual) <= fed' + i
      <4>1. residual[i] \in Nat /\ residual[i] + Len(residual) <= fed + i
        BY <1>a, <2>4
      <4> QED
        BY <1>a, <2>1, <2>3, <4>1
    <3>2. Position' + Len(residual) <= fed'
      BY <1>a, <2>1, <2>3, <2>4
    <3>3. DOMAIN residual = 1 .. Len(residual)
      BY <1>a
    <3> QED
      BY <2>3, <3>1, <3>2, <3>3 DEF NotAhead
  <2> QED
    BY <2>3, <2>6, <2>7 DEF BInv
<1>2. CASE LoadTransport
  <2>1. CASE transportSet
    <3>1. /\ phase = "combined" /\ phase' = "encoding" /\ Position' = Position
          /\ UNCHANGED <<combined, fed>>
      BY <1>2, <2>1 DEF LoadTransport, Position
    <3> QED
      BY <1>a, <3>1 DEF BInv, NotAhead
  <2>2. CASE ~transportSet
    <3>1. /\ phase = "combined" /\ phase' = "idle" /\ combined' = <<>>
          /\ base' = fed - timestamp - Len(residual)
          /\ UNCHANGED <<fed, residual, timestamp>>
      BY <1>2, <2>2 DEF LoadTransport
    <3>2. /\ base + timestamp + Len(residual) <= fed
          /\ \A i \in 1 .. Len(residual) : residual[i] + Len(residual) <= fed + i
      BY <1>a, <3>1 DEF BInv, NotAhead
    <3>3. base' + timestamp' + Len(residual') = fed'
      BY <1>a, <3>1, <3>2, Leaves
    <3> QED
      BY <1>a, <3>1, <3>2, <3>3 DEF BInv, NotAhead, Position
  <2> QED
    BY <2>1, <2>2
<1>3. ASSUME NEW size \in OutSizes, EncodeFrame(size) PROVE BInv'
  <2>1. /\ phase = "encoding" /\ phase' = "encoding"
        /\ Len(combined) >= FrameLength
        /\ combined' = SubSeq(combined, FrameLength + 1, Len(combined))
        /\ timestamp' = timestamp + FrameLength
        /\ UNCHANGED <<base, fed>>
    BY <1>3 DEF EncodeFrame
  <2>2. /\ Position + Len(combined) <= fed
        /\ \A i \in 1 .. Len(combined) : combined[i] + Len(combined) <= fed + i
    BY <1>a, <2>1 DEF BInv, NotAhead
  <2>3. /\ Len(combined') = Len(combined) - FrameLength
        /\ \A i \in 1 .. Len(combined) - FrameLength :
              combined'[i] = combined[FrameLength + i]
    <3>1. Len(combined') = Len(combined) - FrameLength
      BY <1>a, <2>1
    <3>2. \A i \in 1 .. Len(combined) - FrameLength :
             combined'[i] = combined[FrameLength + i]
      <4>1. /\ combined \in Seq(Nat) /\ Len(combined) \in Nat
            /\ FrameLength \in Nat /\ FrameLength <= Len(combined)
            /\ combined' = SubSeq(combined, FrameLength + 1, Len(combined))
        BY <1>a, <2>1
      <4> QED
        BY <4>1
    <3> QED
      BY <3>1, <3>2
  <2>c. /\ Len(combined) \in Nat /\ FrameLength <= Len(combined)
        /\ Len(combined') = Len(combined) - FrameLength /\ fed' = fed
    BY <1>a, <2>1, <2>3
  <2>4. ASSUME NEW i \in 1 .. Len(combined')
        PROVE  combined'[i] + Len(combined') <= fed' + i
    <3>1. FrameLength + i \in 1 .. Len(combined) /\ i \in Nat
      BY <1>a, <2>c
    <3>2. combined'[i] = combined[FrameLength + i]
      BY <2>3, <2>c
    <3>3. combined[FrameLength + i] \in Nat
      BY <1>a, <3>1
    <3>4. combined[FrameLength + i] + Len(combined) <= fed + (FrameLength + i)
      BY <2>2, <3>1
    <3>5. \A m \in Nat : m + Len(combined) <= fed + (FrameLength + i)
             => m + (Len(combined) - FrameLength) <= fed + i
      BY <1>a, <2>c, <3>1
    <3>6. combined[FrameLength + i] + (Len(combined) - FrameLength) <= fed + i
      BY <3>3, <3>4, <3>5
    <3> QED
      BY <2>c, <3>2, <3>6
  <2>5. Position' + Len(combined') <= fed'
    <3>1. Position' = Position + FrameLength
      BY <1>a, <2>1 DEF Position
    <3>2. (Position + FrameLength) + (Len(combined) - FrameLength)
             = Position + Len(combined)
      BY <1>a, <2>c
    <3> QED
      BY <2>2, <2>c, <3>1, <3>2
  <2>6. DOMAIN combined' = 1 .. Len(combined')
    BY NextTypeOK DEF TypeOK
  <2> QED
    BY <2>1, <2>4, <2>5, <2>6 DEF BInv, NotAhead
<1>4. CASE FinishBlock
  <2>1. /\ phase = "encoding" /\ phase' = "idle" /\ combined' = <<>>
        /\ residual' \in IF raced THEN {combined, <<>>} ELSE {combined}
        /\ base' = IF raced THEN fed - timestamp - Len(residual') ELSE base
        /\ UNCHANGED <<fed, timestamp>>
    BY <1>4 DEF FinishBlock
  <2>2. /\ base + timestamp + Len(combined) <= fed
        /\ \A i \in 1 .. Len(combined) : combined[i] + Len(combined) <= fed + i
    BY <1>a, <2>1 DEF BInv, NotAhead
  <2>3. residual' \in Seq(Nat) /\ Len(residual') \in Nat
        /\ Len(residual') <= Len(combined)
        /\ \A i \in 1 .. Len(residual') : residual'[i] + Len(residual') <= fed + i
    <3>1. CASE residual' = combined
      BY <1>a, <2>2, <3>1
    <3>2. CASE residual' = <<>>
      BY <1>a, <3>2
    <3> QED
      BY <2>1, <3>1, <3>2
  <2>4. base' + timestamp' + Len(residual') <= fed'
    <3>1. base + timestamp + Len(residual') <= fed
      BY <1>a, <2>2, <2>3
    <3>2. CASE raced
      <4>1. base' + timestamp + Len(residual') = fed
        BY <1>a, <2>1, <2>3, <3>1, <3>2, Leaves
      <4> QED
        BY <1>a, <2>1, <4>1
    <3>3. CASE ~raced
      BY <2>1, <3>1, <3>3
    <3> QED
      BY <3>2, <3>3
  <2> QED
    BY <1>a, <2>1, <2>3, <2>4 DEF BInv, NotAhead, Position
<1>5. CASE WorkerLosesLink
  BY <1>5 DEF WorkerLosesLink, BInv, NotAhead, Position
<1>6. CASE WorkerRestarts
  <2>1. /\ residual' = <<>>
        /\ timestamp' \in IF phase = "encoding" /\ Len(combined) >= FrameLength
                          THEN {0, timestamp} ELSE {0}
        /\ base' = IF timestamp' = 0 THEN fed - Len(combined) ELSE base
        /\ UNCHANGED <<phase, fed, combined>>
    BY <1>6 DEF WorkerRestarts
  <2>2. Len(combined) <= fed
    <3>1. CASE phase = "idle"
      BY <1>a, <3>1 DEF BInv
    <3>2. CASE phase # "idle"
      BY <1>a, <3>2 DEF BInv, NotAhead
    <3> QED
      BY <3>1, <3>2
  <2>3. Position' + Len(combined) <= fed
    <3>1. CASE timestamp' = 0
      BY <1>a, <2>1, <2>2, <3>1 DEF Position
    <3>2. CASE timestamp' # 0
      <4>1. phase = "encoding" /\ timestamp' = timestamp /\ base' = base
        BY <2>1, <3>2
      <4> QED
        BY <1>a, <4>1 DEF BInv, NotAhead, Position
    <3> QED
      BY <3>1, <3>2
  <2>4. Position' \in Nat /\ Position' + Len(residual') <= fed
    <3>1. TypeOK'
      BY NextTypeOK
    <3>2. base' \in Nat /\ timestamp' \in Nat
      BY <3>1 DEF TypeOK
    <3>3. \A i, j \in Nat : i + j \in Nat
      OBVIOUS
    <3>4. Position' = base' + timestamp'
      BY DEF Position
    <3>5. Position' \in Nat
      BY <3>2, <3>3, <3>4, Zenon
    <3>6. \A i, j, k \in Nat : i + j <= k => i + 0 <= k
      OBVIOUS
    <3>7. Len(residual') = 0 /\ Len(combined) \in Nat /\ fed \in Nat
      BY <1>a, <2>1
    <3>8. Position' + 0 <= fed
      BY <2>3, <3>5, <3>6, <3>7, Zenon
    <3> QED
      BY <3>5, <3>7, <3>8
  <2>5. NotAhead(residual)'
    BY <2>1, <2>4 DEF NotAhead
  <2>6. phase # "idle" => NotAhead(combined)'
    <3> SUFFICES ASSUME phase # "idle" PROVE NotAhead(combined)'
      OBVIOUS
    <3>1. \A i \in DOMAIN combined : combined[i] + Len(combined) <= fed + i
      BY DEF BInv, NotAhead
    <3> QED
      BY <2>1, <2>3, <3>1 DEF NotAhead
  <2> QED
    BY <2>1, <2>5, <2>6 DEF BInv
<1>7. CASE WorkerResumes
  BY <1>7 DEF WorkerResumes, BInv, NotAhead, Position
<1>8. CASE UNCHANGED vars
  BY <1>8 DEF vars, BInv, NotAhead, Position
<1> QED
  BY <1>1, <1>2, <1>3, <1>4, <1>5, <1>6, <1>7, <1>8, Reads DEF Next

\* Residual and block are joined, cut into encode calls and left over in the
\* order of the PCM.  Where a restart overtook the block, or a block was
\* dropped behind a residual, raced says so until it is in order again.
LEMMA NextOInv ==
    ASSUME TypeOK, BInv, OInv, [Next]_vars
    PROVE  OInv'
<1> USE DEF cfgVars, linkVars, packVars
<1>a. /\ base \in Nat /\ timestamp \in Nat /\ fed \in Nat /\ Position \in Nat
      /\ Len(residual) \in Nat /\ Len(combined) \in Nat
      /\ residual \in Seq(Nat) /\ combined \in Seq(Nat) /\ raced \in BOOLEAN
      /\ Position = base + timestamp
  BY DEF TypeOK, Position
<1>1. ASSUME NEW n \in Nat, TakeBlock(n) PROVE OInv'
  <2>1. Converted(n) \in Nat
    BY ConvertedNat
  <2>2. /\ phase' = "combined" /\ fed' = fed + Converted(n)
        /\ combined' = residual \o Block(fed, Converted(n))
        /\ phase = "idle"
        /\ UNCHANGED <<base, timestamp, residual, input, raced>>
    BY <1>1 DEF TakeBlock
  <2>6. Position' = Position
    BY <2>2 DEF Position
  <2>9. CASE raced
    BY <2>2, <2>9 DEF OInv
  <2>10. CASE ~raced
    <3>3. residual = Block(Position, Len(residual)) /\ fed = Position + Len(residual)
      BY <2>2, <2>10 DEF OInv, Continues
    <3>4. combined' = Block(Position, Len(residual) + Converted(n))
      <4>1. \A k, l, m \in Nat : Block(k, l) \o Block(k + l, m) = Block(k, l + m)
        BY BlockJoin
      <4>2. Block(Position, Len(residual)) \o Block(Position + Len(residual), Converted(n))
               = Block(Position, Len(residual) + Converted(n))
        <5>1. Position \in Nat /\ Len(residual) \in Nat
          BY <1>a
        <5> QED
          BY <2>1, <4>1, <5>1
      <4> QED
        BY <2>2, <3>3, <4>2, Zenon
    <3>5. Len(combined') = Len(residual) + Converted(n)
      <4>1. Len(residual) + Converted(n) \in Nat
        BY <1>a, <2>1
      <4>2. \A k, l \in Nat : Len(Block(k, l)) = l
        BY BlockSeq
      <4> QED
        BY <1>a, <3>4, <4>1, <4>2, Zenon
    <3>7. fed' = Position' + Len(combined')
      <4>1. fed' = (Position + Len(residual)) + Converted(n)
        BY <2>2, <3>3
      <4>2. (Position + Len(residual)) + Converted(n)
               = Position + (Len(residual) + Converted(n))
        BY <1>a, <2>1
      <4> QED
        BY <2>6, <3>5, <4>1, <4>2
    <3>8. combined' = Block(Position', Len(combined'))
      BY <2>6, <3>4, <3>5
    <3> QED
      BY <2>2, <2>6, <2>10, <3>7, <3>8 DEF OInv, Continues
  <2> QED
    BY <2>9, <2>10
<1>2. CASE LoadTransport
  <2>1. CASE transportSet
    <3>1. phase = "combined" /\ phase' = "encoding"
          /\ UNCHANGED <<combined, base, fed, input, timestamp, raced>>
      BY <1>2, <2>1 DEF LoadTransport
    <3>2. Position' = Position
      BY <3>1 DEF Position
    <3> QED
      BY <3>1, <3>2 DEF OInv, Continues
  <2>2. CASE ~transportSet
    <3>1. /\ phase = "combined" /\ phase' = "idle"
          /\ base' = fed - timestamp - Len(residual)
          /\ raced' = ~InSequence(residual) /\ input' = <<>>
          /\ UNCHANGED <<fed, residual, timestamp>>
      BY <1>2, <2>2 DEF LoadTransport
    <3>2. base + timestamp + Len(residual) <= fed
      BY <1>a, <3>1 DEF BInv, NotAhead
    <3>3. base' \in Nat /\ base' + timestamp + Len(residual) = fed
      BY <1>a, <3>1, <3>2, Leaves
    <3>4. fed = Position' + Len(residual) /\ fed - Len(residual) = Position'
      BY <1>a, <3>1, <3>3 DEF Position
    <3>5. ~raced' => residual = Block(Position', Len(residual))
      BY <3>1, <3>4 DEF InSequence
    <3> QED
      BY <3>1, <3>4, <3>5 DEF OInv, Continues
  <2> QED
    BY <2>1, <2>2
<1>3. ASSUME NEW size \in OutSizes, EncodeFrame(size) PROVE OInv'
  <2>1. /\ phase = "encoding" /\ phase' = "encoding"
        /\ Len(combined) >= FrameLength
        /\ input' = SubSeq(combined, 1, FrameLength)
        /\ combined' = SubSeq(combined, FrameLength + 1, Len(combined))
        /\ timestamp' = timestamp + FrameLength
        /\ UNCHANGED <<base, fed, raced>>
    BY <1>3 DEF EncodeFrame
  <2> SUFFICES ASSUME ~raced PROVE OInv'
    BY <2>1 DEF OInv
  <2>2. combined = Block(Position, Len(combined)) /\ fed = Position + Len(combined)
    BY <2>1 DEF OInv, Continues
  <2>3. FrameLength \in Nat /\ FrameLength > 0 /\ FrameLength <= Len(combined)
    BY <1>a, <2>1, Parameters
  <2>4. /\ input' = Block(Position, FrameLength)
        /\ combined' = Block(Position + FrameLength, Len(combined) - FrameLength)
    <3>1. \A k, m, n \in Nat : n <= m =>
             /\ SubSeq(Block(k, m), 1, n) = Block(k, n)
             /\ SubSeq(Block(k, m), n + 1, m) = Block(k + n, m - n)
      BY BlockCut
    <3> DEFINE l == Len(combined)
    <3>a. l \in Nat /\ FrameLength <= l /\ FrameLength \in Nat /\ Position \in Nat
      BY <1>a, <2>3
    <3> HIDE DEF l
    <3>2. /\ SubSeq(Block(Position, l), 1, FrameLength) = Block(Position, FrameLength)
          /\ SubSeq(Block(Position, l), FrameLength + 1, l)
                = Block(Position + FrameLength, l - FrameLength)
      BY <3>1, <3>a
    <3> QED
      BY <2>1, <2>2, <3>2, Zenon DEF l
  <2>5. Position' = Position + FrameLength /\ Position' - FrameLength = Position
    BY <1>a, <2>1, <2>3 DEF Position
  <2>6. Len(combined') = Len(combined) - FrameLength
    <3>1. Position + FrameLength \in Nat /\ Len(combined) - FrameLength \in Nat
      BY <1>a, <2>3
    <3> QED
      BY <2>4, <3>1, BlockSeq
  <2>7. fed' = Position' + Len(combined') /\ timestamp' >= FrameLength
    <3>1. fed' = fed /\ fed = Position + Len(combined)
          /\ timestamp' = timestamp + FrameLength
      BY <2>1, <2>2
    <3> QED
      BY <1>a, <2>3, <2>5, <2>6, <3>1
  <2>9. /\ combined' = Block(Position', Len(combined'))
        /\ input' = Block(Position' - FrameLength, FrameLength)
    BY <2>4, <2>5, <2>6
  <2> QED
    BY <2>1, <2>7, <2>9 DEF OInv, Continues
<1>4. CASE FinishBlock
  <2>1. /\ phase = "encoding" /\ phase' = "idle" /\ combined' = <<>>
        /\ residual' \in IF raced THEN {combined, <<>>} ELSE {combined}
        /\ base' = IF raced THEN fed - timestamp - Len(residual') ELSE base
        /\ input' = IF raced THEN <<>> ELSE input
        /\ raced' = (raced /\ ~InSequence(residual'))
        /\ UNCHANGED <<fed, timestamp>>
    BY <1>4 DEF FinishBlock
  <2>2. CASE ~raced
    <3>1. Position' = Position /\ residual' = combined /\ input' = input
      BY <2>1, <2>2 DEF Position
    <3> QED
      BY <2>1, <2>2, <3>1 DEF OInv, Continues
  <2>3. CASE raced
    <3>1. residual' = combined \/ residual' = <<>>
      BY <2>1, <2>3
    <3>2. Len(residual') \in Nat /\ Len(residual') <= Len(combined)
      BY <1>a, <3>1
    <3>3. base + timestamp + Len(residual') <= fed
      <4>1. base + timestamp + Len(combined) <= fed
        BY <1>a, <2>1 DEF BInv, NotAhead
      <4> QED
        BY <1>a, <3>2, <4>1
    <3>4. base' \in Nat /\ base' + timestamp + Len(residual') = fed
      BY <1>a, <2>1, <2>3, <3>2, <3>3, Leaves
    <3>5. fed = Position' + Len(residual') /\ fed - Len(residual') = Position'
      BY <1>a, <2>1, <3>2, <3>4 DEF Position
    <3>6. ~raced' => residual' = Block(Position', Len(residual'))
      BY <2>1, <2>3, <3>5 DEF InSequence
    <3> QED
      BY <2>1, <2>3, <3>5, <3>6 DEF OInv, Continues
  <2> QED
    BY <2>2, <2>3
<1>5. CASE WorkerLosesLink
  <2>1. UNCHANGED <<phase, base, fed, residual, combined, input, timestamp, raced>>
    BY <1>5 DEF WorkerLosesLink
  <2>2. Position' = Position
    BY <2>1 DEF Position
  <2> QED
    BY <2>1, <2>2 DEF OInv, Continues
<1>6. CASE WorkerRestarts
  <2>1. /\ residual' = <<>> /\ input' = <<>>
        /\ phase # "encoding" => timestamp' = 0
        /\ base' = IF timestamp' = 0 THEN fed - Len(combined) ELSE base
        /\ raced' = (phase = "encoding" \/ (phase = "combined" /\ raced))
        /\ UNCHANGED <<phase, fed, combined>>
    BY <1>6 DEF WorkerRestarts
  <2>2. CASE phase = "idle"
    <3>1. combined = <<>>
      BY <2>2 DEF BInv
    <3>2. Position' = fed /\ Len(residual') = 0
      BY <1>a, <2>1, <2>2, <3>1 DEF Position
    <3>3. fed' = Position' + 0 /\ residual' = Block(Position', 0)
      BY <1>a, <2>1, <3>2, EmptyBlock
    <3> QED
      BY <2>1, <2>2, <3>2, <3>3 DEF OInv, Continues
  <2>3. CASE phase = "combined"
    <3> SUFFICES ASSUME ~raced PROVE OInv'
      BY <2>1, <2>3 DEF OInv
    <3>1. combined = Block(Position, Len(combined)) /\ fed = Position + Len(combined)
      BY <2>3 DEF OInv, Continues
    <3>2. Position' = Position
      BY <1>a, <2>1, <2>3, <3>1 DEF Position
    <3> QED
      BY <2>1, <2>3, <3>1, <3>2 DEF OInv, Continues
  <2>4. CASE phase = "encoding"
    BY <2>1, <2>4 DEF OInv
  <2> QED
    BY <2>2, <2>3, <2>4 DEF TypeOK
<1>7. CASE WorkerResumes
  <2>1. UNCHANGED <<phase, base, fed, residual, combined, input, timestamp, raced>>
    BY <1>7 DEF WorkerResumes
  <2>2. Position' = Position
    BY <2>1 DEF Position
  <2> QED
    BY <2>1, <2>2 DEF OInv, Continues
<1>8. CASE UNCHANGED vars
  BY <1>8 DEF vars, OInv, Continues, Position
<1> QED
  BY <1>1, <1>2, <1>3, <1>4, <1>5, <1>6, <1>7, <1>8, Reads DEF Next

\* The sizes of encoded frames and the MTU leave room in the accum array.
PacketsFit == MaxRaw <= AccumBytes /\ \A size \in OutSizes : size <= AccumBytes

\* The parts of an encode call that the packing depends on.
LEMMA EncodeParts ==
    ASSUME TypeOK, NEW size \in OutSizes, EncodeFrame(size)
    PROVE  LET frame == [first |-> combined[1], size |-> size]
               full == size > 0 /\ accumSize + size > MaxRaw /\ accum # <<>>
               bytes == IF full THEN 0 ELSE accumSize
               fits == size > 0 /\ bytes + size <= AccumBytes
               packed == IF full THEN <<>> ELSE accum
           IN  /\ phase = "encoding" /\ phase' = "encoding"
               /\ accum' = IF fits THEN Append(packed, frame) ELSE packed
               /\ accumSize' = IF fits THEN bytes + size ELSE bytes
               /\ packet' = IF full THEN [ts |-> firstTs, frames |-> accum]
                            ELSE packet
               /\ offered' = IF full THEN offered + Len(accum) ELSE offered
               /\ firstTs' = IF full THEN timestamp ELSE firstTs
               /\ produced' = IF size > 0 THEN produced + 1 ELSE produced
               /\ timestamp' = timestamp + FrameLength /\ base' = base
               /\ frame \in Frames
<1>1. Len(combined) >= FrameLength /\ Len(combined) \in Nat /\ combined \in Seq(Nat)
  BY DEF EncodeFrame, TypeOK
<1>2. combined[1] \in Nat /\ size \in Nat
  BY <1>1, Parameters
<1>3. [first |-> combined[1], size |-> size] \in Frames
  BY <1>2 DEF Frames
<1> QED
  BY <1>3 DEF EncodeFrame, linkVars

\* An encoded frame is packed, or was preceded by the packet it did not fit
\* in; what is packed at the end of the block is sent.
LEMMA NextFInv ==
    ASSUME PacketsFit, TypeOK, FInv, [Next]_vars
    PROVE  FInv'
<1> USE DEF cfgVars, linkVars, packVars
<1>a. /\ produced \in Nat /\ offered \in Nat /\ accumSize \in Nat
      /\ accum \in Seq(Frames) /\ Len(accum) \in Nat /\ Len(<<>>) = 0
  BY DEF TypeOK
<1>1. ASSUME NEW n \in Nat, TakeBlock(n) PROVE FInv'
  BY <1>1 DEF TakeBlock, FInv, EveryFrameOffered
<1>2. CASE LoadTransport
  <2>1. accum = <<>> /\ accumSize = 0
    BY <1>2 DEF LoadTransport, FInv
  <2>2. UNCHANGED <<accum, accumSize, produced, offered>>
    BY <1>2, <2>1 DEF LoadTransport
  <2> QED
    BY <2>1, <2>2 DEF FInv, EveryFrameOffered
<1>3. ASSUME NEW size \in OutSizes, EncodeFrame(size) PROVE FInv'
  <2> DEFINE frame == [first |-> combined[1], size |-> size]
             full == size > 0 /\ accumSize + size > MaxRaw /\ accum # <<>>
             bytes == IF full THEN 0 ELSE accumSize
             fits == size > 0 /\ bytes + size <= AccumBytes
             packed == IF full THEN <<>> ELSE accum
  <2>1. /\ phase' = "encoding" /\ frame \in Frames
        /\ accum' = IF fits THEN Append(packed, frame) ELSE packed
        /\ accumSize' = IF fits THEN bytes + size ELSE bytes
        /\ offered' = IF full THEN offered + Len(accum) ELSE offered
        /\ produced' = IF size > 0 THEN produced + 1 ELSE produced
    BY <1>3, EncodeParts
  <2>2. size \in Nat /\ size <= AccumBytes /\ MaxRaw <= AccumBytes
        /\ MaxRaw \in Nat /\ AccumBytes \in Nat
    BY Parameters DEF PacketsFit
  <2>3. size > 0 => fits
    BY <1>a, <2>2 DEF FInv
  <2>4. /\ packed \in Seq(Frames) /\ Len(packed) = IF full THEN 0 ELSE Len(accum)
        /\ packed = <<>> => bytes = 0
    BY <1>a DEF FInv
  <2>5. produced = offered + Len(accum)
    BY DEF FInv, EveryFrameOffered
  <2> HIDE DEF frame, packed, bytes
  <2>6. CASE size > 0
    <3>1. accum' = Append(packed, frame) /\ produced' = produced + 1
      BY <2>1, <2>3, <2>6
    <3>2. Len(accum') = Len(packed) + 1 /\ accum' # <<>>
      BY <2>1, <2>4, <3>1, AppendProperties
    <3>3. produced' = offered' + Len(accum')
      <4>1. CASE full
        <5>1. offered' = offered + Len(accum) /\ Len(accum') = 1
          BY <2>1, <2>4, <3>2, <4>1
        <5>2. produced' = produced + 1
          BY <3>1
        <5> QED
          BY <1>a, <2>5, <5>1, <5>2
      <4>2. CASE ~full
        <5>1. offered' = offered /\ Len(accum') = Len(accum) + 1
          BY <2>1, <2>4, <3>2, <4>2
        <5>2. produced' = produced + 1
          BY <3>1
        <5> QED
          BY <1>a, <2>5, <5>1, <5>2
      <4> QED
        BY <4>1, <4>2
    <3> QED
      BY <2>1, <3>2, <3>3 DEF FInv, EveryFrameOffered
  <2>7. CASE ~(size > 0)
    <3>1. ~full /\ ~fits
      BY <2>7
    <3>2. UNCHANGED <<accum, accumSize, offered, produced>>
      BY <2>1, <2>7, <3>1 DEF packed, bytes
    <3> QED
      BY <2>1, <3>2 DEF FInv, EveryFrameOffered
  <2> QED
    BY <2>6, <2>7
<1>4. CASE FinishBlock
  <2>1. /\ accum' = <<>> /\ accumSize' = 0 /\ produced' = produced
        /\ offered' = offered + Len(accum)
    BY <1>4 DEF FinishBlock
  <2> QED
    BY <1>a, <2>1 DEF FInv, EveryFrameOffered
<1>5. CASE WorkerLosesLink
  BY <1>5 DEF WorkerLosesLink, FInv, EveryFrameOffered
<1>6. CASE WorkerRestarts
  BY <1>6 DEF WorkerRestarts, FInv, EveryFrameOffered
<1>7. CASE WorkerResumes
  BY <1>7 DEF WorkerResumes, FInv, EveryFrameOffered
<1>8. CASE UNCHANGED vars
  BY <1>8 DEF vars, FInv, EveryFrameOffered
<1> QED
  BY <1>1, <1>2, <1>3, <1>4, <1>5, <1>6, <1>7, <1>8, Reads DEF Next

\* The next frame to be encoded comes after everything packed or sent.
LEMMA NextSInv ==
    ASSUME TypeOK, BInv, OInv, SInv, [Next]_vars
    PROVE  SInv'
<1> USE DEF cfgVars, linkVars, packVars
<1>a. /\ base \in Nat /\ timestamp \in Nat /\ fed \in Nat /\ firstTs \in Nat
      /\ FrameLength \in Nat /\ FrameLength > 0
      /\ residual \in Seq(Nat) /\ combined \in Seq(Nat) /\ raced \in BOOLEAN
      /\ Len(residual) \in Nat /\ Len(combined) \in Nat /\ Len(<<>>) = 0
      /\ Position = base + timestamp
  BY Parameters DEF TypeOK, Position
<1>l. \A s \in Seq(Frames) : s # <<>> =>
         /\ Last(s) = s[Len(s)] /\ Last(s) \in Frames /\ Len(s) \in DOMAIN s
         /\ Len(s) \in Nat \ {0} /\ DOMAIN s = 1 .. Len(s) /\ 1 \in DOMAIN s
  BY EmptySeq DEF Last
<1>p. /\ accum \in Seq(Frames) /\ packet.frames \in Seq(Frames)
      /\ \A f \in Frames : f.first \in Nat
  BY DEF TypeOK, Frames
<1>q. packet.frames # <<>> => Last(packet.frames).first \in Nat
  BY <1>l, <1>p
<1>1. ASSUME NEW n \in Nat, TakeBlock(n) PROVE SInv'
  <2> DEFINE c == Converted(n)
  <2>1. c \in Nat
    BY ConvertedNat
  <2>2. Block(fed, c) \in Seq(Nat) /\ Len(Block(fed, c)) = c
    BY <1>a, <2>1, BlockSeq
  <2>3. /\ phase = "idle" /\ phase' = "combined" /\ fed' = fed + c
        /\ combined' = residual \o Block(fed, c)
        /\ UNCHANGED <<residual, accum, packet>>
    BY <1>1 DEF TakeBlock
  <2> HIDE DEF c
  <2>4. Len(combined') = Len(residual) + c
    <3> DEFINE new == Block(fed, c)
    <3>1. new \in Seq(Nat) /\ Len(new) = c /\ combined' = residual \o new
      BY <2>2, <2>3
    <3> HIDE DEF new
    <3>2. Len(residual \o new) = Len(residual) + Len(new)
      BY <1>a, <3>1, ConcatProperties
    <3> QED
      BY <3>1, <3>2
  <2>5. accum' = <<>>
    BY <2>3 DEF SInv
  <2>6. ASSUME packet.frames # <<>>
        PROVE  /\ Last(packet.frames).first + FrameLength - 1 + Len(combined') <= fed'
               /\ Last(packet.frames).first + FrameLength - 1 + Len(residual) <= fed'
    <3>1. Last(packet.frames).first + FrameLength - 1 + Len(residual) <= fed
      BY <2>3, <2>6 DEF SInv
    <3> QED
      BY <1>a, <1>q, <2>1, <2>3, <2>4, <2>6, <3>1
  <2> QED
    BY <2>3, <2>5, <2>6 DEF SInv
<1>2. CASE LoadTransport
  <2>1. phase = "combined" /\ accum = <<>> /\ accum' = <<>>
        /\ UNCHANGED <<packet, fed, residual, timestamp>>
    BY <1>2 DEF LoadTransport, SInv
  <2>2. CASE transportSet
    <3>1. /\ phase' = "encoding" /\ firstTs' = timestamp
          /\ UNCHANGED <<combined, base, raced>>
      BY <1>2, <2>2 DEF LoadTransport
    <3>2. ASSUME ~raced, packet.frames # <<>>
          PROVE  Last(packet.frames).first + FrameLength - 1 <= base + timestamp
      <4>1. fed = Position + Len(combined)
        BY <2>1, <3>2 DEF OInv, Continues
      <4>2. Last(packet.frames).first + FrameLength - 1 + Len(combined) <= fed
        BY <3>2 DEF SInv
      <4> QED
        BY <1>a, <1>q, <3>2, <4>1, <4>2
    <3>3. firstTs' <= timestamp'
      BY <1>a, <2>1, <3>1
    <3> QED
      BY <2>1, <3>1, <3>2, <3>3 DEF SInv
  <2>3. CASE ~transportSet
    <3>1. phase' = "idle" /\ combined' = <<>>
      BY <1>2, <2>3 DEF LoadTransport
    <3>2. ASSUME packet.frames # <<>>
          PROVE  Last(packet.frames).first + FrameLength - 1 + Len(combined') <= fed
      <4>1. Last(packet.frames).first + FrameLength - 1 + Len(combined) <= fed
        BY <3>2 DEF SInv
      <4>2. Len(combined') = 0
        BY <1>a, <3>1
      <4> QED
        BY <1>a, <1>q, <3>2, <4>1, <4>2
    <3> QED
      BY <2>1, <3>1, <3>2 DEF SInv
  <2> QED
    BY <2>2, <2>3
<1>3. ASSUME NEW size \in OutSizes, EncodeFrame(size) PROVE SInv'
  <2> DEFINE frame == [first |-> combined[1], size |-> size]
             full == size > 0 /\ accumSize + size > MaxRaw /\ accum # <<>>
             bytes == IF full THEN 0 ELSE accumSize
             fits == size > 0 /\ bytes + size <= AccumBytes
             packed == IF full THEN <<>> ELSE accum
  <2>1. /\ phase = "encoding" /\ phase' = "encoding" /\ frame \in Frames
        /\ accum' = IF fits THEN Append(packed, frame) ELSE packed
        /\ packet' = IF full THEN [ts |-> firstTs, frames |-> accum] ELSE packet
        /\ firstTs' = IF full THEN timestamp ELSE firstTs
        /\ timestamp' = timestamp + FrameLength /\ base' = base
    BY <1>3, EncodeParts
  <2>2. /\ Len(combined) >= FrameLength /\ fed' = fed /\ raced' = raced
        /\ Len(combined') = Len(combined) - FrameLength /\ Len(combined') \in Nat
    <3>1. /\ Len(combined) >= FrameLength /\ fed' = fed /\ raced' = raced
          /\ combined' = SubSeq(combined, FrameLength + 1, Len(combined))
      BY <1>3 DEF EncodeFrame
    <3>2. Len(combined') = Len(combined) - FrameLength
      BY <1>a, <3>1
    <3> QED
      BY <1>a, <3>1, <3>2
  <2>3. frame.first \in Nat /\ frame.first + Len(combined) <= fed + 1
    <3>1. 1 \in DOMAIN combined
      BY <1>a, <2>2
    <3>2. combined[1] \in Nat
      BY <1>a, <3>1
    <3>3. combined[1] + Len(combined) <= fed + 1
      BY <2>1, <3>1 DEF BInv, NotAhead
    <3> QED
      BY <3>2, <3>3
  <2>4. packed \in Seq(Frames)
    BY <1>p
  <2>5. \A i \in DOMAIN packed :
           /\ packed[i].first \in Nat
           /\ packed[i].first + FrameLength - 1 + Len(combined) <= fed
    BY <1>p, <2>4 DEF SInv
  <2>6. ASSUME packet'.frames # <<>>
        PROVE  /\ Last(packet'.frames).first \in Nat
               /\ Last(packet'.frames).first + FrameLength - 1 + Len(combined) <= fed
    <3>1. CASE full
      <4>1. packet'.frames = accum /\ accum # <<>>
        BY <2>1, <3>1
      <4> QED
        BY <1>l, <1>p, <4>1 DEF SInv
    <3>2. CASE ~full
      <4>1. packet' = packet
        BY <2>1, <3>2
      <4> QED
        BY <1>q, <2>6, <4>1 DEF SInv
    <3> QED
      BY <3>1, <3>2
  <2>7. ASSUME ~raced
        PROVE  /\ firstTs' <= timestamp' /\ firstTs' \in Nat
               /\ packed # <<>> => base + firstTs' < packed[1].first
               /\ base + firstTs' < frame.first
               /\ packet'.frames # <<>> =>
                     Last(packet'.frames).first + FrameLength - 1 <= base + firstTs'
    <3>0. /\ firstTs <= timestamp
          /\ accum # <<>> => base + firstTs < accum[1].first
          /\ packet.frames # <<>> =>
                Last(packet.frames).first + FrameLength - 1 <= base + firstTs
      BY <2>1, <2>7 DEF SInv
    <3>1. firstTs' \in Nat /\ firstTs' <= timestamp
      BY <1>a, <2>1, <3>0
    <3>2. fed = Position + Len(combined) /\ frame.first = Position + 1
      <4>1. combined = Block(Position, Len(combined)) /\ fed = Position + Len(combined)
        BY <2>1, <2>7 DEF OInv, Continues
      <4>2. 1 \in 1 .. Len(combined) /\ Position \in Nat /\ Len(combined) \in Nat
        BY <1>a, <2>2
      <4>3. \A k, m \in Nat : \A i \in 1 .. m : Block(k, m)[i] = k + i
        BY BlockSeq
      <4>4. Block(Position, Len(combined))[1] = Position + 1
        BY <4>2, <4>3
      <4> QED
        BY <4>1, <4>4, Zenon
    <3>3. firstTs' <= timestamp' /\ base + firstTs' < frame.first
      BY <1>a, <2>1, <3>1, <3>2
    <3>4. packed # <<>> => base + firstTs' < packed[1].first
      BY <2>1, <3>0
    <3>5. ASSUME packet'.frames # <<>>
          PROVE  Last(packet'.frames).first + FrameLength - 1 <= base + firstTs'
      <4>1. CASE full
        <5>1. firstTs' = timestamp
          BY <2>1, <4>1
        <5> QED
          BY <1>a, <2>6, <3>2, <3>5, <5>1
      <4>2. CASE ~full
        <5>1. packet' = packet /\ firstTs' = firstTs
          BY <2>1, <4>2
        <5> QED
          BY <3>0, <3>5, <5>1
      <4> QED
        BY <4>1, <4>2
    <3> QED
      BY <3>1, <3>3, <3>4, <3>5
  <2>8. packet'.frames # <<>> =>
           Last(packet'.frames).first + FrameLength - 1 + Len(combined') <= fed'
    <3> SUFFICES ASSUME packet'.frames # <<>>
                 PROVE  Last(packet'.frames).first + FrameLength - 1
                           + Len(combined') <= fed'
      OBVIOUS
    <3>1. /\ Last(packet'.frames).first \in Nat
          /\ Last(packet'.frames).first + FrameLength - 1 + Len(combined) <= fed
      BY <2>6
    <3> QED
      BY <1>a, <2>2, <3>1
  <2> HIDE DEF frame, packed, fits, full
  <2>11. CASE fits
    <3>1. /\ accum' = Append(packed, frame) /\ Len(packed) \in Nat
          /\ DOMAIN packed = 1 .. Len(packed)
      BY <2>1, <2>4, <2>11
    <3>2. /\ Len(accum') = Len(packed) + 1 /\ accum' \in Seq(Frames)
          /\ \A i \in 1 .. Len(packed) : accum'[i] = packed[i]
          /\ accum'[Len(packed) + 1] = frame
      BY <2>1, <2>4, <3>1, AppendProperties
    <3>3. DOMAIN accum' = 1 .. Len(packed) + 1
      BY <3>2
    <3>4. ASSUME NEW i \in DOMAIN accum'
          PROVE  accum'[i].first + FrameLength - 1 + Len(combined') <= fed'
      <4>1. CASE i = Len(packed) + 1
        <5>1. frame.first + FrameLength - 1 + Len(combined') <= fed'
          <6>1. \A f, l, m \in Nat : m = l - FrameLength /\ f + l <= fed + 1
                    => f + FrameLength - 1 + m <= fed
            BY <1>a
          <6> QED
            BY <1>a, <2>2, <2>3, <6>1
        <5> QED
          BY <3>2, <4>1, <5>1
      <4>2. CASE i # Len(packed) + 1
        <5>1. i \in DOMAIN packed /\ accum'[i] = packed[i]
          BY <3>1, <3>2, <3>3, <4>2
        <5>2. /\ packed[i].first \in Nat
              /\ packed[i].first + FrameLength - 1 + Len(combined) <= fed
          BY <2>5, <5>1
        <5> QED
          BY <1>a, <2>2, <5>1, <5>2
      <4> QED
        BY <4>1, <4>2
    <3>5. ASSUME ~raced PROVE base + firstTs' < accum'[1].first
      <4>1. CASE Len(packed) = 0
        BY <2>7, <3>2, <3>5, <4>1
      <4>2. CASE Len(packed) > 0
        <5>1. packed # <<>> /\ accum'[1] = packed[1]
          BY <3>1, <3>2, <4>2
        <5> QED
          BY <2>7, <3>5, <5>1
      <4> QED
        BY <3>1, <4>1, <4>2
    <3> QED
      BY <2>1, <2>2, <2>7, <2>8, <3>4, <3>5 DEF SInv
  <2>12. CASE ~fits
    <3>1. accum' = packed
      BY <2>1, <2>12
    <3>2. ASSUME NEW i \in DOMAIN packed
          PROVE  packed[i].first + FrameLength - 1 + Len(combined') <= fed'
      <4>1. /\ packed[i].first \in Nat
            /\ packed[i].first + FrameLength - 1 + Len(combined) <= fed
        BY <2>5
      <4> QED
        BY <1>a, <2>2, <4>1
    <3> QED
      BY <2>1, <2>2, <2>7, <2>8, <3>1, <3>2 DEF SInv
  <2> QED
    BY <2>11, <2>12
<1>4. CASE FinishBlock
  <2>1. /\ phase = "encoding" /\ phase' = "idle" /\ accum' = <<>>
        /\ packet' = IF accum # <<>> THEN [ts |-> firstTs, frames |-> accum]
                     ELSE packet
        /\ residual' \in IF raced THEN {combined, <<>>} ELSE {combined}
        /\ combined' = <<>> /\ fed' = fed
    BY <1>4 DEF FinishBlock
  <2>2. /\ Len(combined') <= Len(combined) /\ Len(combined') \in Nat
        /\ Len(residual') <= Len(combined) /\ Len(residual') \in Nat
    <3>1. residual' = combined \/ residual' = <<>>
      BY <2>1
    <3> QED
      BY <1>a, <2>1, <3>1
  <2>3. ASSUME packet'.frames # <<>>
        PROVE  /\ Last(packet'.frames).first \in Nat
               /\ Last(packet'.frames).first + FrameLength - 1 + Len(combined) <= fed
    <3>1. CASE accum # <<>>
      <4>1. packet'.frames = accum
        BY <2>1, <3>1
      <4> QED
        BY <1>l, <1>p, <3>1, <4>1 DEF SInv
    <3>2. CASE accum = <<>>
      <4>1. packet' = packet
        BY <2>1, <3>2
      <4> QED
        BY <1>q, <2>3, <4>1 DEF SInv
    <3> QED
      BY <3>1, <3>2
  <2>4. ASSUME packet'.frames # <<>>
        PROVE  /\ Last(packet'.frames).first + FrameLength - 1 + Len(combined') <= fed'
               /\ Last(packet'.frames).first + FrameLength - 1 + Len(residual') <= fed'
    BY <1>a, <2>1, <2>2, <2>3, <2>4
  <2> QED
    BY <2>1, <2>4 DEF SInv
<1>5. CASE WorkerLosesLink
  BY <1>5 DEF WorkerLosesLink, SInv
<1>6. CASE WorkerRestarts
  <2>1. packet'.frames = <<>> /\ UNCHANGED <<phase, accum, combined, fed>>
        /\ (phase = "encoding" => raced')
    BY <1>6 DEF WorkerRestarts, NoPacket
  <2> QED
    BY <2>1 DEF SInv
<1>7. CASE WorkerResumes
  BY <1>7 DEF WorkerResumes, SInv
<1>8. CASE UNCHANGED vars
  BY <1>8 DEF vars, SInv
<1> QED
  BY <1>1, <1>2, <1>3, <1>4, <1>5, <1>6, <1>7, <1>8, Reads DEF Next

-----------------------------------------------------------------------------
(* The theorems.                                                           *)

\* The residual is shorter than a codec frame and every counter is a number,
\* through every block, link loss and restart.
LEMMA PipelineTypeCorrect == Spec => [](TypeOK /\ BInv)
<1>1. Init => TypeOK /\ BInv
  BY InitAll
<1>2. TypeOK /\ BInv /\ [Next]_vars => TypeOK' /\ BInv'
  BY NextTypeOK, NextBInv
<1> QED
  BY <1>1, <1>2, PTL DEF Spec

\* What awaits encoding is always where OInv says it is.
LEMMA PipelineOrdered == Spec => []OInv
<1>1. Init => OInv
  BY InitAll
<1>2. TypeOK /\ BInv /\ OInv /\ [Next]_vars => OInv'
  BY NextOInv
<1> QED
  BY <1>1, <1>2, PipelineTypeCorrect, PTL DEF Spec

\* The encoder sees the PCM of a stream in order and without a gap: the
\* residual of encode_thread_func and audio_callback loses nothing, whatever
\* the length of the blocks and of a codec frame.
THEOREM PipelineInputInOrder == Spec => []InputInOrder
<1>1. TypeOK /\ OInv => InputInOrder
  <2> SUFFICES ASSUME TypeOK, OInv PROVE InputInOrder
    OBVIOUS
  <2>1. Position - FrameLength = base + timestamp - FrameLength
    <3>1. base \in Nat /\ timestamp \in Nat /\ FrameLength \in Nat
      BY Parameters DEF TypeOK
    <3> QED
      BY <3>1 DEF Position
  <2> QED
    BY <2>1 DEF OInv, InputInOrder
<1> QED
  BY <1>1, PipelineTypeCorrect, PipelineOrdered, PTL

\* No encoded frame is left behind in accum, provided that the MTU and each
\* encoded frame are no longer than the array.
THEOREM PipelineOffersEveryFrame ==
    ASSUME PacketsFit
    PROVE  Spec => []EveryFrameOffered
<1>1. Init => FInv
  BY InitAll
<1>2. TypeOK /\ FInv /\ [Next]_vars => FInv'
  BY NextFInv
<1>3. FInv => EveryFrameOffered
  BY DEF FInv
<1> QED
  BY <1>1, <1>2, <1>3, PipelineTypeCorrect, PTL DEF Spec

\* A packet that is sent is what was packed.
LEMMA NextSent ==
    ASSUME [Next]_vars, packet' # packet, packet' # NoPacket
    PROVE  /\ phase = "encoding" /\ accum # <<>>
           /\ packet' = [ts |-> firstTs, frames |-> accum]
<1> USE DEF cfgVars, linkVars, packVars
<1>1. ASSUME NEW n \in Nat, TakeBlock(n) PROVE FALSE
  BY <1>1 DEF TakeBlock
<1> DEFINE Sent == /\ phase = "encoding" /\ accum # <<>>
                  /\ packet' = [ts |-> firstTs, frames |-> accum]
<1>2. ASSUME NEW size \in OutSizes, EncodeFrame(size) PROVE Sent
  BY <1>2 DEF EncodeFrame
<1>3. CASE FinishBlock
  BY <1>3 DEF FinishBlock
<1>4. ASSUME LoadTransport \/ WorkerLosesLink \/ WorkerRestarts
                \/ WorkerResumes \/ UNCHANGED vars
      PROVE  FALSE
  BY <1>4 DEF LoadTransport, WorkerLosesLink, WorkerRestarts, WorkerResumes, vars
<1> QED
  BY <1>1, <1>2, <1>3, <1>4, Reads DEF Next

\* A packet that is sent carries the time stamp SInv promises for it.
LEMMA NextStamped ==
    ASSUME TypeOK, SInv, [Next]_vars, packet' # packet, packet' # NoPacket, ~raced
    PROVE  /\ base + packet'.ts < packet'.frames[1].first
           /\ packet.frames # <<>> =>
                 base + packet'.ts >= Last(packet.frames).first + FrameLength - 1
<1>1. /\ phase = "encoding" /\ accum # <<>>
      /\ packet' = [ts |-> firstTs, frames |-> accum]
  BY NextSent
<1>2. packet'.ts = firstTs /\ packet'.frames = accum
  BY <1>1
<1>3. base + firstTs < accum[1].first
  BY <1>1 DEF SInv
<1>4. packet.frames # <<>> =>
         Last(packet.frames).first + FrameLength - 1 <= base + firstTs
  BY <1>1 DEF SInv
<1>5. packet.frames # <<>> => Last(packet.frames).first \in Nat
  <2>1. packet.frames \in Seq(Frames) /\ \A f \in Frames : f.first \in Nat
    BY DEF TypeOK, Frames
  <2> QED
    BY <2>1, EmptySeq DEF Last
<1>6. base \in Nat /\ firstTs \in Nat /\ FrameLength \in Nat
  BY Parameters DEF TypeOK
<1> QED
  BY <1>2, <1>3, <1>4, <1>5, <1>6

\* Time stamps never run backwards and never overlap: every packet given to
\* send_media starts at or before its first PCM frame and at or after the end
\* of the packet before, also when encode calls in between failed.
THEOREM PipelineStampsInOrder == Spec => StampedInOrder
<1>1. Init => SInv
  BY InitAll
<1>2. TypeOK /\ BInv /\ OInv /\ SInv /\ [Next]_vars => SInv'
  BY NextSInv
<1>3. TypeOK /\ SInv /\ [Next]_vars =>
         [packet' # packet /\ packet' # NoPacket /\ ~raced =>
           /\ base + packet'.ts < packet'.frames[1].first
           /\ packet.frames # <<>> =>
               base + packet'.ts >= Last(packet.frames).first + FrameLength - 1]_vars
  BY NextStamped
<1> QED
  BY <1>1, <1>2, <1>3, PipelineTypeCorrect, PipelineOrdered, PTL
     DEF Spec, StampedInOrder

-----------------------------------------------------------------------------
(* The size of packets.                                                    *)

\* The PCM of a block and of the residual before it fills no more codec frames
\* than the SBC payload header can count.
HeaderRoom == (FrameLength - 1) + MaxBlock < (HeaderFrames + 1) * FrameLength

\* What is packed fits the MTU, unless it is a single frame, and every packed
\* frame has used up its PCM of the block.
WInv ==
    /\ phase = "encoding" => accumSize <= MaxRaw \/ Len(accum) <= 1
    /\ ~cli /\ ~upsample =>
          /\ phase = "combined" => Len(combined) <= (FrameLength - 1) + MaxBlock
          /\ phase = "encoding" =>
                Len(accum) * FrameLength + Len(combined)
                    <= (FrameLength - 1) + MaxBlock

\* One more frame packed, and a block that is not yet used up.
LEMMA OneMore ==
    ASSUME NEW n \in Nat, NEW f \in Nat, NEW l \in Nat, NEW b \in Nat,
           n * f + l <= b, f <= l
    PROVE  /\ (n + 1) * f + (l - f) <= b
           /\ n * f + (l - f) <= b
           /\ 1 * f + (l - f) <= b
           /\ 0 * f + (l - f) <= b
<1>1. n * f \in Nat /\ (n + 1) * f = n * f + f
  OBVIOUS
<1>2. 1 * f = f /\ 0 * f = 0
  OBVIOUS
<1> QED
  BY <1>1, <1>2

\* Every step keeps what is packed within its limits.
LEMMA NextWInv ==
    ASSUME TypeOK, WInv, [Next]_vars
    PROVE  WInv'
<1> USE DEF cfgVars, linkVars, packVars
<1>a. /\ accum \in Seq(Frames) /\ Len(accum) \in Nat /\ accumSize \in Nat
      /\ combined \in Seq(Nat) /\ Len(combined) \in Nat
      /\ residual \in Seq(Nat) /\ Len(residual) \in 0 .. FrameLength - 1
      /\ FrameLength \in Nat /\ MaxBlock \in Nat /\ MaxRaw \in Nat
      /\ Len(<<>>) = 0
  BY Parameters DEF TypeOK
<1>1. ASSUME NEW n \in 1 .. MaxAvail, EncodeThreadReads(n) \/ CallbackReads(n)
      PROVE  WInv'
  <2>1. UNCHANGED <<cli, upsample>> /\ phase' = "combined"
    BY <1>1 DEF EncodeThreadReads, CallbackReads, TakeBlock
  <2>2. CASE cli
    BY <2>1, <2>2 DEF WInv
  <2>3. CASE upsample
    BY <2>1, <2>3 DEF WInv
  <2>4. CASE ~cli /\ ~upsample
    <3>1. PICK m \in 0 .. MaxBlock :
             combined' = residual \o Block(fed, m)
      <4> DEFINE m == IF n > MaxBlock THEN MaxBlock ELSE n
      <4>1. n \in Nat /\ m \in 0 .. MaxBlock
        BY <1>a
      <4>2. TakeBlock(m)
        BY <1>1, <2>4 DEF EncodeThreadReads, CallbackReads
      <4>3. combined' = residual \o Block(fed, m)
        BY <2>4, <4>2 DEF TakeBlock, Converted
      <4> QED
        BY <4>1, <4>3
    <3>2. Len(Block(fed, m)) = m /\ Block(fed, m) \in Seq(Nat) /\ m \in Nat
      <4>1. fed \in Nat /\ m \in Nat
        BY <1>a DEF TypeOK
      <4> QED
        BY <4>1, BlockSeq
    <3>3. Len(combined') = Len(residual) + m
      <4> DEFINE block == Block(fed, m)
      <4>1. block \in Seq(Nat) /\ Len(block) = m /\ combined' = residual \o block
        BY <3>1, <3>2
      <4> HIDE DEF block
      <4>2. Len(residual \o block) = Len(residual) + Len(block)
        BY <1>a, <4>1, ConcatProperties
      <4> QED
        BY <4>1, <4>2
    <3> QED
      BY <1>a, <2>1, <3>3 DEF WInv
  <2> QED
    BY <2>2, <2>3, <2>4
<1>2. CASE LoadTransport
  <2>1. CASE transportSet
    <3>1. /\ phase = "combined" /\ phase' = "encoding" /\ accum' = <<>>
          /\ accumSize' = 0 /\ UNCHANGED <<cli, upsample, combined>>
      BY <1>2, <2>1 DEF LoadTransport
    <3>2. Len(accum') = 0 /\ 0 * FrameLength = 0
      BY <1>a, <3>1
    <3> QED
      BY <1>a, <3>1, <3>2 DEF WInv
  <2>2. CASE ~transportSet
    BY <1>2, <2>2 DEF LoadTransport, WInv
  <2> QED
    BY <2>1, <2>2
<1>3. ASSUME NEW size \in OutSizes, EncodeFrame(size) PROVE WInv'
  <2> DEFINE frame == [first |-> combined[1], size |-> size]
             full == size > 0 /\ accumSize + size > MaxRaw /\ accum # <<>>
             bytes == IF full THEN 0 ELSE accumSize
             fits == size > 0 /\ bytes + size <= AccumBytes
             packed == IF full THEN <<>> ELSE accum
  <2>1. /\ phase = "encoding" /\ phase' = "encoding" /\ frame \in Frames
        /\ accum' = IF fits THEN Append(packed, frame) ELSE packed
        /\ accumSize' = IF fits THEN bytes + size ELSE bytes
    BY <1>3, EncodeParts
  <2>2. size \in Nat
    BY Parameters
  <2>3. /\ packed \in Seq(Frames)
        /\ Len(packed) = IF full THEN 0 ELSE Len(accum)
    BY <1>a
  <2>4. accum = <<>> <=> Len(accum) = 0
    BY <1>a, EmptySeq
  <2>5. Len(accum') = IF fits THEN Len(packed) + 1 ELSE Len(packed)
    BY <2>1, <2>3, AppendProperties
  <2>6. accumSize' <= MaxRaw \/ Len(accum') <= 1
    <3>1. accumSize <= MaxRaw \/ Len(accum) <= 1
      BY <2>1 DEF WInv
    <3>2. CASE full
      BY <2>3, <2>5, <3>2
    <3>3. CASE ~full
      <4>1. CASE fits
        <5>1. CASE Len(accum) = 0
          BY <2>3, <2>5, <3>3, <4>1, <5>1
        <5>2. CASE Len(accum) # 0
          <6>1. size > 0 /\ accum # <<>> /\ bytes = accumSize
            BY <2>4, <3>3, <4>1, <5>2
          <6>2. accumSize + size <= MaxRaw
            BY <1>a, <2>2, <3>3, <6>1
          <6> QED
            BY <2>1, <4>1, <6>1, <6>2
        <5> QED
          BY <5>1, <5>2
      <4>2. CASE ~fits
        <5>1. accum' = accum /\ accumSize' = accumSize
          BY <2>1, <3>3, <4>2
        <5> QED
          BY <3>1, <5>1
      <4> QED
        BY <4>1, <4>2
    <3> QED
      BY <3>2, <3>3
  <2>7. ASSUME ~cli, ~upsample
        PROVE  Len(accum') * FrameLength + Len(combined')
                   <= (FrameLength - 1) + MaxBlock
    <3>1. /\ Len(combined) >= FrameLength
          /\ combined' = SubSeq(combined, FrameLength + 1, Len(combined))
      BY <1>3 DEF EncodeFrame
    <3>2. Len(combined') = Len(combined) - FrameLength
      BY <1>a, <3>1
    <3>3. Len(accum) * FrameLength + Len(combined) <= (FrameLength - 1) + MaxBlock
      BY <2>1, <2>7 DEF WInv
    <3>4. Len(accum') \in {Len(accum) + 1, Len(accum), 1, 0}
      BY <1>a, <2>3, <2>5
    <3>5. (FrameLength - 1) + MaxBlock \in Nat
      BY <1>a
    <3> HIDE DEF frame, bytes, packed
    <3> QED
      BY <1>a, <3>1, <3>2, <3>3, <3>4, <3>5, OneMore
  <2>8. UNCHANGED <<cli, upsample>>
    BY <1>3 DEF EncodeFrame
  <2> QED
    BY <2>1, <2>6, <2>7, <2>8 DEF WInv
<1>4. CASE FinishBlock
  BY <1>4 DEF FinishBlock, WInv
<1>5. CASE WorkerLosesLink
  BY <1>5 DEF WorkerLosesLink, WInv
<1>6. CASE WorkerRestarts
  BY <1>6 DEF WorkerRestarts, WInv
<1>7. CASE WorkerResumes
  BY <1>7 DEF WorkerResumes, WInv
<1>8. CASE UNCHANGED vars
  BY <1>8 DEF vars, WInv
<1> QED
  BY <1>1, <1>2, <1>3, <1>4, <1>5, <1>6, <1>7, <1>8 DEF Next

\* A packet is handed to send_media with accum_size bytes, which the MTU
\* bounds unless it is a single frame, and with a number of frames that the
\* SBC payload header can count.
SentWithinLimits ==
    [][packet' # packet /\ packet' # NoPacket =>
        /\ accumSize <= MaxRaw \/ Len(packet'.frames) = 1
        /\ ~cli /\ ~upsample => Len(packet'.frames) <= HeaderFrames]_vars

\* The limits hold of what was packed, and so of the packet.
LEMMA NextWithinLimits ==
    ASSUME HeaderRoom, TypeOK, WInv, [Next]_vars,
           packet' # packet, packet' # NoPacket
    PROVE  /\ accumSize <= MaxRaw \/ Len(packet'.frames) = 1
           /\ ~cli /\ ~upsample => Len(packet'.frames) <= HeaderFrames
<1>1. phase = "encoding" /\ packet'.frames = accum /\ accum # <<>>
  BY NextSent
<1>2. accum \in Seq(Frames) /\ Len(accum) \in Nat /\ Len(accum) # 0
  BY <1>1, EmptySeq DEF TypeOK
<1>3. accumSize <= MaxRaw \/ Len(accum) = 1
  <2>1. accumSize <= MaxRaw \/ Len(accum) <= 1
    BY <1>1 DEF WInv
  <2>2. \A n \in Nat : n <= 1 /\ n # 0 => n = 1
    OBVIOUS
  <2> QED
    BY <1>2, <2>1, <2>2
<1>4. ASSUME ~cli, ~upsample PROVE Len(accum) <= HeaderFrames
  <2>1. Len(accum) * FrameLength + Len(combined) <= (FrameLength - 1) + MaxBlock
    BY <1>1, <1>4 DEF WInv
  <2>2. /\ Len(combined) \in Nat /\ FrameLength \in Nat /\ MaxBlock \in Nat
        /\ HeaderFrames \in Nat
    BY Parameters, PipelineAssumption DEF TypeOK
  <2>3. Len(accum) * FrameLength < (HeaderFrames + 1) * FrameLength
    <3>1. Len(accum) * FrameLength \in Nat /\ (HeaderFrames + 1) * FrameLength \in Nat
      BY <1>2, <2>2
    <3> QED
      BY <2>1, <2>2, <3>1 DEF HeaderRoom
  <2>4. \A i, j, f \in Nat : i >= j => i * f >= j * f
    OBVIOUS
  <2> QED
    BY <1>2, <2>2, <2>3, <2>4
<1> QED
  BY <1>1, <1>3, <1>4

\* No packet exceeds the MTU but for a single frame that does, and none of
\* encode_thread_func holds more SBC frames than its header can count,
\* provided that a block does not yield more: accum_size, the code's own
\* count, is what the comparison with the MTU goes by.
THEOREM PipelineSendsWithinLimits ==
    ASSUME HeaderRoom
    PROVE  Spec => SentWithinLimits
<1>1. Init => WInv
  BY DEF Init, WInv
<1>2. TypeOK /\ WInv /\ [Next]_vars => WInv'
  BY NextWInv
<1>3. TypeOK /\ WInv /\ [Next]_vars =>
         [packet' # packet /\ packet' # NoPacket =>
           /\ accumSize <= MaxRaw \/ Len(packet'.frames) = 1
           /\ ~cli /\ ~upsample => Len(packet'.frames) <= HeaderFrames]_vars
  BY NextWithinLimits
<1> QED
  BY <1>1, <1>2, <1>3, PipelineTypeCorrect, PTL DEF Spec, SentWithinLimits

-----------------------------------------------------------------------------
(* Recursion.  The induction theorems of the library take the property as  *)
(* an operator; here it is a set of numbers, of which the least that lacks *)
(* the property is a minimum of the well-founded order on Nat (WFMin).     *)

\* Induction over the naturals: T holds the numbers that have the property.
LEMMA SetInduction ==
    ASSUME NEW T, 0 \in T, \A n \in Nat : n \in T => n + 1 \in T
    PROVE  Nat \subseteq T
<1> DEFINE Less == {ss \in Nat \X Nat : ss[1] < ss[2]}
           Rest == Nat \ T
<1>1. SUFFICES ASSUME Rest # {} PROVE FALSE
  OBVIOUS
<1>2. PICK x \in Rest : \A y \in Rest : <<y, x>> \notin Less
  <2>1. IsWellFoundedOn(Less, Nat)
    BY NatLessThanWellFounded DEF OpToRel
  <2>2. Rest \subseteq Nat
    OBVIOUS
  <2> HIDE DEF Less, Rest
  <2> QED
    BY <1>1, <2>1, <2>2, WFMin
<1>3. x \in Nat /\ x # 0 /\ x - 1 \in Nat /\ (x - 1) + 1 = x /\ x - 1 < x
  OBVIOUS
<1>4. x - 1 \in Rest
  BY <1>3
<1>5. <<x - 1, x>> \in Less
  BY <1>3
<1> QED
  BY <1>2, <1>4, <1>5

\* A recursion along the numbers lo to hi that starts with a and takes a step
\* from each number to the next has a solution in S.
Solvable(S, a, lo, hi, step) ==
    \E g \in [lo .. hi -> S] :
        \A i \in lo .. hi : g[i] = IF i = lo THEN a ELSE step[<<i, g[i - 1]>>]

\* So has every recursion of a loop over an interval, one step at a time.
LEMMA RecursionSolvable ==
    ASSUME NEW S, NEW a \in S, NEW lo \in Nat, NEW hi \in Nat, lo <= hi,
           NEW step \in [(1 .. hi) \X S -> S]
    PROVE  Solvable(S, a, lo, hi, step)
<1> DEFINE Solves(g, n) ==
             \A i \in lo .. n :
                g[i] = IF i = lo THEN a ELSE step[<<i, g[i - 1]>>]
           T == {m \in Nat : lo + m <= hi =>
                    \E g \in [lo .. lo + m -> S] : Solves(g, lo + m)}
<1>1. 0 \in T
  <2> DEFINE g == [i \in lo .. lo |-> a]
  <2>1. g \in [lo .. lo + 0 -> S] /\ Solves(g, lo + 0)
    OBVIOUS
  <2> QED
    BY <2>1
<1>2. ASSUME NEW m \in Nat, m \in T PROVE m + 1 \in T
  <2> DEFINE n == lo + m
  <2>1. n \in Nat /\ lo + (m + 1) = n + 1
    OBVIOUS
  <2> SUFFICES ASSUME n + 1 <= hi
               PROVE  \E g \in [lo .. n + 1 -> S] : Solves(g, n + 1)
    BY <2>1
  <2>2. PICK g \in [lo .. n -> S] : Solves(g, n)
    BY <1>2, <2>1
  <2> DEFINE h == [i \in lo .. n + 1 |->
                      IF i <= n THEN g[i] ELSE step[<<i, g[n]>>]]
  <2>3. h \in [lo .. n + 1 -> S]
    <3>1. ASSUME NEW i \in lo .. n + 1 PROVE h[i] \in S
      <4>1. i <= n => i \in lo .. n /\ g[i] \in S
        BY <2>1, <2>2
      <4>2. ~(i <= n) => i \in 1 .. hi /\ <<i, g[n]>> \in (1 .. hi) \X S
        BY <2>1
      <4> QED
        BY <4>1, <4>2
    <3> QED
      BY <3>1
  <2>4. ASSUME NEW i \in lo .. n + 1
        PROVE  h[i] = IF i = lo THEN a ELSE step[<<i, h[i - 1]>>]
    <3>1. CASE i = lo
      <4>1. lo \in lo .. n /\ h[lo] = g[lo]
        OBVIOUS
      <4> QED
        BY <2>2, <3>1, <4>1
    <3>2. CASE i # lo /\ i <= n
      <4>1. i \in lo .. n /\ i - 1 \in lo .. n + 1 /\ i - 1 <= n
        BY <3>2
      <4>2. h[i] = g[i] /\ h[i - 1] = g[i - 1]
        BY <3>2, <4>1
      <4>3. g[i] = step[<<i, g[i - 1]>>]
        BY <2>2, <3>2, <4>1
      <4> QED
        BY <3>2, <4>2, <4>3
    <3>3. CASE i = n + 1
      BY <3>3
    <3> QED
      BY <3>1, <3>2, <3>3
  <2> QED
    BY <2>3, <2>4
<1>3. \E g \in [lo .. hi -> S] : Solves(g, hi)
  <2>1. hi - lo \in Nat /\ lo + (hi - lo) = hi
    OBVIOUS
  <2>2. hi - lo \in T
    <3> HIDE DEF T
    <3> QED
      BY <1>1, <1>2, <2>1, SetInduction
  <2> QED
    BY <2>1, <2>2
<1> QED
  BY <1>3 DEF Solvable

-----------------------------------------------------------------------------
(* The bytes of a packet.                                                  *)

\* Size adds the frames up, one after the other.
LEMMA SizeSums ==
    ASSUME NEW s \in Seq(Frames)
    PROVE  \E g \in [0 .. Len(s) -> Nat] :
              /\ g[0] = 0
              /\ \A i \in 1 .. Len(s) : g[i] = g[i - 1] + s[i].size
              /\ Size(s) = g[Len(s)]
<1> DEFINE n == Len(s)
           step == [p \in (1 .. n) \X Nat |-> p[2] + s[p[1]].size]
           Sums(g) ==
             g = [i \in 0 .. n |-> IF i = 0 THEN 0 ELSE g[i - 1] + s[i].size]
           sum == CHOOSE g : Sums(g)
<1>1. n \in Nat /\ \A i \in 1 .. n : s[i].size \in Nat
  <2>1. \A f \in Frames : f.size \in Nat
    BY DEF Frames
  <2> QED
    BY <2>1
<1>2. step \in [(1 .. n) \X Nat -> Nat]
  BY <1>1
<1>3. PICK g \in [0 .. n -> Nat] :
          \A i \in 0 .. n : g[i] = IF i = 0 THEN 0 ELSE step[<<i, g[i - 1]>>]
  <2> DEFINE zero == 0
  <2>1. zero \in Nat /\ zero <= n
    BY <1>1
  <2> HIDE DEF step, n, zero
  <2>2. Solvable(Nat, zero, zero, n, step)
    BY <1>1, <1>2, <2>1, RecursionSolvable
  <2> QED
    BY <2>2 DEF Solvable, zero
<1>4. Sums(g)
  <2>1. ASSUME NEW i \in 0 .. n, i # 0
        PROVE  step[<<i, g[i - 1]>>] = g[i - 1] + s[i].size
    <3>1. i \in 1 .. n /\ i - 1 \in 0 .. n
      BY <1>1, <2>1
    <3>2. <<i, g[i - 1]>> \in (1 .. n) \X Nat
      BY <3>1
    <3> QED
      BY <3>2
  <2> HIDE DEF step
  <2> QED
    BY <1>3, <2>1
<1>5. Sums(sum)
  <2> HIDE DEF Sums
  <2> QED
    BY <1>4
<1>6. Size(s) = sum[n]
  BY DEF Size
<1> HIDE DEF sum
<1>7. sum[0] = 0 /\ \A i \in 1 .. n : sum[i] = sum[i - 1] + s[i].size
  BY <1>1, <1>5
<1>8. sum \in [0 .. n -> Nat]
  <2> DEFINE T == {m \in Nat : m <= n => sum[m] \in Nat}
  <2>1. 0 \in T
    BY <1>7
  <2>2. ASSUME NEW m \in Nat, m \in T PROVE m + 1 \in T
    <3> SUFFICES ASSUME m + 1 <= n PROVE sum[m + 1] \in Nat
      OBVIOUS
    <3>1. m + 1 \in 1 .. n /\ (m + 1) - 1 = m
      BY <1>1
    <3>2. sum[m + 1] = sum[m] + s[m + 1].size
      BY <1>7, <3>1
    <3> QED
      BY <1>1, <2>2, <3>1, <3>2
  <2>3. Nat \subseteq T
    <3> HIDE DEF T
    <3> QED
      BY <2>1, <2>2, SetInduction
  <2> QED
    BY <1>1, <1>5, <2>3
<1> QED
  BY <1>6, <1>7, <1>8

\* A packet without frames is empty.
LEMMA SizeEmpty == Size(<<>>) = 0
<1>1. <<>> \in Seq(Frames)
  OBVIOUS
<1> DEFINE none == <<>>
<1>2. Len(none) = 0
  OBVIOUS
<1>3. none \in Seq(Frames)
  BY <1>1
<1> HIDE DEF none
<1>4. Size(none) = 0
  BY <1>2, <1>3, SizeSums
<1> QED
  BY <1>4 DEF none

\* Each frame that is packed adds its own size.
LEMMA SizeAppend ==
    ASSUME NEW s \in Seq(Frames), NEW f \in Frames
    PROVE  /\ Size(s) \in Nat
           /\ Size(Append(s, f)) = Size(s) + f.size
<1> DEFINE t == Append(s, f)
           n == Len(s)
<1>1. /\ t \in Seq(Frames) /\ Len(t) = n + 1 /\ n \in Nat
      /\ \A i \in 1 .. n : t[i] = s[i]
      /\ t[n + 1] = f
  OBVIOUS
<1>2. PICK g \in [0 .. n -> Nat] :
        /\ g[0] = 0
        /\ \A i \in 1 .. n : g[i] = g[i - 1] + s[i].size
        /\ Size(s) = g[n]
  BY SizeSums
<1> HIDE DEF t
<1>3. PICK h \in [0 .. n + 1 -> Nat] :
        /\ h[0] = 0
        /\ \A i \in 1 .. n + 1 : h[i] = h[i - 1] + t[i].size
        /\ Size(t) = h[n + 1]
  BY <1>1, SizeSums
<1> DEFINE T == {m \in Nat : m <= n => g[m] = h[m]}
<1>4. 0 \in T
  BY <1>2, <1>3
<1>5. ASSUME NEW m \in Nat, m \in T PROVE m + 1 \in T
  <2> SUFFICES ASSUME m + 1 <= n PROVE g[m + 1] = h[m + 1]
    OBVIOUS
  <2>1. m + 1 \in 1 .. n /\ m + 1 \in 1 .. n + 1 /\ (m + 1) - 1 = m
    BY <1>1
  <2>2. g[m + 1] = g[m] + s[m + 1].size /\ h[m + 1] = h[m] + t[m + 1].size
    BY <1>2, <1>3, <2>1
  <2>3. g[m] = h[m] /\ t[m + 1] = s[m + 1]
    BY <1>1, <1>5, <2>1
  <2> QED
    BY <2>2, <2>3
<1>6. n \in T
  <2> HIDE DEF T
  <2> QED
    BY <1>1, <1>4, <1>5, SetInduction
<1>7. h[n + 1] = g[n] + f.size
  <2>1. n + 1 \in 1 .. n + 1 /\ (n + 1) - 1 = n /\ g[n] = h[n]
    BY <1>1, <1>6
  <2> QED
    BY <1>1, <1>3, <2>1
<1> QED
  BY <1>1, <1>2, <1>3, <1>7 DEF t

\* accum_size is the size of what is packed, and the packet was within the
\* limits when it was made from it.
PInv ==
    /\ accumSize = Size(accum)
    /\ PacketWellFormed

\* Every step keeps accum_size right and makes no packet beyond the limits.
LEMMA NextPInv ==
    ASSUME HeaderRoom, TypeOK, WInv, PInv, [Next]_vars
    PROVE  PInv'
<1> USE DEF cfgVars, linkVars, packVars
<1>a. accum \in Seq(Frames) /\ accumSize \in Nat
  BY DEF TypeOK
<1>b. UNCHANGED <<cli, upsample>>
  BY DEF Next, EncodeThreadReads, CallbackReads, TakeBlock, LoadTransport,
         EncodeFrame, FinishBlock, WorkerLosesLink, WorkerRestarts,
         WorkerResumes, vars
<1>1. accumSize' = Size(accum')
  <2>1. accumSize = Size(accum)
    BY DEF PInv
  <2>2. ASSUME NEW n \in 1 .. MaxAvail, EncodeThreadReads(n) \/ CallbackReads(n)
        PROVE  accumSize' = Size(accum')
    BY <2>1, <2>2 DEF EncodeThreadReads, CallbackReads, TakeBlock
  <2>3. CASE LoadTransport
    BY <2>1, <2>3, SizeEmpty DEF LoadTransport
  <2>4. ASSUME NEW size \in OutSizes, EncodeFrame(size)
        PROVE  accumSize' = Size(accum')
    <3> DEFINE frame == [first |-> combined[1], size |-> size]
               full == size > 0 /\ accumSize + size > MaxRaw /\ accum # <<>>
               bytes == IF full THEN 0 ELSE accumSize
               fits == size > 0 /\ bytes + size <= AccumBytes
               packed == IF full THEN <<>> ELSE accum
    <3>1. /\ frame \in Frames
          /\ accum' = IF fits THEN Append(packed, frame) ELSE packed
          /\ accumSize' = IF fits THEN bytes + size ELSE bytes
      BY <2>4, EncodeParts
    <3>2. bytes = Size(packed) /\ packed \in Seq(Frames)
      BY <1>a, <2>1, SizeEmpty
    <3>3. frame.size = size
      OBVIOUS
    <3> HIDE DEF frame, packed, bytes
    <3>4. Size(Append(packed, frame)) = bytes + size
      BY <3>1, <3>2, <3>3, SizeAppend
    <3> QED
      BY <3>1, <3>2, <3>4
  <2>5. CASE FinishBlock
    BY <2>5, SizeEmpty DEF FinishBlock
  <2>6. CASE WorkerLosesLink \/ WorkerRestarts \/ WorkerResumes \/ UNCHANGED vars
    BY <2>1, <2>6 DEF WorkerLosesLink, WorkerRestarts, WorkerResumes, vars
  <2> QED
    BY <2>2, <2>3, <2>4, <2>5, <2>6 DEF Next
<1>2. PacketWellFormed'
  <2>1. CASE packet' = packet
    BY <1>b, <2>1 DEF PInv, PacketWellFormed
  <2>2. CASE packet' = NoPacket
    <3>1. packet'.frames = <<>> /\ Len(packet'.frames) = 0
      BY <2>2 DEF NoPacket
    <3>2. Size(packet'.frames) <= MaxRaw /\ Len(packet'.frames) <= HeaderFrames
      BY <3>1, SizeEmpty, Parameters, PipelineAssumption
    <3> QED
      BY <3>2 DEF PacketWellFormed
  <2>3. CASE packet' # packet /\ packet' # NoPacket
    <3>1. packet'.frames = accum
      BY <2>3, NextSent
    <3>2. /\ accumSize <= MaxRaw \/ Len(packet'.frames) = 1
          /\ ~cli /\ ~upsample => Len(packet'.frames) <= HeaderFrames
      BY <2>3, NextWithinLimits
    <3>3. Size(packet'.frames) = accumSize
      BY <3>1 DEF PInv
    <3> QED
      BY <1>b, <3>2, <3>3 DEF PacketWellFormed
  <2> QED
    BY <2>1, <2>2, <2>3
<1> QED
  BY <1>1, <1>2 DEF PInv

\* A packet can be sent and read: its frames fit the MTU, unless it is a
\* single frame, and none of encode_thread_func holds more SBC frames than the
\* payload header can count, provided that a block does not yield more.
THEOREM PipelinePacketsWellFormed ==
    ASSUME HeaderRoom
    PROVE  Spec => []PacketWellFormed
<1>1. Init => WInv /\ PInv
  <2> SUFFICES ASSUME Init PROVE WInv /\ PInv
    OBVIOUS
  <2>1. WInv
    BY DEF Init, WInv
  <2>2. /\ packet.frames = <<>> /\ Len(packet.frames) = 0
        /\ accum = <<>> /\ accumSize = 0
    BY DEF Init, NoPacket
  <2>3. Size(packet.frames) <= MaxRaw /\ Len(packet.frames) <= HeaderFrames
    BY <2>2, SizeEmpty, Parameters, PipelineAssumption
  <2> QED
    BY <2>1, <2>2, <2>3, SizeEmpty DEF PInv, PacketWellFormed
<1>2. TypeOK /\ WInv /\ PInv /\ [Next]_vars => PInv'
  BY NextPInv
<1>3. TypeOK /\ WInv /\ [Next]_vars => WInv'
  BY NextWInv
<1>4. PInv => PacketWellFormed
  BY DEF PInv
<1> QED
  BY <1>1, <1>2, <1>3, <1>4, PipelineTypeCorrect, PTL DEF Spec

-----------------------------------------------------------------------------
(* The bitrate tables of codec_policy.h.                                   *)

\* The pass over a table finds an entry that no other one is closer than, the
\* first of those that are as close.
LEMMA ClosestIsFirst ==
    ASSUME NEW bps \in Nat, NEW list \in Seq(Nat), list # <<>>
    PROVE  \E j \in 1 .. Len(list) :
              /\ Closest(bps, list) = list[j]
              /\ \A i \in 1 .. Len(list) :
                   /\ Distance(bps, list[j]) <= Distance(bps, list[i])
                   /\ i < j => Distance(bps, list[j]) < Distance(bps, list[i])
<1> DEFINE n == Len(list)
           d(x) == Distance(bps, x)
           Better(x, i) == IF d(list[i]) < d(x) THEN list[i] ELSE x
           Passes(g) ==
             g = [i \in 1 .. n |->
                     IF i = 1 THEN list[1] ELSE Better(g[i - 1], i)]
           best == CHOOSE g : Passes(g)
<1>1. n \in Nat /\ 1 <= n /\ \A i \in 1 .. n : list[i] \in Nat
  OBVIOUS
<1>2. Passes(best)
  <2> DEFINE step == [p \in (1 .. n) \X Nat |-> Better(p[2], p[1])]
  <2>1. step \in [(1 .. n) \X Nat -> Nat]
    OBVIOUS
  <2>2. PICK g \in [1 .. n -> Nat] :
            \A i \in 1 .. n :
               g[i] = IF i = 1 THEN list[1] ELSE step[<<i, g[i - 1]>>]
    <3> DEFINE a == list[1]
               one == 1
    <3>1. a \in Nat /\ one \in Nat /\ one <= n
      BY <1>1
    <3> HIDE DEF step, n, a, one
    <3>2. Solvable(Nat, a, one, n, step)
      BY <1>1, <2>1, <3>1, RecursionSolvable
    <3> QED
      BY <3>2 DEF Solvable, a, one
  <2>3. Passes(g)
    <3>1. ASSUME NEW i \in 1 .. n, i # 1
          PROVE  step[<<i, g[i - 1]>>] = Better(g[i - 1], i)
      <4>1. i \in 1 .. n /\ i - 1 \in 1 .. n
        BY <1>1, <3>1
      <4>2. <<i, g[i - 1]>> \in (1 .. n) \X Nat
        BY <4>1
      <4> QED
        BY <4>2
    <3> HIDE DEF step, n, Better
    <3> QED
      BY <2>2, <3>1
  <2> HIDE DEF Passes
  <2> QED
    BY <2>3
<1>3. Closest(bps, list) = best[n]
  BY DEF Closest
<1> HIDE DEF best
<1> DEFINE First(x, k) ==
             \E j \in 1 .. k :
                /\ x = list[j]
                /\ \A i \in 1 .. k :
                     /\ d(list[j]) <= d(list[i])
                     /\ i < j => d(list[j]) < d(list[i])
           T == {m \in Nat : m + 1 <= n => First(best[m + 1], m + 1)}
<1>4. \A i \in 1 .. n : d(list[i]) \in Nat
  BY <1>1 DEF Distance
<1>5. 0 \in T
  <2>1. best[1] = list[1]
    BY <1>1, <1>2
  <2> QED
    BY <1>1, <1>4, <2>1
<1>6. ASSUME NEW m \in Nat, m \in T PROVE m + 1 \in T
  <2> SUFFICES ASSUME m + 2 <= n PROVE First(best[m + 2], m + 2)
    OBVIOUS
  <2>1. PICK j \in 1 .. m + 1 :
             /\ best[m + 1] = list[j]
             /\ \A i \in 1 .. m + 1 :
                  /\ d(list[j]) <= d(list[i])
                  /\ i < j => d(list[j]) < d(list[i])
    <3>1. m + 1 <= n
      BY <1>1
    <3>2. First(best[m + 1], m + 1)
      BY <1>6, <3>1
    <3> QED
      BY <3>2
  <2>2. best[m + 2] = Better(best[m + 1], m + 2)
    <3>1. m + 2 \in 1 .. n /\ m + 2 # 1 /\ (m + 2) - 1 = m + 1
      BY <1>1
    <3> HIDE DEF Better
    <3> QED
      BY <1>2, <3>1
  <2>3. \A i \in 1 .. m + 2 : i \in 1 .. m + 1 \/ i = m + 2
    OBVIOUS
  <2>4. d(list[j]) \in Nat /\ d(list[m + 2]) \in Nat
    BY <1>1, <1>4
  <2>5. CASE d(list[m + 2]) < d(list[j])
    <3>1. best[m + 2] = list[m + 2] /\ m + 2 \in 1 .. m + 2
      BY <2>1, <2>2, <2>5
    <3>2. ASSUME NEW i \in 1 .. m + 2
          PROVE  /\ d(list[m + 2]) <= d(list[i])
                 /\ i < m + 2 => d(list[m + 2]) < d(list[i])
      <4>1. d(list[i]) \in Nat
        BY <1>1, <1>4
      <4>2. CASE i = m + 2
        BY <2>4, <4>2
      <4>3. CASE i \in 1 .. m + 1
        <5>1. d(list[j]) <= d(list[i])
          BY <2>1, <4>3
        <5> QED
          BY <2>4, <2>5, <4>1, <5>1
      <4> QED
        BY <2>3, <4>2, <4>3
    <3> QED
      BY <3>1, <3>2
  <2>6. CASE ~(d(list[m + 2]) < d(list[j]))
    <3>1. best[m + 2] = list[j] /\ j \in 1 .. m + 2
      BY <2>1, <2>2, <2>6
    <3>2. ASSUME NEW i \in 1 .. m + 2
          PROVE  /\ d(list[j]) <= d(list[i])
                 /\ i < j => d(list[j]) < d(list[i])
      <4>1. CASE i = m + 2
        BY <2>4, <2>6, <4>1
      <4>2. CASE i \in 1 .. m + 1
        BY <2>1, <4>2
      <4> QED
        BY <2>3, <4>1, <4>2
    <3> QED
      BY <3>1, <3>2
  <2> QED
    BY <2>5, <2>6
<1>7. n - 1 \in T /\ (n - 1) + 1 = n
  <2>1. n - 1 \in Nat /\ (n - 1) + 1 = n
    BY <1>1
  <2> HIDE DEF T
  <2> QED
    BY <1>5, <1>6, <2>1, SetInduction
<1> QED
  BY <1>1, <1>3, <1>7

\* The bitrates of the mode that a rate selects.
Mode(rate) == ToSet(ModeBitrates(rate))

\* Both tables hold seven bitrates in ascending order.
LEMMA TablesAscend ==
    ASSUME NEW rate
    PROVE  /\ ModeBitrates(rate) \in Seq(Nat)
           /\ Len(ModeBitrates(rate)) = 7 /\ ModeBitrates(rate) # <<>>
           /\ DOMAIN ModeBitrates(rate) = 1 .. 7
           /\ \A i \in 1 .. 7 : ModeBitrates(rate)[i] \in Nat
           /\ \A i, j \in 1 .. 7 :
                 i < j => ModeBitrates(rate)[i] < ModeBitrates(rate)[j]
BY DEF ModeBitrates, kBasicBitratesBps, kUhqBitratesBps

\* What is closest in a table, the lower entry on a tie.
IsNearest(b, bps, mode) ==
    /\ b \in mode
    /\ \A c \in mode \ {b} :
          \/ Distance(bps, b) < Distance(bps, c)
          \/ Distance(bps, b) = Distance(bps, c) /\ b < c

\* snap_bitrate_bps() finds it.
LEMMA SnapIsNearest ==
    ASSUME NEW bps \in Nat, NEW rate
    PROVE  IsNearest(snap_bitrate_bps(bps, rate), bps, Mode(rate))
<1> DEFINE list == ModeBitrates(rate)
<1>1. /\ list \in Seq(Nat) /\ Len(list) = 7 /\ list # <<>>
      /\ \A i \in 1 .. 7 : list[i] \in Nat
      /\ \A i, j \in 1 .. 7 : i < j => list[i] < list[j]
      /\ DOMAIN list = 1 .. 7
  BY TablesAscend
<1> HIDE DEF list
<1>2. PICK j \in 1 .. 7 :
        /\ Closest(bps, list) = list[j]
        /\ \A i \in 1 .. 7 :
             /\ Distance(bps, list[j]) <= Distance(bps, list[i])
             /\ i < j => Distance(bps, list[j]) < Distance(bps, list[i])
  BY <1>1, ClosestIsFirst
<1>3. snap_bitrate_bps(bps, rate) = list[j]
  BY <1>2 DEF snap_bitrate_bps, list
<1>4. Mode(rate) = {list[i] : i \in 1 .. 7}
  BY <1>1 DEF Mode, ToSet, list
<1>5. ASSUME NEW i \in 1 .. 7, list[i] # list[j]
      PROVE  \/ Distance(bps, list[j]) < Distance(bps, list[i])
             \/ /\ Distance(bps, list[j]) = Distance(bps, list[i])
                /\ list[j] < list[i]
  <2>1. Distance(bps, list[j]) \in Nat /\ Distance(bps, list[i]) \in Nat
    <3>1. list[j] \in Nat /\ list[i] \in Nat
      BY <1>1
    <3> QED
      BY <3>1 DEF Distance
  <2>2. CASE i < j
    BY <1>2, <2>2
  <2>3. CASE j < i
    <3>1. list[j] < list[i]
      BY <1>1, <2>3
    <3>2. Distance(bps, list[j]) <= Distance(bps, list[i])
      BY <1>2
    <3> QED
      BY <2>1, <3>1, <3>2
  <2> QED
    BY <1>5, <2>2, <2>3
<1> QED
  BY <1>3, <1>4, <1>5 DEF IsNearest

\* An entry of the table is its own nearest entry.
LEMMA SnapIsStable ==
    ASSUME NEW rate, NEW bps \in Mode(rate)
    PROVE  bps \in Nat /\ snap_bitrate_bps(bps, rate) = bps
<1>1. Mode(rate) \subseteq Nat
  BY TablesAscend DEF Mode, ToSet
<1>2. Distance(bps, bps) = 0 /\ \A c \in Nat : Distance(bps, c) >= 0
  BY <1>1 DEF Distance
<1> DEFINE b == snap_bitrate_bps(bps, rate)
<1>3. IsNearest(b, bps, Mode(rate))
  BY <1>1, SnapIsNearest
<1> HIDE DEF b
<1>4. b \in Nat /\ \A c \in Mode(rate) \ {b} :
          Distance(bps, b) <= Distance(bps, c)
  BY <1>1, <1>3 DEF IsNearest, Distance
<1>5. b # bps => Distance(bps, b) = 0
  BY <1>1, <1>2, <1>4 DEF Distance
<1>6. b = bps
  BY <1>1, <1>4, <1>5 DEF Distance
<1> QED
  BY <1>1, <1>6 DEF b

\* The automatic bitrates are entries of the table of their mode.
LEMMA PickInMode ==
    ASSUME NEW quality \in Qualities, NEW rate
    PROVE  pick_bitrate_bps(quality, rate) \in Mode(rate)
<1> DEFINE list == ModeBitrates(rate)
<1>1. pick_bitrate_bps(quality, rate) \in {list[3], list[4], list[5], list[2], list[6]}
  BY DEF Qualities, pick_bitrate_bps, ModeBitrates, kBasicBitratesBps, kUhqBitratesBps
<1>2. DOMAIN list = 1 .. 7
  BY TablesAscend
<1> QED
  BY <1>1, <1>2 DEF Mode, ToSet

-----------------------------------------------------------------------------
(* The decisions of one connection.                                        *)

\* The rates the capture may run at.
CaptureRates == MixRates \cup ProfileRates \cup {0, 96000}

\* Each decision stands as it was taken, since neither the profile nor the
\* headset's capabilities change between the first one and the stream.
CodecInv ==
    stage # "idle" =>
        /\ codec = resolve_codec(profile.codec, caps.codecs)
        /\ codec = "none" => stage = "failed"

\* The encoder runs at the rate of the capture, or at the rate asked for when
\* codec, capture and headset allow to upsample to it.
RateInv ==
    /\ profile.rate \in CaptureRates /\ captureSr \in CaptureRates
    /\ stage \in {"rate", "configured", "streaming"} =>
          \/ encodeSr = captureSr
          \/ /\ codec = "SSC" /\ caps.uhq /\ captureSr = 48000
             /\ is_uhq_rate(profile.rate) /\ encodeSr = profile.rate

\* The mode announced and the bitrate follow the rate of the encoder.
AnnouncedMode ==
    stage \in {"configured", "streaming"} =>
        configUhq = (codec = "SSC" /\ is_uhq_rate(encodeSr))
ModeInv ==
    /\ AnnouncedMode
    /\ Streaming("SSC") =>
          bitrate = IF profile.kbps > 0
                    THEN snap_bitrate_bps(profile.kbps * 1000, encodeSr)
                    ELSE pick_bitrate_bps(profile.quality, encodeSr)

\* The PCM has the rate of the capture, or twice that when it is upsampled.
FedInv ==
    /\ stage \in {"capture", "rate", "configured", "streaming"} =>
          mix.bits \in MixBits
    /\ fedSr # 0 =>
        /\ stage = "streaming"
        /\ mix.bits \in {16, 32}
        /\ fedSr = IF /\ encodeSr = 96000 /\ mix.bits = 32
                      /\ \/ mix.channels = 2
                         \/ front = "cli" /\ mix.channels >= 2
                   THEN 2 * captureSr
                   ELSE captureSr

\* What the WinUI slider shows is a bitrate of the mode it was snapped for.
SliderInv ==
    front = "winui" /\ profile.kbps > 0 =>
        profile.kbps * 1000 \in Mode(SliderRate(profile.rate))

\* Unless the mix format is of the UHQ mode, or shared mode takes a preferred
\* rate as it is, the capture does not run at a rate of that mode.
NoUhqCapture ==
    /\ \A rate \in MixRates : ~is_uhq_rate(rate)
    /\ TRUE \notin CustomRateOk
CaptureInv == ~is_uhq_rate(captureSr)

\* The constants' assumption, as the proofs use it.
LEMMA SetupParameters ==
    /\ MixRates \subseteq Nat /\ ProfileRates \subseteq Nat
    /\ SliderKbps \subseteq Nat /\ CustomRateOk \subseteq BOOLEAN
    /\ MixChannels \subseteq Nat /\ MixBits \subseteq Nat
    /\ CaptureRates \subseteq Nat
BY SetupAssumption DEF CaptureRates

\* A snapped number of kbit/s is zero, or one of the mode's.
LEMMA SnapKbps ==
    ASSUME NEW kbps \in Nat, NEW rate
    PROVE  /\ snap_bitrate_kbps(kbps, rate) \in Nat
           /\ snap_bitrate_kbps(kbps, rate) > 0 =>
                 snap_bitrate_kbps(kbps, rate) * 1000 \in Mode(rate)
<1>1. CASE kbps = 0
  BY <1>1 DEF snap_bitrate_kbps
<1>2. CASE kbps # 0
  <2> DEFINE b == snap_bitrate_bps(kbps * 1000, rate)
  <2>1. kbps * 1000 \in Nat
    OBVIOUS
  <2>2. b \in Mode(rate)
    BY <2>1, SnapIsNearest DEF IsNearest
  <2>3. \A c \in Mode(rate) : c \in Nat /\ (c \div 1000) * 1000 = c
    BY DEF Mode, ToSet, ModeBitrates, kBasicBitratesBps, kUhqBitratesBps
  <2> HIDE DEF b
  <2>4. b \div 1000 \in Nat /\ (b \div 1000) * 1000 = b
    BY <2>2, <2>3
  <2> QED
    BY <1>2, <2>2, <2>4 DEF snap_bitrate_kbps, b
<1> QED
  BY <1>1, <1>2

\* The bitrate an SSC encoder is given is one of the mode's.
LEMMA BitrateInMode ==
    ASSUME NEW kbps \in Nat, NEW quality \in Qualities, NEW rate
    PROVE  LET b == IF kbps > 0 THEN snap_bitrate_bps(kbps * 1000, rate)
                    ELSE pick_bitrate_bps(quality, rate)
           IN  b \in Mode(rate) /\ b \in Nat
<1>1. kbps * 1000 \in Nat
  OBVIOUS
<1>2. snap_bitrate_bps(kbps * 1000, rate) \in Mode(rate)
  BY <1>1, SnapIsNearest DEF IsNearest
<1>3. pick_bitrate_bps(quality, rate) \in Mode(rate)
  BY PickInMode
<1>4. Mode(rate) \subseteq Nat
  BY TablesAscend DEF Mode, ToSet
<1> QED
  BY <1>2, <1>3, <1>4

\* The codec comes from the headset's, the best of them if the one that was
\* asked for is not there, or there is none.
LEMMA ResolvedCodec ==
    ASSUME NEW requested \in Codecs, NEW advertised \in SUBSET Codecs
    PROVE  LET c == resolve_codec(requested, advertised)
               rank == [SSC |-> 1, AAC |-> 2, SBC |-> 3]
           IN  /\ c \in Codecs \cup {"none"}
               /\ c = "none" => advertised = {}
               /\ c # "none" => c \in advertised
               /\ c # "none" /\ c # requested =>
                     /\ requested \notin advertised
                     /\ \A other \in advertised : rank[c] <= rank[other]
BY DEF resolve_codec, Codecs

\* The profiles there are, and the two ways to edit one in place.
Profiles == [codec : Codecs, rate : Nat, kbps : Nat, quality : Qualities]

WithRate(p, r, k) == [p EXCEPT !.rate = r, !.kbps = k]
WithBitrate(p, k) == [p EXCEPT !.kbps = k]
Holds(q, r, k) == q \in Profiles /\ q.rate = r /\ q.kbps = k

LEMMA RateEdited ==
    ASSUME NEW p \in Profiles, NEW r \in Nat, NEW k \in Nat
    PROVE  Holds(WithRate(p, r, k), r, k)
<1>1. [p EXCEPT !.rate = r, !.kbps = k] \in Profiles
  BY ZenonT(20) DEF Profiles
<1>2. DOMAIN p = {"codec", "rate", "kbps", "quality"}
  BY DEF Profiles
<1>3. /\ [p EXCEPT !.rate = r, !.kbps = k].rate = r
      /\ [p EXCEPT !.rate = r, !.kbps = k].kbps = k
  BY <1>2
<1> QED
  BY <1>1, <1>3 DEF WithRate, Holds

LEMMA BitrateEdited ==
    ASSUME NEW p \in Profiles, NEW k \in Nat
    PROVE  Holds(WithBitrate(p, k), p.rate, k)
<1>1. [p EXCEPT !.kbps = k] \in Profiles
  BY DEF Profiles
<1>2. DOMAIN p = {"codec", "rate", "kbps", "quality"}
  BY DEF Profiles
<1>3. /\ [p EXCEPT !.kbps = k].rate = p.rate
      /\ [p EXCEPT !.kbps = k].kbps = k
  BY <1>2
<1> QED
  BY <1>1, <1>3 DEF WithBitrate, Holds

\* A change in one of the user interfaces happens between sessions and only
\* concerns the profile.
InterfaceStep ==
    /\ stage = "idle" /\ stage' = "idle"
    /\ UNCHANGED sessionVars
    /\ profile'.kbps \in Nat /\ profile'.rate \in CaptureRates
    /\ profile' \in Profiles
    /\ front' \in {"winui", "wx", "cli"}
    /\ front' = "winui" /\ profile'.kbps > 0 =>
          profile'.kbps * 1000 \in Mode(SliderRate(profile'.rate))

LEMMA InterfaceSteps ==
    ASSUME SetupTypeOK, profile.rate \in CaptureRates, Interface
    PROVE  InterfaceStep
<1>a. profile \in Profiles /\ profile.kbps \in Nat
  BY DEF SetupTypeOK, Profiles
<1>1. ASSUME NEW rate \in Nat, rate \in CaptureRates, OnRateChanged(rate)
      PROVE  InterfaceStep
  <2> DEFINE kbps == snap_bitrate_kbps(profile.kbps, SliderRate(rate))
  <2>0. kbps \in Nat
    BY <1>a, SnapKbps
  <2>1. kbps > 0 => kbps * 1000 \in Mode(SliderRate(rate))
    BY <1>a, SnapKbps
  <2> HIDE DEF kbps
  <2>2. /\ profile' = WithRate(profile, rate, kbps)
        /\ stage = "idle" /\ stage' = stage /\ front' = "winui"
        /\ UNCHANGED sessionVars
    BY <1>1 DEF OnRateChanged, WithRate, kbps
  <2>3. Holds(profile', rate, kbps)
    <3>1. Holds(WithRate(profile, rate, kbps), rate, kbps)
      BY <1>a, <2>0, RateEdited
    <3> QED
      BY <2>2, <3>1
  <2> QED
    BY <1>1, <2>0, <2>1, <2>2, <2>3 DEF InterfaceStep, Holds
<1>2. ASSUME NEW asked \in SliderKbps, OnBitrateChanged(asked) PROVE InterfaceStep
  <2> DEFINE kbps == snap_bitrate_kbps(asked, SliderRate(profile.rate))
  <2>0. kbps \in Nat
    BY SetupParameters, SnapKbps
  <2>1. kbps > 0 => kbps * 1000 \in Mode(SliderRate(profile.rate))
    BY SetupParameters, SnapKbps
  <2> HIDE DEF kbps
  <2>2. /\ profile' = WithBitrate(profile, kbps)
        /\ stage = "idle" /\ stage' = stage /\ front' = front /\ front = "winui"
        /\ UNCHANGED sessionVars
    BY <1>2 DEF OnBitrateChanged, WithBitrate, kbps
  <2>3. Holds(profile', profile.rate, kbps)
    <3>1. Holds(WithBitrate(profile, kbps), profile.rate, kbps)
      BY <1>a, <2>0, BitrateEdited
    <3> QED
      BY <2>2, <3>1
  <2> QED
    BY <2>0, <2>1, <2>2, <2>3 DEF InterfaceStep, Holds
<1>3. ASSUME NEW cdc \in Codecs, NEW rate \in ProfileRates,
             NEW kbps \in SliderKbps, NEW quality \in Qualities,
             LoadProfile(cdc, rate, kbps, quality)
      PROVE  InterfaceStep
  BY <1>3, SetupParameters DEF LoadProfile, InterfaceStep, CaptureRates, Profiles
<1>4. ASSUME NEW cdc \in Codecs, NEW uhq \in BOOLEAN,
             NEW kbps \in SliderKbps, NEW quality \in Qualities,
             ParseOptions(cdc, uhq, kbps, quality)
      PROVE  InterfaceStep
  BY <1>4, SetupParameters DEF ParseOptions, InterfaceStep, CaptureRates, Profiles
<1>5. \A rate \in {0, 96000} : rate \in Nat /\ rate \in CaptureRates
  BY DEF CaptureRates
<1> QED
  BY <1>1, <1>2, <1>3, <1>4, <1>5 DEF Interface

\* The steps of a session, with the choices of the environment named.
ChoosesCodec ==
    \E advertised \in SUBSET Codecs, uhq \in BOOLEAN :
        ChooseCodec(advertised, uhq)
OpensCapture ==
    \E rate \in MixRates, channels \in MixChannels, bits \in MixBits :
        \/ \E ok \in CustomRateOk : OpenCapture(rate, channels, bits, ok)
        \/ CliOpensCapture(rate, channels, bits)
DecidesRate == DecideRate \/ CliDecidesRate
InitsEncoder == \E aac \in AacAvailable : InitEncoder(aac)
EncodesBlock == EncodeBlock \/ CliEncodesBlock

LEMMA SessionSteps ==
    ASSUME Session
    PROVE  \/ ChoosesCodec \/ OpensCapture \/ DecidesRate \/ ConfigureCodec
           \/ InitsEncoder \/ EncodesBlock \/ EndSession
BY DEF Session, SelectCodec, find_best_btstack_codec, ChoosesCodec, OpensCapture,
       DecidesRate, InitsEncoder, EncodesBlock

\* Every step keeps the types.
LEMMA NextSetupTypeOK ==
    ASSUME SetupTypeOK, RateInv, [SetupNext]_setupVars
    PROVE  SetupTypeOK'
<1> USE SetupParameters
<1>1. CASE Interface
  <2>1. InterfaceStep
    BY <1>1, InterfaceSteps DEF RateInv
  <2> QED
    BY <2>1 DEF InterfaceStep, sessionVars, SetupTypeOK, Profiles
<1>2. CASE ChoosesCodec
  <2>1. codec' \in Codecs \cup {"none"}
    BY <1>2, ResolvedCodec DEF ChoosesCodec, ChooseCodec, SetupTypeOK
  <2> QED
    BY <1>2, <2>1 DEF ChoosesCodec, ChooseCodec, SetupTypeOK
<1>3. CASE OpensCapture
  BY <1>3 DEF OpensCapture, OpenCapture, CliOpensCapture, SetupTypeOK
<1>4. CASE DecidesRate
  <2>1. encodeSr' \in {captureSr, profile.rate, 96000}
    BY <1>4 DEF DecidesRate, DecideRate, CliDecidesRate, resolve_encode_sr
  <2>2. encodeSr' \in {0} \cup MixRates \cup ProfileRates \cup {96000}
    BY <2>1 DEF RateInv, CaptureRates
  <2> QED
    BY <1>4, <2>2 DEF DecidesRate, DecideRate, CliDecidesRate, SetupTypeOK
<1>5. CASE ConfigureCodec
  BY <1>5 DEF ConfigureCodec, SetupTypeOK
<1>6. CASE InitsEncoder
  <2>1. bitrate' \in Nat
    BY <1>6, BitrateInMode DEF InitsEncoder, InitEncoder, SetupTypeOK
  <2> QED
    BY <1>6, <2>1 DEF InitsEncoder, InitEncoder, SetupTypeOK
<1>7. CASE EncodesBlock
  <2>1. fedSr' \in {captureSr, 2 * captureSr}
    BY <1>7 DEF EncodesBlock, EncodeBlock, CliEncodesBlock
  <2>2. fedSr' \in Nat
    BY <2>1 DEF SetupTypeOK
  <2>3. CASE EncodeBlock
    BY <2>2, <2>3 DEF EncodeBlock, SetupTypeOK
  <2>4. CASE CliEncodesBlock
    BY <2>2, <2>4 DEF CliEncodesBlock, SetupTypeOK
  <2> QED
    BY <1>7, <2>3, <2>4 DEF EncodesBlock
<1>8. CASE EndSession
  <2>1. /\ stage' = "idle" /\ codec' = "none" /\ encodeSr' = 0
        /\ captureSr' = 0 /\ bitrate' = 0 /\ fedSr' = 0 /\ configUhq' = FALSE
        /\ UNCHANGED <<profile, front, mix>>
    BY <1>8 DEF EndSession
  <2>2. caps' \in [codecs : SUBSET Codecs, uhq : BOOLEAN]
    BY <1>8 DEF EndSession
  <2>3. profile' \in [codec : Codecs, rate : Nat, kbps : Nat, quality : Qualities]
    BY <2>1 DEF SetupTypeOK
  <2>4. front' \in {"winui", "wx", "cli"}
    BY <2>1 DEF SetupTypeOK
  <2>5. mix' \in [rate : Nat, channels : Nat, bits : Nat]
    BY <2>1 DEF SetupTypeOK
  <2>6. encodeSr' \in {0} \cup MixRates \cup ProfileRates \cup {96000}
    BY <2>1
  <2>7. /\ stage' \in {"idle", "codec", "capture", "rate", "configured",
                       "streaming", "failed"}
        /\ codec' \in Codecs \cup {"none"}
    BY <2>1
  <2>8. /\ captureSr' \in Nat /\ bitrate' \in Nat /\ fedSr' \in Nat
        /\ configUhq' \in BOOLEAN
    BY <2>1
  <2> QED
    BY <2>2, <2>3, <2>4, <2>5, <2>6, <2>7, <2>8, SMT DEF SetupTypeOK
<1>9. CASE UNCHANGED setupVars
  BY <1>9 DEF setupVars, SetupTypeOK
<1> QED
  BY <1>1, <1>2, <1>3, <1>4, <1>5, <1>6, <1>7, <1>8, <1>9, SessionSteps
  DEF SetupNext

\* Once chosen, the codec stands.
LEMMA NextCodecInv ==
    ASSUME SetupTypeOK, RateInv, CodecInv, [SetupNext]_setupVars
    PROVE  CodecInv'
<1>1. CASE Interface
  BY <1>1, InterfaceSteps DEF RateInv, InterfaceStep, CodecInv
<1>2. CASE ChoosesCodec
  BY <1>2 DEF ChoosesCodec, ChooseCodec, CodecInv
<1>3. CASE OpensCapture
  BY <1>3 DEF OpensCapture, OpenCapture, CliOpensCapture, CodecInv
<1>4. CASE DecidesRate
  BY <1>4 DEF DecidesRate, DecideRate, CliDecidesRate, CodecInv
<1>5. CASE ConfigureCodec
  BY <1>5 DEF ConfigureCodec, CodecInv
<1>6. CASE InitsEncoder
  BY <1>6 DEF InitsEncoder, InitEncoder, CodecInv
<1>7. CASE EncodesBlock
  BY <1>7 DEF EncodesBlock, EncodeBlock, CliEncodesBlock, CodecInv
<1>8. CASE EndSession
  BY <1>8 DEF EndSession, CodecInv
<1>9. CASE UNCHANGED setupVars
  BY <1>9 DEF setupVars, CodecInv
<1> QED
  BY <1>1, <1>2, <1>3, <1>4, <1>5, <1>6, <1>7, <1>8, <1>9, SessionSteps
  DEF SetupNext

\* Once decided, the rate of the encoder stands.
LEMMA NextRateInv ==
    ASSUME SetupTypeOK, RateInv, [SetupNext]_setupVars
    PROVE  RateInv'
<1>1. CASE Interface
  BY <1>1, InterfaceSteps DEF RateInv, InterfaceStep, sessionVars
<1>2. CASE ChoosesCodec
  BY <1>2 DEF ChoosesCodec, ChooseCodec, RateInv
<1>3. CASE OpensCapture
  BY <1>3 DEF OpensCapture, OpenCapture, CliOpensCapture, RateInv, CaptureRates
<1>4. CASE DecidesRate
  BY <1>4 DEF DecidesRate, DecideRate, CliDecidesRate, RateInv,
              resolve_encode_sr, SetupTypeOK
<1>5. CASE ConfigureCodec
  BY <1>5 DEF ConfigureCodec, RateInv
<1>6. CASE InitsEncoder
  BY <1>6 DEF InitsEncoder, InitEncoder, RateInv
<1>7. CASE EncodesBlock
  BY <1>7 DEF EncodesBlock, EncodeBlock, CliEncodesBlock, RateInv
<1>8. CASE EndSession
  BY <1>8 DEF EndSession, RateInv, CaptureRates
<1>9. CASE UNCHANGED setupVars
  BY <1>9 DEF setupVars, RateInv
<1> QED
  BY <1>1, <1>2, <1>3, <1>4, <1>5, <1>6, <1>7, <1>8, <1>9, SessionSteps
  DEF SetupNext

\* Once announced, mode and bitrate stand.
LEMMA NextModeInv ==
    ASSUME SetupTypeOK, RateInv, ModeInv, [SetupNext]_setupVars
    PROVE  ModeInv'
<1> USE DEF Streaming, AnnouncedMode
<1>1. CASE Interface
  BY <1>1, InterfaceSteps DEF RateInv, InterfaceStep, ModeInv
<1>2. CASE ChoosesCodec
  BY <1>2 DEF ChoosesCodec, ChooseCodec, ModeInv
<1>3. CASE OpensCapture
  BY <1>3 DEF OpensCapture, OpenCapture, CliOpensCapture, ModeInv
<1>4. CASE DecidesRate
  BY <1>4 DEF DecidesRate, DecideRate, CliDecidesRate, ModeInv
<1>5. CASE ConfigureCodec
  BY <1>5 DEF ConfigureCodec, ModeInv
<1>6. CASE InitsEncoder
  BY <1>6 DEF InitsEncoder, InitEncoder, ModeInv
<1>7. CASE EncodesBlock
  BY <1>7 DEF EncodesBlock, EncodeBlock, CliEncodesBlock, ModeInv
<1>8. CASE EndSession
  BY <1>8 DEF EndSession, ModeInv
<1>9. CASE UNCHANGED setupVars
  BY <1>9 DEF setupVars, ModeInv
<1> QED
  BY <1>1, <1>2, <1>3, <1>4, <1>5, <1>6, <1>7, <1>8, <1>9, SessionSteps
  DEF SetupNext

\* The encoder goes on to be fed at the rate it was fed first.
LEMMA NextFedInv ==
    ASSUME SetupTypeOK, RateInv, FedInv, [SetupNext]_setupVars
    PROVE  FedInv'
<1>1. CASE Interface
  BY <1>1, InterfaceSteps DEF RateInv, InterfaceStep, sessionVars, FedInv
<1>2. CASE ChoosesCodec
  BY <1>2 DEF ChoosesCodec, ChooseCodec, FedInv
<1>3. CASE OpensCapture
  BY <1>3 DEF OpensCapture, OpenCapture, CliOpensCapture, FedInv
<1>4. CASE DecidesRate
  BY <1>4 DEF DecidesRate, DecideRate, CliDecidesRate, FedInv
<1>5. CASE ConfigureCodec
  BY <1>5 DEF ConfigureCodec, FedInv
<1>6. CASE InitsEncoder
  BY <1>6 DEF InitsEncoder, InitEncoder, FedInv
<1>7. CASE EncodesBlock
  <2>1. CASE EncodeBlock
    BY <2>1 DEF EncodeBlock, FedInv
  <2>2. CASE CliEncodesBlock
    BY <2>2 DEF CliEncodesBlock, FedInv, SetupTypeOK
  <2> QED
    BY <1>7, <2>1, <2>2 DEF EncodesBlock
<1>8. CASE EndSession
  BY <1>8 DEF EndSession, FedInv
<1>9. CASE UNCHANGED setupVars
  BY <1>9 DEF setupVars, FedInv
<1> QED
  BY <1>1, <1>2, <1>3, <1>4, <1>5, <1>6, <1>7, <1>8, <1>9, SessionSteps
  DEF SetupNext

\* What the slider shows stays a bitrate of its mode.
LEMMA NextSliderInv ==
    ASSUME SetupTypeOK, RateInv, SliderInv, [SetupNext]_setupVars
    PROVE  SliderInv'
<1>1. CASE Interface
  BY <1>1, InterfaceSteps DEF RateInv, InterfaceStep, SliderInv
<1>2. CASE ~Interface
  <2>1. UNCHANGED <<profile, front>>
    <3>1. CASE ChoosesCodec
      BY <3>1 DEF ChoosesCodec, ChooseCodec
    <3>2. CASE OpensCapture
      BY <3>2 DEF OpensCapture, OpenCapture, CliOpensCapture
    <3>3. CASE DecidesRate
      BY <3>3 DEF DecidesRate, DecideRate, CliDecidesRate
    <3>4. CASE ConfigureCodec
      BY <3>4 DEF ConfigureCodec
    <3>5. CASE InitsEncoder
      BY <3>5 DEF InitsEncoder, InitEncoder
    <3>6. CASE EncodesBlock
      BY <3>6 DEF EncodesBlock, EncodeBlock, CliEncodesBlock
    <3>7. CASE EndSession
      BY <3>7 DEF EndSession
    <3>8. CASE UNCHANGED setupVars
      BY <3>8 DEF setupVars
    <3> QED
      BY <1>2, <3>1, <3>2, <3>3, <3>4, <3>5, <3>6, <3>7, <3>8, SessionSteps DEF SetupNext
  <2> QED
    BY <2>1 DEF SliderInv
<1> QED
  BY <1>1, <1>2

\* The rate of the capture is one the mix format may have, or none.
LEMMA NextCaptureInv ==
    ASSUME NoUhqCapture, SetupTypeOK, RateInv, CaptureInv, [SetupNext]_setupVars
    PROVE  CaptureInv'
<1>a. ~is_uhq_rate(0)
  BY DEF is_uhq_rate
<1>1. CASE Interface
  BY <1>1, InterfaceSteps DEF RateInv, InterfaceStep, sessionVars, CaptureInv
<1>2. CASE OpensCapture
  <2>1. captureSr' \in MixRates
    BY <1>2 DEF OpensCapture, OpenCapture, CliOpensCapture, NoUhqCapture
  <2> QED
    BY <2>1 DEF NoUhqCapture, CaptureInv
<1>3. CASE ~Interface /\ ~OpensCapture
  <2>1. captureSr' = captureSr \/ captureSr' = 0
    <3>1. CASE ChoosesCodec
      BY <3>1 DEF ChoosesCodec, ChooseCodec
    <3>2. CASE DecidesRate
      BY <3>2 DEF DecidesRate, DecideRate, CliDecidesRate
    <3>3. CASE ConfigureCodec
      BY <3>3 DEF ConfigureCodec
    <3>4. CASE InitsEncoder
      BY <3>4 DEF InitsEncoder, InitEncoder
    <3>5. CASE EncodesBlock
      BY <3>5 DEF EncodesBlock, EncodeBlock, CliEncodesBlock
    <3>6. CASE EndSession
      BY <3>6 DEF EndSession
    <3>7. CASE UNCHANGED setupVars
      BY <3>7 DEF setupVars
    <3> QED
      BY <1>3, <3>1, <3>2, <3>3, <3>4, <3>5, <3>6, <3>7, SessionSteps DEF SetupNext
  <2> QED
    BY <1>a, <2>1 DEF CaptureInv
<1> QED
  BY <1>1, <1>2, <1>3

-----------------------------------------------------------------------------
(* What the session ends up with.                                          *)

\* The inductive invariant.
SetupInv == CodecInv /\ RateInv /\ ModeInv /\ FedInv /\ SliderInv

LEMMA SetupInductive == SetupSpec => [](SetupTypeOK /\ SetupInv)
<1>1. SetupInit => SetupTypeOK /\ SetupInv
  <2> SUFFICES ASSUME SetupInit PROVE SetupTypeOK /\ SetupInv
    OBVIOUS
  <2>1. SetupTypeOK
    <3>1. /\ stage = "idle" /\ front = "winui" /\ codec = "none"
          /\ captureSr = 0 /\ encodeSr = 0 /\ configUhq = FALSE
          /\ bitrate = 0 /\ fedSr = 0
      BY DEF SetupInit
    <3>2. caps \in [codecs : SUBSET Codecs, uhq : BOOLEAN]
      BY DEF SetupInit
    <3>3. profile \in [codec : Codecs, rate : Nat, kbps : Nat, quality : Qualities]
      BY DEF SetupInit, Codecs, Qualities
    <3>4. mix \in [rate : Nat, channels : Nat, bits : Nat]
      BY DEF SetupInit
    <3>5. encodeSr \in {0} \cup MixRates \cup ProfileRates \cup {96000}
      BY <3>1
    <3>6. /\ stage \in {"idle", "codec", "capture", "rate", "configured",
                        "streaming", "failed"}
          /\ front \in {"winui", "wx", "cli"} /\ codec \in Codecs \cup {"none"}
      BY <3>1
    <3>7. /\ captureSr \in Nat /\ bitrate \in Nat /\ fedSr \in Nat
          /\ configUhq \in BOOLEAN
      BY <3>1
    <3> QED
      BY <3>2, <3>3, <3>4, <3>5, <3>6, <3>7, SMT DEF SetupTypeOK
  <2>2. CodecInv /\ RateInv /\ ModeInv /\ FedInv /\ SliderInv
    BY DEF SetupInit, CodecInv, RateInv, CaptureRates, ModeInv, AnnouncedMode,
           Streaming, FedInv, SliderInv
  <2> QED
    BY <2>1, <2>2 DEF SetupInv
<1>2. SetupTypeOK /\ SetupInv /\ [SetupNext]_setupVars => (SetupTypeOK /\ SetupInv)'
  BY NextSetupTypeOK, NextCodecInv, NextRateInv, NextModeInv, NextFedInv,
     NextSliderInv DEF SetupInv
<1> QED
  BY <1>1, <1>2, PTL DEF SetupSpec

\* A session streams the profile's codec if the headset has it, else the best
\* one it has, and fails for want of a codec only when the headset has none
\* (resolve_codec).
THEOREM SetupBestCodec == SetupSpec => []BestCodec
<1>1. SetupTypeOK /\ SetupInv => BestCodec
  <2> SUFFICES ASSUME SetupTypeOK, CodecInv PROVE BestCodec
    BY DEF SetupInv
  <2>1. profile.codec \in Codecs /\ caps.codecs \in SUBSET Codecs
    BY DEF SetupTypeOK
  <2>2. LET c == resolve_codec(profile.codec, caps.codecs)
            rank == [SSC |-> 1, AAC |-> 2, SBC |-> 3]
        IN  /\ c = "none" => caps.codecs = {}
            /\ c # "none" => c \in caps.codecs
            /\ c # "none" /\ c # profile.codec =>
                  /\ profile.codec \notin caps.codecs
                  /\ \A other \in caps.codecs : rank[c] <= rank[other]
    BY <2>1, ResolvedCodec
  <2>3. stage \in {"streaming", "failed"} =>
            codec = resolve_codec(profile.codec, caps.codecs)
    BY DEF CodecInv
  <2>4. stage = "streaming" => codec # "none"
    BY DEF CodecInv
  <2> QED
    BY <2>2, <2>3, <2>4 DEF BestCodec
<1> QED
  BY <1>1, SetupInductive, PTL

\* The bitrate the SSC daemon is asked for is one of the mode announced to the
\* headset, and the closest one to the user's (snap_bitrate_bps,
\* pick_bitrate_bps, SscEncoder::init, configure_codec).
THEOREM SetupNearestBitrate == SetupSpec => []NearestBitrate
<1>1. SetupTypeOK /\ SetupInv => NearestBitrate
  <2> SUFFICES ASSUME SetupTypeOK, ModeInv, Streaming("SSC")
               PROVE  LET mode == IF configUhq THEN ToSet(kUhqBitratesBps)
                                               ELSE ToSet(kBasicBitratesBps)
                          wanted == profile.kbps * 1000
                      IN  /\ bitrate \in mode
                          /\ profile.kbps > 0 => IsNearest(bitrate, wanted, mode)
    BY DEF SetupInv, NearestBitrate, IsNearest
  <2>1. profile.kbps \in Nat /\ profile.quality \in Qualities
    BY DEF SetupTypeOK
  <2>2. Mode(encodeSr) = IF configUhq THEN ToSet(kUhqBitratesBps)
                                      ELSE ToSet(kBasicBitratesBps)
    BY DEF ModeInv, AnnouncedMode, Streaming, Mode, ModeBitrates
  <2>3. bitrate = IF profile.kbps > 0
                  THEN snap_bitrate_bps(profile.kbps * 1000, encodeSr)
                  ELSE pick_bitrate_bps(profile.quality, encodeSr)
    BY DEF ModeInv
  <2>4. bitrate \in Mode(encodeSr)
    BY <2>1, <2>3, BitrateInMode
  <2>5. profile.kbps > 0 =>
            IsNearest(bitrate, profile.kbps * 1000, Mode(encodeSr))
    <3>1. profile.kbps * 1000 \in Nat
      BY <2>1
    <3> QED
      BY <2>3, <3>1, SnapIsNearest
  <2> QED
    BY <2>2, <2>4, <2>5
<1> QED
  BY <1>1, SetupInductive, PTL

\* What the slider shows is what is streamed, whenever the session got the
\* mode that the slider was set for (OnBitrateChanged, OnRateChanged and
\* SscEncoder::init).
THEOREM SetupSliderHonest == SetupSpec => []SliderHonest
<1>1. SetupTypeOK /\ SetupInv => SliderHonest
  <2> SUFFICES ASSUME SetupTypeOK, ModeInv, SliderInv, Streaming("SSC"),
                      front = "winui", profile.kbps > 0,
                      is_uhq_rate(encodeSr) <=> profile.rate = 96000
               PROVE  bitrate = profile.kbps * 1000
    BY DEF SetupInv, SliderHonest
  <2>1. Mode(SliderRate(profile.rate)) = Mode(encodeSr)
    BY DEF SliderRate, Mode, ModeBitrates, is_uhq_rate
  <2>2. profile.kbps * 1000 \in Mode(encodeSr)
    BY <2>1 DEF SliderInv
  <2>3. bitrate = snap_bitrate_bps(profile.kbps * 1000, encodeSr)
    BY DEF ModeInv
  <2> QED
    BY <2>2, <2>3, SnapIsStable
<1> QED
  BY <1>1, SetupInductive, PTL

\* Only an encoder in UHQ mode has been announced as one.
LEMMA UhqAnnounced ==
    ASSUME AnnouncedMode, Streaming("SSC"), configUhq
    PROVE  is_uhq_rate(encodeSr)
BY Zenon DEF AnnouncedMode, Streaming

\* Headset, encoder and capture agree on the rate, provided that the capture
\* itself never runs at a rate of the UHQ mode, no profile asks for 88.2 kHz
\* and the mix format is not of 16 bits: the first two lift the agreement in
\* MCStreamSetupNative.cfg and MCStreamSetupRate.cfg, and 16-bit PCM is not
\* upsampled (resolve_encode_sr, encode_thread_func, audio_callback).
THEOREM SetupRateAgreed ==
    ASSUME NoUhqCapture, 88200 \notin ProfileRates, 16 \notin MixBits
    PROVE  SetupSpec => []RateAgreed
<1>1. SetupInit => CaptureInv
  BY DEF SetupInit, CaptureInv, is_uhq_rate
<1>2. SetupTypeOK /\ SetupInv /\ CaptureInv /\ [SetupNext]_setupVars => CaptureInv'
  BY NextCaptureInv DEF SetupInv
<1>3. SetupTypeOK /\ SetupInv /\ CaptureInv => RateAgreed
  <2> SUFFICES ASSUME SetupTypeOK, RateInv, ModeInv, FedInv, CaptureInv
               PROVE  RateAgreed
    BY DEF SetupInv
  <2>1. ASSUME Streaming("SSC"), configUhq PROVE caps.uhq
    <3>1. AnnouncedMode
      BY DEF ModeInv
    <3>2. is_uhq_rate(encodeSr)
      BY <2>1, <3>1, UhqAnnounced
    <3> QED
      BY <2>1, <3>2 DEF RateInv, CaptureInv, Streaming
  <2>2. ASSUME stage = "streaming", fedSr # 0,
               mix.channels = 2 \/ (front = "cli" /\ mix.channels > 2)
        PROVE  fedSr = encodeSr
    <3>1. mix.bits = 32
      BY <2>2 DEF FedInv
    <3>2. mix.channels = 2 \/ (front = "cli" /\ mix.channels >= 2)
      BY <2>2 DEF SetupTypeOK
    <3>3. fedSr = IF encodeSr = 96000 THEN 2 * captureSr ELSE captureSr
      BY <2>2, <3>1, <3>2 DEF FedInv
    <3>4. CASE encodeSr = captureSr
      BY <3>3, <3>4 DEF CaptureInv, is_uhq_rate
    <3>5. CASE encodeSr # captureSr
      <4>1. /\ captureSr = 48000 /\ encodeSr = profile.rate
            /\ encodeSr \in {88200, 96000}
        BY <2>2, <3>5 DEF RateInv, is_uhq_rate
      <4>2. profile.rate # 88200
        BY DEF RateInv, CaptureRates, NoUhqCapture, is_uhq_rate
      <4> QED
        BY <3>3, <4>1, <4>2
    <3> QED
      BY <3>4, <3>5
  <2> QED
    BY <2>1, <2>2 DEF RateAgreed
<1> QED
  BY <1>1, <1>2, <1>3, SetupInductive, PTL DEF SetupSpec
===============================================================================
