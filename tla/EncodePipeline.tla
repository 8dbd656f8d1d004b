---------------------------- MODULE EncodePipeline ----------------------------
(***************************************************************************)
(* From a block of captured PCM to media packets: optional 2x upsampling,  *)
(* joining with the residual of the block before, one encode call per      *)
(* codec frame, and packing of the encoded frames into packets that fit    *)
(* the media MTU.  encode_thread_func of app/src/a2dp_service.cpp does     *)
(* this for the graphical front ends, audio_callback of app/src/main.cpp   *)
(* for the command line, where blocks are as long as WASAPI makes them.    *)
(*                                                                         *)
(* A PCM frame is represented by its number (the first one is 1), so that  *)
(* a lost, repeated or reordered frame shows.                              *)
(***************************************************************************)
EXTENDS Naturals, Sequences, SequencesExt

CONSTANTS
    FrameLength,    \* PCM frames per encode call
    MaxAvail,       \* PCM frames a callback, or the ring, may hold
    MaxBlock,       \* PCM frames the encode thread takes at a time
    OutSizes,       \* sizes an encoded frame may have; 0: encode failed
    MaxRaw,         \* media MTU, less the SBC payload header
    AccumBytes,     \* sizeof(accum)
    HeaderFrames,   \* frames the SBC payload header can count
    MaxTaken        \* bound on the PCM frames of a behaviour

ASSUME PipelineAssumption ==
    /\ {FrameLength, MaxAvail, MaxBlock, MaxRaw, AccumBytes} \subseteq Nat \ {0}
    /\ OutSizes \subseteq Nat
    /\ {HeaderFrames, MaxTaken} \subseteq Nat

VARIABLES
    cli,        \* TRUE: audio_callback, FALSE: encode_thread_func
    upsample,   \* encode at 96 kHz from a 48 kHz stereo float capture (SSC)
    phase,      \* idle, combined (a block is converted), encoding
    encoderSet, transportSet,   \* g_ctx.encoder, g_ctx.transport not null
    base,       \* PCM frames that came before timestamp 0
    taken,      \* PCM frames read from the ring so far
    fed,        \* PCM frames that came out of conversion so far
    residual,   \* pcm_residual
    combined,   \* residual and block, what is left of it from offset on
    input,      \* the PCM of the last encode call
    timestamp,  \* g_ctx.timestamp
    accum,      \* encoded frames waiting for a packet: first PCM frame, size
    accumSize,  \* accum_size, their bytes
    firstTs,    \* first_ts
    packet,     \* the packet last given to send_media
    produced,   \* encoded frames so far
    offered,    \* encoded frames given to send_media so far
    raced       \* a restart overtook the block in hand, or what it left over

cfgVars == <<cli, upsample>>
linkVars == <<encoderSet, transportSet, base, raced>>
packVars == <<accum, accumSize, firstTs, packet, produced, offered>>
vars == <<cfgVars, phase, linkVars, taken, fed, residual, combined, input,
          timestamp, packVars>>

NoPacket == [ts |-> 0, frames |-> <<>>]

\* The n PCM frames that follow frame k.
Block(k, n) == [i \in 1 .. n |-> k + i]

\* upsample_2x_stereo_f32: the frames and the midpoints between them; a
\* single frame has no neighbour and yields nothing.
upsample_2x(n) == IF n < 2 THEN 0 ELSE 2 * n - 1

Converted(n) == IF upsample THEN upsample_2x(n) ELSE n

\* The frames of s are the last ones that were converted.
InSequence(s) == s = Block(fed - Len(s), Len(s))

Init ==
    /\ cli \in BOOLEAN
    /\ upsample \in BOOLEAN
    /\ phase = "idle"
    /\ encoderSet = TRUE /\ transportSet = TRUE
    /\ base = 0
    /\ taken = 0
    /\ fed = 0
    /\ residual = <<>>
    /\ combined = <<>>
    /\ input = <<>>
    /\ timestamp = 0
    /\ accum = <<>>
    /\ accumSize = 0
    /\ firstTs = 0
    /\ packet = NoPacket
    /\ produced = 0
    /\ offered = 0
    /\ raced = FALSE

\* Conversion, and the residual of the last block in front of the new one.
TakeBlock(n) ==
    /\ phase = "idle"
    /\ encoderSet
    /\ taken + n <= MaxTaken
    /\ phase' = "combined"
    /\ taken' = taken + n
    /\ fed' = fed + Converted(n)
    /\ combined' = residual \o Block(fed, Converted(n))
    /\ UNCHANGED <<cfgVars, linkVars, residual, input, timestamp, packVars>>

\* Seeded fault: the whole ring is read at once.
EncodeThreadReadsAll(avail) ==
    /\ ~cli
    /\ TakeBlock(avail)

\* The encode thread caps what it reads from the ring at about 10 ms.
EncodeThreadReads(avail) ==
    /\ ~cli
    /\ TakeBlock(IF avail > MaxBlock THEN MaxBlock ELSE avail)

CallbackReads(frames) ==
    /\ cli
    /\ TakeBlock(frames)

\* The transport is loaded after the encoder, and may be gone by then: the
\* block is dropped, the residual stays.
LoadTransport ==
    /\ phase = "combined"
    /\ \/ /\ transportSet
          /\ phase' = "encoding"
          /\ accum' = <<>> /\ accumSize' = 0
          /\ firstTs' = timestamp
          /\ UNCHANGED <<combined, base, input, raced>>
       \/ /\ ~transportSet
          /\ phase' = "idle"
          /\ combined' = <<>>
          /\ base' = fed - timestamp - Len(residual)
          /\ input' = <<>>
          /\ raced' = ~InSequence(residual)
          /\ UNCHANGED <<accum, accumSize, firstTs>>
    /\ UNCHANGED <<cfgVars, encoderSet, transportSet, taken, fed, residual,
                   timestamp, packet, produced, offered>>

\* Seeded fault: first_ts is not moved on when a packet is sent in the loop.
EncodeFrameStaleTs(size) ==
    /\ phase = "encoding"
    /\ Len(combined) >= FrameLength
    /\ LET full == size > 0 /\ accumSize + size > MaxRaw /\ accum # <<>>
           packed == IF full THEN <<>> ELSE accum
           bytes == IF full THEN 0 ELSE accumSize
           fits == size > 0 /\ bytes + size <= AccumBytes
       IN  /\ packet' = IF full THEN [ts |-> firstTs, frames |-> accum] ELSE packet
           /\ offered' = IF full THEN offered + Len(accum) ELSE offered
           /\ accum' = IF fits
                       THEN Append(packed, [first |-> combined[1], size |-> size])
                       ELSE packed
           /\ accumSize' = IF fits THEN bytes + size ELSE bytes
    /\ produced' = IF size > 0 THEN produced + 1 ELSE produced
    /\ input' = SubSeq(combined, 1, FrameLength)
    /\ combined' = SubSeq(combined, FrameLength + 1, Len(combined))
    /\ timestamp' = timestamp + FrameLength
    /\ UNCHANGED <<cfgVars, phase, linkVars, taken, fed, residual, firstTs>>

\* One turn of the while loop: encode, send what is packed when the new frame
\* would exceed the MTU, pack the new frame if it fits in the array.
EncodeFrame(size) ==
    /\ phase = "encoding"
    /\ Len(combined) >= FrameLength
    /\ LET frame == [first |-> combined[1], size |-> size]
           full == size > 0 /\ accumSize + size > MaxRaw /\ accum # <<>>
           packed == IF full THEN <<>> ELSE accum
           bytes == IF full THEN 0 ELSE accumSize
           fits == size > 0 /\ bytes + size <= AccumBytes
       IN  /\ packet' = IF full THEN [ts |-> firstTs, frames |-> accum] ELSE packet
           /\ offered' = IF full THEN offered + Len(accum) ELSE offered
           /\ firstTs' = IF full THEN timestamp ELSE firstTs
           /\ accum' = IF fits THEN Append(packed, frame) ELSE packed
           /\ accumSize' = IF fits THEN bytes + size ELSE bytes
    /\ produced' = IF size > 0 THEN produced + 1 ELSE produced
    /\ input' = SubSeq(combined, 1, FrameLength)
    /\ combined' = SubSeq(combined, FrameLength + 1, Len(combined))
    /\ timestamp' = timestamp + FrameLength
    /\ UNCHANGED <<cfgVars, phase, linkVars, taken, fed, residual>>

\* Seeded fault: PCM that does not fill a codec frame is dropped.
FinishBlockDropping ==
    /\ phase = "encoding"
    /\ Len(combined) < FrameLength
    /\ phase' = "idle"
    /\ packet' = IF accum # <<>> THEN [ts |-> firstTs, frames |-> accum] ELSE packet
    /\ offered' = offered + Len(accum)
    /\ accum' = <<>> /\ accumSize' = 0
    /\ residual' = <<>>
    /\ combined' = <<>>
    /\ base' = IF raced THEN fed - timestamp ELSE base
    /\ input' = IF raced THEN <<>> ELSE input
    /\ raced' = FALSE
    /\ UNCHANGED <<cfgVars, encoderSet, transportSet, taken, fed, timestamp,
                   firstTs, produced>>

\* Seeded fault: what was packed last is not sent.
FinishBlockUnsent ==
    /\ phase = "encoding"
    /\ Len(combined) < FrameLength
    /\ phase' = "idle"
    /\ accum' = <<>> /\ accumSize' = 0
    /\ residual' \in IF raced THEN {combined, <<>>} ELSE {combined}
    /\ combined' = <<>>
    /\ base' = IF raced THEN fed - timestamp - Len(residual') ELSE base
    /\ input' = IF raced THEN <<>> ELSE input
    /\ raced' = (raced /\ ~InSequence(residual'))
    /\ UNCHANGED <<cfgVars, encoderSet, transportSet, taken, fed, timestamp,
                   firstTs, packet, produced, offered>>

\* The rest is sent, and PCM that does not fill a codec frame is kept, unless
\* the worker's clear() comes after it.
FinishBlock ==
    /\ phase = "encoding"
    /\ Len(combined) < FrameLength
    /\ phase' = "idle"
    /\ packet' = IF accum # <<>> THEN [ts |-> firstTs, frames |-> accum] ELSE packet
    /\ offered' = offered + Len(accum)
    /\ accum' = <<>> /\ accumSize' = 0
    /\ residual' \in IF raced THEN {combined, <<>>} ELSE {combined}
    /\ combined' = <<>>
    /\ base' = IF raced THEN fed - timestamp - Len(residual') ELSE base
    /\ input' = IF raced THEN <<>> ELSE input
    /\ raced' = (raced /\ ~InSequence(residual'))
    /\ UNCHANGED <<cfgVars, encoderSet, transportSet, taken, fed, timestamp,
                   firstTs, produced>>

-----------------------------------------------------------------------------
(* The streaming worker, on a link loss and after a reconnect.             *)

WorkerLosesLink ==
    /\ transportSet
    /\ transportSet' = FALSE
    /\ encoderSet' = FALSE
    /\ UNCHANGED <<cfgVars, phase, base, taken, fed, residual, combined, input,
                   timestamp, packVars, raced>>

\* At least three seconds later timestamp and residual start again, and the
\* encoder is given back.  Nothing waits for the encode thread, which may
\* still be in an encode call of up to five seconds: its unsynchronised +=
\* may then undo the reset, and its block is stamped as it happens to be.
WorkerRestarts ==
    /\ ~encoderSet
    /\ encoderSet' = TRUE
    /\ timestamp' \in IF phase = "encoding" /\ Len(combined) >= FrameLength
                      THEN {0, timestamp} ELSE {0}
    /\ residual' = <<>>
    /\ base' = IF timestamp' = 0 THEN fed - Len(combined) ELSE base
    /\ input' = <<>>
    /\ packet' = NoPacket
    /\ raced' = (phase = "encoding" \/ (phase = "combined" /\ raced))
    /\ UNCHANGED <<cfgVars, phase, transportSet, taken, fed, combined, accum,
                   accumSize, firstTs, produced, offered>>

\* The transport is given back after the encoder.
WorkerResumes ==
    /\ encoderSet /\ ~transportSet
    /\ transportSet' = TRUE
    /\ UNCHANGED <<cfgVars, phase, encoderSet, base, taken, fed, residual,
                   combined, input, timestamp, packVars, raced>>

Next ==
    \/ \E n \in 1 .. MaxAvail : EncodeThreadReads(n) \/ CallbackReads(n)
    \/ LoadTransport
    \/ \E size \in OutSizes : EncodeFrame(size)
    \/ FinishBlock
    \/ WorkerLosesLink
    \/ WorkerRestarts
    \/ WorkerResumes

Spec == Init /\ [][Next]_vars

-----------------------------------------------------------------------------
Frames == [first : Nat, size : Nat]

TypeOK ==
    /\ cli \in BOOLEAN /\ upsample \in BOOLEAN
    /\ phase \in {"idle", "combined", "encoding"}
    /\ encoderSet \in BOOLEAN /\ transportSet \in BOOLEAN
    /\ base \in Nat
    /\ taken \in 0 .. MaxTaken
    /\ fed \in Nat
    /\ residual \in Seq(Nat) /\ Len(residual) < FrameLength
    /\ combined \in Seq(Nat)
    /\ input \in Seq(Nat)
    /\ timestamp \in Nat
    /\ accum \in Seq(Frames)
    /\ accumSize \in Nat
    /\ firstTs \in Nat
    /\ packet \in [ts : Nat, frames : Seq(Frames)]
    /\ produced \in Nat
    /\ offered \in Nat
    /\ raced \in BOOLEAN

\* From the start of the stream or of a reconnect on, the encoder sees every
\* PCM frame once and in order, across blocks of any length and although a
\* block may be dropped while the link is down: without the residual "leftover
\* samples are lost each callback" (main.cpp).  A reconnect that overtakes the
\* encode thread, which the code does not prevent, costs at most the block in
\* hand and what is left over of it: the one after that is in order again.
InputInOrder ==
    /\ TypeOK
    /\ input # <<>> /\ ~raced =>
          input = Block(base + timestamp - FrameLength, FrameLength)

\* No encoded frame is left behind: each one is in a packet that was offered
\* to send_media or is still packed for the next one ("ensures all encoded
\* data is sent", main.cpp).
EveryFrameOffered == produced = offered + Len(accum)

\* The bytes of a packet's frames.
Size(frames) ==
    LET sum[i \in 0 .. Len(frames)] ==
            IF i = 0 THEN 0 ELSE sum[i - 1] + frames[i].size
    IN  sum[Len(frames)]

\* A packet can be sent and read: it respects the media MTU, only a single
\* encoded frame longer than the MTU going out oversized, and the four bits
\* of the SBC payload header count its frames, although the service's loop
\* packs as many as a block happens to yield (SBC is never upsampled).
PacketWellFormed ==
    /\ Size(packet.frames) <= MaxRaw \/ Len(packet.frames) = 1
    /\ ~cli /\ ~upsample => Len(packet.frames) <= HeaderFrames

\* RTP timestamps are a sample count that never runs backwards and never
\* overlaps: a packet is stamped at or before its first PCM frame, and at or
\* after the end of the last one of the packet before, also when encode calls
\* in between failed.  Only the packets of a block that a reconnect overtook
\* may be stamped otherwise, whether the reset of the timestamp is lost or not.
StampedInOrder ==
    [][packet' # packet /\ packet' # NoPacket /\ ~raced =>
        /\ base + packet'.ts < packet'.frames[1].first
        /\ packet.frames # <<>> =>
            base + packet'.ts >= Last(packet.frames).first + FrameLength - 1]_vars

=============================================================================
