------------------------------- MODULE PcmRing -------------------------------
(***************************************************************************)
(* The lock-free ring between the WASAPI capture callback (producer), the  *)
(* encode thread (consumer) and the streaming worker, which empties the    *)
(* ring after a reconnect: PcmRingBuffer, service_audio_callback, the ring *)
(* part of encode_thread_func and the reconnect branch of                  *)
(* streaming_thread_func_inner (app/src/a2dp_service.cpp).                 *)
(*                                                                         *)
(* The unit is the byte, as in the code: the capacity is a power of two    *)
(* and need not hold a whole number of interleaved PCM frames (24-bit      *)
(* stereo, 5.1), so a frame may straddle the end of the array.  head and   *)
(* tail are free-running unsigned words; Word stands for 2^32.  A byte is  *)
(* represented by its capture number (the first one captured is 1).        *)
(***************************************************************************)
EXTENDS Naturals, Sequences

CONSTANTS
    Capacity,       \* bytes the ring holds
    FrameBytes,     \* channels * (bits_per_sample / 8)
    Word,           \* size of the counter type, a multiple of Capacity
    MaxCallback,    \* frames one capture callback delivers at most
    MaxChunk,       \* frames the encode thread takes at a time (~10 ms)
    MaxCaptured,    \* bound on the bytes captured in a behaviour
    MaxDropped,     \* bound on the dropped callbacks counted in a behaviour
    FlushQuiesces   \* TRUE: by the time a reconnect has succeeded (3 s sleep
                    \* and a connection set-up) the encode thread has finished
                    \* the ring access it was in when the link was lost

ASSUME RingAssumption ==
    /\ Capacity \in Nat \ {0}
    /\ FrameBytes \in Nat \ {0}
    /\ Word \in Nat
    /\ Capacity < Word
    /\ Word % Capacity = 0
    /\ MaxCallback \in Nat \ {0}
    /\ MaxChunk \in Nat \ {0}
    /\ MaxCaptured \in Nat
    /\ MaxDropped \in Nat
    /\ FlushQuiesces \in BOOLEAN

VARIABLES
    slots,          \* PcmRingBuffer::data
    head, tail,     \* PcmRingBuffer::head, tail
    capture,        \* where service_audio_callback is: idle, copying
    capLen,         \* bytes the callback is writing
    encode,         \* where encode_thread_func is: idle, sized, copied
    encLen,         \* bytes it is about to read
    encTail,        \* the tail that PcmRingBuffer::read loaded
    readBuf,        \* read_buf
    encoderSet,     \* g_ctx.encoder is not null
    worker,         \* streaming worker: loop, reconnecting, flushing
    flushHead,      \* the head the flush loaded
    captured,       \* bytes accepted so far
    dropped,        \* ring_overflow_count
    delivered       \* the block last handed to conversion and encoding

ringVars == <<slots, head, tail>>
captureVars == <<capture, capLen, captured, dropped>>
encodeVars == <<encode, encLen, encTail, readBuf, delivered>>
workerVars == <<encoderSet, worker, flushHead>>
vars == <<ringVars, captureVars, encodeVars, workerVars>>

Indices == 0 .. Capacity - 1
Words == 0 .. Word - 1

\* Seeded fault: counters that do not wrap with their type.
WAddUnwrapped(a, n) == a + n

\* Unsigned addition and subtraction of the counter type.
WAdd(a, n) == IF a + n >= Word THEN (a + n) - Word ELSE a + n
WSub(a, b) == IF a >= b THEN a - b ELSE (a + Word) - b

AvailableRead == WSub(head, tail)
\* Seeded fault: one byte more than is free.
AvailableWriteOffByOne == WSub(Capacity + 1, WSub(head, tail))

AvailableWrite == WSub(Capacity, WSub(head, tail))

Smaller(a, b) == IF a <= b THEN a ELSE b

\* The part of n bytes that is whole PCM frames.
WholeFrames(n) == n - (n % FrameBytes)

\* The n bytes that start at counter value t, read with the index mask.
Contents(t, n) == [i \in 1 .. n |-> slots[((t + i) - 1) % Capacity]]

Init ==
    /\ slots = [i \in Indices |-> 0]
    /\ head = 0
    /\ tail = 0
    /\ capture = "idle"
    /\ capLen = 0
    /\ encode = "idle"
    /\ encLen = 0
    /\ encTail = 0
    /\ readBuf = <<>>
    /\ encoderSet = TRUE
    /\ worker = "loop"
    /\ flushHead = 0
    /\ captured = 0
    /\ dropped = 0
    /\ delivered = <<>>

-----------------------------------------------------------------------------
(* service_audio_callback, on the WASAPI capture thread.                   *)

\* available_write() does not hold the block: the whole callback is dropped.
CaptureDrops(n) ==
    /\ capture = "idle"
    /\ AvailableWrite < n
    /\ dropped < MaxDropped
    /\ dropped' = dropped + 1
    /\ UNCHANGED <<ringVars, capture, capLen, captured, encodeVars, workerVars>>

CaptureCopies(n) ==
    /\ capture = "idle"
    /\ AvailableWrite >= n
    /\ captured + n <= MaxCaptured
    /\ capture' = "copying"
    /\ capLen' = n
    /\ UNCHANGED <<ringVars, captured, dropped, encodeVars, workerVars>>

\* PcmRingBuffer::write: the copy, split at the end of the array, and the
\* release store of head.
CapturePublishes ==
    /\ capture = "copying"
    /\ slots' = [i \in Indices |->
                    LET k == ((i + Capacity) - (head % Capacity)) % Capacity
                    IN  IF k < capLen THEN captured + 1 + k ELSE slots[i]]
    /\ head' = WAdd(head, capLen)
    /\ captured' = captured + capLen
    /\ capture' = "idle"
    /\ capLen' = 0
    /\ UNCHANGED <<tail, dropped, encodeVars, workerVars>>

-----------------------------------------------------------------------------
(* The inner drain loop of encode_thread_func.                             *)

\* Seeded fault: the chunk is capped in bytes instead of frames.
EncodeSizesInBytes ==
    /\ encode = "idle"
    /\ encoderSet
    /\ WholeFrames(AvailableRead) > 0
    /\ encode' = "sized"
    /\ encLen' = Smaller(WholeFrames(AvailableRead), MaxChunk)
    /\ UNCHANGED <<ringVars, captureVars, encTail, readBuf, delivered, workerVars>>

\* Seeded fault: the last frame is left until another one arrives.
EncodeSizesKeepsOne ==
    /\ encode = "idle"
    /\ encoderSet
    /\ WholeFrames(AvailableRead) > FrameBytes
    /\ encode' = "sized"
    /\ encLen' = Smaller(WholeFrames(AvailableRead), MaxChunk * FrameBytes)
    /\ UNCHANGED <<ringVars, captureVars, encTail, readBuf, delivered, workerVars>>

\* encoder loaded and not null, at least one frame available, chunk capped.
EncodeSizes ==
    /\ encode = "idle"
    /\ encoderSet
    /\ WholeFrames(AvailableRead) > 0
    /\ encode' = "sized"
    /\ encLen' = Smaller(WholeFrames(AvailableRead), MaxChunk * FrameBytes)
    /\ UNCHANGED <<ringVars, captureVars, encTail, readBuf, delivered, workerVars>>

\* PcmRingBuffer::read: load tail, copy out ...
EncodeCopies ==
    /\ encode = "sized"
    /\ encode' = "copied"
    /\ encTail' = tail
    /\ readBuf' = Contents(tail, encLen)
    /\ UNCHANGED <<ringVars, captureVars, encLen, delivered, workerVars>>

\* Seeded fault: the block is handed on and tail is not stored.
EncodeAdvancesNot ==
    /\ encode = "copied"
    /\ encode' = "idle"
    /\ delivered' = readBuf
    /\ readBuf' = <<>>
    /\ encLen' = 0
    /\ UNCHANGED <<ringVars, captureVars, encTail, workerVars>>

\* ... and store tail; the block goes on to conversion and encoding.
EncodeAdvances ==
    /\ encode = "copied"
    /\ encode' = "idle"
    /\ tail' = WAdd(encTail, encLen)
    /\ delivered' = readBuf
    /\ readBuf' = <<>>
    /\ encLen' = 0
    /\ UNCHANGED <<slots, head, captureVars, encTail, workerVars>>

-----------------------------------------------------------------------------
(* The reconnect branch of the streaming worker.                           *)

\* check_disconnected(): the encoder is taken away from the encode thread.
WorkerLosesLink ==
    /\ worker = "loop"
    /\ worker' = "reconnecting"
    /\ encoderSet' = FALSE
    /\ UNCHANGED <<ringVars, captureVars, encodeVars, flushHead>>

\* reconnect() succeeded: load head ...
WorkerFlushLoads ==
    /\ worker = "reconnecting"
    /\ FlushQuiesces => encode = "idle"
    /\ worker' = "flushing"
    /\ flushHead' = head
    /\ UNCHANGED <<ringVars, captureVars, encodeVars, encoderSet>>

\* ... store it in tail, and give the encoder back.
WorkerFlushStores ==
    /\ worker = "flushing"
    /\ worker' = "loop"
    /\ tail' = flushHead
    /\ encoderSet' = TRUE
    /\ UNCHANGED <<slots, head, captureVars, encodeVars, flushHead>>

-----------------------------------------------------------------------------
Capture == \/ \E n \in 1 .. MaxCallback : \/ CaptureDrops(n * FrameBytes)
                                          \/ CaptureCopies(n * FrameBytes)
           \/ CapturePublishes
Encode == EncodeSizes \/ EncodeCopies \/ EncodeAdvances
Worker == WorkerLosesLink \/ WorkerFlushLoads \/ WorkerFlushStores

Next == Capture \/ Encode \/ Worker

Spec == Init /\ [][Next]_vars

\* Every thread that is in the middle of something goes on: the callback and
\* the encode thread never block inside the ring (the drain loop polls with a
\* 10 ms timeout, so no event can be missed).  A reconnect is not promised to
\* succeed.
Fairness ==
    /\ WF_vars(CapturePublishes)
    /\ WF_vars(Encode)
    /\ WF_vars(WorkerFlushStores)

FairSpec == Spec /\ Fairness

-----------------------------------------------------------------------------
TypeOK ==
    /\ slots \in [Indices -> Nat]
    /\ head \in Words
    /\ tail \in Words
    /\ capture \in {"idle", "copying"}
    /\ capLen \in Nat
    /\ encode \in {"idle", "sized", "copied"}
    /\ encLen \in Nat
    /\ encTail \in Words
    /\ readBuf \in Seq(Nat)
    /\ encoderSet \in BOOLEAN
    /\ worker \in {"loop", "reconnecting", "flushing"}
    /\ flushHead \in Words
    /\ captured \in Nat
    /\ dropped \in Nat
    /\ delivered \in Seq(Nat)

\* The producer and the consumer work on disjoint parts of the ring: what is
\* buffered, together with the block the callback is writing, fits in the
\* array, and the block the encode thread reads is part of what is buffered.
\* This is what makes the unlocked memcpy of write() and read() safe across
\* the wrap of the 32-bit counters.
NoOverrun ==
    /\ AvailableRead + capLen <= Capacity
    /\ encode # "idle" => encLen <= AvailableRead

\* The strengthening that is inductive: the consumer's copy of tail is still
\* current when it stores it back, the head the flush loaded is one the
\* counters have passed through, and nobody reads while a flush is under way.
IInv ==
    /\ TypeOK
    /\ NoOverrun
    /\ capture = "idle" => capLen = 0
    /\ encode = "idle" => encLen = 0
    /\ encode = "copied" => encTail = tail
    /\ worker = "flushing" => /\ encode = "idle"
                              /\ WSub(flushHead, tail) <= AvailableRead
                              /\ ~encoderSet
    /\ worker = "reconnecting" => ~encoderSet

\* Frames in the ring, oldest first, are the refinement of the abstract queue.
Fifo == INSTANCE PcmFifo WITH
    accepted <- captured,
    buffered <- Contents(tail, AvailableRead)

\* The ring implements the bounded FIFO: once a callback was accepted its
\* frames reach the encoder in order, once, unless a reconnect discards them.
FifoSpec == Fifo!Spec

\* What is buffered, and what the encode thread takes, is always a whole
\* number of frames, across wraps of the array and of the counters and across
\* flushes: the encoder never sees samples shifted by part of a frame.
FramesAligned ==
    /\ AvailableRead % FrameBytes = 0
    /\ encLen % FrameBytes = 0

\* No accepted byte is stuck in the ring: while the encode thread keeps its
\* encoder, every byte captured is eventually consumed (or a link loss takes
\* the encoder away).  The wait on data_event is bounded by 10 ms, so this
\* must not depend on the event being signalled.
Drained ==
    \A k \in 1 .. MaxCaptured :
        (captured >= k) ~> (captured - AvailableRead >= k \/ ~encoderSet)

=============================================================================
