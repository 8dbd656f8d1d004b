---------------------------- MODULE PcmRingProofs ----------------------------
(***************************************************************************)
(* Proofs about PcmRing for every capacity, frame size, counter width and  *)
(* bound: the producer and the consumer never touch the same bytes, what   *)
(* is buffered is whole PCM frames, and the ring implements the bounded    *)
(* FIFO of PcmFifo.                                                        *)
(***************************************************************************)
EXTENDS PcmRing, Integers, SequenceTheorems, TLAPS

-----------------------------------------------------------------------------
(* Arithmetic of the free-running counters.                                *)

\* h - t as computed by available_read() and available_write() is a word.
LEMMA WSubType ==
    \A a, b \in Words : WSub(a, b) \in Words
BY RingAssumption DEF Words, WSub

\* Advancing a counter by at most the capacity stays within the word.
LEMMA WAddType ==
    \A a \in Words, n \in 0 .. Capacity : WAdd(a, n) \in Words
BY RingAssumption DEF Words, WAdd

\* write(): advancing head by n makes n more bytes readable, across the wrap.
LEMMA AdvanceHead ==
    \A h, t \in Words, n \in 0 .. Capacity :
        WSub(h, t) + n <= Capacity => WSub(WAdd(h, n), t) = WSub(h, t) + n
BY RingAssumption DEF Words, WAdd, WSub

\* read(): advancing tail by n makes n fewer bytes readable, across the wrap.
LEMMA AdvanceTail ==
    \A h, t \in Words, n \in 0 .. Capacity :
        n <= WSub(h, t) => WSub(h, WAdd(t, n)) = WSub(h, t) - n
BY RingAssumption DEF Words, WAdd, WSub

\* The flush: moving tail up to a head that was seen earlier.
LEMMA MoveTail ==
    \A h, t, f \in Words :
        WSub(f, t) <= WSub(h, t) => WSub(h, f) = WSub(h, t) - WSub(f, t)
BY RingAssumption DEF Words, WSub

\* A counter is at distance zero from itself.
LEMMA WSubSelf ==
    \A a \in Words : WSub(a, a) = 0
BY RingAssumption DEF Words, WSub

\* Rounding down to whole frames gives at most what is available.
LEMMA WholeFramesBound ==
    \A n \in Nat : WholeFrames(n) \in 0 .. n
<1> SUFFICES ASSUME NEW n \in Nat PROVE WholeFrames(n) \in 0 .. n
  OBVIOUS
<1>1. FrameBytes \in Nat /\ FrameBytes > 0
  BY RingAssumption
<1>2. n % FrameBytes \in 0 .. n
  BY <1>1
<1> QED
  BY <1>2 DEF WholeFrames

-----------------------------------------------------------------------------
(* The invariant.                                                          *)

\* What a block copied out of the ring is.
LEMMA ContentsType ==
    ASSUME slots \in [Indices -> Nat], NEW t \in Words, NEW n \in Nat
    PROVE  Contents(t, n) \in Seq(Nat)
<1>1. \A i \in 1 .. n : ((t + i) - 1) % Capacity \in Indices
  BY RingAssumption DEF Indices, Words
<1>2. \A i \in 1 .. n : slots[((t + i) - 1) % Capacity] \in Nat
  BY <1>1
<1> QED
  BY <1>2 DEF Contents

\* The counters start equal and every thread starts outside the ring.
LEMMA InitIInv == Init => IInv
<1> SUFFICES ASSUME Init PROVE IInv
  OBVIOUS
<1>1. TypeOK
  BY RingAssumption DEF Init, TypeOK, Words, Indices
<1>2. AvailableRead = 0
  BY RingAssumption DEF Init, AvailableRead, WSub
<1> QED
  BY <1>1, <1>2, RingAssumption DEF Init, IInv, NoOverrun

\* Every step of the callback, the encode thread and the worker keeps the
\* inductive invariant, provided the encode thread has left read() by the
\* time a reconnect empties the ring.
LEMMA NextIInv ==
    ASSUME FlushQuiesces, IInv, [Next]_vars
    PROVE  IInv'
<1> USE RingAssumption
<1> USE DEF IInv, TypeOK, NoOverrun, AvailableRead
<1>0. WSub(head, tail) \in Words
  BY WSubType
<1>w. WSub(Capacity, WSub(head, tail)) = Capacity - WSub(head, tail)
  BY <1>0 DEF WSub, Words
<1>1. ASSUME NEW n \in 1 .. MaxCallback, CaptureDrops(n * FrameBytes)
      PROVE  IInv'
  BY <1>1 DEF CaptureDrops, ringVars, encodeVars, workerVars
<1>2. ASSUME NEW n \in 1 .. MaxCallback, CaptureCopies(n * FrameBytes)
      PROVE  IInv'
  <2>1. n * FrameBytes \in Nat
    OBVIOUS
  <2>2. WSub(head, tail) + n * FrameBytes <= Capacity
    BY <1>0, <1>w, <1>2, <2>1 DEF CaptureCopies, AvailableWrite, Words
  <2> QED
    BY <1>2, <2>1, <2>2 DEF CaptureCopies, ringVars, encodeVars, workerVars
<1>3. CASE CapturePublishes
  <2>1. capLen \in 0 .. Capacity
    BY <1>0 DEF Words
  <2>2. WSub(head', tail) = WSub(head, tail) + capLen
    BY <1>3, <2>1, AdvanceHead DEF CapturePublishes
  <2>3. head' \in Words
    BY <1>3, <2>1, WAddType DEF CapturePublishes
  <2>4. slots' \in [Indices -> Nat]
    <3>1. \A i \in Indices : ((i + Capacity) - (head % Capacity)) % Capacity \in Nat
      BY DEF Indices, Words
    <3> QED
      BY <1>3, <3>1 DEF CapturePublishes
  <2>5. worker = "flushing" => WSub(flushHead, tail) \in Words
    BY WSubType
  <2> QED
    BY <1>0, <1>3, <2>2, <2>3, <2>4, <2>5
    DEF CapturePublishes, encodeVars, workerVars, Words
<1>4. CASE EncodeSizes
  <2>1. WholeFrames(WSub(head, tail)) \in 0 .. WSub(head, tail)
    BY <1>0, WholeFramesBound DEF Words
  <2>2. MaxChunk * FrameBytes \in Nat
    OBVIOUS
  <2>3. encLen' \in 0 .. WSub(head, tail)
    BY <1>0, <1>4, <2>1, <2>2 DEF EncodeSizes, Smaller, Words
  <2> QED
    BY <1>0, <1>4, <2>3 DEF EncodeSizes, ringVars, captureVars, workerVars, Words
<1>5. CASE EncodeCopies
  <2>1. readBuf' \in Seq(Nat)
    BY <1>5, ContentsType DEF EncodeCopies
  <2> QED
    BY <1>5, <2>1 DEF EncodeCopies, ringVars, captureVars, workerVars
<1>6. CASE EncodeAdvances
  <2>1. encLen \in 0 .. Capacity /\ encLen <= WSub(head, tail)
    BY <1>0, <1>6 DEF EncodeAdvances, Words
  <2>2. tail' = WAdd(tail, encLen)
    BY <1>6 DEF EncodeAdvances
  <2>3. tail' \in Words
    BY <2>1, <2>2, WAddType
  <2>4. WSub(head, tail') = WSub(head, tail) - encLen
    BY <2>1, <2>2, AdvanceTail
  <2> QED
    BY <1>0, <1>6, <2>1, <2>3, <2>4
    DEF EncodeAdvances, captureVars, workerVars, Words
<1>7. CASE WorkerLosesLink
  BY <1>7 DEF WorkerLosesLink, ringVars, captureVars, encodeVars
<1>8. CASE WorkerFlushLoads
  BY <1>0, <1>8 DEF WorkerFlushLoads, ringVars, captureVars, encodeVars, Words
<1>9. CASE WorkerFlushStores
  <2>1. WSub(flushHead, tail) \in Words
    BY WSubType
  <2>2. WSub(head, flushHead) = WSub(head, tail) - WSub(flushHead, tail)
    BY <1>9, MoveTail DEF WorkerFlushStores
  <2> QED
    BY <1>0, <1>9, <2>1, <2>2
    DEF WorkerFlushStores, captureVars, encodeVars, Words
<1>10. CASE UNCHANGED vars
  BY <1>10 DEF vars, ringVars, captureVars, encodeVars, workerVars
<1> QED
  BY <1>1, <1>2, <1>3, <1>4, <1>5, <1>6, <1>7, <1>8, <1>9, <1>10
  DEF Next, Capture, Encode, Worker

\* The unlocked copies of write() and read() never overlap, for every ring
\* size, frame size and counter width, as long as a reconnect's flush finds
\* the encode thread outside read().
THEOREM RingNeverOverruns ==
    ASSUME FlushQuiesces PROVE Spec => []NoOverrun
<1>1. Init => IInv
  BY InitIInv
<1>2. IInv /\ [Next]_vars => IInv'
  BY NextIInv
<1>3. IInv => NoOverrun
  BY DEF IInv
<1> QED
  BY <1>1, <1>2, <1>3, PTL DEF Spec

-----------------------------------------------------------------------------
(* Types, without any assumption about the flush.                          *)

\* A counter that wraps once stays a counter as long as the block it moves by
\* is shorter than the counter's range.
TInv ==
    /\ TypeOK
    /\ capLen \in Words
    /\ encLen \in Words

\* A counter advanced by less than its range is again a counter value.
LEMMA WAddWords ==
    \A a, n \in Words : WAdd(a, n) \in Words
BY RingAssumption DEF Words, WAdd

\* Every step keeps the types, also a flush that finds the encode thread in
\* the middle of read().
LEMMA NextTInv ==
    ASSUME TInv, [Next]_vars
    PROVE  TInv'
<1> USE RingAssumption
<1> USE DEF TInv, TypeOK
<1>0. AvailableRead \in Words /\ AvailableWrite \in Words
  <2>1. Capacity \in Words
    BY DEF Words
  <2> QED
    BY <2>1, WSubType DEF AvailableRead, AvailableWrite
<1>1. ASSUME NEW n \in 1 .. MaxCallback, CaptureDrops(n * FrameBytes)
      PROVE  TInv'
  BY <1>1 DEF CaptureDrops, ringVars, encodeVars, workerVars
<1>2. ASSUME NEW n \in 1 .. MaxCallback, CaptureCopies(n * FrameBytes)
      PROVE  TInv'
  <2>1. n * FrameBytes \in Nat
    OBVIOUS
  <2>2. n * FrameBytes \in Words
    BY <1>0, <1>2, <2>1 DEF CaptureCopies, Words
  <2> QED
    BY <1>2, <2>1, <2>2 DEF CaptureCopies, ringVars, encodeVars, workerVars
<1>3. CASE CapturePublishes
  <2>1. head' \in Words
    BY <1>3, WAddWords DEF CapturePublishes
  <2>2. slots' \in [Indices -> Nat]
    <3>1. \A i \in Indices : ((i + Capacity) - (head % Capacity)) % Capacity \in Nat
      BY DEF Indices, Words
    <3> QED
      BY <1>3, <3>1 DEF CapturePublishes
  <2> QED
    BY <1>3, <2>1, <2>2 DEF CapturePublishes, encodeVars, workerVars, Words
<1>4. CASE EncodeSizes
  <2>1. WholeFrames(AvailableRead) \in 0 .. AvailableRead
    BY <1>0, WholeFramesBound DEF Words
  <2>2. MaxChunk * FrameBytes \in Nat
    OBVIOUS
  <2>3. encLen' \in Words
    BY <1>0, <1>4, <2>1, <2>2 DEF EncodeSizes, Smaller, Words
  <2> QED
    BY <1>4, <2>3 DEF EncodeSizes, ringVars, captureVars, workerVars, Words
<1>5. CASE EncodeCopies
  <2>1. readBuf' \in Seq(Nat)
    BY <1>5, ContentsType DEF EncodeCopies
  <2> QED
    BY <1>5, <2>1 DEF EncodeCopies, ringVars, captureVars, workerVars
<1>6. CASE EncodeAdvances
  <2>1. tail' \in Words
    BY <1>6, WAddWords DEF EncodeAdvances
  <2> QED
    BY <1>6, <2>1 DEF EncodeAdvances, captureVars, workerVars, Words
<1>7. CASE Worker
  BY <1>7 DEF Worker, WorkerLosesLink, WorkerFlushLoads, WorkerFlushStores,
     ringVars, captureVars, encodeVars
<1>8. CASE UNCHANGED vars
  BY <1>8 DEF vars, ringVars, captureVars, encodeVars, workerVars
<1> QED
  BY <1>1, <1>2, <1>3, <1>4, <1>5, <1>6, <1>7, <1>8 DEF Next, Capture, Encode

\* Indices, counters, buffers and thread positions stay in their types, in
\* every interleaving of the callback, the encode thread and the flush.
THEOREM RingTypeCorrect == Spec => []TypeOK
<1>1. Init => TInv
  BY InitIInv, RingAssumption DEF IInv, TInv, Init, Words
<1>2. TInv /\ [Next]_vars => TInv'
  BY NextTInv
<1>3. TInv => TypeOK
  BY DEF TInv
<1> QED
  BY <1>1, <1>2, <1>3, PTL DEF Spec

-----------------------------------------------------------------------------
(* Remainders with a symbolic divisor.                                     *)

\* Division with remainder.
LEMMA ModSplit ==
    ASSUME NEW m \in Nat \ {0}, NEW a \in Int
    PROVE  \E q \in Int : a = q * m + (a % m) /\ a % m \in 0 .. m - 1
<1>1. a \div m \in Int /\ a = (a \div m) * m + (a % m) /\ a % m \in 0 .. m - 1
  OBVIOUS
<1> QED
  BY <1>1

\* The remainder is the only number below the divisor with that property.
LEMMA ModUnique ==
    ASSUME NEW m \in Nat \ {0}, NEW a \in Int, NEW q \in Int,
           NEW r \in 0 .. m - 1, a = q * m + r
    PROVE  a % m = r
<1>1. PICK p \in Int : a = p * m + (a % m) /\ a % m \in 0 .. m - 1
  BY ModSplit
<1>2. (q - p) * m = (a % m) - r
  BY <1>1
<1>3. CASE q - p >= 1
  <2>1. (q - p) * m >= m
    BY <1>3
  <2> QED
    BY <1>1, <1>2, <2>1
<1>4. CASE q - p <= -1
  <2>1. (q - p) * m <= -m
    BY <1>4
  <2> QED
    BY <1>1, <1>2, <2>1
<1>5. CASE q = p
  BY <1>1, <1>2, <1>5
<1> QED
  BY <1>3, <1>4, <1>5

\* Multiples of the divisor do not change the remainder.
LEMMA ModShift ==
    ASSUME NEW m \in Nat \ {0}, NEW a \in Int, NEW k \in Int
    PROVE  (a + k * m) % m = a % m
<1>1. PICK q \in Int : a = q * m + (a % m) /\ a % m \in 0 .. m - 1
  BY ModSplit
<1>2. a + k * m = (q + k) * m + (a % m)
  BY <1>1
<1>3. a + k * m \in Int /\ q + k \in Int
  OBVIOUS
<1> QED
  BY <1>1, <1>2, <1>3, ModUnique

\* Sums and differences of multiples are multiples.
LEMMA ModZeroSum ==
    ASSUME NEW m \in Nat \ {0}, NEW a \in Int, NEW b \in Int,
           a % m = 0, b % m = 0
    PROVE  (a + b) % m = 0 /\ (a - b) % m = 0
<1>1. PICK p \in Int : a = p * m + (a % m)
  BY ModSplit
<1>2. PICK q \in Int : b = q * m + (b % m)
  BY ModSplit
<1>3. a + b = (p + q) * m + 0 /\ a - b = (p - q) * m + 0
  BY <1>1, <1>2
<1>4. 0 \in 0 .. m - 1 /\ a + b \in Int /\ a - b \in Int
         /\ p + q \in Int /\ p - q \in Int
  OBVIOUS
<1> QED
  BY <1>3, <1>4, ModUnique

\* A multiple of the divisor leaves nothing.
LEMMA ModZeroTimes ==
    ASSUME NEW m \in Nat \ {0}, NEW k \in Int
    PROVE  (k * m) % m = 0
<1>1. k * m = k * m + 0 /\ 0 \in 0 .. m - 1 /\ k * m \in Int
  OBVIOUS
<1> QED
  BY <1>1, ModUnique

-----------------------------------------------------------------------------
(* Whole frames.                                                           *)

\* Rounding down gives whole frames.
LEMMA WholeFramesAligned ==
    ASSUME NEW n \in Nat
    PROVE  WholeFrames(n) % FrameBytes = 0
<1>1. FrameBytes \in Nat \ {0} /\ n \in Int
  BY RingAssumption
<1>2. PICK q \in Int : n = q * FrameBytes + (n % FrameBytes)
                           /\ n % FrameBytes \in 0 .. FrameBytes - 1
  BY <1>1, ModSplit
<1>3. WholeFrames(n) = q * FrameBytes
  BY <1>1, <1>2 DEF WholeFrames
<1> QED
  BY <1>1, <1>3, ModZeroTimes

\* FramesAligned with what the three threads hold while they are between two
\* steps: the block being written, and the distance the flush moves tail by.
AInv ==
    /\ IInv
    /\ FramesAligned
    /\ capLen % FrameBytes = 0
    /\ worker = "flushing" => WSub(flushHead, tail) % FrameBytes = 0

\* Every step keeps frames whole.
LEMMA NextAInv ==
    ASSUME FlushQuiesces, AInv, [Next]_vars
    PROVE  AInv'
<1>0. IInv'
  BY NextIInv DEF AInv
<1> USE RingAssumption
<1> USE DEF AInv, FramesAligned
<1>a. WSub(head, tail) \in Words /\ FrameBytes \in Nat \ {0} /\ capLen \in Nat
        /\ WSub(flushHead, tail) \in Words /\ encLen \in Nat
        /\ head \in Words /\ tail \in Words /\ flushHead \in Words
  BY WSubType DEF IInv, TypeOK
<1>b. 0 % FrameBytes = 0
  BY <1>a, ModZeroTimes
<1>1. ASSUME NEW n \in 1 .. MaxCallback, CaptureDrops(n * FrameBytes)
      PROVE  AInv'
  BY <1>0, <1>1 DEF CaptureDrops, ringVars, encodeVars, workerVars, AvailableRead
<1>2. ASSUME NEW n \in 1 .. MaxCallback, CaptureCopies(n * FrameBytes)
      PROVE  AInv'
  <2>1. (n * FrameBytes) % FrameBytes = 0
    BY <1>a, ModZeroTimes
  <2> QED
    BY <1>0, <1>2, <2>1
    DEF CaptureCopies, ringVars, encodeVars, workerVars, AvailableRead
<1>3. CASE CapturePublishes
  <2>1. capLen \in 0 .. Capacity /\ WSub(head, tail) + capLen <= Capacity
    BY <1>a DEF Words, IInv, NoOverrun, AvailableRead
  <2>2. WSub(head', tail) = WSub(head, tail) + capLen
    BY <1>3, <1>a, <2>1, AdvanceHead DEF CapturePublishes
  <2>3. (WSub(head, tail) + capLen) % FrameBytes = 0
    BY <1>a, ModZeroSum DEF AvailableRead, Words
  <2> QED
    BY <1>0, <1>3, <1>b, <2>2, <2>3
    DEF CapturePublishes, encodeVars, workerVars, AvailableRead
<1>4. CASE EncodeSizes
  <2>1. WholeFrames(WSub(head, tail)) % FrameBytes = 0
    BY <1>a, WholeFramesAligned DEF Words
  <2>2. (MaxChunk * FrameBytes) % FrameBytes = 0
    BY <1>a, ModZeroTimes
  <2>3. encLen' % FrameBytes = 0
    BY <1>4, <2>1, <2>2 DEF EncodeSizes, Smaller, AvailableRead
  <2> QED
    BY <1>0, <1>4, <2>3
    DEF EncodeSizes, ringVars, captureVars, workerVars, AvailableRead
<1>5. CASE EncodeCopies
  BY <1>0, <1>5 DEF EncodeCopies, ringVars, captureVars, workerVars, AvailableRead
<1>6. CASE EncodeAdvances
  <2>1. encLen \in 0 .. Capacity /\ encLen <= WSub(head, tail)
    BY <1>a, <1>6 DEF EncodeAdvances, IInv, NoOverrun, AvailableRead, Words
  <2>2. tail' = WAdd(tail, encLen)
    BY <1>6 DEF EncodeAdvances, IInv
  <2>3. WSub(head, tail') = WSub(head, tail) - encLen
    BY <1>a, <2>1, <2>2, AdvanceTail
  <2>4. (WSub(head, tail) - encLen) % FrameBytes = 0
    BY <1>a, ModZeroSum DEF AvailableRead, Words
  <2>5. worker # "flushing"
    BY <1>6 DEF EncodeAdvances, IInv
  <2> QED
    BY <1>0, <1>6, <1>b, <2>3, <2>4, <2>5
    DEF EncodeAdvances, captureVars, workerVars, AvailableRead
<1>7. CASE WorkerLosesLink
  BY <1>0, <1>7 DEF WorkerLosesLink, ringVars, captureVars, encodeVars, AvailableRead
<1>8. CASE WorkerFlushLoads
  BY <1>0, <1>8 DEF WorkerFlushLoads, ringVars, captureVars, encodeVars, AvailableRead
<1>9. CASE WorkerFlushStores
  <2>1. WSub(head, flushHead) = WSub(head, tail) - WSub(flushHead, tail)
    BY <1>9, <1>a, MoveTail DEF WorkerFlushStores, IInv, AvailableRead
  <2>2. (WSub(head, tail) - WSub(flushHead, tail)) % FrameBytes = 0
    BY <1>9, <1>a, ModZeroSum DEF WorkerFlushStores, AvailableRead, Words
  <2> QED
    BY <1>0, <1>9, <2>1, <2>2
    DEF WorkerFlushStores, captureVars, encodeVars, AvailableRead
<1>10. CASE UNCHANGED vars
  BY <1>0, <1>10 DEF vars, ringVars, captureVars, encodeVars, workerVars, AvailableRead
<1> QED
  BY <1>1, <1>2, <1>3, <1>4, <1>5, <1>6, <1>7, <1>8, <1>9, <1>10
  DEF Next, Capture, Encode, Worker

\* The encoder never sees samples shifted by part of a frame, also where the
\* capacity is no multiple of the frame size and a frame straddles the end of
\* the array, and across the wrap of the counters and flushes.
THEOREM RingKeepsFramesWhole ==
    ASSUME FlushQuiesces PROVE Spec => []FramesAligned
<1>1. Init => AInv
  <2>1. FrameBytes \in Nat \ {0} /\ 0 % FrameBytes = 0
    BY RingAssumption, ModZeroTimes
  <2> QED
    BY <2>1, InitIInv, RingAssumption DEF Init, AInv, FramesAligned, AvailableRead, WSub
<1>2. AInv /\ [Next]_vars => AInv'
  BY NextAInv
<1>3. AInv => FramesAligned
  BY DEF AInv
<1> QED
  BY <1>1, <1>2, <1>3, PTL DEF Spec

-----------------------------------------------------------------------------
(* The index mask: where a byte lies in the array.                         *)

\* Advancing a counter, with or without a wrap of its type, moves the index by
\* the same number of bytes, because Word is a multiple of Capacity.
LEMMA IndexMoves ==
    ASSUME NEW t \in Words, NEW n \in 0 .. Capacity, NEW i \in Nat \ {0}
    PROVE  ((WAdd(t, n) + i) - 1) % Capacity = ((t + (n + i)) - 1) % Capacity
<1> USE RingAssumption
<1>1. PICK w \in Int : Word = w * Capacity
  <2>1. Capacity \in Nat \ {0} /\ Word \in Int /\ Word % Capacity = 0
    OBVIOUS
  <2>2. PICK w \in Int : Word = w * Capacity + (Word % Capacity)
    BY <2>1, ModSplit
  <2> QED
    BY <2>1, <2>2
<1>2. CASE t + n < Word
  BY <1>2 DEF WAdd, Words
<1>3. CASE t + n >= Word
  <2>1. (WAdd(t, n) + i) - 1 = ((t + (n + i)) - 1) - Word
    BY <1>3 DEF WAdd, Words
  <2>2. ((t + (n + i)) - 1) - Word = ((t + (n + i)) - 1) + (-w) * Capacity
    BY <1>1 DEF Words
  <2>3. (t + (n + i)) - 1 \in Int /\ -w \in Int /\ Capacity \in Nat \ {0}
    BY DEF Words
  <2>4. (((t + (n + i)) - 1) + (-w) * Capacity) % Capacity
            = ((t + (n + i)) - 1) % Capacity
    BY <2>3, ModShift
  <2> QED
    BY <2>1, <2>2, <2>4
<1> QED
  BY <1>2, <1>3 DEF Words

\* The offset write() finds for the i-th byte from tail: bytes that are
\* buffered lie at the far end, behind the block being written.
LEMMA WriteOffset ==
    ASSUME NEW h \in Words, NEW t \in Words, WSub(h, t) <= Capacity,
           NEW i \in 1 .. Capacity
    PROVE  LET n == WSub(h, t)
               j == ((t + i) - 1) % Capacity
           IN  /\ j \in Indices
               /\ ((j + Capacity) - (h % Capacity)) % Capacity
                     = IF i > n THEN (i - 1) - n ELSE (Capacity + (i - 1)) - n
<1> USE RingAssumption
<1> DEFINE n == WSub(h, t)
           j == ((t + i) - 1) % Capacity
           r == IF i > n THEN (i - 1) - n ELSE (Capacity + (i - 1)) - n
<1>0. Capacity \in Nat \ {0} /\ (t + i) - 1 \in Int /\ h \in Int /\ Word \in Int
        /\ n \in Nat
  BY WSubType DEF Words
<1>1. PICK p \in Int : (t + i) - 1 = p * Capacity + j /\ j \in 0 .. Capacity - 1
  BY <1>0, ModSplit
<1>2. PICK q \in Int : h = q * Capacity + (h % Capacity)
                          /\ h % Capacity \in 0 .. Capacity - 1
  BY <1>0, ModSplit
<1>3. PICK w \in Int : Word = w * Capacity
  <2>1. PICK w \in Int : Word = w * Capacity + (Word % Capacity)
    BY <1>0, ModSplit
  <2> QED
    BY <2>1
<1>4. PICK v \in {0, 1} : h = (t + n) - v * Word
  BY <1>0 DEF WSub, Words
<1>5. r \in 0 .. Capacity - 1
  BY <1>0
<1>6. PICK u \in {0, 1} : r = ((i - 1) - n) + u * Capacity
  BY <1>0
<1>7. v * Word = (v * w) * Capacity /\ v * w \in Int
  BY <1>3
<1>8. (j + Capacity) - (h % Capacity)
          = (((1 - p) + q) + ((v * w) - u)) * Capacity + r
  <2> DEFINE P == p * Capacity
             Q == q * Capacity
             V == (v * w) * Capacity
             U == u * Capacity
             x == h % Capacity
  <2>1. /\ P \in Int /\ Q \in Int /\ V \in Int /\ U \in Int
        /\ x \in Int /\ j \in Int /\ r \in Int /\ t \in Int
    BY <1>0, <1>1, <1>2, <1>5, <1>7 DEF Words
  <2>2. (t + i) - 1 = P + j /\ h = Q + x /\ h = (t + n) - V
           /\ r = ((i - 1) - n) + U
    BY <1>1, <1>2, <1>4, <1>6, <1>7
  <2>3. (((1 - p) + q) + ((v * w) - u)) * Capacity
            = (((Capacity - P) + Q) + V) - U
    BY <1>0, <1>7
  <2> HIDE DEF P, Q, V, U, x, n, j, r
  <2>4. (j + Capacity) - x = ((((Capacity - P) + Q) + V) - U) + r
    BY <1>0, <2>1, <2>2
  <2> QED
    BY <2>3, <2>4 DEF x
<1>9. (j + Capacity) - (h % Capacity) \in Int
         /\ ((1 - p) + q) + ((v * w) - u) \in Int
  BY <1>0, <1>1, <1>2, <1>7
<1>10. ((j + Capacity) - (h % Capacity)) % Capacity = r
  BY ZenonT(40), <1>0, <1>5, <1>8, <1>9, ModUnique
<1> QED
  BY <1>1, <1>10 DEF Indices

-----------------------------------------------------------------------------
(* The ring implements the bounded FIFO.                                   *)

\* The byte captured before the oldest one that is buffered.
Consumed == captured - AvailableRead

\* What lies between tail and head are the last bytes accepted, in order, and
\* the encode thread's copy is the front of them; no thread is in the middle
\* of moving nothing.
CInv ==
    /\ IInv
    /\ AvailableRead <= captured
    /\ \A i \in 1 .. AvailableRead :
          slots[((tail + i) - 1) % Capacity] = Consumed + i
    /\ encode = "copied" => readBuf = Fifo!Block(Consumed, encLen)
    /\ encode # "idle" => encLen > 0
    /\ capture = "copying" => capLen > 0

\* The numbers the three threads work with, and that they fit in the ring.
LEMMA RingBounds ==
    ASSUME IInv
    PROVE  /\ WSub(head, tail) \in Nat /\ capLen \in Nat /\ encLen \in Nat
           /\ WSub(head, tail) <= Capacity
           /\ WSub(head, tail) + capLen <= Capacity
           /\ captured \in Nat
           /\ head \in Words /\ tail \in Words /\ flushHead \in Words
<1>1. /\ capLen \in Nat /\ encLen \in Nat /\ captured \in Nat
      /\ head \in Words /\ tail \in Words /\ flushHead \in Words
      /\ WSub(head, tail) + capLen <= Capacity
  BY DEF IInv, TypeOK, NoOverrun, AvailableRead
<1>2. WSub(head, tail) \in Nat
  BY <1>1, WSubType DEF Words
<1> QED
  BY <1>1, <1>2, RingAssumption

\* CapturePublishes stores the bytes that follow, and spares what is buffered.
LEMMA PublishContents ==
    ASSUME CInv, CapturePublishes
    PROVE  \A i \in 1 .. WSub(head, tail) + capLen :
              slots'[((tail + i) - 1) % Capacity] = Consumed + i
<1> USE RingAssumption
<1>0. /\ WSub(head, tail) \in Nat /\ capLen \in Nat /\ captured \in Nat
      /\ WSub(head, tail) + capLen <= Capacity
      /\ head \in Words /\ tail \in Words
  BY RingBounds DEF CInv
<1> SUFFICES ASSUME NEW i \in 1 .. WSub(head, tail) + capLen
             PROVE  slots'[((tail + i) - 1) % Capacity] = Consumed + i
  OBVIOUS
<1> DEFINE n == WSub(head, tail)
           j == ((tail + i) - 1) % Capacity
           k == ((j + Capacity) - (head % Capacity)) % Capacity
<1>1. i \in 1 .. Capacity /\ n <= Capacity
  BY <1>0
<1>2. j \in Indices /\ k = IF i > n THEN (i - 1) - n ELSE (Capacity + (i - 1)) - n
  BY <1>0, <1>1, WriteOffset
<1>3. slots'[j] = IF k < capLen THEN captured + 1 + k ELSE slots[j]
  BY <1>2 DEF CapturePublishes
<1>4. Consumed = captured - n
  BY DEF Consumed, AvailableRead
<1>5. CASE i > n
  BY <1>0, <1>1, <1>2, <1>3, <1>4, <1>5
<1>6. CASE i <= n
  <2>1. ~(k < capLen)
    BY <1>0, <1>1, <1>2, <1>6
  <2>2. slots[j] = Consumed + i
    BY <1>0, <1>6 DEF CInv, AvailableRead
  <2> QED
    BY <1>3, <2>1, <2>2
<1> QED
  BY <1>0, <1>5, <1>6

\* Moving tail up by n, be it after a read or in a flush, leaves the bytes
\* from the n-th on in place.
LEMMA ConsumeContents ==
    ASSUME CInv, NEW n \in 0 .. WSub(head, tail)
    PROVE  \A i \in 1 .. WSub(head, tail) - n :
              slots[((WAdd(tail, n) + i) - 1) % Capacity] = (Consumed + n) + i
<1> USE RingAssumption
<1>a. /\ WSub(head, tail) \in Nat /\ WSub(head, tail) <= Capacity
      /\ captured \in Nat /\ tail \in Words
  BY RingBounds DEF CInv
<1>0. n \in 0 .. Capacity
  BY <1>a
<1> SUFFICES ASSUME NEW i \in 1 .. WSub(head, tail) - n
             PROVE  slots[((WAdd(tail, n) + i) - 1) % Capacity] = (Consumed + n) + i
  OBVIOUS
<1>1. i \in Nat \ {0} /\ n + i \in 1 .. WSub(head, tail)
  BY <1>a
<1>2. ((WAdd(tail, n) + i) - 1) % Capacity = ((tail + (n + i)) - 1) % Capacity
  BY <1>a, <1>0, <1>1, IndexMoves
<1>3. slots[((tail + (n + i)) - 1) % Capacity] = Consumed + (n + i)
  BY <1>1 DEF CInv, AvailableRead
<1> QED
  BY <1>a, <1>0, <1>2, <1>3 DEF Consumed, AvailableRead

\* The head the flush loaded is tail advanced by the distance between them.
LEMMA FlushDistance ==
    \A f, t \in Words : WSub(f, t) <= Capacity => f = WAdd(t, WSub(f, t))
BY RingAssumption DEF Words, WAdd, WSub

\* Every step keeps the numbers of the buffered bytes consecutive.
LEMMA NextCInv ==
    ASSUME FlushQuiesces, CInv, [Next]_vars
    PROVE  CInv'
<1>0. IInv'
  BY NextIInv DEF CInv
<1> USE RingAssumption
<1> USE DEF CInv, AvailableRead, Consumed
<1>a. /\ WSub(head, tail) \in Nat /\ WSub(head, tail) <= Capacity
      /\ WSub(head, tail) + capLen <= Capacity
      /\ captured \in Nat /\ capLen \in Nat /\ encLen \in Nat
      /\ head \in Words /\ tail \in Words /\ flushHead \in Words
  BY RingBounds
<1>1. ASSUME NEW n \in 1 .. MaxCallback, CaptureDrops(n * FrameBytes)
      PROVE  CInv'
  BY <1>0, <1>1 DEF CaptureDrops, ringVars, encodeVars, workerVars
<1>2. ASSUME NEW n \in 1 .. MaxCallback, CaptureCopies(n * FrameBytes)
      PROVE  CInv'
  <2>1. n * FrameBytes > 0
    OBVIOUS
  <2> QED
    BY <1>0, <1>2, <2>1 DEF CaptureCopies, ringVars, encodeVars, workerVars
<1>3. CASE CapturePublishes
  <2>1. WSub(head', tail) = WSub(head, tail) + capLen
    BY <1>3, <1>a, AdvanceHead DEF CapturePublishes
  <2>2. captured' - WSub(head', tail) = captured - WSub(head, tail)
    BY <1>3, <1>a, <2>1 DEF CapturePublishes
  <2>3. \A i \in 1 .. WSub(head', tail) :
           slots'[((tail + i) - 1) % Capacity] = (captured - WSub(head, tail)) + i
    BY <1>3, <2>1, PublishContents
  <2>4. tail' = tail /\ encode' = encode /\ encLen' = encLen /\ readBuf' = readBuf
          /\ capture' = "idle" /\ captured' = captured + capLen
    BY <1>3 DEF CapturePublishes, encodeVars
  <2> QED
    BY <1>0, <1>a, <2>1, <2>2, <2>3, <2>4
<1>4. CASE EncodeSizes
  <2>1. WholeFrames(WSub(head, tail)) \in 1 .. WSub(head, tail)
    BY <1>4, <1>a, WholeFramesBound DEF EncodeSizes
  <2>2. MaxChunk * FrameBytes > 0
    OBVIOUS
  <2>3. encLen' > 0 /\ encode' = "sized"
    BY <1>4, <1>a, <2>1, <2>2 DEF EncodeSizes, Smaller
  <2> QED
    BY <1>0, <1>4, <2>3 DEF EncodeSizes, ringVars, captureVars, workerVars
<1>5. CASE EncodeCopies
  <2>1. encLen <= WSub(head, tail)
    BY <1>5 DEF EncodeCopies, IInv, NoOverrun
  <2>2. \A i \in 1 .. encLen :
           slots[((tail + i) - 1) % Capacity] = (captured - WSub(head, tail)) + i
    BY <1>a, <2>1
  <2>3. readBuf' = Fifo!Block(captured - WSub(head, tail), encLen)
    BY <1>5, <2>2 DEF EncodeCopies, Contents, Fifo!Block
  <2> QED
    BY <1>0, <1>5, <2>3 DEF EncodeCopies, ringVars, captureVars, workerVars
<1>6. CASE EncodeAdvances
  <2>1. encLen \in 0 .. WSub(head, tail) /\ encLen \in 0 .. Capacity
    BY <1>6, <1>a DEF EncodeAdvances, IInv, NoOverrun
  <2>2. tail' = WAdd(tail, encLen)
    BY <1>6 DEF EncodeAdvances, IInv
  <2>3. WSub(head, tail') = WSub(head, tail) - encLen
    BY <1>a, <2>1, <2>2, AdvanceTail
  <2>4. captured - WSub(head, tail') = (captured - WSub(head, tail)) + encLen
    BY <1>a, <2>3
  <2>5. \A i \in 1 .. WSub(head, tail') :
           slots[((tail' + i) - 1) % Capacity]
               = (captured - WSub(head, tail')) + i
    BY <2>1, <2>2, <2>3, <2>4, ConsumeContents
  <2>6. slots' = slots /\ head' = head /\ captured' = captured /\ capture' = capture
          /\ capLen' = capLen /\ encode' = "idle"
    BY <1>6 DEF EncodeAdvances, captureVars
  <2> QED
    BY <1>0, <1>a, <2>1, <2>3, <2>5, <2>6
<1>7. CASE WorkerLosesLink
  BY <1>0, <1>7 DEF WorkerLosesLink, ringVars, captureVars, encodeVars
<1>8. CASE WorkerFlushLoads
  BY <1>0, <1>8 DEF WorkerFlushLoads, ringVars, captureVars, encodeVars
<1>9. CASE WorkerFlushStores
  <2> DEFINE n == WSub(flushHead, tail)
  <2>1. n \in 0 .. WSub(head, tail)
    BY <1>9, <1>a, WSubType DEF WorkerFlushStores, IInv, Words
  <2>2. tail' = WAdd(tail, n)
    BY <1>9, <1>a, <2>1, FlushDistance DEF WorkerFlushStores
  <2>3. WSub(head, tail') = WSub(head, tail) - n
    BY <1>9, <1>a, <2>1, MoveTail DEF WorkerFlushStores
  <2> HIDE DEF n
  <2>4. captured - WSub(head, tail') = (captured - WSub(head, tail)) + n
    BY <1>a, <2>1, <2>3
  <2>5. \A i \in 1 .. WSub(head, tail') :
           slots[((tail' + i) - 1) % Capacity]
               = (captured - WSub(head, tail')) + i
    BY <2>1, <2>2, <2>3, <2>4, ConsumeContents
  <2>6. slots' = slots /\ head' = head /\ captured' = captured /\ capture' = capture
          /\ capLen' = capLen /\ encode' = encode /\ encode = "idle"
    BY <1>9 DEF WorkerFlushStores, captureVars, encodeVars, IInv
  <2> QED
    BY <1>0, <1>a, <2>1, <2>3, <2>5, <2>6
<1>10. CASE UNCHANGED vars
  BY <1>0, <1>10 DEF vars, ringVars, captureVars, encodeVars, workerVars
<1> QED
  BY <1>1, <1>2, <1>3, <1>4, <1>5, <1>6, <1>7, <1>8, <1>9, <1>10
  DEF Next, Capture, Encode, Worker

\* Blocks of consecutive bytes are sequences.
LEMMA BlockSeq ==
    ASSUME NEW k \in Nat, NEW n \in Nat
    PROVE  /\ Fifo!Block(k, n) \in Seq(Nat)
           /\ Len(Fifo!Block(k, n)) = n
           /\ \A i \in 1 .. n : Fifo!Block(k, n)[i] = k + i
BY DEF Fifo!Block

\* Adjacent blocks join to one.
LEMMA BlockConcat ==
    ASSUME NEW k \in Nat, NEW m \in Nat, NEW n \in Nat
    PROVE  Fifo!Block(k, m) \o Fifo!Block(k + m, n) = Fifo!Block(k, m + n)
<1> DEFINE x == Fifo!Block(k, m)
           y == Fifo!Block(k + m, n)
           t == Fifo!Block(k, m + n)
<1>1. k + m \in Nat /\ m + n \in Nat
  OBVIOUS
<1>2. x \in Seq(Nat) /\ Len(x) = m /\ \A i \in 1 .. m : x[i] = k + i
  BY BlockSeq
<1>3. y \in Seq(Nat) /\ Len(y) = n /\ \A i \in 1 .. n : y[i] = (k + m) + i
  BY <1>1, BlockSeq
<1>4. t \in Seq(Nat) /\ Len(t) = m + n /\ \A i \in 1 .. m + n : t[i] = k + i
  BY <1>1, BlockSeq
<1> HIDE DEF x, y, t
<1>5. /\ x \o y \in Seq(Nat) /\ Len(x \o y) = Len(x) + Len(y)
      /\ \A i \in 1 .. Len(x) + Len(y) :
            (x \o y)[i] = IF i <= Len(x) THEN x[i] ELSE y[i - Len(x)]
  BY <1>2, <1>3, ConcatProperties
<1>6. ASSUME NEW i \in 1 .. m + n PROVE (x \o y)[i] = t[i]
  <2>1. (x \o y)[i] = IF i <= m THEN x[i] ELSE y[i - m]
    BY <1>2, <1>3, <1>5
  <2>2. CASE i <= m
    BY <1>2, <1>4, <2>1, <2>2
  <2>3. CASE i > m
    <3>1. i - m \in 1 .. n
      BY <2>3
    <3>2. y[i - m] = (k + m) + (i - m)
      BY <1>3, <3>1
    <3>3. t[i] = k + i /\ (k + m) + (i - m) = k + i
      BY <1>4
    <3>4. ~(i <= m)
      BY <2>3
    <3> QED
      BY <2>1, <3>2, <3>3, <3>4
  <2>4. i <= m \/ i > m
    OBVIOUS
  <2> QED
    BY <2>2, <2>3, <2>4
<1>7. Len(x \o y) = Len(t) /\ \A i \in 1 .. Len(x \o y) : (x \o y)[i] = t[i]
  BY <1>2, <1>3, <1>4, <1>5, <1>6
<1>8. x \o y = t
  BY <1>4, <1>5, <1>7, SeqEqual
<1> QED
  BY <1>8 DEF x, y, t

\* A block splits into its front and the rest.
LEMMA BlockSplit ==
    ASSUME NEW k \in Nat, NEW m \in Nat, NEW n \in 1 .. m
    PROVE  /\ SubSeq(Fifo!Block(k, m), 1, n) = Fifo!Block(k, n)
           /\ SubSeq(Fifo!Block(k, m), n + 1, m) = Fifo!Block(k + n, m - n)
<1> DEFINE b == Fifo!Block(k, m)
           s == SubSeq(b, 1, n)
           t == SubSeq(b, n + 1, m)
<1>1. k + n \in Nat /\ m - n \in Nat /\ n \in Nat
  OBVIOUS
<1>2. \A i \in 1 .. m : b[i] = k + i
  BY BlockSeq
<1> HIDE DEF b
<1>3. /\ s \in Seq(Nat) /\ Len(s) = n
      /\ \A i \in 1 .. n : s[i] = b[i]
  <2>1. \A i \in 1 .. n : b[i] \in Nat
    BY <1>2
  <2> QED
    BY <1>1, <2>1, SubSeqProperties
<1>4. /\ t \in Seq(Nat) /\ Len(t) = m - n
      /\ \A i \in 1 .. m - n : t[i] = b[n + i]
  <2>1. \A i \in n + 1 .. m : b[i] \in Nat
    BY <1>2
  <2>2. n + 1 \in Int /\ m \in Int
    OBVIOUS
  <2>3. /\ t \in Seq(Nat)
        /\ Len(t) = IF n + 1 <= m THEN m - (n + 1) + 1 ELSE 0
        /\ \A i \in 1 .. m - (n + 1) + 1 : t[i] = b[(n + 1) + i - 1]
    BY <2>1, <2>2, SubSeqProperties
  <2> HIDE DEF t
  <2> QED
    BY <2>3
<1> HIDE DEF s, t
<1>5. s = Fifo!Block(k, n)
  <2>1. /\ Fifo!Block(k, n) \in Seq(Nat) /\ Len(Fifo!Block(k, n)) = n
        /\ \A i \in 1 .. n : Fifo!Block(k, n)[i] = k + i
    BY <1>1, BlockSeq
  <2>2. \A i \in 1 .. Len(s) : s[i] = Fifo!Block(k, n)[i]
    BY SMTT(30), <1>2, <1>3, <2>1
  <2> QED
    BY <1>3, <2>1, <2>2, SeqEqual
<1>6. t = Fifo!Block(k + n, m - n)
  <2>1. /\ Fifo!Block(k + n, m - n) \in Seq(Nat)
        /\ Len(Fifo!Block(k + n, m - n)) = m - n
        /\ \A i \in 1 .. m - n : Fifo!Block(k + n, m - n)[i] = (k + n) + i
    BY <1>1, BlockSeq
  <2>2. \A i \in 1 .. Len(t) : t[i] = Fifo!Block(k + n, m - n)[i]
    BY <1>2, <1>4, <2>1
  <2> QED
    BY <1>4, <2>1, <2>2, SeqEqual
<1> QED
  BY <1>5, <1>6 DEF s, t, b

\* The refinement mapping: what is buffered is the block after the last byte
\* that left the ring.
BufferedIsBlock ==
    /\ Consumed \in Nat /\ AvailableRead \in Nat
    /\ Consumed + AvailableRead = captured
    /\ Contents(tail, AvailableRead) = Fifo!Block(Consumed, AvailableRead)

\* ... which follows from the order of the bytes between tail and head.
LEMMA BufferedBlock == CInv => BufferedIsBlock
<1> SUFFICES ASSUME CInv PROVE BufferedIsBlock
  OBVIOUS
<1>1. AvailableRead \in Nat /\ captured \in Nat
  BY RingBounds DEF CInv, AvailableRead
<1>2. Consumed \in Nat /\ Consumed + AvailableRead = captured
  BY <1>1 DEF CInv, Consumed
<1>3. Contents(tail, AvailableRead) = Fifo!Block(Consumed, AvailableRead)
  BY DEF CInv, Contents, Fifo!Block
<1> QED
  BY <1>1, <1>2, <1>3 DEF BufferedIsBlock

\* A step that leaves the array, the counters and what was accepted and
\* delivered alone is a step the FIFO does not see.
LEMMA FifoStutters ==
    ASSUME UNCHANGED <<slots, head, tail, captured, delivered>>
    PROVE  UNCHANGED Fifo!vars
BY DEF Fifo!vars, Contents, AvailableRead

\* Every step of the three threads is a Put, a Take, a Discard or a stutter.
LEMMA NextFifo ==
    ASSUME FlushQuiesces, CInv, [Next]_vars
    PROVE  [Fifo!Next]_(Fifo!vars)
<1>0. CInv'
  BY NextCInv
<1> DEFINE B == Contents(tail, AvailableRead)
           n == AvailableRead
           k == Consumed
<1>a. k \in Nat /\ n \in Nat /\ k + n = captured /\ B = Fifo!Block(k, n)
  BY BufferedBlock DEF BufferedIsBlock
<1>b. /\ Consumed' \in Nat /\ AvailableRead' \in Nat
      /\ Consumed' + AvailableRead' = captured'
      /\ B' = Fifo!Block(Consumed', AvailableRead')
  <2>1. BufferedIsBlock'
    BY <1>0, BufferedBlock, PTL
  <2> QED
    BY <2>1 DEF BufferedIsBlock, Fifo!Block
<1>c. Len(B) = n
  BY <1>a, BlockSeq
<1>d. n + capLen <= Capacity /\ capLen \in Nat /\ encLen \in Nat
        /\ head \in Words /\ tail \in Words /\ flushHead \in Words /\ n <= Capacity
  BY RingBounds DEF CInv, AvailableRead
<1>1. ASSUME NEW m \in 1 .. MaxCallback,
             CaptureDrops(m * FrameBytes) \/ CaptureCopies(m * FrameBytes)
      PROVE  UNCHANGED Fifo!vars
  BY <1>1, FifoStutters DEF CaptureDrops, CaptureCopies, ringVars, encodeVars
<1>3. CASE CapturePublishes
  <2>1. AvailableRead' = n + capLen
    <3>1. capLen \in 0 .. Capacity /\ WSub(head, tail) + capLen <= Capacity
      BY <1>a, <1>d, RingAssumption DEF AvailableRead
    <3>2. head' = WAdd(head, capLen) /\ tail' = tail
      BY <1>3 DEF CapturePublishes
    <3> QED
      BY <1>d, <3>1, <3>2, AdvanceHead DEF AvailableRead
  <2>2. captured' = captured + capLen
    BY <1>3 DEF CapturePublishes
  <2>3. Consumed' = k
    BY <1>a, <1>b, <1>d, <2>1, <2>2
  <2> HIDE DEF B, n, k
  <2>4. B' = B \o Fifo!Block(captured, capLen)
    BY ZenonT(40), <1>a, <1>b, <1>d, <2>1, <2>3, BlockConcat
  <2>5. capLen \in 1 .. Capacity - Len(B)
    BY <1>3, <1>a, <1>c, <1>d, RingAssumption DEF CInv, CapturePublishes
  <2>6. UNCHANGED delivered
    BY <1>3 DEF CapturePublishes, encodeVars
  <2>7. Fifo!Put
    BY <2>2, <2>4, <2>5, <2>6 DEF Fifo!Put, B
  <2> QED
    BY <2>7 DEF Fifo!Next
<1>4. CASE EncodeSizes \/ EncodeCopies
  BY <1>4, FifoStutters DEF EncodeSizes, EncodeCopies, ringVars, captureVars
<1>6. CASE EncodeAdvances
  <2>1. encLen \in 1 .. n
    BY <1>6, <1>d DEF CInv, EncodeAdvances, IInv, NoOverrun
  <2>2. AvailableRead' = n - encLen
    <3>1. encLen \in 0 .. Capacity /\ encLen <= WSub(head, tail)
      BY <1>a, <1>d, <2>1, RingAssumption DEF AvailableRead
    <3>2. tail' = WAdd(tail, encLen) /\ head' = head
      BY <1>6 DEF CInv, IInv, EncodeAdvances
    <3> QED
      BY <1>d, <3>1, <3>2, AdvanceTail DEF AvailableRead
  <2>3. UNCHANGED captured
    BY <1>6 DEF EncodeAdvances, captureVars
  <2>4. Consumed' = k + encLen
    BY <1>a, <1>b, <1>d, <2>2, <2>3
  <2>5. delivered' = Fifo!Block(k, encLen)
    BY <1>6 DEF EncodeAdvances, CInv
  <2> HIDE DEF B, n, k
  <2>s. /\ SubSeq(Fifo!Block(k, n), 1, encLen) = Fifo!Block(k, encLen)
        /\ SubSeq(Fifo!Block(k, n), encLen + 1, n) = Fifo!Block(k + encLen, n - encLen)
    BY <1>a, <2>1, BlockSplit
  <2>6. delivered' = SubSeq(B, 1, encLen)
           /\ B' = SubSeq(B, encLen + 1, Len(B))
    BY <1>a, <1>b, <1>c, <2>s, <2>2, <2>4, <2>5
  <2>7. encLen \in 1 .. Len(B)
    BY <1>c, <2>1
  <2>8. Fifo!Take
    BY <2>3, <2>6, <2>7 DEF Fifo!Take, B
  <2> QED
    BY <2>8 DEF Fifo!Next
<1>7. CASE WorkerLosesLink \/ WorkerFlushLoads
  BY <1>7, FifoStutters
  DEF WorkerLosesLink, WorkerFlushLoads, ringVars, captureVars, encodeVars
<1>9. CASE WorkerFlushStores
  <2> DEFINE d == WSub(flushHead, tail)
  <2>1. d \in 0 .. n
    BY <1>9, <1>a, <1>d, WSubType DEF CInv, IInv, WorkerFlushStores, Words
  <2>2. AvailableRead' = n - d
    BY <1>9, <1>d, <2>1, MoveTail DEF WorkerFlushStores, AvailableRead
  <2>3. UNCHANGED <<captured, delivered>>
    BY <1>9 DEF WorkerFlushStores, captureVars, encodeVars
  <2> HIDE DEF d
  <2>4. Consumed' = k + d
    BY <1>a, <1>b, <2>1, <2>2, <2>3
  <2> HIDE DEF B, n, k
  <2>5. CASE d = 0
    <3>1. AvailableRead' = n /\ Consumed' = k
      BY <1>a, <2>2, <2>4, <2>5
    <3>2. B' = B
      BY <1>a, <1>b, <3>1
    <3> QED
      BY <2>3, <3>2 DEF Fifo!vars, B
  <2>6. CASE d # 0
    <3>1. d \in 1 .. n
      BY <1>a, <2>1, <2>6
    <3>s. SubSeq(Fifo!Block(k, n), d + 1, n) = Fifo!Block(k + d, n - d)
      BY <1>a, <3>1, BlockSplit
    <3>2. B' = SubSeq(B, d + 1, Len(B))
      BY <1>a, <1>b, <1>c, <3>s, <2>2, <2>4
    <3>3. d \in 1 .. Len(B)
      BY <1>c, <3>1
    <3>4. Fifo!Discard
      BY <2>3, <3>2, <3>3 DEF Fifo!Discard, B
    <3> QED
      BY <3>4 DEF Fifo!Next
  <2> QED
    BY <2>5, <2>6
<1>10. CASE UNCHANGED vars
  BY <1>10, FifoStutters DEF vars, ringVars, captureVars, encodeVars
<1> QED
  BY <1>1, <1>3, <1>4, <1>6, <1>7, <1>9, <1>10
  DEF Next, Capture, Encode, Worker

\* The ring implements the bounded FIFO for every capacity, frame size and
\* counter width: what a callback got accepted reaches the encoder in order and
\* once, unless a reconnect discards it.
THEOREM RingImplementsFifo ==
    ASSUME FlushQuiesces PROVE Spec => FifoSpec
<1>1. Init => CInv
  <2> SUFFICES ASSUME Init PROVE CInv
    OBVIOUS
  <2>1. IInv
    BY InitIInv
  <2>2. AvailableRead = 0
    BY RingAssumption DEF Init, AvailableRead, WSub
  <2> QED
    BY <2>1, <2>2 DEF Init, CInv
<1>2. CInv /\ [Next]_vars => CInv'
  BY NextCInv
<1>3. Init => Fifo!Init
  <2> SUFFICES ASSUME Init PROVE Fifo!Init
    OBVIOUS
  <2>1. AvailableRead = 0
    BY RingAssumption DEF Init, AvailableRead, WSub
  <2>2. Contents(tail, AvailableRead) = <<>>
    BY <2>1 DEF Contents
  <2> QED
    BY <2>2 DEF Init, Fifo!Init
<1>4. CInv /\ [Next]_vars => [Fifo!Next]_(Fifo!vars)
  BY NextFifo
<1> QED
  BY <1>1, <1>2, <1>3, <1>4, PTL DEF Spec, FifoSpec, Fifo!Spec

=============================================================================
