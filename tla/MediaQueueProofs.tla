-------------------------- MODULE MediaQueueProofs --------------------------
(***************************************************************************)
(* Proofs about MediaQueue for every queue length and every number of      *)
(* packets and sessions, provided that a session ends with an empty queue  *)
(* (CleanStop; without it the finding of the media_queue_restart run       *)
(* shows): the indices agree with the count while a stream is up, and the  *)
(* packets leave in the order they were enqueued.                          *)
(***************************************************************************)
EXTENDS MediaQueue, Integers, TLAPS

\* The write and the read position agree with the packet count.
Agree == tail + count = head \/ tail + count = head + Capacity

\* The slot of the i-th queued packet, counted from 0.
SlotOf(i) == IF tail + i >= Capacity THEN (tail + i) - Capacity ELSE tail + i

\* What holds between the threads: only a link that is up carries a stream
\* and owes a CAN_SEND_NOW; the encode thread is out of send_media() before
\* a new session begins, and a stopped transport has an empty queue.  The
\* unlocked stores of the disconnect handlers only break Agree on a link that
\* has gone, which is brought back up by a reset or from an empty queue.
IInv ==
    /\ TypeOK
    /\ streaming => link = "up"
    /\ requested => link = "up"
    /\ link = "up" => Agree
    /\ encoderSet => worker = "streaming"
    /\ worker \in {"connecting", "stopped"} => sender = "idle"
    /\ worker = "stopped" => head = tail /\ count = 0
    /\ sender = "locked" => count < Capacity

\* On a link that is up the queue holds the last packets of this session, in
\* order, and the packet taken last is the one before them.
InOrder ==
    /\ count <= enqueued
    /\ \A i \in 0 .. count - 1 :
          queue[SlotOf(i)] = [session |-> session,
                              number |-> (enqueued - count) + (i + 1)]
    /\ taken.session = session => taken.number = enqueued - count
    /\ taken.session # session => enqueued = count

OInv ==
    /\ IInv
    /\ session > 0
    /\ taken.session <= session
    /\ link = "up" => InOrder

-----------------------------------------------------------------------------

\* The queue starts empty, with nobody in send_media().
LEMMA InitOInv == Init => OInv
<1> SUFFICES ASSUME Init PROVE OInv
  OBVIOUS
<1>1. TypeOK
  <2>1. NoPacket \in Packets /\ 0 \in Slots /\ 0 \in 0 .. Capacity
    BY QueueAssumption DEF NoPacket, Packets, Slots
  <2> QED
    BY <2>1 DEF Init, TypeOK
<1>2. IInv
  BY <1>1, QueueAssumption DEF Init, IInv, Agree
<1>3. taken.session = 0
  BY DEF Init, NoPacket
<1> QED
  BY <1>2, <1>3 DEF Init, OInv, InOrder

\* Positions stay within the array, and the first slot is one.
LEMMA FollowingType == 0 \in Slots /\ \A i \in Slots : Following(i) \in Slots
BY QueueAssumption DEF Slots, Following

\* Enqueueing and dequeueing, across the end of the array.
LEMMA FollowingAgrees ==
    ASSUME NEW h \in Slots, NEW t \in Slots, NEW c \in 0 .. Capacity,
           t + c = h \/ t + c = h + Capacity
    PROVE  /\ c < Capacity => \/ t + (c + 1) = Following(h)
                              \/ t + (c + 1) = Following(h) + Capacity
           /\ c > 0 => \/ Following(t) + (c - 1) = h
                       \/ Following(t) + (c - 1) = h + Capacity
BY QueueAssumption DEF Slots, Following

\* Every step of the encode thread, the BTstack thread and the worker keeps
\* the relation between the indices, the count and the threads' positions.
LEMMA NextIInv ==
    ASSUME CleanStop, IInv, [Next]_vars
    PROVE  IInv'
<1> USE QueueAssumption
<1> USE DEF IInv, TypeOK
<1>a. 0 \in Slots /\ Following(head) \in Slots /\ Following(tail) \in Slots
  BY FollowingType
<1>b. 0 \in 0 .. Capacity
  OBVIOUS
<1>1. CASE SendEnters
  BY <1>1 DEF SendEnters, queueVars, linkVars, wakeVars, workerVars, Agree
<1>2. CASE SendLocks
  BY <1>2 DEF SendLocks, queueVars, linkVars, wakeVars, workerVars, Agree
<1>3. CASE SendDrops
  BY <1>3 DEF SendDrops, queueVars, linkVars, wakeVars, workerVars, Agree
<1>4. CASE SendRejects
  BY <1>4 DEF SendRejects, queueVars, linkVars, wakeVars, workerVars, Agree
<1>5. CASE SendStores
  <2>1. queue' \in [Slots -> Packets]
    <3>1. [session |-> session, number |-> enqueued + 1] \in Packets
      BY DEF Packets
    <3> QED
      BY <1>5, <3>1 DEF SendStores
  <2>2. count' \in 0 .. Capacity /\ count' = count + 1 /\ count < Capacity
    BY <1>5 DEF SendStores
  <2>3. head' = Following(head) /\ tail' = tail
    BY <1>5 DEF SendStores
  <2>4. link = "up" => Agree'
    BY <2>2, <2>3, FollowingAgrees DEF Agree
  <2>5. worker = "stopped" => sender = "idle"
    OBVIOUS
  <2> QED
    BY <1>5, <1>a, <2>1, <2>2, <2>3, <2>4, <2>5
    DEF SendStores, linkVars, wakeVars, workerVars
<1>6. CASE SendTriggers
  BY <1>6 DEF SendTriggers, queueVars, linkVars, wakeVars, workerVars, Agree
<1>7. CASE TriggerRuns
  BY ZenonT(40), <1>7 DEF TriggerRuns, queueVars, linkVars, wakeVars, workerVars, Agree
<1>8. CASE CanSendDequeues
  <2>1. count' \in 0 .. Capacity /\ count' <= count
    BY <1>8 DEF CanSendDequeues
  <2>2. taken' \in Packets /\ tail' \in Slots
    BY <1>8, <1>a DEF CanSendDequeues
  <2>3. link = "up" => Agree'
    <3>1. CASE count > 0
      <4>1. count' = count - 1 /\ tail' = Following(tail) /\ head' = head
        BY <1>8, <3>1 DEF CanSendDequeues
      <4> QED
        BY <3>1, <4>1, FollowingAgrees DEF Agree
    <3>2. CASE count = 0
      <4>1. count' = count /\ tail' = tail /\ head' = head
        BY <1>8, <3>2 DEF CanSendDequeues
      <4> QED
        BY <4>1 DEF Agree
    <3> QED
      BY <3>1, <3>2
  <2>4. worker = "stopped" => head' = tail' /\ count' = 0
    BY <1>8 DEF CanSendDequeues
  <2>5. TypeOK'
    BY <1>8, <2>1, <2>2 DEF CanSendDequeues, linkVars, workerVars
  <2>6. requested' = FALSE /\ sender' = sender /\ sender # "locked"
        /\ UNCHANGED <<streaming, link, worker, encoderSet>>
    BY <1>8 DEF CanSendDequeues, linkVars, workerVars
  <2> QED
    BY <2>3, <2>4, <2>5, <2>6
<1>9. CASE CanSendChains
  BY <1>9 DEF CanSendChains, queueVars, linkVars, wakeVars, workerVars, Agree
<1>10. CASE StreamStarted
  BY <1>10 DEF StreamStarted, queueVars, linkVars, wakeVars, workerVars, Agree
<1>11. CASE StreamSuspended
  BY ZenonT(40), <1>11 DEF StreamSuspended, queueVars, linkVars, wakeVars, workerVars, Agree
<1>12. CASE HciDisconnected
  <2>1. /\ count' = 0 /\ count' < Capacity
        /\ link' # "up" /\ link' \in {"up", "dying", "none"}
    BY <1>12 DEF HciDisconnected
  <2>2. TypeOK'
    BY <1>12, <1>b DEF HciDisconnected, workerVars
  <2> QED
    BY <1>12, <2>1, <2>2 DEF HciDisconnected, workerVars
<1>13. CASE SignalingReleased
  <2>1. /\ count' = 0 /\ count' < Capacity
        /\ link' # "up" /\ link' \in {"up", "dying", "none"}
    BY <1>13 DEF SignalingReleased
  <2>2. TypeOK'
    BY <1>13, <1>b DEF SignalingReleased, workerVars
  <2> QED
    BY <1>13, <2>1, <2>2 DEF SignalingReleased, workerVars
<1>14. CASE WorkerStreams
  BY <1>14 DEF WorkerStreams, queueVars, linkVars, wakeVars, workerVars, Agree
<1>15. CASE WorkerLosesLink
  BY ZenonT(40), <1>15 DEF WorkerLosesLink, queueVars, linkVars, wakeVars, workerVars, Agree
<1>16. CASE WorkerReconnects
  <2>1. head' = 0 /\ tail' = 0 /\ count' = 0 /\ requested' = requested
    BY <1>16 DEF WorkerReconnects, wakeVars
  <2>2. Agree' /\ session' \in Nat /\ enqueued' \in Nat
    BY <1>16, <2>1 DEF WorkerReconnects, Agree
  <2> QED
    BY <1>16, <1>a, <1>b, <2>1, <2>2 DEF WorkerReconnects, wakeVars
<1>17. CASE WorkerStops
  BY <1>17 DEF WorkerStops, queueVars, linkVars, wakeVars, workerVars, Agree
<1>18. CASE WorkerConnects
  <2>1. Agree' /\ session' \in Nat /\ enqueued' \in Nat
    BY <1>18 DEF WorkerConnects, queueVars, Agree, Slots
  <2> QED
    BY <1>18, <2>1 DEF WorkerConnects, queueVars, wakeVars
<1>19. CASE UNCHANGED vars
  BY <1>19 DEF vars, queueVars, linkVars, wakeVars, workerVars, Agree
<1> QED
  BY <1>1, <1>2, <1>3, <1>4, <1>5, <1>6, <1>7, <1>8, <1>9, <1>10, <1>11,
     <1>12, <1>13, <1>14, <1>15, <1>16, <1>17, <1>18, <1>19
  DEF Next, Sender, Handler, Link, Worker

-----------------------------------------------------------------------------

\* The slots of different queued packets, and of the next free one, differ.
LEMMA SlotsDiffer ==
    ASSUME NEW t \in Slots, NEW c \in 0 .. Capacity - 1, NEW h \in Slots,
           t + c = h \/ t + c = h + Capacity,
           NEW i \in 0 .. c - 1
    PROVE  /\ (IF t + i >= Capacity THEN (t + i) - Capacity ELSE t + i) \in Slots
           /\ (IF t + i >= Capacity THEN (t + i) - Capacity ELSE t + i) # h
           /\ (IF t + c >= Capacity THEN (t + c) - Capacity ELSE t + c) = h
BY QueueAssumption DEF Slots

\* send_media() appends behind the queued packets.
LEMMA StoreInOrder ==
    ASSUME OInv, SendStores, link = "up"
    PROVE  InOrder'
<1> USE QueueAssumption
<1> DEFINE new == [session |-> session, number |-> enqueued + 1]
<1>1. /\ tail \in Slots /\ head \in Slots /\ count \in 0 .. Capacity - 1
      /\ tail + count = head \/ tail + count = head + Capacity
      /\ enqueued \in Nat /\ session \in Nat /\ taken \in Packets
      /\ queue \in [Slots -> Packets]
  BY DEF OInv, IInv, TypeOK, Agree, SendStores
<1>2. /\ queue' = [queue EXCEPT ![head] = new]
      /\ count' = count + 1 /\ enqueued' = enqueued + 1
      /\ tail' = tail /\ taken' = taken /\ session' = session
  BY DEF SendStores, workerVars
<1>3. InOrder
  BY DEF OInv
<1>4. \A i \in 0 .. count' - 1 : SlotOf(i)' = SlotOf(i)
  BY <1>2 DEF SlotOf
<1>5. SlotOf(count) = head
  BY <1>1 DEF Slots, SlotOf
<1>6. \A i \in 0 .. count - 1 : SlotOf(i) \in Slots /\ SlotOf(i) # head
  BY <1>1, SlotsDiffer DEF SlotOf
<1>7. ASSUME NEW i \in 0 .. count' - 1
      PROVE  queue'[SlotOf(i)'] = [session |-> session',
                                   number |-> (enqueued' - count') + (i + 1)]
  <2>1. CASE i = count
    <3>1. queue'[head] = new
      BY <1>1, <1>2
    <3>2. (enqueued' - count') + (i + 1) = enqueued + 1
      BY <1>1, <1>2, <2>1
    <3> QED
      BY <1>2, <1>4, <1>5, <2>1, <3>1, <3>2
  <2>2. CASE i # count
    <3>1. i \in 0 .. count - 1
      BY <1>1, <1>2, <2>2
    <3>2. queue'[SlotOf(i)] = queue[SlotOf(i)]
      BY <1>1, <1>2, <1>6, <3>1
    <3>3. (enqueued' - count') + (i + 1) = (enqueued - count) + (i + 1)
      BY <1>1, <1>2
    <3> QED
      BY <1>2, <1>3, <1>4, <3>1, <3>2, <3>3 DEF InOrder
  <2> QED
    BY <2>1, <2>2
<1>8. enqueued' - count' = enqueued - count /\ (count' <= enqueued' <=> count <= enqueued)
      /\ (enqueued' = count' <=> enqueued = count)
  BY <1>1, <1>2
<1> QED
  BY <1>2, <1>3, <1>7, <1>8 DEF InOrder

\* CAN_SEND_NOW takes the oldest queued packet, the successor of the one it
\* took before.
LEMMA DequeueInOrder ==
    ASSUME OInv, CanSendDequeues
    PROVE  /\ InOrder'
           /\ taken' # taken =>
                 /\ taken'.session = session
                 /\ taken'.number = IF taken.session = session
                                    THEN taken.number + 1 ELSE 1
<1> USE QueueAssumption
<1>1. /\ tail \in Slots /\ head \in Slots /\ count \in 0 .. Capacity
      /\ enqueued \in Nat /\ session \in Nat /\ taken \in Packets
      /\ taken.number \in Nat
  BY DEF OInv, IInv, TypeOK, Packets
<1>2. /\ queue' = queue /\ enqueued' = enqueued /\ session' = session
  BY DEF CanSendDequeues, workerVars
<1>3. InOrder
  BY DEF OInv, IInv, CanSendDequeues
<1>4. CASE count = 0
  <2>1. UNCHANGED <<taken, tail, count>>
    BY <1>4 DEF CanSendDequeues
  <2> QED
    BY <1>2, <1>3, <1>4, <2>1 DEF InOrder, SlotOf
<1>5. CASE count > 0
  <2>1. taken' = queue[tail] /\ tail' = Following(tail) /\ count' = count - 1
    BY <1>1, <1>5 DEF CanSendDequeues
  <2>2. SlotOf(0) = tail
    BY <1>1 DEF SlotOf, Slots
  <2>3. taken' = [session |-> session, number |-> (enqueued - count) + 1]
    <3>1. 0 \in 0 .. count - 1 /\ (enqueued - count) + (0 + 1) = (enqueued - count) + 1
      BY <1>1, <1>5
    <3> QED
      BY <1>3, <2>1, <2>2, <3>1 DEF InOrder
  <2>4. taken'.session = session /\ taken'.number = (enqueued - count) + 1
    BY <2>3
  <2>5. ASSUME NEW i \in 0 .. count' - 1
        PROVE  queue'[SlotOf(i)'] = [session |-> session',
                                     number |-> (enqueued' - count') + (i + 1)]
    <3>1. i \in Int /\ i + 1 \in 0 .. count - 1
      BY <1>1, <1>5, <2>1
    <3>2. SlotOf(i)' = SlotOf(i + 1)
      BY <1>1, <2>1, <3>1 DEF SlotOf, Slots, Following
    <3>3. (enqueued' - count') + (i + 1) = (enqueued - count) + ((i + 1) + 1)
      BY <1>1, <1>2, <2>1, <3>1
    <3> QED
      BY <1>2, <1>3, <3>1, <3>2, <3>3 DEF InOrder
  <2>6. /\ enqueued' - count' = (enqueued - count) + 1
        /\ (count <= enqueued => count' <= enqueued')
    BY <1>1, <1>2, <2>1
  <2>7. InOrder'
    BY <1>2, <1>3, <2>4, <2>5, <2>6 DEF InOrder
  <2>8. taken'.number = IF taken.session = session THEN taken.number + 1 ELSE 1
    BY <1>1, <1>3, <2>4 DEF InOrder
  <2> QED
    BY <2>4, <2>7, <2>8
<1> QED
  BY <1>1, <1>4, <1>5

\* A step that leaves the queue, the session and the last packet alone.
LEMMA StillInOrder ==
    ASSUME OInv, UNCHANGED <<queue, tail, count, session, enqueued, taken>>,
           link' = "up" => link = "up", IInv'
    PROVE  OInv'
BY DEF OInv, InOrder, SlotOf

\* Every step keeps the queue in order.
LEMMA NextOInv ==
    ASSUME CleanStop, OInv, [Next]_vars
    PROVE  OInv'
<1>i. IInv /\ IInv'
  BY NextIInv DEF OInv
<1>t. session \in Nat /\ taken.session \in Nat /\ count \in Nat
  BY QueueAssumption DEF OInv, IInv, TypeOK, Packets
<1>1. CASE SendEnters \/ SendLocks \/ SendDrops \/ SendRejects \/ SendTriggers
  BY <1>1, <1>i, StillInOrder
  DEF SendEnters, SendLocks, SendDrops, SendRejects, SendTriggers,
      queueVars, linkVars, wakeVars, workerVars
<1>2. CASE SendStores
  <2>1. link = "up" => InOrder'
    BY <1>2, StoreInOrder
  <2> QED
    BY <1>2, <1>i, <2>1 DEF OInv, SendStores, linkVars, workerVars
<1>3. CASE CanSendDequeues
  <2>1. InOrder' /\ taken'.session <= session
    BY <1>3, <1>t, DequeueInOrder DEF OInv
  <2> QED
    BY <1>3, <1>i, <2>1 DEF OInv, CanSendDequeues, workerVars
<1>4. CASE TriggerRuns \/ CanSendChains
  BY <1>4, <1>i, StillInOrder
  DEF TriggerRuns, CanSendChains, queueVars, linkVars, wakeVars, workerVars
<1>5. CASE StreamStarted \/ StreamSuspended
  BY <1>5, <1>i, StillInOrder
  DEF StreamStarted, StreamSuspended, queueVars, linkVars, wakeVars, workerVars
<1>6. CASE HciDisconnected \/ SignalingReleased
  BY <1>6, <1>i DEF OInv, HciDisconnected, SignalingReleased, workerVars
<1>7. CASE WorkerStreams \/ WorkerLosesLink \/ WorkerStops
  BY <1>7, <1>i, StillInOrder
  DEF WorkerStreams, WorkerLosesLink, WorkerStops, queueVars, linkVars,
      wakeVars, workerVars
<1>8. CASE WorkerReconnects \/ WorkerConnects
  <2>1. session' = session + 1 /\ enqueued' = 0 /\ count' = 0 /\ taken' = taken
    BY <1>8, <1>i DEF IInv, WorkerReconnects, WorkerConnects, queueVars
  <2>2. taken'.session <= session' /\ taken'.session # session' /\ session' > 0
    BY <1>t, <2>1 DEF OInv
  <2>3. InOrder'
    BY <2>1, <2>2 DEF InOrder
  <2> QED
    BY <1>i, <2>2, <2>3 DEF OInv
<1>9. CASE UNCHANGED vars
  BY <1>9, <1>i, StillInOrder DEF vars, queueVars, linkVars, wakeVars, workerVars
<1> QED
  BY <1>1, <1>2, <1>3, <1>4, <1>5, <1>6, <1>7, <1>8, <1>9
  DEF Next, Sender, Handler, Link, Worker

-----------------------------------------------------------------------------

\* While a stream is up, head, tail and media_queue_count_ agree, whatever the
\* interleaving of send_media(), the CAN_SEND_NOW handler, the unlocked
\* disconnect handlers and reconnect(), for every MEDIA_QUEUE_CAPACITY.
THEOREM QueueIndicesAgree ==
    ASSUME CleanStop
    PROVE  Spec => []IndicesAgree
<1>1. IInv => IndicesAgree
  BY DEF IInv, IndicesAgree, Agree
<1>2. Init => IInv
  BY InitOInv DEF OInv
<1>3. IInv /\ [Next]_vars => IInv'
  BY NextIInv
<1> QED
  BY <1>1, <1>2, <1>3, PTL DEF Spec

\* The CAN_SEND_NOW handler sends the packets of a session in the order in
\* which send_media() enqueued them, none twice, none skipped, none of an
\* earlier session.
THEOREM QueueSendsInOrder ==
    ASSUME CleanStop
    PROVE  Spec => SendsInOrder
<1> DEFINE Succeeds == taken' # taken =>
                          /\ taken'.session = session
                          /\ taken'.number = IF taken.session = session
                                             THEN taken.number + 1 ELSE 1
<1>1. OInv /\ [Next]_vars => [Succeeds]_vars
  <2> SUFFICES ASSUME OInv, [Next]_vars PROVE taken' # taken => Succeeds
    BY DEF vars
  <2>1. CASE CanSendDequeues
    BY <2>1, DequeueInOrder
  <2>2. CASE Sender
    BY <2>2 DEF Sender, SendEnters, SendLocks, SendDrops, SendRejects,
                SendStores, SendTriggers
  <2>3. CASE TriggerRuns \/ CanSendChains
    BY <2>3 DEF TriggerRuns, CanSendChains
  <2>4. CASE Link
    BY <2>4 DEF Link, StreamStarted, StreamSuspended, HciDisconnected,
                SignalingReleased
  <2>5. CASE Worker
    BY <2>5 DEF Worker, WorkerStreams, WorkerLosesLink, WorkerReconnects,
                WorkerStops, WorkerConnects
  <2>6. CASE UNCHANGED vars
    BY <2>6 DEF vars
  <2> QED
    BY <2>1, <2>2, <2>3, <2>4, <2>5, <2>6 DEF Next, Handler
<1>2. OInv /\ [Next]_vars => OInv'
  BY NextOInv
<1> QED
  BY <1>1, <1>2, InitOInv, PTL DEF Spec, SendsInOrder

=============================================================================
