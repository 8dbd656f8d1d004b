----------------------------- MODULE MediaQueue -----------------------------
(***************************************************************************)
(* The media packet queue of BtStackTransport                              *)
(* (app/src/btstack_transport.cpp): send_media() on the encode thread      *)
(* fills it under send_mutex_, the CAN_SEND_NOW handler on the BTstack     *)
(* thread empties it, the disconnect events and reconnect() reset it       *)
(* without the mutex.  The wake-up protocol between the two threads        *)
(* (media_trigger_pending_, the run-loop callback, the chained requests)   *)
(* is modelled step by step.                                               *)
(*                                                                         *)
(* A packet is the session it was encoded for and its number in it.  The   *)
(* failure counter, which only feeds statistics, is left out.              *)
(***************************************************************************)
EXTENDS Naturals

CONSTANTS
    Capacity,       \* MEDIA_QUEUE_CAPACITY
    MaxPackets,     \* bound on the packets enqueued in a session
    MaxSessions,    \* bound on the connections made in a behaviour
    CleanStop       \* TRUE: a session is only ended by the user, or given up
                    \* after a link loss, when no packet is queued

ASSUME QueueAssumption ==
    /\ Capacity \in Nat \ {0}
    /\ MaxPackets \in Nat
    /\ MaxSessions \in Nat
    /\ CleanStop \in BOOLEAN

VARIABLES
    queue, head, tail, count,   \* media_queue_ and its indices
    streaming,      \* streaming_
    link,           \* signaling connection: up, dying (the ACL link is gone,
                    \* its release not yet reported), none (a2dp_cid_ is 0)
    lost,           \* disconnect_occurred_
    started,        \* start_result_
    pending,        \* media_trigger_pending_
    posted,         \* the trigger callback is in the run loop's list
    requested,      \* BTstack owes a CAN_SEND_NOW event (external)
    sender,         \* send_media(): idle, entered, locked, stored
    handler,        \* CAN_SEND_NOW handler: idle, dequeued
    worker,         \* streaming worker: connecting, streaming, lost, stopped
    encoderSet,     \* the encode thread is allowed to send
    session,        \* number of the current session
    enqueued,       \* packets enqueued in the session
    taken           \* the packet the handler dequeued last

queueVars == <<queue, head, tail, count>>
linkVars == <<streaming, link, lost, started>>
wakeVars == <<pending, posted, requested>>
workerVars == <<worker, encoderSet, session>>
vars == <<queueVars, linkVars, wakeVars, sender, handler, workerVars,
          enqueued, taken>>

Slots == 0 .. Capacity - 1
NoPacket == [session |-> 0, number |-> 0]
Following(i) == IF i + 1 = Capacity THEN 0 ELSE i + 1

Init ==
    /\ queue = [i \in Slots |-> NoPacket]
    /\ head = 0 /\ tail = 0 /\ count = 0
    /\ streaming = FALSE /\ link = "up" /\ lost = FALSE /\ started = FALSE
    /\ pending = FALSE /\ posted = FALSE /\ requested = FALSE
    /\ sender = "idle" /\ handler = "idle"
    /\ worker = "connecting" /\ encoderSet = FALSE /\ session = 1
    /\ enqueued = 0
    /\ taken = NoPacket

-----------------------------------------------------------------------------
(* send_media(), on the encode thread.                                     *)

SendEnters ==
    /\ sender = "idle"
    /\ encoderSet
    /\ streaming
    /\ enqueued < MaxPackets
    /\ sender' = "entered"
    /\ UNCHANGED <<queueVars, linkVars, wakeVars, handler, workerVars,
                   enqueued, taken>>

\* send_mutex_ is taken (the handler holds it only inside one step here) and
\* media_queue_count_ is compared with the capacity.
SendLocks ==
    /\ sender = "entered"
    /\ count < Capacity
    /\ sender' = "locked"
    /\ UNCHANGED <<queueVars, linkVars, wakeVars, handler, workerVars,
                   enqueued, taken>>

\* Queue full: the packet is dropped and nobody is woken.
SendDrops ==
    /\ sender = "entered"
    /\ count >= Capacity
    /\ sender' = "idle"
    /\ UNCHANGED <<queueVars, linkVars, wakeVars, handler, workerVars,
                   enqueued, taken>>

\* The payload does not fit in MediaPacket::data.
SendRejects ==
    /\ sender = "locked"
    /\ sender' = "idle"
    /\ UNCHANGED <<queueVars, linkVars, wakeVars, handler, workerVars,
                   enqueued, taken>>

\* Seeded fault: head advances before the slot is filled.
SendStoresAhead ==
    /\ sender = "locked"
    /\ sender' = "stored"
    /\ enqueued' = enqueued + 1
    /\ queue' = [queue EXCEPT ![Following(head)] =
                    [session |-> session, number |-> enqueued + 1]]
    /\ head' = Following(head)
    /\ count' = count + 1
    /\ UNCHANGED <<tail, linkVars, wakeVars, handler, workerVars, taken>>

\* The slot is filled, head and count advance, the mutex is released.
SendStores ==
    /\ sender = "locked"
    /\ sender' = "stored"
    /\ enqueued' = enqueued + 1
    /\ queue' = [queue EXCEPT ![head] =
                    [session |-> session, number |-> enqueued + 1]]
    /\ head' = Following(head)
    /\ count' = count + 1
    /\ UNCHANGED <<tail, linkVars, wakeVars, handler, workerVars, taken>>

\* media_trigger_pending_.exchange(true): only the first caller posts.
SendTriggers ==
    /\ sender = "stored"
    /\ sender' = "idle"
    /\ pending' = TRUE
    /\ posted' = (posted \/ ~pending)
    /\ UNCHANGED <<queueVars, linkVars, requested, handler, workerVars,
                   enqueued, taken>>

-----------------------------------------------------------------------------
(* The BTstack thread: the trigger callback and the A2DP events.           *)

TriggerRuns ==
    /\ posted
    /\ handler = "idle"
    /\ posted' = FALSE
    /\ pending' = FALSE
    /\ requested' = (requested \/ (streaming /\ link # "none"))
    /\ UNCHANGED <<queueVars, linkVars, sender, handler, workerVars,
                   enqueued, taken>>

\* CAN_SEND_NOW: take the oldest packet under the mutex; whether the payload
\* is then sent or refused by the stack makes no difference to the queue.
CanSendDequeues ==
    /\ requested
    /\ handler = "idle"
    /\ sender # "locked"
    /\ requested' = FALSE
    /\ handler' = "dequeued"
    /\ \/ /\ count > 0
          /\ taken' = queue[tail]
          /\ tail' = Following(tail)
          /\ count' = count - 1
       \/ /\ count = 0
          /\ UNCHANGED <<taken, tail, count>>
    /\ UNCHANGED <<queue, head, linkVars, pending, posted, sender, workerVars,
                   enqueued>>

\* Seeded fault: one request sends one packet, nothing is chained.
CanSendChainsNot ==
    /\ handler = "dequeued"
    /\ handler' = "idle"
    /\ requested' = FALSE
    /\ UNCHANGED <<queueVars, linkVars, pending, posted, sender, workerVars,
                   enqueued, taken>>

\* The rest of the handler, without the mutex: chain while packets remain.
CanSendChains ==
    /\ handler = "dequeued"
    /\ handler' = "idle"
    /\ requested' = (count > 0 /\ link = "up")
    /\ UNCHANGED <<queueVars, linkVars, pending, posted, sender, workerVars,
                   enqueued, taken>>

\* STREAM_STARTED: the worker asked for it, or the sink resumes the stream.
StreamStarted ==
    /\ handler = "idle"
    /\ link = "up" /\ ~streaming
    /\ streaming' = TRUE
    /\ started' = TRUE
    /\ requested' = TRUE
    /\ UNCHANGED <<queueVars, link, lost, pending, posted, sender, handler,
                   workerVars, enqueued, taken>>

\* STREAM_SUSPENDED and STREAM_RELEASED.
StreamSuspended ==
    /\ handler = "idle"
    /\ link = "up" /\ streaming
    /\ streaming' = FALSE
    /\ requested' = FALSE
    /\ UNCHANGED <<queueVars, link, lost, started, pending, posted, sender,
                   handler, workerVars, enqueued, taken>>

\* HCI_EVENT_DISCONNECTION_COMPLETE: the link is gone, the signaling
\* connection is reported released by an event of its own.
HciDisconnected ==
    /\ handler = "idle"
    /\ link = "up"
    /\ link' = "dying"
    /\ streaming' = FALSE
    /\ count' = 0
    /\ lost' = TRUE
    /\ requested' = FALSE
    /\ UNCHANGED <<queue, head, tail, started, pending, posted, sender,
                   handler, workerVars, enqueued, taken>>

SignalingReleased ==
    /\ handler = "idle"
    /\ link # "none"
    /\ link' = "none"
    /\ streaming' = FALSE
    /\ count' = 0
    /\ lost' = TRUE
    /\ requested' = FALSE
    /\ UNCHANGED <<queue, head, tail, started, pending, posted, sender, handler,
                   workerVars, enqueued, taken>>

-----------------------------------------------------------------------------
(* The streaming worker.                                                   *)

\* connect_a2dp(), configure_codec() and start_stream() have succeeded.
WorkerStreams ==
    /\ worker = "connecting"
    /\ started
    /\ worker' = "streaming"
    /\ encoderSet' = TRUE
    /\ UNCHANGED <<queueVars, linkVars, wakeVars, sender, handler, session,
                   enqueued, taken>>

\* check_disconnected().
WorkerLosesLink ==
    /\ worker = "streaming"
    /\ lost
    /\ worker' = "lost"
    /\ lost' = FALSE
    /\ encoderSet' = FALSE
    /\ UNCHANGED <<queueVars, streaming, link, started, wakeVars, sender,
                   handler, session, enqueued, taken>>

\* Seeded fault: only the packet count is reset, as the disconnect events do.
WorkerReconnectsKeepingIndices ==
    /\ worker = "lost"
    /\ sender = "idle" /\ handler = "idle" /\ link = "none"
    /\ session < MaxSessions
    /\ count' = 0
    /\ streaming' = FALSE /\ link' = "up" /\ lost' = FALSE /\ started' = FALSE
    /\ worker' = "connecting"
    /\ session' = session + 1
    /\ enqueued' = 0
    /\ UNCHANGED <<queue, head, tail, wakeVars, sender, handler, encoderSet, taken>>

\* reconnect(), three seconds after the encoder was taken away: the send in
\* flight is over, the queue is reset, a new connection is set up.
WorkerReconnects ==
    /\ worker = "lost"
    /\ sender = "idle" /\ handler = "idle" /\ link = "none"
    /\ session < MaxSessions
    /\ head' = 0 /\ tail' = 0 /\ count' = 0
    /\ streaming' = FALSE /\ link' = "up" /\ lost' = FALSE /\ started' = FALSE
    /\ worker' = "connecting"
    /\ session' = session + 1
    /\ enqueued' = 0
    /\ UNCHANGED <<queue, wakeVars, sender, handler, encoderSet, taken>>

\* The user stops, or the reconnect attempts are used up: the encode thread
\* is waited for, then stop_stream() and disconnect().
WorkerStops ==
    /\ worker # "stopped"
    /\ sender = "idle"
    /\ CleanStop => head = tail /\ count = 0
    /\ worker' = "stopped"
    /\ encoderSet' = FALSE
    /\ streaming' = FALSE
    /\ UNCHANGED <<queueVars, link, lost, started, wakeVars, sender, handler,
                   session, enqueued, taken>>

\* The next session on the same transport: connect_a2dp() leaves the queue
\* as it is.
WorkerConnects ==
    /\ worker = "stopped"
    /\ link = "none"
    /\ session < MaxSessions
    /\ link' = "up" /\ lost' = FALSE /\ started' = FALSE
    /\ worker' = "connecting"
    /\ session' = session + 1
    /\ enqueued' = 0
    /\ UNCHANGED <<queueVars, streaming, wakeVars, sender, handler, encoderSet,
                   taken>>

-----------------------------------------------------------------------------
Sender == SendEnters \/ SendLocks \/ SendDrops \/ SendRejects \/ SendStores
              \/ SendTriggers
Handler == TriggerRuns \/ CanSendDequeues \/ CanSendChains
Link == StreamStarted \/ StreamSuspended \/ HciDisconnected \/ SignalingReleased
Worker == WorkerStreams \/ WorkerLosesLink \/ WorkerReconnects \/ WorkerStops
              \/ WorkerConnects

Next == Sender \/ Handler \/ Link \/ Worker

Spec == Init /\ [][Next]_vars

\* The run loop serves its list and the controller grants what was requested
\* for as long as the stream is up; the sender never blocks for good.  The
\* handler competes for send_mutex_ with a sender that holds it for one copy
\* every few milliseconds, so it gets the mutex in the end (strong fairness).
Fairness ==
    /\ WF_vars(SendTriggers)
    /\ WF_vars(SendStores)
    /\ WF_vars(TriggerRuns)
    /\ SF_vars(CanSendDequeues)
    /\ WF_vars(CanSendChains)

FairSpec == Spec /\ Fairness

-----------------------------------------------------------------------------
Packets == [session : Nat, number : Nat]

TypeOK ==
    /\ queue \in [Slots -> Packets]
    /\ head \in Slots
    /\ tail \in Slots
    /\ count \in 0 .. Capacity
    /\ streaming \in BOOLEAN /\ link \in {"up", "dying", "none"}
    /\ lost \in BOOLEAN /\ started \in BOOLEAN
    /\ pending \in BOOLEAN /\ posted \in BOOLEAN /\ requested \in BOOLEAN
    /\ sender \in {"idle", "entered", "locked", "stored"}
    /\ handler \in {"idle", "dequeued"}
    /\ worker \in {"connecting", "streaming", "lost", "stopped"}
    /\ encoderSet \in BOOLEAN
    /\ session \in Nat
    /\ enqueued \in Nat
    /\ taken \in Packets

\* While a stream is up the write and the read position agree with the packet
\* count, although count is also stored to by unlocked disconnect handlers and
\* by a reset on a third thread: a slot counted as queued is one that was
\* written, and a free slot is really free.
IndicesAgree ==
    /\ TypeOK
    /\ streaming => \/ tail + count = head
                    \/ tail + count = head + Capacity

\* Packets leave in the order they were enqueued, none twice, none skipped,
\* and only while the session they were encoded for is the current one: the
\* sink never plays audio left over from an earlier connection.
SendsInOrder ==
    [][taken' # taken =>
          /\ taken'.session = session
          /\ taken'.number = IF taken.session = session
                             THEN taken.number + 1 ELSE 1]_vars

\* No lost wake-up: a packet that was enqueued while the stream is up is sent,
\* unless the stream goes down.  It may not depend on a later packet arriving.
EveryPacketSent ==
    \A k \in 1 .. MaxPackets, s \in 1 .. MaxSessions :
        (session = s /\ enqueued >= k)
            ~> (~streaming \/ session # s
                    \/ (taken.session = s /\ taken.number >= k))

=============================================================================
