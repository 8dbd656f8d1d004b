--------------------------- MODULE SscDaemonLink ---------------------------
(***************************************************************************)
(* The SSC encoder and its daemon: SscEncoder and DaemonSscBackend on the  *)
(* encode thread (app/src/ssc_encoder.cpp, ssc_daemon_backend.cpp), the    *)
(* TCP connection, and the daemon that serves one client at a time and     *)
(* runs the codec in a helper process (sscblobd.c, sscblobd.py,            *)
(* ssc_blob_helper.c).                                                     *)
(*                                                                         *)
(* A PCM frame and the encoded frame made from it carry the same number;   *)
(* number 0 stands for bytes that are no frame at all.  The connection's   *)
(* two directions are sequences; what is left unread in one is seen by the *)
(* next call, as on a byte stream.                                         *)
(*                                                                         *)
(* SscEncoder::recover() is not an action: encode() calls it only when the *)
(* backend is not connected, and nothing but recover() and shutdown()      *)
(* clears connected_, so that no call of it is ever made.                  *)
(***************************************************************************)
EXTENDS Naturals, Sequences

CONSTANTS
    MaxFrames,      \* bound on the frames of a behaviour
    MaxPending,     \* requests and replies that fit the connection's buffers
    Outcomes        \* what the codec returns: "frame", "none" (ret <= 0),
                    \* "big" (between the client's 4096 and the daemon's 65536)

ASSUME LinkAssumption ==
    /\ MaxFrames \in Nat
    /\ MaxPending \in Nat \ {0}
    /\ Outcomes \subseteq {"frame", "none", "big"}

VARIABLES
    initialized,    \* SscEncoder::initialized_
    connected,      \* DaemonSscBackend::connected_ with an open socket
    client,         \* encode thread: idle, waiting (for a reply), starting
                    \* (in start_daemon())
    frame,          \* number of the frame last submitted
    daemon,         \* down, accepting, serving (this client), hung (its
                    \* helper does not answer; SIGTERM is not noticed)
    peerOpen,       \* the daemon's side of the connection is open
    requests,       \* frames sent and not read by the daemon
    replies,        \* what the client has not read yet
    delivered,      \* [want, got] of the last successful encode()
    newest,         \* history: the last real frame that was delivered
    shifted         \* history: on this connection encode() gave up a reply
                    \* that was still to come, or left one half read

clientVars == <<initialized, connected, client, frame, delivered, newest, shifted>>
daemonVars == <<daemon, peerOpen>>
streamVars == <<requests, replies>>
vars == <<clientVars, daemonVars, streamVars>>

NoFrame == 0
Numbers == 0 .. MaxFrames
Replies == [frame : Numbers, kind : {"frame", "none", "big", "unread"}]

Init ==
    /\ initialized = FALSE
    /\ connected = FALSE
    /\ client = "idle"
    /\ frame = 0
    /\ daemon = "down"
    /\ peerOpen = FALSE
    /\ requests = <<>>
    /\ replies = <<>>
    /\ delivered = [want |-> NoFrame, got |-> NoFrame]
    /\ newest = 0
    /\ shifted = FALSE

-----------------------------------------------------------------------------
(* Starting and stopping the daemon, on the worker's thread.               *)

\* SscEncoder::init().
InitEncoder ==
    /\ client = "idle"
    /\ ~initialized
    /\ client' = "starting"
    /\ UNCHANGED <<initialized, connected, frame, delivered, newest, shifted,
                   daemonVars, streamVars>>

\* start_daemon(): the old daemon is killed and a new one connected to.  The
\* native daemon is terminated; a hung WSL daemon survives SIGTERM and keeps
\* the port, the connection lands in its backlog and counts as a success.
StartSucceeds ==
    /\ client = "starting"
    /\ client' = "idle"
    /\ connected' = TRUE
    /\ initialized' = TRUE
    /\ daemon' \in IF daemon = "hung" THEN {"hung", "accepting"} ELSE {"accepting"}
    /\ peerOpen' = TRUE
    /\ UNCHANGED <<frame, delivered, newest, shifted, streamVars>>

\* No daemon came up, or its address could not be resolved.
StartFails ==
    /\ client = "starting"
    /\ client' = "idle"
    /\ daemon' \in {"down", "accepting"} \cup ({daemon} \cap {"hung"})
    /\ UNCHANGED <<initialized, connected, frame, delivered, newest, shifted,
                   peerOpen, streamVars>>

\* What CMD_SHUTDOWN and TerminateProcess leave of the daemon.  It reads the
\* command unless requests are still queued before it, or the connection is
\* closed; a hung daemon never comes to it.
Ending ==
    CASE daemon = "down" -> {"down"}
      [] daemon = "hung" -> {"hung", "down"}
      [] peerOpen /\ requests = <<>> /\ daemon # "hung" -> {"down"}
      [] OTHER -> {"accepting", "down"}

\* Seeded fault: the socket stays open, the next session reads what is left.
ShutdownKeepingReplies ==
    /\ client = "idle"
    /\ initialized
    /\ initialized' = FALSE
    /\ connected' = FALSE
    /\ peerOpen' = FALSE
    /\ requests' = <<>>
    /\ shifted' = FALSE
    /\ daemon' \in Ending
    /\ UNCHANGED <<client, frame, delivered, newest, replies>>

\* shutdown(): CMD_SHUTDOWN is sent and the socket closed.
ShutdownEncoder ==
    /\ client = "idle"
    /\ initialized
    /\ initialized' = FALSE
    /\ connected' = FALSE
    /\ peerOpen' = FALSE
    /\ requests' = <<>>
    /\ replies' = <<>>
    /\ shifted' = FALSE
    /\ daemon' \in Ending
    /\ UNCHANGED <<client, frame, delivered, newest>>

-----------------------------------------------------------------------------
(* encode() for one frame.                                                 *)

NextFrame == frame + 1

\* encode() is called with the next frame on a connected backend.
Submit ==
    /\ client = "idle"
    /\ initialized /\ connected
    /\ frame < MaxFrames
    /\ frame' = NextFrame

EncodeSends ==
    /\ Submit
    /\ Len(requests) < MaxPending
    /\ peerOpen
    /\ requests' = Append(requests, NextFrame)
    /\ client' = "waiting"
    /\ UNCHANGED <<initialized, connected, delivered, newest, shifted,
                   daemonVars, replies>>

\* send() fails on a connection the daemon has closed: encode() returns false
\* and leaves the backend marked as connected.
EncodeCannotSend ==
    /\ Submit
    /\ ~peerOpen
    /\ UNCHANGED <<initialized, connected, client, delivered, newest, shifted,
                   daemonVars, streamVars>>

\* send() times out on full buffers, with nothing or a part of the request
\* sent; the part is taken for the beginning of the next request.
EncodeSendTimesOut ==
    /\ Submit
    /\ peerOpen
    /\ Len(requests) >= MaxPending
    /\ \/ UNCHANGED requests
       \/ /\ Len(requests) = MaxPending
          /\ requests' = Append(requests, NoFrame)
    /\ shifted' = TRUE
    /\ UNCHANGED <<initialized, connected, client, delivered, newest,
                   daemonVars, replies>>

\* A reply is read; only its length is looked at.
EncodeReceives ==
    /\ client = "waiting"
    /\ replies # <<>>
    /\ client' = "idle"
    /\ \/ /\ Head(replies).kind = "frame"
          /\ delivered' = [want |-> frame, got |-> Head(replies).frame]
          /\ newest' = IF Head(replies).frame = NoFrame THEN newest
                       ELSE Head(replies).frame
          /\ replies' = Tail(replies)
          /\ UNCHANGED shifted
       \/ /\ Head(replies).kind = "none"
          /\ replies' = Tail(replies)
          /\ UNCHANGED <<delivered, newest, shifted>>
       \/ \* A length above 4096 is refused, a frame's bytes may come too
          \* late: the rest stays in the stream.
          /\ Head(replies).kind \in {"big", "frame"}
          /\ replies' = <<[Head(replies) EXCEPT !.kind = "unread"]>> \o Tail(replies)
          /\ shifted' = TRUE
          /\ UNCHANGED <<delivered, newest>>
       \/ \* Left-over bytes are taken for a length, which is refused or takes
          \* more of them for a frame, until the next reply starts with one.
          /\ Head(replies).kind = "unread"
          /\ delivered' \in {delivered, [want |-> frame, got |-> NoFrame]}
          /\ replies' \in {replies, Tail(replies)}
          /\ UNCHANGED <<newest, shifted>>
    /\ UNCHANGED <<initialized, connected, frame, daemonVars, requests>>

\* Seeded fault: recv() without a timeout.
EncodeFailsWhenClosed ==
    /\ client = "waiting"
    /\ replies = <<>>
    /\ ~peerOpen
    /\ client' = "idle"
    /\ UNCHANGED <<initialized, connected, frame, delivered, newest, shifted,
                   daemonVars, streamVars>>

\* Seeded fault: a request that was not answered in time is sent again.
EncodeRetries ==
    /\ client = "waiting"
    /\ replies = <<>>
    /\ shifted' = (shifted \/ peerOpen)
    /\ \/ /\ peerOpen /\ Len(requests) < MaxPending
          /\ requests' = Append(requests, frame)
          /\ UNCHANGED client
       \/ /\ client' = "idle"
          /\ UNCHANGED requests
    /\ UNCHANGED <<initialized, connected, frame, delivered, newest, daemonVars,
                   replies>>

\* recv() times out, whether or not the answer is still to come, or the
\* connection was closed.
EncodeFails ==
    /\ client = "waiting"
    /\ replies = <<>>
    /\ client' = "idle"
    /\ shifted' = (shifted \/ peerOpen)
    /\ UNCHANGED <<initialized, connected, frame, delivered, newest, daemonVars,
                   streamVars>>

-----------------------------------------------------------------------------
(* The daemon.                                                             *)

\* accept(), a helper is started for the client.
DaemonAccepts ==
    /\ daemon = "accepting"
    /\ peerOpen
    /\ daemon' = "serving"
    /\ UNCHANGED <<clientVars, peerOpen, streamVars>>

DaemonEncodes ==
    /\ daemon = "serving"
    /\ requests # <<>>
    /\ Head(requests) # NoFrame
    /\ Len(replies) < MaxPending
    /\ \E k \in Outcomes :
           replies' = Append(replies, [frame |-> Head(requests), kind |-> k])
    /\ requests' = Tail(requests)
    /\ UNCHANGED <<clientVars, daemonVars>>

\* Half a request is completed by the beginning of the one after it.
DaemonEncodesHalves ==
    /\ daemon = "serving"
    /\ Len(requests) >= 2
    /\ Head(requests) = NoFrame
    /\ Len(replies) < MaxPending
    /\ \E k \in Outcomes :
           replies' = Append(replies, [frame |-> NoFrame, kind |-> k])
    /\ requests' = <<NoFrame>> \o Tail(Tail(requests))
    /\ UNCHANGED <<clientVars, daemonVars>>

\* The helper died or was not ready, or a length is out of range: the
\* client's connection is closed.
DaemonDrops ==
    /\ daemon = "serving"
    /\ daemon' = "accepting"
    /\ peerOpen' = FALSE
    /\ requests' = <<>>
    /\ UNCHANGED <<clientVars, replies>>

DaemonDies ==
    /\ daemon # "down"
    /\ daemon' = "down"
    /\ peerOpen' = FALSE
    /\ requests' = <<>>
    /\ UNCHANGED <<clientVars, replies>>

\* The helper stops answering.
DaemonHangs ==
    /\ daemon = "serving"
    /\ requests # <<>>
    /\ daemon' = "hung"
    /\ UNCHANGED <<clientVars, peerOpen, streamVars>>

-----------------------------------------------------------------------------
Start == StartSucceeds \/ StartFails
Encode == \/ EncodeSends \/ EncodeCannotSend \/ EncodeSendTimesOut
          \/ EncodeReceives \/ EncodeFails
Daemon == DaemonAccepts \/ DaemonEncodes \/ DaemonEncodesHalves
Fault == DaemonDrops \/ DaemonDies \/ DaemonHangs

Next == \/ InitEncoder \/ ShutdownEncoder \/ Start \/ Encode \/ Daemon \/ Fault

Spec == Init /\ [][Next]_vars

\* recv() has a timeout.  Nothing is assumed of the daemon, nor of Start:
\* run_wsl() reads a pipe without a timeout and may never return.
Fairness == WF_vars(EncodeReceives \/ EncodeFails)

FairSpec == Spec /\ Fairness

-----------------------------------------------------------------------------
\* The types; and initialized_ and connected_ always agree, which is why
\* encode() never calls the watchdog, recover().
TypeOK ==
    /\ connected = initialized
    /\ initialized \in BOOLEAN /\ connected \in BOOLEAN
    /\ peerOpen \in BOOLEAN /\ shifted \in BOOLEAN
    /\ client \in {"idle", "waiting", "starting"}
    /\ frame \in Numbers
    /\ daemon \in {"down", "accepting", "serving", "hung"}
    /\ requests \in Seq(Numbers)
    /\ replies \in Seq(Replies)
    /\ delivered \in [want : Numbers, got : Numbers]
    /\ newest \in Numbers

\* Client and daemon are in step: on a connection on which no reply was given
\* up, nothing is in flight between two calls, and during a call at most the
\* request of this very frame or its reply - whatever happened to the daemon
\* and to earlier connections.  So encode() hands out the frame made from
\* the PCM it was given, and a new session always starts in step.
InStep ==
    /\ TypeOK
    /\ connected /\ ~shifted =>
          /\ client = "idle" => requests = <<>> /\ replies = <<>>
          /\ client = "waiting" =>
                /\ Len(requests) + Len(replies) <= 1
                /\ \A i \in DOMAIN requests : requests[i] = frame
                /\ \A i \in DOMAIN replies : replies[i].frame = frame

\* Out of step, after timeouts, half sent requests and refused replies, what
\* encode() delivers may be late or no frame at all, but a real frame is never
\* delivered twice, nor after a younger one: a request that was given up is
\* neither repeated nor overtaken, and no session reads the answers of another.
AnswersInOrder ==
    [][delivered' # delivered /\ delivered'.got # NoFrame =>
        newest < delivered'.got /\ delivered'.got <= delivered'.want]_vars

\* "Synchronous request/response per 864-sample frame"
\* (docs/architecture.md): what encode() delivers is the answer to its own
\* request, on every connection.
RequestResponse == delivered.want = delivered.got

\* No failure of the daemon blocks the encode thread: every call that was sent
\* returns.
EncodeReturns == (client = "waiting") ~> (client = "idle")

\* A daemon that died is brought back by the watchdog while encode() goes on
\* being called: "socket marked connected_=false -> watchdog path"
\* (docs/architecture.md).
WatchdogRestarts ==
    (initialized /\ daemon = "down") ~> (daemon # "down" \/ ~initialized)

=============================================================================
