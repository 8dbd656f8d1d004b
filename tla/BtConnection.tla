---------------------------- MODULE BtConnection ----------------------------
(***************************************************************************)
(* The bridge between the streaming worker and the BTstack run loop in     *)
(* BtStackTransport (app/src/btstack_transport.cpp): connect_a2dp(),       *)
(* configure_codec(), start_stream(), reconnect(), stop_stream() and       *)
(* disconnect() on the worker, each of which sends a request to the run    *)
(* loop and waits on a Windows event; the A2DP and HCI handlers that set   *)
(* these events; and cancel_pending_waits() on the UI thread.              *)
(*                                                                         *)
(* connect_event_, stream_event_, start_event_ and disconnect_event_ are   *)
(* auto-reset events (a successful wait clears them), cancel_event_ is     *)
(* manual-reset.  BTstack itself is external: stack and media say how far  *)
(* its one connection has come.  The run loop serves a request within the  *)
(* 5 s for which its caller waits.                                         *)
(***************************************************************************)
EXTENDS Naturals

CONSTANTS
    MaxSessions,    \* bound on the sessions started in a behaviour
    MaxAttempts     \* reconnect attempts (10 in the code)

ASSUME ConnectionAssumption ==
    /\ MaxSessions \in Nat
    /\ MaxAttempts \in Nat \ {0}

VARIABLES
    prompt,         \* TRUE: the headset answers within every timeout, the
                    \* stack has closed a connection before the next attempt
                    \* or session begins, and the user stops only a stream
                    \* that is up.  FALSE: none of this holds.
    ui,             \* stop_streaming(): idle, cancelling
    stopReq,        \* stop_requested_
    sessions,       \* sessions started so far
    worker,         \* the transport call the worker is in
    attempt,        \* number of the reconnect attempt, 0 outside reconnect()
    connected, streaming,           \* connected_, streaming_
    lost,                           \* disconnect_occurred_
    cid, seid,                      \* a2dp_cid_, local_seid_ are not 0
    cancel,                         \* cancel_event_
    connectEv, streamEv, startEv, discEv,
    connectOk, streamOk, startOk,   \* connect_result_, ...
    stack,          \* signaling connection in BTstack: none, establishing,
                    \* discovering (capabilities), open, closing
    media           \* its stream: none, configuring, opened, starting, streaming

uiVars == <<ui, stopReq, sessions>>
flagVars == <<connected, streaming, lost, cid, seid>>
eventVars == <<cancel, connectEv, streamEv, startEv, discEv>>
resultVars == <<connectOk, streamOk, startOk>>
stackVars == <<stack, media>>
vars == <<prompt, uiVars, worker, attempt, flagVars, eventVars, resultVars,
          stackVars>>

\* Where the worker waits, and for what.
Waiting == {"connectWait", "streamWait", "startWait", "discWait"}
Early == {"entering", "resetting", "establishing", "connectWait"}

Init ==
    /\ prompt \in BOOLEAN
    /\ ui = "idle" /\ stopReq = FALSE /\ sessions = 0
    /\ worker = "idle" /\ attempt = 0
    /\ connected = FALSE /\ streaming = FALSE /\ lost = FALSE
    /\ cid = FALSE /\ seid = FALSE
    /\ cancel = FALSE
    /\ connectEv = FALSE /\ streamEv = FALSE /\ startEv = FALSE /\ discEv = FALSE
    /\ connectOk = FALSE /\ streamOk = FALSE /\ startOk = FALSE
    /\ stack = "none" /\ media = "none"

-----------------------------------------------------------------------------
(* The UI thread.                                                          *)

StartSession ==
    /\ ui = "idle" /\ worker = "idle"
    /\ sessions < MaxSessions
    /\ prompt => stack # "closing"
    /\ stopReq' = FALSE
    /\ sessions' = sessions + 1
    /\ worker' = "entering"
    /\ UNCHANGED <<prompt, ui, attempt, flagVars, eventVars, resultVars,
                   stackVars>>

\* stop_streaming() sets stop_requested_ ...
StopRequests ==
    /\ ui = "idle"
    /\ worker # "idle"
    /\ prompt => worker \notin Early /\ attempt = 0
    /\ stopReq' = TRUE
    /\ ui' = "cancelling"
    /\ UNCHANGED <<prompt, sessions, worker, attempt, flagVars, eventVars,
                   resultVars,
                   stackVars>>

\* ... and then cancel_pending_waits().
StopCancels ==
    /\ ui = "cancelling"
    /\ cancel' = TRUE
    /\ ui' = "idle"
    /\ UNCHANGED <<prompt, stopReq, sessions, worker, attempt, flagVars,
                   connectEv,
                   streamEv, startEv, discEv, resultVars, stackVars>>

-----------------------------------------------------------------------------
(* connect_a2dp() and reconnect().                                         *)

\* A wait ends unsuccessfully: cancelled, or timed out.  The awaited event
\* comes first in the handle array, so it wins over a cancel.
Expires(event, underWay) == ~event /\ (cancel \/ ~prompt \/ ~underWay)

\* stop_requested_ is read once before connect_a2dp() is called.
WorkerEnters ==
    /\ worker = "entering"
    /\ worker' = IF stopReq THEN "idle" ELSE "resetting"
    /\ UNCHANGED <<prompt, uiVars, attempt, flagVars, eventVars, resultVars,
                   stackVars>>

\* Seeded fault: a loss reported for the previous connection is kept.
ConnectResetsKeepingLoss ==
    /\ worker = "resetting"
    /\ attempt = 0
    /\ cancel' = FALSE /\ connectEv' = FALSE /\ streamEv' = FALSE
    /\ connectOk' = FALSE /\ streamOk' = FALSE
    /\ worker' = "establishing"
    /\ UNCHANGED <<prompt, uiVars, attempt, connected, streaming, lost, cid,
                   seid, startEv,
                   discEv, startOk, stackVars>>

\* connect_a2dp(): stale events and results are cleared.
ConnectResets ==
    /\ worker = "resetting"
    /\ attempt = 0
    /\ lost' = FALSE
    /\ cancel' = FALSE /\ connectEv' = FALSE /\ streamEv' = FALSE
    /\ connectOk' = FALSE /\ streamOk' = FALSE
    /\ worker' = "establishing"
    /\ UNCHANGED <<prompt, uiVars, attempt, connected, streaming, cid, seid,
                   startEv,
                   discEv, startOk, stackVars>>

\* reconnect(): the connection state is cleared as well, but no event except
\* cancel_event_.
ReconnectResets ==
    /\ worker = "resetting"
    /\ attempt > 0
    /\ connected' = FALSE /\ streaming' = FALSE /\ lost' = FALSE
    /\ cid' = FALSE /\ seid' = FALSE
    /\ cancel' = FALSE
    /\ connectOk' = FALSE /\ streamOk' = FALSE /\ startOk' = FALSE
    /\ worker' = "establishing"
    /\ UNCHANGED <<prompt, uiVars, attempt, connectEv, streamEv, startEv,
                   discEv,
                   stackVars>>

\* Where a failed connection attempt leads: the session is over without a
\* disconnect(), or the next reconnect attempt is due.
ConnectFailed == IF attempt = 0 THEN "idle" ELSE "retrying"

\* a2dp_source_establish_stream() on the run loop.
Establish ==
    /\ worker = "establishing"
    /\ \/ /\ stack = "none"
          /\ stack' = "establishing"
          /\ cid' = TRUE
          /\ worker' = "connectWait"
       \/ /\ stack # "none"
          /\ worker' = ConnectFailed
          /\ UNCHANGED <<prompt, stack, cid>>
    /\ UNCHANGED <<prompt, uiVars, attempt, connected, streaming, lost, seid,
                   eventVars,
                   resultVars, media>>

ConnectAnswered ==
    /\ worker = "connectWait"
    /\ connectEv
    /\ connectEv' = FALSE
    /\ worker' = IF connectOk THEN "connected" ELSE ConnectFailed
    /\ UNCHANGED <<prompt, uiVars, attempt, flagVars, cancel, streamEv,
                   startEv, discEv,
                   resultVars, stackVars>>


ConnectExpires ==
    /\ worker = "connectWait"
    /\ Expires(connectEv, stack \in {"establishing", "discovering"})
    /\ worker' = ConnectFailed
    /\ UNCHANGED <<prompt, uiVars, attempt, flagVars, eventVars, resultVars,
                   stackVars>>

-----------------------------------------------------------------------------
(* configure_codec() and start_stream().                                   *)

\* Between connect_a2dp() and configure_codec() the service looks at
\* stop_requested_, and may fail to agree on a codec or to open the capture.
ConfigureSkipped ==
    /\ worker = "connected"
    /\ attempt = 0
    /\ worker' = "disconnecting"
    /\ UNCHANGED <<prompt, uiVars, attempt, flagVars, eventVars, resultVars,
                   stackVars>>

\* Refused when the link is down or the headset does not offer the codec.
ConfigureBegins ==
    /\ worker = "connected"
    /\ attempt = 0 => ~stopReq
    /\ \/ /\ worker' = "disconnecting"
          /\ UNCHANGED media
       \/ /\ connected /\ stack = "open"
          /\ worker' = "streamWait"
          /\ media' = "configuring"
    /\ streamEv' = IF connected THEN FALSE ELSE streamEv
    /\ streamOk' = IF connected THEN FALSE ELSE streamOk
    /\ UNCHANGED <<prompt, uiVars, attempt, flagVars, cancel, connectEv,
                   startEv, discEv,
                   connectOk, startOk, stack>>

\* Seeded fault: the link is kept when the configuration is refused.
ConfigureAnsweredNotClosing ==
    /\ worker = "streamWait"
    /\ streamEv
    /\ streamEv' = FALSE
    /\ worker' = IF streamOk THEN "configured" ELSE ConnectFailed
    /\ UNCHANGED <<prompt, uiVars, attempt, flagVars, cancel, connectEv,
                   startEv, discEv,
                   resultVars, stackVars>>

ConfigureAnswered ==
    /\ worker = "streamWait"
    /\ streamEv
    /\ streamEv' = FALSE
    /\ worker' = IF streamOk THEN "configured" ELSE "disconnecting"
    /\ UNCHANGED <<prompt, uiVars, attempt, flagVars, cancel, connectEv,
                   startEv, discEv,
                   resultVars, stackVars>>

ConfigureExpires ==
    /\ worker = "streamWait"
    /\ Expires(streamEv, media = "configuring")
    /\ worker' = "disconnecting"
    /\ UNCHANGED <<prompt, uiVars, attempt, flagVars, eventVars, resultVars,
                   stackVars>>

StartBegins ==
    /\ worker = "configured"
    /\ LET called == connected /\ seid
       IN  /\ startEv' = IF called THEN FALSE ELSE startEv
           /\ startOk' = IF called THEN FALSE ELSE startOk
           /\ \/ /\ called /\ media = "opened"
                 /\ media' = "starting"
                 /\ worker' = "startWait"
              \/ /\ ~called \/ media # "opened"
                 /\ worker' = "disconnecting"
                 /\ UNCHANGED media
    /\ UNCHANGED <<prompt, uiVars, attempt, flagVars, cancel, connectEv,
                   streamEv, discEv,
                   connectOk, streamOk, stack>>

StartAnswered ==
    /\ worker = "startWait"
    /\ startEv
    /\ startEv' = FALSE
    /\ worker' = IF startOk THEN "loop" ELSE "disconnecting"
    /\ attempt' = IF startOk THEN 0 ELSE attempt
    /\ UNCHANGED <<prompt, uiVars, flagVars, cancel, connectEv, streamEv,
                   discEv,
                   resultVars, stackVars>>

StartExpires ==
    /\ worker = "startWait"
    /\ Expires(startEv, media = "starting")
    /\ worker' = "disconnecting"
    /\ UNCHANGED <<prompt, uiVars, attempt, flagVars, eventVars, resultVars,
                   stackVars>>

-----------------------------------------------------------------------------
(* The main loop, the reconnect attempts and the end of the session.       *)

LoopLosesLink ==
    /\ worker = "loop"
    /\ ~stopReq
    /\ lost
    /\ lost' = FALSE
    /\ attempt' = 1
    /\ worker' = "pausing"
    /\ UNCHANGED <<prompt, uiVars, connected, streaming, cid, seid, eventVars,
                   resultVars,
                   stackVars>>

\* Sleep(3000), then stop_requested_ is looked at again.
PauseEnds ==
    /\ worker = "pausing"
    /\ ~stopReq
    /\ prompt => stack # "closing"
    /\ worker' = "resetting"
    /\ UNCHANGED <<prompt, uiVars, attempt, flagVars, eventVars, resultVars,
                   stackVars>>

ReconnectRetries ==
    /\ worker = "retrying"
    /\ ~stopReq /\ attempt < MaxAttempts
    /\ attempt' = attempt + 1
    /\ worker' = "pausing"
    /\ UNCHANGED <<prompt, uiVars, flagVars, eventVars, resultVars, stackVars>>

SessionEnds ==
    /\ \/ worker \in {"loop", "pausing"} /\ stopReq
       \/ worker = "retrying" /\ (stopReq \/ attempt = MaxAttempts)
    /\ attempt' = 0
    /\ worker' = "stopping"
    /\ UNCHANGED <<prompt, uiVars, flagVars, eventVars, resultVars, stackVars>>

\* stop_stream(): a pause request, if the stream is up.
StopStream ==
    /\ worker = "stopping"
    /\ worker' = "disconnecting"
    /\ streaming' = FALSE
    /\ media' = IF streaming /\ media = "streaming" THEN "opened" ELSE media
    /\ UNCHANGED <<prompt, uiVars, attempt, connected, lost, cid, seid,
                   eventVars,
                   resultVars, stack>>

\* Where disconnect() returns to.
Disconnected == IF attempt = 0 THEN "idle" ELSE "retrying"

\* disconnect(): nothing to do without an a2dp_cid_; otherwise stop_stream()
\* and a2dp_source_disconnect() on the run loop.
Disconnect ==
    /\ worker = "disconnecting"
    /\ \/ /\ ~cid
          /\ worker' = Disconnected
          /\ UNCHANGED <<prompt, streaming, stackVars>>
       \/ /\ cid
          /\ worker' = "discWait"
          /\ streaming' = FALSE
          /\ stack' = IF stack = "none" THEN "none" ELSE "closing"
          /\ media' = "none"
    /\ UNCHANGED <<prompt, uiVars, attempt, connected, lost, cid, seid,
                   eventVars,
                   resultVars>>

\* The wait's outcome is ignored: released, cancelled or timed out.
DisconnectReturns ==
    /\ worker = "discWait"
    /\ discEv \/ Expires(discEv, stack = "closing")
    /\ discEv' = FALSE
    /\ connected' = FALSE /\ streaming' = FALSE /\ cid' = FALSE
    /\ worker' = Disconnected
    /\ UNCHANGED <<prompt, uiVars, attempt, lost, seid, cancel, connectEv,
                   streamEv,
                   startEv, resultVars, stackVars>>

-----------------------------------------------------------------------------
(* The event handlers on the BTstack thread.                               *)

\* SIGNALING_CONNECTION_ESTABLISHED, with either status.
SignalingFails ==
    /\ stack = "establishing"
    /\ stack' = "none"
    /\ cid' = TRUE
    /\ connectOk' = FALSE
    /\ connectEv' = TRUE
    /\ UNCHANGED <<prompt, uiVars, worker, attempt, connected, streaming,
                   lost, seid,
                   cancel, streamEv, startEv, discEv, streamOk, startOk, media>>

SignalingEstablished ==
    /\ stack = "establishing"
    /\ stack' = "discovering"
    /\ cid' = TRUE
    /\ UNCHANGED <<prompt, uiVars, worker, attempt, connected, streaming,
                   lost, seid,
                   eventVars, resultVars, media>>

CapabilitiesComplete ==
    /\ stack = "discovering"
    /\ stack' = "open"
    /\ connected' = TRUE
    /\ connectOk' = TRUE
    /\ connectEv' = TRUE
    /\ UNCHANGED <<prompt, uiVars, worker, attempt, streaming, lost, cid,
                   seid, cancel,
                   streamEv, startEv, discEv, streamOk, startOk, media>>

\* STREAM_ESTABLISHED, with either status.
StreamEstablished(ok) ==
    /\ media = "configuring"
    /\ media' = IF ok THEN "opened" ELSE "none"
    /\ seid' = (ok \/ seid)
    /\ streamOk' = ok
    /\ streamEv' = TRUE
    /\ UNCHANGED <<prompt, uiVars, worker, attempt, connected, streaming,
                   lost, cid,
                   cancel, connectEv, startEv, discEv, connectOk, startOk, stack>>

\* STREAM_STARTED: requested here, or by the sink.
StreamStarted ==
    /\ media \in {"opened", "starting"}
    /\ media' = "streaming"
    /\ streaming' = TRUE
    /\ startOk' = TRUE
    /\ startEv' = TRUE
    /\ UNCHANGED <<prompt, uiVars, worker, attempt, connected, lost, cid,
                   seid, cancel,
                   connectEv, streamEv, discEv, connectOk, streamOk, stack>>

\* COMMAND_REJECTED is only logged: the wait for the answer times out.
CommandRejected ==
    /\ media \in {"configuring", "starting"}
    /\ media' = IF media = "starting" THEN "opened" ELSE "none"
    /\ UNCHANGED <<prompt, uiVars, worker, attempt, flagVars, eventVars,
                   resultVars, stack>>

\* STREAM_SUSPENDED and STREAM_RELEASED.
StreamSuspended ==
    /\ media = "streaming"
    /\ media' \in {"opened", "none"}
    /\ streaming' = FALSE
    /\ UNCHANGED <<prompt, uiVars, worker, attempt, connected, lost, cid,
                   seid, eventVars,
                   resultVars, stack>>

\* Seeded fault: the loss of the link is not flagged.
HciDisconnectedSilently ==
    /\ stack \in {"discovering", "open"}
    /\ stack' = "closing"
    /\ media' = "none"
    /\ connected' = FALSE
    /\ streaming' = FALSE
    /\ UNCHANGED <<prompt, uiVars, worker, attempt, lost, cid, seid,
                   eventVars, resultVars>>

\* HCI_EVENT_DISCONNECTION_COMPLETE; BTstack then closes its channels.
HciDisconnected ==
    /\ stack \in {"discovering", "open"}
    /\ stack' = "closing"
    /\ media' = "none"
    /\ connected' = FALSE
    /\ streaming' = FALSE
    /\ lost' = (lost \/ connected \/ streaming)
    /\ UNCHANGED <<prompt, uiVars, worker, attempt, cid, seid, eventVars,
                   resultVars>>

SignalingReleased ==
    /\ stack \in {"discovering", "open", "closing"}
    /\ stack' = "none"
    /\ media' = "none"
    /\ connected' = FALSE /\ streaming' = FALSE /\ cid' = FALSE
    /\ lost' = TRUE
    /\ discEv' = TRUE
    /\ UNCHANGED <<prompt, uiVars, worker, attempt, seid, cancel, connectEv,
                   streamEv,
                   startEv, resultVars>>

-----------------------------------------------------------------------------
Worker ==
    \/ WorkerEnters \/ ConnectResets \/ ReconnectResets \/ Establish
    \/ ConnectAnswered \/ ConnectExpires
    \/ ConfigureBegins \/ ConfigureSkipped \/ ConfigureAnswered \/ ConfigureExpires
    \/ StartBegins \/ StartAnswered \/ StartExpires
    \/ LoopLosesLink \/ PauseEnds \/ ReconnectRetries \/ SessionEnds
    \/ StopStream \/ Disconnect \/ DisconnectReturns
Answers ==
    \/ SignalingFails \/ SignalingEstablished \/ CapabilitiesComplete
    \/ \E ok \in BOOLEAN : StreamEstablished(ok)
    \/ StreamStarted \/ CommandRejected
    \/ stack = "closing" /\ SignalingReleased
Losses ==
    \/ StreamSuspended \/ HciDisconnected
    \/ stack # "closing" /\ SignalingReleased

Next == StartSession \/ StopRequests \/ StopCancels \/ Worker \/ Answers \/ Losses

Spec == Init /\ [][Next]_vars

\* The worker's waits have timeouts and the UI thread does not block; the
\* stack answers what it was asked.  Nobody has to press a button, and the
\* link does not have to break.
Fairness == WF_vars(StopCancels) /\ WF_vars(Worker) /\ WF_vars(Answers)

FairSpec == Spec /\ Fairness

-----------------------------------------------------------------------------
TypeOK ==
    /\ prompt \in BOOLEAN
    /\ ui \in {"idle", "cancelling"}
    /\ sessions \in 0 .. MaxSessions
    /\ worker \in Early \cup Waiting \cup
           {"idle", "connected", "configured", "loop", "pausing", "retrying",
            "stopping", "disconnecting"}
    /\ attempt \in 0 .. MaxAttempts
    /\ stopReq \in BOOLEAN /\ connected \in BOOLEAN /\ streaming \in BOOLEAN
    /\ lost \in BOOLEAN /\ cid \in BOOLEAN /\ seid \in BOOLEAN
    /\ cancel \in BOOLEAN /\ connectEv \in BOOLEAN /\ streamEv \in BOOLEAN
    /\ startEv \in BOOLEAN /\ discEv \in BOOLEAN
    /\ connectOk \in BOOLEAN /\ streamOk \in BOOLEAN /\ startOk \in BOOLEAN
    /\ stack \in {"none", "establishing", "discovering", "open", "closing"}
    /\ media \in {"none", "configuring", "opened", "starting", "streaming"}

\* A loss is never forgotten: while the main loop runs, the link is up or
\* the loop is about to see that it is not, whatever the event handlers did
\* between the resets of disconnect_occurred_, the waits and the loop.
LossNoticed == worker = "loop" => connected \/ lost

\* A reported loss is about the link in use: when releases are waited for,
\* check_disconnected() never makes the loop tear down and rebuild a
\* connection that is up because of an event of the previous one.
LossIsReal == prompt /\ worker = "loop" /\ lost => stack # "open"

\* When a session is over the headset has been let go: no connection is up or
\* coming up that nobody would use or close.  That is asked for refusals and
\* losses at any step and a stop while the stream is up, not for answers after
\* a timeout, nor for a stop during set-up.
LinkReleased ==
    TypeOK /\ (prompt /\ worker = "idle" => stack \in {"none", "closing"})

\* "Cancel any blocking waits in transport layer (e.g. connect_a2dp)"
\* (a2dp_service.cpp): once stop_streaming() has cancelled the waits, no
\* later wait of the session ignores it.
CancelHeard == stopReq /\ ui = "idle" /\ worker \in Waiting => cancel

=============================================================================
