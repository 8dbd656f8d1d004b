---------------------------- MODULE A2dpService ----------------------------
(***************************************************************************)
(* The streaming service (app/src/a2dp_service.cpp): the UI thread in      *)
(* start_streaming(), stop_streaming(), start_scan() and reset_btstack(),  *)
(* the streaming worker from start to clean-up, the encode thread as far   *)
(* as its lifetime goes, and the detached scan thread.                     *)
(*                                                                         *)
(* The transport's blocking calls are steps that succeed or fail (the      *)
(* transport itself is not in this module); each of them has a timeout, so *)
(* each ends.  The encoder's init() has none: it may block for good.       *)
(* Device capabilities, status texts, logs and statistics are left out.    *)
(***************************************************************************)
EXTENDS Naturals

CONSTANTS
    MaxStarts,          \* bound on the sessions started in a behaviour
    MaxAttempts,        \* reconnect attempts (10 in the code)
    MaxFaults,          \* bound on the exceptions and resets in a behaviour
    Modes,              \* capture modes of the profiles started
    EncodeOverruns      \* TRUE: the encode thread may need more than the 5 s
                        \* for which the worker waits for it

ASSUME ServiceAssumption ==
    /\ MaxStarts \in Nat
    /\ MaxAttempts \in Nat \ {0}
    /\ MaxFaults \in Nat
    /\ Modes \subseteq {"loopback", "virtual", "switching"}
    /\ EncodeOverruns \in BOOLEAN

VARIABLES
    ui,             \* UI thread: idle, joining, cancelling, polling, resetting,
                    \* clearing
    starts,         \* sessions started so far
    mode,           \* capture mode of active_profile_: loopback, virtual, or
                    \* switching (virtual with auto_switch_device)
    state,          \* state_
    running,        \* running_
    stopReq,        \* stop_requested_
    worker,         \* where the worker is; "none" when it has returned
    attempt,        \* number of the reconnect attempt
    btstack,        \* transport_: down, ready, failed (btstack_init_failed_)
    mutex,          \* holder of transport_mutex_ across init(): free, worker,
                    \* scan; lost when its holder died
    gRunning,       \* g_ctx.running
    gEncoder,       \* g_ctx.encoder and g_ctx.transport are set
    ring,           \* g_ctx.ring is initialised
    encode,         \* encode thread: none, waiting, using (ring and encoder)
    capturing,      \* WasapiCapture runs
    muted,          \* the default output is muted
    defaultDevice,  \* the Windows default output: speakers, virtual
    savedDevice,    \* original_default_device_: none, speakers, virtual
    scanning,       \* scanning_
    scan,           \* where the scan thread is
    scanState,      \* the state the scan thread has loaded, to store it back
    overlap,        \* history: a session was started during a scan, or a scan
                    \* during a session that was given up waiting for
    unguarded,      \* history: running_ was cleared under a session, and no
                    \* session has begun since that session ended
    threw,          \* history: an exception ended the main loop, and no stop
                    \* or start outside a scan has come since
    faults,         \* exceptions and resets so far
    pulled,         \* history: the threads that a reset_btstack() has robbed
                    \* of their transport
    crashed         \* history: an exception ended the worker or the encode
                    \* thread's loop

uiVars == <<ui, starts, mode, stopReq>>
btVars == <<btstack, mutex>>
pipeVars == <<gRunning, gEncoder, ring, encode>>
audioVars == <<capturing, muted, defaultDevice, savedDevice>>
scanVars == <<scanning, scan, scanState>>
histVars == <<overlap, unguarded, threw, faults, pulled, crashed>>
vars == <<uiVars, state, running, worker, attempt, btVars, pipeVars, audioVars,
          scanVars, histVars>>

States == {"Idle", "Connecting", "Streaming", "Reconnecting", "Error"}

\* The steps of streaming_thread_func_inner that can fail with an error
\* message, and the step that follows each.
Following == [starting      |-> "locking",
              capture       |-> "configuring",
              configuring   |-> "encoder",
              encoder       |-> "startStream"]

\* Stages in which the worker holds a raw pointer to the transport, and those
\* in which the scan thread uses it.
OnTransport == {"ready", "connecting", "connected", "capture", "configuring",
                "encoder", "startStream", "pipeline", "startCapture",
                "abandoning", "loop", "reconnecting", "cleanup", "draining",
                "releasing"}
ScanOnTransport == {"announce", "announcing", "inquiring", "report", "reporting"}
\* Stages in which the session is still under way.
Active == OnTransport \cup {"starting", "locking", "initing", "failed"}

Init ==
    /\ ui = "idle" /\ starts = 0 /\ mode = "loopback"
    /\ state = "Idle" /\ running = FALSE /\ stopReq = FALSE
    /\ worker = "none" /\ attempt = 0
    /\ btstack = "down" /\ mutex = "free"
    /\ gRunning = FALSE /\ gEncoder = FALSE /\ ring = FALSE /\ encode = "none"
    /\ capturing = FALSE /\ muted = FALSE
    /\ defaultDevice = "speakers" /\ savedDevice = "none"
    /\ scanning = FALSE /\ scan = "none" /\ scanState = "Idle"
    /\ overlap = FALSE /\ unguarded = FALSE /\ threw = FALSE /\ faults = 0
    /\ pulled = {} /\ crashed = FALSE

\* One of the exceptions and resets that the bound allows.
Fault == faults < MaxFaults /\ faults' = faults + 1

-----------------------------------------------------------------------------
(* The UI thread.                                                          *)

StartStreaming(m) ==
    /\ ui = "idle"
    /\ starts < MaxStarts
    /\ ~running
    /\ mode' = m
    /\ stopReq' = FALSE
    /\ running' = TRUE
    /\ state' = "Connecting"
    /\ starts' = starts + 1
    /\ overlap' = (overlap \/ scanning)
    /\ unguarded' = (unguarded /\ worker \in Active)
    /\ threw' = (threw /\ scanning)
    /\ ui' = "joining"
    /\ UNCHANGED <<worker, attempt, btVars, pipeVars, audioVars, scanVars, pulled,
                   faults, crashed>>

\* worker_thread_.join(), then the new thread.
StartJoins ==
    /\ ui = "joining"
    /\ worker = "none"
    /\ worker' = "starting"
    /\ pulled' = pulled \ {"worker"}
    /\ ui' = "idle"
    /\ UNCHANGED <<starts, mode, stopReq, state, running, attempt, btVars,
                   pipeVars, audioVars, scanVars, overlap, unguarded, threw,
                   faults, crashed>>

StopStreaming ==
    /\ ui = "idle"
    /\ stopReq' = TRUE
    /\ gRunning' = FALSE
    /\ ui' = "cancelling"
    /\ UNCHANGED <<starts, mode, state, running, worker, attempt, btVars,
                   gEncoder, ring, encode, audioVars, scanVars,
                   histVars>>

\* cancel_pending_waits() under transport_mutex_.
StopCancels ==
    /\ ui = "cancelling"
    /\ mutex = "free"
    /\ ui' = "polling"
    /\ UNCHANGED <<starts, mode, stopReq, state, running, worker, attempt,
                   btVars, pipeVars, audioVars, scanVars, histVars>>

\* Seeded fault: running_ is cleared without waiting for the worker.
StopReturnsAtOnce ==
    /\ ui = "polling"
    /\ running' = FALSE
    /\ state' = "Idle"
    /\ threw' = (threw /\ scanning)
    /\ ui' = "idle"
    /\ UNCHANGED <<starts, mode, stopReq, worker, attempt, btVars, pipeVars,
                   audioVars, scanVars, overlap, unguarded, pulled, faults, crashed>>

\* The poll ends when running_ is clear, or gives up after 100 rounds and
\* clears it under the session.
StopReturns ==
    /\ ui = "polling"
    /\ unguarded' = (unguarded \/ running)
    /\ running' = FALSE
    /\ state' = "Idle"
    /\ threw' = (threw /\ scanning)
    /\ ui' = "idle"
    /\ UNCHANGED <<starts, mode, stopReq, worker, attempt, btVars, pipeVars,
                   audioVars, scanVars, overlap, pulled, faults, crashed>>

StartScan ==
    /\ ui = "idle"
    /\ ~scanning /\ ~running
    /\ scanning' = TRUE
    /\ scan' = "locking"
    /\ pulled' = pulled \ {"scan"}
    /\ overlap' = (overlap \/ (unguarded /\ worker # "none"))
    /\ UNCHANGED <<uiVars, state, running, worker, attempt, btVars, pipeVars,
                   audioVars, scanState, unguarded, threw, faults, crashed>>

\* reset_btstack() looks at neither the worker nor the scan thread.  The
\* transport is shut down under the mutex, btstack_init_failed_ is cleared
\* after its release.
ResetBtstack ==
    /\ Fault
    /\ ui = "idle"
    /\ btstack # "down"
    /\ ui' = "resetting"
    /\ UNCHANGED <<starts, mode, stopReq, state, running, worker, attempt, btVars,
                   pipeVars, audioVars, scanVars, overlap, unguarded, threw, pulled, crashed>>

ResetShuts ==
    /\ ui = "resetting"
    /\ mutex = "free"
    /\ btstack' = IF btstack = "ready" THEN "down" ELSE btstack
    /\ pulled' = pulled \cup {t \in {"worker"} : worker \in OnTransport}
                        \cup {t \in {"scan"} : scan \in ScanOnTransport}
    /\ ui' = "clearing"
    /\ UNCHANGED <<starts, mode, stopReq, state, running, worker, attempt, mutex,
                   pipeVars, audioVars, scanVars, overlap, unguarded, threw,
                   faults, crashed>>

ResetClears ==
    /\ ui = "clearing"
    /\ btstack' = IF btstack = "failed" THEN "down" ELSE btstack
    /\ ui' = "idle"
    /\ UNCHANGED <<starts, mode, stopReq, state, running, worker, attempt, mutex,
                   pipeVars, audioVars, scanVars, histVars>>

-----------------------------------------------------------------------------
(* The streaming worker: setting up.                                       *)

\* A step succeeds and the next one is announced.
WorkerAdvances ==
    /\ worker \in DOMAIN Following
    /\ worker # "capture"
    /\ worker' = Following[worker]
    /\ state' = IF worker = "starting" THEN "Connecting" ELSE state
    /\ UNCHANGED <<uiVars, running, attempt, btVars, pipeVars, audioVars,
                   scanVars, histVars>>

\* A step fails: Error is announced, the link is dropped.
WorkerFails ==
    /\ worker \in (DOMAIN Following \ {"capture"}) \cup {"startStream"}
    /\ worker' = "failed"
    /\ state' = "Error"
    /\ UNCHANGED <<uiVars, running, attempt, btVars, pipeVars, audioVars,
                   scanVars, histVars>>

\* running_.store(false) and return, on every error path.
WorkerFailed ==
    /\ worker = "failed"
    /\ worker' = "none"
    /\ running' = FALSE
    /\ UNCHANGED <<uiVars, state, attempt, btVars, pipeVars, audioVars,
                   scanVars, histVars>>

\* ensure_btstack_init(): take the mutex; a stack that is up or has failed
\* before is not initialised again.
WorkerLocks ==
    /\ worker = "locking"
    /\ mutex = "free"
    /\ \/ /\ btstack = "ready"
          /\ worker' = "ready"
          /\ UNCHANGED <<state, mutex>>
       \/ /\ btstack = "failed"
          /\ worker' = "failed"
          /\ state' = "Error"
          /\ UNCHANGED mutex
       \/ /\ btstack = "down"
          /\ worker' = "initing"
          /\ mutex' = "worker"
          /\ UNCHANGED state
    /\ UNCHANGED <<uiVars, running, attempt, btstack, pipeVars, audioVars,
                   scanVars, histVars>>

\* Seeded fault: the result of init() is not looked at.
WorkerInitsUnchecked ==
    /\ worker = "initing"
    /\ mutex' = "free"
    /\ btstack' \in {"ready", "failed"}
    /\ worker' = "ready"
    /\ UNCHANGED <<uiVars, state, running, attempt, pipeVars, audioVars,
                   scanVars, histVars>>

\* Seeded fault: the mutex is not released when init() fails.
WorkerInitsHoldingMutex ==
    /\ worker = "initing"
    /\ \/ /\ btstack' = "ready"
          /\ worker' = "ready"
          /\ mutex' = "free"
          /\ UNCHANGED state
       \/ /\ btstack' = "failed"
          /\ worker' = "failed"
          /\ state' = "Error"
          /\ UNCHANGED mutex
    /\ UNCHANGED <<uiVars, running, attempt, pipeVars, audioVars, scanVars, histVars>>

WorkerInits ==
    /\ worker = "initing"
    /\ mutex' = "free"
    /\ \/ /\ btstack' = "ready"
          /\ worker' = "ready"
          /\ UNCHANGED state
       \/ /\ btstack' = "failed"
          /\ worker' = "failed"
          /\ state' = "Error"
    /\ UNCHANGED <<uiVars, running, attempt, pipeVars, audioVars, scanVars, histVars>>

WorkerConnects ==
    /\ worker = "ready"
    /\ ~stopReq
    /\ worker' = "connecting"
    /\ state' = "Connecting"
    /\ UNCHANGED <<uiVars, running, attempt, btVars, pipeVars, audioVars,
                   scanVars, histVars>>

\* stop_requested_ is looked at before and after connect_a2dp(), and when it
\* has failed.
WorkerTurnsBack ==
    /\ worker \in {"ready", "connecting", "connected"}
    /\ stopReq
    /\ running' = FALSE
    /\ worker' = "idling"
    /\ UNCHANGED <<uiVars, state, attempt, btVars, pipeVars, audioVars,
                   scanVars, histVars>>

WorkerConnected ==
    /\ worker = "connecting"
    /\ \/ /\ worker' = "connected"
          /\ UNCHANGED state
       \/ /\ ~stopReq
          /\ worker' = "failed"
          /\ state' = "Error"
    /\ UNCHANGED <<uiVars, running, attempt, btVars, pipeVars, audioVars,
                   scanVars, histVars>>

\* Capabilities are published, the codec is chosen.
WorkerNegotiates ==
    /\ worker = "connected"
    /\ ~stopReq
    /\ \/ worker' = "capture" /\ state' = "Connecting"
       \/ worker' = "failed" /\ state' = "Error"
    /\ UNCHANGED <<uiVars, running, attempt, btVars, pipeVars, audioVars,
                   scanVars, histVars>>

\* WASAPI initialisation without a default-device switch (or no device id).
WorkerOpensCapture ==
    /\ worker = "capture"
    /\ \/ mode # "switching" /\ worker' = Following[worker] /\ UNCHANGED state
       \/ worker' = "failed" /\ state' = "Error"
    /\ UNCHANGED <<uiVars, running, attempt, btVars, pipeVars, audioVars,
                   scanVars, histVars>>

\* With the switch: the current default is remembered, the virtual device
\* becomes the default (a failure to switch is only logged); when WASAPI then
\* fails the default is put back.
WorkerSwitchesDefault ==
    /\ worker = "capture"
    /\ mode = "switching"
    /\ \/ /\ savedDevice' = defaultDevice
          /\ defaultDevice' \in {"virtual", defaultDevice}
          /\ worker' = Following[worker]
          /\ UNCHANGED state
       \/ /\ savedDevice' = "none"
          /\ UNCHANGED defaultDevice
          /\ worker' = "failed"
          /\ state' = "Error"
    /\ UNCHANGED <<uiVars, running, attempt, btVars, pipeVars, capturing, muted,
                   scanVars, histVars>>

WorkerStreams ==
    /\ worker = "startStream"
    /\ worker' = "pipeline"
    /\ state' = "Streaming"
    /\ UNCHANGED <<uiVars, running, attempt, btVars, pipeVars, audioVars,
                   scanVars, histVars>>

-----------------------------------------------------------------------------
(* The streaming worker: the audio pipeline.                               *)

\* The default device goes back to the remembered one, if there is one.
RestoreDefault ==
    /\ defaultDevice' = IF savedDevice = "none" THEN defaultDevice ELSE savedDevice
    /\ savedDevice' = "none"

WorkerStartsEncode ==
    /\ worker = "pipeline"
    /\ gEncoder' = TRUE
    /\ gRunning' = TRUE
    /\ ring' = TRUE
    /\ encode' = "waiting"
    /\ worker' = "startCapture"
    /\ UNCHANGED <<uiVars, state, running, attempt, btVars, audioVars, scanVars, histVars>>

\* CreateThread failed: everything set up so far is taken back.
WorkerLacksEncode ==
    /\ worker = "pipeline"
    /\ state' = "Error"
    /\ gEncoder' = FALSE
    /\ gRunning' = FALSE
    /\ ring' = FALSE
    /\ RestoreDefault
    /\ worker' = "failed"
    /\ UNCHANGED <<uiVars, running, attempt, btVars, encode, capturing, muted,
                   scanVars, histVars>>

\* Capture starts; in loopback mode the output is muted if that is enabled.
WorkerStartsCapture ==
    /\ worker = "startCapture"
    /\ capturing' = TRUE
    /\ muted' \in IF mode = "loopback" THEN BOOLEAN ELSE {muted}
    /\ worker' = "loop"
    /\ UNCHANGED <<uiVars, state, running, attempt, btVars, pipeVars,
                   defaultDevice, savedDevice, scanVars, histVars>>

WorkerLacksCapture ==
    /\ worker = "startCapture"
    /\ state' = "Error"
    /\ gRunning' = FALSE
    /\ worker' = "abandoning"
    /\ UNCHANGED <<uiVars, running, attempt, btVars, gEncoder, ring, encode,
                   audioVars, scanVars, histVars>>

\* Seeded fault: the encode thread is not waited for.
EncodeNotWaitedFor == TRUE

\* The wait for the encode thread: it has exited, or 5 s are over.
EncodeWaitedFor == encode = "none" \/ EncodeOverruns

\* Seeded fault: the ring is left behind when capture does not start.
WorkerAbandonsRing ==
    /\ worker = "abandoning"
    /\ EncodeWaitedFor
    /\ gEncoder' = FALSE
    /\ RestoreDefault
    /\ worker' = "failed"
    /\ UNCHANGED <<uiVars, state, running, attempt, btVars, gRunning, ring, encode,
                   capturing, muted, scanVars, histVars>>

WorkerAbandons ==
    /\ worker = "abandoning"
    /\ EncodeWaitedFor
    /\ gEncoder' = FALSE
    /\ ring' = FALSE
    /\ RestoreDefault
    /\ worker' = "failed"
    /\ UNCHANGED <<uiVars, state, running, attempt, btVars, gRunning, encode,
                   capturing, muted, scanVars, histVars>>

\* check_disconnected() in the main loop.
WorkerLosesLink ==
    /\ worker = "loop"
    /\ ~stopReq
    /\ state' = "Reconnecting"
    /\ gEncoder' = FALSE
    /\ attempt' = 1
    /\ worker' = "reconnecting"
    /\ UNCHANGED <<uiVars, running, btVars, gRunning, ring, encode, audioVars,
                   scanVars, histVars>>

WorkerReconnects ==
    /\ worker = "reconnecting"
    /\ state' = "Streaming"
    /\ gEncoder' = TRUE
    /\ attempt' = 0
    /\ worker' = "loop"
    /\ UNCHANGED <<uiVars, running, btVars, gRunning, ring, encode, audioVars,
                   scanVars, histVars>>

WorkerRetries ==
    /\ worker = "reconnecting"
    /\ attempt < MaxAttempts
    /\ ~stopReq
    /\ attempt' = attempt + 1
    /\ state' = "Reconnecting"
    /\ UNCHANGED <<uiVars, running, worker, btVars, pipeVars, audioVars,
                   scanVars, histVars>>

\* Seeded fault: giving up is not announced.
WorkerGivesUpSilently ==
    /\ worker = "reconnecting"
    /\ attempt = MaxAttempts \/ stopReq
    /\ attempt' = 0
    /\ worker' = "cleanup"
    /\ UNCHANGED <<uiVars, state, running, btVars, pipeVars, audioVars, scanVars, histVars>>

WorkerGivesUp ==
    /\ worker = "reconnecting"
    /\ attempt = MaxAttempts \/ stopReq
    /\ state' = "Error"
    /\ attempt' = 0
    /\ worker' = "cleanup"
    /\ UNCHANGED <<uiVars, running, btVars, pipeVars, audioVars, scanVars, histVars>>

WorkerSeesStop ==
    /\ worker = "loop"
    /\ stopReq
    /\ worker' = "cleanup"
    /\ UNCHANGED <<uiVars, state, running, attempt, btVars, pipeVars, audioVars,
                   scanVars, histVars>>

\* catch (...): an exception, in a notification's callback for one, ends the
\* loop.  No state is announced: the last one stored stays.
LoopThrows ==
    /\ Fault
    /\ worker \in {"loop", "reconnecting"}
    /\ state' \in {state, "Reconnecting"}
    /\ threw' = TRUE
    /\ attempt' = 0
    /\ worker' = "cleanup"
    /\ UNCHANGED <<uiVars, running, btVars, pipeVars, audioVars, scanVars, overlap,
                   unguarded, pulled, crashed>>

-----------------------------------------------------------------------------
(* The streaming worker: cleaning up.                                      *)

WorkerStopsCapture ==
    /\ worker = "cleanup"
    /\ capturing' = FALSE
    /\ gRunning' = FALSE
    /\ worker' = "draining"
    /\ UNCHANGED <<uiVars, state, running, attempt, btVars, gEncoder, ring,
                   encode, muted, defaultDevice, savedDevice, scanVars, histVars>>

WorkerDrains ==
    /\ worker = "draining"
    /\ EncodeWaitedFor
    /\ gEncoder' = FALSE
    /\ ring' = FALSE
    /\ worker' = "releasing"
    /\ UNCHANGED <<uiVars, state, running, attempt, btVars, gRunning, encode,
                   audioVars, scanVars, histVars>>

\* stop_stream(), disconnect(), unmute, restore, encoder shutdown, and
\* running_.store(false).
WorkerReleases ==
    /\ worker = "releasing"
    /\ muted' = FALSE
    /\ RestoreDefault
    /\ running' = FALSE
    /\ worker' = "ending"
    /\ UNCHANGED <<uiVars, state, attempt, btVars, pipeVars, capturing, scanVars, histVars>>

WorkerEnds ==
    /\ worker = "ending"
    /\ worker' = IF stopReq THEN "idling" ELSE "none"
    /\ UNCHANGED <<uiVars, state, running, attempt, btVars, pipeVars, audioVars,
                   scanVars, histVars>>

WorkerIdles ==
    /\ worker = "idling"
    /\ state' = "Idle"
    /\ worker' = "none"
    /\ UNCHANGED <<uiVars, running, attempt, btVars, pipeVars, audioVars,
                   scanVars, histVars>>

\* The locks and the capture of a thread that crashes: whether the handler's
\* unwinding destroys the thread's objects is up to the build.
Unwound(t) ==
    mutex' \in IF mutex = t THEN {"free", "lost"} ELSE {mutex}

\* An exception anywhere on the worker: the handler of streaming_thread_func.
\* When the next start already waits for this worker, running_ is that one's.
WorkerCrashes ==
    /\ Fault
    /\ worker # "none"
    /\ crashed' = TRUE
    /\ state' = "Error"
    /\ gRunning' = FALSE
    /\ gEncoder' = FALSE
    /\ running' = FALSE
    /\ unguarded' = (unguarded \/ ui = "joining")
    /\ attempt' = 0
    /\ worker' = "none"
    /\ Unwound("worker")
    /\ capturing' \in {capturing, FALSE}
    /\ UNCHANGED <<uiVars, btstack, ring, encode, muted, defaultDevice,
                   savedDevice, scanVars, overlap, threw, pulled>>

-----------------------------------------------------------------------------
(* The encode thread and the scan thread.                                  *)

EncodeUses ==
    /\ encode = "waiting"
    /\ gRunning /\ gEncoder
    /\ encode' = "using"
    /\ UNCHANGED <<uiVars, state, running, worker, attempt, btVars, gRunning,
                   gEncoder, ring, audioVars, scanVars, histVars>>

EncodeYields ==
    /\ encode = "using"
    /\ encode' = "waiting"
    /\ UNCHANGED <<uiVars, state, running, worker, attempt, btVars, gRunning,
                   gEncoder, ring, audioVars, scanVars, histVars>>

\* An exception in the drain loop: g_ctx.running is cleared, nobody is told.
EncodeThrows ==
    /\ Fault
    /\ encode = "using"
    /\ crashed' = TRUE
    /\ encode' = "waiting"
    /\ gRunning' = FALSE
    /\ UNCHANGED <<uiVars, state, running, worker, attempt, btVars, gEncoder, ring,
                   audioVars, scanVars, overlap, unguarded, threw, pulled>>

EncodeExits ==
    /\ encode = "waiting"
    /\ ~gRunning
    /\ encode' = "none"
    /\ UNCHANGED <<uiVars, state, running, worker, attempt, btVars, gRunning,
                   gEncoder, ring, audioVars, scanVars, histVars>>

ScanLocks ==
    /\ scan = "locking"
    /\ mutex = "free"
    /\ \/ /\ btstack = "ready"
          /\ scan' = "announce"
          /\ UNCHANGED <<state, mutex, scanning>>
       \/ /\ btstack = "failed"
          /\ scan' = "none"
          /\ state' = "Error"
          /\ scanning' = FALSE
          /\ UNCHANGED mutex
       \/ /\ btstack = "down"
          /\ scan' = "initing"
          /\ mutex' = "scan"
          /\ UNCHANGED <<state, scanning>>
    /\ UNCHANGED <<uiVars, running, worker, attempt, btstack, pipeVars, audioVars,
                   scanState, histVars>>

ScanInits ==
    /\ scan = "initing"
    /\ mutex' = "free"
    /\ \/ /\ btstack' = "ready"
          /\ scan' = "announce"
          /\ UNCHANGED <<state, scanning>>
       \/ /\ btstack' = "failed"
          /\ scan' = "none"
          /\ state' = "Error"
          /\ scanning' = FALSE
    /\ UNCHANGED <<uiVars, running, worker, attempt, pipeVars, audioVars,
                   scanState, histVars>>

\* notify_state(state_.load(), text): the state is loaded, later stored back.
ScanLoadsState ==
    /\ scan \in {"announce", "report"}
    /\ scanState' = state
    /\ scan' = IF scan = "announce" THEN "announcing" ELSE "reporting"
    /\ UNCHANGED <<uiVars, state, running, worker, attempt, btVars, pipeVars,
                   audioVars, scanning, histVars>>

ScanStoresState ==
    /\ scan \in {"announcing", "reporting"}
    /\ state' = scanState
    /\ scan' = IF scan = "announcing" THEN "inquiring" ELSE "none"
    /\ scanState' = "Idle"
    /\ scanning' = (scan = "announcing")
    /\ UNCHANGED <<uiVars, running, worker, attempt, btVars, pipeVars, audioVars,
                   histVars>>

\* scan_devices() ends: complete, cancelled or timed out.
ScanInquires ==
    /\ scan = "inquiring"
    /\ scan' = "report"
    /\ UNCHANGED <<uiVars, state, running, worker, attempt, btVars, pipeVars,
                   audioVars, scanning, scanState, histVars>>

\* An exception anywhere on the scan thread: the handler of scan_thread_func.
ScanCrashes ==
    /\ Fault
    /\ scan # "none"
    /\ state' = "Error"
    /\ scanState' = "Idle"
    /\ scanning' = FALSE
    /\ scan' = "none"
    /\ Unwound("scan")
    /\ UNCHANGED <<uiVars, running, worker, attempt, btstack, pipeVars, audioVars,
                   overlap, unguarded, threw, pulled, crashed>>

-----------------------------------------------------------------------------
Setup == WorkerAdvances \/ WorkerFails \/ WorkerFailed \/ WorkerLocks
             \/ WorkerInits \/ WorkerConnects \/ WorkerTurnsBack
             \/ WorkerConnected \/ WorkerNegotiates \/ WorkerOpensCapture
             \/ WorkerSwitchesDefault \/ WorkerStreams
Pipeline == WorkerStartsEncode \/ WorkerLacksEncode \/ WorkerStartsCapture
                \/ WorkerLacksCapture \/ WorkerAbandons \/ WorkerReconnects
                \/ WorkerRetries \/ WorkerGivesUp \/ WorkerSeesStop
Cleanup == WorkerStopsCapture \/ WorkerDrains \/ WorkerReleases \/ WorkerEnds
               \/ WorkerIdles
Worker == Setup \/ Pipeline \/ Cleanup
Encode == EncodeYields \/ EncodeExits
Scan == ScanLocks \/ ScanInits \/ ScanLoadsState \/ ScanStoresState \/ ScanInquires
Ui == StartJoins \/ StopCancels \/ StopReturns \/ ResetShuts \/ ResetClears

Next ==
    \/ \E m \in Modes : StartStreaming(m)
    \/ StopStreaming \/ StartScan \/ ResetBtstack
    \/ Ui \/ Worker \/ WorkerLosesLink \/ LoopThrows \/ WorkerCrashes
    \/ Encode \/ EncodeUses \/ EncodeThrows \/ Scan \/ ScanCrashes

Spec == Init /\ [][Next]_vars

\* A thread that is running goes on: the waits of the worker and of the scan
\* thread for the transport have timeouts, the encode thread polls.  The start
\* of the encoder has none (run_wsl() reads a pipe until it closes), nor has a
\* lock.  Nothing forces the user to act, the link to break or audio to arrive.
Fairness ==
    /\ WF_vars(Ui)
    /\ WF_vars(worker # "encoder" /\ Worker)
    /\ WF_vars(Encode)
    /\ WF_vars(Scan)

FairSpec == Spec /\ Fairness

-----------------------------------------------------------------------------
TypeOK ==
    /\ ui \in {"idle", "joining", "cancelling", "polling", "resetting", "clearing"}
    /\ starts \in 0 .. MaxStarts
    /\ mode \in {"loopback", "virtual", "switching"}
    /\ state \in States
    /\ running \in BOOLEAN /\ stopReq \in BOOLEAN
    /\ gRunning \in BOOLEAN /\ gEncoder \in BOOLEAN /\ ring \in BOOLEAN
    /\ capturing \in BOOLEAN /\ muted \in BOOLEAN
    /\ scanning \in BOOLEAN /\ overlap \in BOOLEAN /\ unguarded \in BOOLEAN
    /\ threw \in BOOLEAN /\ crashed \in BOOLEAN
    /\ faults \in 0 .. MaxFaults
    /\ pulled \subseteq {"worker", "scan"}
    /\ worker \in Active \cup {"none", "ending", "idling"}
    /\ attempt \in 0 .. MaxAttempts
    /\ btstack \in {"down", "ready", "failed"}
    /\ mutex \in {"free", "worker", "scan", "lost"}
    /\ encode \in {"none", "waiting", "using"}
    /\ defaultDevice \in {"speakers", "virtual"}
    /\ savedDevice \in {"none", "speakers", "virtual"}
    /\ scan \in ScanOnTransport \cup {"none", "locking", "initing"}
    /\ scanState \in States

\* running_ tells the truth: while a session is under way it is set, so that
\* no second session and no scan is admitted beside it, although the old
\* worker, stop_streaming() and the next start_streaming() all write it.  It
\* is clear under a session only after a stop that gave up polling, or after
\* a crash of the old worker under the next start, and no longer than until
\* the next start that finds no session.
RunningTruthful == TypeOK /\ (worker \in Active => running \/ unguarded)

\* The encode thread never works on a ring that was destroyed or with an
\* encoder that its owner has released, unless a thread has crashed.
EncodeSafe ==
    ~crashed /\ encode = "using"
        => ring /\ worker \notin {"none", "ending", "idling"}

\* A thread that is past ensure_btstack_init() has a transport that is up,
\* whoever of the two threads brought it up or failed to and whenever a reset
\* cleared the failure; only a reset called while the thread holds its pointer
\* takes the transport away.
TransportAlive ==
    /\ worker \in OnTransport /\ "worker" \notin pulled => btstack = "ready"
    /\ scan \in ScanOnTransport /\ "scan" \notin pulled => btstack = "ready"

\* However a session ends, short of a crash, it leaves nothing behind: capture
\* stopped, encode thread gone, ring and pointers cleared, speakers audible.
CleanExit ==
    ~crashed /\ worker = "none" =>
        /\ ~capturing /\ ~muted
        /\ encode = "none" /\ ~ring /\ ~gEncoder /\ ~gRunning

\* With no session, no scan and no call in progress the state shown to the
\* user is Idle or Error: it never stays at Connecting or Streaming because
\* of the order in which the threads' notifications were applied, also not
\* after a stop that gave up or was taken back, as long as no session was
\* started during a scan.  Only an exception in the main loop leaves Streaming
\* or Reconnecting behind, and only until the next stop.
StateSettles ==
    ~overlap /\ ~threw /\ ui = "idle" /\ worker = "none" /\ scan = "none"
        => state \in {"Idle", "Error"}

\* The ways in which a call can block the UI thread for good: on the lock of
\* a thread that died in init(), or joining a worker that is stuck in the
\* encoder's start or streams on because its stop was taken back.
Stuck ==
    \/ mutex = "lost"
    \/ ui = "joining" /\ worker \in {"encoder", "loop", "reconnecting"}

\* Every call of start_streaming(), stop_streaming() and reset_btstack()
\* returns, or the UI thread is blocked for good in one of just these ways:
\* never by the poll, by init() or by any other stage of the worker.
UiReturns == []<>(ui = "idle") \/ <>[]Stuck

=============================================================================
