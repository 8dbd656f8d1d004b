--------------------------- MODULE BtStackLifetime ---------------------------
(***************************************************************************)
(* BTstack's start, inquiry and shutdown (btstack_transport.cpp): init()   *)
(* and scan_devices() on the scan thread, shutdown() on whichever thread   *)
(* calls it, the run loop's thread, and the requests that the others queue *)
(* on it and wait for.  A2dpService has the sessions; here a session only  *)
(* sets and resets cancel_event_.                                          *)
(*                                                                         *)
(* What BTstack and the dongle do (the HCI states, an inquiry's results    *)
(* and end) is external: it may take any time or never happen.             *)
(***************************************************************************)
EXTENDS Sequences, FiniteSets

CONSTANTS
    Headsets,   \* devices that may answer an inquiry
    SlowLoop    \* TRUE: the run loop may need longer than its callers wait

ASSUME LifetimeAssumption ==
    /\ IsFiniteSet(Headsets)
    /\ SlowLoop \in BOOLEAN

VARIABLES
    transport,      \* transport_ exists
    ready,          \* btstack_ready_
    initFailed,     \* btstack_init_failed_
    mutex,          \* holder of transport_mutex_: free, scan, ui
    instance,       \* BtStackTransport::instance_ is set
    running,        \* running_
    hciReady,       \* hci_ready_
    initResult,     \* init_result_
    initEvent,      \* init_event_ (auto-reset)
    cancelEvent,    \* cancel_event_ (manual reset)
    inquiryEvent,   \* inquiry_event_ (auto-reset)
    inquiryActive,  \* inquiry_active_
    found,          \* discovered_devices_
    loop,           \* run loop's thread: none, setup, running, exited
    exitAsked,      \* btstack_run_loop_trigger_exit() was called
    queue,          \* requests on the run loop
    done,           \* requests that were executed, "refused" if one failed
    handler,        \* results the run loop is about to append to found
    hci,            \* controller: off, starting, working, halting
    adapter,        \* the USB adapter is open
    inquiry,        \* controller: none, running, stopping
    scan,           \* where the scan thread is
    down,           \* where shutdown() is; its caller holds the mutex
    session,        \* a session runs
    clearing,       \* reset_btstack() has yet to clear btstack_init_failed_
    answered,       \* history: devices that answered the scan's inquiry
    cut,            \* history: a scan on this transport ended before its
                    \* inquiry did
    late,           \* history: the start or the power-off ran out of time
    pulled          \* history: the scan's transport is shut down under it

serviceVars == <<transport, ready, initFailed, mutex>>
flagVars == <<instance, running, hciReady, initResult>>
eventVars == <<initEvent, cancelEvent, inquiryEvent>>
listVars == <<inquiryActive, found>>
loopVars == <<loop, exitAsked, queue, done, handler>>
worldVars == <<hci, adapter, inquiry>>
userVars == <<session, clearing>>
callerVars == <<scan, down, userVars>>
historyVars == <<answered, cut, late, pulled>>
vars == <<serviceVars, flagVars, eventVars, listVars, loopVars, worldVars,
          callerVars, historyVars>>

Requests == {"inquire", "stop", "powerOff"}

\* btstack_run_loop_execute_on_main_thread() with a request of the caller's.
Post(r) ==
    /\ queue' = Append(queue, r)
    /\ done' = done \ IF r = "inquire" THEN {r, "refused"} ELSE {r}

\* WaitForSingleObject(done_event, ...) returns: done, or out of time.
Answered(r) == r \in done
Expired(r) == r \notin done /\ (SlowLoop \/ loop # "running")

LoopRuns == loop = "running" /\ handler = {}

\* The scan thread is using the transport, without the mutex.
Scanning == {"start", "starting", "waiting", "stopping", "collect"}

-----------------------------------------------------------------------------
(* ensure_btstack_init() and init().                                       *)

\* start_scan(): not while a session runs.
StartScan ==
    /\ scan = "none" /\ ~session
    /\ scan' = "init"
    /\ UNCHANGED <<serviceVars, flagVars, eventVars, listVars, loopVars,
                   worldVars, down, userVars, historyVars>>

\* The stack is up, or was given up until the next reset.
InitDecided ==
    /\ scan = "init" /\ mutex = "free" /\ (ready \/ initFailed)
    /\ scan' = IF ready THEN "start" ELSE "none"
    /\ UNCHANGED <<serviceVars, flagVars, eventVars, listVars, loopVars,
                   worldVars, down, userVars, historyVars>>

\* A new transport object, its run loop's thread, and the wait for HCI.
InitLaunches ==
    /\ scan = "init" /\ mutex = "free" /\ ~ready /\ ~initFailed /\ ~instance
    /\ transport' = TRUE /\ mutex' = "scan"
    /\ instance' = TRUE /\ running' = TRUE
    /\ hciReady' = FALSE /\ initResult' = FALSE
    /\ initEvent' = FALSE /\ cancelEvent' = FALSE /\ inquiryEvent' = FALSE
    /\ inquiryActive' = FALSE /\ found' = {}
    /\ loop' = "setup" /\ exitAsked' = FALSE
    /\ scan' = "polling"
    /\ cut' = FALSE /\ late' = FALSE /\ pulled' = FALSE
    /\ UNCHANGED <<ready, initFailed, queue, done, handler, worldVars, down,
                   userVars, answered>>

\* The singleton is taken, or CreateThread() fails with running_ set.
InitLacksThread ==
    /\ scan = "init" /\ mutex = "free" /\ ~ready /\ ~initFailed
    /\ transport' = TRUE /\ running' = ~instance
    /\ hciReady' = FALSE /\ initResult' = FALSE
    /\ initFailed' = TRUE
    /\ scan' = "none"
    /\ UNCHANGED <<ready, mutex, instance, eventVars, listVars, loopVars,
                   worldVars, down, userVars, historyVars>>

\* The poll sees init_result_.
InitSucceeds ==
    /\ scan = "polling" /\ down = "none" /\ initResult
    /\ ready' = TRUE /\ mutex' = "free"
    /\ scan' = "start"
    /\ UNCHANGED <<transport, initFailed, flagVars, eventVars, listVars,
                   loopVars, worldVars, down, userVars, historyVars>>

\* INIT_TIMEOUT_MS without it.
InitTimesOut ==
    /\ scan = "polling" /\ down = "none" /\ ~initResult
    /\ down' = "begin"
    /\ late' = TRUE
    /\ UNCHANGED <<serviceVars, flagVars, eventVars, listVars, loopVars,
                   worldVars, scan, userVars, answered, cut, pulled>>

-----------------------------------------------------------------------------
(* shutdown(), from init() or from shutdown_btstack().                     *)

\* reset_btstack() takes the mutex, which a scan or a session does not hold
\* while it uses the transport.
ResetBtstack ==
    /\ mutex = "free" /\ transport /\ ~clearing
    /\ mutex' = "ui"
    /\ down' = "begin"
    /\ pulled' = (pulled \/ scan \in Scanning)
    /\ UNCHANGED <<transport, ready, initFailed, flagVars, eventVars, listVars,
                   loopVars, worldVars, scan, userVars, answered, cut,
                   late>>

\* Seeded fault: without HCI there is taken to be nothing to shut down.
DownBeginsWhenReady ==
    /\ down = "begin"
    /\ IF hciReady
       THEN Post("powerOff") /\ down' = "powering"
       ELSE down' = "return" /\ UNCHANGED <<queue, done>>
    /\ UNCHANGED <<serviceVars, flagVars, eventVars, listVars, loop,
                   exitAsked, handler, worldVars, scan, userVars, historyVars>>

DownBegins ==
    /\ down = "begin"
    /\ IF running /\ hciReady
       THEN Post("powerOff") /\ down' = "powering"
       ELSE /\ down' = IF running THEN "exit" ELSE "return"
            /\ UNCHANGED <<queue, done>>
    /\ UNCHANGED <<serviceVars, flagVars, eventVars, listVars, loop,
                   exitAsked, handler, worldVars, scan, userVars, historyVars>>

DownPowers ==
    /\ down = "powering"
    /\ Answered("powerOff") \/ Expired("powerOff")
    /\ down' = "offWait"
    /\ UNCHANGED <<serviceVars, flagVars, eventVars, listVars, loopVars,
                   worldVars, scan, userVars, historyVars>>

\* WaitForSingleObject(init_event_, 5000): signalled, be it by
\* HCI_STATE_OFF or still by HCI_STATE_WORKING, or out of time.
DownAwaitsOff ==
    /\ down = "offWait"
    /\ initEvent' = FALSE
    /\ late' = (late \/ ~initEvent)
    /\ down' = "exit"
    /\ UNCHANGED <<serviceVars, flagVars, cancelEvent, inquiryEvent, listVars,
                   loopVars, worldVars, scan, userVars, answered, cut,
                   pulled>>

DownExits ==
    /\ down = "exit"
    /\ running' = FALSE /\ hciReady' = FALSE
    /\ exitAsked' = TRUE
    /\ down' = "join"
    /\ UNCHANGED <<serviceVars, instance, initResult, eventVars, listVars,
                   loop, queue, done, handler, worldVars, scan, userVars,
                   historyVars>>

\* The wait for the thread ends, or for 10 s it did not.
DownJoins ==
    /\ down = "join"
    /\ loop \in {"none", "exited"} \/ SlowLoop
    /\ instance' = FALSE
    /\ down' = "return"
    /\ UNCHANGED <<serviceVars, running, hciReady, initResult, eventVars,
                   listVars, loopVars, worldVars, scan, userVars, historyVars>>

\* init() reports the failure; shutdown_btstack() deletes the transport.
DownReturns ==
    /\ down = "return"
    /\ mutex' = "free"
    /\ ready' = FALSE
    /\ transport' = (mutex = "scan")
    /\ initFailed' = (initFailed \/ mutex = "scan")
    /\ scan' = IF mutex = "scan" THEN "none" ELSE scan
    /\ clearing' = (clearing \/ mutex = "ui")
    /\ down' = "none"
    /\ UNCHANGED <<flagVars, eventVars, listVars, loopVars, worldVars, session,
                   historyVars>>

\* reset_btstack() allows another attempt, after the mutex was released.
ResetClears ==
    /\ clearing
    /\ clearing' = FALSE
    /\ initFailed' = FALSE
    /\ UNCHANGED <<transport, ready, mutex, flagVars, eventVars, listVars,
                   loopVars, worldVars, scan, down, session, historyVars>>

-----------------------------------------------------------------------------
(* scan_devices().                                                         *)

\* Seeded fault: the results of the last scan are kept.
ScanStartsUncleared ==
    /\ scan = "start" /\ hciReady
    /\ inquiryActive' = TRUE
    /\ answered' = {}
    /\ Post("inquire")
    /\ scan' = "starting"
    /\ UNCHANGED <<serviceVars, flagVars, eventVars, found, loop, exitAsked,
                   handler, worldVars, down, userVars, cut, late,
                   pulled>>

\* Without HCI the scan is over, with the list as it was.
ScanStarts ==
    /\ scan = "start"
    /\ IF hciReady
       THEN /\ found' = {} /\ inquiryActive' = TRUE
            /\ answered' = {}
            /\ Post("inquire")
            /\ scan' = "starting"
       ELSE /\ scan' = "collect"
            /\ UNCHANGED <<listVars, answered, queue, done>>
    /\ UNCHANGED <<serviceVars, flagVars, eventVars, loop, exitAsked, handler,
                   worldVars, down, userVars, cut, late, pulled>>

\* gap_inquiry_start() accepted, or the request never answered: the result
\* is zero either way.
ScanBegun ==
    /\ scan = "starting"
    /\ (Answered("inquire") /\ "refused" \notin done) \/ Expired("inquire")
    /\ scan' = "waiting"
    /\ UNCHANGED <<serviceVars, flagVars, eventVars, listVars, loopVars,
                   worldVars, down, userVars, historyVars>>

\* gap_inquiry_start() refused.
ScanRefused ==
    /\ scan = "starting"
    /\ Answered("inquire") /\ "refused" \in done
    /\ inquiryActive' = FALSE
    /\ scan' = "collect"
    /\ UNCHANGED <<serviceVars, flagVars, eventVars, found, loopVars,
                   worldVars, down, userVars, historyVars>>

\* wait_for_event(inquiry_event_): signalled, now or by an earlier inquiry.
ScanSeesEnd ==
    /\ scan = "waiting" /\ inquiryEvent
    /\ inquiryEvent' = FALSE
    /\ scan' = "collect"
    /\ UNCHANGED <<serviceVars, flagVars, initEvent, cancelEvent, listVars,
                   loopVars, worldVars, down, userVars, historyVars>>

\* Seeded fault: the wait has no timeout.
ScanCancelled ==
    /\ scan = "waiting" /\ ~inquiryEvent /\ cancelEvent
    /\ Post("stop")
    /\ cut' = TRUE
    /\ scan' = "stopping"
    /\ UNCHANGED <<serviceVars, flagVars, eventVars, listVars, loop, exitAsked,
                   handler, worldVars, down, userVars, answered, late,
                   pulled>>

\* ... or cancelled, or out of time: the inquiry is told to stop.
ScanGivesUp ==
    /\ scan = "waiting" /\ ~inquiryEvent
    /\ Post("stop")
    /\ cut' = TRUE
    /\ scan' = "stopping"
    /\ UNCHANGED <<serviceVars, flagVars, eventVars, listVars, loop, exitAsked,
                   handler, worldVars, down, userVars, answered, late,
                   pulled>>

ScanStopped ==
    /\ scan = "stopping"
    /\ Answered("stop") \/ Expired("stop")
    /\ inquiryActive' = FALSE
    /\ scan' = "collect"
    /\ UNCHANGED <<serviceVars, flagVars, eventVars, found, loopVars,
                   worldVars, down, userVars, historyVars>>

\* The transport was deleted under the scan: seh_call() catches the access
\* violation.  Where there is none the scan goes on with the memory as it was.
ScanCrashes ==
    /\ scan \in Scanning /\ ~transport
    /\ scan' = "none"
    /\ UNCHANGED <<serviceVars, flagVars, eventVars, listVars, loopVars,
                   worldVars, down, userVars, historyVars>>

\* scan_thread_func_inner() walks discovered_devices_ without a lock.
ScanCollects ==
    /\ scan = "collect"
    /\ scan' = "none"
    /\ UNCHANGED <<serviceVars, flagVars, eventVars, listVars, loopVars,
                   worldVars, down, userVars, historyVars>>

-----------------------------------------------------------------------------
(* The run loop's thread.                                                  *)

\* btstack_thread_proc() up to HCI_POWER_ON, which needs the adapter.
LoopSetsUp ==
    /\ loop = "setup"
    /\ loop' = "running"
    /\ queue' = <<>>
    /\ inquiry' = "none"
    /\ IF adapter THEN hci' = "off" /\ UNCHANGED adapter
       ELSE \/ hci' = "starting" /\ adapter' = TRUE
            \/ hci' = "off" /\ UNCHANGED adapter
    /\ UNCHANGED <<serviceVars, flagVars, eventVars, listVars, exitAsked, done,
                   handler, callerVars, historyVars>>

\* HCI_STATE_WORKING.
HciWorks ==
    /\ LoopRuns /\ hci = "starting"
    /\ hci' = "working"
    /\ IF instance
       THEN hciReady' = TRUE /\ initResult' = TRUE /\ initEvent' = TRUE
       ELSE UNCHANGED <<hciReady, initResult, initEvent>>
    /\ UNCHANGED <<serviceVars, instance, running, cancelEvent, inquiryEvent,
                   listVars, loopVars, adapter, inquiry, callerVars,
                   historyVars>>

\* HCI_STATE_OFF: the adapter is closed.
HciOff ==
    /\ LoopRuns /\ hci = "halting"
    /\ hci' = "off" /\ adapter' = FALSE
    /\ IF instance THEN hciReady' = FALSE /\ initEvent' = TRUE
       ELSE UNCHANGED <<hciReady, initEvent>>
    /\ UNCHANGED <<serviceVars, instance, running, initResult, cancelEvent,
                   inquiryEvent, listVars, loopVars, inquiry, callerVars,
                   historyVars>>

\* A queued callback runs and signals its caller.
RunRequest ==
    LET r == Head(queue) IN
    /\ LoopRuns /\ queue # <<>>
    /\ queue' = Tail(queue)
    /\ \/ /\ r = "inquire" /\ inquiry = "none"
          /\ inquiry' = "running"
          /\ done' = done \cup {r}
          /\ UNCHANGED hci
       \/ /\ r = "inquire"
          /\ done' = done \cup {r, "refused"}
          /\ UNCHANGED <<inquiry, hci>>
       \/ /\ r = "stop"
          /\ inquiry' = IF inquiry = "running" THEN "stopping" ELSE inquiry
          /\ done' = done \cup {r}
          /\ UNCHANGED hci
       \/ /\ r = "powerOff"
          /\ hci' = "halting" /\ inquiry' = "none"
          /\ done' = done \cup {r}
    /\ UNCHANGED <<serviceVars, flagVars, eventVars, listVars, loop, exitAsked,
                   handler, adapter, callerVars, historyVars>>

\* GAP_EVENT_INQUIRY_RESULT: inquiry_active_ is looked at ...
InquiryResult(d) ==
    /\ LoopRuns /\ inquiry # "none" /\ d \notin answered
    /\ answered' = answered \cup {d}
    /\ handler' = IF instance /\ inquiryActive THEN {d} ELSE {}
    /\ UNCHANGED <<serviceVars, flagVars, eventVars, listVars, loop, exitAsked,
                   queue, done, worldVars, callerVars, cut, late, pulled>>

\* ... and the device appended.
ResultAppended ==
    /\ handler # {}
    /\ found' = found \cup handler
    /\ handler' = {}
    /\ UNCHANGED <<serviceVars, flagVars, eventVars, inquiryActive, loop,
                   exitAsked, queue, done, worldVars, callerVars, historyVars>>

\* GAP_EVENT_INQUIRY_COMPLETE.
InquiryComplete ==
    /\ LoopRuns /\ inquiry # "none"
    /\ inquiry' = "none"
    /\ IF instance THEN inquiryActive' = FALSE /\ inquiryEvent' = TRUE
       ELSE UNCHANGED <<inquiryActive, inquiryEvent>>
    /\ UNCHANGED <<serviceVars, flagVars, initEvent, cancelEvent, found,
                   loopVars, hci, adapter, callerVars, historyVars>>

\* btstack_run_loop_execute() returns.
LoopExits ==
    /\ LoopRuns /\ exitAsked
    /\ loop' = "exited"
    /\ UNCHANGED <<serviceVars, flagVars, eventVars, listVars, exitAsked,
                   queue, done, handler, worldVars, callerVars, historyVars>>

-----------------------------------------------------------------------------
(* Sessions, as far as the inquiry notices them.                           *)

\* connect_a2dp() clears a cancel that is left from before.
SessionConnects ==
    /\ ready /\ mutex = "free" /\ ~session
    /\ session' = TRUE
    /\ cancelEvent' = FALSE
    /\ UNCHANGED <<serviceVars, flagVars, initEvent, inquiryEvent, listVars,
                   loopVars, worldVars, scan, down, clearing, historyVars>>

\* stop_streaming(), also without a session: cancel_pending_waits().
StopStreaming ==
    /\ mutex = "free"
    /\ session \/ (transport /\ ~cancelEvent)
    /\ session' = FALSE
    /\ cancelEvent' = (cancelEvent \/ transport)
    /\ UNCHANGED <<serviceVars, flagVars, initEvent, inquiryEvent, listVars,
                   loopVars, worldVars, scan, down, clearing, historyVars>>

Init ==
    /\ transport = FALSE /\ ready = FALSE /\ initFailed = FALSE
    /\ mutex = "free"
    /\ instance = FALSE /\ running = FALSE /\ hciReady = FALSE
    /\ initResult = FALSE /\ initEvent = FALSE /\ cancelEvent = FALSE
    /\ inquiryEvent = FALSE /\ inquiryActive = FALSE /\ found = {}
    /\ loop = "none" /\ exitAsked = FALSE /\ queue = <<>> /\ done = {}
    /\ handler = {} /\ hci = "off" /\ adapter = FALSE /\ inquiry = "none"
    /\ scan = "none" /\ down = "none" /\ session = FALSE /\ clearing = FALSE
    /\ answered = {} /\ cut = FALSE /\ late = FALSE /\ pulled = FALSE

InitSteps == InitDecided \/ InitLaunches \/ InitLacksThread \/ InitSucceeds
                 \/ InitTimesOut
Inquiry == ScanStarts \/ ScanBegun \/ ScanRefused \/ ScanSeesEnd
               \/ ScanGivesUp \/ ScanStopped \/ ScanCollects
Shutdown == DownBegins \/ DownPowers \/ DownAwaitsOff \/ DownExits
                \/ DownJoins \/ DownReturns \/ ResetClears
RunLoop == LoopSetsUp \/ RunRequest \/ ResultAppended \/ LoopExits
Controller == HciWorks \/ HciOff \/ InquiryComplete
                  \/ \E d \in Headsets : InquiryResult(d)
User == StartScan \/ ResetBtstack \/ SessionConnects \/ StopStreaming

Next == InitSteps \/ Inquiry \/ ScanCrashes \/ Shutdown \/ RunLoop
            \/ Controller \/ User

\* Every wait of the callers has a timeout, and the run loop gets on with
\* what is queued and ends when asked.  Nothing is assumed of the dongle.
Fairness ==
    /\ WF_vars(InitSteps) /\ WF_vars(Inquiry) /\ WF_vars(Shutdown)
    /\ WF_vars(LoopSetsUp) /\ WF_vars(RunRequest) /\ WF_vars(ResultAppended)
    /\ SF_vars(LoopExits)

Spec == Init /\ [][Next]_vars /\ Fairness

-----------------------------------------------------------------------------
TypeOK ==
    /\ transport \in BOOLEAN /\ ready \in BOOLEAN /\ initFailed \in BOOLEAN
    /\ instance \in BOOLEAN /\ running \in BOOLEAN /\ hciReady \in BOOLEAN
    /\ initResult \in BOOLEAN /\ initEvent \in BOOLEAN
    /\ cancelEvent \in BOOLEAN /\ inquiryEvent \in BOOLEAN
    /\ inquiryActive \in BOOLEAN /\ exitAsked \in BOOLEAN
    /\ adapter \in BOOLEAN /\ session \in BOOLEAN
    /\ cut \in BOOLEAN /\ late \in BOOLEAN
    /\ clearing \in BOOLEAN /\ pulled \in BOOLEAN
    /\ mutex \in {"free", "scan", "ui"}
    /\ found \subseteq Headsets /\ handler \subseteq Headsets
    /\ answered \subseteq Headsets
    /\ loop \in {"none", "setup", "running", "exited"}
    /\ queue \in Seq(Requests) /\ done \subseteq Requests \cup {"refused"}
    /\ hci \in {"off", "starting", "working", "halting"}
    /\ inquiry \in {"none", "running", "stopping"}
    /\ scan \in {"none", "init", "polling", "start", "starting", "waiting",
                 "stopping", "collect"}
    /\ down \in {"none", "begin", "powering", "offWait", "exit", "join",
                 "return"}

\* The caller of a request is still waiting for it.
Waiting(r) ==
    CASE r = "inquire" -> scan = "starting"
      [] r = "stop" -> scan = "stopping"
      [] r = "powerOff" -> down = "powering"

\* One BTstack at a time, through time-outs, failed starts and resets: the
\* singleton is free whenever no transport exists, so no start is refused;
\* it is given up only once its run loop has ended; a stack called ready has
\* its run loop and HCI up; and no request on the run loop points into the
\* stack of a caller that has left (init(), shutdown(), RunLoopRequest).
StackSingle ==
    /\ TypeOK
    /\ ~transport => ~instance
    /\ ~instance => loop \in {"none", "exited"}
    /\ ready /\ down = "none" => loop = "running" /\ hci = "working"
    /\ \A i \in DOMAIN queue : loop = "running" => Waiting(queue[i])

\* A scan that ends hands out exactly the devices that answered its own
\* inquiry, which is over, from a list nobody appends to any more - as long
\* as no scan on this transport was cut short (scan_devices(),
\* get_discovered_devices()).
ScanHonest ==
    scan = "collect" /\ ~cut /\ ~pulled =>
        found = answered /\ inquiry = "none" /\ handler = {}

\* scan_devices() and shutdown() return, whatever the dongle does.
StackCallsReturn ==
    /\ scan # "none" ~> scan = "none"
    /\ down # "none" ~> down = "none"

\* "Get devices discovered during last scan_devices() call"
\* (btstack_transport.h:75): a scan is not ended by the cancel or by the
\* completion of something before it.
ScanStartsFresh ==
    [][scan = "start" /\ scan' = "starting"
           => ~cancelEvent /\ ~inquiryEvent]_vars

\* "Power off HCI properly so the USB adapter is released"
\* (btstack_transport.cpp:510): a shutdown in which no wait ran out of time
\* ends the run loop after HCI_STATE_OFF.
AdapterReleased == loop = "exited" /\ ~late => ~adapter
=============================================================================
