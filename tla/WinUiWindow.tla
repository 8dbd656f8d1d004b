----------------------------- MODULE WinUiWindow -----------------------------
(***************************************************************************)
(* The session controls of the WinUI window (winui3/MainWindow.xaml.cpp)   *)
(* against the streaming service.  Clicks run on the UI thread and call    *)
(* the service directly; the service's callbacks come from its worker and  *)
(* scan threads and are queued on the dispatcher, so the window learns of  *)
(* a state some time after it was entered, and possibly after the user has *)
(* clicked again.                                                          *)
(*                                                                         *)
(* The service is reduced to what its callbacks depend on: A2dpService has *)
(* the rest.                                                               *)
(***************************************************************************)
EXTENDS Naturals, Sequences

CONSTANT MaxEvents  \* bound: no click and no link loss while as many events
                    \* wait in the dispatcher queue

ASSUME WindowAssumption == MaxEvents \in Nat \ {0}

VARIABLES
    ui,             \* UI thread: launching, idle, joining, stopping
    events,         \* dispatcher queue
    isStreaming,    \* isStreaming_, also: the buttons say Disconnect
    scanEnabled,    \* ScanButton
    connectEnabled, \* ConnectButton
    hasSelected,    \* hasSelectedDevice_
    listed,         \* DeviceListView has items
    card,           \* the state the status card shows
    lastKnown,      \* settings_.last_device_mac is set
    state,          \* A2dpService::state_
    running,        \* A2dpService::running_
    stopReq,        \* A2dpService::stop_requested_
    worker,         \* where the streaming worker is
    scan,           \* where the scan thread is
    scanSeen,       \* the state the scan thread loaded to notify again
    refused,        \* history: the service ignored a start or a scan
    overlap,        \* history: a session was started during a scan
    threw,          \* history: an exception left the streaming loop, and
                    \* neither a stop nor a start has told a state since
    unguarded       \* history: running_ was cleared under a session or its
                    \* start: stop_streaming() gave up, a worker crashed late

controlVars == <<isStreaming, scanEnabled, connectEnabled, hasSelected, listed,
                lastKnown, card>>
scanVars == <<scan, scanSeen>>
historyVars == <<refused, overlap, threw, unguarded>>
windowVars == <<ui, events, controlVars, state, running, stopReq, worker,
                scanVars, historyVars>>

States == {"Idle", "Connecting", "Streaming", "Reconnecting", "Error"}
Workers == {"none", "starting", "connecting", "streaming", "reconnecting",
            "cleanup", "ending", "telling", "crashed"}
Scans == {"none", "init", "telling", "inquiry", "toldFound", "done"}

HasRoom == Len(events) < MaxEvents

\* What is left of an exception once the window told the service what to do: a
\* scan that runs may still repeat the state it left.
StillThrown == threw /\ scan # "none"

\* notify_state() with the window's state callback.
Notify(s) ==
    /\ state' = s
    /\ events' = Append(events, s)

-----------------------------------------------------------------------------
(* Clicks.                                                                 *)

\* service_->start_streaming() and SetStreamingUi(true): the window takes
\* the start for granted, the service ignores it while running_ is set.
StartStream ==
    /\ HasRoom
    /\ lastKnown' = TRUE
    /\ isStreaming' = TRUE
    /\ IF running
       THEN /\ refused' = TRUE
            /\ ui' = "idle"
            /\ UNCHANGED <<events, state, running, stopReq, overlap, threw>>
       ELSE /\ Notify("Connecting")
            /\ stopReq' = FALSE
            /\ running' = TRUE
            /\ ui' = "joining"
            /\ overlap' = (overlap \/ scan # "none")
            /\ threw' = StillThrown
            /\ UNCHANGED refused
    /\ UNCHANGED <<scanEnabled, connectEnabled, hasSelected, listed, card,
                   worker, scanVars, unguarded>>

\* worker_thread_.join(), then the new thread.
StartJoins ==
    /\ ui = "joining" /\ worker = "none"
    /\ worker' = "starting"
    /\ ui' = "idle"
    /\ UNCHANGED <<events, controlVars, state, running, stopReq, scanVars,
                   historyVars>>

\* StopStream(): the UI thread is in stop_streaming(), which polls running_
\* for some 5 s and then clears it itself.
StopStream ==
    /\ HasRoom
    /\ stopReq' = TRUE
    /\ ui' = "stopping"
    /\ UNCHANGED <<events, controlVars, state, running, worker, scanVars,
                   historyVars>>

StopReturns ==
    /\ ui = "stopping"
    /\ running' = FALSE
    /\ unguarded' = (unguarded \/ running)
    /\ threw' = StillThrown
    /\ Notify("Idle")
    /\ isStreaming' = FALSE
    /\ ui' = "idle"
    /\ UNCHANGED <<scanEnabled, connectEnabled, hasSelected, listed,
                   lastKnown, card, stopReq, worker, scanVars, refused, overlap>>

\* The constructor, with or without auto-connect to the last device (which
\* also wants the dongle in WinUSB mode).
Launch ==
    /\ ui = "launching"
    /\ \/ lastKnown /\ StartStream
       \/ /\ ui' = "idle"
          /\ UNCHANGED <<events, controlVars, state, running, stopReq, worker,
                         scanVars, historyVars>>

OnConnectClick ==
    /\ ui = "idle" /\ connectEnabled
    /\ \/ isStreaming /\ StopStream
       \/ ~isStreaming /\ hasSelected /\ StartStream

\* The button that is never disabled.
OnDirectConnectClick ==
    /\ ui = "idle"
    /\ \/ isStreaming /\ StopStream
       \/ ~isStreaming /\ StartStream

OnReconnectLastClick ==
    /\ ui = "idle" /\ lastKnown /\ ~isStreaming
    /\ StartStream

\* The list is cleared and the buttons go grey before the service, which
\* refuses a scan while running_ is set, is asked.
OnScanClick ==
    /\ ui = "idle" /\ scanEnabled /\ scan = "none" /\ HasRoom
    /\ scanEnabled' = FALSE /\ connectEnabled' = FALSE
    /\ listed' = FALSE /\ hasSelected' = FALSE
    /\ IF running
       THEN refused' = TRUE /\ UNCHANGED <<events, state, scan>>
       ELSE Notify(state) /\ scan' = "init" /\ UNCHANGED refused
    /\ UNCHANGED <<ui, isStreaming, lastKnown, card, running, stopReq, worker,
                   scanSeen, overlap, threw, unguarded>>

\* A device is selected or, during a session as well, deselected.
OnDeviceSelectionChanged ==
    /\ ui = "idle" /\ listed
    /\ \/ hasSelected' = TRUE /\ connectEnabled' = TRUE
       \/ hasSelected' = FALSE /\ connectEnabled' = FALSE
    /\ UNCHANGED <<ui, events, isStreaming, scanEnabled, listed, lastKnown,
                   card, state, running, stopReq, worker, scanVars, historyVars>>

-----------------------------------------------------------------------------
(* The dispatcher: UpdateUI() and the scan-complete handler.               *)

\* The card's headline and tone follow the state.
UpdateStatusCard(e) == card' = e

\* Seeded fault: an error does not take the window out of streaming mode.
ErrorKeepsStreaming(e) ==
    /\ isStreaming' = IF e = "Streaming" THEN TRUE
                      ELSE IF e = "Idle" THEN FALSE ELSE isStreaming
    /\ scanEnabled' = (e \in {"Idle", "Error"})
    /\ connectEnabled' =
          CASE e \in {"Connecting", "Reconnecting"} -> FALSE
            [] e = "Streaming" -> TRUE
            [] e = "Error" -> connectEnabled \/ hasSelected
            [] OTHER -> connectEnabled
    /\ UpdateStatusCard(e)
    /\ UNCHANGED <<hasSelected, listed, lastKnown>>

UpdateUI(e) ==
    /\ isStreaming' = CASE e = "Streaming" -> TRUE
                        [] e \in {"Idle", "Error"} -> FALSE
                        [] OTHER -> isStreaming
    /\ scanEnabled' = (e \in {"Idle", "Error"})
    /\ connectEnabled' =
          CASE e \in {"Connecting", "Reconnecting"} -> FALSE
            [] e = "Streaming" -> TRUE
            [] e = "Error" -> connectEnabled \/ hasSelected
            [] OTHER -> connectEnabled
    /\ UpdateStatusCard(e)
    /\ UNCHANGED <<hasSelected, listed, lastKnown>>

\* The scan button comes back; the list is filled if anything was found.
ScanShown ==
    /\ scanEnabled' = TRUE
    /\ listed' \in {listed, TRUE}
    /\ UNCHANGED <<isStreaming, connectEnabled, hasSelected, lastKnown, card>>

HandleEvent ==
    /\ ui = "idle" /\ events # <<>>
    /\ events' = Tail(events)
    /\ IF Head(events) = "ScanDone" THEN ScanShown ELSE UpdateUI(Head(events))
    /\ UNCHANGED <<ui, state, running, stopReq, worker, scanVars, historyVars>>

-----------------------------------------------------------------------------
(* The service's threads, as far as the window can see them.               *)

WorkerStep(from, to) ==
    /\ worker = from
    /\ worker' = to
    /\ UNCHANGED <<ui, controlVars, stopReq, scanVars, historyVars>>

WorkerBegins ==
    /\ WorkerStep("starting", "connecting") /\ Notify("Connecting")
    /\ UNCHANGED running

WorkerConnects ==
    /\ WorkerStep("connecting", "streaming") /\ Notify("Streaming")
    /\ UNCHANGED running

WorkerLosesLink ==
    /\ HasRoom
    /\ WorkerStep("streaming", "reconnecting") /\ Notify("Reconnecting")
    /\ UNCHANGED running

WorkerReconnects ==
    /\ WorkerStep("reconnecting", "streaming") /\ Notify("Streaming")
    /\ UNCHANGED running

\* A set-up step fails or the reconnect attempts are used up: the error is
\* told first, running_ is cleared at the end of the clean-up.
WorkerFails ==
    /\ \E from \in {"connecting", "reconnecting"} :
          WorkerStep(from, "cleanup")
    /\ Notify("Error")
    /\ UNCHANGED running

\* A stop during a reconnect shows as the failure of the reconnect.
WorkerStops ==
    /\ stopReq
    /\ \E from \in {"connecting", "streaming"} : WorkerStep(from, "cleanup")
    /\ UNCHANGED <<events, state, running>>


WorkerClears ==
    /\ WorkerStep("cleanup", "ending")
    /\ running' = FALSE
    /\ UNCHANGED <<events, state>>

\* A session that was stopped says so once more ...
WorkerEnds ==
    /\ WorkerStep("ending", IF stopReq THEN "telling" ELSE "none")
    /\ UNCHANGED <<events, state, running>>

\* ... when the next one may have been started already.
WorkerTells ==
    /\ WorkerStep("telling", "none") /\ Notify("Idle")
    /\ UNCHANGED running

\* catch (...) around the streaming loop: the clean-up follows, no state is
\* told unless a stop was requested.
LoopThrows ==
    /\ worker \in {"streaming", "reconnecting"}
    /\ worker' = "cleanup"
    /\ threw' = TRUE
    /\ UNCHANGED <<ui, events, controlVars, state, running, stopReq, scanVars,
                   refused, overlap, unguarded>>

\* The exception handler around the whole thread tells an error ...
WorkerCrashes ==
    /\ worker \notin {"none", "crashed"}
    /\ worker' = "crashed"
    /\ Notify("Error")
    /\ UNCHANGED <<ui, controlVars, running, stopReq, scanVars, historyVars>>

\* ... and clears running_, for a session that is waiting to begin as well.
CrashClears ==
    /\ worker = "crashed"
    /\ worker' = "none"
    /\ running' = FALSE
    /\ unguarded' = (unguarded \/ ui = "joining")
    /\ UNCHANGED <<ui, events, controlVars, state, stopReq, scanVars, refused,
                   overlap, threw>>

\* notify_state(state_.load(), ...) of the scan thread: the load ...
ScanLoads ==
    /\ scan \in {"init", "inquiry"}
    /\ scan' = IF scan = "init" THEN "telling" ELSE "toldFound"
    /\ scanSeen' = state
    /\ UNCHANGED <<ui, events, controlVars, state, running, stopReq, worker,
                   historyVars>>

\* ... and the store and the callback.
ScanTells ==
    /\ scan \in {"telling", "toldFound"}
    /\ scan' = IF scan = "telling" THEN "inquiry" ELSE "done"
    /\ Notify(scanSeen)
    /\ UNCHANGED <<ui, controlVars, running, stopReq, worker, scanSeen,
                   historyVars>>

\* The stack does not come up.
ScanFails ==
    /\ scan = "init"
    /\ Notify("Error")
    /\ scan' = "done"
    /\ UNCHANGED <<ui, controlVars, running, stopReq, worker, scanSeen,
                   historyVars>>

\* The exception handler around the thread: no scan-complete callback.
ScanCrashes ==
    /\ scan # "none"
    /\ Notify("Error")
    /\ scan' = "none"
    /\ UNCHANGED <<ui, controlVars, running, stopReq, worker, scanSeen,
                   historyVars>>

ScanCompletes ==
    /\ scan = "done"
    /\ scan' = "none"
    /\ events' = Append(events, "ScanDone")
    /\ UNCHANGED <<ui, controlVars, state, running, stopReq, worker, scanSeen,
                   historyVars>>

-----------------------------------------------------------------------------
WindowInit ==
    /\ ui = "launching" /\ events = <<>>
    /\ isStreaming = FALSE /\ scanEnabled = TRUE /\ connectEnabled = FALSE
    /\ hasSelected = FALSE /\ listed = FALSE /\ lastKnown \in BOOLEAN
    /\ card = "Idle"
    /\ state = "Idle" /\ running = FALSE /\ stopReq = FALSE
    /\ worker = "none" /\ scan = "none" /\ scanSeen = "Idle"
    /\ refused = FALSE /\ overlap = FALSE
    /\ threw = FALSE /\ unguarded = FALSE

UiThread == StartJoins \/ StopReturns \/ HandleEvent
WorkerThread ==
    \/ WorkerBegins \/ WorkerConnects \/ WorkerReconnects \/ WorkerFails
    \/ WorkerStops \/ WorkerClears \/ WorkerEnds \/ WorkerTells \/ CrashClears
ScanThread == ScanLoads \/ ScanTells \/ ScanFails \/ ScanCompletes
User ==
    \/ Launch \/ OnConnectClick \/ OnDirectConnectClick
    \/ OnReconnectLastClick \/ OnScanClick \/ OnDeviceSelectionChanged

Faults == LoopThrows \/ WorkerCrashes \/ ScanCrashes

WindowNext == \/ UiThread \/ WorkerThread \/ WorkerLosesLink \/ ScanThread
              \/ Faults \/ User

\* The threads go on (the worker of a session that is not guarded may not: no
\* more is asked of the window then); a link need not fail, nothing need crash
\* and a user need not click.
WindowFairness ==
    /\ WF_windowVars(UiThread)
    /\ WF_windowVars(WorkerThread)
    /\ WF_windowVars(ScanThread)

WindowSpec == WindowInit /\ [][WindowNext]_windowVars /\ WindowFairness

-----------------------------------------------------------------------------
WindowTypeOK ==
    /\ ui \in {"launching", "idle", "joining", "stopping"}
    /\ events \in Seq(States \cup {"ScanDone"})
    /\ {isStreaming, scanEnabled, connectEnabled, hasSelected, listed,
        lastKnown, running, stopReq, refused, overlap, threw,
        unguarded} \subseteq BOOLEAN
    /\ card \in States /\ state \in States /\ worker \in Workers
    /\ scan \in Scans /\ scanSeen \in States

\* What the window cannot make up for.
Misled == refused \/ overlap \/ threw \/ unguarded

Quiet == ui = "idle" /\ events = <<>> /\ ~Misled

\* When the queue is empty the window is right, whatever events were
\* overtaken by clicks before, and whatever thread crashed: with no session
\* the buttons say Connect, Scan works again and the status card shows no
\* session; a session that streams is shown as one.  Not so after a start or a
\* scan the service ignored, a session started during a scan, an exception in
\* the streaming loop until the next stop or start, and a session that
\* running_ does not guard (UpdateUI(), UpdateStatusCard(), OnScanClick()).
WindowTruthful ==
    /\ WindowTypeOK
    /\ Quiet /\ worker = "none" /\ scan = "none" =>
          ~isStreaming /\ scanEnabled /\ card \in {"Idle", "Error"}
    /\ Quiet /\ worker = "streaming" =>
          isStreaming /\ card = "Streaming"


\* As WindowTruthful, without the exception for ignored calls.
ControlsAlwaysTruthful ==
    ui = "idle" /\ events = <<>> /\ worker = "none" /\ scan = "none"
        => ~isStreaming /\ scanEnabled

\* A selected device can be connected to once nothing is going on.
SelectedConnectable ==
    Quiet /\ worker = "none" /\ scan = "none" /\ hasSelected => connectEnabled
=============================================================================
