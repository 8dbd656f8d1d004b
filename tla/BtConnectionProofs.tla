-------------------------- MODULE BtConnectionProofs --------------------------
(***************************************************************************)
(* Proofs about BtConnection for every number of sessions and of reconnect *)
(* attempts: the main loop never misses the loss of the link; and with a   *)
(* prompt headset (the prompt behaviours) a loss the loop acts on is one   *)
(* of the link in use, and no session ends with the headset still held.    *)
(***************************************************************************)
EXTENDS BtConnection, TLAPS

\* From the start request on, a link that goes down is flagged: both handlers
\* that clear connected_ set disconnect_occurred_, and nobody resets it.
LInv == worker \in {"startWait", "loop"} => connected \/ lost

Released == {"none", "closing"}
UnderWay == {"establishing", "discovering"}

\* A stop is not under way while a connection is set up or rebuilt, so that
\* no cancel cuts the wait for it short.
Uncancelled ==
    /\ ui = "cancelling" => stopReq
    /\ worker \in Early \/ attempt > 0 => ~stopReq
    /\ worker \in {"establishing", "connectWait"} => ~cancel

\* Where the worker is and how far the stack's connection has come.  An
\* attempt begins with no connection; one that is coming up is waited for;
\* the event of the wait is set just when it has ended, and is taken by it.
LinkFollows ==
    /\ worker \in {"entering", "resetting", "establishing"} => stack = "none"
    /\ worker \in {"idle", "pausing", "retrying", "discWait"} => stack \in Released
    /\ stack \in UnderWay => worker = "connectWait" /\ ~connectEv
    /\ worker = "connectWait" /\ stack = "open" => connectEv /\ connectOk
    /\ connectEv => worker = "connectWait"
    /\ stack \notin Released => cid

\* disconnect_occurred_ is reset while there is no connection, and set only
\* by the end of the connection made after that.
LossFollows ==
    /\ worker = "establishing" => ~lost
    /\ lost /\ worker \in {"connectWait", "connected", "streamWait",
                           "configured", "startWait", "loop"}
           => stack \in Released

PInv ==
    /\ TypeOK
    /\ prompt => Uncancelled /\ LinkFollows /\ LossFollows

-----------------------------------------------------------------------------

\* Every step keeps the types.
LEMMA NextTypeOK ==
    ASSUME TypeOK, [Next]_vars
    PROVE  TypeOK'
<1> USE DEF uiVars, flagVars, eventVars, resultVars, stackVars, TypeOK, Early,
           Waiting
<1>1. CASE StartSession
  <2>1. stopReq' \in BOOLEAN
    BY <1>1 DEF StartSession
  <2> QED
    BY <1>1, <2>1, ConnectionAssumption DEF StartSession
<1>2. CASE StopRequests
  <2>1. stopReq' \in BOOLEAN
    BY <1>2 DEF StopRequests
  <2> QED
    BY <1>2, <2>1, ConnectionAssumption DEF StopRequests
<1>3. CASE StopCancels
  <2>1. cancel' \in BOOLEAN
    BY <1>3 DEF StopCancels
  <2> QED
    BY <1>3, <2>1, ConnectionAssumption DEF StopCancels
<1>4. CASE WorkerEnters
  BY <1>4, ConnectionAssumption DEF WorkerEnters
<1>5. CASE ConnectResets
  <2>1. /\ lost' \in BOOLEAN
        /\ cancel' \in BOOLEAN
        /\ connectEv' \in BOOLEAN
        /\ streamEv' \in BOOLEAN
        /\ connectOk' \in BOOLEAN
        /\ streamOk' \in BOOLEAN
    BY <1>5 DEF ConnectResets
  <2> QED
    BY <1>5, <2>1, ConnectionAssumption DEF ConnectResets
<1>6. CASE ReconnectResets
  <2>1. /\ connected' \in BOOLEAN
        /\ streaming' \in BOOLEAN
        /\ lost' \in BOOLEAN
        /\ cid' \in BOOLEAN
        /\ seid' \in BOOLEAN
        /\ cancel' \in BOOLEAN
        /\ connectOk' \in BOOLEAN
        /\ streamOk' \in BOOLEAN
        /\ startOk' \in BOOLEAN
    BY <1>6 DEF ReconnectResets
  <2> QED
    BY <1>6, <2>1, ConnectionAssumption DEF ReconnectResets
<1>7. CASE Establish
  <2>1. cid' \in BOOLEAN
    BY <1>7 DEF Establish
  <2> QED
    BY <1>7, <2>1, ConnectionAssumption DEF Establish, ConnectFailed
<1>8. CASE ConnectAnswered
  <2>1. connectEv' \in BOOLEAN
    BY <1>8 DEF ConnectAnswered
  <2> QED
    BY <1>8, <2>1, ConnectionAssumption DEF ConnectAnswered, ConnectFailed
<1>9. CASE ConnectExpires
  BY <1>9, ConnectionAssumption DEF ConnectExpires, ConnectFailed, Expires
<1>10. CASE ConfigureBegins
  <2>1. streamEv' \in BOOLEAN /\ streamOk' \in BOOLEAN
    BY <1>10 DEF ConfigureBegins
  <2>2. /\ worker' \in {"disconnecting", "streamWait"}
        /\ media' \in {media, "configuring"}
    BY <1>10 DEF ConfigureBegins
  <2>3. UNCHANGED <<prompt, uiVars, attempt, flagVars, cancel, connectEv,
                    startEv,
                    discEv, connectOk, startOk, stack>>
    BY <1>10 DEF ConfigureBegins
  <2> QED
    BY <2>1, <2>2, <2>3
<1>11. CASE ConfigureSkipped
  BY <1>11, ConnectionAssumption DEF ConfigureSkipped
<1>12. CASE ConfigureAnswered
  <2>1. streamEv' \in BOOLEAN
    BY <1>12 DEF ConfigureAnswered
  <2> QED
    BY <1>12, <2>1, ConnectionAssumption DEF ConfigureAnswered
<1>13. CASE ConfigureExpires
  BY <1>13, ConnectionAssumption DEF ConfigureExpires, Expires
<1>14. CASE StartBegins
  <2>1. startEv' \in BOOLEAN /\ startOk' \in BOOLEAN
    BY <1>14 DEF StartBegins
  <2>2. /\ worker' \in {"disconnecting", "startWait"}
        /\ media' \in {media, "starting"}
    BY <1>14 DEF StartBegins
  <2>3. UNCHANGED <<prompt, uiVars, attempt, flagVars, cancel, connectEv,
                    streamEv,
                    discEv, connectOk, streamOk, stack>>
    BY <1>14 DEF StartBegins
  <2> QED
    BY <2>1, <2>2, <2>3
<1>15. CASE StartAnswered
  <2>1. startEv' \in BOOLEAN
    BY <1>15 DEF StartAnswered
  <2> QED
    BY <1>15, <2>1, ConnectionAssumption DEF StartAnswered
<1>16. CASE StartExpires
  BY <1>16, ConnectionAssumption DEF StartExpires, Expires
<1>17. CASE LoopLosesLink
  <2>1. lost' \in BOOLEAN
    BY <1>17 DEF LoopLosesLink
  <2> QED
    BY <1>17, <2>1, ConnectionAssumption DEF LoopLosesLink
<1>18. CASE PauseEnds
  BY <1>18, ConnectionAssumption DEF PauseEnds
<1>19. CASE ReconnectRetries
  BY <1>19, ConnectionAssumption DEF ReconnectRetries
<1>20. CASE SessionEnds
  BY <1>20, ConnectionAssumption DEF SessionEnds
<1>21. CASE StopStream
  <2>1. streaming' \in BOOLEAN
    BY <1>21 DEF StopStream
  <2> QED
    BY <1>21, <2>1, ConnectionAssumption DEF StopStream
<1>22. CASE Disconnect
  <2>1. streaming' \in BOOLEAN
    BY <1>22 DEF Disconnect
  <2> QED
    BY <1>22, <2>1, ConnectionAssumption DEF Disconnect, Disconnected
<1>23. CASE DisconnectReturns
  <2>1. /\ connected' \in BOOLEAN
        /\ streaming' \in BOOLEAN
        /\ cid' \in BOOLEAN
        /\ discEv' \in BOOLEAN
    BY <1>23 DEF DisconnectReturns
  <2> QED
    BY <1>23, <2>1, ConnectionAssumption DEF DisconnectReturns,
       Disconnected, Expires
<1>24. CASE SignalingFails
  <2>1. /\ cid' \in BOOLEAN
        /\ connectEv' \in BOOLEAN
        /\ connectOk' \in BOOLEAN
    BY <1>24 DEF SignalingFails
  <2> QED
    BY <1>24, <2>1, ConnectionAssumption DEF SignalingFails
<1>25. CASE SignalingEstablished
  <2>1. cid' \in BOOLEAN
    BY <1>25 DEF SignalingEstablished
  <2> QED
    BY <1>25, <2>1, ConnectionAssumption DEF SignalingEstablished
<1>26. CASE CapabilitiesComplete
  <2>1. /\ connected' \in BOOLEAN
        /\ connectEv' \in BOOLEAN
        /\ connectOk' \in BOOLEAN
    BY <1>26 DEF CapabilitiesComplete
  <2> QED
    BY <1>26, <2>1, ConnectionAssumption DEF CapabilitiesComplete
<1>27. ASSUME NEW ok \in BOOLEAN, StreamEstablished(ok)
      PROVE  TypeOK'
  <2>1. /\ seid' \in BOOLEAN
        /\ streamEv' \in BOOLEAN
        /\ streamOk' \in BOOLEAN
    BY <1>27 DEF StreamEstablished
  <2> QED
    BY <1>27, <2>1, ConnectionAssumption DEF StreamEstablished
<1>28. CASE StreamStarted
  <2>1. /\ streaming' \in BOOLEAN
        /\ startEv' \in BOOLEAN
        /\ startOk' \in BOOLEAN
    BY <1>28 DEF StreamStarted
  <2> QED
    BY <1>28, <2>1, ConnectionAssumption DEF StreamStarted
<1>29. CASE CommandRejected
  BY <1>29, ConnectionAssumption DEF CommandRejected
<1>30. CASE StreamSuspended
  <2>1. streaming' \in BOOLEAN
    BY <1>30 DEF StreamSuspended
  <2> QED
    BY <1>30, <2>1, ConnectionAssumption DEF StreamSuspended
<1>31. CASE HciDisconnected
  <2>1. /\ connected' \in BOOLEAN
        /\ streaming' \in BOOLEAN
        /\ lost' \in BOOLEAN
    BY <1>31 DEF HciDisconnected
  <2> QED
    BY <1>31, <2>1, ConnectionAssumption DEF HciDisconnected
<1>32. CASE SignalingReleased
  <2>1. /\ connected' \in BOOLEAN
        /\ streaming' \in BOOLEAN
        /\ lost' \in BOOLEAN
        /\ cid' \in BOOLEAN
        /\ discEv' \in BOOLEAN
    BY <1>32 DEF SignalingReleased
  <2> QED
    BY <1>32, <2>1, ConnectionAssumption DEF SignalingReleased
<1>33. CASE UNCHANGED vars
  BY <1>33, ConnectionAssumption DEF vars
<1> QED
  BY <1>1, <1>2, <1>3, <1>4, <1>5, <1>6, <1>7, <1>8, <1>9, <1>10, <1>11,
     <1>12, <1>13, <1>14, <1>15, <1>16, <1>17, <1>18, <1>19, <1>20, <1>21,
     <1>22, <1>23, <1>24, <1>25, <1>26, <1>27, <1>28, <1>29, <1>30, <1>31,
     <1>32, <1>33 DEF Next, Worker, Answers, Losses

\* No step of the worker or of a handler loses the loss of the link.
LEMMA NextLInv ==
    ASSUME TypeOK, LInv, [Next]_vars
    PROVE  LInv'
<1> USE DEF uiVars, flagVars, eventVars, resultVars, stackVars, LInv
<1>1. CASE StartSession
  BY <1>1 DEF StartSession
<1>2. CASE StopRequests
  BY <1>2 DEF StopRequests
<1>3. CASE StopCancels
  BY <1>3 DEF StopCancels
<1>4. CASE WorkerEnters
  BY <1>4 DEF WorkerEnters
<1>5. CASE ConnectResets
  BY <1>5 DEF ConnectResets
<1>6. CASE ReconnectResets
  BY <1>6 DEF ReconnectResets
<1>7. CASE Establish
  BY <1>7 DEF Establish, ConnectFailed
<1>8. CASE ConnectAnswered
  BY <1>8 DEF ConnectAnswered, ConnectFailed
<1>9. CASE ConnectExpires
  BY <1>9 DEF ConnectExpires, ConnectFailed, Expires
<1>10. CASE ConfigureBegins
  BY <1>10 DEF ConfigureBegins
<1>11. CASE ConfigureSkipped
  BY <1>11 DEF ConfigureSkipped
<1>12. CASE ConfigureAnswered
  BY <1>12 DEF ConfigureAnswered
<1>13. CASE ConfigureExpires
  BY <1>13 DEF ConfigureExpires, Expires
<1>14. CASE StartBegins
  BY <1>14 DEF StartBegins
<1>15. CASE StartAnswered
  BY <1>15 DEF StartAnswered
<1>16. CASE StartExpires
  BY <1>16 DEF StartExpires, Expires
<1>17. CASE LoopLosesLink
  BY <1>17 DEF LoopLosesLink
<1>18. CASE PauseEnds
  BY <1>18 DEF PauseEnds
<1>19. CASE ReconnectRetries
  BY <1>19 DEF ReconnectRetries
<1>20. CASE SessionEnds
  BY <1>20 DEF SessionEnds
<1>21. CASE StopStream
  BY <1>21 DEF StopStream
<1>22. CASE Disconnect
  BY <1>22 DEF Disconnect, Disconnected
<1>23. CASE DisconnectReturns
  BY <1>23 DEF DisconnectReturns, Disconnected, Expires
<1>24. CASE SignalingFails
  BY <1>24 DEF SignalingFails
<1>25. CASE SignalingEstablished
  BY <1>25 DEF SignalingEstablished
<1>26. CASE CapabilitiesComplete
  BY <1>26 DEF CapabilitiesComplete
<1>27. ASSUME NEW ok \in BOOLEAN, StreamEstablished(ok)
      PROVE  LInv'
  BY <1>27 DEF StreamEstablished
<1>28. CASE StreamStarted
  BY <1>28 DEF StreamStarted
<1>29. CASE CommandRejected
  BY <1>29 DEF CommandRejected
<1>30. CASE StreamSuspended
  BY <1>30 DEF StreamSuspended
<1>31. CASE HciDisconnected
  BY <1>31 DEF HciDisconnected
<1>32. CASE SignalingReleased
  BY <1>32 DEF SignalingReleased
<1>33. CASE UNCHANGED vars
  BY <1>33 DEF vars
<1> QED
  BY <1>1, <1>2, <1>3, <1>4, <1>5, <1>6, <1>7, <1>8, <1>9, <1>10, <1>11,
     <1>12, <1>13, <1>14, <1>15, <1>16, <1>17, <1>18, <1>19, <1>20, <1>21,
     <1>22, <1>23, <1>24, <1>25, <1>26, <1>27, <1>28, <1>29, <1>30, <1>31,
     <1>32, <1>33 DEF Next, Worker, Answers, Losses

\* With a prompt headset the user stops streams that are up only.
LEMMA NextUncancelled ==
    ASSUME TypeOK, prompt, Uncancelled, LinkFollows, [Next]_vars
    PROVE  Uncancelled'
<1> USE DEF uiVars, flagVars, eventVars, resultVars, stackVars, Uncancelled,
           Early
<1>1. CASE StartSession
  BY <1>1 DEF StartSession
<1>2. CASE StopRequests
  BY <1>2 DEF StopRequests
<1>3. CASE StopCancels
  BY <1>3 DEF StopCancels
<1>4. CASE WorkerEnters
  BY <1>4 DEF WorkerEnters
<1>5. CASE ConnectResets
  BY <1>5 DEF ConnectResets
<1>6. CASE ReconnectResets
  BY <1>6 DEF ReconnectResets
<1>7. CASE Establish
  BY <1>7 DEF Establish, ConnectFailed
<1>8. CASE ConnectAnswered
  BY <1>8 DEF ConnectAnswered, ConnectFailed
<1>9. CASE ConnectExpires
  BY <1>9 DEF ConnectExpires, ConnectFailed, Expires
<1>10. CASE ConfigureBegins
  BY <1>10 DEF ConfigureBegins
<1>11. CASE ConfigureSkipped
  BY <1>11 DEF ConfigureSkipped
<1>12. CASE ConfigureAnswered
  BY <1>12 DEF ConfigureAnswered
<1>13. CASE ConfigureExpires
  BY <1>13 DEF ConfigureExpires, Expires
<1>14. CASE StartBegins
  BY <1>14 DEF StartBegins
<1>15. CASE StartAnswered
  BY <1>15 DEF StartAnswered
<1>16. CASE StartExpires
  BY <1>16 DEF StartExpires, Expires
<1>17. CASE LoopLosesLink
  BY <1>17 DEF LoopLosesLink
<1>18. CASE PauseEnds
  BY <1>18 DEF PauseEnds
<1>19. CASE ReconnectRetries
  BY <1>19 DEF ReconnectRetries
<1>20. CASE SessionEnds
  BY <1>20 DEF SessionEnds
<1>21. CASE StopStream
  BY <1>21 DEF StopStream
<1>22. CASE Disconnect
  BY <1>22 DEF Disconnect, Disconnected
<1>23. CASE DisconnectReturns
  BY <1>23 DEF DisconnectReturns, Disconnected, Expires
<1>24. CASE SignalingFails
  BY <1>24 DEF SignalingFails
<1>25. CASE SignalingEstablished
  BY <1>25 DEF SignalingEstablished
<1>26. CASE CapabilitiesComplete
  BY <1>26 DEF CapabilitiesComplete
<1>27. ASSUME NEW ok \in BOOLEAN, StreamEstablished(ok)
      PROVE  Uncancelled'
  BY <1>27 DEF StreamEstablished
<1>28. CASE StreamStarted
  BY <1>28 DEF StreamStarted
<1>29. CASE CommandRejected
  BY <1>29 DEF CommandRejected
<1>30. CASE StreamSuspended
  BY <1>30 DEF StreamSuspended
<1>31. CASE HciDisconnected
  BY <1>31 DEF HciDisconnected
<1>32. CASE SignalingReleased
  BY <1>32 DEF SignalingReleased
<1>33. CASE UNCHANGED vars
  BY <1>33 DEF vars
<1> QED
  BY <1>1, <1>2, <1>3, <1>4, <1>5, <1>6, <1>7, <1>8, <1>9, <1>10, <1>11,
     <1>12, <1>13, <1>14, <1>15, <1>16, <1>17, <1>18, <1>19, <1>20, <1>21,
     <1>22, <1>23, <1>24, <1>25, <1>26, <1>27, <1>28, <1>29, <1>30, <1>31,
     <1>32, <1>33 DEF Next, Worker, Answers, Losses

\* The waits of the worker end when the connection has come up or gone.
LEMMA NextLinkFollows ==
    ASSUME TypeOK, prompt, Uncancelled, LinkFollows, LossFollows, [Next]_vars
    PROVE  LinkFollows'
<1> USE DEF uiVars, flagVars, eventVars, resultVars, stackVars, Uncancelled,
           LinkFollows, LossFollows, Early, Released, UnderWay, TypeOK
<1>1. CASE StartSession
  BY <1>1 DEF StartSession
<1>2. CASE StopRequests
  BY <1>2 DEF StopRequests
<1>3. CASE StopCancels
  BY <1>3 DEF StopCancels
<1>4. CASE WorkerEnters
  BY <1>4 DEF WorkerEnters
<1>5. CASE ConnectResets
  BY <1>5 DEF ConnectResets
<1>6. CASE ReconnectResets
  BY <1>6 DEF ReconnectResets
<1>7. CASE Establish
  BY <1>7 DEF Establish, ConnectFailed
<1>8. CASE ConnectAnswered
  BY <1>8 DEF ConnectAnswered, ConnectFailed
<1>9. CASE ConnectExpires
  BY <1>9 DEF ConnectExpires, ConnectFailed, Expires
<1>10. CASE ConfigureBegins
  BY <1>10 DEF ConfigureBegins
<1>11. CASE ConfigureSkipped
  BY <1>11 DEF ConfigureSkipped
<1>12. CASE ConfigureAnswered
  BY <1>12 DEF ConfigureAnswered
<1>13. CASE ConfigureExpires
  BY <1>13 DEF ConfigureExpires, Expires
<1>14. CASE StartBegins
  BY <1>14 DEF StartBegins
<1>15. CASE StartAnswered
  BY <1>15 DEF StartAnswered
<1>16. CASE StartExpires
  BY <1>16 DEF StartExpires, Expires
<1>17. CASE LoopLosesLink
  BY <1>17 DEF LoopLosesLink
<1>18. CASE PauseEnds
  BY <1>18 DEF PauseEnds
<1>19. CASE ReconnectRetries
  BY <1>19 DEF ReconnectRetries
<1>20. CASE SessionEnds
  BY <1>20 DEF SessionEnds
<1>21. CASE StopStream
  BY <1>21 DEF StopStream
<1>22. CASE Disconnect
  BY <1>22 DEF Disconnect, Disconnected
<1>23. CASE DisconnectReturns
  BY <1>23 DEF DisconnectReturns, Disconnected, Expires
<1>24. CASE SignalingFails
  BY <1>24 DEF SignalingFails
<1>25. CASE SignalingEstablished
  BY <1>25 DEF SignalingEstablished
<1>26. CASE CapabilitiesComplete
  BY <1>26 DEF CapabilitiesComplete
<1>27. ASSUME NEW ok \in BOOLEAN, StreamEstablished(ok)
      PROVE  LinkFollows'
  BY <1>27 DEF StreamEstablished
<1>28. CASE StreamStarted
  BY <1>28 DEF StreamStarted
<1>29. CASE CommandRejected
  BY <1>29 DEF CommandRejected
<1>30. CASE StreamSuspended
  BY <1>30 DEF StreamSuspended
<1>31. CASE HciDisconnected
  BY <1>31 DEF HciDisconnected
<1>32. CASE SignalingReleased
  BY <1>32 DEF SignalingReleased
<1>33. CASE UNCHANGED vars
  BY <1>33 DEF vars
<1> QED
  BY <1>1, <1>2, <1>3, <1>4, <1>5, <1>6, <1>7, <1>8, <1>9, <1>10, <1>11,
     <1>12, <1>13, <1>14, <1>15, <1>16, <1>17, <1>18, <1>19, <1>20, <1>21,
     <1>22, <1>23, <1>24, <1>25, <1>26, <1>27, <1>28, <1>29, <1>30, <1>31,
     <1>32, <1>33 DEF Next, Worker, Answers, Losses

\* disconnect_occurred_ is set by the end of a connection only.
LEMMA NextLossFollows ==
    ASSUME TypeOK, prompt, LinkFollows, LossFollows, [Next]_vars
    PROVE  LossFollows'
<1> USE DEF uiVars, flagVars, eventVars, resultVars, stackVars, LinkFollows,
           LossFollows, Released, UnderWay, TypeOK
<1>1. CASE StartSession
  BY <1>1 DEF StartSession
<1>2. CASE StopRequests
  BY <1>2 DEF StopRequests
<1>3. CASE StopCancels
  BY <1>3 DEF StopCancels
<1>4. CASE WorkerEnters
  BY <1>4 DEF WorkerEnters
<1>5. CASE ConnectResets
  BY <1>5 DEF ConnectResets
<1>6. CASE ReconnectResets
  BY <1>6 DEF ReconnectResets
<1>7. CASE Establish
  BY <1>7 DEF Establish, ConnectFailed
<1>8. CASE ConnectAnswered
  BY <1>8 DEF ConnectAnswered, ConnectFailed
<1>9. CASE ConnectExpires
  BY <1>9 DEF ConnectExpires, ConnectFailed, Expires
<1>10. CASE ConfigureBegins
  BY <1>10 DEF ConfigureBegins
<1>11. CASE ConfigureSkipped
  BY <1>11 DEF ConfigureSkipped
<1>12. CASE ConfigureAnswered
  BY <1>12 DEF ConfigureAnswered
<1>13. CASE ConfigureExpires
  BY <1>13 DEF ConfigureExpires, Expires
<1>14. CASE StartBegins
  BY <1>14 DEF StartBegins
<1>15. CASE StartAnswered
  BY <1>15 DEF StartAnswered
<1>16. CASE StartExpires
  BY <1>16 DEF StartExpires, Expires
<1>17. CASE LoopLosesLink
  BY <1>17 DEF LoopLosesLink
<1>18. CASE PauseEnds
  BY <1>18 DEF PauseEnds
<1>19. CASE ReconnectRetries
  BY <1>19 DEF ReconnectRetries
<1>20. CASE SessionEnds
  BY <1>20 DEF SessionEnds
<1>21. CASE StopStream
  BY <1>21 DEF StopStream
<1>22. CASE Disconnect
  BY <1>22 DEF Disconnect, Disconnected
<1>23. CASE DisconnectReturns
  BY <1>23 DEF DisconnectReturns, Disconnected, Expires
<1>24. CASE SignalingFails
  BY <1>24 DEF SignalingFails
<1>25. CASE SignalingEstablished
  BY <1>25 DEF SignalingEstablished
<1>26. CASE CapabilitiesComplete
  BY <1>26 DEF CapabilitiesComplete
<1>27. ASSUME NEW ok \in BOOLEAN, StreamEstablished(ok)
      PROVE  LossFollows'
  BY <1>27 DEF StreamEstablished
<1>28. CASE StreamStarted
  BY <1>28 DEF StreamStarted
<1>29. CASE CommandRejected
  BY <1>29 DEF CommandRejected
<1>30. CASE StreamSuspended
  BY <1>30 DEF StreamSuspended
<1>31. CASE HciDisconnected
  BY <1>31 DEF HciDisconnected
<1>32. CASE SignalingReleased
  BY <1>32 DEF SignalingReleased
<1>33. CASE UNCHANGED vars
  BY <1>33 DEF vars
<1> QED
  BY <1>1, <1>2, <1>3, <1>4, <1>5, <1>6, <1>7, <1>8, <1>9, <1>10, <1>11,
     <1>12, <1>13, <1>14, <1>15, <1>16, <1>17, <1>18, <1>19, <1>20, <1>21,
     <1>22, <1>23, <1>24, <1>25, <1>26, <1>27, <1>28, <1>29, <1>30, <1>31,
     <1>32, <1>33 DEF Next, Worker, Answers, Losses

-----------------------------------------------------------------------------

\* All of it holds before the first session.
LEMMA InitAll == Init => PInv /\ LInv
<1> SUFFICES ASSUME Init PROVE PInv /\ LInv
  OBVIOUS
<1>1. 0 \in 0 .. MaxSessions /\ 0 \in 0 .. MaxAttempts
  BY ConnectionAssumption
<1>2. /\ stopReq \in BOOLEAN /\ connected \in BOOLEAN /\ streaming \in BOOLEAN
      /\ lost \in BOOLEAN /\ cid \in BOOLEAN /\ seid \in BOOLEAN
      /\ cancel \in BOOLEAN /\ connectEv \in BOOLEAN /\ streamEv \in BOOLEAN
      /\ startEv \in BOOLEAN /\ discEv \in BOOLEAN
      /\ connectOk \in BOOLEAN /\ streamOk \in BOOLEAN /\ startOk \in BOOLEAN
  BY DEF Init
<1>3. TypeOK
  BY <1>1, <1>2 DEF Init, TypeOK
<1>4. LInv
  BY DEF Init, LInv
<1>5. Uncancelled /\ LinkFollows /\ LossFollows
  BY DEF Init, Uncancelled, LinkFollows, LossFollows, Early, Released, UnderWay
<1> QED
  BY <1>3, <1>4, <1>5 DEF PInv

\* The worker and the handlers together keep the relation between them.
LEMMA NextPInv == PInv /\ [Next]_vars => PInv'
<1> SUFFICES ASSUME PInv, [Next]_vars PROVE PInv'
  OBVIOUS
<1>1. TypeOK'
  BY NextTypeOK DEF PInv
<1>2. prompt' = prompt
  BY DEF Next, Worker, Answers, Losses, StartSession, StopRequests, StopCancels,
         WorkerEnters, ConnectResets, ReconnectResets, Establish,
         ConnectAnswered, ConnectExpires, ConfigureBegins, ConfigureSkipped,
         ConfigureAnswered, ConfigureExpires, StartBegins, StartAnswered,
         StartExpires, LoopLosesLink, PauseEnds, ReconnectRetries, SessionEnds,
         StopStream, Disconnect, DisconnectReturns, SignalingFails,
         SignalingEstablished, CapabilitiesComplete, StreamEstablished,
         StreamStarted, CommandRejected, StreamSuspended, HciDisconnected,
         SignalingReleased, vars
<1>3. prompt => Uncancelled' /\ LinkFollows' /\ LossFollows'
  BY NextUncancelled, NextLinkFollows, NextLossFollows DEF PInv
<1> QED
  BY <1>1, <1>2, <1>3 DEF PInv

\* check_disconnected() never misses a loss: while the main loop runs the link
\* is up or disconnect_occurred_ is set, whatever the handlers did between the
\* resets of connect_a2dp() and reconnect(), the waits and the loop, with
\* prompt and with unresponsive headsets.
THEOREM LossAlwaysNoticed == Spec => []LossNoticed
<1>1. Init => TypeOK /\ LInv
  BY InitAll DEF PInv
<1>2. TypeOK /\ LInv /\ [Next]_vars => TypeOK' /\ LInv'
  BY NextTypeOK, NextLInv
<1>3. LInv => LossNoticed
  BY DEF LInv, LossNoticed
<1> QED
  BY <1>1, <1>2, <1>3, PTL DEF Spec

\* The loop never tears down a connection that is up because of an event of
\* the previous one, if the headset is prompt.
THEOREM LossAlwaysReal == Spec => []LossIsReal
<1>1. Init => PInv
  BY InitAll
<1>2. PInv => LossIsReal
  BY DEF PInv, LossFollows, Released, LossIsReal
<1> QED
  BY <1>1, <1>2, NextPInv, PTL DEF Spec

\* A session whose waits are answered in time and that is stopped only while
\* its stream is up has let the headset go at its end, whether connect_a2dp(),
\* configure_codec(), start_stream() or reconnect() was refused or it was
\* stopped.
THEOREM LinkAlwaysReleased == Spec => []LinkReleased
<1>1. Init => PInv
  BY InitAll
<1>2. PInv => LinkReleased
  BY DEF PInv, LinkFollows, Released, LinkReleased
<1> QED
  BY <1>1, <1>2, NextPInv, PTL DEF Spec

===============================================================================
