-------------------------- MODULE A2dpServiceProofs --------------------------
(***************************************************************************)
(* Proofs about A2dpService for every number of sessions, of reconnect     *)
(* attempts and of exceptions and resets.  Only the theorem on what a      *)
(* session leaves behind depends on timing: that the encode thread ends    *)
(* within the worker's wait for it (~EncodeOverruns).                      *)
(***************************************************************************)
EXTENDS A2dpService, TLAPS

\* Threads that have left the session, or have not entered it.
Ended == {"none", "ending", "idling"}
\* stop_streaming() is under way.
Stopping == {"cancelling", "polling"}
Settled == {"Idle", "Error"}

\* Unless running_ was cleared under a session: it is set exactly while a
\* session is under way or about to begin; the next one begins only after the
\* old worker has left.
RInv ==
    /\ TypeOK
    /\ ~unguarded =>
         /\ worker \in Active => running
         /\ running => worker \in Active \/ ui = "joining"
         /\ ui = "joining" => running /\ worker \in Ended

\* transport_mutex_ is held through init() by whoever calls it, on a stack
\* that is down; everybody else who is past init() has seen it succeed.
TInv ==
    /\ mutex = "worker" <=> worker = "initing"
    /\ mutex = "scan" <=> scan = "initing"
    /\ worker = "initing" => btstack = "down"
    /\ scan = "initing" => btstack = "down"
    /\ scan # "none" => scanning
    /\ TransportAlive

\* The stages of the worker that have an encode thread (and its ring), that
\* capture, and that have muted the output.
Encoding == {"startCapture", "abandoning", "loop", "reconnecting", "cleanup",
             "draining"}
Capturing == {"loop", "reconnecting", "cleanup"}
Muting == Capturing \cup {"draining", "releasing"}

\* Short of a crash, what the pipeline holds follows from where the worker is.
PInv ==
    ~crashed =>
        /\ encode # "none" => ring /\ worker \in Encoding
        /\ ring \/ gEncoder => worker \in Encoding
        /\ gRunning => worker \in Capturing \cup {"startCapture"}
        /\ capturing => worker \in Capturing
        /\ muted => worker \in Muting

\* What may be shown when nothing is under way.
Quiet(shown) == shown \in Settled \/ threw

\* As long as no session and scan overlap: a scan runs beside no session; a
\* session ends with Error shown, or inside stop_streaming() or under the next
\* start_streaming(), which show a state of their own; what the scan thread
\* stores back was shown between sessions.
SInv ==
    /\ RInv
    /\ ~unguarded /\ running /\ stopReq => ui \in Stopping
    /\ scan # "none" => scanning
    /\ ~overlap =>
         /\ scan # "none" =>
               ~running /\ ui # "joining" /\ worker \in Ended /\ Quiet(state)
         /\ scan \in {"announcing", "reporting"} => Quiet(scanState)
         /\ ~unguarded /\ ~running /\ ui \notin Stopping => Quiet(state)
         /\ worker = "none" /\ ui \notin Stopping \cup {"joining"} => Quiet(state)
         /\ worker \in {"failed", "abandoning"} =>
               state \in Settled \/ ui = "joining"
         /\ worker \in {"cleanup", "draining", "releasing", "ending"} =>
               stopReq \/ Quiet(state) \/ ui = "joining"

\* Every step of every thread keeps the types.
LEMMA NextTypeOK ==
    ASSUME TypeOK, [Next]_vars
    PROVE  TypeOK'
<1> USE DEF uiVars, btVars, pipeVars, audioVars, scanVars, histVars, TypeOK, States,
           Active, OnTransport, ScanOnTransport
<1>1. ASSUME NEW m \in Modes, StartStreaming(m)
      PROVE  TypeOK'
  <2>1. /\ stopReq' \in BOOLEAN
        /\ running' \in BOOLEAN
        /\ overlap' \in BOOLEAN
    BY <1>1 DEF StartStreaming
  <2> QED
    BY <1>1, <2>1, ServiceAssumption DEF StartStreaming
<1>2. CASE WorkerAdvances
  BY <1>2, ServiceAssumption DEF WorkerAdvances, Following
<1>3. CASE WorkerFails
  BY <1>3, ServiceAssumption DEF WorkerFails, Following
<1>4. CASE WorkerFailed
  <2>1. running' \in BOOLEAN
    BY <1>4 DEF WorkerFailed
  <2> QED
    BY <1>4, <2>1, ServiceAssumption DEF WorkerFailed
<1>5. CASE WorkerLocks
  BY <1>5, ServiceAssumption DEF WorkerLocks
<1>6. CASE WorkerInits
  BY <1>6, ServiceAssumption DEF WorkerInits
<1>7. CASE WorkerConnects
  BY <1>7, ServiceAssumption DEF WorkerConnects
<1>8. CASE WorkerTurnsBack
  <2>1. running' \in BOOLEAN
    BY <1>8 DEF WorkerTurnsBack
  <2> QED
    BY <1>8, <2>1, ServiceAssumption DEF WorkerTurnsBack
<1>9. CASE WorkerConnected
  BY <1>9, ServiceAssumption DEF WorkerConnected
<1>10. CASE WorkerNegotiates
  BY <1>10, ServiceAssumption DEF WorkerNegotiates
<1>11. CASE WorkerOpensCapture
  BY <1>11, ServiceAssumption DEF WorkerOpensCapture, Following
<1>12. CASE WorkerSwitchesDefault
  BY <1>12, ServiceAssumption DEF WorkerSwitchesDefault, Following
<1>13. CASE WorkerStreams
  BY <1>13, ServiceAssumption DEF WorkerStreams
<1>14. CASE WorkerStartsEncode
  BY <1>14, ServiceAssumption DEF WorkerStartsEncode
<1>15. CASE WorkerLacksEncode
  <2>1. /\ gEncoder' \in BOOLEAN
        /\ gRunning' \in BOOLEAN
        /\ ring' \in BOOLEAN
    BY <1>15 DEF WorkerLacksEncode
  <2> QED
    BY <1>15, <2>1, ServiceAssumption DEF WorkerLacksEncode, RestoreDefault
<1>16. CASE WorkerStartsCapture
  BY <1>16, ServiceAssumption DEF WorkerStartsCapture
<1>17. CASE WorkerLacksCapture
  <2>1. gRunning' \in BOOLEAN
    BY <1>17 DEF WorkerLacksCapture
  <2> QED
    BY <1>17, <2>1, ServiceAssumption DEF WorkerLacksCapture
<1>18. CASE WorkerAbandons
  <2>1. /\ gEncoder' \in BOOLEAN
        /\ ring' \in BOOLEAN
    BY <1>18 DEF WorkerAbandons
  <2> QED
    BY <1>18, <2>1, ServiceAssumption DEF WorkerAbandons, RestoreDefault, EncodeWaitedFor
<1>19. CASE WorkerReconnects
  BY <1>19, ServiceAssumption DEF WorkerReconnects
<1>20. CASE WorkerRetries
  BY <1>20, ServiceAssumption DEF WorkerRetries
<1>21. CASE WorkerGivesUp
  BY <1>21, ServiceAssumption DEF WorkerGivesUp
<1>22. CASE WorkerSeesStop
  BY <1>22, ServiceAssumption DEF WorkerSeesStop
<1>23. CASE WorkerStopsCapture
  <2>1. /\ capturing' \in BOOLEAN
        /\ gRunning' \in BOOLEAN
    BY <1>23 DEF WorkerStopsCapture
  <2> QED
    BY <1>23, <2>1, ServiceAssumption DEF WorkerStopsCapture
<1>24. CASE WorkerDrains
  <2>1. /\ gEncoder' \in BOOLEAN
        /\ ring' \in BOOLEAN
    BY <1>24 DEF WorkerDrains
  <2> QED
    BY <1>24, <2>1, ServiceAssumption DEF WorkerDrains, EncodeWaitedFor
<1>25. CASE WorkerReleases
  <2>1. /\ muted' \in BOOLEAN
        /\ running' \in BOOLEAN
    BY <1>25 DEF WorkerReleases
  <2> QED
    BY <1>25, <2>1, ServiceAssumption DEF WorkerReleases, RestoreDefault
<1>26. CASE WorkerEnds
  BY <1>26, ServiceAssumption DEF WorkerEnds
<1>27. CASE WorkerIdles
  BY <1>27, ServiceAssumption DEF WorkerIdles
<1>28. CASE WorkerLosesLink
  <2>1. gEncoder' \in BOOLEAN
    BY <1>28 DEF WorkerLosesLink
  <2> QED
    BY <1>28, <2>1, ServiceAssumption DEF WorkerLosesLink
<1>29. CASE WorkerCrashes
  <2>1. /\ crashed' \in BOOLEAN
        /\ gRunning' \in BOOLEAN
        /\ gEncoder' \in BOOLEAN
        /\ running' \in BOOLEAN
        /\ unguarded' \in BOOLEAN
        /\ capturing' \in BOOLEAN
    BY <1>29 DEF WorkerCrashes
  <2> QED
    BY <1>29, <2>1, ServiceAssumption DEF WorkerCrashes, Fault, Unwound
<1>30. CASE EncodeYields
  BY <1>30, ServiceAssumption DEF EncodeYields
<1>31. CASE EncodeExits
  BY <1>31, ServiceAssumption DEF EncodeExits
<1>32. CASE EncodeUses
  BY <1>32, ServiceAssumption DEF EncodeUses
<1>33. CASE EncodeThrows
  <2>1. /\ crashed' \in BOOLEAN
        /\ gRunning' \in BOOLEAN
    BY <1>33 DEF EncodeThrows, Fault
  <2> QED
    BY <1>33, <2>1, ServiceAssumption DEF EncodeThrows, Fault
<1>34. CASE ScanLocks
  <2>1. scanning' \in BOOLEAN
    BY <1>34 DEF ScanLocks
  <2> QED
    BY <1>34, <2>1, ServiceAssumption DEF ScanLocks
<1>35. CASE ScanInits
  <2>1. scanning' \in BOOLEAN
    BY <1>35 DEF ScanInits
  <2> QED
    BY <1>35, <2>1, ServiceAssumption DEF ScanInits
<1>36. CASE ScanLoadsState
  BY <1>36, ServiceAssumption DEF ScanLoadsState
<1>37. CASE ScanStoresState
  BY <1>37, ServiceAssumption DEF ScanStoresState
<1>38. CASE ScanInquires
  BY <1>38, ServiceAssumption DEF ScanInquires
<1>39. CASE StartJoins
  BY <1>39, ServiceAssumption DEF StartJoins
<1>40. CASE StopCancels
  BY <1>40, ServiceAssumption DEF StopCancels
<1>41. CASE StopReturns
  <2>1. /\ running' \in BOOLEAN
        
    BY <1>41 DEF StopReturns
  <2> QED
    BY <1>41, <2>1, ServiceAssumption DEF StopReturns
<1>42. CASE StopStreaming
  <2>1. /\ stopReq' \in BOOLEAN
        /\ gRunning' \in BOOLEAN
    BY <1>42 DEF StopStreaming
  <2> QED
    BY <1>42, <2>1, ServiceAssumption DEF StopStreaming
<1>43. CASE StartScan
  BY <1>43, ServiceAssumption DEF StartScan
<1>44. CASE ResetBtstack
  BY <1>44, ServiceAssumption DEF ResetBtstack, Fault
<1>45. CASE UNCHANGED vars
  BY <1>45, ServiceAssumption DEF vars
<1>46. CASE LoopThrows
  <2>1. threw' \in BOOLEAN
    BY <1>46 DEF LoopThrows
  <2> QED
    BY <1>46, <2>1, ServiceAssumption DEF LoopThrows, Fault
<1>47. CASE ScanCrashes
  <2>1. scanning' \in BOOLEAN
    BY <1>47 DEF ScanCrashes
  <2> QED
    BY <1>47, <2>1, ServiceAssumption DEF ScanCrashes, Fault, Unwound
<1>48. CASE ResetShuts
  <2>1. pulled' \subseteq {"worker", "scan"}
    BY <1>48 DEF ResetShuts
  <2> QED
    BY <1>48, <2>1, ServiceAssumption DEF ResetShuts
<1>49. CASE ResetClears
  BY <1>49, ServiceAssumption DEF ResetClears
<1> QED
  BY <1>1, <1>2, <1>3, <1>4, <1>5, <1>6, <1>7, <1>8, <1>9, <1>10, <1>11,
     <1>12, <1>13, <1>14, <1>15, <1>16, <1>17, <1>18, <1>19, <1>20, <1>21,
     <1>22, <1>23, <1>24, <1>25, <1>26, <1>27, <1>28, <1>29, <1>30, <1>31,
     <1>32, <1>33, <1>34, <1>35, <1>36, <1>37, <1>38, <1>39, <1>40, <1>41,
     <1>42, <1>43, <1>44, <1>45, <1>46, <1>47, <1>48, <1>49 DEF Next, Ui, Worker, Setup, Pipeline,
     Cleanup, Encode, Scan

\* running_ is cleared by the worker that leaves, and by stop_streaming() only
\* when it finds it cleared.
LEMMA NextRInv ==
    ASSUME RInv, [Next]_vars
    PROVE  RInv'
<1> USE DEF uiVars, btVars, pipeVars, audioVars, scanVars, histVars, RInv, Active,
           OnTransport, Ended
<1>t. TypeOK'
  BY NextTypeOK
<1>1. ASSUME NEW m \in Modes, StartStreaming(m)
      PROVE  RInv'
  <2>1. /\ ui' = "joining" /\ running' /\ worker' = worker /\ ~running
        /\ unguarded' = (unguarded /\ worker \in Active)
    BY <1>1 DEF StartStreaming
  <2>2. ~unguarded' => worker \notin Active
    BY <2>1
  <2>3. worker \notin Active => worker \in Ended
    BY DEF TypeOK
  <2> QED
    BY <1>t, <2>1, <2>2, <2>3
<1>2. CASE WorkerAdvances
  BY <1>2, <1>t DEF WorkerAdvances, Following
<1>3. CASE WorkerFails
  BY <1>3, <1>t DEF WorkerFails, Following
<1>4. CASE WorkerFailed
  BY <1>4, <1>t DEF WorkerFailed
<1>5. CASE WorkerLocks
  BY <1>5, <1>t DEF WorkerLocks
<1>6. CASE WorkerInits
  BY <1>6, <1>t DEF WorkerInits
<1>7. CASE WorkerConnects
  BY <1>7, <1>t DEF WorkerConnects
<1>8. CASE WorkerTurnsBack
  BY <1>8, <1>t DEF WorkerTurnsBack
<1>9. CASE WorkerConnected
  BY <1>9, <1>t DEF WorkerConnected
<1>10. CASE WorkerNegotiates
  BY <1>10, <1>t DEF WorkerNegotiates
<1>11. CASE WorkerOpensCapture
  BY <1>11, <1>t DEF WorkerOpensCapture, Following
<1>12. CASE WorkerSwitchesDefault
  BY <1>12, <1>t DEF WorkerSwitchesDefault, Following
<1>13. CASE WorkerStreams
  BY <1>13, <1>t DEF WorkerStreams
<1>14. CASE WorkerStartsEncode
  BY <1>14, <1>t DEF WorkerStartsEncode
<1>15. CASE WorkerLacksEncode
  BY <1>15, <1>t DEF WorkerLacksEncode, RestoreDefault
<1>16. CASE WorkerStartsCapture
  BY <1>16, <1>t DEF WorkerStartsCapture
<1>17. CASE WorkerLacksCapture
  BY <1>17, <1>t DEF WorkerLacksCapture
<1>18. CASE WorkerAbandons
  BY <1>18, <1>t DEF WorkerAbandons, RestoreDefault, EncodeWaitedFor
<1>19. CASE WorkerReconnects
  BY <1>19, <1>t DEF WorkerReconnects
<1>20. CASE WorkerRetries
  BY <1>20, <1>t DEF WorkerRetries
<1>21. CASE WorkerGivesUp
  BY <1>21, <1>t DEF WorkerGivesUp
<1>22. CASE WorkerSeesStop
  BY <1>22, <1>t DEF WorkerSeesStop
<1>23. CASE WorkerStopsCapture
  BY <1>23, <1>t DEF WorkerStopsCapture
<1>24. CASE WorkerDrains
  BY <1>24, <1>t DEF WorkerDrains, EncodeWaitedFor
<1>25. CASE WorkerReleases
  BY <1>25, <1>t DEF WorkerReleases, RestoreDefault
<1>26. CASE WorkerEnds
  BY <1>26, <1>t DEF WorkerEnds
<1>27. CASE WorkerIdles
  BY <1>27, <1>t DEF WorkerIdles
<1>28. CASE WorkerLosesLink
  BY <1>28, <1>t DEF WorkerLosesLink
<1>29. CASE WorkerCrashes
  BY <1>29, <1>t DEF WorkerCrashes, Fault, Unwound
<1>30. CASE EncodeYields
  BY <1>30, <1>t DEF EncodeYields
<1>31. CASE EncodeExits
  BY <1>31, <1>t DEF EncodeExits
<1>32. CASE EncodeUses
  BY <1>32, <1>t DEF EncodeUses
<1>33. CASE EncodeThrows
  BY <1>33, <1>t DEF EncodeThrows, Fault
<1>34. CASE ScanLocks
  BY <1>34, <1>t DEF ScanLocks
<1>35. CASE ScanInits
  BY <1>35, <1>t DEF ScanInits
<1>36. CASE ScanLoadsState
  BY <1>36, <1>t DEF ScanLoadsState
<1>37. CASE ScanStoresState
  BY <1>37, <1>t DEF ScanStoresState
<1>38. CASE ScanInquires
  BY <1>38, <1>t DEF ScanInquires
<1>39. CASE StartJoins
  BY <1>39, <1>t DEF StartJoins
<1>40. CASE StopCancels
  BY <1>40, <1>t DEF StopCancels
<1>41. CASE StopReturns
  BY <1>41, <1>t DEF StopReturns
<1>42. CASE StopStreaming
  BY <1>42, <1>t DEF StopStreaming
<1>43. CASE StartScan
  BY <1>43, <1>t DEF StartScan
<1>44. CASE ResetBtstack
  BY <1>44, <1>t DEF ResetBtstack, Fault
<1>45. CASE UNCHANGED vars
  BY <1>45, <1>t DEF vars
<1>46. CASE LoopThrows
  BY <1>46, <1>t DEF LoopThrows, Fault
<1>47. CASE ScanCrashes
  BY <1>47, <1>t DEF ScanCrashes, Fault, Unwound
<1>48. CASE ResetShuts
  BY <1>48, <1>t DEF ResetShuts
<1>49. CASE ResetClears
  BY <1>49, <1>t DEF ResetClears
<1> QED
  BY <1>1, <1>2, <1>3, <1>4, <1>5, <1>6, <1>7, <1>8, <1>9, <1>10, <1>11,
     <1>12, <1>13, <1>14, <1>15, <1>16, <1>17, <1>18, <1>19, <1>20, <1>21,
     <1>22, <1>23, <1>24, <1>25, <1>26, <1>27, <1>28, <1>29, <1>30, <1>31,
     <1>32, <1>33, <1>34, <1>35, <1>36, <1>37, <1>38, <1>39, <1>40, <1>41,
     <1>42, <1>43, <1>44, <1>45, <1>46, <1>47, <1>48, <1>49 DEF Next, Ui, Worker, Setup, Pipeline,
     Cleanup, Encode, Scan

\* Nobody shuts the transport down under a thread that uses it.
LEMMA NextTInv ==
    ASSUME TypeOK, TInv, [Next]_vars
    PROVE  TInv'
<1> USE DEF uiVars, btVars, pipeVars, audioVars, scanVars, histVars, TInv, TransportAlive,
           OnTransport, ScanOnTransport
<1>1. ASSUME NEW m \in Modes, StartStreaming(m)
      PROVE  TInv'
  BY <1>1 DEF StartStreaming
<1>2. CASE WorkerAdvances
  BY <1>2 DEF WorkerAdvances, Following
<1>3. CASE WorkerFails
  BY <1>3 DEF WorkerFails, Following
<1>4. CASE WorkerFailed
  BY <1>4 DEF WorkerFailed
<1>5. CASE WorkerLocks
  BY <1>5 DEF WorkerLocks
<1>6. CASE WorkerInits
  BY <1>6 DEF WorkerInits
<1>7. CASE WorkerConnects
  BY <1>7 DEF WorkerConnects
<1>8. CASE WorkerTurnsBack
  BY <1>8 DEF WorkerTurnsBack
<1>9. CASE WorkerConnected
  BY <1>9 DEF WorkerConnected
<1>10. CASE WorkerNegotiates
  BY <1>10 DEF WorkerNegotiates
<1>11. CASE WorkerOpensCapture
  BY <1>11 DEF WorkerOpensCapture, Following
<1>12. CASE WorkerSwitchesDefault
  BY <1>12 DEF WorkerSwitchesDefault, Following
<1>13. CASE WorkerStreams
  BY <1>13 DEF WorkerStreams
<1>14. CASE WorkerStartsEncode
  BY <1>14 DEF WorkerStartsEncode
<1>15. CASE WorkerLacksEncode
  BY <1>15 DEF WorkerLacksEncode, RestoreDefault
<1>16. CASE WorkerStartsCapture
  BY <1>16 DEF WorkerStartsCapture
<1>17. CASE WorkerLacksCapture
  BY <1>17 DEF WorkerLacksCapture
<1>18. CASE WorkerAbandons
  BY <1>18 DEF WorkerAbandons, RestoreDefault, EncodeWaitedFor
<1>19. CASE WorkerReconnects
  BY <1>19 DEF WorkerReconnects
<1>20. CASE WorkerRetries
  BY <1>20 DEF WorkerRetries
<1>21. CASE WorkerGivesUp
  BY <1>21 DEF WorkerGivesUp
<1>22. CASE WorkerSeesStop
  BY <1>22 DEF WorkerSeesStop
<1>23. CASE WorkerStopsCapture
  BY <1>23 DEF WorkerStopsCapture
<1>24. CASE WorkerDrains
  BY <1>24 DEF WorkerDrains, EncodeWaitedFor
<1>25. CASE WorkerReleases
  BY <1>25 DEF WorkerReleases, RestoreDefault
<1>26. CASE WorkerEnds
  BY <1>26 DEF WorkerEnds
<1>27. CASE WorkerIdles
  BY <1>27 DEF WorkerIdles
<1>28. CASE WorkerLosesLink
  BY <1>28 DEF WorkerLosesLink
<1>29. CASE WorkerCrashes
  BY <1>29 DEF WorkerCrashes, Fault, Unwound
<1>30. CASE EncodeYields
  BY <1>30 DEF EncodeYields
<1>31. CASE EncodeExits
  BY <1>31 DEF EncodeExits
<1>32. CASE EncodeUses
  BY <1>32 DEF EncodeUses
<1>33. CASE EncodeThrows
  BY <1>33 DEF EncodeThrows, Fault
<1>34. CASE ScanLocks
  BY <1>34 DEF ScanLocks
<1>35. CASE ScanInits
  BY <1>35 DEF ScanInits
<1>36. CASE ScanLoadsState
  BY <1>36 DEF ScanLoadsState
<1>37. CASE ScanStoresState
  BY <1>37 DEF ScanStoresState
<1>38. CASE ScanInquires
  BY <1>38 DEF ScanInquires
<1>39. CASE StartJoins
  BY <1>39 DEF StartJoins
<1>40. CASE StopCancels
  BY <1>40 DEF StopCancels
<1>41. CASE StopReturns
  BY <1>41 DEF StopReturns
<1>42. CASE StopStreaming
  BY <1>42 DEF StopStreaming
<1>43. CASE StartScan
  BY <1>43 DEF StartScan
<1>44. CASE ResetBtstack
  BY <1>44 DEF ResetBtstack, Fault
<1>45. CASE UNCHANGED vars
  BY <1>45 DEF vars
<1>46. CASE LoopThrows
  BY <1>46 DEF LoopThrows, Fault
<1>47. CASE ScanCrashes
  BY <1>47 DEF ScanCrashes, Fault, Unwound
<1>48. CASE ResetShuts
  BY <1>48 DEF ResetShuts
<1>49. CASE ResetClears
  BY <1>49 DEF ResetClears
<1> QED
  BY <1>1, <1>2, <1>3, <1>4, <1>5, <1>6, <1>7, <1>8, <1>9, <1>10, <1>11,
     <1>12, <1>13, <1>14, <1>15, <1>16, <1>17, <1>18, <1>19, <1>20, <1>21,
     <1>22, <1>23, <1>24, <1>25, <1>26, <1>27, <1>28, <1>29, <1>30, <1>31,
     <1>32, <1>33, <1>34, <1>35, <1>36, <1>37, <1>38, <1>39, <1>40, <1>41,
     <1>42, <1>43, <1>44, <1>45, <1>46, <1>47, <1>48, <1>49 DEF Next, Ui, Worker, Setup, Pipeline,
     Cleanup, Encode, Scan

\* The worker takes the pipeline down in the order in which it is used.
LEMMA NextPInv ==
    ASSUME ~EncodeOverruns, TypeOK, PInv, [Next]_vars
    PROVE  PInv'
<1> USE DEF uiVars, btVars, pipeVars, audioVars, scanVars, histVars, PInv, Encoding,
           Capturing, Muting, OnTransport
<1>1. ASSUME NEW m \in Modes, StartStreaming(m)
      PROVE  PInv'
  BY <1>1 DEF StartStreaming
<1>2. CASE WorkerAdvances
  BY <1>2 DEF WorkerAdvances, Following
<1>3. CASE WorkerFails
  BY <1>3 DEF WorkerFails, Following
<1>4. CASE WorkerFailed
  BY <1>4 DEF WorkerFailed
<1>5. CASE WorkerLocks
  BY <1>5 DEF WorkerLocks
<1>6. CASE WorkerInits
  BY <1>6 DEF WorkerInits
<1>7. CASE WorkerConnects
  BY <1>7 DEF WorkerConnects
<1>8. CASE WorkerTurnsBack
  BY <1>8 DEF WorkerTurnsBack
<1>9. CASE WorkerConnected
  BY <1>9 DEF WorkerConnected
<1>10. CASE WorkerNegotiates
  BY <1>10 DEF WorkerNegotiates
<1>11. CASE WorkerOpensCapture
  BY <1>11 DEF WorkerOpensCapture, Following
<1>12. CASE WorkerSwitchesDefault
  BY <1>12 DEF WorkerSwitchesDefault, Following
<1>13. CASE WorkerStreams
  BY <1>13 DEF WorkerStreams
<1>14. CASE WorkerStartsEncode
  BY <1>14 DEF WorkerStartsEncode
<1>15. CASE WorkerLacksEncode
  BY <1>15 DEF WorkerLacksEncode, RestoreDefault
<1>16. CASE WorkerStartsCapture
  BY <1>16 DEF WorkerStartsCapture
<1>17. CASE WorkerLacksCapture
  BY <1>17 DEF WorkerLacksCapture
<1>18. CASE WorkerAbandons
  BY <1>18 DEF WorkerAbandons, RestoreDefault, EncodeWaitedFor
<1>19. CASE WorkerReconnects
  BY <1>19 DEF WorkerReconnects
<1>20. CASE WorkerRetries
  BY <1>20 DEF WorkerRetries
<1>21. CASE WorkerGivesUp
  BY <1>21 DEF WorkerGivesUp
<1>22. CASE WorkerSeesStop
  BY <1>22 DEF WorkerSeesStop
<1>23. CASE WorkerStopsCapture
  BY <1>23 DEF WorkerStopsCapture
<1>24. CASE WorkerDrains
  BY <1>24 DEF WorkerDrains, EncodeWaitedFor
<1>25. CASE WorkerReleases
  BY <1>25 DEF WorkerReleases, RestoreDefault
<1>26. CASE WorkerEnds
  BY <1>26 DEF WorkerEnds
<1>27. CASE WorkerIdles
  BY <1>27 DEF WorkerIdles
<1>28. CASE WorkerLosesLink
  BY <1>28 DEF WorkerLosesLink
<1>29. CASE WorkerCrashes
  BY <1>29 DEF WorkerCrashes, Fault, Unwound
<1>30. CASE EncodeYields
  BY <1>30 DEF EncodeYields
<1>31. CASE EncodeExits
  BY <1>31 DEF EncodeExits
<1>32. CASE EncodeUses
  BY <1>32 DEF EncodeUses
<1>33. CASE EncodeThrows
  BY <1>33 DEF EncodeThrows, Fault
<1>34. CASE ScanLocks
  BY <1>34 DEF ScanLocks
<1>35. CASE ScanInits
  BY <1>35 DEF ScanInits
<1>36. CASE ScanLoadsState
  BY <1>36 DEF ScanLoadsState
<1>37. CASE ScanStoresState
  BY <1>37 DEF ScanStoresState
<1>38. CASE ScanInquires
  BY <1>38 DEF ScanInquires
<1>39. CASE StartJoins
  BY <1>39 DEF StartJoins
<1>40. CASE StopCancels
  BY <1>40 DEF StopCancels
<1>41. CASE StopReturns
  BY <1>41 DEF StopReturns
<1>42. CASE StopStreaming
  BY <1>42 DEF StopStreaming
<1>43. CASE StartScan
  BY <1>43 DEF StartScan
<1>44. CASE ResetBtstack
  BY <1>44 DEF ResetBtstack, Fault
<1>45. CASE UNCHANGED vars
  BY <1>45 DEF vars
<1>46. CASE LoopThrows
  BY <1>46 DEF LoopThrows, Fault
<1>47. CASE ScanCrashes
  BY <1>47 DEF ScanCrashes, Fault, Unwound
<1>48. CASE ResetShuts
  BY <1>48 DEF ResetShuts
<1>49. CASE ResetClears
  BY <1>49 DEF ResetClears
<1> QED
  BY <1>1, <1>2, <1>3, <1>4, <1>5, <1>6, <1>7, <1>8, <1>9, <1>10, <1>11,
     <1>12, <1>13, <1>14, <1>15, <1>16, <1>17, <1>18, <1>19, <1>20, <1>21,
     <1>22, <1>23, <1>24, <1>25, <1>26, <1>27, <1>28, <1>29, <1>30, <1>31,
     <1>32, <1>33, <1>34, <1>35, <1>36, <1>37, <1>38, <1>39, <1>40, <1>41,
     <1>42, <1>43, <1>44, <1>45, <1>46, <1>47, <1>48, <1>49 DEF Next, Ui, Worker, Setup, Pipeline,
     Cleanup, Encode, Scan

\* Every notification leaves the shown state consistent with the session.
LEMMA NextSInv ==
    ASSUME SInv, [Next]_vars
    PROVE  SInv'
<1> USE DEF uiVars, btVars, pipeVars, audioVars, scanVars, histVars, SInv
<1>r. RInv /\ RInv'
  BY NextRInv
<1> USE DEF RInv, Active, OnTransport, Ended, Stopping, Settled, Quiet
<1>1. ASSUME NEW m \in Modes, StartStreaming(m)
      PROVE  SInv'
  BY <1>1, <1>r DEF StartStreaming
<1>2. CASE WorkerAdvances
  BY <1>2, <1>r DEF WorkerAdvances, Following
<1>3. CASE WorkerFails
  BY <1>3, <1>r DEF WorkerFails, Following
<1>4. CASE WorkerFailed
  BY <1>4, <1>r DEF WorkerFailed
<1>5. CASE WorkerLocks
  BY <1>5, <1>r DEF WorkerLocks
<1>6. CASE WorkerInits
  BY <1>6, <1>r DEF WorkerInits
<1>7. CASE WorkerConnects
  BY <1>7, <1>r DEF WorkerConnects
<1>8. CASE WorkerTurnsBack
  BY <1>8, <1>r DEF WorkerTurnsBack
<1>9. CASE WorkerConnected
  BY <1>9, <1>r DEF WorkerConnected
<1>10. CASE WorkerNegotiates
  BY <1>10, <1>r DEF WorkerNegotiates
<1>11. CASE WorkerOpensCapture
  BY <1>11, <1>r DEF WorkerOpensCapture, Following
<1>12. CASE WorkerSwitchesDefault
  BY <1>12, <1>r DEF WorkerSwitchesDefault, Following
<1>13. CASE WorkerStreams
  BY <1>13, <1>r DEF WorkerStreams
<1>14. CASE WorkerStartsEncode
  BY <1>14, <1>r DEF WorkerStartsEncode
<1>15. CASE WorkerLacksEncode
  BY <1>15, <1>r DEF WorkerLacksEncode, RestoreDefault
<1>16. CASE WorkerStartsCapture
  BY <1>16, <1>r DEF WorkerStartsCapture
<1>17. CASE WorkerLacksCapture
  BY <1>17, <1>r DEF WorkerLacksCapture
<1>18. CASE WorkerAbandons
  BY <1>18, <1>r DEF WorkerAbandons, RestoreDefault, EncodeWaitedFor
<1>19. CASE WorkerReconnects
  BY <1>19, <1>r DEF WorkerReconnects
<1>20. CASE WorkerRetries
  BY <1>20, <1>r DEF WorkerRetries
<1>21. CASE WorkerGivesUp
  BY <1>21, <1>r DEF WorkerGivesUp
<1>22. CASE WorkerSeesStop
  BY <1>22, <1>r DEF WorkerSeesStop
<1>23. CASE WorkerStopsCapture
  BY <1>23, <1>r DEF WorkerStopsCapture
<1>24. CASE WorkerDrains
  BY <1>24, <1>r DEF WorkerDrains, EncodeWaitedFor
<1>25. CASE WorkerReleases
  BY <1>25, <1>r DEF WorkerReleases, RestoreDefault
<1>26. CASE WorkerEnds
  BY <1>26, <1>r DEF WorkerEnds
<1>27. CASE WorkerIdles
  BY <1>27, <1>r DEF WorkerIdles
<1>28. CASE WorkerLosesLink
  BY <1>28, <1>r DEF WorkerLosesLink
<1>29. CASE WorkerCrashes
  BY <1>29, <1>r DEF WorkerCrashes, Fault, Unwound
<1>30. CASE EncodeYields
  BY <1>30, <1>r DEF EncodeYields
<1>31. CASE EncodeExits
  BY <1>31, <1>r DEF EncodeExits
<1>32. CASE EncodeUses
  BY <1>32, <1>r DEF EncodeUses
<1>33. CASE EncodeThrows
  BY <1>33, <1>r DEF EncodeThrows, Fault
<1>34. CASE ScanLocks
  BY <1>34, <1>r DEF ScanLocks
<1>35. CASE ScanInits
  BY <1>35, <1>r DEF ScanInits
<1>36. CASE ScanLoadsState
  BY <1>36, <1>r DEF ScanLoadsState
<1>37. CASE ScanStoresState
  BY <1>37, <1>r DEF ScanStoresState
<1>38. CASE ScanInquires
  BY <1>38, <1>r DEF ScanInquires
<1>39. CASE StartJoins
  BY <1>39, <1>r DEF StartJoins
<1>40. CASE StopCancels
  BY <1>40, <1>r DEF StopCancels
<1>41. CASE StopReturns
  BY <1>41, <1>r DEF StopReturns
<1>42. CASE StopStreaming
  BY <1>42, <1>r DEF StopStreaming
<1>43. CASE StartScan
  <2>1. /\ ui = "idle" /\ ~running /\ UNCHANGED <<uiVars, running, worker, state>>
        /\ scan' = "locking" /\ scanning' /\ UNCHANGED <<unguarded, threw>>
        /\ overlap' = (overlap \/ (unguarded /\ worker # "none"))
    BY <1>43 DEF StartScan
  <2>2. ~unguarded => worker \in Ended
    BY <2>1 DEF TypeOK
  <2> QED
    BY <1>r, <2>1, <2>2
<1>44. CASE ResetBtstack
  BY <1>44, <1>r DEF ResetBtstack, Fault
<1>45. CASE UNCHANGED vars
  BY <1>45, <1>r DEF vars
<1>46. CASE LoopThrows
  BY <1>46, <1>r DEF LoopThrows, Fault
<1>47. CASE ScanCrashes
  BY <1>47, <1>r DEF ScanCrashes, Fault, Unwound
<1>48. CASE ResetShuts
  BY <1>48, <1>r DEF ResetShuts
<1>49. CASE ResetClears
  BY <1>49, <1>r DEF ResetClears
<1> QED
  BY <1>1, <1>2, <1>3, <1>4, <1>5, <1>6, <1>7, <1>8, <1>9, <1>10, <1>11,
     <1>12, <1>13, <1>14, <1>15, <1>16, <1>17, <1>18, <1>19, <1>20, <1>21,
     <1>22, <1>23, <1>24, <1>25, <1>26, <1>27, <1>28, <1>29, <1>30, <1>31,
     <1>32, <1>33, <1>34, <1>35, <1>36, <1>37, <1>38, <1>39, <1>40, <1>41,
     <1>42, <1>43, <1>44, <1>45, <1>46, <1>47, <1>48, <1>49 DEF Next, Ui, Worker, Setup, Pipeline,
     Cleanup, Encode, Scan

-----------------------------------------------------------------------------

\* Nothing runs, nothing is held and nothing is shown when the program starts.
LEMMA InitAll == Init => SInv /\ TInv /\ PInv
<1> SUFFICES ASSUME Init PROVE SInv /\ TInv /\ PInv
  OBVIOUS
<1>1. TypeOK
  <2>1. 0 \in 0 .. MaxStarts /\ 0 \in 0 .. MaxAttempts /\ 0 \in 0 .. MaxFaults
    BY ServiceAssumption
  <2>2. /\ running \in BOOLEAN /\ stopReq \in BOOLEAN /\ gRunning \in BOOLEAN
        /\ gEncoder \in BOOLEAN /\ ring \in BOOLEAN /\ capturing \in BOOLEAN
        /\ muted \in BOOLEAN /\ scanning \in BOOLEAN
        /\ overlap \in BOOLEAN /\ unguarded \in BOOLEAN
        /\ threw \in BOOLEAN /\ crashed \in BOOLEAN
    BY DEF Init
  <2> QED
    BY <2>1, <2>2 DEF Init, TypeOK, States
<1>2. RInv
  BY <1>1 DEF Init, RInv, Active, OnTransport
<1> QED
  BY <1>2 DEF Init, SInv, TInv, PInv, TransportAlive, OnTransport,
              ScanOnTransport, Settled, Quiet, Ended, Stopping

\* All fields of the service, of the worker and of its threads stay within
\* their types, whatever the timing.
LEMMA ServiceTypeCorrect == Spec => []TypeOK
<1>1. Init => TypeOK
  BY InitAll DEF SInv, RInv
<1>2. TypeOK /\ [Next]_vars => TypeOK'
  BY NextTypeOK
<1> QED
  BY <1>1, <1>2, PTL DEF Spec

\* running_ is set throughout every session, for any number of sessions, so
\* that start_streaming() and start_scan() never admit a second session or a
\* scan beside one; only a stop that gave up polling, or a crash of the old
\* worker under the next start, clears it under a session, and the next start
\* that finds no session puts that right.
THEOREM ServiceRunningTruthful == Spec => []RunningTruthful
<1>1. Init => RInv
  BY InitAll DEF SInv
<1>2. RInv /\ [Next]_vars => RInv'
  BY NextRInv
<1>3. RInv => RunningTruthful
  BY DEF RInv, RunningTruthful
<1> QED
  BY <1>1, <1>2, <1>3, PTL DEF Spec

\* With reset_btstack() called at any time and either thread crashing in
\* init(), a thread that is past ensure_btstack_init() has a transport that is
\* up, unless a reset came after it got there.
THEOREM ServiceTransportAlive == Spec => []TransportAlive
<1>1. Init => TInv
  BY InitAll
<1>2. TypeOK /\ TInv /\ [Next]_vars => TInv'
  BY NextTInv
<1>3. TInv => TransportAlive
  BY DEF TInv
<1> QED
  BY <1>1, <1>2, <1>3, ServiceTypeCorrect, PTL DEF Spec

\* When the encode thread ends within the wait for it, every session, ended by
\* the user, by an error on any step, by a lost link or by an exception in the
\* main loop, leaves no capture, no encode thread, no ring and no muted output
\* behind.
THEOREM ServiceCleanExit ==
    ASSUME ~EncodeOverruns
    PROVE  Spec => []CleanExit
<1>1. Init => PInv
  BY InitAll
<1>2. TypeOK /\ PInv /\ [Next]_vars => PInv'
  BY NextPInv
<1>3. TypeOK /\ PInv => CleanExit
  BY DEF TypeOK, PInv, CleanExit, Encoding, Capturing, Muting
<1> QED
  BY <1>1, <1>2, <1>3, ServiceTypeCorrect, PTL DEF Spec

\* In whatever order the three threads' notifications were applied, also after
\* stops that gave up or were taken back, the state left on display after
\* everything has ended is Idle or Error, unless a session and a scan ran side
\* by side or an exception in the main loop has not been followed by a stop.
THEOREM ServiceStateSettles == Spec => []StateSettles
<1>1. Init => SInv
  BY InitAll
<1>2. SInv /\ [Next]_vars => SInv'
  BY NextSInv
<1>3. SInv => StateSettles
  BY DEF SInv, StateSettles, Stopping, Settled, Quiet
<1> QED
  BY <1>1, <1>2, <1>3, PTL DEF Spec

==============================================================================
