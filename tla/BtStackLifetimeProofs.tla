------------------------ MODULE BtStackLifetimeProofs ------------------------
(***************************************************************************)
(* Proofs about BtStackLifetime for every set of headsets, provided that   *)
(* the run loop is never slower than its callers wait: one BTstack at a    *)
(* time, and a scan that reports what answered its own inquiry.            *)
(***************************************************************************)
EXTENDS BtStackLifetime, Integers, SequenceTheorems, TLAPS

\* Who holds the mutex, and what the singleton, the run loop and the results
\* of the start are then.
LInv ==
    /\ mutex = "scan" <=> scan = "polling"
    /\ down # "none" => mutex # "free"
    /\ scan \in Scanning /\ ~pulled => mutex = "free" /\ ready
    /\ ready => transport
    /\ ~ready /\ mutex = "free" => ~instance
    /\ ~transport => ~instance
    /\ ~instance => loop \in {"none", "exited"}
    /\ instance /\ down # "join" => running
    /\ down = "return" => ~instance
    /\ scan = "polling" /\ down = "none" => instance
    /\ ready /\ down = "none" => instance /\ initResult
    /\ instance /\ down = "none" =>
          /\ ~exitAsked
          /\ initResult => hciReady /\ loop = "running" /\ hci = "working"

\* The caller of a request is where it posted it.
Awaited(r) ==
    \/ r = "inquire" /\ scan = "starting"
    \/ r = "stop" /\ scan = "stopping"
    \/ r = "powerOff" /\ down = "powering"

\* Every request on the run loop is there once, was not executed before, and
\* its caller waits for it.
QInv ==
    loop = "running" =>
        \A i \in DOMAIN queue :
           /\ Awaited(queue[i]) /\ queue[i] \notin done
           /\ \A j \in DOMAIN queue : queue[i] = queue[j] => i = j

\* No scan on this transport was cut short, and the one that runs has not
\* lost it.
Whole == ~cut /\ ~pulled

\* Outside the wait for an inquiry none is under way and none has ended
\* unnoticed; a stop is only asked for by a scan that is cut short.
Quiet ==
    /\ loop # "running" => handler = {}
    /\ scan = "stopping" => cut
    /\ Whole /\ scan \notin {"starting", "waiting"} =>
          /\ loop \in {"setup", "running"} => ~inquiryEvent
          /\ loop = "running" => inquiry = "none" /\ handler = {}

\* An inquiry from its request to its end.
Inquiring ==
    Whole /\ scan \in {"starting", "waiting"} =>
        /\ found \cup handler = answered
        /\ inquiry = "none" => handler = {}
        /\ inquiry # "none" => inquiryActive /\ ~inquiryEvent
        /\ scan = "starting" /\ inquiry # "none" =>
              "inquire" \in done /\ "refused" \notin done
        /\ scan = "starting" /\ "inquire" \notin done =>
              inquiryActive /\ "refused" \notin done
        /\ scan = "starting" /\ ("inquire" \notin done \/ "refused" \in done) =>
              ~inquiryEvent

\* As long as no scan on this transport was cut short, a scan is told of its
\* own inquiry only.
HInv ==
    /\ Quiet
    /\ Inquiring
    /\ Whole /\ scan = "collect" => found = answered

\* The flags, and the rest of the type invariant.
Flags ==
    /\ transport \in BOOLEAN
    /\ ready \in BOOLEAN
    /\ initFailed \in BOOLEAN
    /\ instance \in BOOLEAN
    /\ running \in BOOLEAN
    /\ hciReady \in BOOLEAN
    /\ initResult \in BOOLEAN
    /\ initEvent \in BOOLEAN
    /\ cancelEvent \in BOOLEAN
    /\ inquiryEvent \in BOOLEAN
    /\ inquiryActive \in BOOLEAN
    /\ exitAsked \in BOOLEAN
    /\ adapter \in BOOLEAN
    /\ session \in BOOLEAN
    /\ cut \in BOOLEAN
    /\ late \in BOOLEAN
    /\ clearing \in BOOLEAN
    /\ pulled \in BOOLEAN

Places ==
    /\ mutex \in {"free", "scan", "ui"}
    /\ found \subseteq Headsets /\ handler \subseteq Headsets
    /\ answered \subseteq Headsets
    /\ loop \in {"none", "setup", "running", "exited"}
    /\ done \subseteq Requests \cup {"refused"}
    /\ hci \in {"off", "starting", "working", "halting"}
    /\ inquiry \in {"none", "running", "stopping"}
    /\ scan \in {"none", "init", "polling", "start", "starting", "waiting",
                 "stopping", "collect"}
    /\ down \in {"none", "begin", "powering", "offWait", "exit", "join",
                 "return"}

-----------------------------------------------------------------------------

\* A request is queued at the end.
LEMMA Posted ==
    ASSUME queue \in Seq(Requests), NEW r \in Requests, Post(r)
    PROVE  /\ queue' \in Seq(Requests)
           /\ \A i \in DOMAIN queue' :
                 \/ i \in DOMAIN queue /\ queue'[i] = queue[i]
                 \/ i = Len(queue) + 1 /\ queue'[i] = r
<1>1. /\ queue' = Append(queue, r) /\ Len(queue) \in Nat
      /\ DOMAIN queue = 1 .. Len(queue)
  BY DEF Post
<1>2. /\ queue' \in Seq(Requests) /\ Len(queue') = Len(queue) + 1
      /\ \A i \in 1 .. Len(queue) : queue'[i] = queue[i]
      /\ queue'[Len(queue) + 1] = r
  BY <1>1, AppendProperties
<1>3. DOMAIN queue' = 1 .. Len(queue) + 1
  BY <1>2
<1> QED
  BY <1>1, <1>2, <1>3

\* A request that is executed leaves at the front.
LEMMA Taken ==
    ASSUME queue \in Seq(Requests), queue # <<>>
    PROVE  /\ Tail(queue) \in Seq(Requests)
           /\ 1 \in DOMAIN queue /\ Head(queue) = queue[1]
           /\ Head(queue) \in Requests
           /\ \A i \in DOMAIN Tail(queue) :
                 /\ i + 1 \in DOMAIN queue /\ i + 1 # 1 /\ i \in Nat
                 /\ Tail(queue)[i] = queue[i + 1]
<1>1. /\ Head(queue) \in Requests /\ Tail(queue) \in Seq(Requests)
      /\ Len(Tail(queue)) = Len(queue) - 1
      /\ \A i \in 1 .. Len(Tail(queue)) : Tail(queue)[i] = queue[i + 1]
  BY HeadTailProperties
<1>2. Len(queue) \in Nat \ {0} /\ DOMAIN queue = 1 .. Len(queue)
  BY EmptySeq
<1>3. DOMAIN Tail(queue) = 1 .. Len(queue) - 1
  BY <1>1
<1>4. Head(queue) = queue[1]
  OBVIOUS
<1> QED
  BY <1>1, <1>2, <1>3, <1>4

\* Every step keeps the flags.
LEMMA NextFlags ==
    ASSUME Flags, [Next]_vars
    PROVE  Flags'
<1> USE DEF serviceVars, flagVars, eventVars, listVars, loopVars, worldVars,
           callerVars, userVars, historyVars
<1>1. CASE InitDecided
  BY <1>1 DEF InitDecided, Flags
<1>2. CASE InitLaunches
  BY <1>2 DEF InitLaunches, Flags
<1>3. CASE InitLacksThread
  <2>1. /\ transport' \in BOOLEAN
        /\ initFailed' \in BOOLEAN
        /\ running' \in BOOLEAN
        /\ hciReady' \in BOOLEAN
        /\ initResult' \in BOOLEAN
    BY <1>3 DEF InitLacksThread, Flags
  <2>2. UNCHANGED <<ready, instance, initEvent, cancelEvent, inquiryEvent,
          inquiryActive, exitAsked, adapter, session, cut, late, clearing,
          pulled>>
    BY <1>3 DEF InitLacksThread
  <2> QED
    BY <2>1, <2>2 DEF Flags
<1>4. CASE InitSucceeds
  <2>1. ready' \in BOOLEAN
    BY <1>4 DEF InitSucceeds, Flags
  <2>2. UNCHANGED <<transport, initFailed, instance, running, hciReady,
          initResult, initEvent, cancelEvent, inquiryEvent, inquiryActive,
          exitAsked, adapter, session, cut, late, clearing, pulled>>
    BY <1>4 DEF InitSucceeds
  <2> QED
    BY <2>1, <2>2 DEF Flags
<1>5. CASE InitTimesOut
  <2>1. late' \in BOOLEAN
    BY <1>5 DEF InitTimesOut, Flags
  <2>2. UNCHANGED <<transport, ready, initFailed, instance, running,
          hciReady, initResult, initEvent, cancelEvent, inquiryEvent,
          inquiryActive, exitAsked, adapter, session, cut, clearing,
          pulled>>
    BY <1>5 DEF InitTimesOut
  <2> QED
    BY <2>1, <2>2 DEF Flags
<1>6. CASE ScanStarts
  <2>1. inquiryActive' \in BOOLEAN
    BY <1>6 DEF ScanStarts, Flags, Post
  <2>2. UNCHANGED <<transport, ready, initFailed, instance, running,
          hciReady, initResult, initEvent, cancelEvent, inquiryEvent,
          exitAsked, adapter, session, cut, late, clearing, pulled>>
    BY <1>6 DEF ScanStarts
  <2> QED
    BY <2>1, <2>2 DEF Flags
<1>7. CASE ScanBegun
  <2>2. UNCHANGED <<transport, ready, initFailed, instance, running,
          hciReady, initResult, initEvent, cancelEvent, inquiryEvent,
          inquiryActive, exitAsked, adapter, session, cut, late, clearing,
          pulled>>
    BY <1>7 DEF ScanBegun
  <2> QED
    BY <2>2 DEF Flags
<1>8. CASE ScanRefused
  <2>1. inquiryActive' \in BOOLEAN
    BY <1>8 DEF ScanRefused, Flags
  <2>2. UNCHANGED <<transport, ready, initFailed, instance, running,
          hciReady, initResult, initEvent, cancelEvent, inquiryEvent,
          exitAsked, adapter, session, cut, late, clearing, pulled>>
    BY <1>8 DEF ScanRefused
  <2> QED
    BY <2>1, <2>2 DEF Flags
<1>9. CASE ScanSeesEnd
  <2>1. inquiryEvent' \in BOOLEAN
    BY <1>9 DEF ScanSeesEnd, Flags
  <2>2. UNCHANGED <<transport, ready, initFailed, instance, running,
          hciReady, initResult, initEvent, cancelEvent, inquiryActive,
          exitAsked, adapter, session, cut, late, clearing, pulled>>
    BY <1>9 DEF ScanSeesEnd
  <2> QED
    BY <2>1, <2>2 DEF Flags
<1>10. CASE ScanGivesUp
  <2>1. cut' \in BOOLEAN
    BY <1>10 DEF ScanGivesUp, Flags
  <2>2. UNCHANGED <<transport, ready, initFailed, instance, running,
          hciReady, initResult, initEvent, cancelEvent, inquiryEvent,
          inquiryActive, exitAsked, adapter, session, late, clearing,
          pulled>>
    BY <1>10 DEF ScanGivesUp
  <2> QED
    BY <2>1, <2>2 DEF Flags
<1>11. CASE ScanStopped
  <2>1. inquiryActive' \in BOOLEAN
    BY <1>11 DEF ScanStopped, Flags
  <2>2. UNCHANGED <<transport, ready, initFailed, instance, running,
          hciReady, initResult, initEvent, cancelEvent, inquiryEvent,
          exitAsked, adapter, session, cut, late, clearing, pulled>>
    BY <1>11 DEF ScanStopped
  <2> QED
    BY <2>1, <2>2 DEF Flags
<1>12. CASE ScanCollects
  BY <1>12 DEF ScanCollects, Flags
<1>13. CASE DownBegins
  <2>2. UNCHANGED <<transport, ready, initFailed, instance, running,
          hciReady, initResult, initEvent, cancelEvent, inquiryEvent,
          inquiryActive, exitAsked, adapter, session, cut, late, clearing,
          pulled>>
    BY <1>13 DEF DownBegins
  <2> QED
    BY <2>2 DEF Flags
<1>14. CASE DownPowers
  <2>2. UNCHANGED <<transport, ready, initFailed, instance, running,
          hciReady, initResult, initEvent, cancelEvent, inquiryEvent,
          inquiryActive, exitAsked, adapter, session, cut, late, clearing,
          pulled>>
    BY <1>14 DEF DownPowers
  <2> QED
    BY <2>2 DEF Flags
<1>15. CASE DownAwaitsOff
  <2>1. /\ initEvent' \in BOOLEAN
        /\ late' \in BOOLEAN
    BY <1>15 DEF DownAwaitsOff, Flags
  <2>2. UNCHANGED <<transport, ready, initFailed, instance, running,
          hciReady, initResult, cancelEvent, inquiryEvent, inquiryActive,
          exitAsked, adapter, session, cut, clearing, pulled>>
    BY <1>15 DEF DownAwaitsOff
  <2> QED
    BY <2>1, <2>2 DEF Flags
<1>16. CASE DownExits
  <2>1. /\ running' \in BOOLEAN
        /\ hciReady' \in BOOLEAN
        /\ exitAsked' \in BOOLEAN
    BY <1>16 DEF DownExits, Flags
  <2>2. UNCHANGED <<transport, ready, initFailed, instance, initResult,
          initEvent, cancelEvent, inquiryEvent, inquiryActive, adapter,
          session, cut, late, clearing, pulled>>
    BY <1>16 DEF DownExits
  <2> QED
    BY <2>1, <2>2 DEF Flags
<1>17. CASE DownJoins
  <2>1. instance' \in BOOLEAN
    BY <1>17 DEF DownJoins, Flags
  <2>2. UNCHANGED <<transport, ready, initFailed, running, hciReady,
          initResult, initEvent, cancelEvent, inquiryEvent, inquiryActive,
          exitAsked, adapter, session, cut, late, clearing, pulled>>
    BY <1>17 DEF DownJoins
  <2> QED
    BY <2>1, <2>2 DEF Flags
<1>18. CASE DownReturns
  <2>1. /\ transport' \in BOOLEAN
        /\ ready' \in BOOLEAN
        /\ initFailed' \in BOOLEAN
        /\ clearing' \in BOOLEAN
    BY <1>18 DEF DownReturns, Flags
  <2>2. UNCHANGED <<instance, running, hciReady, initResult, initEvent,
          cancelEvent, inquiryEvent, inquiryActive, exitAsked, adapter,
          session, cut, late, pulled>>
    BY <1>18 DEF DownReturns
  <2> QED
    BY <2>1, <2>2 DEF Flags
<1>19. CASE LoopSetsUp
  <2>1. adapter' \in BOOLEAN
    BY <1>19 DEF LoopSetsUp, Flags
  <2>2. UNCHANGED <<transport, ready, initFailed, instance, running,
          hciReady, initResult, initEvent, cancelEvent, inquiryEvent,
          inquiryActive, exitAsked, session, cut, late, clearing, pulled>>
    BY <1>19 DEF LoopSetsUp
  <2> QED
    BY <2>1, <2>2 DEF Flags
<1>20. CASE RunRequest
  BY <1>20 DEF RunRequest, LoopRuns, Flags
<1>21. CASE ResultAppended
  <2>2. UNCHANGED <<transport, ready, initFailed, instance, running,
          hciReady, initResult, initEvent, cancelEvent, inquiryEvent,
          inquiryActive, exitAsked, adapter, session, cut, late, clearing,
          pulled>>
    BY <1>21 DEF ResultAppended
  <2> QED
    BY <2>2 DEF Flags
<1>22. CASE LoopExits
  <2>2. UNCHANGED <<transport, ready, initFailed, instance, running,
          hciReady, initResult, initEvent, cancelEvent, inquiryEvent,
          inquiryActive, exitAsked, adapter, session, cut, late, clearing,
          pulled>>
    BY <1>22 DEF LoopExits
  <2> QED
    BY <2>2 DEF Flags
<1>23. CASE HciWorks
  <2>1. /\ hciReady' \in BOOLEAN
        /\ initResult' \in BOOLEAN
        /\ initEvent' \in BOOLEAN
    BY <1>23 DEF HciWorks, Flags
  <2>2. UNCHANGED <<transport, ready, initFailed, instance, running,
          cancelEvent, inquiryEvent, inquiryActive, exitAsked, adapter,
          session, cut, late, clearing, pulled>>
    BY <1>23 DEF HciWorks
  <2> QED
    BY <2>1, <2>2 DEF Flags
<1>24. CASE HciOff
  <2>1. /\ hciReady' \in BOOLEAN
        /\ initEvent' \in BOOLEAN
        /\ adapter' \in BOOLEAN
    BY <1>24 DEF HciOff, Flags
  <2>2. UNCHANGED <<transport, ready, initFailed, instance, running,
          initResult, cancelEvent, inquiryEvent, inquiryActive, exitAsked,
          session, cut, late, clearing, pulled>>
    BY <1>24 DEF HciOff
  <2> QED
    BY <2>1, <2>2 DEF Flags
<1>25. CASE InquiryComplete
  <2>1. /\ inquiryEvent' \in BOOLEAN
        /\ inquiryActive' \in BOOLEAN
    BY <1>25 DEF InquiryComplete, Flags
  <2>2. UNCHANGED <<transport, ready, initFailed, instance, running,
          hciReady, initResult, initEvent, cancelEvent, exitAsked, adapter,
          session, cut, late, clearing, pulled>>
    BY <1>25 DEF InquiryComplete
  <2> QED
    BY <2>1, <2>2 DEF Flags
<1>26. ASSUME NEW d \in Headsets, InquiryResult(d)
      PROVE  Flags'
  BY <1>26 DEF InquiryResult, LoopRuns, Flags
<1>27. CASE StartScan
  <2>2. UNCHANGED <<transport, ready, initFailed, instance, running,
          hciReady, initResult, initEvent, cancelEvent, inquiryEvent,
          inquiryActive, exitAsked, adapter, session, cut, late, clearing,
          pulled>>
    BY <1>27 DEF StartScan
  <2> QED
    BY <2>2 DEF Flags
<1>28. CASE ResetBtstack
  <2>1. pulled' \in BOOLEAN
    BY <1>28 DEF ResetBtstack, Flags
  <2>2. UNCHANGED <<transport, ready, initFailed, instance, running,
          hciReady, initResult, initEvent, cancelEvent, inquiryEvent,
          inquiryActive, exitAsked, adapter, session, cut, late, clearing>>
    BY <1>28 DEF ResetBtstack
  <2> QED
    BY <2>1, <2>2 DEF Flags
<1>29. CASE SessionConnects
  <2>1. /\ cancelEvent' \in BOOLEAN
        /\ session' \in BOOLEAN
    BY <1>29 DEF SessionConnects, Flags
  <2>2. UNCHANGED <<transport, ready, initFailed, instance, running,
          hciReady, initResult, initEvent, inquiryEvent, inquiryActive,
          exitAsked, adapter, cut, late, clearing, pulled>>
    BY <1>29 DEF SessionConnects
  <2> QED
    BY <2>1, <2>2 DEF Flags
<1>30. CASE StopStreaming
  <2>1. /\ cancelEvent' \in BOOLEAN
        /\ session' \in BOOLEAN
    BY <1>30 DEF StopStreaming, Flags
  <2>2. UNCHANGED <<transport, ready, initFailed, instance, running,
          hciReady, initResult, initEvent, inquiryEvent, inquiryActive,
          exitAsked, adapter, cut, late, clearing, pulled>>
    BY <1>30 DEF StopStreaming
  <2> QED
    BY <2>1, <2>2 DEF Flags
<1>31. CASE UNCHANGED vars
  BY <1>31 DEF vars, Flags
<1>32. CASE ScanCrashes
  BY <1>32 DEF ScanCrashes, Flags
<1>33. CASE ResetClears
  <2>1. /\ clearing' \in BOOLEAN
        /\ initFailed' \in BOOLEAN
    BY <1>33 DEF ResetClears, Flags
  <2>2. UNCHANGED <<transport, ready, instance, running, hciReady, initResult,
          initEvent, cancelEvent, inquiryEvent, inquiryActive, exitAsked,
          adapter, session, cut, late, pulled>>
    BY <1>33 DEF ResetClears
  <2> QED
    BY <2>1, <2>2 DEF Flags
<1> QED
  BY <1>1, <1>2, <1>3, <1>4, <1>5, <1>6, <1>7, <1>8, <1>9, <1>10, <1>11,
     <1>12, <1>13, <1>14, <1>15, <1>16, <1>17, <1>18, <1>19, <1>20, <1>21,
     <1>22, <1>23, <1>24, <1>25, <1>26, <1>27, <1>28, <1>29, <1>30, <1>31,
     <1>32, <1>33
     DEF Next, InitSteps, Inquiry, Shutdown, RunLoop, Controller, User

\* Every step keeps the places of the threads and what they share.
LEMMA NextPlaces ==
    ASSUME Places, queue \in Seq(Requests), [Next]_vars
    PROVE  Places'
<1> USE DEF serviceVars, flagVars, eventVars, listVars, loopVars, worldVars,
           callerVars, userVars, historyVars, Places, Requests
<1>1. CASE InitDecided
  BY <1>1 DEF InitDecided
<1>2. CASE InitLaunches
  BY <1>2 DEF InitLaunches
<1>3. CASE InitLacksThread
  BY <1>3 DEF InitLacksThread
<1>4. CASE InitSucceeds
  BY <1>4 DEF InitSucceeds
<1>5. CASE InitTimesOut
  BY <1>5 DEF InitTimesOut
<1>6. CASE ScanStarts
  BY ZenonT(40), <1>6 DEF ScanStarts, Post
<1>7. CASE ScanBegun
  BY <1>7 DEF ScanBegun, Expired, Answered
<1>8. CASE ScanRefused
  BY <1>8 DEF ScanRefused, Expired, Answered
<1>9. CASE ScanSeesEnd
  BY <1>9 DEF ScanSeesEnd
<1>10. CASE ScanGivesUp
  BY <1>10 DEF ScanGivesUp, Post
<1>11. CASE ScanStopped
  BY <1>11 DEF ScanStopped, Expired, Answered
<1>12. CASE ScanCollects
  BY <1>12 DEF ScanCollects
<1>13. CASE DownBegins
  BY ZenonT(40), <1>13 DEF DownBegins, Post
<1>14. CASE DownPowers
  BY <1>14 DEF DownPowers, Expired, Answered
<1>15. CASE DownAwaitsOff
  BY <1>15 DEF DownAwaitsOff
<1>16. CASE DownExits
  BY <1>16 DEF DownExits
<1>17. CASE DownJoins
  BY <1>17 DEF DownJoins
<1>18. CASE DownReturns
  BY <1>18 DEF DownReturns
<1>19. CASE LoopSetsUp
  BY <1>19 DEF LoopSetsUp
<1>20. CASE RunRequest
  <2> DEFINE r == Head(queue)
  <2>1. r \in Requests
    BY <1>20, Taken DEF RunRequest, Requests
  <2>2. UNCHANGED <<mutex, found, handler, answered, loop, scan, down>>
    BY <1>20 DEF RunRequest
  <2> HIDE DEF r
  <2>3. /\ done' \in {done \cup {r}, done \cup {r, "refused"}}
        /\ hci' \in {hci, "halting"}
        /\ inquiry' \in {inquiry, "running", "stopping", "none"}
    BY <1>20 DEF RunRequest, r
  <2>4. done' \subseteq Requests \cup {"refused"}
    BY <2>1, <2>3
  <2> QED
    BY <2>2, <2>3, <2>4
<1>21. CASE ResultAppended
  BY <1>21 DEF ResultAppended
<1>22. CASE LoopExits
  BY <1>22 DEF LoopExits, LoopRuns
<1>23. CASE HciWorks
  BY <1>23 DEF HciWorks, LoopRuns
<1>24. CASE HciOff
  BY <1>24 DEF HciOff, LoopRuns
<1>25. CASE InquiryComplete
  BY <1>25 DEF InquiryComplete, LoopRuns
<1>26. ASSUME NEW d \in Headsets, InquiryResult(d)
      PROVE  Places'
  BY <1>26 DEF InquiryResult, LoopRuns
<1>27. CASE StartScan
  BY <1>27 DEF StartScan
<1>28. CASE ResetBtstack
  BY <1>28 DEF ResetBtstack
<1>29. CASE SessionConnects
  BY <1>29 DEF SessionConnects
<1>30. CASE StopStreaming
  BY <1>30 DEF StopStreaming
<1>31. CASE UNCHANGED vars
  BY <1>31 DEF vars
<1>32. CASE ScanCrashes
  BY <1>32 DEF ScanCrashes
<1>33. CASE ResetClears
  BY <1>33 DEF ResetClears
<1> QED
  BY <1>1, <1>2, <1>3, <1>4, <1>5, <1>6, <1>7, <1>8, <1>9, <1>10, <1>11,
     <1>12, <1>13, <1>14, <1>15, <1>16, <1>17, <1>18, <1>19, <1>20, <1>21,
     <1>22, <1>23, <1>24, <1>25, <1>26, <1>27, <1>28, <1>29, <1>30, <1>31,
     <1>32, <1>33
     DEF Next, InitSteps, Inquiry, Shutdown, RunLoop, Controller, User

\* Every step keeps the singleton, the run loop and the start in agreement.
LEMMA NextLInv ==
    ASSUME ~SlowLoop, LInv, QInv, queue \in Seq(Requests), [Next]_vars
    PROVE  LInv'
<1> USE DEF serviceVars, flagVars, eventVars, listVars, loopVars, worldVars,
           callerVars, userVars, historyVars, LInv, Scanning
<1>1. CASE InitDecided
  BY <1>1 DEF InitDecided
<1>2. CASE InitLaunches
  BY <1>2 DEF InitLaunches
<1>3. CASE InitLacksThread
  BY <1>3 DEF InitLacksThread
<1>4. CASE InitSucceeds
  BY <1>4 DEF InitSucceeds
<1>5. CASE InitTimesOut
  BY <1>5 DEF InitTimesOut
<1>6. CASE ScanStarts
  BY <1>6 DEF ScanStarts, Post
<1>7. CASE ScanBegun
  BY <1>7 DEF ScanBegun, Expired, Answered
<1>8. CASE ScanRefused
  BY <1>8 DEF ScanRefused, Expired, Answered
<1>9. CASE ScanSeesEnd
  BY <1>9 DEF ScanSeesEnd
<1>10. CASE ScanGivesUp
  BY <1>10 DEF ScanGivesUp, Post
<1>11. CASE ScanStopped
  BY <1>11 DEF ScanStopped, Expired, Answered
<1>12. CASE ScanCollects
  BY <1>12 DEF ScanCollects
<1>13. CASE DownBegins
  BY <1>13 DEF DownBegins, Post
<1>14. CASE DownPowers
  BY <1>14 DEF DownPowers, Expired, Answered
<1>15. CASE DownAwaitsOff
  BY <1>15 DEF DownAwaitsOff
<1>16. CASE DownExits
  BY <1>16 DEF DownExits
<1>17. CASE DownJoins
  BY <1>17 DEF DownJoins
<1>18. CASE DownReturns
  BY <1>18 DEF DownReturns
<1>19. CASE LoopSetsUp
  BY <1>19 DEF LoopSetsUp
<1>20. CASE RunRequest
  <2>1. loop = "running" /\ Head(queue) = queue[1] /\ 1 \in DOMAIN queue
    BY <1>20, Taken DEF RunRequest, LoopRuns
  <2>2. Head(queue) = "powerOff" => down = "powering"
    BY <2>1 DEF QInv, Awaited
  <2>3. /\ hci' = hci \/ down # "none"
        /\ UNCHANGED <<serviceVars, flagVars, loop, exitAsked, callerVars,
                       historyVars>>
    BY <1>20, <2>2 DEF RunRequest
  <2> QED
    BY <2>3
<1>21. CASE ResultAppended
  BY <1>21 DEF ResultAppended
<1>22. CASE LoopExits
  BY <1>22 DEF LoopExits, LoopRuns
<1>23. CASE HciWorks
  BY <1>23 DEF HciWorks, LoopRuns
<1>24. CASE HciOff
  BY <1>24 DEF HciOff, LoopRuns
<1>25. CASE InquiryComplete
  BY <1>25 DEF InquiryComplete, LoopRuns
<1>26. ASSUME NEW d \in Headsets, InquiryResult(d)
      PROVE  LInv'
  BY <1>26 DEF InquiryResult, LoopRuns
<1>27. CASE StartScan
  BY <1>27 DEF StartScan
<1>28. CASE ResetBtstack
  BY <1>28 DEF ResetBtstack
<1>29. CASE SessionConnects
  BY <1>29 DEF SessionConnects
<1>30. CASE StopStreaming
  BY <1>30 DEF StopStreaming
<1>31. CASE UNCHANGED vars
  BY <1>31 DEF vars
<1>32. CASE ScanCrashes
  BY <1>32 DEF ScanCrashes
<1>33. CASE ResetClears
  BY <1>33 DEF ResetClears
<1> QED
  BY <1>1, <1>2, <1>3, <1>4, <1>5, <1>6, <1>7, <1>8, <1>9, <1>10, <1>11,
     <1>12, <1>13, <1>14, <1>15, <1>16, <1>17, <1>18, <1>19, <1>20, <1>21,
     <1>22, <1>23, <1>24, <1>25, <1>26, <1>27, <1>28, <1>29, <1>30, <1>31,
     <1>32, <1>33
     DEF Next, InitSteps, Inquiry, Shutdown, RunLoop, Controller, User

\* What is queued on the run loop are requests.
LEMMA NextQueue ==
    ASSUME queue \in Seq(Requests), [Next]_vars
    PROVE  queue' \in Seq(Requests)
<1> USE DEF serviceVars, flagVars, eventVars, listVars, loopVars, worldVars,
           callerVars, userVars, historyVars
<1>1. CASE InitDecided
  BY <1>1 DEF InitDecided
<1>2. CASE InitLaunches
  BY <1>2 DEF InitLaunches
<1>3. CASE InitLacksThread
  BY <1>3 DEF InitLacksThread
<1>4. CASE InitSucceeds
  BY <1>4 DEF InitSucceeds
<1>5. CASE InitTimesOut
  BY <1>5 DEF InitTimesOut
<1>6. CASE ScanStarts
  <2>1. UNCHANGED queue \/ Post("inquire")
    BY <1>6 DEF ScanStarts
  <2> QED
    BY <2>1, Posted DEF Requests
<1>7. CASE ScanBegun
  BY <1>7 DEF ScanBegun, Expired, Answered
<1>8. CASE ScanRefused
  BY <1>8 DEF ScanRefused, Expired, Answered
<1>9. CASE ScanSeesEnd
  BY <1>9 DEF ScanSeesEnd
<1>10. CASE ScanGivesUp
  <2>1. Post("stop")
    BY <1>10 DEF ScanGivesUp
  <2> QED
    BY <2>1, Posted DEF Requests
<1>11. CASE ScanStopped
  BY <1>11 DEF ScanStopped, Expired, Answered
<1>12. CASE ScanCollects
  BY <1>12 DEF ScanCollects
<1>13. CASE DownBegins
  <2>1. UNCHANGED queue \/ Post("powerOff")
    BY <1>13 DEF DownBegins
  <2> QED
    BY <2>1, Posted DEF Requests
<1>14. CASE DownPowers
  BY <1>14 DEF DownPowers, Expired, Answered
<1>15. CASE DownAwaitsOff
  BY <1>15 DEF DownAwaitsOff
<1>16. CASE DownExits
  BY <1>16 DEF DownExits
<1>17. CASE DownJoins
  BY <1>17 DEF DownJoins
<1>18. CASE DownReturns
  BY <1>18 DEF DownReturns
<1>19. CASE LoopSetsUp
  BY <1>19 DEF LoopSetsUp
<1>20. CASE RunRequest
  BY <1>20, Taken DEF RunRequest
<1>21. CASE ResultAppended
  BY <1>21 DEF ResultAppended
<1>22. CASE LoopExits
  BY <1>22 DEF LoopExits, LoopRuns
<1>23. CASE HciWorks
  BY <1>23 DEF HciWorks, LoopRuns
<1>24. CASE HciOff
  BY <1>24 DEF HciOff, LoopRuns
<1>25. CASE InquiryComplete
  BY <1>25 DEF InquiryComplete, LoopRuns
<1>26. ASSUME NEW d \in Headsets, InquiryResult(d)
      PROVE  queue' \in Seq(Requests)
  BY <1>26 DEF InquiryResult, LoopRuns
<1>27. CASE StartScan
  BY <1>27 DEF StartScan
<1>28. CASE ResetBtstack
  BY <1>28 DEF ResetBtstack
<1>29. CASE SessionConnects
  BY <1>29 DEF SessionConnects
<1>30. CASE StopStreaming
  BY <1>30 DEF StopStreaming
<1>31. CASE UNCHANGED vars
  BY <1>31 DEF vars
<1>32. CASE ScanCrashes
  BY <1>32 DEF ScanCrashes
<1>33. CASE ResetClears
  BY <1>33 DEF ResetClears
<1> QED
  BY <1>1, <1>2, <1>3, <1>4, <1>5, <1>6, <1>7, <1>8, <1>9, <1>10, <1>11,
     <1>12, <1>13, <1>14, <1>15, <1>16, <1>17, <1>18, <1>19, <1>20, <1>21,
     <1>22, <1>23, <1>24, <1>25, <1>26, <1>27, <1>28, <1>29, <1>30, <1>31,
     <1>32, <1>33
     DEF Next, InitSteps, Inquiry, Shutdown, RunLoop, Controller, User

\* A caller leaves a request behind only once it was executed.
LEMMA NextQInv ==
    ASSUME ~SlowLoop, LInv, QInv, queue \in Seq(Requests), [Next]_vars
    PROVE  QInv'
<1> USE DEF serviceVars, flagVars, eventVars, listVars, loopVars, worldVars,
           callerVars, userVars, historyVars
<1>1. CASE InitDecided
  BY <1>1 DEF InitDecided, QInv, Awaited
<1>2. CASE InitLaunches
  BY <1>2 DEF InitLaunches, QInv, Awaited
<1>3. CASE InitLacksThread
  BY <1>3 DEF InitLacksThread, QInv, Awaited
<1>4. CASE InitSucceeds
  BY <1>4 DEF InitSucceeds, QInv, Awaited
<1>5. CASE InitTimesOut
  BY <1>5 DEF InitTimesOut, QInv, Awaited
<1>6. CASE ScanStarts
  <2>0. \/ Post("inquire") /\ scan' = "starting"
        \/ UNCHANGED <<queue, done>> /\ scan' = "collect"
    BY <1>6 DEF ScanStarts
  <2>1. scan = "start" /\ down' = down /\ UNCHANGED loop
    BY <1>6 DEF ScanStarts
  <2>2. CASE UNCHANGED <<queue, done>> /\ scan' = "collect"
    BY <2>1, <2>2 DEF QInv, Awaited
  <2>3. CASE Post("inquire") /\ scan' = "starting"
    <3> SUFFICES ASSUME loop = "running", NEW i \in DOMAIN queue',
                        NEW j \in DOMAIN queue'
                 PROVE  /\ Awaited(queue[i])' /\ queue'[i] \notin done'
                        /\ queue'[i] = queue'[j] => i = j
      BY <2>1, <2>3 DEF QInv
    <3>1. /\ \/ i \in DOMAIN queue /\ queue'[i] = queue[i]
             \/ i = Len(queue) + 1 /\ queue'[i] = "inquire"
          /\ \/ j \in DOMAIN queue /\ queue'[j] = queue[j]
             \/ j = Len(queue) + 1 /\ queue'[j] = "inquire"
      BY <2>3, Posted DEF Requests
    <3>2. done' = done \ {"inquire", "refused"}
      BY <2>3 DEF Post
    <3>3. \A l \in DOMAIN queue :
             /\ queue[l] # "inquire" /\ queue[l] \notin done'
             /\ \/ queue[l] = "inquire" /\ scan' = "starting"
                \/ queue[l] = "stop" /\ scan' = "stopping"
                \/ queue[l] = "powerOff" /\ down' = "powering"
      BY <2>1, <2>3, <3>2 DEF QInv, Awaited
    <3> QED
      BY <2>1, <2>3, <3>1, <3>2, <3>3 DEF QInv, Awaited
  <2> QED
    BY <2>0, <2>2, <2>3
<1>7. CASE ScanBegun
  <2>1. loop = "running" => "inquire" \in done
    BY <1>7 DEF ScanBegun, Expired, Answered
  <2>2. /\ UNCHANGED <<queue, done, loop>>
        /\ scan = "starting" /\ down' = down
    BY <1>7 DEF ScanBegun
  <2> QED
    BY <2>1, <2>2 DEF QInv, Awaited
<1>8. CASE ScanRefused
  <2>1. loop = "running" => "inquire" \in done
    BY <1>8 DEF ScanRefused, Expired, Answered
  <2>2. /\ UNCHANGED <<queue, done, loop>>
        /\ scan = "starting" /\ down' = down
    BY <1>8 DEF ScanRefused
  <2> QED
    BY <2>1, <2>2 DEF QInv, Awaited
<1>9. CASE ScanSeesEnd
  BY <1>9 DEF ScanSeesEnd, QInv, Awaited
<1>10. CASE ScanGivesUp
  <2>0. Post("stop") /\ scan' = "stopping"
    BY <1>10 DEF ScanGivesUp
  <2>1. scan = "waiting" /\ down' = down /\ UNCHANGED loop
    BY <1>10 DEF ScanGivesUp
  <2>3. CASE Post("stop") /\ scan' = "stopping"
    <3> SUFFICES ASSUME loop = "running", NEW i \in DOMAIN queue',
                        NEW j \in DOMAIN queue'
                 PROVE  /\ Awaited(queue[i])' /\ queue'[i] \notin done'
                        /\ queue'[i] = queue'[j] => i = j
      BY <2>1, <2>3 DEF QInv
    <3>1. /\ \/ i \in DOMAIN queue /\ queue'[i] = queue[i]
             \/ i = Len(queue) + 1 /\ queue'[i] = "stop"
          /\ \/ j \in DOMAIN queue /\ queue'[j] = queue[j]
             \/ j = Len(queue) + 1 /\ queue'[j] = "stop"
      BY <2>3, Posted DEF Requests
    <3>2. done' = done \ {"stop"}
      BY <2>3 DEF Post
    <3>3. \A l \in DOMAIN queue :
             /\ queue[l] # "stop" /\ queue[l] \notin done'
             /\ \/ queue[l] = "inquire" /\ scan' = "starting"
                \/ queue[l] = "stop" /\ scan' = "stopping"
                \/ queue[l] = "powerOff" /\ down' = "powering"
      BY <2>1, <2>3, <3>2 DEF QInv, Awaited
    <3> QED
      BY <2>1, <2>3, <3>1, <3>2, <3>3 DEF QInv, Awaited
  <2> QED
    BY <2>0, <2>3
<1>11. CASE ScanStopped
  <2>1. loop = "running" => "stop" \in done
    BY <1>11 DEF ScanStopped, Expired, Answered
  <2>2. /\ UNCHANGED <<queue, done, loop>>
        /\ scan = "stopping" /\ down' = down
    BY <1>11 DEF ScanStopped
  <2> QED
    BY <2>1, <2>2 DEF QInv, Awaited
<1>12. CASE ScanCollects
  BY <1>12 DEF ScanCollects, QInv, Awaited
<1>13. CASE DownBegins
  <2>0. \/ Post("powerOff") /\ down' = "powering"
        \/ UNCHANGED <<queue, done>> /\ down' # "powering"
    BY <1>13 DEF DownBegins
  <2>1. down = "begin" /\ scan' = scan /\ UNCHANGED loop
    BY <1>13 DEF DownBegins
  <2>2. CASE UNCHANGED <<queue, done>> /\ down' # "powering"
    BY <2>1, <2>2 DEF QInv, Awaited
  <2>3. CASE Post("powerOff") /\ down' = "powering"
    <3> SUFFICES ASSUME loop = "running", NEW i \in DOMAIN queue',
                        NEW j \in DOMAIN queue'
                 PROVE  /\ Awaited(queue[i])' /\ queue'[i] \notin done'
                        /\ queue'[i] = queue'[j] => i = j
      BY <2>1, <2>3 DEF QInv
    <3>1. /\ \/ i \in DOMAIN queue /\ queue'[i] = queue[i]
             \/ i = Len(queue) + 1 /\ queue'[i] = "powerOff"
          /\ \/ j \in DOMAIN queue /\ queue'[j] = queue[j]
             \/ j = Len(queue) + 1 /\ queue'[j] = "powerOff"
      BY <2>3, Posted DEF Requests
    <3>2. done' = done \ {"powerOff"}
      BY <2>3 DEF Post
    <3>3. \A l \in DOMAIN queue :
             /\ queue[l] # "powerOff" /\ queue[l] \notin done'
             /\ \/ queue[l] = "inquire" /\ scan' = "starting"
                \/ queue[l] = "stop" /\ scan' = "stopping"
                \/ queue[l] = "powerOff" /\ down' = "powering"
      BY <2>1, <2>3, <3>2 DEF QInv, Awaited
    <3> QED
      BY <2>1, <2>3, <3>1, <3>2, <3>3 DEF QInv, Awaited
  <2> QED
    BY <2>0, <2>2, <2>3
<1>14. CASE DownPowers
  <2>1. loop = "running" => "powerOff" \in done
    BY <1>14 DEF DownPowers, Expired, Answered
  <2>2. /\ UNCHANGED <<queue, done, loop>>
        /\ down = "powering" /\ scan' = scan
    BY <1>14 DEF DownPowers
  <2> QED
    BY <2>1, <2>2 DEF QInv, Awaited
<1>15. CASE DownAwaitsOff
  BY <1>15 DEF DownAwaitsOff, QInv, Awaited
<1>16. CASE DownExits
  BY <1>16 DEF DownExits, QInv, Awaited
<1>17. CASE DownJoins
  BY <1>17 DEF DownJoins, QInv, Awaited
<1>18. CASE DownReturns
  <2>1. down = "return" /\ (scan' = scan \/ scan = "polling")
        /\ UNCHANGED <<queue, done, loop>>
    BY <1>18 DEF DownReturns, LInv
  <2> QED
    BY <2>1 DEF QInv, Awaited
<1>19. CASE LoopSetsUp
  <2>1. queue' = <<>> /\ DOMAIN <<>> = {}
    BY <1>19 DEF LoopSetsUp
  <2> QED
    BY <2>1 DEF QInv
<1>20. CASE RunRequest
  <2> DEFINE r == Head(queue)
  <2>1. /\ loop = "running" /\ queue' = Tail(queue) /\ queue # <<>>
        /\ UNCHANGED <<loop, scan, down>>
        /\ done' \subseteq done \cup {r, "refused"}
    BY <1>20 DEF RunRequest, LoopRuns
  <2>2. /\ 1 \in DOMAIN queue /\ r = queue[1]
        /\ \A i \in DOMAIN queue' :
              /\ i + 1 \in DOMAIN queue /\ i + 1 # 1 /\ i \in Nat
              /\ queue'[i] = queue[i + 1]
    BY <2>1, Taken
  <2> HIDE DEF r
  <2>3. \A i \in DOMAIN queue' :
           /\ queue'[i] # r /\ queue'[i] \notin done /\ Awaited(queue[i + 1])
    BY <2>1, <2>2 DEF QInv
  <2>4. \A i \in DOMAIN queue' : /\ Awaited(queue[i])' /\ queue'[i] # "refused"
    BY <2>1, <2>2, <2>3 DEF Awaited
  <2>5. \A i, j \in DOMAIN queue' : queue'[i] = queue'[j] => i = j
    <3>1. \A i, j \in DOMAIN queue' : queue'[i] = queue'[j] => i + 1 = j + 1
      BY <2>1, <2>2 DEF QInv
    <3> QED
      BY <2>2, <3>1
  <2> QED
    BY <2>1, <2>3, <2>4, <2>5 DEF QInv
<1>21. CASE ResultAppended
  BY <1>21 DEF ResultAppended, QInv, Awaited
<1>22. CASE LoopExits
  BY <1>22 DEF LoopExits, LoopRuns, QInv, Awaited
<1>23. CASE HciWorks
  BY <1>23 DEF HciWorks, LoopRuns, QInv, Awaited
<1>24. CASE HciOff
  BY <1>24 DEF HciOff, LoopRuns, QInv, Awaited
<1>25. CASE InquiryComplete
  BY <1>25 DEF InquiryComplete, LoopRuns, QInv, Awaited
<1>26. ASSUME NEW d \in Headsets, InquiryResult(d)
      PROVE  QInv'
  BY <1>26 DEF InquiryResult, LoopRuns, QInv, Awaited
<1>27. CASE StartScan
  BY <1>27 DEF StartScan, QInv, Awaited
<1>28. CASE ResetBtstack
  <2>1. down = "none" /\ UNCHANGED <<queue, done, loop, scan>>
    BY <1>28 DEF ResetBtstack, LInv
  <2> QED
    BY <2>1 DEF QInv, Awaited
<1>29. CASE SessionConnects
  BY <1>29 DEF SessionConnects, QInv, Awaited
<1>30. CASE StopStreaming
  BY <1>30 DEF StopStreaming, QInv, Awaited
<1>31. CASE UNCHANGED vars
  BY <1>31 DEF vars, QInv, Awaited
<1>32. CASE ScanCrashes
  <2>1. loop # "running" /\ UNCHANGED loop
    BY <1>32 DEF ScanCrashes, LInv
  <2> QED
    BY <2>1 DEF QInv
<1>33. CASE ResetClears
  BY <1>33 DEF ResetClears, QInv, Awaited
<1> QED
  BY <1>1, <1>2, <1>3, <1>4, <1>5, <1>6, <1>7, <1>8, <1>9, <1>10, <1>11,
     <1>12, <1>13, <1>14, <1>15, <1>16, <1>17, <1>18, <1>19, <1>20, <1>21,
     <1>22, <1>23, <1>24, <1>25, <1>26, <1>27, <1>28, <1>29, <1>30, <1>31,
     <1>32, <1>33
     DEF Next, InitSteps, Inquiry, Shutdown, RunLoop, Controller, User

\* As long as no scan is cut short, inquiries and scans do not get mixed up.
LEMMA NextHInv ==
    ASSUME ~SlowLoop, LInv, QInv, HInv, queue \in Seq(Requests), [Next]_vars
    PROVE  HInv'
<1> USE DEF serviceVars, flagVars, eventVars, listVars, loopVars, worldVars,
           callerVars, userVars, historyVars
<1>1. CASE InitDecided
  BY <1>1 DEF InitDecided, HInv, Quiet, Inquiring, Whole
<1>2. CASE InitLaunches
  <2>1. /\ loop' = "setup" /\ handler' = handler /\ ~inquiryEvent'
        /\ scan' = "polling" /\ loop # "running"
    BY <1>2 DEF InitLaunches, LInv
  <2> QED
    BY <2>1 DEF HInv, Quiet, Inquiring, Whole
<1>3. CASE InitLacksThread
  BY <1>3 DEF InitLacksThread, HInv, Quiet, Inquiring, Whole
<1>4. CASE InitSucceeds
  BY <1>4 DEF InitSucceeds, HInv, Quiet, Inquiring, Whole
<1>5. CASE InitTimesOut
  BY <1>5 DEF InitTimesOut, HInv, Quiet, Inquiring, Whole
<1>6. CASE ScanStarts
  <2>1. /\ scan = "start" /\ handler' = handler /\ UNCHANGED <<cut, pulled, loop>>
        /\ Whole => loop = "running" /\ hciReady
    BY <1>6 DEF ScanStarts, LInv, Scanning, Whole
  <2>2. Whole =>
        /\ found' = {} /\ answered' = {} /\ scan' = "starting" /\ inquiryActive'
        /\ done' = done \ {"inquire", "refused"}
        /\ UNCHANGED <<cut, pulled, loop, handler, inquiry, inquiryEvent>>
    BY <1>6, <2>1 DEF ScanStarts, Post
  <2>3. Whole => "inquire" \notin done' /\ "refused" \notin done'
    BY <2>2
  <2>4. CASE Whole
    <3>1. ~inquiryEvent /\ inquiry = "none" /\ handler = {}
      BY <2>1, <2>4 DEF HInv, Quiet, Whole
    <3>2. /\ found' = {} /\ answered' = {} /\ handler' = {}
          /\ scan' = "starting" /\ inquiryActive' /\ ~inquiryEvent'
          /\ inquiry' = "none" /\ loop' = "running"
          /\ "inquire" \notin done' /\ "refused" \notin done'
      BY <2>1, <2>2, <2>3, <2>4, <3>1
    <3> QED
      BY <3>2 DEF HInv, Quiet, Inquiring
  <2>5. CASE ~Whole
    BY <1>6, <2>1, <2>5 DEF ScanStarts, HInv, Quiet, Inquiring, Whole
  <2> QED
    BY <2>4, <2>5
<1>7. CASE ScanBegun
  <2>1. scan = "starting" /\ (Whole => loop = "running")
    BY <1>7 DEF ScanBegun, LInv, Scanning, Whole
  <2>2. /\ scan' = "waiting"
        /\ UNCHANGED <<cut, pulled, loop, handler, inquiry, inquiryEvent,
                       inquiryActive, found, answered, done>>
    BY <1>7 DEF ScanBegun
  <2> QED
    BY <2>1, <2>2 DEF HInv, Quiet, Inquiring, Whole
<1>8. CASE ScanRefused
  <2>1. /\ Whole => loop = "running"
        /\ scan = "starting" /\ scan' = "collect" /\ "refused" \in done
        /\ UNCHANGED <<cut, pulled, loop, handler, inquiry, inquiryEvent, found, answered>>
    BY <1>8 DEF ScanRefused, Answered, LInv, Scanning, Whole
  <2>2. Whole => ~inquiryEvent /\ inquiry = "none" /\ handler = {}
                /\ found \cup handler = answered
    BY <2>1 DEF HInv, Inquiring, Whole
  <2> QED
    BY <2>1, <2>2 DEF HInv, Quiet, Inquiring, Whole
<1>9. CASE ScanSeesEnd
  <2>1. /\ Whole => loop = "running"
        /\ scan = "waiting" /\ scan' = "collect" /\ inquiryEvent /\ ~inquiryEvent'
        /\ UNCHANGED <<cut, pulled, loop, handler, inquiry, found, answered>>
    BY <1>9 DEF ScanSeesEnd, LInv, Scanning, Whole
  <2>2. Whole => inquiry = "none" /\ handler = {} /\ found \cup handler = answered
    BY <2>1 DEF HInv, Inquiring, Whole
  <2> QED
    BY <2>1, <2>2 DEF HInv, Quiet, Inquiring, Whole
<1>10. CASE ScanGivesUp
  <2>1. cut' /\ UNCHANGED <<loop, handler>>
    BY <1>10 DEF ScanGivesUp
  <2> QED
    BY <2>1 DEF HInv, Quiet, Inquiring, Whole
<1>11. CASE ScanStopped
  BY <1>11 DEF ScanStopped, Expired, Answered, HInv, Quiet, Inquiring, Whole
<1>12. CASE ScanCollects
  BY <1>12 DEF ScanCollects, HInv, Quiet, Inquiring, Whole
<1>13. CASE DownBegins
  <2>1. /\ down = "begin" /\ done' \subseteq done
        /\ UNCHANGED <<cut, pulled, scan, loop, handler, inquiry, inquiryEvent,
                       inquiryActive, found, answered>>
    BY <1>13 DEF DownBegins, Post
  <2>2. Whole => scan \notin Scanning
    BY <2>1 DEF LInv, Whole
  <2> QED
    BY <2>1, <2>2 DEF Scanning, HInv, Quiet, Inquiring, Whole
<1>14. CASE DownPowers
  BY <1>14 DEF DownPowers, Expired, Answered, HInv, Quiet, Inquiring, Whole
<1>15. CASE DownAwaitsOff
  BY <1>15 DEF DownAwaitsOff, HInv, Quiet, Inquiring, Whole
<1>16. CASE DownExits
  BY <1>16 DEF DownExits, HInv, Quiet, Inquiring, Whole
<1>17. CASE DownJoins
  BY <1>17 DEF DownJoins, HInv, Quiet, Inquiring, Whole
<1>18. CASE DownReturns
  <2>1. /\ Whole => scan \notin Scanning /\ scan' \notin Scanning
        /\ scan' = scan \/ scan' = "none"
        /\ UNCHANGED <<cut, pulled, loop, handler, inquiry, inquiryEvent>>
    BY <1>18 DEF DownReturns, LInv, Scanning, Whole
  <2> QED
    BY <2>1 DEF Scanning, HInv, Quiet, Inquiring, Whole
<1>19. CASE LoopSetsUp
  <2>1. /\ loop = "setup" /\ loop' = "running" /\ inquiry' = "none"
        /\ UNCHANGED <<cut, pulled, scan, handler, inquiryEvent, found, answered>>
    BY <1>19 DEF LoopSetsUp
  <2>2. Whole => scan \notin Scanning
    BY <2>1 DEF LInv, Whole
  <2> QED
    BY <2>1, <2>2 DEF Scanning, HInv, Quiet, Inquiring, Whole
<1>20. CASE RunRequest
  <2> DEFINE r == Head(queue)
  <2>1. /\ loop = "running" /\ handler = {} /\ queue # <<>>
        /\ UNCHANGED <<cut, pulled, loop, scan, handler, inquiryEvent, inquiryActive, found,
                       answered>>
    BY <1>20 DEF RunRequest, LoopRuns
  <2>2. 1 \in DOMAIN queue /\ r = queue[1] /\ r \in Requests
    BY <2>1, Taken
  <2>3. Awaited(r) /\ r \notin done
    BY <2>1, <2>2 DEF QInv
  <2>4. \/ r = "inquire" /\ inquiry' # "none" /\ done' = done \cup {"inquire"}
        \/ r = "inquire" /\ inquiry' = inquiry
              /\ done' = done \cup {"inquire", "refused"}
        \/ r = "stop"
        \/ r = "powerOff" /\ inquiry' = "none"
    BY <1>20 DEF RunRequest
  <2> HIDE DEF r
  <2>5. CASE ~Whole
    BY <2>1, <2>5 DEF HInv, Quiet, Inquiring, Whole
  <2>6. CASE Whole /\ r = "inquire"
    <3>1. scan = "starting" /\ "inquire" \notin done
      BY <2>3, <2>6 DEF Awaited
    <3>2. /\ found = answered /\ inquiry = "none" /\ ~inquiryEvent /\ inquiryActive
          /\ "refused" \notin done
      BY <2>1, <2>6, <3>1 DEF HInv, Inquiring, Whole
    <3>3. "refused" \notin done \cup {"inquire"} /\ "inquire" \in done'
      BY <2>4, <2>6, <3>2
    <3> QED
      BY <2>1, <2>4, <2>6, <3>1, <3>2, <3>3 DEF HInv, Quiet, Inquiring, Whole
  <2>7. CASE Whole /\ r = "powerOff"
    <3>1. scan \notin {"starting", "waiting"} /\ inquiry' = "none"
      BY <2>3, <2>4, <2>7 DEF Awaited, LInv, Scanning, Whole
    <3> QED
      BY <2>1, <2>7, <3>1 DEF HInv, Quiet, Inquiring, Whole
  <2>8. ~(r = "stop" /\ Whole)
    BY <2>3 DEF Awaited, HInv, Quiet, Whole
  <2> QED
    BY <2>4, <2>5, <2>6, <2>7, <2>8
<1>21. CASE ResultAppended
  <2>1. /\ handler # {} /\ found' = found \cup handler /\ handler' = {}
        /\ UNCHANGED <<cut, pulled, scan, loop, inquiry, inquiryEvent, inquiryActive,
                       done, answered>>
    BY <1>21 DEF ResultAppended
  <2>2. loop = "running"
    BY <2>1 DEF HInv, Quiet, Whole
  <2>3. found' \cup handler' = found \cup handler
    BY <2>1
  <2>4. Whole => scan # "collect"
    BY <2>1, <2>2 DEF HInv, Quiet, Whole
  <2> QED
    BY <2>1, <2>2, <2>3, <2>4 DEF HInv, Quiet, Inquiring, Whole
<1>22. CASE LoopExits
  BY <1>22 DEF LoopExits, LoopRuns, HInv, Quiet, Inquiring, Whole
<1>23. CASE HciWorks
  BY <1>23 DEF HciWorks, LoopRuns, HInv, Quiet, Inquiring, Whole
<1>24. CASE HciOff
  BY <1>24 DEF HciOff, LoopRuns, HInv, Quiet, Inquiring, Whole
<1>25. CASE InquiryComplete
  <2>1. /\ loop = "running" /\ handler = {} /\ inquiry # "none"
        /\ inquiry' = "none"
        /\ UNCHANGED <<cut, pulled, scan, loop, handler, done, found, answered>>
    BY <1>25 DEF InquiryComplete, LoopRuns
  <2>2. CASE Whole
    <3>1. scan \in {"starting", "waiting"}
      BY <2>1, <2>2 DEF HInv, Quiet, Whole
    <3>2. scan = "starting" => "inquire" \in done /\ "refused" \notin done
      BY <2>1, <2>2, <3>1 DEF HInv, Inquiring, Whole
    <3> QED
      BY <2>1, <2>2, <3>1, <3>2 DEF HInv, Quiet, Inquiring, Whole
  <2>3. CASE ~Whole
    BY <2>1, <2>3 DEF HInv, Quiet, Inquiring, Whole
  <2> QED
    BY <2>2, <2>3
<1>26. ASSUME NEW d \in Headsets, InquiryResult(d)
      PROVE  HInv'
  <2>1. /\ loop = "running" /\ handler = {} /\ inquiry # "none"
        /\ answered' = answered \cup {d}
        /\ handler' = IF instance /\ inquiryActive THEN {d} ELSE {}
        /\ UNCHANGED <<cut, pulled, scan, loop, inquiry, inquiryEvent, inquiryActive,
                       done, found>>
    BY <1>26 DEF InquiryResult, LoopRuns
  <2>2. CASE Whole
    <3>1. scan \in {"starting", "waiting"}
      BY <2>1, <2>2 DEF HInv, Quiet, Whole
    <3>2. instance /\ inquiryActive /\ found \cup handler = answered
      BY <2>1, <2>2, <3>1 DEF HInv, Inquiring, LInv
    <3>3. found' \cup handler' = answered'
      BY <2>1, <3>2
    <3> QED
      BY <2>1, <2>2, <3>1, <3>3 DEF HInv, Quiet, Inquiring, Whole
  <2>3. CASE ~Whole
    BY <2>1, <2>3 DEF HInv, Quiet, Inquiring, Whole
  <2> QED
    BY <2>2, <2>3
<1>27. CASE StartScan
  BY <1>27 DEF StartScan, HInv, Quiet, Inquiring, Whole
<1>28. CASE ResetBtstack
  BY <1>28 DEF ResetBtstack, HInv, Quiet, Inquiring, Whole
<1>29. CASE SessionConnects
  BY <1>29 DEF SessionConnects, HInv, Quiet, Inquiring, Whole
<1>30. CASE StopStreaming
  BY <1>30 DEF StopStreaming, HInv, Quiet, Inquiring, Whole
<1>31. CASE UNCHANGED vars
  BY <1>31 DEF vars, HInv, Quiet, Inquiring, Whole
<1>32. CASE ScanCrashes
  BY <1>32 DEF ScanCrashes, LInv, Scanning, HInv, Quiet, Inquiring, Whole
<1>33. CASE ResetClears
  BY <1>33 DEF ResetClears, HInv, Quiet, Inquiring, Whole
<1> QED
  BY <1>1, <1>2, <1>3, <1>4, <1>5, <1>6, <1>7, <1>8, <1>9, <1>10, <1>11,
     <1>12, <1>13, <1>14, <1>15, <1>16, <1>17, <1>18, <1>19, <1>20, <1>21,
     <1>22, <1>23, <1>24, <1>25, <1>26, <1>27, <1>28, <1>29, <1>30, <1>31,
     <1>32, <1>33
     DEF Next, InitSteps, Inquiry, Shutdown, RunLoop, Controller, User

-----------------------------------------------------------------------------
(* The theorems.                                                           *)

\* All that one step keeps together.
IInv == Flags /\ Places /\ queue \in Seq(Requests) /\ LInv /\ QInv /\ HInv

\* All of it holds before the first start.
LEMMA InitAll == Init => IInv
<1> SUFFICES ASSUME Init PROVE IInv
  OBVIOUS
<1>1. Flags
  BY DEF Init, Flags
<1>2. Places /\ queue \in Seq(Requests)
  BY DEF Init, Places
<1>3. LInv /\ QInv
  BY DEF Init, LInv, QInv, Scanning
<1>4. HInv
  BY DEF Init, HInv, Quiet, Inquiring, Whole
<1> QED
  BY <1>1, <1>2, <1>3, <1>4 DEF IInv

\* IInv is inductive when the run loop answers in time.
LEMMA LifetimeInvariant ==
    ASSUME ~SlowLoop
    PROVE  Spec => []IInv
<1>1. IInv /\ [Next]_vars => IInv'
  BY NextFlags, NextPlaces, NextQueue, NextLInv, NextQInv, NextHInv DEF IInv
<1> QED
  BY <1>1, InitAll, PTL DEF Spec

\* One BTstack at a time, and no request that outlives its caller, through
\* failed and slow starts, time-outs of the controller and resets, as long as
\* the run loop is not slower than the waits for it.
THEOREM StackStaysSingle ==
    ASSUME ~SlowLoop
    PROVE  Spec => []StackSingle
<1>1. IInv => StackSingle
  <2> SUFFICES ASSUME IInv PROVE StackSingle
    OBVIOUS
  <2>1. TypeOK
    BY DEF IInv, Flags, Places, TypeOK
  <2>2. /\ ~transport => ~instance
        /\ ~instance => loop \in {"none", "exited"}
        /\ ready /\ down = "none" => loop = "running" /\ hci = "working"
    BY DEF IInv, LInv
  <2>3. ASSUME NEW i \in DOMAIN queue, loop = "running" PROVE Waiting(queue[i])
    <3>1. Awaited(queue[i])
      BY <2>3 DEF IInv, QInv
    <3> QED
      BY <3>1 DEF Awaited, Waiting
  <2> QED
    BY <2>1, <2>2, <2>3 DEF StackSingle
<1> QED
  BY <1>1, LifetimeInvariant, PTL

\* A scan hands out what answered its own inquiry, which is over, unless a
\* scan on this transport was cut short or its transport is shut down under
\* it.
THEOREM StackScansHonestly ==
    ASSUME ~SlowLoop
    PROVE  Spec => []ScanHonest
<1>1. IInv => ScanHonest
  BY DEF IInv, LInv, HInv, Quiet, Whole, Scanning, ScanHonest
<1> QED
  BY <1>1, LifetimeInvariant, PTL

=============================================================================
