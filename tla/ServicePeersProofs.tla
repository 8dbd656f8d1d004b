-------------------------- MODULE ServicePeersProofs --------------------------
(***************************************************************************)
(* Proofs about the two peers the streaming service exchanges messages     *)
(* with.  SscDaemonLink, for every number of frames, every length of the   *)
(* connection's buffers and every set of codec outcomes: encode() and the  *)
(* daemon stay in step on a connection on which no reply was given up,     *)
(* there encode() delivers the frame made from the PCM it was given, and   *)
(* on every other no frame is delivered twice or after a younger one.      *)
(* WinUiWindow, for every length of the dispatcher queue: a window that    *)
(* has handled its events tells the truth about the session.               *)
(***************************************************************************)
EXTENDS SscDaemonLink, WinUiWindow, Integers, SequenceTheorems, TLAPS

\* Without a connection nothing is in flight, only a connected backend waits
\* for a reply, a daemon that closed the connection has no request left, a
\* frame that was submitted has a number, and bytes left half read are only
\* met after a reply was given up.
IInv ==
    /\ InStep
    /\ ~connected => requests = <<>> /\ replies = <<>>
    /\ ~peerOpen => requests = <<>>
    /\ client = "waiting" => connected /\ frame # NoFrame
    /\ client = "starting" => ~connected
    /\ ~connected => ~shifted
    /\ ~shifted => \A i \in DOMAIN replies : replies[i].kind # "unread"

\* A stream of numbers is in order: those of real frames increase, are above
\* low and at most high.
Ordered(s, low, high) ==
    /\ \A i \in 1 .. Len(s) : s[i] # NoFrame => low < s[i] /\ s[i] <= high
    /\ \A i, j \in 1 .. Len(s) :
           i < j /\ s[i] # NoFrame /\ s[j] # NoFrame => s[i] < s[j]

-----------------------------------------------------------------------------
(* The daemon's connection.                                                *)

\* The next frame has a number, and not that of a reply that is no frame.
LEMMA NextFrameType ==
    /\ NoFrame \in Numbers
    /\ frame \in Numbers /\ frame < MaxFrames =>
           NextFrame \in Numbers /\ NextFrame # NoFrame
BY LinkAssumption DEF Numbers, NextFrame, NoFrame

\* A stream of one element.
LEMMA TailOfOne == ASSUME NEW S, NEW s \in Seq(S), Len(s) = 1 PROVE Tail(s) = <<>>
<1>1. Tail(s) \in Seq(S) /\ Len(Tail(s)) = 0
  OBVIOUS
<1> QED
  BY <1>1, EmptySeq

\* The first two elements of a stream are replaced by one.
LEMMA TwoForOne ==
    ASSUME NEW S, NEW s \in Seq(S), Len(s) >= 2, NEW e \in S
    PROVE  LET t == <<e>> \o Tail(Tail(s))
           IN  /\ t \in Seq(S) /\ Len(t) = Len(s) - 1 /\ t[1] = e
               /\ \A i \in 2 .. Len(s) - 1 : t[i] = s[i + 1]
<1> DEFINE u == Tail(s)
           v == Tail(u)
           t == <<e>> \o v
<1>1. /\ u \in Seq(S) /\ Len(u) = Len(s) - 1
      /\ \A i \in 1 .. Len(u) : u[i] = s[i + 1]
  <2>1. s # <<>>
    OBVIOUS
  <2> QED
    BY <2>1, HeadTailProperties
<1> HIDE DEF u
<1>2. /\ v \in Seq(S) /\ Len(v) = Len(u) - 1
      /\ \A i \in 1 .. Len(v) : v[i] = u[i + 1]
  <2>1. u # <<>>
    BY <1>1
  <2> QED
    BY <1>1, <2>1, HeadTailProperties
<1> HIDE DEF v
<1>3. /\ t \in Seq(S) /\ Len(t) = 1 + Len(v) /\ t[1] = e
      /\ \A i \in 2 .. 1 + Len(v) : t[i] = v[i - 1]
  <2>1. <<e>> \in Seq(S) /\ Len(<<e>>) = 1 /\ <<e>>[1] = e
    OBVIOUS
  <2>2. /\ t \in Seq(S) /\ Len(t) = 1 + Len(v)
        /\ \A i \in 1 .. 1 + Len(v) : t[i] = IF i <= 1 THEN <<e>>[i] ELSE v[i - 1]
    BY <1>2, <2>1, ConcatProperties
  <2>3. Len(v) \in Nat
    BY <1>2
  <2> HIDE DEF t
  <2> QED
    BY <2>1, <2>2, <2>3
<1> HIDE DEF t
<1>4. /\ t \in Seq(S) /\ Len(t) = Len(s) - 1 /\ t[1] = e
      /\ \A i \in 2 .. Len(s) - 1 : t[i] = s[i + 1]
  <2>1. Len(s) \in Nat
    OBVIOUS
  <2>2. Len(u) = Len(s) - 1 /\ Len(v) = Len(s) - 2
    BY <1>1, <1>2, <2>1
  <2>3. ASSUME NEW i \in 2 .. Len(s) - 1 PROVE t[i] = s[i + 1]
    <3>1. i - 1 \in 1 .. Len(v) /\ i \in 1 .. Len(u) /\ (i - 1) + 1 = i
      BY <2>1, <2>2
    <3>2. v[i - 1] = u[i]
      BY <1>2, <3>1
    <3> QED
      BY <1>1, <1>3, <2>1, <2>2, <3>1, <3>2
  <2> QED
    BY <1>3, <2>1, <2>2, <2>3
<1> QED
  BY <1>4 DEF t, u, v

\* Taking the front of a stream, reading one reply in part, and completing half
\* a request with the one after it.
LEMMA StreamTypes ==
    /\ \A s \in Seq(Numbers) : s # <<>> =>
          Head(s) \in Numbers /\ Tail(s) \in Seq(Numbers)
    /\ \A s \in Seq(Numbers) : Len(s) >= 2 =>
          <<NoFrame>> \o Tail(Tail(s)) \in Seq(Numbers)
    /\ \A s \in Seq(Replies) : s # <<>> =>
          /\ Head(s) \in Replies /\ Tail(s) \in Seq(Replies)
          /\ <<[Head(s) EXCEPT !.kind = "unread"]>> \o Tail(s) \in Seq(Replies)
<1>1. \A s \in Seq(Replies) : s # <<>> =>
         Head(s) \in Replies /\ Tail(s) \in Seq(Replies)
  OBVIOUS
<1>2. \A r \in Replies : [r EXCEPT !.kind = "unread"] \in Replies
  BY DEF Replies
<1>3. ASSUME NEW s \in Seq(Numbers), Len(s) >= 2
      PROVE  <<NoFrame>> \o Tail(Tail(s)) \in Seq(Numbers)
  BY <1>3, NextFrameType, TwoForOne
<1> QED
  BY <1>1, <1>2, <1>3

\* Every step of the client and of the daemon keeps the types.
LEMMA NextTypeOK ==
    ASSUME TypeOK, [Next]_vars
    PROVE  TypeOK'
<1> USE DEF clientVars, daemonVars, streamVars, TypeOK
<1>1. CASE InitEncoder
  BY <1>1 DEF InitEncoder
<1>2. CASE ShutdownEncoder
  <2>1. daemon' \in {"down", "accepting", "serving", "hung"}
    BY <1>2 DEF ShutdownEncoder, Ending
  <2>2. /\ initialized' \in BOOLEAN /\ connected' \in BOOLEAN
        /\ peerOpen' \in BOOLEAN /\ shifted' \in BOOLEAN
    BY <1>2 DEF ShutdownEncoder
  <2> QED
    BY <1>2, <2>1, <2>2 DEF ShutdownEncoder
<1>3. CASE StartSucceeds
  BY <1>3 DEF StartSucceeds
<1>4. CASE StartFails
  BY <1>4 DEF StartFails
<1>5. CASE EncodeSends
  <2>1. frame' \in Numbers /\ requests' \in Seq(Numbers)
    BY <1>5, NextFrameType DEF EncodeSends, Submit
  <2> QED
    BY <1>5, <2>1 DEF EncodeSends, Submit
<1>6. CASE EncodeCannotSend
  BY <1>6, NextFrameType DEF EncodeCannotSend, Submit
<1>7. CASE EncodeSendTimesOut
  <2>1. frame' \in Numbers
    BY <1>7, NextFrameType DEF EncodeSendTimesOut, Submit
  <2>2. requests' \in Seq(Numbers)
    <3>1. requests' = requests \/ requests' = Append(requests, NoFrame)
      BY <1>7 DEF EncodeSendTimesOut
    <3>2. requests \in Seq(Numbers) /\ NoFrame \in Numbers
      BY NextFrameType
    <3> HIDE DEF TypeOK
    <3>3. Append(requests, NoFrame) \in Seq(Numbers)
      BY <3>2
    <3> QED
      BY <3>1, <3>2, <3>3
  <2>3. /\ UNCHANGED <<initialized, connected, client, delivered, newest,
                       daemonVars, replies>>
        /\ shifted' \in BOOLEAN
    BY <1>7 DEF EncodeSendTimesOut
  <2> HIDE DEF TypeOK
  <2> QED
    BY <2>1, <2>2, <2>3 DEF TypeOK
<1>8. CASE EncodeReceives
  <2>1. Head(replies) \in Replies /\ replies' \in Seq(Replies)
    BY <1>8, StreamTypes DEF EncodeReceives
  <2>2. Head(replies).frame \in Numbers
    BY <2>1 DEF Replies
  <2>3. /\ delivered' \in [want : Numbers, got : Numbers]
        /\ newest' \in Numbers
    BY <1>8, <2>2, NextFrameType DEF EncodeReceives
  <2>4. shifted' \in BOOLEAN
    BY <1>8 DEF EncodeReceives
  <2> QED
    BY <1>8, <2>1, <2>3, <2>4 DEF EncodeReceives
<1>9. CASE EncodeFails
  <2>1. shifted' \in BOOLEAN
    BY <1>9 DEF EncodeFails
  <2> QED
    BY <1>9, <2>1 DEF EncodeFails
<1>10. CASE DaemonAccepts
  BY <1>10 DEF DaemonAccepts
<1>11. CASE DaemonEncodes
  <2>1. Head(requests) \in Numbers /\ requests' \in Seq(Numbers)
    BY <1>11, StreamTypes DEF DaemonEncodes
  <2>2. \A k \in Outcomes : [frame |-> Head(requests), kind |-> k] \in Replies
    BY <2>1, LinkAssumption DEF Replies
  <2>3. replies' \in Seq(Replies)
    BY <1>11, <2>2 DEF DaemonEncodes
  <2> QED
    BY <1>11, <2>1, <2>3 DEF DaemonEncodes
<1>12. CASE DaemonEncodesHalves
  <2>1. requests' \in Seq(Numbers)
    BY <1>12, StreamTypes DEF DaemonEncodesHalves
  <2>2. \A k \in Outcomes : [frame |-> NoFrame, kind |-> k] \in Replies
    BY NextFrameType, LinkAssumption DEF Replies
  <2>3. replies' \in Seq(Replies)
    BY <1>12, <2>2 DEF DaemonEncodesHalves
  <2> QED
    BY <1>12, <2>1, <2>3 DEF DaemonEncodesHalves
<1>13. CASE DaemonDrops
  <2>1. peerOpen' \in BOOLEAN
    BY <1>13 DEF DaemonDrops
  <2> QED
    BY <1>13, <2>1 DEF DaemonDrops
<1>14. CASE DaemonDies
  <2>1. peerOpen' \in BOOLEAN
    BY <1>14 DEF DaemonDies
  <2> QED
    BY <1>14, <2>1 DEF DaemonDies
<1>15. CASE DaemonHangs
  BY <1>15 DEF DaemonHangs
<1>16. CASE UNCHANGED vars
  BY <1>16 DEF vars
<1> QED
  BY <1>1, <1>2, <1>3, <1>4, <1>5, <1>6, <1>7, <1>8, <1>9, <1>10, <1>11,
     <1>12, <1>13, <1>14, <1>15, <1>16 DEF Next, Start, Encode, Daemon, Fault

\* One request or one reply at a time, on a connection that is in step.
LEMMA NextIInv ==
    ASSUME IInv, [Next]_vars
    PROVE  IInv'
<1> USE DEF clientVars, daemonVars, streamVars, IInv, InStep
<1>t. TypeOK /\ TypeOK'
  BY NextTypeOK
<1>1. CASE InitEncoder
  <2>1. ~connected
    BY <1>t, <1>1 DEF TypeOK, InitEncoder
  <2> QED
    BY <1>1, <1>t, <2>1 DEF InitEncoder
<1>2. CASE ShutdownEncoder
  BY <1>2, <1>t DEF ShutdownEncoder
<1>3. CASE StartSucceeds
  BY <1>3, <1>t DEF StartSucceeds
<1>4. CASE StartFails
  BY <1>4, <1>t DEF StartFails
<1>5. CASE EncodeSends
  <2>1. /\ (requests = <<>> /\ replies = <<>>) \/ shifted
        /\ requests' = Append(requests, frame') /\ replies' = replies
        /\ client' = "waiting" /\ connected /\ peerOpen /\ frame' # NoFrame
        /\ UNCHANGED <<connected, shifted, peerOpen>>
    BY <1>t, <1>5, NextFrameType DEF EncodeSends, Submit, TypeOK
  <2>2. ~shifted => Len(requests') = 1 /\ requests'[1] = frame' /\ Len(replies') = 0
    BY <2>1
  <2>3. ~shifted => DOMAIN requests' = {1} /\ DOMAIN replies' = {}
    BY <1>t, <2>2 DEF TypeOK
  <2> QED
    BY <1>t, <2>1, <2>2, <2>3
<1>6. CASE EncodeCannotSend
  BY <1>6, <1>t DEF EncodeCannotSend, Submit
<1>7. CASE EncodeSendTimesOut
  <2>1. connected /\ peerOpen /\ client = "idle"
        /\ UNCHANGED <<connected, peerOpen, client>> /\ shifted'
    BY <1>7 DEF EncodeSendTimesOut, Submit
  <2> QED
    BY <1>t, <2>1
<1>8. CASE EncodeReceives
  <2>1. /\ client' = "idle" /\ connected /\ (shifted => shifted')
        /\ UNCHANGED <<connected, peerOpen, requests>>
    BY <1>8 DEF EncodeReceives
  <2>2. ASSUME ~shifted' PROVE requests' = <<>> /\ replies' = <<>>
    <3>1. ~shifted
      BY <2>1, <2>2
    <3>2. Len(replies) = 1 /\ requests = <<>> /\ Head(replies) = replies[1]
      BY <1>t, <1>8, <3>1 DEF EncodeReceives, TypeOK
    <3>3. Head(replies).kind # "unread"
      BY <1>t, <3>1, <3>2 DEF TypeOK
    <3>4. Tail(replies) = <<>>
      BY <1>t, <3>2, TailOfOne DEF TypeOK
    <3>5. replies' = Tail(replies)
      BY <1>8, <2>2, <3>3 DEF EncodeReceives
    <3> QED
      BY <2>1, <3>2, <3>4, <3>5
  <2>3. \A i \in DOMAIN <<>> : FALSE
    OBVIOUS
  <2> QED
    BY <1>t, <2>1, <2>2
<1>9. CASE EncodeFails
  BY <1>9, <1>t DEF EncodeFails
<1>10. CASE DaemonAccepts
  BY <1>10, <1>t DEF DaemonAccepts
<1>11. CASE DaemonEncodes
  <2>1. PICK k \in Outcomes :
           replies' = Append(replies, [frame |-> Head(requests), kind |-> k])
    BY <1>11 DEF DaemonEncodes
  <2>2. /\ requests # <<>> /\ requests' = Tail(requests) /\ connected
        /\ UNCHANGED <<connected, shifted, peerOpen, client, frame>>
    BY <1>11 DEF DaemonEncodes
  <2>3. k # "unread"
    BY LinkAssumption
  <2>4. ASSUME ~shifted
        PROVE  /\ client = "waiting" /\ requests' = <<>> /\ Len(replies') = 1
               /\ replies'[1].frame = frame /\ replies'[1].kind # "unread"
    <3>0. Len(requests) \in Nat \ {0} /\ Len(replies) \in Nat
      BY <1>t, <2>2 DEF TypeOK
    <3>1. client = "waiting" /\ Len(requests) = 1 /\ Len(replies) = 0
      <4>1. client = "waiting"
        BY <1>t, <2>2, <2>4 DEF TypeOK
      <4>2. Len(requests) + Len(replies) <= 1
        BY <1>t, <2>2, <2>4, <4>1
      <4>3. \A a \in Nat \ {0}, b \in Nat : a + b <= 1 => a = 1 /\ b = 0
        OBVIOUS
      <4> QED
        BY <3>0, <4>1, <4>2, <4>3, Zenon
    <3>2. Head(requests) = frame /\ Tail(requests) = <<>>
      <4>1. Head(requests) = requests[1] /\ 1 \in DOMAIN requests
        BY <1>t, <3>1 DEF TypeOK
      <4>2. Tail(requests) = <<>>
        BY <1>t, <3>1, TailOfOne DEF TypeOK
      <4> QED
        BY <2>2, <2>4, <3>1, <4>1, <4>2
    <3>3. replies = <<>>
      BY <1>t, <3>1 DEF TypeOK
    <3>4. replies' = <<[frame |-> frame, kind |-> k]>>
      BY <2>1, <3>2, <3>3
    <3> QED
      BY <2>2, <2>3, <3>1, <3>2, <3>4
  <2>5. ~shifted => DOMAIN replies' = {1} /\ DOMAIN requests' = {}
    BY <1>t, <2>4 DEF TypeOK
  <2>6. ~shifted => Len(requests') + Len(replies') <= 1
    <3>1. ~shifted => Len(requests') = 0 /\ Len(replies') = 1
      BY <2>4
    <3>2. 0 + 1 <= 1
      OBVIOUS
    <3> QED
      BY <3>1, <3>2, Zenon
  <2> QED
    BY <1>t, <2>2, <2>4, <2>5, <2>6
<1>12. CASE DaemonEncodesHalves
  <2>1. connected
    BY <1>12 DEF DaemonEncodesHalves
  <2>2. shifted
    BY <1>t, <1>12, <2>1 DEF DaemonEncodesHalves, TypeOK
  <2>3. peerOpen
    BY <1>12 DEF DaemonEncodesHalves
  <2> QED
    BY <1>t, <1>12, <2>1, <2>2, <2>3 DEF DaemonEncodesHalves
<1>13. CASE DaemonDrops
  BY <1>13, <1>t DEF DaemonDrops
<1>14. CASE DaemonDies
  BY <1>14, <1>t DEF DaemonDies
<1>15. CASE DaemonHangs
  BY <1>15, <1>t DEF DaemonHangs
<1>16. CASE UNCHANGED vars
  BY <1>16, <1>t DEF vars
<1> QED
  BY <1>1, <1>2, <1>3, <1>4, <1>5, <1>6, <1>7, <1>8, <1>9, <1>10, <1>11,
     <1>12, <1>13, <1>14, <1>15, <1>16 DEF Next, Start, Encode, Daemon, Fault

-----------------------------------------------------------------------------

\* Before SscEncoder::init() there is no connection.
LEMMA InitIInv == Init => IInv
<1> SUFFICES ASSUME Init PROVE IInv
  OBVIOUS
<1>1. 0 \in Numbers /\ <<>> \in Seq(Numbers) /\ <<>> \in Seq(Replies)
  BY LinkAssumption DEF Numbers
<1>2. TypeOK
  BY <1>1 DEF Init, TypeOK, NoFrame
<1> QED
  BY <1>2 DEF Init, IInv, InStep

\* On a connection on which encode() gave up no reply, client and daemon are
\* in step: whatever became of the daemon, of its helper and of earlier
\* connections, nothing is in flight between two calls of encode().
THEOREM SscStaysInStep == Spec => []InStep
<1>1. IInv /\ [Next]_vars => IInv'
  BY NextIInv
<1>2. IInv => InStep
  BY DEF IInv
<1> QED
  BY InitIInv, <1>1, <1>2, PTL DEF Spec

\* Only a reply changes what was delivered.
LEMMA OnlyReceiving == [Next]_vars /\ delivered' # delivered => EncodeReceives
BY DEF Next, Start, Encode, Daemon, Fault, InitEncoder, ShutdownEncoder,
       StartSucceeds, StartFails, EncodeSends, EncodeCannotSend,
       EncodeSendTimesOut, Submit, EncodeFails, DaemonAccepts, DaemonEncodes,
       DaemonEncodesHalves, DaemonDrops, DaemonDies, DaemonHangs, clientVars, vars

\* While no reply was given up on the connection, what encode() hands out is
\* the frame encoded from the PCM of this very call.
DeliversOwnFrame ==
    [][delivered' # delivered /\ ~shifted =>
          delivered' = [want |-> frame, got |-> frame]]_vars

\* DaemonSscBackend::encode() delivers the answer to its own request, for
\* every daemon that keeps the order of its requests.
THEOREM SscDeliversOwnFrame == Spec => DeliversOwnFrame
<1>1. IInv /\ [Next]_vars =>
         [delivered' # delivered /\ ~shifted =>
             delivered' = [want |-> frame, got |-> frame]]_vars
  <2> SUFFICES ASSUME IInv, [Next]_vars, delivered' # delivered, ~shifted
               PROVE  delivered' = [want |-> frame, got |-> frame]
    OBVIOUS
  <2>1. EncodeReceives
    BY OnlyReceiving
  <2>2. Len(replies) \in Nat \ {0} /\ Len(requests) \in Nat
        /\ Head(replies) = replies[1]
    BY <2>1 DEF EncodeReceives, IInv, InStep, TypeOK
  <2>3. 1 \in DOMAIN replies
    BY <2>2 DEF IInv, InStep, TypeOK
  <2>4. replies[1].frame = frame /\ replies[1].kind # "unread"
    BY <2>1, <2>3 DEF EncodeReceives, IInv, InStep
  <2> QED
    BY <2>1, <2>2, <2>4 DEF EncodeReceives
<1>2. IInv /\ [Next]_vars => IInv'
  BY NextIInv
<1> QED
  BY InitIInv, <1>1, <1>2, PTL DEF Spec, DeliversOwnFrame

-----------------------------------------------------------------------------
(* The order of the answers.                                              *)

\* A stream stays in order when its first number is taken off, ...
LEMMA OrderedTail ==
    ASSUME NEW s \in Seq(Nat), s # <<>>, NEW low \in Nat, NEW high \in Nat,
           Ordered(s, low, high)
    PROVE  /\ Ordered(Tail(s), low, high)
           /\ Head(s) # NoFrame => Ordered(Tail(s), Head(s), high)
<1>1. /\ Tail(s) \in Seq(Nat) /\ Len(s) \in Nat \ {0} /\ Len(Tail(s)) = Len(s) - 1
      /\ Head(s) = s[1] /\ s[1] \in Nat
  OBVIOUS
<1>2. \A i \in 1 .. Len(Tail(s)) :
         i + 1 \in 1 .. Len(s) /\ 1 < i + 1 /\ Tail(s)[i] = s[i + 1]
  BY <1>1
<1> QED
  BY <1>1, <1>2 DEF Ordered

\* ... when a younger one, or half a request, is put at its end, ...
LEMMA OrderedAppend ==
    ASSUME NEW s \in Seq(Nat), NEW low \in Nat, NEW high \in Nat,
           Ordered(s, low, high), NEW n \in Nat, NEW top \in Nat, high <= top,
           n # NoFrame => /\ low < n /\ n <= top
                          /\ \A i \in 1 .. Len(s) : s[i] # NoFrame => s[i] < n
    PROVE  Ordered(Append(s, n), low, top)
<1> DEFINE t == Append(s, n)
<1>1. /\ Len(s) \in Nat /\ Len(t) = Len(s) + 1 /\ t[Len(s) + 1] = n
      /\ \A i \in 1 .. Len(s) : t[i] = s[i] /\ s[i] \in Nat
  OBVIOUS
<1>2. \A i \in 1 .. Len(t) : i \in 1 .. Len(s) \/ i = Len(s) + 1
  BY <1>1
<1> HIDE DEF t
<1>3. \A i \in 1 .. Len(t) : t[i] # NoFrame => low < t[i] /\ t[i] <= top
  <2> SUFFICES ASSUME NEW i \in 1 .. Len(t), t[i] # NoFrame
               PROVE  low < t[i] /\ t[i] <= top
    OBVIOUS
  <2>1. CASE i = Len(s) + 1
    BY <1>1, <2>1
  <2>2. CASE i \in 1 .. Len(s)
    BY <1>1, <2>2 DEF Ordered
  <2> QED
    BY <1>2, <2>1, <2>2
<1>4. \A i, j \in 1 .. Len(t) :
         i < j /\ t[i] # NoFrame /\ t[j] # NoFrame => t[i] < t[j]
  <2> SUFFICES ASSUME NEW i \in 1 .. Len(t), NEW j \in 1 .. Len(t), i < j,
                      t[i] # NoFrame, t[j] # NoFrame
               PROVE  t[i] < t[j]
    OBVIOUS
  <2>1. i \in 1 .. Len(s)
    BY <1>1
  <2>2. CASE j = Len(s) + 1
    BY <1>1, <2>1, <2>2
  <2>3. CASE j \in 1 .. Len(s)
    BY <1>1, <2>1, <2>3 DEF Ordered
  <2> QED
    BY <1>2, <2>2, <2>3
<1>5. Ordered(t, low, top)
  BY <1>3, <1>4 DEF Ordered
<1> QED
  BY <1>5 DEF t

\* ... and when its first number is replaced by half a request.
LEMMA OrderedHalf ==
    ASSUME NEW s \in Seq(Nat), Len(s) >= 2, NEW low \in Nat, NEW high \in Nat,
           Ordered(s, low, high)
    PROVE  Ordered(<<NoFrame>> \o Tail(Tail(s)), low, high)
<1>1. Len(s) \in Nat /\ NoFrame \in Nat /\ \A i \in 1 .. Len(s) : s[i] \in Nat
  BY DEF NoFrame
<1>a. NoFrame \in Nat
  BY <1>1
<1>b. LET t == <<NoFrame>> \o Tail(Tail(s))
      IN  /\ Len(t) = Len(s) - 1 /\ t[1] = NoFrame
          /\ \A i \in 2 .. Len(s) - 1 : t[i] = s[i + 1]
  BY <1>a, TwoForOne
<1> DEFINE t == <<NoFrame>> \o Tail(Tail(s))
<1>2. /\ Len(t) = Len(s) - 1 /\ t[1] = NoFrame
      /\ \A i \in 2 .. Len(s) - 1 : t[i] = s[i + 1]
  BY <1>b, Zenon
<1> HIDE DEF t
<1>3. \A i \in 1 .. Len(t) : t[i] # NoFrame =>
         i \in 2 .. Len(s) - 1 /\ t[i] = s[i + 1] /\ i + 1 \in 1 .. Len(s)
  <2> SUFFICES ASSUME NEW i \in 1 .. Len(t), t[i] # NoFrame
               PROVE  /\ i \in 2 .. Len(s) - 1 /\ t[i] = s[i + 1]
                      /\ i + 1 \in 1 .. Len(s)
    OBVIOUS
  <2>1. i # 1
    BY <1>2
  <2>2. i \in 2 .. Len(s) - 1 /\ i + 1 \in 1 .. Len(s)
    BY <1>1, <1>2, <2>1
  <2> QED
    BY <1>2, <2>2
<1>4. \A i \in 1 .. Len(t) : t[i] # NoFrame => low < t[i] /\ t[i] <= high
  BY <1>1, <1>3 DEF Ordered
<1>5. ASSUME NEW i \in 1 .. Len(t), NEW j \in 1 .. Len(t),
             i < j, t[i] # NoFrame, t[j] # NoFrame
      PROVE  t[i] < t[j]
  <2>1. /\ t[i] = s[i + 1] /\ t[j] = s[j + 1]
        /\ i + 1 \in 1 .. Len(s) /\ j + 1 \in 1 .. Len(s)
    BY <1>3, <1>5
  <2>2. s[i + 1] # NoFrame /\ s[j + 1] # NoFrame
    BY <1>5, <2>1
  <2>3. s[i + 1] < s[j + 1]
    <3>1. i + 1 < j + 1
      BY <1>2, <1>5
    <3> QED
      BY <2>1, <2>2, <3>1 DEF Ordered
  <2> QED
    BY <2>1, <2>3
<1>6. Ordered(t, low, high)
  BY <1>4, <1>5 DEF Ordered
<1> QED
  BY <1>6 DEF t

\* The frames the replies were made from.
Frames(s) == [i \in 1 .. Len(s) |-> s[i].frame]

LEMMA FramesOf ==
    ASSUME NEW s \in Seq(Replies)
    PROVE  /\ Frames(s) \in Seq(Nat) /\ Len(Frames(s)) = Len(s)
           /\ \A i \in 1 .. Len(s) : Frames(s)[i] = s[i].frame
           /\ \A r \in Replies : Frames(Append(s, r)) = Append(Frames(s), r.frame)
           /\ s # <<>> => /\ Head(s).frame = Head(Frames(s))
                          /\ Frames(s) # <<>>
                          /\ Frames(Tail(s)) = Tail(Frames(s))
                          /\ Frames(<<[Head(s) EXCEPT !.kind = "unread"]>> \o Tail(s))
                             = Frames(s)
<1>1. \A r \in Replies : r.frame \in Nat
  BY LinkAssumption DEF Replies, Numbers
<1>2. /\ Len(s) \in Nat /\ \A i \in 1 .. Len(s) : s[i] \in Replies
  OBVIOUS
<1>3. /\ Frames(s) \in Seq(Nat) /\ Len(Frames(s)) = Len(s)
      /\ \A i \in 1 .. Len(s) : Frames(s)[i] = s[i].frame
  BY <1>1, <1>2 DEF Frames
<1>4. ASSUME NEW r \in Replies
      PROVE  Frames(Append(s, r)) = Append(Frames(s), r.frame)
  <2> DEFINE a == Frames(Append(s, r))
             b == Append(Frames(s), r.frame)
  <2>1. Append(s, r) \in Seq(Replies) /\ Len(Append(s, r)) = Len(s) + 1
    OBVIOUS
  <2>2. a = [i \in 1 .. Len(s) + 1 |-> Append(s, r)[i].frame]
    BY <2>1 DEF Frames
  <2>3. b \in Seq(Nat) /\ Len(b) = Len(s) + 1
    BY <1>1, <1>3
  <2>4. \A i \in 1 .. Len(s) + 1 : b[i] = Append(s, r)[i].frame
    BY <1>1, <1>2, <1>3
  <2>5. b = [i \in 1 .. Len(s) + 1 |-> b[i]]
    BY <2>3
  <2> QED
    BY <2>2, <2>4, <2>5
<1>5. ASSUME s # <<>>
      PROVE  /\ Head(s).frame = Head(Frames(s)) /\ Frames(s) # <<>>
             /\ Frames(Tail(s)) = Tail(Frames(s))
             /\ Frames(<<[Head(s) EXCEPT !.kind = "unread"]>> \o Tail(s)) = Frames(s)
  <2>1. /\ Len(s) \in Nat \ {0} /\ Tail(s) \in Seq(Replies)
        /\ Len(Tail(s)) = Len(s) - 1 /\ Head(s) = s[1]
        /\ \A i \in 1 .. Len(s) - 1 : Tail(s)[i] = s[i + 1]
    BY <1>5
  <2>2. Frames(Tail(s)) = Tail(Frames(s))
    <3>1. Frames(Tail(s)) = [i \in 1 .. Len(s) - 1 |-> s[i + 1].frame]
      BY <2>1 DEF Frames
    <3>2. /\ Tail(Frames(s)) \in Seq(Nat) /\ Len(Tail(Frames(s))) = Len(s) - 1
          /\ \A i \in 1 .. Len(s) - 1 : Tail(Frames(s))[i] = s[i + 1].frame
      BY <1>3, <2>1
    <3>3. Tail(Frames(s)) = [i \in 1 .. Len(s) - 1 |-> Tail(Frames(s))[i]]
      <4> DEFINE b == Tail(Frames(s))
      <4> HIDE DEF b
      <4>1. b \in Seq(Nat) /\ Len(b) = Len(s) - 1 =>
               b = [i \in 1 .. Len(s) - 1 |-> b[i]]
        OBVIOUS
      <4> QED
        BY <3>2, <4>1 DEF b
    <3> QED
      BY <3>1, <3>2, <3>3
  <2>3. Frames(<<[Head(s) EXCEPT !.kind = "unread"]>> \o Tail(s)) = Frames(s)
    <3> DEFINE u == [Head(s) EXCEPT !.kind = "unread"]
               t == <<u>> \o Tail(s)
    <3>1. u \in Replies /\ u.frame = s[1].frame
      BY <1>2, <2>1 DEF Replies
    <3> HIDE DEF u
    <3>2. /\ Len(t) = Len(s) /\ t[1] = u
          /\ \A i \in 2 .. Len(s) : t[i] = s[i]
      BY <2>1, <3>1
    <3> HIDE DEF t
    <3>3. \A i \in 1 .. Len(s) : t[i].frame = s[i].frame
      <4> SUFFICES ASSUME NEW i \in 1 .. Len(s) PROVE t[i].frame = s[i].frame
        OBVIOUS
      <4>1. CASE i = 1
        BY <3>1, <3>2, <4>1
      <4>2. CASE i \in 2 .. Len(s)
        BY <3>2, <4>2
      <4> QED
        BY <2>1, <4>1, <4>2
    <3>4. Frames(t) = Frames(s)
      BY <3>2, <3>3 DEF Frames
    <3> QED
      BY <3>4 DEF t, u
  <2> QED
    BY <1>3, <2>1, <2>2, <2>3
<1> QED
  BY <1>3, <1>4, <1>5

\* What is in flight, on both directions together, is in the order in which it
\* was submitted, and younger than everything that was delivered.
FlightInv ==
    /\ newest <= frame
    /\ Ordered(Frames(replies), newest, frame)
    /\ Ordered(requests, newest, frame)
    /\ \A i \in 1 .. Len(replies), j \in 1 .. Len(requests) :
           replies[i].frame # NoFrame /\ requests[j] # NoFrame =>
               replies[i].frame < requests[j]

\* The types of the streams, as streams of numbers.
LEMMA FlightTypes ==
    ASSUME TypeOK
    PROVE  /\ requests \in Seq(Nat) /\ replies \in Seq(Replies)
           /\ Len(requests) \in Nat /\ Len(replies) \in Nat
           /\ newest \in Nat /\ frame \in Nat
           /\ \A i \in 1 .. Len(replies) : replies[i].frame \in Nat
           /\ \A j \in 1 .. Len(requests) : requests[j] \in Nat
<1>1. Numbers \subseteq Nat
  BY LinkAssumption DEF Numbers
<1>2. requests \in Seq(Nat)
  <2>1. /\ Len(requests) \in Nat /\ requests = [i \in 1 .. Len(requests) |-> requests[i]]
        /\ \A i \in 1 .. Len(requests) : requests[i] \in Numbers
    BY DEF TypeOK
  <2> QED
    BY <1>1, <2>1
<1>3. \A r \in Replies : r.frame \in Nat
  BY <1>1 DEF Replies
<1> QED
  BY <1>1, <1>2, <1>3 DEF TypeOK

\* Nothing in flight is in order, and an order is kept while more is submitted.
LEMMA OrderedWider ==
    /\ \A low, high : Ordered(<<>>, low, high) /\ Ordered(Frames(<<>>), low, high)
    /\ \A s \in Seq(Nat) : \A low, high, top \in Nat :
           high <= top /\ Ordered(s, low, high) => Ordered(s, low, top)
<1>1. \A low, high : Ordered(<<>>, low, high) /\ Ordered(Frames(<<>>), low, high)
  <2>1. Len(<<>>) = 0 /\ Len(Frames(<<>>)) = 0 /\ 1 .. 0 = {}
    BY DEF Frames
  <2> QED
    BY <2>1 DEF Ordered
<1>2. ASSUME NEW s \in Seq(Nat), NEW low \in Nat, NEW high \in Nat,
             NEW top \in Nat, high <= top, Ordered(s, low, high)
      PROVE  Ordered(s, low, top)
  BY <1>2 DEF Ordered
<1> QED
  BY <1>1, <1>2

LEMMA NextFlightInv ==
    ASSUME TypeOK, TypeOK', FlightInv, [Next]_vars
    PROVE  FlightInv'
<1> USE DEF clientVars, daemonVars, streamVars
<1>t. /\ requests \in Seq(Nat) /\ replies \in Seq(Replies)
      /\ Len(requests) \in Nat /\ Len(replies) \in Nat
      /\ newest \in Nat /\ frame \in Nat
      /\ \A i \in 1 .. Len(replies) : replies[i].frame \in Nat
      /\ \A j \in 1 .. Len(requests) : requests[j] \in Nat
      /\ Frames(replies) \in Seq(Nat) /\ Len(Frames(replies)) = Len(replies)
      /\ \A i \in 1 .. Len(replies) : Frames(replies)[i] = replies[i].frame
  BY FlightTypes, FramesOf
<1>e. 1 .. 0 = {} /\ Len(<<>>) = 0
  OBVIOUS
<1>1. CASE UNCHANGED <<frame, newest, requests, replies>>
  BY <1>1 DEF FlightInv, Frames, Ordered
<1>2. CASE UNCHANGED <<frame, newest, replies>> /\ requests' = <<>>
  <2>1. Frames(replies)' = Frames(replies)
    BY <1>2 DEF Frames
  <2>2. Ordered(requests', newest', frame')
    BY <1>2, OrderedWider
  <2>3. 1 .. Len(requests') = {}
    BY <1>2, <1>e
  <2> QED
    BY <1>2, <2>1, <2>2, <2>3 DEF FlightInv, Ordered
<1>3. CASE UNCHANGED <<frame, newest>> /\ requests' = <<>> /\ replies' = <<>>
  BY <1>3, <1>e, OrderedWider DEF FlightInv
<1>4. CASE EncodeSends \/ EncodeCannotSend \/ EncodeSendTimesOut
  <2>1. /\ frame' = frame + 1 /\ newest' = newest /\ replies' = replies
        /\ \E n \in {frame + 1, NoFrame} :
               requests' = requests \/ requests' = Append(requests, n)
    BY <1>4 DEF EncodeSends, EncodeCannotSend, EncodeSendTimesOut, Submit,
                NextFrame
  <2>2. newest <= frame' /\ frame <= frame' /\ frame' \in Nat
    BY <1>t, <2>1 DEF FlightInv
  <2>3. Ordered(Frames(replies)', newest', frame')
    <3>1. Frames(replies)' = Frames(replies)
      BY <2>1 DEF Frames
    <3> QED
      BY <1>t, <2>1, <2>2, <3>1, OrderedWider DEF FlightInv
  <2>4. CASE requests' = requests
    <3>1. Ordered(requests, newest, frame')
      BY <1>t, <2>2, OrderedWider DEF FlightInv
    <3> QED
      BY <2>1, <2>2, <2>3, <2>4, <3>1 DEF FlightInv, Ordered
  <2>5. ASSUME NEW n \in {frame + 1, NoFrame}, requests' = Append(requests, n)
        PROVE  FlightInv'
    <3>1. n \in Nat /\ (n # NoFrame => n = frame + 1)
      BY <1>t DEF NoFrame
    <3>2. \A i \in 1 .. Len(requests) : requests[i] # NoFrame => requests[i] <= frame
      BY DEF FlightInv, Ordered
    <3>3. \A i \in 1 .. Len(replies) :
             replies[i].frame # NoFrame => replies[i].frame <= frame
      BY <1>t DEF FlightInv, Ordered
    <3>4. Ordered(Append(requests, n), newest, frame')
      <4>1. n # NoFrame =>
              /\ newest < n /\ n <= frame'
              /\ \A i \in 1 .. Len(requests) :
                     requests[i] # NoFrame => requests[i] < n
        BY <1>t, <2>1, <3>1, <3>2 DEF FlightInv
      <4>2. Ordered(requests, newest, frame)
        BY DEF FlightInv
      <4> QED
        BY <1>t, <2>2, <3>1, <4>1, <4>2, OrderedAppend
    <3>5. /\ Len(Append(requests, n)) = Len(requests) + 1
          /\ Append(requests, n)[Len(requests) + 1] = n
          /\ \A j \in 1 .. Len(requests) : Append(requests, n)[j] = requests[j]
      BY <1>t, <3>1
    <3>6. ASSUME NEW i \in 1 .. Len(replies), NEW j \in 1 .. Len(requests'),
                 replies[i].frame # NoFrame, requests'[j] # NoFrame
          PROVE  replies[i].frame < requests'[j]
      <4>1. CASE j = Len(requests) + 1
        BY <1>t, <2>5, <3>1, <3>3, <3>5, <3>6, <4>1
      <4>2. CASE j \in 1 .. Len(requests)
        BY <2>5, <3>5, <3>6, <4>2 DEF FlightInv
      <4> QED
        BY <1>t, <2>5, <3>5, <4>1, <4>2
    <3> QED
      BY <2>1, <2>2, <2>3, <2>5, <3>4, <3>6 DEF FlightInv
  <2> QED
    BY <2>1, <2>4, <2>5
<1>5. CASE EncodeReceives
  <2>1. /\ replies # <<>> /\ requests' = requests /\ frame' = frame
        /\ \/ /\ newest' = newest
              /\ \/ replies' = replies
                 \/ replies' = Tail(replies)
                 \/ replies' = <<[Head(replies) EXCEPT !.kind = "unread"]>> \o Tail(replies)
           \/ /\ replies' = Tail(replies)
              /\ Head(replies).frame # NoFrame
              /\ newest' = Head(replies).frame
    BY <1>5 DEF EncodeReceives
  <2>2. /\ Len(replies) \in Nat \ {0} /\ Head(replies) = replies[1]
        /\ Len(Tail(replies)) = Len(replies) - 1
        /\ \A i \in 1 .. Len(replies) - 1 :
               Tail(replies)[i] = replies[i + 1] /\ i + 1 \in 1 .. Len(replies)
    BY <1>t, <2>1
  <2>3. /\ Head(replies).frame = Head(Frames(replies)) /\ Frames(replies) # <<>>
        /\ Frames(Tail(replies)) = Tail(Frames(replies))
    BY <1>t, <2>1, FramesOf
  <2>4. CASE replies' = Tail(replies) /\ newest' = newest
    <3>1. Ordered(Tail(Frames(replies)), newest, frame)
      BY <1>t, <2>3, OrderedTail DEF FlightInv
    <3>2. Ordered(Frames(replies'), newest', frame')
      BY <2>1, <2>3, <2>4, <3>1
    <3>3. Ordered(requests', newest', frame')
      BY <2>1, <2>4 DEF FlightInv
    <3>4. \A i \in 1 .. Len(replies'), j \in 1 .. Len(requests) :
             replies'[i].frame # NoFrame /\ requests[j] # NoFrame =>
                 replies'[i].frame < requests[j]
      BY <2>2, <2>4 DEF FlightInv
    <3> QED
      BY <2>1, <2>4, <3>2, <3>3, <3>4 DEF FlightInv
  <2>5. CASE /\ replies' = Tail(replies) /\ Head(replies).frame # NoFrame
             /\ newest' = Head(replies).frame
    <3>1. Ordered(Tail(Frames(replies)), newest', frame)
      BY <1>t, <2>3, <2>5, OrderedTail DEF FlightInv
    <3>2. Frames(replies)' = Tail(Frames(replies))
      BY <2>3, <2>5 DEF Frames
    <3>3. newest' <= frame /\ newest' = replies[1].frame
      <4>1. 1 \in 1 .. Len(replies) /\ Frames(replies)[1] = replies[1].frame
        BY <1>t, <2>2
      <4>2. \A i \in 1 .. Len(Frames(replies)) :
               Frames(replies)[i] # NoFrame => Frames(replies)[i] <= frame
        BY DEF FlightInv, Ordered
      <4> QED
        BY <1>t, <2>2, <2>5, <4>1, <4>2
    <3>4. Ordered(requests, newest', frame)
      BY <2>2, <2>5, <3>3 DEF FlightInv, Ordered
    <3>5. \A i \in 1 .. Len(replies'), j \in 1 .. Len(requests) :
             replies'[i].frame # NoFrame /\ requests[j] # NoFrame =>
                 replies'[i].frame < requests[j]
      BY <2>2, <2>5 DEF FlightInv
    <3> QED
      BY <2>1, <3>1, <3>2, <3>3, <3>4, <3>5 DEF FlightInv, Ordered
  <2>6. CASE /\ newest' = newest
             /\ replies' = <<[Head(replies) EXCEPT !.kind = "unread"]>> \o Tail(replies)
    <3>1. Frames(replies)' = Frames(replies)
      <4>1. Frames(replies)' = Frames(<<[Head(replies) EXCEPT !.kind = "unread"]>> \o Tail(replies))
        BY <2>6 DEF Frames
      <4> QED
        BY <1>t, <2>1, <4>1, FramesOf
    <3>2. /\ replies' \in Seq(Replies) /\ Len(replies') = Len(Frames(replies)')
          /\ \A i \in 1 .. Len(replies') : Frames(replies)'[i] = replies'[i].frame
      <4>1. replies' \in Seq(Replies)
        BY DEF TypeOK
      <4> QED
        BY <4>1 DEF Frames
    <3>3. \A i \in 1 .. Len(replies') :
             i \in 1 .. Len(replies) /\ replies'[i].frame = replies[i].frame
      BY <1>t, <3>1, <3>2
    <3>4. newest' = newest /\ frame' = frame
      BY <2>1, <2>6
    <3> QED
      BY <2>1, <3>1, <3>3, <3>4 DEF FlightInv, Ordered
  <2>7. CASE UNCHANGED <<newest, replies>>
    BY <1>1, <2>1, <2>7
  <2> QED
    BY <2>1, <2>4, <2>5, <2>6, <2>7
<1>6. CASE DaemonEncodes \/ DaemonEncodesHalves
  <2>1. PICK r \in Replies : 
          /\ replies' = Append(replies, r) /\ UNCHANGED <<frame, newest>>
          /\ \/ /\ requests # <<>> /\ r.frame = Head(requests)
                /\ requests' = Tail(requests)
                /\ Head(requests) # NoFrame
             \/ /\ Len(requests) >= 2 /\ r.frame = NoFrame
                /\ requests' = <<NoFrame>> \o Tail(Tail(requests))
    <3>1. \A n \in Numbers, k \in Outcomes : [frame |-> n, kind |-> k] \in Replies
      BY LinkAssumption DEF Replies
    <3>2. requests # <<>> => Head(requests) \in Numbers
      BY StreamTypes DEF TypeOK
    <3> QED
      BY <1>6, <3>1, <3>2, NextFrameType DEF DaemonEncodes, DaemonEncodesHalves
  <2>2. Frames(replies)' = Append(Frames(replies), r.frame)
    <3>1. Frames(replies)' = Frames(Append(replies, r))
      BY <2>1 DEF Frames
    <3> QED
      BY <1>t, <3>1, FramesOf
  <2>3. r.frame \in Nat
    BY LinkAssumption DEF Replies, Numbers
  <2>4. /\ Len(replies') = Len(replies) + 1 /\ replies'[Len(replies) + 1] = r
        /\ \A i \in 1 .. Len(replies) : replies'[i] = replies[i]
    BY <1>t, <2>1
  <2>5. CASE /\ requests # <<>> /\ r.frame = Head(requests)
             /\ requests' = Tail(requests) /\ Head(requests) # NoFrame
    <3>1. /\ Len(requests) \in Nat \ {0} /\ Head(requests) = requests[1]
          /\ Len(Tail(requests)) = Len(requests) - 1
          /\ \A j \in 1 .. Len(requests) - 1 :
                 Tail(requests)[j] = requests[j + 1] /\ j + 1 \in 1 .. Len(requests)
      BY <1>t, <2>5
    <3>2. Ordered(Tail(requests), newest, frame)
      BY <1>t, <2>5, OrderedTail DEF FlightInv
    <3>3. Ordered(Append(Frames(replies), r.frame), newest, frame)
      <4>2. Ordered(Frames(replies), newest, frame)
        BY DEF FlightInv
      <4>0. 1 \in 1 .. Len(requests) /\ r.frame = requests[1] /\ r.frame # NoFrame
        BY <2>5, <3>1
      <4>1. newest < r.frame /\ r.frame <= frame
        BY <4>0 DEF FlightInv, Ordered
      <4>3. \A i \in 1 .. Len(replies) :
               replies[i].frame # NoFrame => replies[i].frame < r.frame
        BY <4>0 DEF FlightInv
      <4>4. \A i \in 1 .. Len(Frames(replies)) :
               Frames(replies)[i] # NoFrame => Frames(replies)[i] < r.frame
        BY <1>t, <4>3
      <4>5. frame <= frame
        BY <1>t
      <4> QED
        BY <1>t, <2>3, <4>1, <4>2, <4>4, <4>5, OrderedAppend
    <3>4. ASSUME NEW i \in 1 .. Len(replies'), NEW j \in 1 .. Len(requests'),
                 replies'[i].frame # NoFrame, requests'[j] # NoFrame
          PROVE  replies'[i].frame < requests'[j]
      <4>1. requests'[j] = requests[j + 1] /\ j + 1 \in 2 .. Len(requests)
        BY <2>5, <3>1
      <4>2. CASE i = Len(replies) + 1
        BY <2>4, <2>5, <3>1, <3>4, <4>1, <4>2 DEF FlightInv, Ordered
      <4>3. CASE i \in 1 .. Len(replies)
        BY <2>4, <3>1, <3>4, <4>1, <4>3 DEF FlightInv
      <4> QED
        BY <1>t, <2>4, <4>2, <4>3
    <3> QED
      BY <2>1, <2>2, <2>5, <3>2, <3>3, <3>4 DEF FlightInv, Ordered
  <2>6. CASE /\ Len(requests) >= 2 /\ r.frame = NoFrame
             /\ requests' = <<NoFrame>> \o Tail(Tail(requests))
    <3>1. Ordered(requests', newest, frame)
      BY <1>t, <2>6, OrderedHalf DEF FlightInv
    <3>2. Ordered(Append(Frames(replies), r.frame), newest, frame)
      BY <1>t, <2>3, <2>6, OrderedAppend DEF FlightInv
    <3>3. \A j \in 1 .. Len(requests') : requests'[j] # NoFrame =>
             j + 1 \in 1 .. Len(requests) /\ requests'[j] = requests[j + 1]
      <4>1. /\ Len(requests') = Len(requests) - 1 /\ requests'[1] = NoFrame
            /\ \A j \in 2 .. Len(requests) - 1 : requests'[j] = requests[j + 1]
        <5>1. NoFrame \in Nat /\ requests \in Seq(Nat)
          BY <1>t DEF NoFrame
        <5>2. LET t == <<NoFrame>> \o Tail(Tail(requests))
              IN  /\ Len(t) = Len(requests) - 1 /\ t[1] = NoFrame
                  /\ \A j \in 2 .. Len(requests) - 1 : t[j] = requests[j + 1]
          BY <2>6, <5>1, TwoForOne
        <5> QED
          BY <2>6, <5>2, Zenon
      <4>2. \A j \in 1 .. Len(requests') :
               j = 1 \/ (j \in 2 .. Len(requests) - 1 /\ j + 1 \in 1 .. Len(requests))
        BY <1>t, <4>1
      <4> QED
        BY <4>1, <4>2
    <3>4. \A i \in 1 .. Len(replies') : replies'[i].frame # NoFrame =>
             i \in 1 .. Len(replies) /\ replies'[i].frame = replies[i].frame
      BY <1>t, <2>4, <2>6
    <3>5. ASSUME NEW i \in 1 .. Len(replies'), NEW j \in 1 .. Len(requests'),
                 replies'[i].frame # NoFrame, requests'[j] # NoFrame
          PROVE  replies'[i].frame < requests'[j]
      <4>1. i \in 1 .. Len(replies) /\ replies'[i].frame = replies[i].frame
        BY <3>4, <3>5
      <4>2. j + 1 \in 1 .. Len(requests) /\ requests'[j] = requests[j + 1]
        BY <3>3, <3>5
      <4> QED
        BY <3>5, <4>1, <4>2 DEF FlightInv
    <3> QED
      BY <2>1, <2>2, <3>1, <3>2, <3>5 DEF FlightInv
  <2> QED
    BY <2>1, <2>5, <2>6
<1>7. CASE InitEncoder \/ StartSucceeds \/ StartFails \/ EncodeFails
           \/ DaemonAccepts \/ DaemonHangs
  BY <1>1, <1>7 DEF InitEncoder, StartSucceeds, StartFails, EncodeFails,
                    DaemonAccepts, DaemonHangs
<1>8. CASE DaemonDrops \/ DaemonDies
  BY <1>2, <1>8 DEF DaemonDrops, DaemonDies
<1>9. CASE ShutdownEncoder
  BY <1>3, <1>9 DEF ShutdownEncoder
<1>10. CASE UNCHANGED vars
  BY <1>1, <1>10 DEF vars
<1> QED
  BY <1>4, <1>5, <1>6, <1>7, <1>8, <1>9, <1>10 DEF Next, Start, Encode, Daemon,
     Fault

\* Whatever became of the daemon, and of requests that were given up, sent in
\* part or refused: no frame is delivered twice or after a younger one.
THEOREM SscAnswersInOrder == Spec => AnswersInOrder
<1>1. Init => IInv /\ FlightInv
  <2> SUFFICES ASSUME Init PROVE FlightInv
    BY InitIInv
  <2>1. newest = 0 /\ frame = 0 /\ requests = <<>> /\ replies = <<>> /\ 0 <= 0
    BY DEF Init
  <2>2. Len(<<>>) = 0 /\ 1 .. 0 = {}
    OBVIOUS
  <2> QED
    BY <2>1, <2>2, OrderedWider DEF FlightInv
<1>2. IInv /\ FlightInv /\ [Next]_vars => (IInv /\ FlightInv)'
  BY NextIInv, NextFlightInv DEF IInv, InStep
<1>3. IInv /\ FlightInv /\ [Next]_vars =>
         [delivered' # delivered /\ delivered'.got # NoFrame =>
             newest < delivered'.got /\ delivered'.got <= delivered'.want]_vars
  <2> SUFFICES ASSUME IInv, FlightInv, [Next]_vars, delivered' # delivered,
                      delivered'.got # NoFrame
               PROVE  newest < delivered'.got /\ delivered'.got <= delivered'.want
    OBVIOUS
  <2>1. EncodeReceives
    BY OnlyReceiving
  <2>2. /\ replies # <<>> /\ delivered'.want = frame
        /\ delivered'.got = Head(replies).frame
    BY <2>1 DEF EncodeReceives
  <2>3. replies \in Seq(Replies) /\ 1 \in 1 .. Len(replies) /\ Head(replies) = replies[1]
    BY <2>2 DEF IInv, InStep, TypeOK
  <2>4. Frames(replies)[1] = replies[1].frame /\ Len(Frames(replies)) = Len(replies)
    BY <2>3, FramesOf
  <2> QED
    BY <2>2, <2>3, <2>4 DEF FlightInv, Ordered
<1> QED
  BY <1>1, <1>2, <1>3, PTL DEF Spec, AnswersInOrder

-----------------------------------------------------------------------------
(* The window.                                                             *)

\* No state awaits the dispatcher.
AllTold == \A i \in 1 .. Len(events) : events[i] = "ScanDone"

\* The state told last, while it awaits the dispatcher.
ToldLast(i) ==
    /\ events[i] # "ScanDone"
    /\ \A j \in 1 .. Len(events) : j > i => events[j] = "ScanDone"

\* The state told last is the service's: it is the last one in the queue, or
\* the one on the card.
QueueInv ==
    /\ \A i \in 1 .. Len(events) : ToldLast(i) => events[i] = state
    /\ AllTold => card = state

\* Once all is told, the buttons are those of the service's state.
ButtonsInv ==
    AllTold /\ ~refused =>
        /\ state = "Streaming" => isStreaming
        /\ state \in {"Idle", "Error"} => ~isStreaming /\ scanEnabled

AtWork == {"starting", "connecting", "streaming", "reconnecting", "cleanup"}

\* Where running_ guards the session, it covers the worker and the wait for its
\* thread to start, and a stop is only asked for while the UI thread waits.
RunningInv ==
    ~unguarded =>
        /\ worker \in AtWork => running
        /\ running => worker \in AtWork \cup {"crashed"} \/ ui = "joining"
        /\ ui = "joining" => running /\ worker \notin AtWork
        /\ stopReq => ui = "stopping" \/ ~running

\* There, and where no session was started during a scan, the state tells where
\* the worker is; an exception in the loop leaves it behind.
StateInv ==
    ~overlap /\ ~unguarded =>
        /\ running => scan = "none"
        /\ scan # "none" => threw \/ state \in {"Idle", "Error"}
        /\ scan \in {"telling", "toldFound"} => threw \/ scanSeen \in {"Idle", "Error"}
        /\ worker = "connecting" => state = "Connecting"
        /\ worker = "streaming" => state = "Streaming"
        /\ worker = "reconnecting" => state = "Reconnecting"
        /\ worker = "cleanup" => threw \/ state = "Error" \/ ui = "stopping"
        /\ worker = "crashed" /\ running =>
               state = "Error" \/ ui \in {"stopping", "joining"}
        /\ ~running => threw \/ state \in {"Idle", "Error"} \/ ui = "stopping"

-----------------------------------------------------------------------------
(* The clicks come down to a few things they do to the service.            *)

\* The constructor finds no device to connect to.
LaunchesIdle ==
    /\ ui = "launching" /\ ui' = "idle"
    /\ UNCHANGED <<events, controlVars, state, running, stopReq, worker,
                   scanVars, historyVars>>

LEMMA UserSteps ==
    ASSUME User
    PROVE  \/ ui \in {"launching", "idle"} /\ StartStream
           \/ ui = "idle" /\ StopStream
           \/ LaunchesIdle \/ OnScanClick \/ OnDeviceSelectionChanged
BY DEF User, Launch, OnConnectClick, OnDirectConnectClick, OnReconnectLastClick,
       LaunchesIdle

\* A click that starts a session, or finds that the service ignores it.
StartsSession == ui \in {"launching", "idle"} /\ StartStream /\ ~running
IgnoredStart == ui \in {"launching", "idle"} /\ StartStream /\ running
StartsScan == OnScanClick /\ ~running
IgnoredScan == OnScanClick /\ running

LEMMA WindowSteps ==
    ASSUME WindowTypeOK, [WindowNext]_windowVars
    PROVE  \/ StartsSession \/ IgnoredStart \/ (ui = "idle" /\ StopStream)
           \/ LaunchesIdle \/ StartsScan \/ IgnoredScan
           \/ OnDeviceSelectionChanged
           \/ StartJoins \/ StopReturns \/ HandleEvent
           \/ WorkerBegins \/ WorkerConnects \/ WorkerReconnects
           \/ WorkerLosesLink \/ WorkerFails \/ WorkerStops \/ WorkerClears
           \/ WorkerEnds \/ WorkerTells \/ CrashClears
           \/ LoopThrows \/ WorkerCrashes \/ ScanCrashes
           \/ ScanLoads \/ ScanTells \/ ScanFails \/ ScanCompletes
           \/ UNCHANGED windowVars
<1>1. CASE User
  BY <1>1, UserSteps DEF StartsSession, IgnoredStart, StartsScan, IgnoredScan
<1>2. CASE ~User
  BY <1>2 DEF WindowNext, UiThread, WorkerThread, ScanThread, Faults
<1> QED
  BY <1>1, <1>2

\* The flags are Booleans.
LEMMA Flags ==
    ASSUME WindowTypeOK
    PROVE  /\ isStreaming \in BOOLEAN /\ scanEnabled \in BOOLEAN
           /\ connectEnabled \in BOOLEAN /\ hasSelected \in BOOLEAN
           /\ listed \in BOOLEAN /\ lastKnown \in BOOLEAN
           /\ running \in BOOLEAN /\ stopReq \in BOOLEAN
           /\ refused \in BOOLEAN /\ overlap \in BOOLEAN
           /\ threw \in BOOLEAN /\ unguarded \in BOOLEAN
BY DEF WindowTypeOK

-----------------------------------------------------------------------------
(* The queue.                                                              *)

\* A state that is told is the last one told, and awaits the dispatcher.
LEMMA Tells ==
    ASSUME WindowTypeOK, NEW s \in States, Notify(s)
    PROVE  /\ state' \in States /\ events' \in Seq(States \cup {"ScanDone"})
           /\ QueueInv' /\ ~AllTold'
<1> DEFINE n == Len(events)
<1>1. /\ events \in Seq(States \cup {"ScanDone"}) /\ n \in Nat
      /\ s # "ScanDone"
  BY DEF WindowTypeOK, States
<1>2. state' = s /\ events' = Append(events, s)
  BY DEF Notify
<1>3. Len(events') = n + 1 /\ events'[n + 1] = s /\ n + 1 \in 1 .. Len(events')
  BY <1>1, <1>2
<1>4. ~AllTold'
  BY <1>1, <1>3 DEF AllTold
<1>5. ASSUME NEW i \in 1 .. Len(events'), ToldLast(i)' PROVE events'[i] = state'
  <2>1. i = n + 1
    BY <1>1, <1>3, <1>5 DEF ToldLast
  <2> QED
    BY <1>2, <1>3, <2>1
<1>6. events' \in Seq(States \cup {"ScanDone"})
  BY <1>1, <1>2
<1> QED
  BY <1>2, <1>4, <1>5, <1>6 DEF QueueInv

\* The steps that tell a state.
Telling == \E s \in States : Notify(s)

LEMMA WhoTells ==
    ASSUME WindowTypeOK,
           \/ StartsSession \/ StartsScan \/ StopReturns \/ WorkerBegins
           \/ WorkerConnects \/ WorkerReconnects \/ WorkerLosesLink
           \/ WorkerFails \/ WorkerTells \/ WorkerCrashes
           \/ ScanTells \/ ScanFails \/ ScanCrashes
    PROVE  Telling
<1>1. state \in States /\ scanSeen \in States
  BY DEF WindowTypeOK
<1>2. /\ "Idle" \in States /\ "Connecting" \in States /\ "Streaming" \in States
      /\ "Reconnecting" \in States /\ "Error" \in States
  BY DEF States
<1> QED
  BY <1>1, <1>2 DEF Telling, StartsSession, StartStream, StartsScan, OnScanClick,
     StopReturns, WorkerBegins, WorkerConnects, WorkerReconnects,
     WorkerLosesLink, WorkerFails, WorkerTells, WorkerCrashes, ScanTells,
     ScanFails, ScanCrashes

\* The other steps leave queue, state and card alone.
LEMMA WhoIsSilent ==
    ASSUME \/ IgnoredStart \/ StopStream \/ LaunchesIdle \/ IgnoredScan
           \/ OnDeviceSelectionChanged \/ StartJoins \/ WorkerStops
           \/ WorkerClears \/ WorkerEnds \/ LoopThrows \/ CrashClears
           \/ ScanLoads \/ UNCHANGED windowVars
    PROVE  /\ UNCHANGED <<events, state, card>>
           /\ \/ refused'
              \/ UNCHANGED <<refused, isStreaming, scanEnabled>>
<1> USE DEF controlVars, historyVars, scanVars
<1>1. CASE IgnoredStart \/ IgnoredScan
  BY <1>1 DEF IgnoredStart, StartStream, IgnoredScan, OnScanClick
<1>2. CASE \/ StopStream \/ LaunchesIdle \/ OnDeviceSelectionChanged
           \/ StartJoins \/ UNCHANGED windowVars
  BY <1>2 DEF StopStream, LaunchesIdle, OnDeviceSelectionChanged, StartJoins,
              windowVars
<1>3. CASE \/ WorkerStops \/ WorkerClears \/ WorkerEnds \/ LoopThrows
           \/ CrashClears \/ ScanLoads
  BY <1>3 DEF WorkerStops, WorkerClears, WorkerEnds, WorkerStep, LoopThrows,
              CrashClears, ScanLoads
<1> QED
  BY <1>1, <1>2, <1>3

\* What the dispatcher does with the head of the queue.
LEMMA Handled ==
    ASSUME WindowTypeOK, HandleEvent
    PROVE  /\ events # <<>> /\ events' = Tail(events)
           /\ Len(events') = Len(events) - 1 /\ Len(events) \in Nat \ {0}
           /\ \A i \in 1 .. Len(events') : events'[i] = events[i + 1]
           /\ events' \in Seq(States \cup {"ScanDone"})
           /\ events[1] \in States \cup {"ScanDone"}
           /\ IF events[1] = "ScanDone" THEN ScanShown ELSE UpdateUI(events[1])
           /\ UNCHANGED <<state, refused>>
<1>1. /\ events \in Seq(States \cup {"ScanDone"}) /\ events # <<>>
      /\ events' = Tail(events) /\ UNCHANGED <<state, refused>>
      /\ IF Head(events) = "ScanDone" THEN ScanShown ELSE UpdateUI(Head(events))
  BY DEF HandleEvent, WindowTypeOK, historyVars
<1>2. Head(events) = events[1] /\ events[1] \in States \cup {"ScanDone"}
  BY <1>1
<1> QED
  BY <1>1, <1>2

\* What UpdateUI() makes of a state.
LEMMA Updated ==
    ASSUME NEW e \in States, UpdateUI(e), WindowTypeOK
    PROVE  /\ card' = e /\ UNCHANGED <<hasSelected, listed, lastKnown>>
           /\ e = "Streaming" => isStreaming' = TRUE
           /\ e \in {"Idle", "Error"} =>
                 isStreaming' = FALSE /\ scanEnabled' = TRUE
           /\ isStreaming' \in BOOLEAN /\ scanEnabled' \in BOOLEAN
           /\ connectEnabled' \in BOOLEAN
<1>1. card' = e /\ UNCHANGED <<hasSelected, listed, lastKnown>>
  BY DEF UpdateUI, UpdateStatusCard
<1>2. scanEnabled' = (e \in {"Idle", "Error"})
  BY DEF UpdateUI
<1>3. isStreaming' = CASE e = "Streaming" -> TRUE
                       [] e \in {"Idle", "Error"} -> FALSE
                       [] OTHER -> isStreaming
  BY DEF UpdateUI
<1>4. connectEnabled' =
          CASE e \in {"Connecting", "Reconnecting"} -> FALSE
            [] e = "Streaming" -> TRUE
            [] e = "Error" -> connectEnabled \/ hasSelected
            [] OTHER -> connectEnabled
  BY DEF UpdateUI
<1>5. connectEnabled \in BOOLEAN /\ isStreaming \in BOOLEAN
  BY Flags
<1>6. CASE e = "Streaming"
  BY <1>1, <1>2, <1>3, <1>4, <1>6
<1>7. CASE e = "Idle"
  BY <1>1, <1>2, <1>3, <1>4, <1>5, <1>7
<1>8. CASE e = "Error"
  BY <1>1, <1>2, <1>3, <1>4, <1>5, <1>8
<1>9. CASE e = "Connecting"
  BY <1>1, <1>2, <1>3, <1>4, <1>5, <1>9
<1>10. CASE e = "Reconnecting"
  BY <1>1, <1>2, <1>3, <1>4, <1>5, <1>10
<1> QED
  BY <1>6, <1>7, <1>8, <1>9, <1>10 DEF States

-----------------------------------------------------------------------------
(* Every step keeps the invariant.                                         *)

LEMMA NextWindowTypeOK ==
    ASSUME WindowTypeOK, [WindowNext]_windowVars
    PROVE  WindowTypeOK'
<1> USE Flags DEF controlVars, historyVars, scanVars
<1> SUFFICES /\ ui' \in {"launching", "idle", "joining", "stopping"}
             /\ events' \in Seq(States \cup {"ScanDone"})
             /\ isStreaming' \in BOOLEAN /\ scanEnabled' \in BOOLEAN
             /\ connectEnabled' \in BOOLEAN /\ hasSelected' \in BOOLEAN
             /\ listed' \in BOOLEAN /\ lastKnown' \in BOOLEAN
             /\ running' \in BOOLEAN /\ stopReq' \in BOOLEAN
             /\ refused' \in BOOLEAN /\ overlap' \in BOOLEAN
             /\ threw' \in BOOLEAN /\ unguarded' \in BOOLEAN
             /\ card' \in States /\ state' \in States /\ worker' \in Workers
             /\ scan' \in Scans /\ scanSeen' \in States
  BY DEF WindowTypeOK
<1>a. /\ events \in Seq(States \cup {"ScanDone"})
      /\ ui \in {"launching", "idle", "joining", "stopping"}
      /\ card \in States /\ state \in States /\ worker \in Workers
      /\ scan \in Scans /\ scanSeen \in States
  BY DEF WindowTypeOK
<1>b. Telling => state' \in States /\ events' \in Seq(States \cup {"ScanDone"})
  BY Tells DEF Telling
<1>1. CASE StartsSession
  <2>1. Telling
    BY <1>1, WhoTells
  <2>2. threw' \in BOOLEAN /\ overlap' \in BOOLEAN
    BY <1>1 DEF StartsSession, StartStream, StillThrown
  <2> QED
    BY <1>1, <1>a, <1>b, <2>1, <2>2 DEF StartsSession, StartStream
<1>2. CASE IgnoredStart
  BY <1>2, <1>a DEF IgnoredStart, StartStream
<1>3. CASE StopStream
  BY <1>3, <1>a DEF StopStream
<1>4. CASE LaunchesIdle
  BY <1>4, <1>a DEF LaunchesIdle
<1>5. CASE StartsScan
  <2>1. Telling
    BY <1>5, WhoTells
  <2> QED
    BY <1>5, <1>a, <1>b, <2>1 DEF StartsScan, OnScanClick, Scans
<1>6. CASE IgnoredScan
  BY <1>6, <1>a DEF IgnoredScan, OnScanClick
<1>7. CASE OnDeviceSelectionChanged
  BY <1>7, <1>a DEF OnDeviceSelectionChanged
<1>8. CASE StartJoins
  BY <1>8, <1>a DEF StartJoins, Workers
<1>9. CASE StopReturns
  <2>1. Telling
    BY <1>9, WhoTells
  <2>2. threw' \in BOOLEAN /\ unguarded' \in BOOLEAN
    BY <1>9 DEF StopReturns, StillThrown
  <2> QED
    BY <1>9, <1>a, <1>b, <2>1, <2>2 DEF StopReturns
<1>10. CASE HandleEvent
  <2>1. /\ events' \in Seq(States \cup {"ScanDone"})
        /\ events[1] \in States \cup {"ScanDone"}
        /\ IF events[1] = "ScanDone" THEN ScanShown ELSE UpdateUI(events[1])
    BY <1>10, Handled
  <2>2. UNCHANGED <<ui, state, running, stopReq, worker, scanVars, historyVars>>
    BY <1>10 DEF HandleEvent
  <2>3. CASE events[1] = "ScanDone"
    <3>1. /\ scanEnabled' = TRUE /\ listed' \in {listed, TRUE}
          /\ UNCHANGED <<isStreaming, connectEnabled, hasSelected, lastKnown, card>>
      BY <2>1, <2>3 DEF ScanShown
    <3>2. listed' \in BOOLEAN
      BY <3>1
    <3> QED
      BY <1>a, <2>1, <2>2, <3>1, <3>2
  <2>4. CASE events[1] \in States
    <3>1. UpdateUI(events[1])
      BY <2>1, <2>4 DEF States
    <3>2. /\ card' \in States /\ UNCHANGED <<hasSelected, listed, lastKnown>>
          /\ isStreaming' \in BOOLEAN /\ scanEnabled' \in BOOLEAN
          /\ connectEnabled' \in BOOLEAN
      BY <2>4, <3>1, Updated
    <3> QED
      BY <1>a, <2>1, <2>2, <3>2
  <2> QED
    BY <2>1, <2>3, <2>4
<1>11. CASE \/ WorkerBegins \/ WorkerConnects \/ WorkerReconnects
            \/ WorkerLosesLink \/ WorkerFails \/ WorkerTells \/ WorkerCrashes
  <2>1. Telling
    BY <1>11, WhoTells
  <2>2. worker' \in Workers
    BY <1>11 DEF WorkerBegins, WorkerConnects, WorkerReconnects, WorkerLosesLink,
                 WorkerFails, WorkerTells, WorkerCrashes, WorkerStep, Workers
  <2>3. UNCHANGED <<ui, controlVars, running, stopReq, scanVars, historyVars>>
    BY <1>11 DEF WorkerBegins, WorkerConnects, WorkerReconnects, WorkerLosesLink,
                 WorkerFails, WorkerTells, WorkerCrashes, WorkerStep
  <2> QED
    BY <1>a, <1>b, <2>1, <2>2, <2>3
<1>12. CASE WorkerStops \/ WorkerClears \/ WorkerEnds \/ LoopThrows \/ CrashClears
  <2>1. worker' \in Workers
    BY <1>12 DEF WorkerStops, WorkerClears, WorkerEnds, LoopThrows, CrashClears,
                 WorkerStep, Workers
  <2>2. UNCHANGED <<ui, events, card, state, scan, scanSeen>>
    BY <1>12 DEF WorkerStops, WorkerClears, WorkerEnds, LoopThrows, CrashClears,
                 WorkerStep
  <2>3. UNCHANGED <<isStreaming, scanEnabled, connectEnabled, hasSelected, listed,
                    lastKnown, stopReq, refused, overlap>>
    BY <1>12 DEF WorkerStops, WorkerClears, WorkerEnds, LoopThrows, CrashClears,
                 WorkerStep
  <2>4. /\ running' = running \/ running' = FALSE
        /\ threw' = threw \/ threw' = TRUE
        /\ unguarded' = unguarded \/ unguarded' = (unguarded \/ ui = "joining")
    BY <1>12 DEF WorkerStops, WorkerClears, WorkerEnds, LoopThrows, CrashClears,
                 WorkerStep
  <2>5. running' \in BOOLEAN /\ threw' \in BOOLEAN /\ unguarded' \in BOOLEAN
    BY <2>4
  <2> QED
    BY <1>a, <2>1, <2>2, <2>3, <2>5
<1>13. CASE ScanLoads
  BY <1>13, <1>a DEF ScanLoads, Scans
<1>14. CASE ScanTells \/ ScanFails \/ ScanCrashes
  <2>1. Telling
    BY <1>14, WhoTells
  <2> QED
    BY <1>14, <1>a, <1>b, <2>1 DEF ScanTells, ScanFails, ScanCrashes, Scans
<1>15. CASE ScanCompletes
  BY <1>15, <1>a DEF ScanCompletes, Scans
<1>16. CASE UNCHANGED windowVars
  BY <1>16, <1>a DEF windowVars
<1> QED
  BY <1>1, <1>2, <1>3, <1>4, <1>5, <1>6, <1>7, <1>8, <1>9, <1>10, <1>11, <1>12,
     <1>13, <1>14, <1>15, <1>16, WindowSteps

\* Once all is told, the window shows the service's state.
LEMMA NextShown ==
    ASSUME WindowTypeOK, QueueInv, ButtonsInv, [WindowNext]_windowVars
    PROVE  (QueueInv /\ ButtonsInv)'
<1>1. CASE Telling
  BY <1>1, Tells DEF Telling, ButtonsInv
<1>2. CASE \/ IgnoredStart \/ StopStream \/ LaunchesIdle \/ IgnoredScan
           \/ OnDeviceSelectionChanged \/ StartJoins \/ WorkerStops
           \/ WorkerClears \/ WorkerEnds \/ LoopThrows \/ CrashClears
           \/ ScanLoads \/ UNCHANGED windowVars
  <2>1. /\ UNCHANGED <<events, state, card>>
        /\ \/ refused'
           \/ UNCHANGED <<refused, isStreaming, scanEnabled>>
    BY <1>2, WhoIsSilent
  <2>2. QueueInv' /\ AllTold' = AllTold
    BY <2>1 DEF QueueInv, AllTold, ToldLast
  <2> QED
    BY <2>1, <2>2, Flags DEF ButtonsInv
<1>3. CASE ScanCompletes
  <2> DEFINE n == Len(events)
  <2>1. /\ events \in Seq(States \cup {"ScanDone"}) /\ n \in Nat
        /\ events' = Append(events, "ScanDone")
        /\ UNCHANGED <<state, card, refused, isStreaming, scanEnabled>>
    BY <1>3 DEF ScanCompletes, WindowTypeOK, controlVars, historyVars
  <2>2. /\ Len(events') = n + 1 /\ events'[n + 1] = "ScanDone"
        /\ \A i \in 1 .. n : events'[i] = events[i]
    BY <2>1
  <2>3. ASSUME NEW i \in 1 .. n + 1, ToldLast(i)' PROVE events'[i] = state'
    <3>1. i \in 1 .. n /\ ToldLast(i)
      BY <2>1, <2>2, <2>3 DEF ToldLast
    <3> QED
      BY <2>1, <2>2, <3>1 DEF QueueInv
  <2>4. AllTold' => AllTold
    BY <2>1, <2>2 DEF AllTold
  <2> QED
    BY <2>1, <2>2, <2>3, <2>4 DEF QueueInv, ButtonsInv
<1>4. CASE HandleEvent
  <2> DEFINE n == Len(events)
  <2>1. /\ Len(events') = n - 1 /\ n \in Nat \ {0}
        /\ \A i \in 1 .. n - 1 : events'[i] = events[i + 1]
        /\ events[1] \in States \cup {"ScanDone"}
        /\ IF events[1] = "ScanDone" THEN ScanShown ELSE UpdateUI(events[1])
        /\ UNCHANGED <<state, refused>>
    BY <1>4, Handled
  <2>2. ASSUME NEW i \in 1 .. n - 1, ToldLast(i)' PROVE events'[i] = state'
    <3>1. i + 1 \in 1 .. n /\ events[i + 1] # "ScanDone"
      BY <2>1, <2>2 DEF ToldLast
    <3>2. ASSUME NEW j \in 1 .. n, j > i + 1 PROVE events[j] = "ScanDone"
      <4>1. j - 1 \in 1 .. n - 1 /\ j - 1 > i /\ (j - 1) + 1 = j
        BY <2>1, <3>2
      <4>2. events'[j - 1] = "ScanDone"
        BY <2>1, <2>2, <4>1 DEF ToldLast
      <4> QED
        BY <2>1, <4>1, <4>2
    <3>3. ToldLast(i + 1)
      BY <3>1, <3>2 DEF ToldLast
    <3> QED
      BY <2>1, <3>1, <3>3 DEF QueueInv
  <2>3. ASSUME AllTold' PROVE \A j \in 1 .. n : j > 1 => events[j] = "ScanDone"
    <3> SUFFICES ASSUME NEW j \in 1 .. n, j > 1 PROVE events[j] = "ScanDone"
      OBVIOUS
    <3>1. j - 1 \in 1 .. n - 1 /\ (j - 1) + 1 = j
      BY <2>1
    <3>2. events'[j - 1] = "ScanDone"
      BY <2>1, <2>3, <3>1 DEF AllTold
    <3> QED
      BY <2>1, <3>1, <3>2
  <2>4. CASE events[1] = "ScanDone"
    <3>1. AllTold' => AllTold
      BY <2>1, <2>3, <2>4 DEF AllTold
    <3>2. /\ UNCHANGED <<card, isStreaming>>
          /\ scanEnabled' = TRUE
      BY <2>1, <2>4 DEF ScanShown
    <3> QED
      BY <2>1, <2>2, <3>1, <3>2 DEF QueueInv, ButtonsInv
  <2>5. CASE events[1] # "ScanDone"
    <3>1. UpdateUI(events[1]) /\ events[1] \in States
      BY <2>1, <2>5
    <3>2. AllTold' => ToldLast(1)
      BY <2>1, <2>3, <2>5 DEF ToldLast
    <3>3. AllTold' => events[1] = state'
      BY <2>1, <3>2 DEF QueueInv
    <3>4. /\ card' = events[1]
          /\ events[1] = "Streaming" => isStreaming' = TRUE
          /\ events[1] \in {"Idle", "Error"} =>
                isStreaming' = FALSE /\ scanEnabled' = TRUE
      BY <3>1, Updated
    <3> QED
      BY <2>1, <2>2, <3>3, <3>4 DEF QueueInv, ButtonsInv
  <2> QED
    BY <2>4, <2>5
<1> QED
  BY <1>1, <1>2, <1>3, <1>4, WhoTells, WindowSteps

\* running_ stays set while the worker works, and a stop is waited for.
LEMMA NextRunningInv ==
    ASSUME WindowTypeOK, RunningInv, [WindowNext]_windowVars
    PROVE  RunningInv'
<1> USE Flags DEF RunningInv, AtWork, controlVars, historyVars, scanVars
<1>a. worker \in AtWork \cup {"ending", "telling", "crashed", "none"}
  BY DEF WindowTypeOK, Workers
<1>1. CASE StartsSession
  BY <1>1, <1>a DEF StartsSession, StartStream, StillThrown
<1>2. CASE IgnoredStart
  BY <1>2 DEF IgnoredStart, StartStream
<1>3. CASE ui = "idle" /\ StopStream
  BY <1>3 DEF StopStream
<1>4. CASE LaunchesIdle \/ OnDeviceSelectionChanged
  BY <1>4 DEF LaunchesIdle, OnDeviceSelectionChanged
<1>5. CASE StartsScan \/ IgnoredScan
  BY <1>5 DEF StartsScan, IgnoredScan, OnScanClick
<1>6. CASE StartJoins
  BY <1>6 DEF StartJoins
<1>7. CASE StopReturns
  BY <1>7 DEF StopReturns
<1>8. CASE HandleEvent
  BY <1>8 DEF HandleEvent
<1>9. CASE WorkerBegins \/ WorkerConnects \/ WorkerReconnects
  BY <1>9 DEF WorkerBegins, WorkerConnects, WorkerReconnects, WorkerStep
<1>10. CASE WorkerLosesLink \/ WorkerFails \/ WorkerStops
  BY <1>10 DEF WorkerLosesLink, WorkerFails, WorkerStops, WorkerStep
<1>11. CASE WorkerClears \/ WorkerEnds \/ WorkerTells
  BY <1>11, <1>a DEF WorkerClears, WorkerEnds, WorkerTells, WorkerStep
<1>14. CASE LoopThrows \/ WorkerCrashes \/ CrashClears
  BY <1>14, <1>a DEF LoopThrows, WorkerCrashes, CrashClears
<1>12. CASE ScanLoads \/ ScanTells \/ ScanFails \/ ScanCompletes \/ ScanCrashes
  BY <1>12 DEF ScanLoads, ScanTells, ScanFails, ScanCompletes, ScanCrashes
<1>13. CASE UNCHANGED windowVars
  BY <1>13 DEF windowVars
<1> QED
  BY <1>1, <1>2, <1>3, <1>4, <1>5, <1>6, <1>7, <1>8, <1>9, <1>10, <1>11, <1>12,
     <1>13, <1>14, WindowSteps

\* The state goes on telling where the worker is.
LEMMA NextStateInv ==
    ASSUME WindowTypeOK, RunningInv, StateInv, [WindowNext]_windowVars
    PROVE  StateInv'
<1> USE Flags DEF StateInv, RunningInv, AtWork, controlVars, historyVars, scanVars
<1>a. worker \in AtWork \cup {"ending", "telling", "crashed", "none"}
  BY DEF WindowTypeOK, Workers
<1>1. CASE StartsSession
  BY <1>1, <1>a DEF StartsSession, StartStream, StillThrown, Notify
<1>2. CASE IgnoredStart
  BY <1>2 DEF IgnoredStart, StartStream
<1>3. CASE ui = "idle" /\ StopStream
  BY <1>3 DEF StopStream
<1>4. CASE LaunchesIdle \/ OnDeviceSelectionChanged
  BY <1>4 DEF LaunchesIdle, OnDeviceSelectionChanged
<1>5. CASE StartsScan \/ IgnoredScan
  BY <1>5 DEF StartsScan, IgnoredScan, OnScanClick, Notify
<1>6. CASE StartJoins
  BY <1>6 DEF StartJoins
<1>7. CASE StopReturns
  BY <1>7 DEF StopReturns, StillThrown, Notify
<1>8. CASE HandleEvent
  BY <1>8 DEF HandleEvent
<1>9. CASE WorkerBegins \/ WorkerConnects \/ WorkerReconnects
  BY <1>9 DEF WorkerBegins, WorkerConnects, WorkerReconnects, WorkerStep, Notify
<1>10. CASE WorkerLosesLink \/ WorkerFails \/ WorkerStops
  BY <1>10 DEF WorkerLosesLink, WorkerFails, WorkerStops, WorkerStep, Notify
<1>11. CASE WorkerClears \/ WorkerEnds \/ WorkerTells
  BY <1>11, <1>a DEF WorkerClears, WorkerEnds, WorkerTells, WorkerStep, Notify
<1>14. CASE LoopThrows \/ WorkerCrashes \/ CrashClears
  BY <1>14, <1>a DEF LoopThrows, WorkerCrashes, CrashClears, Notify
<1>12. CASE ScanLoads \/ ScanTells \/ ScanFails \/ ScanCompletes \/ ScanCrashes
  BY <1>12 DEF ScanLoads, ScanTells, ScanFails, ScanCompletes, ScanCrashes, Notify
<1>13. CASE UNCHANGED windowVars
  BY <1>13 DEF windowVars
<1> QED
  BY <1>1, <1>2, <1>3, <1>4, <1>5, <1>6, <1>7, <1>8, <1>9, <1>10, <1>11, <1>12,
     <1>13, <1>14, WindowSteps

\* The inductive invariant.
WindowInv == WindowTypeOK /\ QueueInv /\ ButtonsInv /\ RunningInv /\ StateInv

LEMMA WindowInductive == WindowSpec => []WindowInv
<1>1. WindowInit => WindowInv
  <2> SUFFICES ASSUME WindowInit PROVE WindowInv
    OBVIOUS
  <2>1. Len(events) = 0
    BY DEF WindowInit
  <2>2. QueueInv /\ ButtonsInv
    BY <2>1 DEF WindowInit, QueueInv, ButtonsInv
  <2>3. WindowTypeOK
    <3>1. /\ events \in Seq(States \cup {"ScanDone"})
          /\ card \in States /\ state \in States /\ scanSeen \in States
          /\ worker \in Workers /\ scan \in Scans
          /\ ui \in {"launching", "idle", "joining", "stopping"}
      BY DEF WindowInit, States, Workers, Scans
    <3>2. {isStreaming, scanEnabled, connectEnabled, hasSelected, listed,
           lastKnown, running, stopReq, refused, overlap, threw,
           unguarded} \subseteq BOOLEAN
      BY DEF WindowInit
    <3> QED
      BY <3>1, <3>2 DEF WindowTypeOK
  <2>4. RunningInv /\ StateInv
    BY DEF WindowInit, RunningInv, StateInv, AtWork
  <2> QED
    BY <2>2, <2>3, <2>4 DEF WindowInv
<1>2. WindowInv /\ [WindowNext]_windowVars => WindowInv'
  BY NextWindowTypeOK, NextShown, NextRunningInv, NextStateInv DEF WindowInv
<1> QED
  BY <1>1, <1>2, PTL DEF WindowSpec

\* Whenever its queue is empty the window tells the truth about the session,
\* for every length of the queue (UpdateUI(), UpdateStatusCard(),
\* OnScanClick() of MainWindow.xaml.cpp).
THEOREM WindowIsTruthful == WindowSpec => []WindowTruthful
<1>1. WindowInv => WindowTruthful
  <2> SUFFICES ASSUME WindowInv PROVE WindowTruthful
    OBVIOUS
  <2>1. Quiet => AllTold /\ ~refused /\ ~overlap /\ ~threw /\ ~unguarded /\ ui = "idle"
    BY DEF Quiet, AllTold, Misled
  <2>2. Quiet /\ worker = "none" /\ scan = "none" =>
            ~isStreaming /\ scanEnabled /\ card \in {"Idle", "Error"}
    <3>1. Quiet /\ worker = "none" => state \in {"Idle", "Error"}
      BY <2>1 DEF WindowInv, RunningInv, StateInv, AtWork
    <3> QED
      BY <2>1, <3>1 DEF WindowInv, QueueInv, ButtonsInv
  <2>3. Quiet /\ worker = "streaming" =>
            isStreaming /\ card = "Streaming"
    <3>1. Quiet /\ worker = "streaming" => state = "Streaming"
      BY <2>1 DEF WindowInv, StateInv
    <3> QED
      BY <2>1, <3>1 DEF WindowInv, QueueInv, ButtonsInv
  <2> QED
    BY <2>2, <2>3 DEF WindowInv, WindowTruthful
<1> QED
  BY <1>1, WindowInductive, PTL
===============================================================================
