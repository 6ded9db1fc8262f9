-------------------------- MODULE LinkLayerProofs --------------------------
(***************************************************************************)
(* One station: the invariants of LinkLayer hold for every number of       *)
(* retries and of segments.  They support each other: a buffer is free     *)
(* because its role is not in a transmit-wait state, a role is in one      *)
(* exactly while its frame is queued, and a state that reads the segments  *)
(* has some.  Two stations: TransportPair implements OrderedDelivery.  The *)
(* moves of the sender and of the receiver are stated first, one lemma per *)
(* entry point, then what they keep true of the frames on the line.        *)
(***************************************************************************)
EXTENDS LinkLayer, TransportPair, SequenceTheorems, TLAPS

NeedsSegments == PriStates \ {"Idle", "RequestLinkStatusTransmitWait", "RequestLinkStatusWait"}

\* One frame of each role at most is queued, and only in its wait states.
PriQueued(l) ==
    /\ l.pri \in PriTransmitWait <=> (l.txMode = "Primary" \/ l.pendingPri # NoFrame)
    /\ l.txMode = "Primary" => l.pendingPri = NoFrame

SecQueued(l) ==
    /\ l.sec \in SecTransmitWait <=> (l.txMode = "Secondary" \/ l.pendingSec # NoFrame)
    /\ l.txMode = "Secondary" => l.pendingSec = NoFrame

PriWaits(l) ==
    /\ l.rspTimer <=> l.pri \in PriResponseWait
    /\ l.pri \in NeedsSegments => l.segments # <<>>

GoodLink(l) ==
    /\ l \in LinkType
    /\ ~l.overwrote
    /\ PriQueued(l)
    /\ SecQueued(l)
    /\ PriWaits(l)

\* The primary station may queue a frame or become idle.
Ready(l) ==
    /\ l \in LinkType
    /\ ~l.overwrote
    /\ SecQueued(l)
    /\ ~l.rspTimer
    /\ l.txMode # "Primary"
    /\ l.pendingPri = NoFrame

\* What an entry point does to the send operation: nothing, or one result.
SameSend(l, m) ==
    /\ m.isOnline = l.isOnline
    /\ m.segments = <<>> <=> l.segments = <<>>
    /\ m.results = l.results

EndsSend(l, m) ==
    /\ m.isOnline = l.isOnline
    /\ l.segments # <<>>
    /\ m.segments = <<>>
    /\ \E r \in BOOLEAN : m.results = Append(l.results, r)

Outcome(l, m) == SameSend(l, m) \/ EndsSend(l, m)

USE DEF PriTransmitWait, PriResponseWait, PriStates, SecTransmitWait, SecStates, NeedsSegments

----------------------------------------------------------------------------
\* The frames that the station formats are frames.
LEMMA FrameTypes ==
    /\ Ack \in AnyFrame /\ LinkStatus \in AnyFrame
    /\ ResetLinks \in AnyFrame /\ RequestLinkStatus \in AnyFrame
BY DEF AnyFrame, SecFunctions, PriFunctions, Ack, LinkStatus, ResetLinks, RequestLinkStatus, Frame

\* The sequences of a station grow within their types.
LEMMA AppendTypes ==
    ASSUME NEW l \in LinkType, NEW f \in AnyFrame, NEW d \in Nat, NEW r \in BOOLEAN
    PROVE  /\ Append(l.sent, f) \in Seq(AnyFrame)
           /\ Append(l.up, d) \in Seq(Nat)
           /\ Append(l.results, r) \in Seq(BOOLEAN)
<1>1. l.sent \in Seq(AnyFrame) /\ l.up \in Seq(Nat) /\ l.results \in Seq(BOOLEAN)
  BY DEF LinkType
<1> QED
  BY <1>1

\* Giving a frame to the router leaves a station a station.
LEMMA BeginTransmitType ==
    ASSUME NEW l \in LinkType, NEW f \in AnyFrame, NEW mode \in {"Primary", "Secondary"}
    PROVE  BeginTransmit(l, f, mode) \in LinkType
<1>1. Append(l.sent, f) \in Seq(AnyFrame)
  BY AppendTypes
<1> QED
  BY <1>1 DEF BeginTransmit, LinkType

\* A station whose state or pending frame is replaced is still a station.
LEMMA StateTypes ==
    ASSUME NEW l \in LinkType, NEW f \in AnyFrame
    PROVE  /\ \A s \in PriStates : Pri(l, s) \in LinkType
           /\ \A s \in SecStates : Sec(l, s) \in LinkType
           /\ [l EXCEPT !.pendingPri = f] \in LinkType
           /\ [l EXCEPT !.pendingSec = f] \in LinkType
<1>1. ASSUME NEW s \in PriStates PROVE Pri(l, s) \in LinkType
  BY DEF Pri, LinkType
<1>2. ASSUME NEW s \in SecStates PROVE Sec(l, s) \in LinkType
  BY DEF Sec, LinkType
<1>3. [l EXCEPT !.pendingPri = f] \in LinkType /\ [l EXCEPT !.pendingSec = f] \in LinkType
  BY DEF LinkType
<1> QED
  BY <1>1, <1>2, <1>3

\* A role without a queued frame formats its buffer safely.
LEMMA QueueFree ==
    ASSUME NEW l \in LinkType, NEW f \in AnyFrame, ~l.overwrote
    PROVE  /\ l.txMode # "Primary" /\ l.pendingPri = NoFrame
                => QueuePrimary(l, f) = IF l.txMode = "Idle" THEN BeginTransmit(l, f, "Primary")
                                                             ELSE [l EXCEPT !.pendingPri = f]
           /\ l.txMode # "Secondary" /\ l.pendingSec = NoFrame
                => QueueSecondary(l, f) = IF l.txMode = "Idle" THEN BeginTransmit(l, f, "Secondary")
                                                               ELSE [l EXCEPT !.pendingSec = f]
<1>1. ASSUME l.txMode # "Primary", l.pendingPri = NoFrame
      PROVE  [l EXCEPT !.overwrote = l.overwrote \/ (l.txMode = "Primary" \/ l.pendingPri # NoFrame)] = l
  BY <1>1 DEF LinkType
<1>2. ASSUME l.txMode # "Secondary", l.pendingSec = NoFrame
      PROVE  [l EXCEPT !.overwrote = l.overwrote \/ (l.txMode = "Secondary" \/ l.pendingSec # NoFrame)] = l
  BY <1>2 DEF LinkType
<1> QED
  BY <1>1, <1>2 DEF QueuePrimary, QueueSecondary

\* A primary station without a queued frame and without a running timer may
\* queue one: its buffer is free.
LEMMA QueuePriGood ==
    ASSUME NEW l, Ready(l), NEW f \in AnyFrame, NEW s \in PriTransmitWait,
           s \in NeedsSegments => l.segments # <<>>
    PROVE  /\ GoodLink(Pri(QueuePrimary(l, f), s))
           /\ SameSend(l, Pri(QueuePrimary(l, f), s))
<1> DEFINE m == Pri(QueuePrimary(l, f), s)
<1>0. l \in LinkType /\ ~l.overwrote /\ l.txMode # "Primary" /\ l.pendingPri = NoFrame
  BY DEF Ready
<1>1. CASE l.txMode = "Idle"
  <2>1. m = Pri(BeginTransmit(l, f, "Primary"), s)
    BY <1>0, <1>1, QueueFree
  <2>2. BeginTransmit(l, f, "Primary") \in LinkType
    BY <1>0, BeginTransmitType
  <2>3. m \in LinkType
    BY <2>1, <2>2, StateTypes
  <2>4. ~m.overwrote /\ PriQueued(m) /\ SecQueued(m) /\ PriWaits(m) /\ SameSend(l, m)
    BY <1>0, <1>1, <2>1 DEF Ready, LinkType, Pri, BeginTransmit, PriQueued, SecQueued, PriWaits, SameSend
  <2> QED
    BY <2>3, <2>4 DEF GoodLink
<1>2. CASE l.txMode # "Idle"
  <2>1. m = Pri([l EXCEPT !.pendingPri = f], s)
    BY <1>0, <1>2, QueueFree
  <2>2. m \in LinkType
    BY <1>0, <2>1, StateTypes
  <2>3. ~m.overwrote /\ PriQueued(m) /\ SecQueued(m) /\ PriWaits(m) /\ SameSend(l, m)
    BY <1>0, <1>2, <2>1, NoFrameAssumption
       DEF Ready, LinkType, Pri, PriQueued, SecQueued, PriWaits, SameSend
  <2> QED
    BY <2>2, <2>3 DEF GoodLink
<1> QED
  BY <1>1, <1>2

\* The same for a secondary station.
LEMMA QueueSecGood ==
    ASSUME NEW l, GoodLink(l), NEW f \in AnyFrame, NEW s \in SecTransmitWait,
           l.sec \notin SecTransmitWait
    PROVE  /\ GoodLink(Sec(QueueSecondary(l, f), s))
           /\ SameSend(l, Sec(QueueSecondary(l, f), s))
<1> DEFINE m == Sec(QueueSecondary(l, f), s)
<1>0. l \in LinkType /\ ~l.overwrote /\ l.txMode # "Secondary" /\ l.pendingSec = NoFrame
  BY DEF GoodLink, SecQueued
<1>1. CASE l.txMode = "Idle"
  <2>1. m = Sec(BeginTransmit(l, f, "Secondary"), s)
    BY <1>0, <1>1, QueueFree
  <2>2. BeginTransmit(l, f, "Secondary") \in LinkType
    BY <1>0, BeginTransmitType
  <2>3. m \in LinkType
    BY <2>1, <2>2, StateTypes
  <2>4. ~m.overwrote /\ PriQueued(m) /\ SecQueued(m) /\ PriWaits(m) /\ SameSend(l, m)
    BY <1>0, <1>1, <2>1, ZenonT(30) DEF GoodLink, LinkType, Sec, BeginTransmit, PriQueued, SecQueued, PriWaits, SameSend
  <2> QED
    BY <2>3, <2>4 DEF GoodLink
<1>2. CASE l.txMode # "Idle"
  <2>1. m = Sec([l EXCEPT !.pendingSec = f], s)
    BY <1>0, <1>2, QueueFree
  <2>2. m \in LinkType
    BY <1>0, <2>1, StateTypes
  <2>3. ~m.overwrote /\ PriQueued(m) /\ SecQueued(m) /\ PriWaits(m) /\ SameSend(l, m)
    BY <1>0, <1>2, <2>1, NoFrameAssumption, ZenonT(30)
       DEF GoodLink, LinkType, Sec, PriQueued, SecQueued, PriWaits, SameSend
  <2> QED
    BY <2>2, <2>3 DEF GoodLink
<1> QED
  BY <1>1, <1>2

----------------------------------------------------------------------------
\* Ways to become ready, and updates that leave the station ready.
LEMMA GoodIsReady ==
    ASSUME NEW l, GoodLink(l), l.pri \notin PriTransmitWait
    PROVE  /\ l.pri \notin PriResponseWait => Ready(l)
           /\ Ready(CancelTimer(l)) /\ SameSend(l, CancelTimer(l))
<1>1. CancelTimer(l) \in LinkType
  BY DEF GoodLink, CancelTimer, LinkType
<1> QED
  BY <1>1 DEF GoodLink, Ready, CancelTimer, PriQueued, SecQueued, PriWaits, LinkType, SameSend

\* Updates that leave the station ready and its send operation alone.
LEMMA ReadyUpdates ==
    ASSUME NEW l, Ready(l)
    PROVE  /\ LET m == [l EXCEPT !.keepAliveTimeout = FALSE] IN Ready(m) /\ SameSend(l, m)
           /\ Ready(ResetRetry(l)) /\ SameSend(l, ResetRetry(l))
           /\ l.numRetry > 0 => Ready(Retry(l)) /\ SameSend(l, Retry(l))
           /\ \A t \in Seq(Nat) \ {<<>>} : l.segments # <<>> =>
                LET m == [l EXCEPT !.segments = t]
                IN  Ready(m) /\ SameSend(l, m) /\ m.segments = t
<1>1. [l EXCEPT !.keepAliveTimeout = FALSE] \in LinkType
  BY ZenonT(30) DEF Ready, LinkType
<1>2. ResetRetry(l) \in LinkType
  BY LinkAssumption DEF Ready, LinkType, ResetRetry
<1>3. l.numRetry > 0 => Retry(l) \in LinkType
  <2>1. \A n \in Nat : [l EXCEPT !.numRetry = n] \in LinkType
    BY DEF Ready, LinkType
  <2>2. l.numRetry > 0 => l.numRetry - 1 \in Nat
    BY DEF Ready, LinkType
  <2> QED
    BY <2>1, <2>2 DEF Retry
<1>4. \A t \in Seq(Nat) : [l EXCEPT !.segments = t] \in LinkType
  BY DEF Ready, LinkType
<1>5. LET m == [l EXCEPT !.keepAliveTimeout = FALSE] IN Ready(m) /\ SameSend(l, m)
  BY <1>1 DEF Ready, SecQueued, SameSend, LinkType
<1>6. Ready(ResetRetry(l)) /\ SameSend(l, ResetRetry(l))
  BY <1>2 DEF Ready, SecQueued, SameSend, LinkType, ResetRetry
<1>7. l.numRetry > 0 => Ready(Retry(l)) /\ SameSend(l, Retry(l))
  BY <1>3 DEF Ready, SecQueued, SameSend, LinkType, Retry
<1>8. ASSUME NEW t \in Seq(Nat) \ {<<>>}, l.segments # <<>>
      PROVE  LET m == [l EXCEPT !.segments = t]
             IN  Ready(m) /\ SameSend(l, m) /\ m.segments = t
  BY <1>4, <1>8 DEF Ready, SecQueued, SameSend, LinkType
<1> QED
  BY <1>5, <1>6, <1>7, <1>8

\* From a ready station: send a segment, complete the send, wait, be idle.
LEMMA SendSegmentGood ==
    ASSUME NEW l, Ready(l), l.segments # <<>>, NEW c \in BOOLEAN, NEW s \in PriTransmitWait
    PROVE  /\ GoodLink(Pri(SendSegment(l, c), s))
           /\ SameSend(l, Pri(SendSegment(l, c), s))
<1>1. Head(l.segments) \in Nat /\ l.nextWriteFCB \in BOOLEAN
  BY DEF Ready, LinkType
<1>2. /\ Frame("PRI_CONFIRMED_USER_DATA", l.nextWriteFCB, Head(l.segments)) \in AnyFrame
      /\ Frame("PRI_UNCONFIRMED_USER_DATA", FALSE, Head(l.segments)) \in AnyFrame
  BY <1>1 DEF AnyFrame, PriFunctions, Frame
<1> QED
  BY <1>2, QueuePriGood DEF SendSegment

\* Completing the send operation ends it with one result.
LEMMA CompleteGood ==
    ASSUME NEW l, Ready(l), l.segments # <<>>, NEW r \in BOOLEAN
    PROVE  /\ GoodLink(CompleteSendOperation(l, r))
           /\ EndsSend(l, CompleteSendOperation(l, r))
<1> DEFINE m == CompleteSendOperation(l, r)
<1>1. l \in LinkType /\ <<>> \in Seq(Nat)
  BY DEF Ready
<1>2. Append(l.results, r) \in Seq(BOOLEAN)
  BY <1>1, AppendTypes, FrameTypes
<1>3. [l EXCEPT !.segments = <<>>, !.results = Append(@, r)] \in LinkType
  BY <1>1, <1>2 DEF LinkType
<1>4. m \in LinkType
  BY <1>3, StateTypes, FrameTypes DEF CompleteSendOperation
<1>5. ~m.overwrote /\ PriQueued(m) /\ SecQueued(m) /\ PriWaits(m)
  BY DEF CompleteSendOperation, Pri, Ready, LinkType, PriQueued, SecQueued, PriWaits
<1>6. EndsSend(l, m)
  BY DEF CompleteSendOperation, Pri, Ready, LinkType, EndsSend
<1> QED
  BY <1>4, <1>5, <1>6 DEF GoodLink

\* A ready station may become idle.
LEMMA IdleGood ==
    ASSUME NEW l, Ready(l)
    PROVE  GoodLink(Pri(l, "Idle")) /\ SameSend(l, Pri(l, "Idle"))
<1>1. Pri(l, "Idle") \in LinkType
  BY StateTypes, FrameTypes DEF Ready
<1> QED
  BY <1>1 DEF Pri, Ready, GoodLink, LinkType, PriQueued, SecQueued, PriWaits, SameSend

\* A ready station may start the timer and wait for a response.
LEMMA WaitGood ==
    ASSUME NEW l, Ready(l), NEW s \in PriResponseWait, s \in NeedsSegments => l.segments # <<>>
    PROVE  GoodLink(Pri(StartTimer(l), s)) /\ SameSend(l, Pri(StartTimer(l), s))
<1>1. StartTimer(l) \in LinkType
  BY DEF Ready, StartTimer, LinkType
<1>2. Pri(StartTimer(l), s) \in LinkType
  BY <1>1, StateTypes, FrameTypes
<1> QED
  BY <1>2 DEF Pri, StartTimer, Ready, GoodLink, LinkType, PriQueued, SecQueued, PriWaits, SameSend

\* Advancing past a segment that is not the last leaves segments.
LEMMA TailType ==
    ASSUME NEW s \in Seq(Nat), Len(s) > 1
    PROVE  Tail(s) \in Seq(Nat) \ {<<>>}
<1>1. s # <<>>
  OBVIOUS
<1>2. Tail(s) \in Seq(Nat) /\ Len(Tail(s)) = Len(s) - 1
  BY <1>1
<1> QED
  BY <1>2, SMTT(30)

\* What entry points do to the send operation composes.
LEMMA SameSendTrans ==
    ASSUME NEW l, NEW m, NEW n, SameSend(l, m)
    PROVE  /\ SameSend(m, n) => SameSend(l, n)
           /\ EndsSend(m, n) => EndsSend(l, n)
BY DEF SameSend, EndsSend

\* A send that ended stays ended.
LEMMA EndsSendTrans ==
    ASSUME NEW l, NEW m, NEW n, EndsSend(l, m), SameSend(m, n)
    PROVE  EndsSend(l, n)
BY DEF SameSend, EndsSend

----------------------------------------------------------------------------
\* TryStartTransmission keeps a good station good and no send ends in it.
LEMMA ProbeGood ==
    ASSUME NEW l, GoodLink(l)
    PROVE  GoodLink(TrySendRequestLinkStatus(l)) /\ SameSend(l, TrySendRequestLinkStatus(l))
<1> DEFINE k == [l EXCEPT !.keepAliveTimeout = FALSE]
<1>1. CASE l.pri = "Idle"
  <2>1. Ready(l)
    BY <1>1, GoodIsReady
  <2>2. Ready(k) /\ SameSend(l, k)
    BY <2>1, ReadyUpdates
  <2> HIDE DEF k
  <2>3. LET m == Pri(QueuePrimary(k, RequestLinkStatus), "RequestLinkStatusTransmitWait")
        IN  GoodLink(m) /\ SameSend(k, m)
    BY <2>2, QueuePriGood, FrameTypes
  <2> QED
    BY <1>1, <2>2, <2>3, SameSendTrans DEF TrySendRequestLinkStatus, k
<1>2. CASE l.pri # "Idle"
  BY <1>2 DEF TrySendRequestLinkStatus, SameSend
<1> QED
  BY <1>1, <1>2

\* The two ways to start the send of the segments.
LEMMA TrySendGood ==
    ASSUME NEW l, GoodLink(l), l.segments # <<>>
    PROVE  /\ GoodLink(TrySendConfirmed(l)) /\ SameSend(l, TrySendConfirmed(l))
           /\ GoodLink(TrySendUnconfirmed(l)) /\ SameSend(l, TrySendUnconfirmed(l))
<1>1. CASE l.pri = "Idle"
  <2>1. Ready(l)
    BY <1>1, GoodIsReady
  <2> DEFINE k == ResetRetry(l)
             data == Pri(SendSegment(k, TRUE), "ConfUserDataTransmitWait")
             reset == Pri(QueuePrimary(k, ResetLinks), "LinkResetTransmitWait")
  <2>2. Ready(k) /\ SameSend(l, k) /\ k.segments # <<>>
    BY <2>1, ReadyUpdates DEF SameSend
  <2> HIDE DEF k
  <2>3. GoodLink(data) /\ SameSend(k, data)
    BY <2>2, SendSegmentGood
  <2>4. GoodLink(reset) /\ SameSend(k, reset)
    BY <2>2, QueuePriGood, FrameTypes
  <2>5. LET m == Pri(SendSegment(l, FALSE), "SendUnconfirmedTransmitWait")
        IN  GoodLink(m) /\ SameSend(l, m)
    BY <2>1, SendSegmentGood
  <2>6. SameSend(l, data) /\ SameSend(l, reset)
    BY <2>2, <2>3, <2>4, SameSendTrans
  <2>7. TrySendConfirmed(l) \in {data, reset}
    BY <1>1 DEF TrySendConfirmed, k
  <2> QED
    BY <1>1, <2>3, <2>4, <2>5, <2>6, <2>7 DEF TrySendUnconfirmed
<1>2. CASE l.pri # "Idle"
  BY <1>2 DEF TrySendConfirmed, TrySendUnconfirmed, SameSend
<1> QED
  BY <1>1, <1>2

\* Both parts of TryStartTransmission together.
LEMMA TryStartGood ==
    ASSUME NEW l, GoodLink(l)
    PROVE  GoodLink(TryStartTransmission(l)) /\ SameSend(l, TryStartTransmission(l))
<1> DEFINE p == IF l.keepAliveTimeout THEN TrySendRequestLinkStatus(l) ELSE l
<1>1. GoodLink(p) /\ SameSend(l, p)
  BY ProbeGood DEF SameSend
<1> HIDE DEF p
<1>2. CASE p.segments = <<>>
  BY <1>1, <1>2 DEF TryStartTransmission, p
<1>3. CASE p.segments # <<>>
  <2>1. /\ GoodLink(TrySendConfirmed(p)) /\ SameSend(l, TrySendConfirmed(p))
        /\ GoodLink(TrySendUnconfirmed(p)) /\ SameSend(l, TrySendUnconfirmed(p))
    BY <1>1, <1>3, TrySendGood, SameSendTrans
  <2> QED
    BY <1>3, <2>1 DEF TryStartTransmission, p
<1> QED
  BY <1>2, <1>3

----------------------------------------------------------------------------
\* The handlers of the primary station.
LEMMA PriTransmitResultGood ==
    ASSUME NEW l, Ready(l), l.pri \in PriTransmitWait, NEW success \in BOOLEAN,
           l.pri \in NeedsSegments => l.segments # <<>>
    PROVE  /\ GoodLink(PriOnTransmitResult(l, success))
           /\ Outcome(l, PriOnTransmitResult(l, success))
<1>1. CASE l.pri = "SendUnconfirmedTransmitWait"
  <2>0. l.segments # <<>> /\ l.segments \in Seq(Nat)
    BY <1>1 DEF Ready, LinkType
  <2>1. CASE Len(l.segments) > 1
    <3> DEFINE t == [l EXCEPT !.segments = Tail(@)]
               m == SendSegment(t, FALSE)
    <3>1. Tail(l.segments) \in Seq(Nat) \ {<<>>}
      BY <2>0, <2>1, TailType
    <3>2. Ready(t) /\ SameSend(l, t) /\ t.segments # <<>>
      BY <2>0, <3>1, ReadyUpdates
    <3>3. GoodLink(Pri(m, l.pri)) /\ SameSend(t, Pri(m, l.pri))
      BY <1>1, <3>2, SendSegmentGood
    <3>4. Pri(m, l.pri) = m
      BY DEF Ready, LinkType, Pri, SendSegment, QueuePrimary, BeginTransmit
    <3>5. PriOnTransmitResult(l, success) = m
      BY <1>1, <2>1 DEF PriOnTransmitResult
    <3> HIDE DEF t, m
    <3> QED
      BY <3>2, <3>3, <3>4, <3>5, SameSendTrans DEF Outcome
  <2>2. CASE ~(Len(l.segments) > 1)
    BY <1>1, <2>0, <2>2, CompleteGood DEF PriOnTransmitResult, Outcome
  <2> QED
    BY <2>1, <2>2
<1>2. CASE l.pri = "LinkResetTransmitWait"
  BY <1>2, WaitGood, CompleteGood DEF PriOnTransmitResult, Outcome
<1>3. CASE l.pri = "ConfUserDataTransmitWait"
  BY <1>3, WaitGood, CompleteGood DEF PriOnTransmitResult, Outcome
<1>4. CASE l.pri = "RequestLinkStatusTransmitWait"
  BY <1>4, WaitGood, IdleGood DEF PriOnTransmitResult, Outcome
<1> QED
  BY <1>1, <1>2, <1>3, <1>4

\* A negative answer ends the send.
LEMMA FailGood ==
    ASSUME NEW l, GoodLink(l), l.pri \in {"ResetLinkWait", "ConfDataWait"}
    PROVE  GoodLink(Fail(l)) /\ EndsSend(l, Fail(l))
<1> DEFINE k == CancelTimer(l)
<1>1. Ready(k) /\ SameSend(l, k) /\ k.segments # <<>>
  BY GoodIsReady DEF GoodLink, PriWaits, SameSend
<1> HIDE DEF k
<1>2. GoodLink(CompleteSendOperation(k, FALSE)) /\ EndsSend(k, CompleteSendOperation(k, FALSE))
  BY <1>1, CompleteGood
<1> QED
  BY <1>1, <1>2, SameSendTrans DEF Fail, k

\* An ACK starts the data, advances to the next segment or ends the send.
LEMMA OnAckGood ==
    ASSUME NEW l, GoodLink(l)
    PROVE  GoodLink(OnAck(l)) /\ Outcome(l, OnAck(l))
<1>1. CASE l.pri = "ResetLinkWait"
  <2> DEFINE r == [l EXCEPT !.isRemoteReset = TRUE, !.nextWriteFCB = TRUE]
             k == CancelTimer(r)
             m == Pri(SendSegment(k, TRUE), "ConfUserDataTransmitWait")
  <2>1. r \in LinkType
    BY DEF GoodLink, LinkType
  <2>2. GoodLink(r) /\ r.pri = l.pri /\ SameSend(l, r)
    BY <2>1 DEF GoodLink, LinkType, PriQueued, SecQueued, PriWaits, SameSend
  <2> HIDE DEF r
  <2>3. Ready(k) /\ SameSend(r, k)
    BY <1>1, <2>2, GoodIsReady
  <2> HIDE DEF k
  <2>4. SameSend(l, k) /\ k.segments # <<>>
    BY <1>1, <2>2, <2>3, SameSendTrans DEF GoodLink, PriWaits, SameSend
  <2>5. GoodLink(m) /\ SameSend(k, m)
    BY <2>3, <2>4, SendSegmentGood
  <2>6. OnAck(l) = m
    BY <1>1 DEF OnAck, k, r
  <2> HIDE DEF m
  <2> QED
    BY <2>4, <2>5, <2>6, SameSendTrans DEF Outcome
<1>2. CASE l.pri = "ConfDataWait"
  <2> DEFINE r == [l EXCEPT !.nextWriteFCB = ~@]
             k == CancelTimer(r)
  <2>1. r \in LinkType
    <3>1. \A bit \in BOOLEAN : [l EXCEPT !.nextWriteFCB = bit] \in LinkType
      BY DEF GoodLink, LinkType
    <3>2. (~l.nextWriteFCB) \in BOOLEAN
      OBVIOUS
    <3> QED
      BY <3>1, <3>2
  <2>2. GoodLink(r) /\ r.pri = l.pri /\ SameSend(l, r)
    BY <2>1 DEF GoodLink, LinkType, PriQueued, SecQueued, PriWaits, SameSend
  <2> HIDE DEF r
  <2>3. Ready(k) /\ SameSend(r, k)
    BY <1>2, <2>2, GoodIsReady
  <2> HIDE DEF k
  <2>4. SameSend(l, k) /\ k.segments # <<>> /\ k.segments \in Seq(Nat)
    BY <1>2, <2>2, <2>3, SameSendTrans DEF GoodLink, PriWaits, SameSend, Ready, LinkType
  <2>5. CASE Len(k.segments) > 1
    <3> DEFINE t == [k EXCEPT !.segments = Tail(@)]
               m == Pri(SendSegment(t, TRUE), "ConfUserDataTransmitWait")
    <3>1. Ready(t) /\ SameSend(k, t) /\ t.segments # <<>>
      BY <2>3, <2>4, <2>5, TailType, ReadyUpdates
    <3>2. OnAck(l) = m
      BY <1>2, <2>5 DEF OnAck, k, r
    <3> HIDE DEF t
    <3>3. GoodLink(m) /\ SameSend(t, m)
      BY <3>1, SendSegmentGood
    <3> HIDE DEF m
    <3> QED
      BY <2>4, <3>1, <3>2, <3>3, SameSendTrans DEF Outcome
  <2>6. CASE ~(Len(k.segments) > 1)
    <3>1. OnAck(l) = CompleteSendOperation(k, TRUE)
      BY <1>2, <2>6 DEF OnAck, k, r
    <3> QED
      BY <2>3, <2>4, <3>1, CompleteGood, SameSendTrans DEF Outcome
  <2> QED
    BY <2>5, <2>6
<1>3. CASE l.pri \notin {"ResetLinkWait", "ConfDataWait"}
  BY <1>3 DEF OnAck, Outcome, SameSend
<1> QED
  BY <1>1, <1>2, <1>3

\* A keep-alive that was answered, or will not be, leaves the station idle.
LEMMA KeepAliveEndsGood ==
    ASSUME NEW l, GoodLink(l), l.pri = "RequestLinkStatusWait"
    PROVE  /\ GoodLink(Pri(CancelTimer(l), "Idle"))
           /\ SameSend(l, Pri(CancelTimer(l), "Idle"))
<1> DEFINE k == CancelTimer(l)
<1>1. Ready(k) /\ SameSend(l, k)
  BY GoodIsReady
<1> HIDE DEF k
<1>2. GoodLink(Pri(k, "Idle")) /\ SameSend(k, Pri(k, "Idle"))
  BY <1>1, IdleGood
<1> QED
  BY <1>1, <1>2, SameSendTrans DEF k

\* A NACK ends the send or resets the link again.
LEMMA OnNackGood ==
    ASSUME NEW l, GoodLink(l), NEW full \in BOOLEAN
    PROVE  GoodLink(OnNack(l, full)) /\ Outcome(l, OnNack(l, full))
<1>1. CASE l.pri = "ResetLinkWait"
  BY <1>1, FailGood DEF OnNack, Outcome
<1>7. CASE l.pri = "ConfDataWait" /\ full
  BY <1>7, FailGood DEF OnNack, Outcome
<1>2. CASE l.pri = "ConfDataWait" /\ ~full
  <2> DEFINE r == ResetRetry(l)
             k == CancelTimer(r)
             m == Pri(QueuePrimary(k, ResetLinks), "LinkResetTransmitWait")
  <2>1. r \in LinkType
    BY LinkAssumption DEF GoodLink, LinkType, ResetRetry
  <2>2. GoodLink(r) /\ r.pri = l.pri /\ SameSend(l, r)
    BY <2>1 DEF GoodLink, LinkType, PriQueued, SecQueued, PriWaits, SameSend, ResetRetry
  <2> HIDE DEF r
  <2>3. Ready(k) /\ SameSend(r, k)
    BY <1>2, <2>2, GoodIsReady
  <2> HIDE DEF k
  <2>4. SameSend(l, k) /\ k.segments # <<>>
    BY <1>2, <2>2, <2>3, SameSendTrans DEF GoodLink, PriWaits, SameSend
  <2>5. GoodLink(m) /\ SameSend(k, m)
    BY <2>3, <2>4, QueuePriGood, FrameTypes
  <2>6. OnNack(l, full) = m
    BY <1>2 DEF OnNack, k, r
  <2> HIDE DEF m
  <2> QED
    BY <2>4, <2>5, <2>6, SameSendTrans DEF Outcome
<1>3. CASE l.pri = "RequestLinkStatusWait"
  BY <1>3, KeepAliveEndsGood DEF OnNack, Outcome
<1>4. CASE l.pri \notin PriResponseWait
  BY <1>4 DEF OnNack, Outcome, SameSend
<1>5. l.pri \in PriStates
  BY DEF GoodLink, LinkType
<1>6. CASE l.pri = "ConfDataWait"
  BY <1>2, <1>6, <1>7, Zenon
<1> QED
  BY <1>1, <1>3, <1>4, <1>5, <1>6

\* LINK_STATUS and NOT_SUPPORTED answer a keep-alive or end the send.
LEMMA OnOtherResponseGood ==
    ASSUME NEW l, GoodLink(l)
    PROVE  GoodLink(OnOtherResponse(l)) /\ Outcome(l, OnOtherResponse(l))
<1>1. CASE l.pri \in {"ResetLinkWait", "ConfDataWait"}
  BY <1>1, FailGood DEF OnOtherResponse, Outcome
<1>2. CASE l.pri = "RequestLinkStatusWait"
  BY <1>2, KeepAliveEndsGood DEF OnOtherResponse, Outcome
<1>3. CASE l.pri \notin PriResponseWait
  BY <1>3 DEF OnOtherResponse, Outcome, SameSend
<1> QED
  BY <1>1, <1>2, <1>3

\* A timeout retries or ends the send.
LEMMA PriTimeoutGood ==
    ASSUME NEW l, GoodLink(l), l.pri \in PriResponseWait
    PROVE  LET m == PriOnTimeout(CancelTimer(l)) IN GoodLink(m) /\ Outcome(l, m)
<1> DEFINE k == CancelTimer(l)
           r == Retry(k)
           reset == Pri(QueuePrimary(r, ResetLinks), "LinkResetTransmitWait")
           data  == Pri(SendSegment(r, TRUE), "ConfUserDataTransmitWait")
<1>1. k.pri = l.pri
  BY DEF CancelTimer, GoodLink, LinkType
<1>2. Ready(k) /\ SameSend(l, k)
  BY GoodIsReady
<1> HIDE DEF k
<1>3. CASE l.pri = "RequestLinkStatusWait"
  <2>1. GoodLink(Pri(k, "Idle")) /\ SameSend(k, Pri(k, "Idle"))
    BY <1>2, IdleGood
  <2>2. PriOnTimeout(k) = Pri(k, "Idle")
    BY <1>1, <1>3 DEF PriOnTimeout
  <2> QED
    BY <1>2, <2>1, <2>2, SameSendTrans DEF Outcome, k
<1>4. CASE l.pri # "RequestLinkStatusWait"
  <2>1. k.segments # <<>>
    BY <1>2, <1>4 DEF GoodLink, PriWaits, SameSend
  <2>2. CASE k.numRetry > 0
    <3>1. Ready(r) /\ SameSend(k, r)
      BY <1>2, <2>2, ReadyUpdates
    <3>2. PriOnTimeout(k) \in {reset, data}
      BY <1>1, <1>4, <2>2 DEF PriOnTimeout, CanRetry
    <3> HIDE DEF r
    <3>3. SameSend(l, r) /\ r.segments # <<>>
      BY <1>2, <2>1, <3>1, SameSendTrans DEF SameSend
    <3>4. GoodLink(reset) /\ SameSend(r, reset)
      BY <3>1, <3>3, QueuePriGood, FrameTypes
    <3>5. GoodLink(data) /\ SameSend(r, data)
      BY <3>1, <3>3, SendSegmentGood
    <3> HIDE DEF reset, data
    <3>6. SameSend(l, reset) /\ SameSend(l, data)
      BY <3>3, <3>4, <3>5, SameSendTrans
    <3> QED
      BY <3>2, <3>4, <3>5, <3>6 DEF Outcome, k
  <2>3. CASE ~(k.numRetry > 0)
    <3>1. PriOnTimeout(k) = CompleteSendOperation(k, FALSE)
      BY <1>1, <1>4, <2>3 DEF PriOnTimeout, CanRetry
    <3>2. GoodLink(CompleteSendOperation(k, FALSE)) /\ EndsSend(k, CompleteSendOperation(k, FALSE))
      BY <1>2, <2>1, CompleteGood
    <3> QED
      BY <1>2, <3>1, <3>2, SameSendTrans DEF Outcome, k
  <2> QED
    BY <2>2, <2>3
<1> QED
  BY <1>3, <1>4

----------------------------------------------------------------------------
\* The handlers of the secondary station.
LEMMA ReadFCBGood ==
    ASSUME NEW l, GoodLink(l), NEW bit \in BOOLEAN
    PROVE  LET m == [l EXCEPT !.nextReadFCB = bit] IN GoodLink(m) /\ SameSend(l, m)
<1>1. [l EXCEPT !.nextReadFCB = bit] \in LinkType
  BY DEF GoodLink, LinkType
<1> QED
  BY <1>1 DEF GoodLink, LinkType, PriQueued, SecQueued, PriWaits, SameSend

\* Pushing data up changes nothing else.
LEMMA PushGood ==
    ASSUME NEW l, GoodLink(l), NEW d \in Nat
    PROVE  GoodLink(PushDataUp(l, d)) /\ SameSend(l, PushDataUp(l, d))
<1>1. Append(l.up, d) \in Seq(Nat)
  BY AppendTypes, FrameTypes DEF GoodLink
<1>2. PushDataUp(l, d) \in LinkType
  BY <1>1 DEF GoodLink, LinkType, PushDataUp
<1> QED
  BY <1>2 DEF GoodLink, LinkType, PriQueued, SecQueued, PriWaits, SameSend, PushDataUp

\* The order of these updates does not matter.
LEMMA SecUpdates ==
    ASSUME NEW l \in LinkType, NEW f \in AnyFrame, NEW s, NEW bit, NEW d
    PROVE  LET q == QueueSecondary(l, f)
           IN  /\ Sec([q EXCEPT !.nextReadFCB = bit], s) = [Sec(q, s) EXCEPT !.nextReadFCB = bit]
               /\ Sec(PushDataUp([q EXCEPT !.nextReadFCB = bit], d), s)
                    = PushDataUp([Sec(q, s) EXCEPT !.nextReadFCB = bit], d)
               /\ q.nextReadFCB = l.nextReadFCB
BY ZenonT(30) DEF QueueSecondary, BeginTransmit, Sec, PushDataUp, LinkType

\* Every request is ignored or answered from a free buffer.
LEMMA SecHandlersGood ==
    ASSUME NEW l, GoodLink(l), NEW fcb \in BOOLEAN, NEW d \in Nat
    PROVE  /\ GoodLink(OnResetLinkStates(l)) /\ SameSend(l, OnResetLinkStates(l))
           /\ GoodLink(OnRequestLinkStatus(l)) /\ SameSend(l, OnRequestLinkStatus(l))
           /\ GoodLink(OnTestLinkStatus(l, fcb)) /\ SameSend(l, OnTestLinkStatus(l, fcb))
           /\ GoodLink(OnConfirmedUserData(l, fcb, d)) /\ SameSend(l, OnConfirmedUserData(l, fcb, d))
<1>0. l \in LinkType /\ SameSend(l, l)
  BY DEF GoodLink, SameSend
<1>1. CASE l.sec \in SecTransmitWait
  BY <1>0, <1>1 DEF OnResetLinkStates, OnRequestLinkStatus, OnTestLinkStatus, OnConfirmedUserData
<1>2. CASE l.sec \notin SecTransmitWait
  <2> DEFINE q == QueueSecondary(l, Ack)
             w == Sec(q, "TransmitWaitReset")
             on == [w EXCEPT !.nextReadFCB = TRUE]
             toggled == [w EXCEPT !.nextReadFCB = ~l.nextReadFCB]
             pushed == PushDataUp(toggled, d)
  <2>1. GoodLink(w) /\ SameSend(l, w)
    BY <1>2, QueueSecGood, FrameTypes
  <2>2. (~l.nextReadFCB) \in BOOLEAN
    OBVIOUS
  <2>3. /\ Sec([q EXCEPT !.nextReadFCB = TRUE], "TransmitWaitReset") = on
        /\ Sec([q EXCEPT !.nextReadFCB = ~@], "TransmitWaitReset") = toggled
        /\ Sec(PushDataUp([q EXCEPT !.nextReadFCB = ~@], d), "TransmitWaitReset") = pushed
    <3>1. Ack \in AnyFrame
      BY FrameTypes
    <3>2. q.nextReadFCB = l.nextReadFCB
      BY <1>0, <3>1, SecUpdates
    <3>3. Sec([q EXCEPT !.nextReadFCB = TRUE], "TransmitWaitReset") = on
      <4>1. \A bit : Sec([q EXCEPT !.nextReadFCB = bit], "TransmitWaitReset")
                        = [w EXCEPT !.nextReadFCB = bit]
        BY <1>0, <3>1, SecUpdates
      <4> HIDE DEF q, w
      <4> QED
        BY <4>1, Zenon
    <3>4. Sec([q EXCEPT !.nextReadFCB = ~l.nextReadFCB], "TransmitWaitReset") = toggled
      BY <1>0, <3>1, SecUpdates
    <3>5. Sec(PushDataUp([q EXCEPT !.nextReadFCB = ~l.nextReadFCB], d), "TransmitWaitReset") = pushed
      BY <1>0, <3>1, SecUpdates
    <3> QED
      BY <3>2, <3>3, <3>4, <3>5
  <2>4. \A s \in SecTransmitWait :
            LET m == Sec(QueueSecondary(l, LinkStatus), s) IN GoodLink(m) /\ SameSend(l, m)
    BY <1>2, QueueSecGood, FrameTypes
  <2>5. GoodLink(OnRequestLinkStatus(l)) /\ SameSend(l, OnRequestLinkStatus(l))
    BY <1>2, <2>4 DEF OnRequestLinkStatus
  <2>6. OnResetLinkStates(l) = on
    BY <1>2, <2>3 DEF OnResetLinkStates
  <2>7. OnTestLinkStatus(l, fcb) \in {l, toggled}
    BY <2>3 DEF OnTestLinkStatus
  <2>8. OnConfirmedUserData(l, fcb, d) \in {l, w, pushed}
    BY <2>3 DEF OnConfirmedUserData
  <2> HIDE DEF w
  <2>9. GoodLink(on) /\ SameSend(w, on)
    BY <2>1, ReadFCBGood
  <2>10. GoodLink(toggled) /\ SameSend(w, toggled)
    BY <2>1, <2>2, ReadFCBGood
  <2> HIDE DEF toggled
  <2>11. GoodLink(pushed) /\ SameSend(toggled, pushed)
    BY <2>10, PushGood
  <2> HIDE DEF pushed, on
  <2>12. SameSend(l, on) /\ SameSend(l, toggled)
    BY <2>1, <2>9, <2>10, SameSendTrans
  <2>13. SameSend(l, pushed)
    BY <2>11, <2>12, SameSendTrans
  <2> QED
    BY <1>0, <2>1, <2>5, <2>6, <2>7, <2>8, <2>9, <2>10, <2>11, <2>12, <2>13
<1> QED
  BY <1>1, <1>2

\* A frame goes to one handler.
LEMMA DispatchGood ==
    ASSUME NEW l, GoodLink(l), NEW f \in AnyFrame
    PROVE  GoodLink(Dispatch(l, f)) /\ Outcome(l, Dispatch(l, f))
<1>1. f.fcb \in BOOLEAN /\ f.data \in Nat /\ f.func \in SecFunctions \cup PriFunctions
  BY DEF AnyFrame
<1>2. CASE f.func \in SecFunctions
  <2>1. GoodLink(OnNack(l, f.fcb)) /\ Outcome(l, OnNack(l, f.fcb))
    BY <1>1, OnNackGood
  <2> QED
    BY <1>2, <2>1, OnAckGood, OnOtherResponseGood DEF Dispatch, SecFunctions
<1>3. CASE f.func \in PriFunctions
  <2>1. /\ GoodLink(OnResetLinkStates(l)) /\ SameSend(l, OnResetLinkStates(l))
        /\ GoodLink(OnRequestLinkStatus(l)) /\ SameSend(l, OnRequestLinkStatus(l))
        /\ GoodLink(OnTestLinkStatus(l, f.fcb)) /\ SameSend(l, OnTestLinkStatus(l, f.fcb))
        /\ GoodLink(OnConfirmedUserData(l, f.fcb, f.data))
        /\ SameSend(l, OnConfirmedUserData(l, f.fcb, f.data))
    BY <1>1, SecHandlersGood
  <2>2. GoodLink(PushDataUp(l, f.data)) /\ SameSend(l, PushDataUp(l, f.data))
    BY <1>1, PushGood
  <2> QED
    BY <1>3, <2>1, <2>2 DEF Dispatch, PriFunctions, Outcome
<1> QED
  BY <1>1, <1>2, <1>3

----------------------------------------------------------------------------
\* The entry points.
LEMMA FreshGood ==
    ASSUME NEW l, GoodLink(l)
    PROVE  /\ GoodLink(Fresh(l))
           /\ Fresh(l) = [l EXCEPT !.sent = <<>>, !.up = <<>>, !.results = <<>>]
           /\ Fresh(l).results = <<>> /\ Fresh(l).segments = l.segments
           /\ Fresh(l).isOnline = l.isOnline /\ Fresh(l).txMode = l.txMode
           /\ Fresh(l).pri = l.pri
<1>1. <<>> \in Seq(AnyFrame) /\ <<>> \in Seq(Nat) /\ <<>> \in Seq(BOOLEAN)
  OBVIOUS
<1>2. Fresh(l) \in LinkType
  BY <1>1 DEF GoodLink, Fresh, LinkType
<1> QED
  BY <1>2 DEF GoodLink, Fresh, LinkType, PriQueued, SecQueued, PriWaits

\* An update of these fields leaves a station a station.
LEMMA FieldTypes ==
    ASSUME NEW l \in LinkType
    PROVE  /\ \A x \in BOOLEAN : [l EXCEPT !.isOnline = x] \in LinkType
           /\ \A x \in Seq(Nat) : [l EXCEPT !.segments = x] \in LinkType
           /\ [l EXCEPT !.keepAliveTimeout = TRUE] \in LinkType
           /\ [l EXCEPT !.txMode = "Idle"] \in LinkType
           /\ [l EXCEPT !.pendingPri = NoFrame] \in LinkType
           /\ [l EXCEPT !.pendingSec = NoFrame] \in LinkType
<1>1. ASSUME NEW x \in BOOLEAN PROVE [l EXCEPT !.isOnline = x] \in LinkType
  BY DEF LinkType
<1>2. ASSUME NEW x \in Seq(Nat) PROVE [l EXCEPT !.segments = x] \in LinkType
  BY DEF LinkType
<1>3. [l EXCEPT !.keepAliveTimeout = TRUE] \in LinkType
  BY DEF LinkType
<1>4. [l EXCEPT !.txMode = "Idle"] \in LinkType
  BY DEF LinkType
<1>5. [l EXCEPT !.pendingPri = NoFrame] \in LinkType
  BY DEF LinkType
<1>6. [l EXCEPT !.pendingSec = NoFrame] \in LinkType
  BY DEF LinkType
<1> QED
  BY <1>1, <1>2, <1>3, <1>4, <1>5, <1>6

\* Send: the new segments are the ones the station works on.
LEMMA SendGood ==
    ASSUME NEW l, GoodLink(l), l.isOnline, l.segments = <<>>, NEW t \in Seq(Nat), t # <<>>
    PROVE  /\ GoodLink(Send(l, t))
           /\ Send(l, t).isOnline /\ Send(l, t).segments # <<>> /\ Send(l, t).results = <<>>
<1> DEFINE k == [Fresh(l) EXCEPT !.segments = t]
<1>1. k \in LinkType
  BY FreshGood, FieldTypes DEF GoodLink
<1>2. GoodLink(k) /\ k.isOnline = l.isOnline /\ k.segments = t /\ k.results = <<>>
  BY <1>1 DEF GoodLink, Fresh, LinkType, PriQueued, SecQueued, PriWaits
<1>3. Send(l, t) = TryStartTransmission(k)
  BY DEF Send
<1> HIDE DEF k
<1>4. GoodLink(TryStartTransmission(k)) /\ SameSend(k, TryStartTransmission(k))
  BY <1>2, TryStartGood
<1> QED
  BY <1>2, <1>3, <1>4 DEF SameSend

\* An entry point that ends with TryStartTransmission.
LEMMA ThenTryStart ==
    ASSUME NEW l, NEW m, GoodLink(m), Outcome(l, m)
    PROVE  GoodLink(TryStartTransmission(m)) /\ Outcome(l, TryStartTransmission(m))
<1>1. GoodLink(TryStartTransmission(m)) /\ SameSend(m, TryStartTransmission(m))
  BY TryStartGood
<1> QED
  BY <1>1, SameSendTrans, EndsSendTrans DEF Outcome

\* A frame of the peer, the response timer and the keep-alive timer.
LEMMA FrameGood ==
    ASSUME NEW l, GoodLink(l), l.isOnline, NEW f \in AnyFrame
    PROVE  GoodLink(OnFrame(l, f)) /\ Outcome(Fresh(l), OnFrame(l, f))
<1>1. GoodLink(Fresh(l))
  BY FreshGood
<1>2. GoodLink(Dispatch(Fresh(l), f)) /\ Outcome(Fresh(l), Dispatch(Fresh(l), f))
  BY <1>1, DispatchGood
<1> QED
  BY <1>2, ThenTryStart DEF OnFrame

\* The response timer fires.
LEMMA ResponseTimeoutGood ==
    ASSUME NEW l, GoodLink(l), l.rspTimer
    PROVE  GoodLink(ResponseTimeout(l)) /\ Outcome(Fresh(l), ResponseTimeout(l))
<1>1. GoodLink(Fresh(l)) /\ Fresh(l).pri \in PriResponseWait
  BY FreshGood DEF GoodLink, PriWaits
<1>2. LET m == PriOnTimeout(CancelTimer(Fresh(l))) IN GoodLink(m) /\ Outcome(Fresh(l), m)
  BY <1>1, PriTimeoutGood
<1> QED
  BY <1>2, ThenTryStart DEF ResponseTimeout

\* The keep-alive timer fires.
LEMMA KeepAliveGood ==
    ASSUME NEW l, GoodLink(l), NEW idle \in BOOLEAN
    PROVE  GoodLink(KeepAliveTimeout(l, idle)) /\ Outcome(Fresh(l), KeepAliveTimeout(l, idle))
<1> DEFINE k == Fresh(l)
           p == [k EXCEPT !.keepAliveTimeout = TRUE]
<1>1. GoodLink(k)
  BY FreshGood
<1>2. KeepAliveTimeout(l, idle) \in {TryStartTransmission(p), TryStartTransmission(k)}
  BY DEF KeepAliveTimeout
<1> HIDE DEF k
<1>3. p \in LinkType
  BY <1>1, FieldTypes DEF GoodLink
<1>4. GoodLink(p) /\ Outcome(k, p) /\ Outcome(k, k)
  BY <1>1, <1>3 DEF GoodLink, LinkType, PriQueued, SecQueued, PriWaits, SameSend, Outcome
<1> HIDE DEF p
<1>5. GoodLink(TryStartTransmission(p)) /\ Outcome(k, TryStartTransmission(p))
  BY <1>4, ThenTryStart
<1>6. GoodLink(TryStartTransmission(k)) /\ Outcome(k, TryStartTransmission(k))
  BY <1>1, <1>4, ThenTryStart
<1> QED
  BY <1>2, <1>5, <1>6 DEF k

\* The router has written a frame: the pending one, if any, follows at once,
\* and the role whose frame it was goes on from its transmit-wait state.
LEMMA TransmitResultGood ==
    ASSUME NEW l, GoodLink(l), l.txMode # "Idle", NEW success \in BOOLEAN
    PROVE  /\ GoodLink(TransmitResult(l, success))
           /\ Outcome(Fresh(l), TransmitResult(l, success))
<1> DEFINE fresh == Fresh(l)
           k == [fresh EXCEPT !.txMode = "Idle"]
           s == TryPendingSec(k)
           idle == TryPendingPri(s)
<1>1. GoodLink(fresh) /\ fresh.txMode = l.txMode
  BY FreshGood
<1>2. TransmitResult(l, success)
        = TryStartTransmission(IF l.txMode = "Primary" THEN PriOnTransmitResult(idle, success)
                                                       ELSE SecOnTransmitResult(idle))
  BY DEF TransmitResult
<1> HIDE DEF fresh
<1>3. k \in LinkType /\ l.txMode \in {"Primary", "Secondary"}
  <2>1. fresh \in LinkType
    BY <1>1 DEF GoodLink
  <2>2. k \in LinkType
    BY <2>1, FieldTypes
  <2>3. fresh.txMode \in {"Idle", "Primary", "Secondary"}
    BY <2>1 DEF LinkType
  <2> QED
    BY <1>1, <2>2, <2>3
<1>4. CASE l.txMode = "Primary"
  <2>1. s \in LinkType
    <3>1. CASE k.pendingSec # NoFrame
      <4>1. k.pendingSec \in AnyFrame
        BY <1>3, <3>1 DEF LinkType
      <4>2. BeginTransmit(k, k.pendingSec, "Secondary") \in LinkType
        BY <1>3, <4>1, BeginTransmitType
      <4>3. k.txMode = "Idle"
        BY <1>1 DEF GoodLink, LinkType
      <4> QED
        BY <3>1, <4>2, <4>3, FieldTypes DEF TryPendingSec
    <3>2. CASE k.pendingSec = NoFrame
      BY <1>3, <3>2 DEF TryPendingSec
    <3> QED
      BY <3>1, <3>2
  <2>2. /\ ~s.overwrote /\ SecQueued(s) /\ ~s.rspTimer /\ s.txMode # "Primary"
        /\ s.pendingPri = NoFrame /\ s.pri = fresh.pri /\ s.segments = fresh.segments
        /\ SameSend(fresh, s)
    BY <1>1, <1>4, NoFrameAssumption
       DEF GoodLink, LinkType, PriQueued, SecQueued, PriWaits, SameSend, TryPendingSec, BeginTransmit
  <2>3. idle = s
    BY <2>2 DEF TryPendingPri
  <2>4. s.pri \in PriTransmitWait /\ (s.pri \in NeedsSegments => s.segments # <<>>)
    BY <1>1, <1>4, <2>2 DEF GoodLink, PriQueued, PriWaits
  <2>5. Ready(s)
    BY <2>1, <2>2 DEF Ready
  <2> HIDE DEF s
  <2>6. GoodLink(PriOnTransmitResult(s, success)) /\ Outcome(s, PriOnTransmitResult(s, success))
    BY <2>4, <2>5, PriTransmitResultGood
  <2>7. Outcome(fresh, PriOnTransmitResult(s, success))
    BY <2>2, <2>6, SameSendTrans DEF Outcome
  <2>8. TransmitResult(l, success) = TryStartTransmission(PriOnTransmitResult(s, success))
    BY <1>2, <1>4, <2>3
  <2> QED
    BY <2>6, <2>7, <2>8, ThenTryStart DEF fresh
<1>5. CASE l.txMode = "Secondary"
  <2>1. s = k
    BY <1>1, <1>5 DEF GoodLink, LinkType, SecQueued, TryPendingSec
  <2>2. idle \in LinkType
    <3>1. CASE k.pendingPri # NoFrame
      <4>1. k.pendingPri \in AnyFrame
        BY <1>3, <3>1 DEF LinkType
      <4>2. BeginTransmit(k, k.pendingPri, "Primary") \in LinkType
        BY <1>3, <4>1, BeginTransmitType
      <4>3. k.txMode = "Idle"
        BY <1>1 DEF GoodLink, LinkType
      <4> QED
        BY <2>1, <3>1, <4>2, <4>3, FieldTypes DEF TryPendingPri
    <3>2. CASE k.pendingPri = NoFrame
      BY <1>3, <2>1, <3>2 DEF TryPendingPri
    <3> QED
      BY <3>1, <3>2
  <2>3. idle = TryPendingPri(k)
    BY <2>1
  <2>4. /\ ~idle.overwrote /\ PriQueued(idle) /\ PriWaits(idle) /\ idle.pendingSec = NoFrame
        /\ idle.txMode # "Secondary" /\ idle.sec \in SecTransmitWait /\ SameSend(fresh, idle)
    <3>1. CASE fresh.pendingPri # NoFrame
      <4>1. idle = [BeginTransmit(k, k.pendingPri, "Primary") EXCEPT !.pendingPri = NoFrame]
        BY <1>1, <2>3, <3>1 DEF GoodLink, LinkType, TryPendingPri
      <4> QED
        BY <1>1, <1>5, <3>1, <4>1, ZenonT(30)
           DEF GoodLink, LinkType, PriQueued, SecQueued, PriWaits, SameSend, BeginTransmit
    <3>2. CASE fresh.pendingPri = NoFrame
      <4>1. idle = k
        BY <1>1, <2>3, <3>2 DEF GoodLink, LinkType, TryPendingPri
      <4> QED
        BY <1>1, <1>5, <3>2, <4>1, ZenonT(30) DEF GoodLink, LinkType, PriQueued, SecQueued, PriWaits, SameSend
    <3> QED
      BY <3>1, <3>2
  <2> HIDE DEF idle
  <2> DEFINE m == SecOnTransmitResult(idle)
  <2>5. m \in {Sec(idle, "Reset"), Sec(idle, "NotReset")}
    BY <2>4 DEF SecOnTransmitResult
  <2>6. m \in LinkType
    BY <2>2, <2>5, StateTypes, FrameTypes
  <2>7. GoodLink(m) /\ SameSend(idle, m)
    <3>1. PICK state \in {"Reset", "NotReset"} : m = Sec(idle, state)
      BY <2>5
    <3>2. m = [idle EXCEPT !.sec = state]
      BY <3>1 DEF Sec
    <3> HIDE DEF m
    <3>3. ~m.overwrote /\ PriQueued(m) /\ PriWaits(m) /\ SameSend(idle, m)
      BY <2>2, <2>4, <3>2 DEF LinkType, PriQueued, PriWaits, SameSend
    <3>4. SecQueued(m)
      BY <2>2, <2>4, <3>2 DEF LinkType, SecQueued
    <3> QED
      BY <2>6, <3>3, <3>4 DEF GoodLink
  <2> HIDE DEF m
  <2>8. Outcome(fresh, m)
    BY <2>4, <2>7, SameSendTrans DEF Outcome
  <2>9. TransmitResult(l, success) = TryStartTransmission(m)
    BY <1>2, <1>5 DEF m
  <2> QED
    BY <2>7, <2>8, <2>9, ThenTryStart DEF fresh
<1> QED
  BY <1>3, <1>4, <1>5

\* The lower layer comes and goes.
LEMMA UpGood ==
    ASSUME NEW l, GoodLink(l)
    PROVE  LET m == LowerLayerUp(l)
           IN  GoodLink(m) /\ m.isOnline /\ m.results = <<>> /\ m.segments = l.segments
<1>1. LowerLayerUp(l) \in LinkType
  BY FreshGood, FieldTypes DEF GoodLink, LowerLayerUp
<1> QED
  BY <1>1 DEF LowerLayerUp, Fresh, GoodLink, LinkType, PriQueued, SecQueued, PriWaits

\* Going down clears what a late callback could act on.
LEMMA DownGood ==
    ASSUME NEW l, GoodLink(l)
    PROVE  LET m == LowerLayerDown(l)
           IN  /\ GoodLink(m) /\ ~m.isOnline /\ m.results = <<>> /\ m.segments = <<>>
               /\ m.txMode = "Idle" /\ m.pri = "Idle"
<1>1. <<>> \in Seq(AnyFrame) /\ <<>> \in Seq(Nat) /\ <<>> \in Seq(BOOLEAN)
  OBVIOUS
<1>2. LowerLayerDown(l) \in LinkType
  BY <1>1 DEF LowerLayerDown, CancelTimer, Fresh, GoodLink, LinkType
<1> QED
  BY <1>2, ZenonT(30) DEF LowerLayerDown, CancelTimer, Fresh, GoodLink, LinkType, PriQueued, SecQueued, PriWaits

----------------------------------------------------------------------------
\* The inductive invariant: a layer that is down is also at rest, so that a
\* late transmit result or timeout finds nothing to act on.
AtRest(l) == l.segments = <<>> /\ l.txMode = "Idle" /\ l.pri = "Idle"

IInv ==
    /\ GoodLink(link)
    /\ sending \in BOOLEAN
    /\ posted \in Seq(BOOLEAN)
    /\ OneResultPerSend
    /\ ~link.isOnline => AtRest(link) /\ ~sending

\* It implies the invariants that the model checker looks at.
LEMMA IInvImplies ==
    IInv => /\ TypeOK /\ SegmentsPresent /\ TimerIffWaiting /\ TransmitWaitIffQueued
            /\ BuffersNotOverwritten /\ OneResultPerSend
<1> SUFFICES ASSUME IInv
             PROVE  /\ TypeOK /\ SegmentsPresent /\ TimerIffWaiting /\ TransmitWaitIffQueued
                    /\ BuffersNotOverwritten /\ OneResultPerSend
  OBVIOUS
<1>1. TypeOK
  BY DEF IInv, GoodLink, TypeOK
<1>2. SegmentsPresent /\ TimerIffWaiting
  BY DEF IInv, GoodLink, LinkType, PriWaits, SegmentsPresent, TimerIffWaiting
<1>3. TransmitWaitIffQueued /\ BuffersNotOverwritten /\ OneResultPerSend
  BY DEF IInv, GoodLink, PriQueued, SecQueued, TransmitWaitIffQueued, BuffersNotOverwritten
<1> QED
  BY <1>1, <1>2, <1>3

\* A layer starts offline and at rest.
LEMMA InitIInv == Init => IInv
<1> SUFFICES ASSUME Init PROVE IInv
  OBVIOUS
<1>1. PICK confirms \in BOOLEAN : link = InitialLink(confirms)
  BY DEF Init
<1>2. <<>> \in Seq(AnyFrame) /\ <<>> \in Seq(Nat) /\ <<>> \in Seq(BOOLEAN)
  OBVIOUS
<1>3. link \in LinkType
  BY <1>1, <1>2 DEF InitialLink, LinkType
<1>4. GoodLink(link) /\ ~link.isOnline /\ AtRest(link)
  BY <1>1, <1>3 DEF InitialLink, GoodLink, PriQueued, SecQueued, PriWaits, AtRest
<1> QED
  BY <1>2, <1>4 DEF Init, IInv, OneResultPerSend

\* A step of a station that is online keeps the count of results: a send
\* that ends in it has had none before.
LEMMA OnlineStep ==
    ASSUME IInv, link.isOnline, NEW m, GoodLink(m), Outcome(Fresh(link), m), Becomes(m),
           UNCHANGED sending
    PROVE  IInv'
<1>1. /\ Fresh(link).isOnline = link.isOnline /\ Fresh(link).results = <<>>
      /\ Fresh(link).segments = link.segments
  BY FreshGood DEF IInv
<1>2. link' = m /\ posted' = posted \o m.results /\ posted \in Seq(BOOLEAN) /\ sending' = sending
  BY DEF Becomes, IInv
<1>3. CASE SameSend(Fresh(link), m)
  <2>1. m.isOnline /\ (m.segments = <<>> <=> link.segments = <<>>) /\ m.results = <<>>
    BY <1>1, <1>3 DEF SameSend
  <2>2. posted' = posted
    BY <1>2, <2>1
  <2> QED
    BY <1>2, <2>1, <2>2 DEF IInv, OneResultPerSend
<1>4. CASE EndsSend(Fresh(link), m)
  <2>1. PICK r \in BOOLEAN : m.results = Append(<<>>, r)
    BY <1>1, <1>4 DEF EndsSend
  <2>2. m.isOnline /\ m.segments = <<>> /\ link.segments # <<>>
    BY <1>1, <1>4 DEF EndsSend
  <2>3. posted = <<>> /\ sending
    BY <2>2 DEF IInv, OneResultPerSend
  <2>4. posted' = <<r>> /\ posted' \in Seq(BOOLEAN) /\ Len(posted') = 1 /\ posted' # <<>>
    BY <1>2, <2>1, <2>3
  <2>5. sending' /\ sending' \in BOOLEAN
    BY <1>2, <2>3 DEF IInv
  <2>6. OneResultPerSend'
    BY <1>2, <2>2, <2>4, <2>5 DEF OneResultPerSend
  <2> QED
    BY <1>2, <2>2, <2>4, <2>5, <2>6 DEF IInv
<1> QED
  BY <1>3, <1>4 DEF Outcome

\* Every step keeps the inductive invariant.
LEMMA NextIInv == IInv /\ [Next]_vars => IInv'
<1> SUFFICES ASSUME IInv, [Next]_vars PROVE IInv'
  OBVIOUS
<1>0. GoodLink(link) /\ sending \in BOOLEAN /\ posted \in Seq(BOOLEAN)
  BY DEF IInv
<1>1. CASE OnLowerLayerUp
  <2> DEFINE m == LowerLayerUp(link)
  <2>1. GoodLink(m) /\ m.isOnline /\ m.results = <<>> /\ m.segments = link.segments
    BY <1>0, UpGood
  <2>2. link' = m /\ posted' = posted \o m.results /\ sending' = sending
    BY <1>1 DEF OnLowerLayerUp, Becomes
  <2>3. posted = <<>> /\ ~sending /\ link.segments = <<>>
    BY <1>1 DEF OnLowerLayerUp, IInv, AtRest
  <2> HIDE DEF m
  <2>4. posted' = <<>>
    BY <2>1, <2>2, <2>3
  <2> QED
    BY <1>0, <2>1, <2>2, <2>3, <2>4 DEF IInv, OneResultPerSend
<1>2. CASE OnLowerLayerDown
  <2> DEFINE m == LowerLayerDown(link)
  <2>1. /\ GoodLink(m) /\ ~m.isOnline /\ m.results = <<>> /\ m.segments = <<>>
        /\ m.txMode = "Idle" /\ m.pri = "Idle"
    BY <1>0, DownGood
  <2>2. link' = m /\ posted' = posted \o m.results /\ sending' = FALSE
    BY <1>2 DEF OnLowerLayerDown, Becomes
  <2> HIDE DEF m
  <2>3. posted' = posted
    BY <1>0, <2>1, <2>2
  <2> QED
    BY <1>0, <2>1, <2>2, <2>3 DEF IInv, OneResultPerSend, AtRest
<1>3. ASSUME NEW n \in 1 .. MaxSegments, BeginSend(n) PROVE IInv'
  <2> DEFINE t == [i \in 1 .. n |-> 0]
             m == Send(link, t)
  <2>1. t \in Seq(Nat) /\ t # <<>>
    BY SegmentsAssumption
  <2>2. link.isOnline /\ ~sending /\ link' = m /\ posted' = posted \o m.results /\ sending' = TRUE
    BY <1>3 DEF BeginSend, Becomes
  <2>3. link.segments = <<>> /\ posted = <<>>
    BY <2>2 DEF IInv, OneResultPerSend
  <2> HIDE DEF t
  <2>4. GoodLink(m) /\ m.isOnline /\ m.segments # <<>> /\ m.results = <<>>
    BY <1>0, <2>1, <2>2, <2>3, SendGood
  <2> HIDE DEF m
  <2>5. posted' = <<>>
    BY <2>2, <2>3, <2>4
  <2> QED
    BY <1>0, <2>2, <2>4, <2>5 DEF IInv, OneResultPerSend
<1>4. ASSUME NEW success \in BOOLEAN, OnTransmitResult(success) PROVE IInv'
  <2>1. link.txMode # "Idle" /\ Becomes(TransmitResult(link, success)) /\ UNCHANGED sending
    BY <1>4 DEF OnTransmitResult
  <2>2. link.isOnline
    BY <2>1 DEF IInv, AtRest
  <2>3. /\ GoodLink(TransmitResult(link, success))
        /\ Outcome(Fresh(link), TransmitResult(link, success))
    BY <1>0, <2>1, TransmitResultGood
  <2> QED
    BY <2>1, <2>2, <2>3, OnlineStep
<1>5. ASSUME NEW f \in PeerFrames, Receive(f) PROVE IInv'
  <2>1. link.isOnline /\ Becomes(OnFrame(link, f)) /\ UNCHANGED sending
    BY <1>5 DEF Receive
  <2>2. f \in AnyFrame
    BY DEF PeerFrames, AnyFrame
  <2>3. GoodLink(OnFrame(link, f)) /\ Outcome(Fresh(link), OnFrame(link, f))
    BY <1>0, <2>1, <2>2, FrameGood
  <2> QED
    BY <2>1, <2>3, OnlineStep
<1>6. CASE OnResponseTimeout
  <2>1. link.rspTimer /\ Becomes(ResponseTimeout(link)) /\ UNCHANGED sending
    BY <1>6 DEF OnResponseTimeout
  <2>2. link.isOnline
    BY <2>1 DEF IInv, AtRest, GoodLink, PriWaits
  <2>3. GoodLink(ResponseTimeout(link)) /\ Outcome(Fresh(link), ResponseTimeout(link))
    BY <1>0, <2>1, ResponseTimeoutGood
  <2> QED
    BY <2>1, <2>2, <2>3, OnlineStep
<1>7. ASSUME NEW idle \in BOOLEAN, OnKeepAliveTimeout(idle) PROVE IInv'
  <2>1. link.isOnline /\ Becomes(KeepAliveTimeout(link, idle)) /\ UNCHANGED sending
    BY <1>7 DEF OnKeepAliveTimeout
  <2>2. GoodLink(KeepAliveTimeout(link, idle)) /\ Outcome(Fresh(link), KeepAliveTimeout(link, idle))
    BY <1>0, KeepAliveGood
  <2> QED
    BY <2>1, <2>2, OnlineStep
<1>8. CASE OnSendResult
  <2>1. posted # <<>> /\ posted' = Tail(posted) /\ sending' = FALSE /\ link' = link
    BY <1>8 DEF OnSendResult
  <2>2. posted' \in Seq(BOOLEAN) /\ Len(posted') = Len(posted) - 1
    BY <1>0, <2>1
  <2>3. link.isOnline => link.segments = <<>> /\ posted' = <<>> /\ Len(posted') <= 1
    <3>1. link.isOnline => link.segments = <<>> /\ Len(posted) <= 1
      BY <2>1 DEF IInv, OneResultPerSend
    <3>2. Len(posted) \in Nat /\ (Len(posted') = 0 => posted' = <<>>)
      <4>1. \A q \in Seq(BOOLEAN) : Len(q) \in Nat /\ (Len(q) = 0 => q = <<>>)
        OBVIOUS
      <4> QED
        BY <1>0, <2>2, <4>1
    <3>3. Len(posted) > 0
      BY <1>0, <2>1
    <3> QED
      BY <2>2, <3>1, <3>2, <3>3
  <2> QED
    BY <1>0, <2>1, <2>2, <2>3 DEF IInv, OneResultPerSend
<1>9. CASE UNCHANGED vars
  BY <1>9 DEF IInv, OneResultPerSend, vars
<1> QED
  BY <1>1, <1>2, <1>3, <1>4, <1>5, <1>6, <1>7, <1>8, <1>9 DEF Next

----------------------------------------------------------------------------
\* For every number of retries and of segments, whatever the peer sends and
\* whenever the timers fire: no handler of the primary station dereferences
\* a null pSegments, the response timer runs exactly while a response is
\* awaited, each transmit result finds the role that waits for it, and no
\* frame is formatted over one that the router still has.
THEOREM LinkInvariants ==
    Spec => [](/\ TypeOK /\ SegmentsPresent /\ TimerIffWaiting
               /\ TransmitWaitIffQueued /\ BuffersNotOverwritten)
BY InitIInv, NextIInv, IInvImplies, PTL DEF Spec

\* A state of the primary station that reads pSegments finds it set: the
\* states between TrySend and CompleteSendOperation dereference it unchecked.
THEOREM SegmentsAreThere == Spec => []SegmentsPresent
BY LinkInvariants, PTL

\* The response timer runs exactly in the states that wait for a response, so
\* that OnTimeout never finds a state that does not expect it.
THEOREM TimerRunsWhileWaiting == Spec => []TimerIffWaiting
BY LinkInvariants, PTL

\* The contract of ILowerLayer: CompleteSendOperation is reached exactly
\* once for each Send of a layer that stays online.
THEOREM SendHasOneResult == Spec => []OneResultPerSend
BY InitIInv, NextIInv, IInvImplies, PTL DEF Spec

----------------------------------------------------------------------------
(* Two stations: the proofs about LinkPair and TransportPair.              *)

\* The station that sends: its secondary station never transmits.
Carrying     == {"ConfUserDataTransmitWait", "ConfDataWait"}
Resetting    == {"LinkResetTransmitWait", "ResetLinkWait"}
Probing      == {"RequestLinkStatusTransmitWait", "RequestLinkStatusWait"}
Transmitting == {"ConfUserDataTransmitWait", "LinkResetTransmitWait",
                 "RequestLinkStatusTransmitWait"}
Awaiting     == {"ConfDataWait", "ResetLinkWait", "RequestLinkStatusWait"}

LinkFields == {"useConfirms", "isOnline", "pri", "sec", "txMode", "pendingPri", "pendingSec",
               "segments", "numRetry", "rspTimer", "nextReadFCB", "nextWriteFCB",
               "isRemoteReset", "keepAliveTimeout", "overwrote", "sent", "up", "results"}

\* The station whatever its primary station waits for.
SenderBody(l) ==
    /\ DOMAIN l = LinkFields
    /\ l.useConfirms
    /\ l.segments \in Seq(Nat)
    /\ l.nextWriteFCB \in BOOLEAN
    /\ l.keepAliveTimeout \in BOOLEAN
    /\ l.pendingPri = NoFrame
    /\ l.pendingSec = NoFrame
    /\ l.up = <<>>

Sender(l) ==
    /\ SenderBody(l)
    /\ l.pri \in {"Idle"} \cup Carrying \cup Resetting \cup Probing
    /\ l.rspTimer <=> l.pri \in Awaiting
    /\ l.txMode = IF l.pri \in Transmitting THEN "Primary" ELSE "Idle"
    /\ l.pri \in Carrying \cup Resetting => l.segments # <<>>
    /\ l.pri \in Carrying => l.isRemoteReset
    /\ l.pri \in Resetting => ~l.isRemoteReset
    /\ l.isRemoteReset \/ l.segments # <<>> \/ l.pri # "Idle" => l.isOnline

\* Between two entry points.
Quiet(l) ==
    /\ Sender(l)
    /\ l.sent = <<>>
    /\ l.results = <<>>
    /\ l.pri = "Idle" => l.segments = <<>> /\ ~l.keepAliveTimeout

DataFrame(l) == Frame("PRI_CONFIRMED_USER_DATA", l.nextWriteFCB, Head(l.segments))

\* l did what an entry point does before it calls TryStartTransmission; m is
\* the context after that call.
Started(l, m) ==
    /\ Sender(m)
    /\ m.pri = "Idle" => m.segments = <<>> /\ ~m.keepAliveTimeout
    /\ m.isOnline /\ m.segments = l.segments /\ m.results = l.results
    /\ m.nextWriteFCB = l.nextWriteFCB /\ (m.isRemoteReset <=> l.isRemoteReset)
    /\ \/ m.pri = l.pri /\ m.sent = l.sent
       \/ l.pri = "Idle" /\ m.pri = "RequestLinkStatusTransmitWait"
                         /\ m.sent = Append(l.sent, RequestLinkStatus)
       \/ l.pri = "Idle" /\ m.pri = "LinkResetTransmitWait" /\ ~l.isRemoteReset
                         /\ m.sent = Append(l.sent, ResetLinks)
       \/ l.pri = "Idle" /\ m.pri = "ConfUserDataTransmitWait" /\ l.isRemoteReset
                         /\ m.sent = Append(l.sent, DataFrame(l))

USE DEF Carrying, Resetting, Probing, Transmitting, Awaiting, LinkFields

\* TryStartTransmission sends a probe, a reset or the first segment, or nothing.
LEMMA StartMoves ==
    ASSUME NEW l, Sender(l), l.isOnline
    PROVE  Started(l, TryStartTransmission(l))
<1> DEFINE m == TryStartTransmission(l)
           p == TrySendRequestLinkStatus(l)
<1>1. CASE l.pri # "Idle"
  <2>1. m = l
    BY <1>1 DEF SenderBody, Sender, TryStartTransmission, TrySendRequestLinkStatus,
         TrySendConfirmed
  <2> QED BY <2>1, <1>1 DEF Started
<1>2. CASE l.pri = "Idle" /\ l.keepAliveTimeout
  <2>1. p = [l EXCEPT !.keepAliveTimeout = FALSE, !.overwrote = p.overwrote, !.txMode = "Primary",
                      !.sent = Append(@, RequestLinkStatus),
                           !.pri = "RequestLinkStatusTransmitWait"]
    BY <1>2 DEF SenderBody, Sender, TrySendRequestLinkStatus, QueuePrimary,
         BeginTransmit, Pri
  <2>2. m = p
    BY <2>1, <1>2 DEF SenderBody, Sender, TryStartTransmission, TrySendConfirmed
  <2> HIDE DEF m, p
  <2>3. Sender(p)
    BY <2>1, <1>2 DEF SenderBody, Sender
  <2> QED BY <2>1, <2>2, <2>3, <1>2 DEF Started, SenderBody, Sender, m
<1>3. CASE l.pri = "Idle" /\ ~l.keepAliveTimeout /\ l.segments = <<>>
  <2>1. m = l
    BY <1>3 DEF SenderBody, Sender, TryStartTransmission
  <2> QED BY <2>1, <1>3 DEF Started
<1>4. CASE l.pri = "Idle" /\ ~l.keepAliveTimeout /\ l.segments # <<>> /\ l.isRemoteReset
  <2>1. m = [l EXCEPT !.numRetry = NumRetry, !.overwrote = m.overwrote, !.txMode = "Primary",
                      !.sent = Append(@, DataFrame(l)), !.pri = "ConfUserDataTransmitWait"]
    BY <1>4 DEF SenderBody, Sender, TryStartTransmission, TrySendConfirmed,
         SendSegment,
                QueuePrimary, BeginTransmit, Pri, ResetRetry, DataFrame
  <2> HIDE DEF m
  <2>3. Sender(m)
    BY <2>1, <1>4 DEF SenderBody, Sender
  <2> QED BY <2>1, <2>3, <1>4 DEF Started, SenderBody, Sender, m
<1>5. CASE l.pri = "Idle" /\ ~l.keepAliveTimeout /\ l.segments # <<>> /\ ~l.isRemoteReset
  <2>1. m = [l EXCEPT !.numRetry = NumRetry, !.overwrote = m.overwrote, !.txMode = "Primary",
                      !.sent = Append(@, ResetLinks), !.pri = "LinkResetTransmitWait"]
    BY <1>5 DEF SenderBody, Sender, TryStartTransmission, TrySendConfirmed,
                QueuePrimary, BeginTransmit, Pri, ResetRetry
  <2> HIDE DEF m
  <2>3. Sender(m)
    BY <2>1, <1>5 DEF SenderBody, Sender
  <2> QED BY <2>1, <2>3, <1>5 DEF Started, SenderBody, Sender, m
<1> QED BY <1>1, <1>2, <1>3, <1>4, <1>5 DEF SenderBody, Sender

\* What happens to the send operation and on the line between the contexts l
\* and m; m still has the frames and results of the entry point.
Settled(m) == Sender(m) /\ (m.pri = "Idle" => m.segments = <<>> /\ ~m.keepAliveTimeout)

Keeps(l, m) ==
    /\ m.isOnline
    /\ m.segments = l.segments
    /\ m.nextWriteFCB = l.nextWriteFCB
    /\ (m.isRemoteReset <=> l.isRemoteReset)
    /\ m.results = <<>>

Phase(l) == CASE l.pri \in Carrying -> "carrying" [] l.pri \in Resetting -> "resetting"
              [] l.pri \in Probing -> "probing" [] OTHER -> "idle"

Rests(l, m) == Keeps(l, m) /\ m.sent = <<>> /\ Phase(m) = Phase(l)

Probes(l, m) ==
    /\ Keeps(l, m)
    /\ Phase(l) \in {"idle", "probing"}
    /\ m.pri = "RequestLinkStatusTransmitWait"
    /\ m.sent = <<RequestLinkStatus>>

Idles(l, m) ==
    /\ Keeps(l, m)
    /\ Phase(l) = "probing"
    /\ Phase(m) = "idle"
    /\ m.sent = <<>>

ResetsLink(l, m) ==
    /\ Keeps(l, m)
    /\ Phase(l) \in {"resetting", "probing"}
    /\ m.pri = "LinkResetTransmitWait"
    /\ m.sent = <<ResetLinks>>

SendsData(l, m) ==
    /\ m.isOnline
    /\ m.results = <<>>
    /\ m.pri = "ConfUserDataTransmitWait"
    /\ m.sent = <<DataFrame(m)>>

\* A segment is sent for the first time, again, or after the one before it.
Begins(l, m) ==
    /\ SendsData(l, m)
    /\ m.segments = l.segments
    /\ \/ l.pri = "ResetLinkWait" /\ m.nextWriteFCB
       \/ Phase(l) = "probing" /\ l.isRemoteReset /\ m.nextWriteFCB = l.nextWriteFCB

Repeats(l, m) ==
    /\ SendsData(l, m)
    /\ l.pri = "ConfDataWait"
    /\ m.segments = l.segments
    /\ m.nextWriteFCB = l.nextWriteFCB

Advances(l, m) ==
    /\ SendsData(l, m)
    /\ l.pri = "ConfDataWait"
    /\ Len(l.segments) > 1
    /\ m.segments = Tail(l.segments)
    /\ m.nextWriteFCB = ~l.nextWriteFCB

Ends(l, m, success) ==
    /\ Phase(l) \in {"carrying", "resetting"}
    /\ success => l.pri = "ConfDataWait" /\ Len(l.segments) = 1
    /\ m.isOnline
    /\ (m.isRemoteReset <=> l.isRemoteReset)
    /\ m.nextWriteFCB = IF success THEN ~l.nextWriteFCB ELSE l.nextWriteFCB
    /\ m.segments = <<>>
    /\ m.results = <<success>>
    /\ \/ m.pri = "Idle" /\ m.sent = <<>>
       \/ m.pri = "RequestLinkStatusTransmitWait" /\ m.sent = <<RequestLinkStatus>>

ProbeEnds(l, m) ==
    \/ Probes(l, m) \/ Idles(l, m) \/ Begins(l, m)
    \/ Phase(l) = "probing" /\ ResetsLink(l, m)

Same(l, m) ==
    /\ (m.isOnline <=> l.isOnline) /\ m.segments = l.segments /\ m.nextWriteFCB = l.nextWriteFCB
    /\ (m.isRemoteReset <=> l.isRemoteReset) /\ (m.keepAliveTimeout <=> l.keepAliveTimeout)
    /\ m.pri = l.pri /\ m.results = <<>> /\ m.sent = <<>>

\* An entry point begins with what the station was.
LEMMA FreshSender ==
    ASSUME NEW l, Sender(l) PROVE Sender(Fresh(l)) /\ Same([l EXCEPT !.sent = <<>>,
         !.results = <<>>], Fresh(l))
BY DEF SenderBody, Sender, Same, Fresh

\* The router has written the frame.
LEMMA WrittenMoves ==
    ASSUME NEW l, Quiet(l), l.txMode # "Idle"
    PROVE  LET m == TransmitResult(l, TRUE)
           IN  Settled(m) /\ Rests(l, m) /\ m.pri \in Awaiting
<1> DEFINE m == TransmitResult(l, TRUE)
           c == [Fresh(l) EXCEPT !.txMode = "Idle", !.rspTimer = TRUE,
                   !.pri = CASE l.pri = "ConfUserDataTransmitWait" -> "ConfDataWait"
                             [] l.pri = "LinkResetTransmitWait" -> "ResetLinkWait"
                             [] OTHER -> "RequestLinkStatusWait"]
<1>1. l.pri \in Transmitting /\ l.txMode = "Primary"
  BY DEF Quiet, Sender
<1>2. Sender(c) /\ c.isOnline /\ c.pri \in Awaiting /\ Rests(l, c)
  BY <1>1 DEF Quiet, SenderBody, Sender, Rests, Keeps, Phase, Fresh
<1>3. m = TryStartTransmission(c)
  BY <1>1, FreshSender DEF Quiet, SenderBody, Sender, Fresh, TransmitResult,
       TryPendingPri, TryPendingSec,
     PriOnTransmitResult, Pri, StartTimer
<1> HIDE DEF c, m
<1>4. Started(c, m)
  BY <1>2, <1>3, StartMoves
<1> QED BY <1>2, <1>4 DEF Started, Settled, Rests, Keeps, Phase, m

\* What an entry point leaves to TryStartTransmission when it has nothing for
\* the line, and when it ended a send or a probe.
Paused(l) == Sender(l) /\ l.pri = "Idle" /\ l.isOnline

\* A probe that ends makes room for what was handed over meanwhile.
LEMMA ProbeOver ==
    ASSUME NEW l, NEW c, Phase(l) = "probing", Paused(c), Keeps(l, c), c.sent = <<>>
    PROVE  Settled(TryStartTransmission(c)) /\ ProbeEnds(l, TryStartTransmission(c))
<1> DEFINE m == TryStartTransmission(c)
<1>1. Started(c, m)
  BY StartMoves DEF Paused
<1> HIDE DEF m
<1>2. DataFrame(c) = DataFrame(m)
  BY <1>1 DEF Started, DataFrame
<1>3. Settled(m) /\ ProbeEnds(l, m)
  BY <1>1, <1>2 DEF Started, Settled, ProbeEnds, Probes, Idles, Begins, SendsData, ResetsLink,
       Keeps, Phase, Paused
<1> QED BY <1>3 DEF m

\* After the end of a send operation at most a probe is started.
LEMMA SendOver ==
    ASSUME NEW l, NEW c, NEW r \in BOOLEAN, Paused(c), c.sent = <<>>, c.segments = <<>>,
           (c.isRemoteReset <=> l.isRemoteReset), c.results = <<r>>,
           Phase(l) \in {"carrying", "resetting"},
           r => l.pri = "ConfDataWait" /\ Len(l.segments) = 1,
           c.nextWriteFCB = IF r THEN ~l.nextWriteFCB ELSE l.nextWriteFCB
    PROVE  Settled(TryStartTransmission(c)) /\ Ends(l, TryStartTransmission(c), r)
<1> DEFINE m == TryStartTransmission(c)
<1>1. Started(c, m)
  BY StartMoves DEF Paused
<1> HIDE DEF m
<1>2. Settled(m) /\ Ends(l, m, r)
  <2>1. m.segments = <<>> /\ Sender(m)
    BY <1>1 DEF Started
  <2>2. m.pri \in {"Idle", "RequestLinkStatusTransmitWait"}
    BY <1>1, <2>1 DEF Started, SenderBody, Sender, Paused
  <2> QED BY <1>1, <2>1, <2>2 DEF Started, Settled, Ends, Paused
<1> QED BY <1>2 DEF m

\* A context that is not idle, or has nothing to do, is left alone.
LEMMA NothingToStart ==
    ASSUME NEW c, Settled(c)
    PROVE  TryStartTransmission(c) = c
<1>1. CASE c.pri # "Idle"
  BY <1>1 DEF Settled, SenderBody, Sender, TryStartTransmission,
       TrySendRequestLinkStatus, TrySendConfirmed
<1>2. CASE c.pri = "Idle"
  BY <1>2 DEF Settled, SenderBody, Sender, TryStartTransmission
<1> QED BY <1>1, <1>2

\* CompleteSendOperation, when nothing is with the router and no timer runs.
LEMMA Completed ==
    ASSUME NEW i, NEW r \in BOOLEAN, SenderBody(i), i.isOnline, i.txMode = "Idle", ~i.rspTimer,
           i.sent = <<>>, i.results = <<>>
    PROVE  LET c == CompleteSendOperation(i, r)
           IN  /\ Paused(c) /\ c.sent = <<>> /\ c.segments = <<>>
               /\ (c.isRemoteReset <=> i.isRemoteReset) /\ c.results = <<r>>
               /\ c.nextWriteFCB = i.nextWriteFCB
<1> DEFINE c == CompleteSendOperation(i, r)
<1>1. c = [i EXCEPT !.segments = <<>>, !.results = Append(@, r), !.pri = "Idle"]
  BY DEF CompleteSendOperation, Pri
<1> HIDE DEF c
<1>2. c.segments = <<>> /\ c.pri = "Idle" /\ c.results = <<r>> /\ c.sent = <<>>
  BY <1>1 DEF SenderBody
<1>3. SenderBody(c) /\ c.isOnline /\ ~c.rspTimer /\ c.txMode = "Idle"
        /\ c.nextWriteFCB = i.nextWriteFCB /\ (c.isRemoteReset <=> i.isRemoteReset)
  BY <1>1, <1>2 DEF SenderBody
<1>4. Paused(c)
  BY <1>2, <1>3 DEF Paused, Sender
<1> QED BY <1>2, <1>3, <1>4 DEF c

\* When no segment follows, this one is the last.
LEMMA LastOne ==
    ASSUME NEW s \in Seq(Nat), s # <<>>, ~(Len(s) > 1)
    PROVE  Len(s) = 1
<1>1. Tail(s) \in Seq(Nat) /\ Len(Tail(s)) = Len(s) - 1
  OBVIOUS
<1>2. Len(s) \in Nat /\ Len(Tail(s)) \in Nat
  BY <1>1
<1> QED BY <1>1, <1>2

\* SendSegment, when the router is free.
LEMMA SegmentSent ==
    ASSUME NEW x, SenderBody(x), x.txMode = "Idle", ~x.rspTimer, x.isOnline, x.isRemoteReset,
           x.segments # <<>>, x.sent = <<>>, x.results = <<>>
    PROVE  LET m == Pri(SendSegment(x, TRUE), "ConfUserDataTransmitWait")
           IN  /\ Settled(m) /\ m.isOnline /\ m.segments = x.segments
               /\ m.nextWriteFCB = x.nextWriteFCB /\ m.results = <<>>
               /\ m.pri = "ConfUserDataTransmitWait" /\ m.sent = <<DataFrame(m)>>
<1> DEFINE m == Pri(SendSegment(x, TRUE), "ConfUserDataTransmitWait")
<1>1. m = [x EXCEPT !.overwrote = m.overwrote, !.txMode = "Primary", !.sent = Append(@,
     DataFrame(x)),
                    !.pri = "ConfUserDataTransmitWait"]
  BY DEF SenderBody, SendSegment, QueuePrimary, BeginTransmit, Pri, DataFrame
<1> HIDE DEF m
<1>2. m.isOnline /\ m.segments = x.segments /\ m.nextWriteFCB = x.nextWriteFCB
        /\ m.results = <<>> /\ m.pri = "ConfUserDataTransmitWait" /\ m.isRemoteReset
        /\ m.sent = <<DataFrame(x)>>
  <2>1. m.sent = Append(<<>>, DataFrame(x))
    <3> DEFINE fr == DataFrame(x)
    <3> HIDE DEF fr
    <3>1. m = [x EXCEPT !.overwrote = m.overwrote, !.txMode = "Primary", !.sent = Append(@, fr),
                    !.pri = "ConfUserDataTransmitWait"]
      BY <1>1 DEF fr
    <3>2. m.sent = Append(x.sent, fr)
      BY <3>1 DEF SenderBody
    <3> QED BY <3>2 DEF fr
  <2>2. m.isOnline /\ m.isRemoteReset
    BY <1>1 DEF SenderBody
  <2>3. m.segments = x.segments /\ m.nextWriteFCB = x.nextWriteFCB
          /\ m.results = <<>> /\ m.pri = "ConfUserDataTransmitWait"
    BY <1>1 DEF SenderBody
  <2> QED BY <2>1, <2>2, <2>3
<1>3. SenderBody(m) /\ ~m.rspTimer /\ ~x.rspTimer /\ m.txMode = "Primary"
  BY <1>1, <1>2 DEF SenderBody
<1>4. Settled(m) /\ DataFrame(m) = DataFrame(x)
  BY <1>2, <1>3 DEF Settled, Sender, DataFrame
<1> QED BY <1>2, <1>4 DEF m

\* The router could not write the frame.
LEMMA UnwrittenMoves ==
    ASSUME NEW l, Quiet(l), l.txMode # "Idle"
    PROVE  LET m == TransmitResult(l, FALSE)
           IN  Settled(m) /\ (Ends(l, m, FALSE) \/ ProbeEnds(l, m))
<1> DEFINE m == TransmitResult(l, FALSE)
           f == Fresh(l)
           i == [f EXCEPT !.txMode = "Idle"]
           c == CompleteSendOperation(i, FALSE)
           d == [f EXCEPT !.txMode = "Idle", !.pri = "Idle"]
<1>1. l.pri \in Transmitting /\ l.txMode = "Primary" /\ l.isOnline
  BY DEF Quiet, SenderBody, Sender
<1>2. CASE l.pri \in {"ConfUserDataTransmitWait", "LinkResetTransmitWait"}
  <2>1. SenderBody(i) /\ i.isOnline /\ i.txMode = "Idle" /\ ~i.rspTimer /\ i.sent = <<>>
          /\ i.results = <<>>
          /\ (i.isRemoteReset <=> l.isRemoteReset) /\ i.nextWriteFCB = l.nextWriteFCB
    BY <1>1, <1>2 DEF Quiet, SenderBody, Sender, Fresh
  <2>2. m = TryStartTransmission(c)
    BY <1>1, <1>2 DEF Quiet, SenderBody, Sender, Fresh, TransmitResult,
         TryPendingPri, TryPendingSec,
       PriOnTransmitResult, Pri
  <2>3. Phase(l) \in {"carrying", "resetting"}
    BY <1>2 DEF Phase
  <2> HIDE DEF i, m
  <2>4. Paused(c) /\ c.sent = <<>> /\ c.segments = <<>>
          /\ (c.isRemoteReset <=> l.isRemoteReset) /\ c.results = <<FALSE>>
                  /\ c.nextWriteFCB = l.nextWriteFCB
    BY <2>1, <1>1, Completed
  <2> HIDE DEF c
  <2>5. Settled(m) /\ Ends(l, m, FALSE)
    BY <2>2, <2>3, <2>4, SendOver
  <2> QED BY <2>5 DEF m
<1>3. CASE l.pri = "RequestLinkStatusTransmitWait"
  <2>1. Paused(d) /\ d.sent = <<>> /\ Keeps(l, d)
    BY <1>1, <1>3 DEF Quiet, SenderBody, Sender, Paused, Keeps, Fresh
  <2>2. m = TryStartTransmission(d)
    BY <1>1, <1>3 DEF Quiet, SenderBody, Sender, Fresh, TransmitResult,
         TryPendingPri, TryPendingSec,
       PriOnTransmitResult, Pri
  <2>3. Phase(l) = "probing"
    BY <1>3 DEF Phase
  <2> HIDE DEF d, m
  <2>4. Settled(m) /\ ProbeEnds(l, m)
    BY <2>1, <2>2, <2>3, ProbeOver
  <2> QED BY <2>4 DEF m
<1> QED BY <1>1, <1>2, <1>3

\* The peer acknowledged.
LEMMA AckMoves ==
    ASSUME NEW l, Quiet(l), l.isOnline
    PROVE  LET m == OnFrame(l, Ack)
           IN  /\ Settled(m)
               /\ \/ Rests(l, m) /\ l.pri \notin {"ResetLinkWait", "ConfDataWait"} /\ m.pri = l.pri
                  \/ Begins(l, m) /\ l.pri = "ResetLinkWait"
                  \/ Advances(l, m)
                  \/ Ends(l, m, TRUE)
<1> DEFINE m == OnFrame(l, Ack)
           f == Fresh(l)
           d == Dispatch(f, Ack)
<1>1. m = TryStartTransmission(d) /\ d = OnAck(f)
  BY DEF OnFrame, Dispatch, Ack, Frame
<1>2. Sender(f) /\ f.sent = <<>> /\ f.results = <<>> /\ f.pri = l.pri /\ f.segments = l.segments
        /\ f.nextWriteFCB = l.nextWriteFCB /\ (f.isRemoteReset <=> l.isRemoteReset) /\ f.isOnline
        /\ f.keepAliveTimeout = l.keepAliveTimeout
  BY DEF Quiet, SenderBody, Sender, Fresh
<1> HIDE DEF f, d, m
<1>3. CASE l.pri \notin {"ResetLinkWait", "ConfDataWait"}
  <2>1. d = f
    BY <1>1, <1>2, <1>3 DEF OnAck
  <2>2. Settled(f) /\ Rests(l, f)
    BY <1>2 DEF Settled, Quiet, Rests, Keeps, Phase
  <2> QED BY <1>1, <1>2, <1>3, <2>1, <2>2, NothingToStart DEF m
<1>4. CASE l.pri = "ResetLinkWait"
  <2> DEFINE x == CancelTimer([f EXCEPT !.isRemoteReset = TRUE, !.nextWriteFCB = TRUE])
  <2>1. d = Pri(SendSegment(x, TRUE), "ConfUserDataTransmitWait")
    BY <1>1, <1>2, <1>4 DEF OnAck
  <2>2. SenderBody(x) /\ x.txMode = "Idle" /\ ~x.rspTimer /\ x.isOnline /\ x.isRemoteReset
          /\ x.segments = l.segments /\ x.segments # <<>> /\ x.sent = <<>> /\ x.results = <<>>
          /\ x.nextWriteFCB
    BY <1>2, <1>4 DEF SenderBody, Sender, CancelTimer
  <2> HIDE DEF x
  <2>4. Settled(d) /\ Begins(l, d)
    BY <2>1, <2>2, <1>4, SegmentSent DEF Begins, SendsData
  <2> QED BY <1>1, <1>4, <2>4, NothingToStart DEF m
<1>5. CASE l.pri = "ConfDataWait" /\ Len(l.segments) > 1
  <2> DEFINE i == CancelTimer([f EXCEPT !.nextWriteFCB = ~@])
             x == [i EXCEPT !.segments = Tail(@)]
  <2>1. d = Pri(SendSegment(x, TRUE), "ConfUserDataTransmitWait")
    BY <1>1, <1>2, <1>5 DEF SenderBody, Sender, OnAck, CancelTimer
  <2>5. Tail(l.segments) \in Seq(Nat) /\ Tail(l.segments) # <<>>
    <3>1. l.segments \in Seq(Nat) /\ Len(l.segments) > 1
      BY <1>5, <1>2 DEF SenderBody, Sender
    <3> QED BY <3>1, TailType
  <2>2. SenderBody(x) /\ x.txMode = "Idle" /\ ~x.rspTimer /\ x.isOnline /\ x.isRemoteReset
          /\ x.segments = Tail(l.segments) /\ x.segments # <<>> /\ x.sent = <<>> /\ x.results = <<>>
          /\ x.nextWriteFCB = ~l.nextWriteFCB
    <3>1. f.nextWriteFCB \in BOOLEAN /\ x.nextWriteFCB = ~f.nextWriteFCB
      BY <1>2 DEF SenderBody, Sender, CancelTimer
    <3>2. x.segments = Tail(l.segments) /\ x.segments # <<>> /\ SenderBody(x)
      BY <2>5, <3>1, <1>2, <1>5 DEF SenderBody, Sender, CancelTimer
    <3>3. x.txMode = "Idle" /\ ~x.rspTimer /\ x.isOnline /\ x.isRemoteReset /\ x.sent = <<>>
            /\ x.results = <<>>
      BY <1>2, <1>5 DEF SenderBody, Sender, CancelTimer
    <3> QED BY <3>1, <3>2, <3>3, <1>2
  <2> HIDE DEF x, i
  <2>4. Settled(d) /\ Advances(l, d)
    BY <2>1, <2>2, <1>5, SegmentSent DEF Advances, SendsData
  <2> QED BY <1>1, <1>5, <2>4, NothingToStart DEF m
<1>6. CASE l.pri = "ConfDataWait" /\ ~(Len(l.segments) > 1)
  <2> DEFINE i == CancelTimer([f EXCEPT !.nextWriteFCB = ~@])
  <2>1. d = CompleteSendOperation(i, TRUE)
    BY <1>1, <1>2, <1>6 DEF SenderBody, Sender, OnAck, CancelTimer
  <2>2. SenderBody(i) /\ i.isOnline /\ i.txMode = "Idle" /\ ~i.rspTimer /\ i.sent = <<>>
          /\ i.results = <<>>
          /\ (i.isRemoteReset <=> l.isRemoteReset) /\ i.nextWriteFCB = ~l.nextWriteFCB
    <3>1. f.nextWriteFCB \in BOOLEAN /\ i.nextWriteFCB = ~f.nextWriteFCB
      BY <1>2 DEF SenderBody, Sender, CancelTimer
    <3>2. SenderBody(i) /\ i.isRemoteReset
      BY <3>1, <1>2, <1>6 DEF SenderBody, Sender, CancelTimer
    <3>3. i.txMode = "Idle" /\ ~i.rspTimer /\ i.isOnline /\ i.sent = <<>> /\ i.results = <<>>
      BY <1>2, <1>6 DEF SenderBody, Sender, CancelTimer
    <3> QED BY <3>1, <3>2, <3>3, <1>2, <1>6 DEF Sender
  <2> HIDE DEF i
  <2>3. Paused(d) /\ d.sent = <<>> /\ d.segments = <<>>
          /\ (d.isRemoteReset <=> l.isRemoteReset) /\ d.results = <<TRUE>>
                  /\ d.nextWriteFCB = ~l.nextWriteFCB
    BY <2>1, <2>2, Completed
  <2>4. Phase(l) \in {"carrying", "resetting"} /\ Len(l.segments) = 1
    <3>1. l.segments \in Seq(Nat) /\ l.segments # <<>> /\ ~(Len(l.segments) > 1)
      BY <1>2, <1>6 DEF SenderBody, Sender
    <3> QED BY <3>1, <1>6, LastOne DEF Phase
  <2>5. Settled(m) /\ Ends(l, m, TRUE)
    BY <1>1, <1>6, <2>3, <2>4, SendOver
  <2> QED BY <2>5 DEF m
<1> QED BY <1>3, <1>4, <1>5, <1>6

\* The fields of a context that an entry point has just cleared of what the
\* one before it left.
LEMMA FreshFields ==
    ASSUME NEW l, Quiet(l)
    PROVE  LET f == Fresh(l)
           IN  /\ Sender(f) /\ f.sent = <<>> /\ f.results = <<>> /\ f.pri = l.pri
               /\ f.segments = l.segments /\ f.nextWriteFCB = l.nextWriteFCB
               /\ (f.isRemoteReset <=> l.isRemoteReset) /\ (f.isOnline <=> l.isOnline)
               /\ (f.keepAliveTimeout <=> l.keepAliveTimeout)
BY DEF Quiet, SenderBody, Sender, Fresh

\* The end of a send that waits for an ACK, and of a probe.
LEMMA WaitOver ==
    ASSUME NEW l, NEW f, Quiet(l), l.pri \in Awaiting, SenderBody(f), f.txMode = "Idle",
           ~f.rspTimer, f.isOnline, f.sent = <<>>, f.results = <<>>, f.segments = l.segments,
           f.nextWriteFCB = l.nextWriteFCB, f.isRemoteReset <=> l.isRemoteReset
    PROVE  /\ l.pri # "RequestLinkStatusWait" =>
                 LET m == TryStartTransmission(CompleteSendOperation(f, FALSE))
                 IN  Settled(m) /\ Ends(l, m, FALSE)
           /\ l.pri = "RequestLinkStatusWait" =>
                 LET m == TryStartTransmission(Pri(f, "Idle"))
                 IN  Settled(m) /\ ProbeEnds(l, m)
<1>1. ASSUME l.pri # "RequestLinkStatusWait"
      PROVE  LET m == TryStartTransmission(CompleteSendOperation(f, FALSE))
             IN  Settled(m) /\ Ends(l, m, FALSE)
  <2> DEFINE c == CompleteSendOperation(f, FALSE)
  <2>1. Paused(c) /\ c.sent = <<>> /\ c.segments = <<>> /\ (c.isRemoteReset <=> l.isRemoteReset)
          /\ c.results = <<FALSE>> /\ c.nextWriteFCB = l.nextWriteFCB
    BY Completed
  <2>2. Phase(l) \in {"carrying", "resetting"}
    BY <1>1 DEF Phase
  <2> HIDE DEF c
  <2>3. Settled(TryStartTransmission(c)) /\ Ends(l, TryStartTransmission(c), FALSE)
    BY <2>1, <2>2, SendOver
  <2> QED BY <2>3 DEF c
<1>2. ASSUME l.pri = "RequestLinkStatusWait"
      PROVE  LET m == TryStartTransmission(Pri(f, "Idle"))
             IN  Settled(m) /\ ProbeEnds(l, m)
  <2> DEFINE c == Pri(f, "Idle")
  <2>1. Paused(c) /\ Keeps(l, c) /\ c.sent = <<>>
    <3>1. SenderBody(c) /\ c.pri = "Idle" /\ c.sent = <<>> /\ c.results = <<>>
            /\ c.segments = l.segments
            /\ c.nextWriteFCB = l.nextWriteFCB
      BY DEF SenderBody, Pri
    <3>2. (c.isRemoteReset <=> l.isRemoteReset) /\ c.isOnline /\ ~c.rspTimer /\ c.txMode = "Idle"
      BY DEF SenderBody, Pri
    <3> HIDE DEF c
    <3> QED BY <3>1, <3>2 DEF Paused, Keeps, Sender
  <2>2. Phase(l) = "probing"
    BY <1>2 DEF Phase
  <2> HIDE DEF c
  <2>3. Settled(TryStartTransmission(c)) /\ ProbeEnds(l, TryStartTransmission(c))
    BY <2>1, <2>2, ProbeOver
  <2> QED BY <2>3 DEF c
<1> QED BY <1>1, <1>2

\* The peer answered with its link status.
LEMMA StatusMoves ==
    ASSUME NEW l, Quiet(l), l.isOnline
    PROVE  LET m == OnFrame(l, LinkStatus)
           IN  /\ Settled(m)
               /\ \/ Rests(l, m) /\ l.pri \notin Awaiting /\ m.pri = l.pri
                  \/ Ends(l, m, FALSE)
                  \/ ProbeEnds(l, m) /\ l.pri = "RequestLinkStatusWait"
<1> DEFINE m == OnFrame(l, LinkStatus)
           f == Fresh(l)
           d == Dispatch(f, LinkStatus)
           t == CancelTimer(f)
<1>1. m = TryStartTransmission(d) /\ d = OnOtherResponse(f)
  BY DEF OnFrame, Dispatch, LinkStatus, Frame
<1>2. Sender(f) /\ f.sent = <<>> /\ f.results = <<>> /\ f.pri = l.pri /\ f.segments = l.segments
        /\ f.nextWriteFCB = l.nextWriteFCB /\ (f.isRemoteReset <=> l.isRemoteReset) /\ f.isOnline
        /\ (f.keepAliveTimeout <=> l.keepAliveTimeout)
  BY FreshFields
<1> HIDE DEF f, d, m
<1>3. CASE l.pri \notin Awaiting
  <2>1. d = f
    BY <1>1, <1>2, <1>3 DEF OnOtherResponse
  <2>2. Settled(f) /\ Rests(l, f)
    BY <1>2 DEF Settled, Quiet, Rests, Keeps, Phase
  <2> QED BY <1>1, <1>2, <1>3, <2>1, <2>2, NothingToStart DEF m
<1>4. CASE l.pri \in Awaiting
  <2>1. SenderBody(t) /\ t.txMode = "Idle" /\ t.isOnline /\ ~t.rspTimer
    BY <1>2, <1>4 DEF SenderBody, Sender, CancelTimer
  <2>2. t.sent = <<>> /\ t.results = <<>> /\ t.segments = l.segments
          /\ t.nextWriteFCB = l.nextWriteFCB /\ (t.isRemoteReset <=> l.isRemoteReset)
    BY <1>2 DEF SenderBody, Sender, CancelTimer
  <2>3. l.pri # "RequestLinkStatusWait" => d = CompleteSendOperation(t, FALSE)
    BY <1>1, <1>2, <1>4 DEF OnOtherResponse, Fail
  <2>4. l.pri = "RequestLinkStatusWait" => d = Pri(t, "Idle")
    BY <1>1, <1>2, <1>4 DEF OnOtherResponse
  <2> HIDE DEF t
  <2>5. Settled(m) /\ (Ends(l, m, FALSE) \/ (ProbeEnds(l, m) /\ l.pri = "RequestLinkStatusWait"))
    BY <1>1, <1>4, <2>1, <2>2, <2>3, <2>4, WaitOver
  <2> QED BY <2>5 DEF m
<1> QED BY <1>3, <1>4

\* No answer came in time.
LEMMA TimeoutMoves ==
    ASSUME NEW l, Quiet(l), l.rspTimer
    PROVE  LET m == ResponseTimeout(l)
           IN  /\ Settled(m)
               /\ \/ ResetsLink(l, m) /\ l.pri = "ResetLinkWait"
                  \/ Repeats(l, m)
                  \/ Ends(l, m, FALSE)
                  \/ ProbeEnds(l, m) /\ l.pri = "RequestLinkStatusWait"
<1> DEFINE m == ResponseTimeout(l)
           f == Fresh(l)
           t == CancelTimer(f)
           d == PriOnTimeout(t)
<1>1. m = TryStartTransmission(d)
  BY DEF ResponseTimeout
<1>2. Sender(f) /\ f.sent = <<>> /\ f.results = <<>> /\ f.pri = l.pri /\ f.segments = l.segments
        /\ f.nextWriteFCB = l.nextWriteFCB /\ (f.isRemoteReset <=> l.isRemoteReset)
  BY FreshFields
<1>3. l.pri \in Awaiting /\ l.isOnline /\ f.isOnline
  BY FreshFields DEF Quiet, SenderBody, Sender
<1>4. SenderBody(t) /\ t.txMode = "Idle" /\ t.isOnline /\ ~t.rspTimer
  BY <1>2, <1>3 DEF SenderBody, Sender, CancelTimer
<1>5. t.sent = <<>> /\ t.results = <<>> /\ t.segments = l.segments /\ t.pri = l.pri
        /\ t.nextWriteFCB = l.nextWriteFCB /\ (t.isRemoteReset <=> l.isRemoteReset)
  BY <1>2 DEF SenderBody, Sender, CancelTimer
<1> HIDE DEF f, t, d, m
<1>6. CASE l.pri = "RequestLinkStatusWait" \/ ~CanRetry(t)
  <2>1. l.pri # "RequestLinkStatusWait" => d = CompleteSendOperation(t, FALSE)
    BY <1>3, <1>5, <1>6 DEF PriOnTimeout, d
  <2>2. l.pri = "RequestLinkStatusWait" => d = Pri(t, "Idle")
    BY <1>5 DEF PriOnTimeout, d
  <2>3. Settled(m) /\ (Ends(l, m, FALSE) \/ (ProbeEnds(l, m) /\ l.pri = "RequestLinkStatusWait"))
    BY <1>1, <1>3, <1>4, <1>5, <2>1, <2>2, WaitOver
  <2> QED BY <2>3 DEF m
<1> DEFINE x == Retry(t)
<1>7. SenderBody(x) /\ x.txMode = "Idle" /\ x.isOnline /\ ~x.rspTimer
  BY <1>4 DEF SenderBody, Retry
<1>8. x.sent = <<>> /\ x.results = <<>> /\ x.segments = l.segments
        /\ x.nextWriteFCB = l.nextWriteFCB /\ (x.isRemoteReset <=> l.isRemoteReset)
  BY <1>4, <1>5 DEF SenderBody, Retry
<1>9. CASE l.pri = "ConfDataWait" /\ CanRetry(t)
  <2>1. d = Pri(SendSegment(x, TRUE), "ConfUserDataTransmitWait")
    BY <1>5, <1>9 DEF PriOnTimeout, d
  <2>2. x.segments # <<>> /\ x.isRemoteReset
    BY <1>8, <1>9 DEF Quiet, SenderBody, Sender
  <2> HIDE DEF x
  <2>3. Settled(d) /\ Repeats(l, d)
    BY <1>7, <1>8, <1>9, <2>1, <2>2, SegmentSent DEF Repeats, SendsData
  <2> QED BY <1>1, <2>3, NothingToStart DEF m
<1>10. CASE l.pri = "ResetLinkWait" /\ CanRetry(t)
  <2>1. d = [x EXCEPT !.overwrote = d.overwrote, !.txMode = "Primary",
                      !.sent = Append(@, ResetLinks), !.pri = "LinkResetTransmitWait"]
    <3>1. d = Pri(QueuePrimary(x, ResetLinks), "LinkResetTransmitWait")
      BY <1>5, <1>10 DEF PriOnTimeout, d
    <3> HIDE DEF x
    <3> QED BY <3>1, <1>7 DEF SenderBody, QueuePrimary, BeginTransmit, Pri
  <2>2. x.segments # <<>> /\ ~x.isRemoteReset
    BY <1>8, <1>10 DEF Quiet, SenderBody, Sender
  <2> HIDE DEF x
  <2>3. d.segments = l.segments /\ d.nextWriteFCB = l.nextWriteFCB /\ d.results = <<>>
          /\ ~d.isRemoteReset
          /\ d.isOnline /\ d.pri = "LinkResetTransmitWait" /\ ~d.rspTimer /\ d.txMode = "Primary"
    BY <2>1, <2>2, <1>7, <1>8 DEF SenderBody
  <2>4. d.sent = <<ResetLinks>>
    <3>1. d.sent = Append(x.sent, ResetLinks)
      BY <2>1, <1>7 DEF SenderBody
    <3> QED BY <3>1, <1>8
  <2>5. SenderBody(d)
    BY <2>1, <2>3, <1>7, <1>8 DEF SenderBody
  <2>6. Settled(d) /\ ResetsLink(l, d)
    BY <2>2, <2>3, <2>4, <2>5, <1>8, <1>10 DEF Settled, Sender, ResetsLink, Keeps, Phase
  <2> QED BY <1>1, <1>10, <2>6, NothingToStart DEF m
<1> QED BY <1>3, <1>6, <1>9, <1>10

\* The keep-alive timer fired: an idle station asks at once, another later.
LEMMA KeepAliveMoves ==
    ASSUME NEW l, Quiet(l), l.isOnline
    PROVE  LET m == KeepAliveTimeout(l, TRUE)
           IN  /\ Settled(m)
               /\ \/ Rests(l, m) /\ m.pri = l.pri
                  \/ Probes(l, m) /\ l.pri = "Idle"
<1> DEFINE m == KeepAliveTimeout(l, TRUE)
           f == Fresh(l)
           k == [f EXCEPT !.keepAliveTimeout = TRUE]
<1>1. m = TryStartTransmission(k)
  BY DEF KeepAliveTimeout
<1>2. Sender(f) /\ f.sent = <<>> /\ f.results = <<>> /\ f.pri = l.pri /\ f.segments = l.segments
        /\ f.nextWriteFCB = l.nextWriteFCB /\ (f.isRemoteReset <=> l.isRemoteReset) /\ f.isOnline
  BY FreshFields
<1> HIDE DEF f, m
<1>3. Sender(k) /\ k.sent = <<>> /\ k.results = <<>> /\ k.pri = l.pri /\ k.segments = l.segments
        /\ k.nextWriteFCB = l.nextWriteFCB /\ (k.isRemoteReset <=> l.isRemoteReset) /\ k.isOnline
        /\ k.keepAliveTimeout
  BY <1>2 DEF SenderBody, Sender
<1> HIDE DEF k
<1>4. CASE l.pri # "Idle"
  <2>1. Settled(k) /\ Rests(l, k)
    BY <1>3, <1>4 DEF Settled, Rests, Keeps, Phase
  <2> QED BY <1>1, <1>3, <2>1, NothingToStart DEF m
<1>5. CASE l.pri = "Idle"
  <2>1. Started(k,
       m) /\ m.pri = "RequestLinkStatusTransmitWait" /\ m.sent = <<RequestLinkStatus>>
    <3>1. Started(k, m)
      BY <1>1, <1>3, StartMoves
    <3>2. m.pri = "RequestLinkStatusTransmitWait"
      BY <1>1, <1>3, <1>5 DEF SenderBody, Sender, TryStartTransmission,
           TrySendRequestLinkStatus,
         TrySendConfirmed, QueuePrimary, BeginTransmit, Pri
    <3> QED BY <3>1, <3>2, <1>3, <1>5 DEF Started
  <2>2. Settled(m) /\ Probes(l, m)
    BY <2>1, <1>3, <1>5 DEF Started, Settled, Probes, Keeps, Phase
  <2> QED BY <2>2, <1>5 DEF m
<1> QED BY <1>4, <1>5

\* What the transport layer hands over is sent when the station is idle.
Loads(l, m, s) ==
    /\ m.isOnline
    /\ m.segments = s
    /\ m.results = <<>>
    /\ m.nextWriteFCB = l.nextWriteFCB
    /\ m.isRemoteReset <=> l.isRemoteReset
    /\ \/ Phase(l) = "probing" /\ m.pri = l.pri /\ m.sent = <<>>
       \/ l.pri = "Idle" /\ m.pri = "LinkResetTransmitWait" /\ ~l.isRemoteReset
                         /\ m.sent = <<ResetLinks>>
       \/ l.pri = "Idle" /\ m.pri = "ConfUserDataTransmitWait" /\ l.isRemoteReset
                         /\ m.sent = <<DataFrame(m)>>

\* SetTxSegment and what it starts.
LEMMA SendMoves ==
    ASSUME NEW l, Quiet(l), l.isOnline, l.segments = <<>>, NEW s \in Seq(Nat), s # <<>>
    PROVE  Settled(Send(l, s)) /\ Loads(l, Send(l, s), s)
<1> DEFINE m == Send(l, s)
           f == Fresh(l)
           k == [f EXCEPT !.segments = s]
<1>1. m = TryStartTransmission(k)
  BY DEF Send
<1>2. Sender(f) /\ f.sent = <<>> /\ f.results = <<>> /\ f.pri = l.pri /\ f.segments = l.segments
        /\ f.nextWriteFCB = l.nextWriteFCB /\ (f.isRemoteReset <=> l.isRemoteReset) /\ f.isOnline
        /\ (f.keepAliveTimeout <=> l.keepAliveTimeout)
  BY FreshFields
<1> HIDE DEF f, m
<1>3. SenderBody(k) /\ k.segments = s /\ k.sent = <<>> /\ k.results = <<>> /\ k.pri = l.pri
        /\ k.nextWriteFCB = l.nextWriteFCB
  BY <1>2 DEF SenderBody, Sender
<1>4. (k.isRemoteReset <=> l.isRemoteReset) /\ k.isOnline
        /\ (k.keepAliveTimeout <=> l.keepAliveTimeout)
        /\ (k.rspTimer <=> f.rspTimer) /\ k.txMode = f.txMode
  BY <1>2 DEF SenderBody, Sender
<1>5. Phase(l) = "probing" \/ l.pri = "Idle"
  BY DEF Quiet, SenderBody, Sender, Phase
<1> HIDE DEF k
<1>6. Sender(k)
  BY <1>2, <1>3, <1>4, <1>5 DEF Sender, Phase
<1>7. CASE Phase(l) = "probing"
  <2>1. Settled(k) /\ Loads(l, k, s)
    BY <1>3, <1>4, <1>6, <1>7 DEF Settled, Loads, Phase
  <2> QED BY <1>1, <2>1, NothingToStart DEF m
<1>8. CASE l.pri = "Idle"
  <2>1. Started(k, m)
    BY <1>1, <1>4, <1>6, StartMoves
  <2>2. ~k.keepAliveTimeout
    BY <1>4, <1>8 DEF Quiet
  <2>3. m.pri # "Idle" /\ m.pri # "RequestLinkStatusTransmitWait"
    <3>1. m.pri # "Idle"
      BY <2>1, <1>3 DEF Started
    <3>2. m = TrySendConfirmed(k)
      BY <1>1, <2>2, <1>3, <1>6 DEF SenderBody, Sender, TryStartTransmission
    <3>3. m.pri \in {"ConfUserDataTransmitWait", "LinkResetTransmitWait"}
      BY <3>2, <1>3, <1>6, <1>8 DEF SenderBody, Sender, TrySendConfirmed, Pri,
           SendSegment,
         ResetRetry, QueuePrimary, BeginTransmit
    <3> QED BY <3>1, <3>3
  <2>4. DataFrame(m) = DataFrame(k)
    BY <2>1 DEF Started, DataFrame
  <2>5. Settled(m) /\ Loads(l, m, s)
    BY <2>1, <2>3, <2>4, <1>3, <1>4, <1>8 DEF Started, Settled, Loads
  <2> QED BY <2>5 DEF m
<1> QED BY <1>5, <1>7, <1>8

\* What is left of an entry point when its frames and results are taken.
LEMMA SettledFresh ==
    ASSUME NEW m, Settled(m)
    PROVE  LET f == Fresh(m)
           IN  /\ Quiet(f) /\ f.pri = m.pri /\ f.segments = m.segments
               /\ f.nextWriteFCB = m.nextWriteFCB /\ (f.isRemoteReset <=> m.isRemoteReset)
               /\ (f.isOnline <=> m.isOnline)
BY DEF Settled, Quiet, SenderBody, Sender, Fresh

\* OnLowerLayerUp of the station that sends.
LEMMA UpSender ==
    ASSUME NEW l, Quiet(l), ~l.isOnline
    PROVE  LET m == LowerLayerUp(l)
           IN  /\ Quiet(m) /\ m.isOnline /\ m.pri = "Idle" /\ m.segments = <<>> /\ ~m.isRemoteReset
               /\ m.nextWriteFCB = l.nextWriteFCB
BY DEF Quiet, SenderBody, Sender, LowerLayerUp, Fresh

\* OnLowerLayerDown: nothing is left to send, and the frame count bit stays.
LEMMA DownSender ==
    ASSUME NEW l, Quiet(l)
    PROVE  LET m == LowerLayerDown(l)
           IN  /\ Quiet(m) /\ ~m.isOnline /\ m.pri = "Idle" /\ m.segments = <<>> /\ ~m.isRemoteReset
               /\ m.nextWriteFCB = l.nextWriteFCB
<1> DEFINE m == LowerLayerDown(l)
<1>1. DOMAIN m = LinkFields /\ m.useConfirms /\ ~m.keepAliveTimeout /\ ~m.rspTimer
        /\ m.nextWriteFCB = l.nextWriteFCB /\ m.nextWriteFCB \in BOOLEAN /\ m.up = <<>>
  BY DEF Quiet, SenderBody, Sender, LowerLayerDown, Fresh, CancelTimer
<1>2. m.segments = <<>> /\ m.pendingPri = NoFrame /\ m.pendingSec = NoFrame /\ m.pri = "Idle"
        /\ m.txMode = "Idle"
  BY DEF Quiet, SenderBody, Sender, LowerLayerDown, Fresh, CancelTimer
<1>3. m.sent = <<>> /\ m.results = <<>> /\ ~m.isOnline /\ ~m.isRemoteReset
  BY DEF Quiet, SenderBody, Sender, LowerLayerDown, Fresh, CancelTimer
<1> HIDE DEF m
<1>4. m.keepAliveTimeout \in BOOLEAN
  <2>1. m.keepAliveTimeout = FALSE
    BY DEF Quiet, SenderBody, Sender, LowerLayerDown, Fresh, CancelTimer, m
  <2> QED BY <2>1
<1>5. Quiet(m)
  BY <1>1, <1>2, <1>3, <1>4 DEF Quiet, SenderBody, Sender
<1> QED BY <1>1, <1>2, <1>3, <1>5 DEF m

----------------------------------------------------------------------------
\* The station that receives: its primary station never transmits.
Receiver(l) ==
    /\ DOMAIN l = LinkFields
    /\ ~l.keepAliveTimeout
    /\ l.segments = <<>>
    /\ l.pri = "Idle"
    /\ l.pendingPri = NoFrame
    /\ l.pendingSec = NoFrame
    /\ l.sec \in {"NotReset", "Reset", "TransmitWaitReset", "TransmitWaitNotReset"}
    /\ l.txMode = IF l.sec \in {"TransmitWaitReset", "TransmitWaitNotReset"}
                  THEN "Secondary" ELSE "Idle"
    /\ l.nextReadFCB \in BOOLEAN
    /\ l.sec # "NotReset" => l.isOnline

Listening(l) == Receiver(l) /\ l.sent = <<>> /\ l.up = <<>>

InReset(l) == l.sec \in {"Reset", "TransmitWaitReset"}

\* What the receiver made of a frame.
Ignored(l, m) == m.sent = <<>> /\ m.up = <<>> /\ m.nextReadFCB = l.nextReadFCB
                    /\ (InReset(m) <=> InReset(l)) /\ (m.txMode = "Idle" => l.txMode = "Idle")

Answered(l, m, f) == m.sent = <<f>> /\ m.txMode = "Secondary"

Accepted(l, m, d) ==
    /\ Answered(l, m, Ack)
    /\ InReset(l) /\ InReset(m)
    /\ m.up = <<d>>
    /\ m.nextReadFCB = ~l.nextReadFCB

Reacknowledged(l, m) ==
    /\ Answered(l, m, Ack)
    /\ InReset(l) /\ InReset(m)
    /\ m.up = <<>>
    /\ m.nextReadFCB = l.nextReadFCB

\* The receiver has nothing to send of its own.
LEMMA ReceiverIdle ==
    ASSUME NEW l, Receiver(l) PROVE TryStartTransmission(l) = l
BY DEF Receiver, TryStartTransmission

\* What is left of the receiver when its frames and segments are taken.
LEMMA FreshReceiver ==
    ASSUME NEW l, Receiver(l)
    PROVE  LET f == Fresh(l)
           IN  /\ Listening(f) /\ f.sec = l.sec /\ f.txMode = l.txMode
               /\ f.nextReadFCB = l.nextReadFCB /\ (f.isOnline <=> l.isOnline)
<1> DEFINE f == Fresh(l)
<1>1. f.sent = <<>> /\ f.up = <<>> /\ f.sec = l.sec /\ f.txMode = l.txMode
        /\ f.nextReadFCB = l.nextReadFCB /\ (f.isOnline <=> l.isOnline)
  BY DEF Receiver, Fresh
<1>2. DOMAIN f = LinkFields /\ ~f.keepAliveTimeout /\ f.segments = <<>> /\ f.pri = "Idle"
        /\ f.pendingPri = NoFrame /\ f.pendingSec = NoFrame
  BY DEF Receiver, Fresh
<1> HIDE DEF f
<1>3. Listening(f)
  BY <1>1, <1>2 DEF Receiver, Listening
<1> QED BY <1>1, <1>3 DEF f

\* The router has written the receiver's answer.
LEMMA AnswerWritten ==
    ASSUME NEW l, Listening(l), l.txMode # "Idle"
    PROVE  LET m == TransmitResult(l, TRUE)
           IN  /\ Receiver(m) /\ m.sent = <<>> /\ m.up = <<>> /\ m.nextReadFCB = l.nextReadFCB
               /\ (InReset(m) <=> InReset(l)) /\ m.txMode = "Idle" /\ m.isOnline
<1> DEFINE f == Fresh(l)
           m == TransmitResult(l, TRUE)
           c == [f EXCEPT !.txMode = "Idle", !.sec = IF InReset(l) THEN "Reset" ELSE "NotReset"]
<1>1. Listening(f) /\ f.sec = l.sec /\ f.txMode = l.txMode /\ f.nextReadFCB = l.nextReadFCB
        /\ (f.isOnline <=> l.isOnline)
  BY FreshReceiver DEF Listening
<1>2. m = TryStartTransmission(c)
  <2>1. l.txMode = "Secondary" /\ l.sec \in {"TransmitWaitReset", "TransmitWaitNotReset"}
    BY DEF Listening, Receiver
  <2> HIDE DEF f
  <2>2. TryPendingPri(TryPendingSec([f EXCEPT !.txMode = "Idle"]))
          = [f EXCEPT !.txMode = "Idle"]
    BY <1>1 DEF Listening, Receiver, TryPendingPri, TryPendingSec
  <2>3. SecOnTransmitResult([f EXCEPT !.txMode = "Idle"]) = c
    BY <1>1, <2>1 DEF Listening, Receiver, SecOnTransmitResult, Sec, InReset
  <2> HIDE DEF c
  <2>4. m = TryStartTransmission(SecOnTransmitResult([f EXCEPT !.txMode = "Idle"]))
    BY <2>1, <2>2 DEF TransmitResult, f
  <2> QED BY <2>3, <2>4
<1> HIDE DEF f, m
<1>3. c.sent = <<>> /\ c.up = <<>> /\ c.nextReadFCB = l.nextReadFCB /\ c.txMode = "Idle"
        /\ c.sec = (IF InReset(l) THEN "Reset" ELSE "NotReset")
  BY <1>1 DEF Listening, Receiver
<1>4. c.isOnline
  BY <1>1 DEF Listening, Receiver
<1>5. DOMAIN c = LinkFields /\ ~c.keepAliveTimeout /\ c.segments = <<>> /\ c.pri = "Idle"
        /\ c.pendingPri = NoFrame /\ c.pendingSec = NoFrame /\ c.nextReadFCB \in BOOLEAN
  BY <1>1 DEF Listening, Receiver
<1> HIDE DEF c
<1>6. Receiver(c) /\ (InReset(c) <=> InReset(l))
  BY <1>3, <1>4, <1>5 DEF Receiver, InReset
<1> QED BY <1>2, <1>3, <1>4, <1>6, ReceiverIdle DEF m

\* An answer is queued when none is under way.
LEMMA AnswerQueued ==
    ASSUME NEW l, Listening(l), l.isOnline, l.txMode = "Idle", NEW f, NEW s,
           s \in {"TransmitWaitReset", "TransmitWaitNotReset"}
    PROVE  LET q == Sec(QueueSecondary(l, f), s)
           IN  /\ Receiver(q) /\ q.isOnline /\ q.sec = s /\ q.sent = <<f>> /\ q.up = <<>>
               /\ q.nextReadFCB = l.nextReadFCB /\ q.txMode = "Secondary"
<1> DEFINE q == Sec(QueueSecondary(l, f), s)
<1>1. q = [l EXCEPT !.overwrote = q.overwrote, !.txMode = "Secondary", !.sent = Append(@, f),
     !.sec = s]
  BY DEF Listening, Receiver, QueueSecondary, BeginTransmit, Sec
<1> HIDE DEF q
<1>2. q.sent = Append(l.sent, f)
  BY <1>1 DEF Listening, Receiver
<1>3. q.isOnline
  BY <1>1 DEF Listening, Receiver
<1>4. q.sec = s /\ q.up = <<>> /\ q.nextReadFCB = l.nextReadFCB /\ q.txMode = "Secondary"
        /\ DOMAIN q = LinkFields /\ q.segments = <<>> /\ q.pri = "Idle"
        /\ q.pendingPri = NoFrame /\ q.pendingSec = NoFrame
  BY <1>1 DEF Listening, Receiver
<1>5. ~q.keepAliveTimeout
  BY <1>1 DEF Listening, Receiver
<1>6. q.sent = <<f>>
  BY <1>2 DEF Listening
<1>7. Receiver(q)
  BY <1>3, <1>4, <1>5 DEF Listening, Receiver
<1> QED BY <1>3, <1>4, <1>6, <1>7 DEF q

\* While an answer is under way every frame is ignored.
LEMMA IgnoresWhileBusy ==
    ASSUME NEW l, Listening(l), l.isOnline, l.txMode # "Idle", NEW f,
           f.func \in {"PRI_RESET_LINK_STATES", "PRI_REQUEST_LINK_STATUS",
                "PRI_CONFIRMED_USER_DATA"}
    PROVE  LET m == OnFrame(l, f) IN Receiver(m) /\ m.isOnline /\ Ignored(l, m)
<1> DEFINE r == Fresh(l)
           m == OnFrame(l, f)
<1>1. Listening(r) /\ r.sec = l.sec /\ r.txMode = l.txMode /\ r.nextReadFCB = l.nextReadFCB
        /\ (r.isOnline <=> l.isOnline)
  BY FreshReceiver DEF Listening
<1>2. r.sec \in {"TransmitWaitReset", "TransmitWaitNotReset"}
  BY <1>1 DEF Listening, Receiver
<1>3. m = TryStartTransmission(Dispatch(r, f))
  BY DEF OnFrame
<1> HIDE DEF r, m
<1>4. Dispatch(r, f) = r
  BY <1>2 DEF Dispatch, OnResetLinkStates, OnRequestLinkStatus,
       OnConfirmedUserData,
     SecTransmitWait
<1>5. m = r
  BY <1>1, <1>3, <1>4, ReceiverIdle DEF Listening
<1> QED BY <1>1, <1>5 DEF Listening, Ignored, InReset, m

\* A reset is acknowledged, unless an answer is under way.
LEMMA ResetMoves ==
    ASSUME NEW l, Listening(l), l.isOnline
    PROVE  LET m == OnFrame(l, ResetLinks)
           IN  /\ Receiver(m) /\ m.isOnline
               /\ \/ Ignored(l, m)
                  \/ Answered(l, m, Ack) /\ m.up = <<>> /\ InReset(m) /\ m.nextReadFCB
<1> DEFINE r == Fresh(l)
           m == OnFrame(l, ResetLinks)
           q == Sec(QueueSecondary(r, Ack), "TransmitWaitReset")
           d == OnResetLinkStates(r)
<1>0. ResetLinks.func = "PRI_RESET_LINK_STATES"
  BY DEF ResetLinks, Frame
<1>1. Listening(r) /\ r.sec = l.sec /\ r.txMode = l.txMode /\ r.nextReadFCB = l.nextReadFCB
        /\ (r.isOnline <=> l.isOnline)
  BY FreshReceiver DEF Listening
<1>2. CASE l.txMode # "Idle"
  BY <1>0, <1>2, IgnoresWhileBusy
<1>3. CASE l.txMode = "Idle"
  <2>1. m = TryStartTransmission(d)
    BY <1>0 DEF OnFrame, Dispatch
  <2> HIDE DEF r, m, d
  <2>2. Receiver(q) /\ q.isOnline /\ q.sec = "TransmitWaitReset" /\ q.sent = <<Ack>>
          /\ q.up = <<>>
          /\ q.txMode = "Secondary"
    BY <1>1, <1>3, AnswerQueued
  <2>3. d = [q EXCEPT !.nextReadFCB = TRUE]
    <3> DEFINE w == QueueSecondary(r, Ack)
    <3>1. d = Sec([w EXCEPT !.nextReadFCB = TRUE], "TransmitWaitReset")
      BY <1>1, <1>3 DEF Listening, Receiver, d, OnResetLinkStates, SecTransmitWait
    <3>2. w = [w EXCEPT !.sec = w.sec] /\ DOMAIN w = LinkFields
      BY <1>1, <1>3 DEF Listening, Receiver, QueueSecondary, BeginTransmit
    <3> HIDE DEF w
    <3>3. q = [w EXCEPT !.sec = "TransmitWaitReset"]
      BY DEF Sec, w
    <3> QED BY <3>1, <3>2, <3>3 DEF Sec
  <2> HIDE DEF q
  <2>4. d.nextReadFCB = TRUE /\ d.sec = "TransmitWaitReset" /\ d.sent = <<Ack>> /\ d.up = <<>>
          /\ d.txMode = "Secondary" /\ d.isOnline
    BY <2>2, <2>3 DEF Receiver
  <2>5. DOMAIN d = LinkFields /\ ~d.keepAliveTimeout /\ d.segments = <<>> /\ d.pri = "Idle"
          /\ d.pendingPri = NoFrame /\ d.pendingSec = NoFrame
    BY <2>2, <2>3 DEF Receiver
  <2>6. Receiver(d) /\ d.isOnline /\ InReset(d) /\ d.nextReadFCB
    BY <2>4, <2>5 DEF Receiver, InReset
  <2> QED BY <2>1, <2>4, <2>6, ReceiverIdle DEF Answered, m
<1> QED BY <1>2, <1>3

\* A status request is answered, unless an answer is under way.
LEMMA RequestMoves ==
    ASSUME NEW l, Listening(l), l.isOnline
    PROVE  LET m == OnFrame(l, RequestLinkStatus)
           IN  /\ Receiver(m) /\ m.isOnline
               /\ \/ Ignored(l, m)
                  \/ Answered(l, m, LinkStatus) /\ m.up = <<>> /\ m.nextReadFCB = l.nextReadFCB
                        /\ (InReset(m) <=> InReset(l))
<1> DEFINE r == Fresh(l)
           m == OnFrame(l, RequestLinkStatus)
           s == IF r.sec = "Reset" THEN "TransmitWaitReset" ELSE "TransmitWaitNotReset"
           q == Sec(QueueSecondary(r, LinkStatus), s)
<1>0. RequestLinkStatus.func = "PRI_REQUEST_LINK_STATUS"
  BY DEF RequestLinkStatus, Frame
<1>1. Listening(r) /\ r.sec = l.sec /\ r.txMode = l.txMode /\ r.nextReadFCB = l.nextReadFCB
        /\ (r.isOnline <=> l.isOnline)
  BY FreshReceiver DEF Listening
<1>2. CASE l.txMode # "Idle"
  BY <1>0, <1>2, IgnoresWhileBusy
<1>3. CASE l.txMode = "Idle"
  <2>1. m = TryStartTransmission(OnRequestLinkStatus(r))
    BY <1>0 DEF OnFrame, Dispatch
  <2> HIDE DEF r, m
  <2>2. OnRequestLinkStatus(r) = q
    BY <1>1, <1>3 DEF Listening, Receiver, OnRequestLinkStatus, SecTransmitWait
  <2>3. s \in {"TransmitWaitReset", "TransmitWaitNotReset"}
    OBVIOUS
  <2>4. s = "TransmitWaitReset" <=> InReset(l)
    BY <1>1, <1>3 DEF Listening, Receiver, InReset
  <2> HIDE DEF s
  <2>5. Receiver(q) /\ q.isOnline /\ q.sec = s /\ q.sent = <<LinkStatus>> /\ q.up = <<>>
          /\ q.nextReadFCB = r.nextReadFCB /\ q.txMode = "Secondary"
    BY <1>1, <1>3, <2>3, AnswerQueued
  <2> HIDE DEF q
  <2>6. InReset(q) <=> InReset(l)
    BY <2>3, <2>4, <2>5 DEF InReset
  <2> QED BY <1>1, <2>1, <2>2, <2>5, <2>6, ReceiverIdle DEF Answered, m
<1> QED BY <1>2, <1>3

\* A segment is pushed up exactly when its bit is the one expected.
LEMMA DataMoves ==
    ASSUME NEW l, Listening(l), l.isOnline, NEW fcb \in BOOLEAN, NEW data
    PROVE  LET m == OnFrame(l, Frame("PRI_CONFIRMED_USER_DATA", fcb, data))
           IN  /\ Receiver(m) /\ m.isOnline
               /\ \/ Ignored(l, m)
                  \/ Accepted(l, m, data) /\ fcb = l.nextReadFCB
                  \/ Reacknowledged(l, m) /\ fcb # l.nextReadFCB
<1> DEFINE f == Frame("PRI_CONFIRMED_USER_DATA", fcb, data)
           r == Fresh(l)
           m == OnFrame(l, f)
           d == OnConfirmedUserData(r, fcb, data)
           w == QueueSecondary(r, Ack)
           q == Sec(w, "TransmitWaitReset")
<1>0. f.func = "PRI_CONFIRMED_USER_DATA" /\ f.fcb = fcb /\ f.data = data
  BY DEF Frame
<1> HIDE DEF f
<1>1. Listening(r) /\ r.sec = l.sec /\ r.txMode = l.txMode /\ r.nextReadFCB = l.nextReadFCB
        /\ (r.isOnline <=> l.isOnline)
  BY FreshReceiver DEF Listening
<1>2. CASE l.txMode # "Idle"
  BY <1>0, <1>2, IgnoresWhileBusy DEF f
<1>3. ASSUME l.txMode = "Idle" PROVE m = TryStartTransmission(d)
  BY <1>0 DEF OnFrame, Dispatch
<1> HIDE DEF r, m, d
<1>4. CASE l.txMode = "Idle" /\ l.sec # "Reset"
  <2>1. d = r
    BY <1>1, <1>4 DEF d, OnConfirmedUserData
  <2> QED BY <1>1, <1>3, <1>4, <2>1, ReceiverIdle DEF Listening, Ignored, InReset, m, f
<1>5. CASE l.txMode = "Idle" /\ l.sec = "Reset"
  <2>1. Receiver(q) /\ q.isOnline /\ q.sec = "TransmitWaitReset" /\ q.sent = <<Ack>>
          /\ q.up = <<>>
          /\ q.nextReadFCB = r.nextReadFCB /\ q.txMode = "Secondary"
    BY <1>1, <1>5, AnswerQueued
  <2>2. DOMAIN w = LinkFields
    BY <1>1 DEF Listening, Receiver, QueueSecondary, BeginTransmit
  <2> HIDE DEF w
  <2>3. q = [w EXCEPT !.sec = "TransmitWaitReset"]
    BY DEF Sec
  <2> HIDE DEF q
  <2>4. CASE fcb # l.nextReadFCB
    <3>1. d = q
      BY <1>1, <1>5, <2>3, <2>4 DEF d, OnConfirmedUserData, w, q
    <3>2. Receiver(m) /\ m.isOnline /\ Reacknowledged(l, m)
      BY <1>1, <1>3, <1>5, <2>1, <3>1, ReceiverIdle DEF Reacknowledged, Answered, InReset
    <3> QED BY <2>4, <3>2 DEF m, f
  <2>5. CASE fcb = l.nextReadFCB
    <3>1. d = Sec(PushDataUp([w EXCEPT !.nextReadFCB = ~@], data), "TransmitWaitReset")
      BY <1>1, <1>5, <2>5 DEF d, OnConfirmedUserData, w
    <3>2. d = [w EXCEPT !.nextReadFCB = ~@, !.up = Append(@, data), !.sec = "TransmitWaitReset"]
      BY <2>2, <3>1 DEF Sec, PushDataUp
    <3>3. d.nextReadFCB = ~w.nextReadFCB /\ d.sec = "TransmitWaitReset" /\ d.up = Append(w.up, data)
      BY <2>2, <3>2
    <3>4. \A x \in LinkFields \ {"nextReadFCB", "up", "sec"} : d[x] = w[x] /\ q[x] = w[x]
      BY <2>2, <2>3, <3>2
    <3>5. w.nextReadFCB = r.nextReadFCB /\ w.up = <<>>
      BY <2>1, <2>2, <2>3
    <3>6. DOMAIN d = LinkFields /\ d.sent = q.sent /\ d.keepAliveTimeout = q.keepAliveTimeout
            /\ d.segments = q.segments /\ d.pri = q.pri /\ d.pendingPri = q.pendingPri
            /\ d.pendingSec = q.pendingSec /\ d.txMode = q.txMode /\ d.isOnline = q.isOnline
      BY <2>2, <3>2, <3>4
    <3>7. d.nextReadFCB = ~l.nextReadFCB /\ l.nextReadFCB \in BOOLEAN /\ d.up = <<data>>
      BY <1>1, <3>3, <3>5 DEF Listening, Receiver
    <3>8. Receiver(d) /\ d.isOnline
      BY <2>1, <3>3, <3>6, <3>7 DEF Receiver
    <3>9. Accepted(l, d, data)
      BY <1>5, <2>1, <3>3, <3>6, <3>7 DEF Accepted, Answered, InReset
    <3>10. d = m
      BY <1>3, <1>5, <3>8, ReceiverIdle
    <3> QED BY <2>5, <3>8, <3>9, <3>10 DEF m, f
  <2> QED BY <2>4, <2>5
<1> QED BY <1>2, <1>4, <1>5

----------------------------------------------------------------------------
(* The frames on the line from a to b.  lat is the segment delivered last, *)
(* cur the one a is at (the next one it will be handed when it has none),  *)
(* carrying says that a has sent cur, wfcb and rfcb are the frame count    *)
(* bits of a and b, and linked says that a reset was acknowledged.         *)

ForwardFrames == [func : {"PRI_RESET_LINK_STATES", "PRI_REQUEST_LINK_STATUS",
                          "PRI_CONFIRMED_USER_DATA"},
                  fcb : BOOLEAN, data : Nat]

IsData(f)  == f.func = "PRI_CONFIRMED_USER_DATA"
IsReset(f) == f.func = "PRI_RESET_LINK_STATES"

\* Data comes in order, a segment always with the same bit, after all resets.
InOrder(q) ==
    /\ \A i, j \in DOMAIN q : i < j /\ IsData(q[i]) /\ IsData(q[j]) =>
            q[i].data <= q[j].data /\ (q[i].data = q[j].data => q[i].fcb = q[j].fcb)
    /\ \A i, j \in DOMAIN q : i < j /\ IsData(q[i]) => ~IsReset(q[j])

\* What b has is on the line with the bit that b no longer expects.
Behind(q, lat, rfcb) ==
    /\ \A i \in DOMAIN q : IsData(q[i]) =>
            lat <= q[i].data /\ (q[i].data = lat => q[i].fcb # rfcb)
    /\ \A i, j \in DOMAIN q : IsData(q[i]) /\ q[i].data = lat => ~IsReset(q[j])

\* What a has still to send is ahead of what is on the line and of what b has.
Ahead(q, carrying, wfcb, linked, lat, rfcb, cur) ==
    /\ \A i \in DOMAIN q : IsData(q[i]) =>
            /\ linked
            /\ IF carrying THEN q[i].data <= cur /\ (q[i].data = cur => q[i].fcb = wfcb)
                           ELSE q[i].data < cur
    /\ IF carrying THEN lat <= cur ELSE lat < cur
    /\ carrying /\ lat = cur => wfcb # rfcb /\ \A j \in DOMAIN q : ~IsReset(q[j])
    /\ carrying => linked

Line(q, carrying, wfcb, linked, lat, rfcb, cur) ==
    /\ q \in Seq(ForwardFrames)
    /\ InOrder(q)
    /\ Behind(q, lat, rfcb)
    /\ Ahead(q, carrying, wfcb, linked, lat, rfcb, cur)

\* The fields of the frames on the line.
LEMMA FrameTyped ==
    ASSUME NEW q \in Seq(ForwardFrames)
    PROVE  \A i \in DOMAIN q : q[i].data \in Nat /\ q[i].fcb \in BOOLEAN
<1>1. \A i \in DOMAIN q : q[i] \in ForwardFrames
  OBVIOUS
<1>2. \A f \in ForwardFrames : f.data \in Nat /\ f.fcb \in BOOLEAN
  BY DEF ForwardFrames
<1> QED BY <1>1, <1>2

\* Nothing is on the line, and what b has is behind a.
LEMMA LineEmpty ==
    ASSUME NEW carrying, ~carrying, NEW wfcb, NEW linked, NEW lat, NEW rfcb, NEW cur, lat < cur
    PROVE  Line(<<>>, carrying, wfcb, linked, lat, rfcb, cur)
BY DEF Line, InOrder, Behind, Ahead

\* A frame leaves the line, at either end.
LEMMA LineShorter ==
    ASSUME NEW q, NEW carrying, NEW wfcb, NEW linked, NEW lat, NEW rfcb, NEW cur,
           Line(q, carrying, wfcb, linked, lat, rfcb, cur), q # <<>>
    PROVE  /\ Line(Tail(q), carrying, wfcb, linked, lat, rfcb, cur)
           /\ Line(Front(q), carrying, wfcb, linked, lat, rfcb, cur)
<1>0. q \in Seq(ForwardFrames)
  BY DEF Line
<1>1. /\ Tail(q) \in Seq(ForwardFrames) /\ DOMAIN Tail(q) = 1 .. Len(q) - 1
      /\ \A i \in 1 .. Len(q) - 1 : Tail(q)[i] = q[i + 1] /\ i + 1 \in DOMAIN q
  BY <1>0
<1>2. /\ Front(q) \in Seq(ForwardFrames) /\ DOMAIN Front(q) = 1 .. Len(q) - 1
      /\ \A i \in 1 .. Len(q) - 1 : Front(q)[i] = q[i] /\ i \in DOMAIN q
  <2>1. Front(q) = SubSeq(q, 1, Len(q) - 1)
    BY DEF Front
  <2>2. Len(q) \in Nat /\ Len(q) # 0
    BY <1>1, <1>0
  <2> QED BY <1>0, <2>1, <2>2
<1> DEFINE t == Tail(q)
           r == Front(q)
<1> HIDE DEF t, r
<1>3. InOrder(t) /\ Behind(t, lat, rfcb) /\ Ahead(t, carrying, wfcb, linked, lat, rfcb, cur)
  <2>1. InOrder(t)
    BY <1>0, <1>1 DEF t, Line, InOrder
  <2>2. Behind(t, lat, rfcb)
    BY <1>0, <1>1 DEF t, Line, Behind
  <2>3. Ahead(t, carrying, wfcb, linked, lat, rfcb, cur)
    BY <1>0, <1>1 DEF t, Line, Ahead
  <2> QED BY <2>1, <2>2, <2>3
<1>4. InOrder(r) /\ Behind(r, lat, rfcb) /\ Ahead(r, carrying, wfcb, linked, lat, rfcb, cur)
  <2>1. InOrder(r)
    BY <1>0, <1>2 DEF r, Line, InOrder
  <2>2. Behind(r, lat, rfcb)
    BY <1>0, <1>2 DEF r, Line, Behind
  <2>3. Ahead(r, carrying, wfcb, linked, lat, rfcb, cur)
    BY <1>0, <1>2 DEF r, Line, Ahead
  <2> QED BY <2>1, <2>2, <2>3
<1> QED BY <1>1, <1>2, <1>3, <1>4 DEF Line, t, r

\* a goes on without data, or without anything, on the line.
LEMMA LineGoesOn ==
    ASSUME NEW q, NEW carrying, NEW wfcb, NEW linked, NEW lat \in Nat, NEW rfcb,
           NEW cur \in Nat, Line(q, carrying, wfcb, linked, lat, rfcb, cur),
           NEW carrying2, NEW wfcb2, NEW cur2 \in Nat,
           \/ carrying2 /\ carrying /\ cur2 = cur /\ wfcb2 = wfcb
           \/ ~carrying2 /\ cur2 >= cur /\ (carrying => cur2 > cur)
    PROVE  /\ Line(q, carrying2, wfcb2, linked, lat, rfcb, cur2)
           /\ \A f \in ForwardFrames : ~IsData(f) /\ (IsReset(f) => ~linked) =>
                  Line(Append(q, f), carrying2, wfcb2, linked, lat, rfcb, cur2)
<1>0. q \in Seq(ForwardFrames)
  BY DEF Line
<1>d. \A i \in DOMAIN q : IsData(q[i]) => q[i].data \in Nat
  BY <1>0, FrameTyped
<1>1. Ahead(q, carrying2, wfcb2, linked, lat, rfcb, cur2)
  BY <1>d DEF Line, Ahead
<1>2. Line(q, carrying2, wfcb2, linked, lat, rfcb, cur2)
  BY <1>1 DEF Line
<1>3. ASSUME NEW f \in ForwardFrames, ~IsData(f), IsReset(f) => ~linked
      PROVE  Line(Append(q, f), carrying2, wfcb2, linked, lat, rfcb, cur2)
  <2> DEFINE t == Append(q, f)
  <2>1. /\ t \in Seq(ForwardFrames) /\ DOMAIN t = 1 .. Len(q) + 1
        /\ \A i \in DOMAIN q : t[i] = q[i]
        /\ t[Len(q) + 1] = f /\ Len(q) \in Nat /\ DOMAIN q = 1 .. Len(q)
    BY <1>0
  <2> HIDE DEF t
  <2>2. \A i \in DOMAIN t : IsData(t[i]) => i \in DOMAIN q /\ t[i] = q[i] /\ linked
    BY <1>3, <2>1, <1>1 DEF Ahead
  <2>3. \A i \in DOMAIN t : 
          IsReset(t[i]) => (i \in DOMAIN q /\ t[i] = q[i]) \/ (i = Len(q) + 1 /\ ~linked)
    BY <1>3, <2>1
  <2>4. InOrder(t)
    BY <2>1, <2>2, <2>3 DEF Line, InOrder
  <2>5. Behind(t, lat, rfcb)
    BY <2>1, <2>2, <2>3 DEF Line, Behind
  <2>6. Ahead(t, carrying2, wfcb2, linked, lat, rfcb, cur2)
    BY <1>1, <2>1, <2>2, <2>3 DEF Ahead
  <2> QED BY <2>1, <2>4, <2>5, <2>6 DEF Line, t
<1> QED BY <1>2, <1>3

\* a sends the segment it is at.
LEMMA LineTakesData ==
    ASSUME NEW q, NEW carrying, NEW wfcb, NEW linked, NEW lat \in Nat, NEW rfcb,
           NEW cur \in Nat, Line(q, carrying, wfcb, linked, lat, rfcb, cur),
           NEW wfcb2, NEW cur2 \in Nat, cur2 >= cur,
           ~carrying \/ cur2 > cur \/ wfcb2 = wfcb, NEW yes, yes, NEW linked2, linked2,
           NEW f \in ForwardFrames, IsData(f), f.fcb = wfcb2, f.data = cur2
    PROVE  Line(Append(q, f), yes, wfcb2, linked2, lat, rfcb, cur2)
<1> DEFINE t == Append(q, f)
<1>0. q \in Seq(ForwardFrames) /\ ~IsReset(f)
  BY DEF Line, IsData, IsReset
<1>d. \A i \in DOMAIN q : IsData(q[i]) => q[i].data \in Nat /\ q[i].fcb \in BOOLEAN
  BY <1>0, FrameTyped
<1>1. /\ t \in Seq(ForwardFrames) /\ DOMAIN t = 1 .. Len(q) + 1
      /\ \A i \in DOMAIN q : t[i] = q[i]
      /\ t[Len(q) + 1] = f /\ Len(q) \in Nat /\ DOMAIN q = 1 .. Len(q)
  BY <1>0
<1> HIDE DEF t
<1>2. \A i \in DOMAIN q : IsData(q[i]) => q[i].data <= cur2
        /\ (q[i].data = cur2 => q[i].fcb = wfcb2)
  BY <1>d DEF Line, Ahead
<1>3. lat <= cur2 /\ (lat = cur2 => wfcb2 # rfcb /\ \A j \in DOMAIN q : ~IsReset(q[j]))
  BY DEF Line, Ahead
<1>4. InOrder(t)
  <2>1. \A i, j \in DOMAIN t : 
          i < j => i \in DOMAIN q /\ t[i] = q[i] /\ ((j \in DOMAIN q /\ t[j] = q[j]) \/ t[j] = f)
    BY <1>1
  <2> QED BY <2>1, <1>0, <1>2 DEF Line, InOrder
<1>5. Behind(t, lat, rfcb)
  <2>1. \A i \in DOMAIN t : (i \in DOMAIN q /\ t[i] = q[i]) \/ t[i] = f
    BY <1>1
  <2> QED BY <2>1, <1>0, <1>3 DEF Line, Behind
<1>6. Ahead(t, yes, wfcb2, linked2, lat, rfcb, cur2)
  <2>1. \A i \in DOMAIN t : (i \in DOMAIN q /\ t[i] = q[i]) \/ t[i] = f
    BY <1>1
  <2> QED BY <2>1, <1>0, <1>2, <1>3 DEF Ahead
<1> QED BY <1>1, <1>4, <1>5, <1>6 DEF Line, t

\* b takes a reset, and a segment with the bit it expects.
LEMMA LineReset ==
    ASSUME NEW q, NEW carrying, NEW wfcb, NEW linked, NEW lat \in Nat, NEW rfcb,
           NEW cur \in Nat, Line(q, carrying, wfcb, linked, lat, rfcb, cur), q # <<>>,
                IsReset(Head(q)),
           NEW rfcb2
    PROVE  Line(Tail(q), carrying, wfcb, linked, lat, rfcb2, cur)
<1>0. q \in Seq(ForwardFrames) /\ 1 \in DOMAIN q /\ IsReset(q[1])
  BY DEF Line
<1>1. Line(q, carrying, wfcb, linked, lat, rfcb2, cur)
  <2>1. \A i \in DOMAIN q : IsData(q[i]) => q[i].data # lat
    BY <1>0 DEF Line, Behind
  <2>2. ~(carrying /\ lat = cur)
    BY <1>0 DEF Line, Ahead
  <2>3. Behind(q, lat, rfcb2)
    BY <2>1 DEF Line, Behind
  <2>4. Ahead(q, carrying, wfcb, linked, lat, rfcb2, cur)
    BY <2>2 DEF Line, Ahead
  <2> QED BY <2>3, <2>4 DEF Line
<1> QED BY <1>1, LineShorter

\* A segment with the bit that b expects is newer than the one b has.
LEMMA LineAccepts ==
    ASSUME NEW q, NEW carrying, NEW wfcb, NEW linked, NEW lat \in Nat,
           NEW rfcb \in BOOLEAN,
           NEW cur \in Nat, Line(q, carrying, wfcb, linked, lat, rfcb, cur), q # <<>>,
                IsData(Head(q)),
           Head(q).fcb = rfcb
    PROVE  /\ Line(Tail(q), carrying, wfcb, linked, Head(q).data, ~rfcb, cur)
           /\ Head(q).data \in Nat /\ Head(q).data > lat
           /\ Head(q).data <= cur /\ (~carrying => Head(q).data < cur)
<1> DEFINE d == Head(q).data
<1>0. q \in Seq(ForwardFrames) /\ 1 \in DOMAIN q /\ Head(q) = q[1] /\ IsData(q[1])
  BY DEF Line
<1>d. \A i \in DOMAIN q : IsData(q[i]) => q[i].data \in Nat /\ q[i].fcb \in BOOLEAN
  BY <1>0, FrameTyped
<1>1. d \in Nat /\ d = q[1].data /\ q[1].fcb = rfcb
  BY <1>0, <1>d
<1> HIDE DEF d
<1>2. d > lat
  BY <1>0, <1>1 DEF Line, Behind
<1>3. d <= cur /\ (~carrying => d < cur) /\ (carrying /\ d = cur => wfcb = rfcb)
  BY <1>0, <1>1 DEF Line, Ahead
<1>4. \A j \in DOMAIN q : ~IsReset(q[j])
  BY <1>0 DEF Line, InOrder, IsReset, IsData
<1>5. \A i \in DOMAIN q : IsData(q[i]) => d <= q[i].data /\ (q[i].data = d => q[i].fcb = rfcb)
  <2>1. \A i \in DOMAIN q : i = 1 \/ 1 < i
    BY <1>0
  <2> QED BY <2>1, <1>0, <1>1, <1>d DEF Line, InOrder
<1>6. Behind(q, d, ~rfcb)
  BY <1>4, <1>5 DEF Behind
<1>7. Ahead(q, carrying, wfcb, linked, d, ~rfcb, cur)
  BY <1>3, <1>4 DEF Line, Ahead
<1>8. Line(q, carrying, wfcb, linked, d, ~rfcb, cur)
  BY <1>6, <1>7 DEF Line
<1>9. Line(Tail(q), carrying, wfcb, linked, d, ~rfcb, cur)
  BY <1>8, LineShorter
<1> QED BY <1>1, <1>2, <1>3, <1>9 DEF d

Linked(l) == IF l.isRemoteReset THEN TRUE ELSE FALSE

Carrier(l) == IF l.pri \in Carrying THEN TRUE ELSE FALSE

LineOf(q, l, lat, rfcb, cur) ==
    Line(q, Carrier(l), l.nextWriteFCB, Linked(l), lat, rfcb, cur)

\* The segments of a are the last ones that were handed over.
Numbered(s, last) ==
    /\ s \in Seq(Nat)
    /\ Len(s) <= last
    /\ \A i \in 1 .. Len(s) : s[i] = last - Len(s) + i

At(s, last) == last - Len(s) + 1

\* The segment a is at, and what happens to it when a segment is done.
LEMMA NumberedHead ==
    ASSUME NEW last \in Nat, NEW s, Numbered(s, last)
    PROVE  /\ At(s, last) \in Nat
           /\ s # <<>> => Head(s) = At(s, last) /\ At(s, last) <= last
           /\ Len(s) > 1 => Numbered(Tail(s), last) /\ At(Tail(s), last) = At(s, last) + 1
           /\ s = <<>> => At(s, last) = last + 1
           /\ At(s, last) <= last + 1
<1>0. s \in Seq(Nat) /\ Len(s) \in Nat /\ Len(s) <= last
  BY DEF Numbered
<1>1. At(s, last) \in Nat /\ At(s, last) <= last + 1
  BY <1>0 DEF At
<1>2. ASSUME s # <<>> PROVE Head(s) = At(s, last) /\ At(s, last) <= last
  <2>1. Tail(s) \in Seq(Nat) /\ Len(Tail(s)) = Len(s) - 1
    BY <1>0, <1>2
  <2>2. Len(Tail(s)) \in Nat
    BY <2>1
  <2>3. Len(s) >= 1
    BY <1>0, <2>1, <2>2
  <2>4. Head(s) = s[1]
    BY <1>0
  <2> QED BY <1>0, <2>3, <2>4 DEF Numbered, At
<1>3. ASSUME Len(s) > 1 PROVE Numbered(Tail(s), last) /\ At(Tail(s), last) = At(s, last) + 1
  <2>1. Tail(s) \in Seq(Nat) /\ Len(Tail(s)) = Len(s) - 1
          /\ \A i \in 1 .. Len(s) - 1 : Tail(s)[i] = s[i + 1]
    BY <1>0, <1>3
  <2> QED BY <1>0, <2>1 DEF Numbered, At
<1>4. s = <<>> => At(s, last) = last + 1
  BY DEF At
<1> QED BY <1>1, <1>2, <1>3, <1>4

\* Whether the link was reset, as a value.
LEMMA LinkedTyped ==
    ASSUME NEW l,
         NEW m PROVE Linked(l) \in BOOLEAN
                 /\ ((m.isRemoteReset <=> l.isRemoteReset) => Linked(m) = Linked(l))
BY DEF Linked

\* Whether the segment a is at was sent, as a value.
LEMMA CarrierTyped ==
    ASSUME NEW l PROVE Carrier(l) \in BOOLEAN /\ (Carrier(l) <=> l.pri \in Carrying)
BY DEF Carrier

\* The moves that put no data on the line.
Passes(l, m) ==
    \/ Rests(l, m) \/ Probes(l, m) \/ Idles(l, m) \/ ResetsLink(l, m)
    \/ Ends(l, m, TRUE) \/ Ends(l, m, FALSE)

Carries(l, m) == Begins(l, m) \/ Repeats(l, m) \/ Advances(l, m)

\* What the primary station is doing.
LEMMA Phases ==
    ASSUME NEW l, Sender(l)
    PROVE  /\ Phase(l) = "carrying" <=> l.pri \in Carrying
           /\ Phase(l) = "resetting" <=> l.pri \in Resetting
           /\ Phase(l) = "probing" <=> l.pri \in Probing
           /\ Phase(l) = "idle" <=> l.pri = "Idle"
BY DEF Sender, Phase

\* The frames without data.
LEMMA ControlFrames ==
    /\ ResetLinks \in ForwardFrames /\ RequestLinkStatus \in ForwardFrames
    /\ ~IsData(ResetLinks) /\ ~IsData(RequestLinkStatus)
    /\ IsReset(ResetLinks) /\ ~IsReset(RequestLinkStatus)
BY DEF ResetLinks, RequestLinkStatus, Frame, ForwardFrames, IsData, IsReset

\* A station puts at most one frame on the line.
LEMMA LineAppend ==
    ASSUME NEW q \in Seq(ForwardFrames), NEW f
    PROVE  q \o <<>> = q /\ (f \in ForwardFrames => q \o <<f>> = Append(q, f))
BY ConcatEmptySeq, AppendIsConcat

\* A move that sends no data keeps the line.
LEMMA PassesLine ==
    ASSUME NEW l, Quiet(l), NEW m, Settled(m), Passes(l, m), NEW q, NEW lat \in Nat, NEW rfcb,
         NEW last \in Nat,
           Numbered(l.segments, last), LineOf(q, l, lat, rfcb, At(l.segments, last))
    PROVE  Numbered(m.segments, last) /\ LineOf(q \o m.sent, m, lat, rfcb, At(m.segments, last))
<1> DEFINE cur == At(l.segments, last)
           cur2 == At(m.segments, last)
<1>0. q \in Seq(ForwardFrames)
  BY DEF LineOf, Line
<1>1. Linked(l) \in BOOLEAN /\ Linked(m) = Linked(l)
  BY LinkedTyped DEF Passes, Rests, Probes, Idles, ResetsLink, Keeps, Ends
<1>2. CASE Ends(l, m, TRUE) \/ Ends(l, m, FALSE)
  <2>1. m.segments = <<>> /\ m.pri \notin Carrying /\ l.segments # <<>>
    BY <1>2 DEF Ends, Phase, Quiet, Sender
  <2>2. Numbered(m.segments, last)
    BY <2>1 DEF Numbered
  <2>3. cur \in Nat /\ cur2 \in Nat /\ cur2 > cur
    BY <2>1, <2>2, NumberedHead
  <2>4. m.sent = <<>> \/ m.sent = <<RequestLinkStatus>>
    BY <1>2 DEF Ends
  <2> HIDE DEF cur, cur2
  <2>5. LineOf(q, m, lat, rfcb, cur2) /\ LineOf(Append(q, RequestLinkStatus), m, lat, rfcb,
       cur2)
    <3>1. Carrier(l) \in BOOLEAN /\ Carrier(m) \in BOOLEAN /\ ~Carrier(m)
      BY <2>1, CarrierTyped
    <3>2. Line(q, Carrier(l), l.nextWriteFCB, Linked(l), lat, rfcb, cur)
      BY DEF LineOf, cur
    <3>3. \A f \in ForwardFrames : ~IsData(f) /\ (IsReset(f) => ~Linked(l)) =>
                  Line(Append(q, f), Carrier(m), m.nextWriteFCB, Linked(l), lat, rfcb, cur2)
      BY <1>1, <2>3, <3>1, <3>2, LineGoesOn
    <3>4. Line(q, Carrier(m), m.nextWriteFCB, Linked(l), lat, rfcb, cur2)
      BY <1>1, <2>3, <3>1, <3>2, LineGoesOn
    <3> QED BY <1>1, <3>3, <3>4, ControlFrames DEF LineOf
  <2> QED BY <1>0, <2>2, <2>4, <2>5, LineAppend, ControlFrames DEF cur2
<1>3. CASE ~(Ends(l, m, TRUE) \/ Ends(l, m, FALSE))
  <2>1. Keeps(l, m) /\ (l.pri \in Carrying <=> m.pri \in Carrying)
    BY <1>3, Phases DEF Passes, Rests, Probes, Idles, ResetsLink, Settled, Quiet, Phase
  <2>2. m.segments = l.segments /\ m.nextWriteFCB = l.nextWriteFCB /\ cur2 = cur /\ cur \in Nat
    BY <2>1, NumberedHead DEF Keeps
  <2>3. \/ m.sent = <<>> \/ m.sent = <<RequestLinkStatus>>
        \/ m.sent = <<ResetLinks>> /\ ~Linked(l)
    <3>1. ResetsLink(l, m) => ~Linked(l)
      BY <1>1 DEF ResetsLink, Settled, Sender, Linked
    <3> QED BY <1>3, <3>1 DEF Passes, Rests, Probes, Idles, ResetsLink
  <2> HIDE DEF cur, cur2
  <2>4. /\ LineOf(q, m, lat, rfcb, cur2)
        /\ LineOf(Append(q, RequestLinkStatus), m, lat, rfcb, cur2)
        /\ ~Linked(l) => LineOf(Append(q, ResetLinks), m, lat, rfcb, cur2)
    <3>1. Carrier(l) \in BOOLEAN /\ Carrier(m) = Carrier(l)
      BY <2>1, CarrierTyped
    <3>2. Line(q, Carrier(l), l.nextWriteFCB, Linked(l), lat, rfcb, cur)
      BY DEF LineOf, cur
    <3>3. cur2 >= cur /\ (Carrier(m) \/ ~Carrier(m))
      BY <2>2
    <3>4. \A f \in ForwardFrames : ~IsData(f) /\ (IsReset(f) => ~Linked(l)) =>
                  Line(Append(q, f), Carrier(m), m.nextWriteFCB, Linked(l), lat, rfcb, cur2)
      BY <1>1, <2>2, <3>1, <3>2, <3>3, LineGoesOn
    <3>5. Line(q, Carrier(m), m.nextWriteFCB, Linked(l), lat, rfcb, cur2)
      BY <1>1, <2>2, <3>1, <3>2, <3>3, LineGoesOn
    <3> QED BY <1>1, <3>4, <3>5, ControlFrames DEF LineOf
  <2> QED BY <1>0, <2>2, <2>3, <2>4, LineAppend, ControlFrames DEF cur2
<1> QED BY <1>2, <1>3

\* Sending a segment again, or the next one, keeps the line.
LEMMA CarriesLine ==
    ASSUME NEW l, Quiet(l), NEW m, Settled(m), Carries(l, m), NEW q, NEW lat \in Nat, NEW rfcb,
           NEW last \in Nat,
           Numbered(l.segments, last), LineOf(q, l, lat, rfcb, At(l.segments, last))
    PROVE  Numbered(m.segments, last) /\ LineOf(q \o m.sent, m, lat, rfcb, At(m.segments, last))
<1> DEFINE cur == At(l.segments, last)
           cur2 == At(m.segments, last)
           f == Frame("PRI_CONFIRMED_USER_DATA", m.nextWriteFCB, cur2)
<1>0. q \in Seq(ForwardFrames)
  BY DEF LineOf, Line
<1>1. Linked(l) \in BOOLEAN /\ Linked(m) = TRUE /\ m.pri \in Carrying
        /\ l.nextWriteFCB \in BOOLEAN /\ m.nextWriteFCB \in BOOLEAN /\ m.segments # <<>>
  BY LinkedTyped DEF Carries, Begins, Repeats, Advances, SendsData, Linked, Settled, Quiet,
       SenderBody, Sender
<1>2. /\ Numbered(m.segments, last)
      /\ cur \in Nat /\ cur2 \in Nat /\ cur2 >= cur
      /\ (l.pri \in Carrying => cur2 > cur \/ m.nextWriteFCB = l.nextWriteFCB)
  <2>1. CASE Begins(l, m)
    <3>1. m.segments = l.segments /\ l.pri \notin Carrying
      BY <2>1, Phases DEF Begins, Quiet
    <3>2. cur \in Nat
      BY NumberedHead
    <3> QED BY <3>1, <3>2
  <2>2. CASE Repeats(l, m)
    BY <2>2, NumberedHead DEF Repeats
  <2>3. CASE Advances(l, m)
    BY <2>3, NumberedHead DEF Advances
  <2> QED BY <2>1, <2>2, <2>3 DEF Carries
<1>3. m.sent = <<f>>
  <2>1. Head(m.segments) = cur2
    BY <1>1, <1>2, NumberedHead
  <2> QED BY <2>1 DEF Carries, Begins, Repeats, Advances, SendsData, DataFrame
<1>4. f \in ForwardFrames
  BY <1>1, <1>2 DEF ForwardFrames, Frame
<1> HIDE DEF cur, cur2, f
<1>5. LineOf(Append(q, f), m, lat, rfcb, cur2)
  <2>1. Line(q, Carrier(l), l.nextWriteFCB, Linked(l), lat, rfcb, cur)
    BY DEF LineOf, cur
  <2>2. Carrier(m) /\ Linked(m) /\ (~Carrier(l) \/ cur2 > cur \/ m.nextWriteFCB = l.nextWriteFCB)
    BY <1>1, <1>2, CarrierTyped
  <2>3. IsData(f) /\ f.fcb = m.nextWriteFCB /\ f.data = cur2
    BY DEF IsData, f, Frame
  <2> QED BY <1>2, <1>4, <2>1, <2>2, <2>3, LineTakesData DEF LineOf
<1> QED BY <1>0, <1>2, <1>3, <1>4, <1>5, LineAppend DEF cur2

\* The line between two contexts that carry nothing.
LEMMA LineUnused ==
    ASSUME NEW q, NEW l, NEW m, NEW k, NEW lat \in Nat, NEW rfcb, NEW cur \in Nat,
           Line(q, Carrier(l), l.nextWriteFCB, k, lat, rfcb, cur), ~Carrier(l), ~Carrier(m),
           NEW cur2 \in Nat, cur2 >= cur
    PROVE  /\ Line(q, Carrier(m), m.nextWriteFCB, k, lat, rfcb, cur2)
           /\ ~k => Line(Append(q, ResetLinks), Carrier(m), m.nextWriteFCB, k, lat, rfcb, cur2)
BY LineGoesOn, ControlFrames

\* The first segment is sent.
LEMMA LineFirst ==
    ASSUME NEW q, NEW l, NEW m, NEW k, NEW lat \in Nat, NEW rfcb, NEW cur \in Nat,
           Line(q, Carrier(l), l.nextWriteFCB, k, lat, rfcb, cur),
           ~Carrier(l) \/ cur > cur \/ m.nextWriteFCB = l.nextWriteFCB,
           Carrier(m), Linked(m), cur >= cur,
           NEW f \in ForwardFrames, IsData(f), f.fcb = m.nextWriteFCB, f.data = cur
    PROVE  Line(Append(q, f), Carrier(m), m.nextWriteFCB, Linked(m), lat, rfcb, cur)
BY LineTakesData

\* What a puts on the line when it is handed segments.
LEMMA LineLoads ==
    ASSUME NEW q, NEW l, NEW m, NEW lat \in Nat, NEW rfcb, NEW cur \in Nat,
           Line(q, Carrier(l), l.nextWriteFCB, Linked(l), lat, rfcb, cur), ~Carrier(l),
           Linked(m) <=> Linked(l),
           NEW f \in ForwardFrames, IsData(f), f.fcb = m.nextWriteFCB, f.data = cur,
           \/ m.sent = <<>> /\ ~Carrier(m)
           \/ m.sent = <<ResetLinks>> /\ ~Carrier(m) /\ ~Linked(l)
           \/ m.sent = <<f>> /\ Carrier(m) /\ Linked(m)
    PROVE  LineOf(q \o m.sent, m, lat, rfcb, cur)
<1>0. q \in Seq(ForwardFrames) /\ cur >= cur
  BY DEF Line
<1>1. Linked(m) = Linked(l)
  BY DEF Linked
<1>2. ~Carrier(m) => Line(q, Carrier(m), m.nextWriteFCB, Linked(l), lat, rfcb, cur)
  BY <1>0, LineUnused
<1>3. ~Carrier(m) /\ ~Linked(l)
        => Line(Append(q, ResetLinks), Carrier(m), m.nextWriteFCB, Linked(l), lat, rfcb, cur)
  BY <1>0, LineUnused
<1>4. Carrier(m) /\ Linked(m) => Line(Append(q, f), Carrier(m), m.nextWriteFCB, Linked(m), lat,
     rfcb, cur)
  BY <1>0, LineFirst
<1> QED BY <1>0, <1>1, <1>2, <1>3, <1>4, LineAppend, ControlFrames DEF LineOf

\* The transport layer hands over segments.
LEMMA LoadsLine ==
    ASSUME NEW l, Quiet(l), l.segments = <<>>, NEW m, NEW s, Settled(m), Loads(l, m, s), s # <<>>,
           NEW q, NEW lat \in Nat, NEW rfcb, NEW last \in Nat, NEW last2 \in Nat,
           Numbered(s, last2), At(s, last2) = last + 1,
           LineOf(q, l, lat, rfcb, At(l.segments, last))
    PROVE  Numbered(m.segments, last2) /\ LineOf(q \o m.sent, m, lat, rfcb, At(m.segments, last2))
<1> DEFINE cur == At(l.segments, last)
           f == Frame("PRI_CONFIRMED_USER_DATA", m.nextWriteFCB, cur)
<1>0. q \in Seq(ForwardFrames)
  BY DEF LineOf, Line
<1>1. /\ Numbered(m.segments, last2) /\ Numbered(l.segments, last)
      /\ cur = last + 1 /\ cur \in Nat /\ At(m.segments, last2) = cur
  BY NumberedHead DEF Loads, Numbered, At
<1>2. ~Carrier(l) /\ (Linked(m) <=> Linked(l)) /\ m.nextWriteFCB \in BOOLEAN
  <2>1. l.pri \notin Carrying
    BY DEF Quiet, Sender
  <2>2. m.isRemoteReset <=> l.isRemoteReset
    BY DEF Loads
  <2>3. m.nextWriteFCB \in BOOLEAN
    BY DEF Settled, Sender, SenderBody
  <2> QED BY <2>1, <2>2, <2>3, CarrierTyped DEF Linked
<1>3. Line(q, Carrier(l), l.nextWriteFCB, Linked(l), lat, rfcb, cur)
  BY DEF LineOf
<1>4. \/ m.sent = <<>> /\ ~Carrier(m)
      \/ m.sent = <<ResetLinks>> /\ ~Carrier(m) /\ ~Linked(l)
      \/ m.sent = <<f>> /\ Carrier(m) /\ Linked(m)
  <2>1. CASE Phase(l) = "probing" /\ m.pri = l.pri /\ m.sent = <<>>
    <3>1. ~Carrier(m)
      BY <2>1, <1>2, CarrierTyped
    <3> QED BY <2>1, <3>1
  <2>2. CASE m.pri = "LinkResetTransmitWait" /\ ~l.isRemoteReset /\ m.sent = <<ResetLinks>>
    BY <2>2, CarrierTyped DEF Linked
  <2>3. CASE m.pri = "ConfUserDataTransmitWait" /\ l.isRemoteReset /\ m.sent = <<DataFrame(m)>>
    <3>1. Head(m.segments) = cur
      BY <1>1, NumberedHead DEF Loads
    <3>2. DataFrame(m) = f
      BY <3>1 DEF DataFrame
    <3> QED BY <2>3, <3>2, <1>2, CarrierTyped DEF Linked
  <2> QED BY <2>1, <2>2, <2>3 DEF Loads
<1>5. f \in ForwardFrames /\ IsData(f) /\ f.fcb = m.nextWriteFCB /\ f.data = cur
  BY <1>1, <1>2 DEF ForwardFrames, Frame, IsData
<1> HIDE DEF cur, f
<1>6. (Linked(m) <=> Linked(l)) /\ cur \in Nat
  BY <1>1, <1>2
<1>7. LineOf(q \o m.sent, m, lat, rfcb, cur)
  BY <1>2, <1>3, <1>4, <1>5, <1>6, LineLoads
<1> QED BY <1>1, <1>7

\* OnLowerLayerUp of the station that receives.
LEMMA UpReceiver ==
    ASSUME NEW l, Listening(l), ~l.isOnline
    PROVE  LET m == LowerLayerUp(l)
           IN  Listening(m) /\ m.isOnline /\ m.nextReadFCB = l.nextReadFCB /\ m.txMode = "Idle"
<1> DEFINE m == LowerLayerUp(l)
<1>1. DOMAIN m = LinkFields /\ m.isOnline /\ m.sent = <<>> /\ m.up = <<>> /\ m.sec = l.sec
        /\ m.nextReadFCB = l.nextReadFCB /\ m.txMode = l.txMode
  BY DEF Listening, Receiver, LowerLayerUp, Fresh
<1>2. ~m.keepAliveTimeout /\ m.segments = <<>> /\ m.pri = "Idle" /\ m.pendingPri = NoFrame
        /\ m.pendingSec = NoFrame
  BY DEF Listening, Receiver, LowerLayerUp, Fresh
<1> HIDE DEF m
<1>3. l.sec = "NotReset"
  BY DEF Listening, Receiver
<1> QED BY <1>1, <1>2, <1>3 DEF Listening, Receiver, m

\* OnLowerLayerDown of the station that receives.
LEMMA DownReceiver ==
    ASSUME NEW l, Listening(l)
    PROVE  LET m == LowerLayerDown(l)
           IN  Listening(m) /\ ~m.isOnline /\ m.nextReadFCB = l.nextReadFCB /\ m.txMode = "Idle"
<1> DEFINE m == LowerLayerDown(l)
<1>1. DOMAIN m = LinkFields /\ ~m.isOnline /\ m.sent = <<>> /\ m.up = <<>> /\ m.sec = "NotReset"
        /\ m.nextReadFCB = l.nextReadFCB /\ m.txMode = "Idle"
  BY DEF Listening, Receiver, LowerLayerDown, Fresh, CancelTimer
<1>2. ~m.keepAliveTimeout /\ m.segments = <<>> /\ m.pri = "Idle" /\ m.pendingPri = NoFrame
        /\ m.pendingSec = NoFrame
  BY DEF Listening, Receiver, LowerLayerDown, Fresh, CancelTimer
<1> HIDE DEF m
<1> QED BY <1>1, <1>2 DEF Listening, Receiver, m

Latest == Abstract!Latest

\* Both stations are between two entry points, and the line is as it can be.
PairInv ==
    /\ Quiet(a)
    /\ Listening(b)
    /\ a.isOnline <=> b.isOnline
    /\ ~a.isOnline => ab = <<>> /\ ba = <<>>
    /\ ba \in Seq({Ack, LinkStatus})
    /\ handed \in Nat
    /\ delivered \in Seq(Nat)
    /\ Numbered(a.segments, handed)
    /\ LineOf(ab, a, Latest, b.nextReadFCB, At(a.segments, handed))

\* The segment delivered last, before and after a delivery.
LEMMA LatestTyped ==
    ASSUME delivered \in Seq(Nat)
    PROVE  /\ Latest \in Nat
           /\ \A d \in Nat : delivered' = Append(delivered, d) => delivered' \in Seq(Nat)
                   /\ Latest' = d
           /\ delivered' = delivered => Latest' = Latest
<1>1. Latest \in Nat
  BY DEF Latest, Abstract!Latest
<1>2. ASSUME NEW d \in Nat, delivered' = Append(delivered, d)
      PROVE  delivered' \in Seq(Nat) /\ Latest' = d
  BY <1>2 DEF Latest, Abstract!Latest
<1>3. delivered' = delivered => Latest' = Latest
  BY DEF Latest, Abstract!Latest
<1> QED BY <1>1, <1>2, <1>3

\* What the line is compared with.
LEMMA SameLine ==
    ASSUME NEW q, NEW l, NEW m, NEW lat, NEW rfcb, NEW cur, LineOf(q, l, lat, rfcb, cur),
           m.pri = l.pri, m.nextWriteFCB = l.nextWriteFCB, m.isRemoteReset <=> l.isRemoteReset
    PROVE  LineOf(q, m, lat, rfcb, cur)
<1>1. Carrier(m) = Carrier(l) /\ Linked(m) = Linked(l)
  BY DEF Carrier, Linked
<1> QED BY <1>1 DEF LineOf

\* Every move of a keeps the line.
LEMMA MovesLine ==
    ASSUME NEW l, Quiet(l), NEW m, Settled(m), Passes(l, m) \/ Carries(l, m), NEW q,
         NEW lat \in Nat,
           NEW rfcb, NEW last \in Nat,
           Numbered(l.segments, last), LineOf(q, l, lat, rfcb, At(l.segments, last))
    PROVE  Numbered(m.segments, last) /\ LineOf(q \o m.sent, m, lat, rfcb, At(m.segments, last))
<1>1. CASE Passes(l, m)
  BY <1>1, PassesLine
<1>2. CASE Carries(l, m)
  BY <1>2, CarriesLine
<1> QED BY <1>1, <1>2

\* a takes one of its moves; q is what is left of the line before it.
LEMMA SenderStep ==
    ASSUME PairInv, a.isOnline, NEW m, Settled(m), Passes(a, m) \/ Carries(a, m), NEW q,
           LineOf(q, a, Latest, b.nextReadFCB, At(a.segments, handed)),
           ab' = q \o m.sent, a' = Fresh(m), ba' \in Seq({Ack, LinkStatus}),
           b' = b, delivered' = delivered, handed' = handed
    PROVE  PairInv'
<1>1. Latest \in Nat /\ Latest' = Latest /\ handed \in Nat /\ b.nextReadFCB \in BOOLEAN /\ Quiet(a)
        /\ Numbered(a.segments, handed)
  BY LatestTyped DEF PairInv, Listening, Receiver
<1>2. Numbered(m.segments, handed)
        /\ LineOf(q \o m.sent, m, Latest, b.nextReadFCB, At(m.segments, handed))
  BY <1>1, MovesLine
<1>3. Quiet(a') /\ a'.pri = m.pri /\ a'.segments = m.segments /\ a'.nextWriteFCB = m.nextWriteFCB
        /\ (a'.isRemoteReset <=> m.isRemoteReset) /\ (a'.isOnline <=> m.isOnline)
  BY SettledFresh
<1>4. m.isOnline
  BY DEF Passes, Carries, Rests, Probes, Idles, ResetsLink, Keeps, Ends, Begins, Repeats, Advances,
       SendsData
<1>5. LineOf(ab', a', Latest', b'.nextReadFCB, At(a'.segments, handed'))
  BY <1>1, <1>2, <1>3, SameLine
<1> QED BY <1>1, <1>2, <1>3, <1>4, <1>5 DEF PairInv

\* What b does depends on the function of a frame, and for data on its bit.
LEMMA FrameKinds ==
    ASSUME NEW l, l.isOnline, NEW f \in ForwardFrames
    PROVE  \/ IsReset(f) /\ ~IsData(f) /\ OnFrame(l, f) = OnFrame(l, ResetLinks)
           \/ ~IsReset(f) /\ ~IsData(f)
                   /\ OnFrame(l, f) = OnFrame(l, RequestLinkStatus)
           \/ ~IsReset(f) /\ IsData(f)
                /\ OnFrame(l, f)
                     = OnFrame(l, Frame("PRI_CONFIRMED_USER_DATA", f.fcb, f.data))
BY DEF ForwardFrames, IsReset, IsData, OnFrame, Dispatch, ResetLinks,
       RequestLinkStatus, Frame

\* What b does with a frame.
Receives(l, m, f) ==
    \/ Ignored(l, m)
    \/ IsReset(f) /\ Answered(l, m, Ack) /\ m.up = <<>> /\ InReset(m) /\ m.nextReadFCB
    \/ ~IsReset(f) /\ ~IsData(f) /\ Answered(l, m, LinkStatus) /\ m.up = <<>>
         /\ m.nextReadFCB = l.nextReadFCB /\ (InReset(m) <=> InReset(l))
    \/ IsData(f) /\ Accepted(l, m, f.data) /\ f.fcb = l.nextReadFCB
    \/ IsData(f) /\ Reacknowledged(l, m) /\ f.fcb # l.nextReadFCB

\* OnFrame of the receiver.
LEMMA ReceiverMoves ==
    ASSUME NEW l, Listening(l), l.isOnline, NEW f \in ForwardFrames
    PROVE  LET m == OnFrame(l, f) IN Receiver(m) /\ m.isOnline /\ Receives(l, m, f)
<1>1. CASE IsReset(f) /\ ~IsData(f) /\ OnFrame(l, f) = OnFrame(l, ResetLinks)
  BY <1>1, ResetMoves DEF Receives
<1>2. CASE ~IsReset(f) /\ ~IsData(f) /\ OnFrame(l, f) = OnFrame(l, RequestLinkStatus)
  BY <1>2, RequestMoves DEF Receives
<1>3. CASE ~IsReset(f) /\ IsData(f)
             /\ OnFrame(l, f)
                     = OnFrame(l, Frame("PRI_CONFIRMED_USER_DATA", f.fcb, f.data))
  <2>1. f.fcb \in BOOLEAN
    BY DEF ForwardFrames
  <2> QED BY <1>3, <2>1, DataMoves DEF Receives
<1> QED BY <1>1, <1>2, <1>3, FrameKinds

\* Taking a frame keeps the line, and a segment pushed up is a new one.
LEMMA ReceivesLine ==
    ASSUME NEW l, Listening(l), NEW m, Receiver(m), NEW q, q # <<>>, Receives(l, m, Head(q)),
         NEW a1,
           NEW lat \in Nat, NEW last \in Nat, NEW cur \in Nat, cur <= last + 1,
           a1.pri \in Carrying => cur <= last,
           LineOf(q, a1, lat, l.nextReadFCB, cur)
    PROVE  \/ m.up = <<>> /\ LineOf(Tail(q), a1, lat, m.nextReadFCB, cur)
           \/ \E d \in Nat : /\ lat < d /\ d <= last /\ m.up = <<d>>
                             /\ LineOf(Tail(q), a1, d, m.nextReadFCB, cur)
<1> DEFINE f == Head(q)
           c == Carrier(a1)
           k == Linked(a1)
           w == a1.nextWriteFCB
           r == l.nextReadFCB
           r2 == m.nextReadFCB
<1>0. Line(q, c, w, k, lat, r, cur) /\ r \in BOOLEAN
  BY DEF LineOf, Listening, Receiver
<1>c. c <=> a1.pri \in Carrying
  BY CarrierTyped
<1> HIDE DEF c, k, w
<1>1. CASE r2 = r /\ m.up = <<>>
  <2>1. Line(Tail(q), c, w, k, lat, r, cur)
    BY <1>0, LineShorter
  <2> QED BY <1>1, <2>1 DEF LineOf, c, k, w
<1>2. CASE IsReset(f) /\ m.up = <<>>
  <2>1. Line(Tail(q), c, w, k, lat, r2, cur)
    BY <1>0, <1>2, LineReset
  <2> QED BY <1>2, <2>1 DEF LineOf, c, k, w
<1>3. CASE IsData(f) /\ Accepted(l, m, f.data) /\ f.fcb = l.nextReadFCB
  <2>1. /\ Line(Tail(q), c, w, k, f.data, ~r, cur)
        /\ f.data \in Nat /\ f.data > lat
        /\ f.data <= cur /\ (~c => f.data < cur)
    BY <1>0, <1>3, LineAccepts
  <2>2. r2 = ~r /\ m.up = <<f.data>>
    BY <1>3 DEF Accepted
  <2>3. f.data <= last
    BY <1>c, <2>1
  <2>4. LineOf(Tail(q), a1, f.data, m.nextReadFCB, cur)
    BY <2>1, <2>2 DEF LineOf, c, k, w
  <2> QED BY <2>1, <2>2, <2>3, <2>4
<1> QED BY <1>1, <1>2, <1>3 DEF Receives, Ignored, Reacknowledged

\* The initial states.
LEMMA PairBegins ==
    ASSUME PairInit
    PROVE  PairInv /\ Abstract!Init
<1>1. a = InitialLink(TRUE) /\ b = InitialLink(TRUE) /\ ab = <<>> /\ ba = <<>>
        /\ handed = 0 /\ delivered = <<>>
  BY DEF PairInit
<1>2. Quiet(a) /\ ~a.isOnline /\ a.segments = <<>> /\ ~Carrier(a)
  BY <1>1, CarrierTyped DEF InitialLink, Quiet, Sender, SenderBody
<1>3. Listening(b) /\ ~b.isOnline
  BY <1>1 DEF InitialLink, Listening, Receiver
<1>4. Latest = 0
  BY <1>1 DEF Latest, Abstract!Latest
<1>5. Numbered(<<>>, 0) /\ At(<<>>, 0) = 1
  BY DEF Numbered, At
<1>6. LineOf(<<>>, a, 0, b.nextReadFCB, 1)
  BY <1>2, LineEmpty DEF LineOf
<1>7. Numbered(a.segments, handed) /\ LineOf(ab, a, Latest, b.nextReadFCB, At(a.segments, handed))
  BY <1>1, <1>2, <1>4, <1>5, <1>6
<1>8. ba \in Seq({Ack, LinkStatus}) /\ handed \in Nat /\ delivered \in Seq(Nat)
  BY <1>1
<1> QED BY <1>1, <1>2, <1>3, <1>7, <1>8 DEF PairInv, Abstract!Init

\* The line when a carries nothing and nothing is on it.
LEMMA LineCleared ==
    ASSUME NEW q, NEW l, NEW m, NEW lat \in Nat, NEW rfcb, NEW cur \in Nat, NEW cur2 \in Nat,
           LineOf(q, l, lat, rfcb, cur), ~Carrier(m), cur2 >= cur, Carrier(l) => cur2 > cur
    PROVE  LineOf(<<>>, m, lat, rfcb, cur2)
BY DEF LineOf, Line, InOrder, Behind, Ahead

\* The channel opens.
LEMMA ConnectStep ==
    ASSUME PairInv, Connect
    PROVE  PairInv'
<1>1. Quiet(a) /\ ~a.isOnline /\ Listening(b) /\ ~b.isOnline /\ ab = <<>> /\ ba = <<>>
  BY DEF PairInv, Connect
<1>2. Quiet(a') /\ a'.isOnline /\ a'.pri = "Idle" /\ a'.segments = <<>> /\ ~a'.isRemoteReset
        /\ a'.nextWriteFCB = a.nextWriteFCB
  BY <1>1, UpSender DEF Connect
<1>3. Listening(b') /\ b'.isOnline /\ b'.nextReadFCB = b.nextReadFCB
  BY <1>1, UpReceiver DEF Connect
<1>4. a.pri = "Idle" /\ a.segments = <<>> /\ ~a.isRemoteReset
  BY <1>1 DEF Quiet, Sender
<1>5. handed' = handed /\ delivered' = delivered /\ ab' = ab /\ ba' = ba
  BY DEF Connect
<1>6. LineOf(ab, a', Latest, b.nextReadFCB, At(a.segments, handed))
  BY <1>2, <1>4, SameLine DEF PairInv
<1>7. Latest' = Latest
  BY <1>5, LatestTyped DEF PairInv
<1>8. At(a'.segments, handed') = At(a.segments, handed) /\ Numbered(a'.segments, handed')
  BY <1>2, <1>4, <1>5 DEF PairInv
<1>9. LineOf(ab', a', Latest', b'.nextReadFCB, At(a'.segments, handed'))
  BY <1>3, <1>5, <1>6, <1>7, <1>8
<1> QED BY <1>2, <1>3, <1>5, <1>8, <1>9 DEF PairInv

\* The channel closes: what was handed over and not sent is skipped.
LEMMA DisconnectStep ==
    ASSUME PairInv, Disconnect
    PROVE  PairInv'
<1>1. Quiet(a) /\ Listening(b)
  BY DEF PairInv
<1>2. Quiet(a') /\ ~a'.isOnline /\ a'.pri = "Idle" /\ a'.segments = <<>> /\ ~a'.isRemoteReset
        /\ a'.nextWriteFCB = a.nextWriteFCB
  BY <1>1, DownSender DEF Disconnect
<1>3. Listening(b') /\ ~b'.isOnline /\ b'.nextReadFCB = b.nextReadFCB
  BY <1>1, DownReceiver DEF Disconnect
<1>4. handed' = handed /\ delivered' = delivered /\ ab' = <<>> /\ ba' = <<>>
  BY DEF Disconnect
<1>5. Latest' = Latest /\ Latest \in Nat /\ handed \in Nat
  BY <1>4, LatestTyped DEF PairInv
<1>6. Numbered(a'.segments, handed') /\ At(a'.segments, handed') = handed + 1
  BY <1>2, <1>4, <1>5 DEF Numbered, At
<1>7. Numbered(a.segments, handed) /\ LineOf(ab, a, Latest, b.nextReadFCB, At(a.segments, handed))
  BY DEF PairInv
<1>8. /\ At(a.segments, handed) \in Nat /\ At(a.segments, handed) <= handed + 1
      /\ Carrier(a) => At(a.segments, handed) < handed + 1
  <2>1. Carrier(a) => a.segments # <<>>
    BY <1>1, CarrierTyped DEF Quiet, Sender
  <2> QED BY <1>5, <1>7, <2>1, NumberedHead
<1>9. LineOf(ab', a', Latest', b'.nextReadFCB, At(a'.segments, handed'))
  <2>1. ~Carrier(a')
    BY <1>2, CarrierTyped
  <2>2. LineOf(<<>>, a', Latest, b.nextReadFCB, handed + 1)
    <3> DEFINE cur == At(a.segments, handed)
               cur2 == handed + 1
    <3>1. cur \in Nat /\ cur2 \in Nat /\ cur2 >= cur /\ (Carrier(a) => cur2 > cur)
      BY <1>5, <1>8
    <3> HIDE DEF cur, cur2
    <3>2. LineOf(ab, a, Latest, b.nextReadFCB, cur)
      BY <1>7 DEF cur
    <3>3. LineOf(<<>>, a', Latest, b.nextReadFCB, cur2)
      BY <1>5, <2>1, <3>1, <3>2, LineCleared
    <3> QED BY <3>3 DEF cur2
  <2> QED BY <1>3, <1>4, <1>5, <1>6, <2>2
<1> QED BY <1>2, <1>3, <1>4, <1>5, <1>6, <1>9 DEF PairInv

\* An entry point of a, and what it sends.
LEMMA AStep ==
    ASSUME PairInv, a.isOnline, NEW m, Settled(m), Passes(a, m) \/ Carries(a, m),
           StepA(m), UnchangedB, handed' = handed, ba' \in Seq({Ack,
                LinkStatus})
    PROVE  PairInv'
<1>1. ab' = ab \o m.sent /\ a' = Fresh(m) /\ b' = b /\ delivered' = delivered
  BY DEF StepA, StationA, UnchangedB
<1>2. LineOf(ab, a, Latest, b.nextReadFCB, At(a.segments, handed))
  BY DEF PairInv
<1> QED BY <1>1, <1>2, SenderStep

\* What happens at the other end of the line, or on it.
LEMMA LineStep ==
    ASSUME PairInv, a' = a, b' = b, handed' = handed, delivered' = delivered,
           \/ ab' = ab
           \/ ab # <<>> /\ ab' = Tail(ab),
           \/ ba' = ba
           \/ ba # <<>> /\ ba' = Tail(ba)
    PROVE  PairInv'
<1>1. LineOf(ab, a, Latest, b.nextReadFCB, At(a.segments, handed))
  BY DEF PairInv
<1>2. LineOf(ab', a, Latest, b.nextReadFCB, At(a.segments, handed))
  <2>1. ab # <<>> => LineOf(Tail(ab), a, Latest, b.nextReadFCB, At(a.segments, handed))
    BY <1>1, LineShorter DEF LineOf
  <2> QED BY <1>1, <2>1
<1>3. ba' \in Seq({Ack, LinkStatus})
  <2>1. ba \in Seq({Ack, LinkStatus})
    BY DEF PairInv
  <2> QED BY <2>1
<1>4. ~a.isOnline => ab' = <<>> /\ ba' = <<>>
  BY DEF PairInv
<1>5. Latest' = Latest
  BY LatestTyped DEF PairInv
<1>6. LineOf(ab', a', Latest', b'.nextReadFCB, At(a'.segments, handed'))
  BY <1>2, <1>5
<1> QED BY <1>3, <1>4, <1>6 DEF PairInv

\* Every move sends data or none.
LEMMA EndsPass ==
    ASSUME NEW l, NEW m, Ends(l, m, TRUE) \/ Ends(l, m, FALSE) \/ ProbeEnds(l, m) \/ Rests(l, m)
                            \/ ResetsLink(l, m) \/ Probes(l, m) \/ Begins(l, m)
                            \/ Repeats(l, m) \/ Advances(l, m)
    PROVE  Passes(l, m) \/ Carries(l, m)
BY DEF ProbeEnds, Passes, Carries

\* A frame of a was written.
LEMMA TransmitResultAStep ==
    ASSUME PairInv, TransmitResultA
    PROVE  PairInv'
<1> DEFINE m == TransmitResult(a, TRUE)
<1>1. Quiet(a) /\ a.txMode # "Idle" /\ StepA(m) /\ UnchangedB /\ ba' = ba
        /\ handed' = handed
  BY DEF PairInv, TransmitResultA
<1>2. a.isOnline /\ ba \in Seq({Ack, LinkStatus})
  BY <1>1 DEF PairInv, Quiet, Sender
<1>3. Settled(m) /\ Rests(a, m)
  BY <1>1, WrittenMoves
<1> HIDE DEF m
<1> QED BY <1>1, <1>2, <1>3, EndsPass, AStep

\* A frame of a was not written.
LEMMA TransmitFailsAStep ==
    ASSUME PairInv, TransmitFailsA
    PROVE  PairInv'
<1> DEFINE m == TransmitResult(a, FALSE)
<1>1. Quiet(a) /\ a.txMode # "Idle" /\ ab # <<>> /\ ab' = Front(ab) \o m.sent
        /\ StationA(m) /\ UnchangedB /\ ba' = ba /\ handed' = handed
  BY DEF PairInv, TransmitFailsA
<1>2. a.isOnline /\ ba \in Seq({Ack, LinkStatus})
  BY <1>1 DEF PairInv, Quiet, Sender
<1>3. Settled(m) /\ (Ends(a, m, FALSE) \/ ProbeEnds(a, m))
  BY <1>1, UnwrittenMoves
<1> HIDE DEF m
<1>4. LineOf(Front(ab), a, Latest, b.nextReadFCB, At(a.segments, handed))
  BY <1>1, LineShorter DEF LineOf, PairInv
<1>5. a' = Fresh(m) /\ b' = b /\ delivered' = delivered
  BY <1>1 DEF StationA, UnchangedB
<1>6. Passes(a, m) \/ Carries(a, m)
  BY <1>3, EndsPass
<1> QED BY <1>1, <1>2, <1>3, <1>4, <1>5, <1>6, SenderStep

\* The response timer of a fires.
LEMMA TimeoutAStep ==
    ASSUME PairInv, TimeoutA
    PROVE  PairInv'
<1> DEFINE m == ResponseTimeout(a)
<1>1. Quiet(a) /\ a.rspTimer /\ StepA(m) /\ UnchangedB /\ ba' = ba /\ handed' = handed
  BY DEF PairInv, TimeoutA
<1>2. a.isOnline /\ ba \in Seq({Ack, LinkStatus})
  BY <1>1 DEF PairInv, Quiet, Sender
<1>3. Settled(m) /\ (ResetsLink(a, m) \/ Repeats(a, m) \/ Ends(a, m, FALSE) \/ ProbeEnds(a, m))
  BY <1>1, TimeoutMoves
<1> HIDE DEF m
<1> QED BY <1>1, <1>2, <1>3, EndsPass, AStep

\* The keep-alive timer of a fires.
LEMMA KeepAliveAStep ==
    ASSUME PairInv, KeepAliveA
    PROVE  PairInv'
<1> DEFINE m == KeepAliveTimeout(a, TRUE)
<1>1. Quiet(a) /\ a.isOnline /\ StepA(m) /\ UnchangedB /\ ba' = ba /\ handed' = handed
        /\ ba \in Seq({Ack, LinkStatus})
  BY DEF PairInv, KeepAliveA
<1>2. Settled(m) /\ (Rests(a, m) \/ Probes(a, m))
  BY <1>1, KeepAliveMoves
<1> HIDE DEF m
<1> QED BY <1>1, <1>2, EndsPass, AStep

\* An answer arrives.
LEMMA ReceiveAStep ==
    ASSUME PairInv, ReceiveA
    PROVE  PairInv'
<1> DEFINE m == OnFrame(a, Head(ba))
<1>1. Quiet(a) /\ ba # <<>> /\ StepA(m) /\ UnchangedB /\ ba' = Tail(ba)
        /\ handed' = handed
  BY DEF PairInv, ReceiveA
<1>2. ba \in Seq({Ack, LinkStatus}) /\ a.isOnline
  BY <1>1 DEF PairInv
<1>3. Head(ba) \in {Ack, LinkStatus} /\ ba' \in Seq({Ack, LinkStatus})
  BY <1>1, <1>2
<1>4. Settled(m) /\ (Passes(a, m) \/ Carries(a, m))
  <2>1. CASE Head(ba) = Ack
    <3>1. Settled(m) /\ (Rests(a, m) \/ Begins(a, m) \/ Advances(a, m) \/ Ends(a, m, TRUE))
      BY <1>1, <1>2, <2>1, AckMoves
    <3> HIDE DEF m
    <3> QED BY <3>1, EndsPass
  <2>2. CASE Head(ba) = LinkStatus
    <3>1. Settled(m) /\ (Rests(a, m) \/ Ends(a, m, FALSE) \/ ProbeEnds(a, m))
      BY <1>1, <1>2, <2>2, StatusMoves
    <3> HIDE DEF m
    <3> QED BY <3>1, EndsPass
  <2> QED BY <1>3, <2>1, <2>2
<1> HIDE DEF m
<1> QED BY <1>1, <1>2, <1>3, <1>4, AStep

\* The line back.
LEMMA BackLine ==
    ASSUME ba \in Seq({Ack, LinkStatus}), NEW s,
           s = <<>> \/ s = <<Ack>> \/ s = <<LinkStatus>>
    PROVE  ba \o s \in Seq({Ack, LinkStatus})
<1> DEFINE S == {Ack, LinkStatus}
<1>1. ba \in Seq(S) /\ Ack \in S /\ LinkStatus \in S
  OBVIOUS
<1> HIDE DEF S
<1>2. s \in Seq(S)
  <2>1. CASE s = <<>>
    BY <2>1
  <2>2. CASE s = <<Ack>>
    BY <1>1, <2>2
  <2>3. CASE s = <<LinkStatus>>
    BY <1>1, <2>3
  <2> QED BY <2>1, <2>2, <2>3
<1>3. ba \o s \in Seq(S)
  BY <1>1, <1>2
<1> QED BY <1>3 DEF S

\* What an entry point of b delivers.
LEMMA NothingUp ==
    ASSUME delivered \in Seq(Nat)
    PROVE  delivered \o <<>> = delivered /\ \A d \in Nat : delivered \o <<d>> = Append(delivered, d)
BY ConcatEmptySeq, AppendIsConcat

\* An answer of b was written.
LEMMA TransmitResultBStep ==
    ASSUME PairInv, TransmitResultB
    PROVE  PairInv'
<1> DEFINE m == TransmitResult(b, TRUE)
<1>1. Listening(b) /\ b.txMode # "Idle" /\ StepB(m) /\ UnchangedA /\ ab' = ab
        /\ handed' = handed
  BY DEF PairInv, TransmitResultB
<1>2. b.isOnline
  BY <1>1 DEF Listening, Receiver
<1>3. Receiver(m) /\ m.sent = <<>> /\ m.up = <<>> /\ m.nextReadFCB = b.nextReadFCB /\ m.isOnline
  BY <1>1, AnswerWritten
<1> HIDE DEF m
<1>4. b' = Fresh(m) /\ ba' = ba \o <<>> /\ delivered' = delivered \o <<>> /\ a' = a
  BY <1>1, <1>3 DEF StepB, UnchangedA
<1>5. Listening(b') /\ b'.nextReadFCB = b.nextReadFCB /\ (b'.isOnline <=> b.isOnline)
  BY <1>2, <1>3, <1>4, FreshReceiver
<1>6. ba \in Seq({Ack, LinkStatus}) /\ delivered \in Seq(Nat) /\ a.isOnline
  BY <1>2 DEF PairInv
<1>7. ba' \in Seq({Ack, LinkStatus}) /\ delivered' = delivered
  BY <1>4, <1>6, BackLine, NothingUp
<1>8. Latest' = Latest
  BY <1>6, <1>7, LatestTyped
<1> QED BY <1>1, <1>4, <1>5, <1>6, <1>7, <1>8 DEF PairInv

\* A frame arrives at b: it is a stutter of the abstract pair or a delivery.
LEMMA ReceiveBStep ==
    ASSUME PairInv, ReceiveB
    PROVE  PairInv' /\ (UNCHANGED <<handed, delivered>> \/ Abstract!Deliver)
<1> DEFINE m == OnFrame(b, Head(ab))
           cur == At(a.segments, handed)
<1>1. Listening(b) /\ ab # <<>> /\ ab' = Tail(ab) /\ StepB(m) /\ UnchangedA
        /\ handed' = handed
  BY DEF PairInv, ReceiveB
<1>2. b.isOnline /\ a.isOnline /\ Quiet(a)
  BY <1>1 DEF PairInv
<1>3. ab \in Seq(ForwardFrames) /\ ba \in Seq({Ack, LinkStatus}) /\ delivered \in Seq(Nat)
        /\ handed \in Nat /\ Numbered(a.segments, handed)
  BY DEF PairInv, LineOf, Line
<1>4. Head(ab) \in ForwardFrames
  BY <1>1, <1>3
<1>5. Receiver(m) /\ m.isOnline /\ Receives(b, m, Head(ab))
  BY <1>1, <1>2, <1>4, ReceiverMoves
<1> HIDE DEF m
<1>6. b' = Fresh(m) /\ ba' = ba \o m.sent /\ delivered' = delivered \o m.up /\ a' = a
  BY <1>1 DEF StepB, UnchangedA
<1>7. Listening(b') /\ b'.nextReadFCB = m.nextReadFCB /\ b'.isOnline
  BY <1>5, <1>6, FreshReceiver
<1>8. ba' \in Seq({Ack, LinkStatus})
  BY <1>3, <1>5, <1>6, BackLine DEF Receives, Ignored, Answered, Accepted, Reacknowledged
<1>9. Latest \in Nat
  BY <1>3, LatestTyped
<1>10. cur \in Nat /\ cur <= handed + 1 /\ (a.pri \in Carrying => cur <= handed)
  <2>1. a.pri \in Carrying => a.segments # <<>>
    BY <1>2 DEF Quiet, Sender
  <2> QED BY <1>3, <2>1, NumberedHead
<1>11. LineOf(ab, a, Latest, b.nextReadFCB, cur)
  BY DEF PairInv
<1> HIDE DEF cur
<1>12. \/ m.up = <<>> /\ LineOf(Tail(ab), a, Latest, m.nextReadFCB, cur)
       \/ \E d \in Nat : /\ Latest < d /\ d <= handed /\ m.up = <<d>>
                         /\ LineOf(Tail(ab), a, d, m.nextReadFCB, cur)
  BY <1>1, <1>3, <1>5, <1>9, <1>10, <1>11, ReceivesLine
<1>13. CASE m.up = <<>> /\ LineOf(Tail(ab), a, Latest, m.nextReadFCB, cur)
  <2>1. delivered' = delivered
    BY <1>3, <1>6, <1>13, NothingUp
  <2>2. Latest' = Latest
    BY <1>3, <2>1, LatestTyped
  <2>3. LineOf(ab', a', Latest', b'.nextReadFCB, At(a'.segments, handed'))
    BY <1>1, <1>6, <1>7, <1>13, <2>2 DEF cur
  <2>4. PairInv'
    BY <1>1, <1>2, <1>3, <1>6, <1>7, <1>8, <2>1, <2>3 DEF PairInv
  <2> QED BY <1>1, <2>1, <2>4
<1>14. ASSUME NEW d \in Nat, Latest < d, d <= handed, m.up = <<d>>,
              LineOf(Tail(ab), a, d, m.nextReadFCB, cur)
       PROVE  PairInv' /\ Abstract!Deliver
  <2>1. delivered' = Append(delivered, d)
    BY <1>3, <1>6, <1>14, NothingUp
  <2>2. Latest' = d /\ delivered' \in Seq(Nat)
    BY <1>3, <2>1, LatestTyped
  <2>3. LineOf(ab', a', Latest', b'.nextReadFCB, At(a'.segments, handed'))
    BY <1>1, <1>6, <1>7, <1>14, <2>2 DEF cur
  <2>4. PairInv'
    BY <1>1, <1>2, <1>3, <1>6, <1>7, <1>8, <2>2, <2>3 DEF PairInv
  <2>5. d \in Abstract!Latest + 1 .. handed
    BY <1>3, <1>9, <1>14 DEF Latest
  <2> QED BY <1>1, <2>1, <2>4, <2>5 DEF Abstract!Deliver
<1> QED BY <1>12, <1>13, <1>14

\* The segments of a payload.
LEMMA Consecutive ==
    ASSUME NEW n \in Nat \ {0}, NEW h \in Nat, NEW s, s = [i \in 1 .. n |-> h + i]
    PROVE  s \in Seq(Nat) /\ Len(s) = n /\ s # <<>> /\ Numbered(s, h + n) /\ At(s, h + n) = h + 1
<1>1. s \in Seq(Nat) /\ Len(s) = n
  OBVIOUS
<1>2. \A i \in 1 .. Len(s) : s[i] = h + n - Len(s) + i
  BY <1>1
<1>3. s # <<>>
  BY <1>1
<1> QED BY <1>1, <1>2, <1>3 DEF Numbered, At

\* A payload is handed over, here and in the abstract pair.
LEMMA SendPayloadStep ==
    ASSUME PairInv, SendPayload
    PROVE  PairInv' /\ Abstract!Hand
<1> DEFINE s == [i \in 1 .. PayloadSegments |-> handed + i]
           m == Send(a, s)
<1>1. Quiet(a) /\ a.isOnline /\ a.segments = <<>> /\ StepA(m) /\ UnchangedB /\ ba' = ba
        /\ handed' = handed + PayloadSegments
  BY DEF PairInv, SendPayload
<1>2. handed \in Nat /\ handed' \in Nat /\ handed' > handed /\ ba \in Seq({Ack,
     LinkStatus})
        /\ delivered \in Seq(Nat) /\ Listening(b) /\ b.isOnline
  BY <1>1, PairAssumption DEF PairInv
<1>3. s \in Seq(Nat) /\ s # <<>> /\ Numbered(s, handed') /\ At(s, handed') = handed + 1
  <2>1. s = [i \in 1 .. PayloadSegments |-> handed + i]
    OBVIOUS
  <2> HIDE DEF s
  <2>2. s \in Seq(Nat) /\ s # <<>> /\ Numbered(s, handed + PayloadSegments)
          /\ At(s, handed + PayloadSegments) = handed + 1
    BY <1>2, <2>1, PairAssumption, Consecutive
  <2> QED BY <1>1, <2>2
<1>4. Settled(m) /\ Loads(a, m, s)
  BY <1>1, <1>3, SendMoves
<1> HIDE DEF s, m
<1>6. ab' = ab \o m.sent /\ a' = Fresh(m) /\ b' = b /\ delivered' = delivered
  BY <1>1 DEF StepA, StationA, UnchangedB
<1>7. Latest \in Nat /\ Latest' = Latest
  BY <1>2, <1>6, LatestTyped
<1>8. Numbered(m.segments, handed') /\ LineOf(ab \o m.sent, m, Latest, b.nextReadFCB,
     At(m.segments, handed'))
  <2>1. LineOf(ab, a, Latest, b.nextReadFCB, At(a.segments, handed))
    BY DEF PairInv
  <2> QED BY <1>1, <1>2, <1>3, <1>4, <1>7, <2>1, LoadsLine
<1>9. Quiet(a') /\ a'.pri = m.pri /\ a'.segments = m.segments /\ a'.nextWriteFCB = m.nextWriteFCB
        /\ (a'.isRemoteReset <=> m.isRemoteReset) /\ (a'.isOnline <=> m.isOnline)
  BY <1>4, <1>6, SettledFresh
<1>10. m.isOnline
  BY <1>4 DEF Loads
<1>11. LineOf(ab', a', Latest', b'.nextReadFCB, At(a'.segments, handed'))
  BY <1>6, <1>7, <1>8, <1>9, SameLine
<1>12. PairInv'
  BY <1>1, <1>2, <1>6, <1>8, <1>9, <1>10, <1>11 DEF PairInv
<1> QED BY <1>2, <1>6, <1>12 DEF Abstract!Hand

\* Every step keeps the invariant and is a step of OrderedDelivery or a stutter.
LEMMA PairStep ==
    ASSUME PairInv, PairNext
    PROVE  PairInv' /\ (Abstract!Next \/ UNCHANGED <<handed, delivered>>)
<1>1. CASE Connect
  BY <1>1, ConnectStep DEF Connect
<1>2. CASE Disconnect
  BY <1>2, DisconnectStep DEF Disconnect
<1>3. CASE SendPayload
  BY <1>3, SendPayloadStep DEF Abstract!Next
<1>4. CASE OnSendResultA
  BY <1>4, LineStep DEF OnSendResultA
<1>5. CASE TransmitResultA
  BY <1>5, TransmitResultAStep DEF TransmitResultA, UnchangedB
<1>6. CASE TransmitFailsA
  BY <1>6, TransmitFailsAStep DEF TransmitFailsA, UnchangedB
<1>7. CASE TransmitResultB
  <2>1. PairInv'
    BY <1>7, TransmitResultBStep
  <2>2. delivered' = delivered
    <3>1. TransmitResult(b, TRUE).up = <<>>
      BY <1>7, AnswerWritten DEF PairInv, TransmitResultB
    <3>2. delivered' = delivered \o <<>>
      BY <1>7, <3>1 DEF TransmitResultB, StepB
    <3> QED BY <3>2, NothingUp DEF PairInv
  <2> QED BY <1>7, <2>1, <2>2 DEF TransmitResultB
<1>8. CASE ReceiveA
  BY <1>8, ReceiveAStep DEF ReceiveA, UnchangedB
<1>9. CASE ReceiveB
  BY <1>9, ReceiveBStep DEF Abstract!Next
<1>10. CASE LoseA
  BY <1>10, LineStep DEF LoseA
<1>11. CASE LoseB
  BY <1>11, LineStep DEF LoseB
<1>12. CASE TimeoutA
  BY <1>12, TimeoutAStep DEF TimeoutA, UnchangedB
<1>13. CASE KeepAliveA
  BY <1>13, KeepAliveAStep DEF KeepAliveA, UnchangedB
<1> QED BY <1>1, <1>2, <1>3, <1>4, <1>5, <1>6, <1>7, <1>8, <1>9, <1>10, <1>11, <1>12,
     <1>13 DEF PairNext

\* A stutter keeps the invariant.
LEMMA PairStutters ==
    ASSUME PairInv, UNCHANGED pairVars
    PROVE  PairInv' /\ UNCHANGED <<handed, delivered>>
BY LineStep DEF pairVars

\* However frames and acknowledgements are lost, late or repeated, and
\* whatever number of segments, retries and sessions there is, b's transport
\* layer gets each segment at most once and in order (the frame count bit of
\* LinkContext.cpp, SecLinkLayerStates.cpp).
THEOREM DeliveryInOrder ==
    TransportSpec => DeliversInOrder
<1>1. TransportInit => PairInv /\ Abstract!Init
  BY PairBegins DEF TransportInit
<1>2. PairInv /\ [TransportNext]_<<pairVars, transportVars>>
        => PairInv' /\ [Abstract!Next]_<<handed, delivered>>
  BY PairStep, PairStutters DEF TransportNext
<1> QED BY <1>1, <1>2, PTL DEF TransportSpec, DeliversInOrder, Abstract!Spec
----------------------------------------------------------------------------
(* The transport layers: a segment knows its place in its payload and its  *)
(* number.                                                                 *)

\* Remainders: quotient and remainder, and that they are the only ones.
LEMMA DivMod ==
    ASSUME NEW x \in Int, NEW m \in Nat \ {0}
    PROVE  x % m \in Nat /\ x % m < m /\ x \div m \in Int /\ x = m * (x \div m) + (x % m)
OBVIOUS

\* A multiple of m is not smaller.
LEMMA AtLeastOnce ==
    ASSUME NEW m \in Nat \ {0}, NEW d \in Int, d >= 1
    PROVE  m * d >= m
OBVIOUS

\* A remainder is the only one.
LEMMA OneRemainder ==
    ASSUME NEW m \in Nat \ {0}, NEW x \in Int, NEW k \in Int, NEW r \in Nat, r < m,
           x = m * k + r
    PROVE  x % m = r
<1> DEFINE q == x \div m  s == x % m
<1>1. q \in Int /\ s \in Nat /\ s < m /\ x = m * q + s
  BY DivMod
<1> HIDE DEF q, s
<1>2. m * (k - q) = s - r /\ m * (q - k) = r - s
  BY <1>1
<1>3. ~(k - q >= 1) /\ ~(q - k >= 1)
  <2>1. k - q >= 1 => m * (k - q) >= m
    BY <1>1, AtLeastOnce
  <2>2. q - k >= 1 => m * (q - k) >= m
    BY <1>1, AtLeastOnce
  <2> QED BY <2>1, <2>2, <1>1, <1>2
<1>4. k = q
  BY <1>1, <1>3
<1> QED BY <1>1, <1>4 DEF s

\* Counting on from a number that was reduced.
LEMMA ModPlus ==
    ASSUME NEW m \in Nat \ {0}, NEW x \in Int, NEW i \in Int
    PROVE  ((x % m) + i) % m = (x + i) % m
<1> DEFINE q == x \div m  s == x % m  t == (s + i) \div m u == (s + i) % m
<1>1. q \in Int /\ s \in Nat /\ x = m * q + s
  BY DivMod
<1>2. t \in Int /\ u \in Nat /\ u < m /\ s + i = m * t + u
  BY <1>1, DivMod
<1> HIDE DEF q, s, t, u
<1>3. x + i = m * (q + t) + u
  BY <1>1, <1>2
<1>4. (x + i) % m = u
  <2>1. x + i \in Int /\ q + t \in Int
    BY <1>1, <1>2
  <2> QED BY <1>2, <1>3, <2>1, OneRemainder
<1> QED BY <1>4 DEF u, s

\* The same number comes again after m steps and not before.
LEMMA ComesRound ==
    ASSUME NEW m \in Nat \ {0}, NEW x \in Int, NEW y \in Int, x < y, x % m = y % m
    PROVE  y - x >= m
<1> DEFINE q == x \div m  s == x % m  t == y \div m u == y % m
<1>1. q \in Int /\ s \in Nat /\ x = m * q + s
  BY DivMod
<1>2. t \in Int /\ u \in Nat /\ u < m /\ y = m * t + u
  BY <1>1, DivMod
<1>3. s = u
  OBVIOUS
<1> HIDE DEF q, s, t, u
<1>4. y - x = m * (t - q)
  BY <1>1, <1>2, <1>3
<1>5. t - q >= 1 
  <2>1. t - q <= 0 => m * (t - q) <= 0
    BY <1>1, <1>2
  <2> QED BY <1>1, <1>2, <1>4, <2>1
<1> QED BY <1>1, <1>2, <1>4, <1>5, AtLeastOnce

\* A number below the modulus.
LEMMA SmallMod ==
    ASSUME NEW m \in Nat \ {0}, NEW x \in 0 .. m - 1
    PROVE  x % m = x
<1>1. x = m * 0 + x
  OBVIOUS
<1> QED BY <1>1, OneRemainder

\* The segments that begin and end a payload, and the number of segment s.
First(s) == s % PayloadSegments = 1 % PayloadSegments
Final(s) == s % PayloadSegments = 0

Number(c, s) == (c + s) % TpduModulus

\* Where a segment is in its payload.
LEMMA Places ==
    ASSUME NEW h \in Int, h % PayloadSegments = 0, NEW i \in 1 .. PayloadSegments
    PROVE  (First(h + i) <=> i = 1) /\ (Final(h + i) <=> i = PayloadSegments)
<1> DEFINE p == PayloadSegments
<1>1. p \in Nat \ {0} /\ i \in Int /\ i >= 1 /\ i <= p
  BY PairAssumption
<1>2. (h + i) % p = i % p
  <2>1. ((h % p) + i) % p = (h + i) % p
    BY <1>1, ModPlus
  <2> QED BY <2>1, <1>1
<1>3. p % p = 0
  <2>1. p = p * 1 + 0 /\ p \in Int /\ 0 < p
    BY <1>1
  <2> QED BY <1>1, <2>1, OneRemainder
<1>4. i # p => i % p = i
  BY <1>1, SmallMod
<1>5. p # 1 => 1 % p = 1
  BY <1>1, SmallMod
<1> QED BY <1>1, <1>2, <1>3, <1>4, <1>5 DEF First, Final

\* What comes before the first segment of a payload.
LEMMA BeforeFirst ==
    ASSUME NEW f \in Int, First(f)
    PROVE  (f - 1) % PayloadSegments = 0
<1> DEFINE p == PayloadSegments
           k == 0 - 1
<1>1. p \in Nat \ {0} /\ k \in Int /\ f + k = f - 1 /\ 1 + k = 0
        /\ 1 \in Int
  BY PairAssumption
<1> HIDE DEF k
<1>2. ((f % p) + k) % p = (f + k) % p
  BY <1>1, ModPlus
<1>3. ((1 % p) + k) % p = (1 + k) % p
  <2> DEFINE one == 1
  <2>1. one \in Int
    OBVIOUS
  <2> HIDE DEF one
  <2>2. ((one % p) + k) % p = (one + k) % p
    BY <1>1, <2>1, ModPlus
  <2> QED BY <2>2 DEF one
<1>4. 0 % p = 0
  BY <1>1, SmallMod
<1> QED BY <1>1, <1>2, <1>3, <1>4 DEF First

\* The numbers of the segments that follow.
LEMMA NextNumber ==
    ASSUME NEW c \in Int, NEW s \in Int
    PROVE  /\ Number(c, s) \in Nat
           /\ \A i \in Int : (Number(c, s) + i) % TpduModulus = Number(c, s + i)
           /\ NextTpdu(Number(c, s)) = Number(c, s + 1)
<1>1. TpduModulus \in Nat \ {0} /\ c + s \in Int
  BY TransportAssumption
<1>2. \A k \in Int : (((c + s) % TpduModulus) + k) % TpduModulus = ((c + s) + k) % TpduModulus
  BY <1>1, ModPlus
<1>3. \A k \in Int : (c + s) + k = c + (s + k)
  OBVIOUS
<1>4. (c + s) % TpduModulus \in Nat
  BY <1>1, DivMod
<1> QED BY <1>2, <1>3, <1>4 DEF Number, NextTpdu

\* Segment s as a's transport layer forms it.
IsSegment(t, c, s) ==
    /\ t.fir <=> First(s)
    /\ t.fin <=> Final(s)
    /\ t.seq = Number(c, s)
    /\ t.data = s

RxType == [sequence : Int, read : Seq(Nat)]

\* What the receiver r has read, when last is the segment it was given last:
\* consecutive segments of one payload from its first on, but not its final.
Reading(r, h, c, last) ==
    r.read # <<>> =>
        LET f == r.read[1]
            n == Len(r.read)
        IN  /\ f > h
            /\ First(f)
            /\ n < PayloadSegments
            /\ \A i \in 1 .. n : r.read[i] = f + i - 1
            /\ r.sequence = Number(c, f + n)
            /\ f + n - 1 <= last

\* A first segment.
LEMMA TakesFirst ==
    ASSUME NEW r \in RxType, NEW h \in Int, NEW c \in Int, NEW d \in Nat, d > h,
           NEW t, IsSegment(t, c, d), t.fir
    PROVE  LET p == ProcessReceive(r, t)
           IN  /\ p.rx \in RxType /\ Reading(p.rx, h, c, d) /\ p.fragment \in Seq(Nat)
               /\ p.fragment # <<>> => p.fragment = <<d>> /\ PayloadSegments = 1
               /\ RxCapacity >= 1 =>
                    IF Final(d) THEN p.fragment # <<>> /\ p.rx.read = <<>>
                                ELSE p.rx.read = <<d>> /\ p.fragment = <<>>
<1> DEFINE p == ProcessReceive(r, t)
           q == [sequence |-> t.seq, read |-> <<>>]
           next == [sequence |-> NextTpdu(t.seq), read |-> IF t.fin THEN <<>> ELSE <<d>>]
<1>1. AcceptFir(r, t) = q /\ ValidateHeader(r, t) /\ Append(q.read, t.data) = <<d>>
  BY DEF AcceptFir, ValidateHeader, IsSegment
<1>2. Len(<<d>>) = 1 /\ <<d>> \in Seq(Nat) /\ <<d>>[1] = d /\ <<d>> # <<>> /\ <<>> \in Seq(Nat)
  OBVIOUS
<1>3. t.seq \in Int /\ NextTpdu(t.seq) \in Int /\ NextTpdu(t.seq) = Number(c, d + 1)
  <2>1. t.seq = Number(c, d) /\ d \in Int
    BY DEF IsSegment
  <2>2. Number(c, d) \in Nat /\ NextTpdu(Number(c, d)) = Number(c, d + 1)
    BY <2>1, NextNumber
  <2>3. Number(c, d + 1) \in Nat
    BY <2>1, NextNumber
  <2> QED BY <2>1, <2>2, <2>3
<1>4. First(d) /\ (t.fin <=> Final(d)) /\ (Final(d) <=> PayloadSegments = 1)
  <2>1. First(d) /\ (t.fin <=> Final(d))
    BY DEF IsSegment
  <2>2. (d - 1) % PayloadSegments = 0 /\ 1 \in 1 .. PayloadSegments /\ d - 1 \in Int
          /\ (d - 1) + 1 = d
    BY <2>1, BeforeFirst, PairAssumption
  <2> QED BY <2>1, <2>2, Places
<1>5. CASE 1 > RxCapacity
  <2>1. p.rx = [q EXCEPT !.read = <<>>] /\ p.fragment = <<>>
    BY <1>1, <1>2, <1>5 DEF ProcessReceive
  <2>2. p.rx.read = <<>> /\ p.rx \in RxType
    BY <2>1, <1>3, <1>2 DEF RxType
  <2> QED BY <1>2, <1>5, <2>1, <2>2, TransportAssumption DEF Reading
<1>6. CASE ~(1 > RxCapacity)
  <2>1. p = [rx |-> next, fragment |-> IF t.fin THEN <<d>> ELSE <<>>]
    BY <1>1, <1>2, <1>6 DEF ProcessReceive
  <2>2. p.rx = next /\ next.sequence = Number(c, d + 1) /\ next \in RxType
    BY <2>1, <1>2, <1>3 DEF RxType
  <2>3. CASE t.fin
    <3>1. next.read = <<>> /\ p.fragment = <<d>>
      BY <2>1, <2>3
    <3> QED BY <1>2, <1>4, <2>2, <2>3, <3>1 DEF Reading
  <2>4. CASE ~t.fin
    <3>1. next.read = <<d>> /\ p.fragment = <<>>
      BY <2>1, <2>4
    <3> HIDE DEF next
    <3>2. PayloadSegments > 1
      BY <1>4, <2>4, PairAssumption
    <3>3. Reading(next, h, c, d)
      BY <1>2, <1>4, <2>2, <3>1, <3>2 DEF Reading
    <3> QED BY <1>2, <1>4, <2>2, <2>4, <3>1, <3>3
  <2> QED BY <2>3, <2>4
<1> QED BY <1>5, <1>6, TransportAssumption

\* What was read, and what it is with one segment more.
LEMMA ReadGrows ==
    ASSUME NEW q \in Seq(Nat), q # <<>>, \A i \in 1 .. Len(q) : q[i] = q[1] + i - 1,
           NEW d \in Nat
    PROVE  /\ Len(q) \in Nat \ {0} /\ q[1] \in Nat
           /\ q[Len(q)] = q[1] + Len(q) - 1
           /\ Append(q, d) \in Seq(Nat) /\ Len(Append(q, d)) = Len(q) + 1
           /\ Append(q, d) # <<>>
           /\ Append(q, d)[1] = q[1]
           /\ Append(q, d)[Len(q) + 1] = d
           /\ d = q[1] + Len(q) =>
                 \A i \in 1 .. Len(q) + 1 : Append(q, d)[i] = q[1] + i - 1
<1>1. Len(q) \in Nat \ {0} /\ q[1] \in Nat
  OBVIOUS
<1>2. q[Len(q)] = q[1] + Len(q) - 1
  BY <1>1
<1>3. Append(q, d) \in Seq(Nat) /\ Len(Append(q, d)) = Len(q) + 1 /\ Append(q, d) # <<>>
        /\ (\A i \in 1 .. Len(q) : Append(q, d)[i] = q[i]) /\ Append(q, d)[Len(q) + 1] = d
  OBVIOUS
<1> DEFINE n == Len(q)
           g == Append(q, d)
           f == q[1]
<1>4. g[1] = f
  BY <1>1, <1>3
<1>5. ASSUME d = f + n PROVE \A i \in 1 .. n + 1 : g[i] = f + i - 1
  <2>1. n \in Nat /\ f \in Nat /\ (\A i \in 1 .. n : g[i] = f + i - 1) /\ g[n + 1] = d
    BY <1>1, <1>3
  <2> HIDE DEF n, g, f
  <2>2. \A i \in 1 .. n + 1 : i \in 1 .. n \/ i = n + 1
    BY <2>1
  <2>3. f + (n + 1) - 1 = d
    BY <1>5, <2>1
  <2> QED BY <2>1, <2>2, <2>3
<1> QED BY <1>1, <1>2, <1>3, <1>4, <1>5

\* A segment that follows those that were read, when the numbers cannot have
\* come round since.
LEMMA TakesNext ==
    ASSUME NEW r \in RxType, NEW h \in Int, NEW c \in Int, NEW last \in Int, NEW d \in Nat, d > h,
           d > last, Reading(r, h, c, last), NEW t, IsSegment(t, c, d), ~t.fir,
           r.read # <<>> => d - r.read[Len(r.read)] <= TpduModulus,
           r.read # <<>>, t.seq = r.sequence
    PROVE  LET p == ProcessReceive(r, t)
           IN  /\ p.rx \in RxType /\ Reading(p.rx, h, c, d) /\ p.fragment \in Seq(Nat)
               /\ p.fragment # <<>> => IsPayload(p.fragment)
               /\ p.fragment # <<>> => p.fragment[PayloadSegments] = d
               /\ RxCapacity >= PayloadSegments =>
                    IF Final(d) THEN p.fragment # <<>> /\ p.rx.read = <<>>
                                ELSE /\ p.rx.read # <<>> /\ p.fragment = <<>>
                                     /\ p.rx.read[Len(p.rx.read)] = d
<1> DEFINE p == ProcessReceive(r, t)
           f == r.read[1]
           n == Len(r.read)
           read == Append(r.read, d)
           next == [sequence |-> NextTpdu(r.sequence), read |-> IF t.fin THEN <<>> ELSE read]
<1>0. r.read \in Seq(Nat) /\ r.sequence \in Int
        /\ r = [sequence |-> r.sequence, read |-> r.read]
  BY DEF RxType
<1>r. \A i \in 1 .. n : r.read[i] = f + i - 1
  BY DEF Reading
<1>2. f > h /\ First(f) /\ n < PayloadSegments /\ r.sequence = Number(c, f + n)
        /\ f + n - 1 <= last
  BY DEF Reading
<1>1. n \in Nat \ {0} /\ f \in Nat /\ r.read[n] = f + n - 1
  BY <1>0, <1>r, ReadGrows
<1>g. /\ read \in Seq(Nat) /\ Len(read) = n + 1 /\ read[1] = f /\ read[n + 1] = d /\ read # <<>>
      /\ d = f + n => \A i \in 1 .. n + 1 : read[i] = f + i - 1
  BY <1>0, <1>r, ReadGrows
<1>e. d - r.read[n] <= TpduModulus
  OBVIOUS
<1> HIDE DEF f, n, read
<1>3. d = f + n
  <2>2. d - (f + n - 1) <= TpduModulus /\ d >= f + n
    BY <1>1, <1>2, <1>e
  <2>3. Number(c, d) = Number(c, f + n)
    BY <1>2 DEF IsSegment
  <2>4. CASE d > f + n
    <3> DEFINE x == c + (f + n)
               y == c + d
    <3>1. x \in Int /\ y \in Int /\ x < y
      BY <1>1, <2>4
    <3>4. x % TpduModulus = y % TpduModulus
      BY <2>3 DEF Number
    <3>2. y - x = d - (f + n)
      BY <1>1
    <3> HIDE DEF x, y
    <3>3. y - x >= TpduModulus
      BY <3>1, <3>4, TransportAssumption, ComesRound
    <3> QED BY <1>1, <2>2, <3>2, <3>3, TransportAssumption
  <2> QED BY <1>1, <2>2, <2>4
<1>4. AcceptFir(r, t) = r /\ ValidateHeader(r, t) /\ Append(r.read, t.data) = read
  BY DEF AcceptFir, ValidateHeader, IsSegment, read
<1>5. read \in Seq(Nat) /\ Len(read) = n + 1 /\ read[1] = f /\ read[n + 1] = d /\ read # <<>>
        /\ \A i \in 1 .. n + 1 : read[i] = f + i - 1
  BY <1>g, <1>3
<1>6. NextTpdu(r.sequence) = Number(c, f + (n + 1)) /\ NextTpdu(r.sequence) \in Int
  <2>1. f + n \in Int /\ (f + n) + 1 = f + (n + 1) /\ f + (n + 1) \in Int
    BY <1>1
  <2>2. NextTpdu(Number(c, f + n)) = Number(c, (f + n) + 1)
    BY <2>1, NextNumber
  <2>3. Number(c, f + (n + 1)) \in Nat
    BY <2>1, NextNumber
  <2> QED BY <1>2, <2>1, <2>2, <2>3
<1>7. (t.fin <=> Final(d)) /\ (Final(d) <=> n + 1 = PayloadSegments)
  <2>1. (f - 1) % PayloadSegments = 0 /\ f - 1 \in Int
    BY <1>1, <1>2, BeforeFirst
  <2>2. n + 1 \in 1 .. PayloadSegments /\ (f - 1) + (n + 1) = d
    BY <1>1, <1>2, <1>3, PairAssumption
  <2>3. Final((f - 1) + (n + 1)) <=> n + 1 = PayloadSegments
    BY <2>1, <2>2, Places
  <2> QED BY <2>2, <2>3 DEF IsSegment
<1>8. CASE Len(read) > RxCapacity
  <2>1. p.rx = [r EXCEPT !.read = <<>>] /\ p.fragment = <<>>
    BY <1>4, <1>8 DEF ProcessReceive
  <2>2. p.rx.read = <<>> /\ p.rx \in RxType /\ <<>> \in Seq(Nat)
    <3>1. [r EXCEPT !.read = <<>>].read = <<>> /\ <<>> \in Seq(Nat)
      BY <1>0
    <3>2. \A e \in Seq(Nat) : [r EXCEPT !.read = e] \in RxType
      BY DEF RxType
    <3> QED BY <2>1, <3>1, <3>2
  <2>3. ~(RxCapacity >= PayloadSegments)
    BY <1>1, <1>2, <1>5, <1>8, PairAssumption, TransportAssumption
  <2> QED BY <2>1, <2>2, <2>3 DEF Reading
<1>9. CASE ~(Len(read) > RxCapacity)
  <2>1. p = [rx |-> next, fragment |-> IF t.fin THEN read ELSE <<>>]
    BY <1>4, <1>9 DEF ProcessReceive
  <2>2. next \in RxType /\ <<>> \in Seq(Nat)
    BY <1>5, <1>6 DEF RxType
  <2>3. CASE t.fin
    <3>1. next.read = <<>> /\ p.rx = next /\ p.fragment = read
      BY <2>1, <2>3
    <3> HIDE DEF next
    <3>2. IsPayload(read) /\ read[PayloadSegments] = d
      <4>1. Len(read) = PayloadSegments /\ DOMAIN read = 1 .. n + 1
        BY <1>1, <1>5, <1>7, <2>3
      <4>2. read[1] % PayloadSegments = 1 % PayloadSegments
        BY <1>2, <1>5 DEF First
      <4>3. \A i \in DOMAIN read : read[i] = read[1] + i - 1
        BY <1>5, <4>1
      <4>4. IsPayload(read)
        BY <4>1, <4>2, <4>3 DEF IsPayload
      <4> QED BY <1>5, <1>7, <2>3, <4>4
    <3> QED BY <1>5, <1>7, <2>2, <2>3, <3>1, <3>2 DEF Reading
  <2>4. CASE ~t.fin
    <3>1. next.read = read /\ next.sequence = Number(c, f + (n + 1)) /\ p.rx = next
            /\ p.fragment = <<>>
      BY <1>6, <2>1, <2>4
    <3> HIDE DEF next
    <3>2. n + 1 < PayloadSegments /\ f + (n + 1) - 1 <= d
      <4>1. n + 1 # PayloadSegments
        BY <1>7, <2>4
      <4>2. n + 1 < PayloadSegments
        BY <1>1, <1>2, <4>1, PairAssumption
      <4>3. f + (n + 1) - 1 = d
        BY <1>1, <1>3
      <4> QED BY <1>1, <4>2, <4>3
    <3>3. Reading(next, h, c, d)
      BY <1>1, <1>2, <1>5, <3>1, <3>2 DEF Reading
    <3> QED BY <1>1, <1>5, <1>7, <2>2, <2>4, <3>1, <3>3
  <2> QED BY <2>3, <2>4
<1> QED BY <1>1, <1>5, <1>8, <1>9, TransportAssumption

\* Any segment: what the receiver hands up is a whole payload.
LEMMA TakesSegment ==
    ASSUME NEW r \in RxType, NEW h \in Int, NEW c \in Int, NEW last \in Int, NEW d \in Nat, d > h,
           d > last, Reading(r, h, c, last), NEW t, IsSegment(t, c, d),
           r.read # <<>> => d - r.read[Len(r.read)] <= TpduModulus
    PROVE  LET p == ProcessReceive(r, t)
           IN  /\ p.rx \in RxType /\ Reading(p.rx, h, c, d) /\ p.fragment \in Seq(Nat)
               /\ p.fragment # <<>> => IsPayload(p.fragment)
<1> DEFINE p == ProcessReceive(r, t)
<1>1. CASE t.fir
  <2>1. p.rx \in RxType /\ Reading(p.rx, h, c, d) /\ p.fragment \in Seq(Nat)
          /\ (p.fragment # <<>> => p.fragment = <<d>> /\ PayloadSegments = 1)
    BY <1>1, TakesFirst
  <2>2. PayloadSegments = 1 => IsPayload(<<d>>)
    BY <1>1 DEF IsPayload, IsSegment, First
  <2> HIDE DEF p
  <2>3. p.fragment # <<>> => IsPayload(p.fragment)
    BY <2>1, <2>2
  <2> QED BY <2>1, <2>3 DEF p
<1>2. CASE ~t.fir /\ r.read # <<>> /\ t.seq = r.sequence
  BY <1>2, TakesNext
<1>3. CASE ~t.fir /\ ~(r.read # <<>> /\ t.seq = r.sequence)
  <2>1. p.rx = r /\ p.fragment = <<>>
    BY <1>3 DEF ProcessReceive, ValidateHeader
  <2>2. <<>> \in Seq(Nat)
    OBVIOUS
  <2>3. Reading(r, h, c, d)
    <3>1. CASE r.read = <<>>
      BY <3>1 DEF Reading
    <3>2. CASE r.read # <<>>
      <4> DEFINE f == r.read[1]
                 n == Len(r.read)
      <4>1. r.read \in Seq(Nat) /\ n \in Nat /\ f \in Nat
        BY <3>2 DEF RxType
      <4>2. f + n - 1 <= last
        BY <3>2 DEF Reading
      <4>3. f + n - 1 <= d
        BY <4>1, <4>2
      <4> QED BY <3>2, <4>3 DEF Reading
    <3> QED BY <3>1, <3>2
  <2> QED BY <2>1, <2>2, <2>3
<1> QED BY <1>1, <1>2, <1>3

Tpdus == [fir : BOOLEAN, fin : BOOLEAN, seq : Nat, data : Nat]

\* Any segment, whatever the receiver has read.
LEMMA ReceiveTyped ==
    ASSUME NEW r \in RxType, NEW t \in Tpdus
    PROVE  LET p == ProcessReceive(r, t) IN p.rx \in RxType /\ p.fragment \in Seq(Nat)
<1> DEFINE p == ProcessReceive(r, t)
           q == AcceptFir(r, t)
           read == Append(q.read, t.data)
<1>1. t.seq \in Int /\ t.data \in Nat /\ r.read \in Seq(Nat) /\ r.sequence \in Int
        /\ <<>> \in Seq(Nat) /\ r = [sequence |-> r.sequence, read |-> r.read]
  BY DEF Tpdus, RxType
<1>2. q \in RxType
  BY <1>1 DEF AcceptFir, RxType
<1>3. q.read \in Seq(Nat) /\ q.sequence \in Int /\ read \in Seq(Nat)
  BY <1>1, <1>2 DEF RxType
<1>4. NextTpdu(q.sequence) \in Int
  <2>1. q.sequence + 1 \in Int /\ TpduModulus \in Nat \ {0}
    BY <1>3, TransportAssumption
  <2> QED BY <2>1, DivMod DEF NextTpdu
<1>5. [q EXCEPT !.read = <<>>] \in RxType
  <2>1. \A e \in Seq(Nat) : [q EXCEPT !.read = e] \in RxType
    BY <1>2 DEF RxType
  <2> QED BY <1>1, <2>1
<1>6. /\ p.rx \in {r, [q EXCEPT !.read = <<>>], [sequence |-> NextTpdu(q.sequence),
                    read |-> IF t.fin THEN <<>> ELSE read]}
      /\ p.fragment \in {<<>>, read}
  BY DEF ProcessReceive
<1>7. [sequence |-> NextTpdu(q.sequence), read |-> IF t.fin THEN <<>> ELSE read] \in RxType
  BY <1>1, <1>3, <1>4 DEF RxType
<1> HIDE DEF p, q, read
<1>8. p.rx \in RxType /\ p.fragment \in Seq(Nat)
  BY <1>1, <1>3, <1>5, <1>6, <1>7
<1> QED BY <1>8 DEF p

Current == At(a.segments, handed)

\* The transport layer of a, whatever has failed.
TransmitInv ==
    /\ txSequence \in 0 .. TpduModulus - 1
    /\ tpdus \in Seq(Tpdus)
    /\ Len(tpdus) = handed
    /\ handed % PayloadSegments = 0
    /\ confirmed \subseteq 1 .. handed
    /\ a.segments # <<>> => handed \notin confirmed

\* The transport layer of b.
ReceiveInv ==
    /\ rx \in RxType
    /\ ~b.isOnline => rx.read = <<>>
    /\ fragments \in Seq(Seq(Nat))

\* What an entry point of a does to the send operation.
Goes(l, m) ==
    \/ m.results = <<>> /\ m.segments = l.segments
    \/ m.results = <<>> /\ Len(l.segments) > 1 /\ m.segments = Tail(l.segments)
    \/ m.results = <<TRUE>> /\ Len(l.segments) = 1 /\ m.segments = <<>>
    \/ m.results = <<FALSE>> /\ m.segments = <<>>

\* Each move keeps, advances or ends the send operation.
LEMMA MovesGo ==
    ASSUME NEW l, NEW m, Passes(l, m) \/ Carries(l, m)
    PROVE  Goes(l, m)
<1>1. CASE Rests(l, m) \/ Probes(l, m) \/ Idles(l, m) \/ ResetsLink(l, m)
  BY <1>1 DEF Rests, Probes, Idles, ResetsLink, Keeps, Goes
<1>2. CASE Begins(l, m) \/ Repeats(l, m) \/ Advances(l, m)
  BY <1>2 DEF Begins, Repeats, Advances, SendsData, Goes
<1>3. CASE Ends(l, m, TRUE)
  BY <1>3 DEF Ends, Goes
<1>4. CASE Ends(l, m, FALSE)
  BY <1>4 DEF Ends, Goes
<1> QED BY <1>1, <1>2, <1>3, <1>4 DEF Passes, Carries

\* The results that one entry point posts.
LEMMA ResultOf ==
    ASSUME NEW m, StationA(m)
    PROVE  /\ m.results = <<>> => confirmed' = confirmed /\ (clean' => clean)
           /\ m.results = <<TRUE>> => confirmed' = confirmed \cup Payload /\ (clean' <=> clean)
           /\ m.results = <<FALSE>> => confirmed' = confirmed /\ ~clean'
<1> DEFINE R == {m.results[i] : i \in DOMAIN m.results}
<1>1. /\ confirmed' = IF TRUE \in R THEN confirmed \cup Payload ELSE confirmed
      /\ clean' => clean
      /\ FALSE \in R => ~clean'
      /\ FALSE \notin R => (clean' <=> clean)
  BY DEF StationA
<1>2. m.results = <<>> => TRUE \notin R
  OBVIOUS
<1>3. m.results = <<TRUE>> => TRUE \in R /\ FALSE \notin R
  <2>1. 1 \in DOMAIN <<TRUE>> /\ <<TRUE>>[1] = TRUE
    OBVIOUS
  <2>2. \A i \in DOMAIN <<TRUE>> : <<TRUE>>[i] # FALSE
    <3>1. \A i \in DOMAIN <<TRUE>> : i = 1
      OBVIOUS
    <3> QED BY <2>1, <3>1, Zenon
  <2> QED BY <2>1, <2>2, Zenon
<1>4. m.results = <<FALSE>> => FALSE \in R /\ TRUE \notin R
  <2>1. 1 \in DOMAIN <<FALSE>> /\ <<FALSE>>[1] = FALSE
    OBVIOUS
  <2>2. \A i \in DOMAIN <<FALSE>> : <<FALSE>>[i] # TRUE
    <3>1. \A i \in DOMAIN <<FALSE>> : i = 1
      OBVIOUS
    <3> QED BY <2>1, <3>1, Zenon
  <2> QED BY <2>1, <2>2, Zenon
<1> HIDE DEF R
<1> QED BY <1>1, <1>2, <1>3, <1>4

\* The payload that is handed over last, when there is one.
LEMMA PayloadTyped ==
    ASSUME handed \in Nat
    PROVE  Payload \subseteq 1 .. handed /\ (handed >= 1 => handed \in Payload)
BY PairAssumption DEF Payload

\* A sequence with something in it.
LEMMA LongIsFull ==
    ASSUME NEW s, s = <<>>
    PROVE  Len(s) = 0
OBVIOUS

\* A sequence is not its own tail.
LEMMA TailShorter ==
    ASSUME NEW s \in Seq(Nat), s # <<>>
    PROVE  Tail(s) # s /\ (Len(s) > 1 => Tail(s) # <<>>)
<1> DEFINE t == Tail(s)
           k == Len(t)
           n == Len(s)
<1>1. k = n - 1 /\ n \in Nat
  OBVIOUS
<1>2. t = <<>> => k = 0
  BY LongIsFull
<1>3. t = s => k = n
  OBVIOUS
<1> HIDE DEF t, k, n
<1> QED BY <1>1, <1>2, <1>3 DEF t, n

\* What the transport layer of a makes of it.
LEMMA TransmitStep ==
    ASSUME PairInv, TransmitInv, NEW m, Goes(a, m), StationA(m), handed' = handed, Transmit,
           m.segments \in Seq(Nat)
    PROVE  /\ txSequence' \in 0 .. TpduModulus - 1
           /\ tpdus' = tpdus
           /\ confirmed' \subseteq 1 .. handed
           /\ a'.segments # <<>> => handed \notin confirmed'
           /\ Current' >= Current
           /\ clean' => /\ clean
                        /\ \A c \in Int : txSequence = Number(c, Current)
                                            => txSequence' = Number(c, Current')
<1>0. Numbered(a.segments, handed) /\ handed \in Nat /\ a.segments \in Seq(Nat)
  BY DEF PairInv, Numbered
<1>1. a'.segments = m.segments
  BY DEF StationA, Fresh
<1>2. tpdus' = tpdus /\ txSequence' = Advance
  BY DEF Transmit
<1>3. /\ Current \in Nat
      /\ a.segments # <<>> => Current <= handed
      /\ Len(a.segments) > 1 => At(Tail(a.segments), handed) = Current + 1
      /\ At(<<>>, handed) = handed + 1
  <2>1. At(<<>>, handed) = handed + 1
    BY <1>0 DEF At
  <2> QED BY <1>0, <2>1, NumberedHead DEF Current
<1>4. Current' = At(m.segments, handed)
  BY <1>1 DEF Current, At
<1>5. NextTpdu(txSequence) \in 0 .. TpduModulus - 1
        /\ \A c \in Int : NextTpdu(Number(c, Current)) = Number(c, Current + 1)
  <2>1. txSequence + 1 \in Int /\ TpduModulus \in Nat \ {0} /\ Current \in Int
    BY <1>3, TransportAssumption DEF TransmitInv
  <2>2. (txSequence + 1) % TpduModulus \in Nat /\ (txSequence + 1) % TpduModulus < TpduModulus
    BY <2>1, DivMod
  <2>3. NextTpdu(txSequence) \in 0 .. TpduModulus - 1
    BY <2>1, <2>2 DEF NextTpdu
  <2> QED BY <2>1, <2>3, NextNumber
<1>6. CASE m.results = <<>> /\ m.segments = a.segments
  <2>1. confirmed' = confirmed /\ (clean' => clean)
    BY <1>6, ResultOf DEF StationA
  <2>2. Advance = txSequence
    BY <2>1, <1>0, <1>1, <1>6, TailShorter DEF Advance
  <2>3. Current' = Current
    BY <1>4, <1>6 DEF Current
  <2> QED BY <1>1, <1>2, <1>3, <1>6, <2>1, <2>2, <2>3 DEF TransmitInv
<1>7. CASE m.results = <<>> /\ Len(a.segments) > 1 /\ m.segments = Tail(a.segments)
  <2>1. confirmed' = confirmed /\ (clean' => clean)
    BY <1>7, ResultOf DEF StationA
  <2>2. a.segments # <<>> /\ Tail(a.segments) # <<>>
    <3>1. a.segments # <<>>
      BY <1>7, LongIsFull
    <3> QED BY <3>1, <1>0, <1>7, TailShorter
  <2>3. Advance = NextTpdu(txSequence)
    BY <2>2, <1>1, <1>7 DEF Advance
  <2>4. Current' = Current + 1
    BY <1>3, <1>4, <1>7
  <2> QED BY <1>1, <1>2, <1>3, <1>5, <1>7, <2>1, <2>2, <2>3, <2>4 DEF TransmitInv
<1>8. CASE m.results = <<TRUE>> /\ Len(a.segments) = 1 /\ m.segments = <<>>
  <2>1. confirmed' = confirmed \cup Payload /\ (clean' => clean)
    BY <1>8, ResultOf DEF StationA
  <2>2. a.segments # <<>> /\ Current = handed /\ Current' = handed + 1
    <3>1. a.segments # <<>>
      BY <1>8, LongIsFull
    <3>2. Current = handed
      BY <1>0, <1>8 DEF Current, At
    <3> QED BY <3>1, <3>2, <1>3, <1>4, <1>8
  <2>3. handed >= 1
    <3>1. Len(a.segments) <= handed
      BY <1>0 DEF Numbered
    <3> QED BY <3>1, <1>8, <1>0
  <2>4. confirmed' # confirmed /\ confirmed' \subseteq 1 .. handed
    BY <1>0, <2>1, <2>2, <2>3, PayloadTyped DEF TransmitInv
  <2>5. Advance = NextTpdu(txSequence)
    BY <2>4 DEF Advance
  <2> QED BY <1>0, <1>1, <1>2, <1>5, <1>8, <2>1, <2>2, <2>4, <2>5
<1>9. CASE m.results = <<FALSE>> /\ m.segments = <<>>
  <2>1. confirmed' = confirmed /\ ~clean'
    BY <1>9, ResultOf DEF StationA
  <2>2. Advance \in {txSequence, NextTpdu(txSequence)}
    BY DEF Advance
  <2>3. Current' = handed + 1 /\ Current <= handed + 1
    BY <1>0, <1>3, <1>4, <1>9, NumberedHead DEF Current
  <2> QED BY <1>0, <1>1, <1>2, <1>3, <1>5, <1>9, <2>1, <2>2, <2>3 DEF TransmitInv
<1> QED BY <1>6, <1>7, <1>8, <1>9 DEF Goes

\* The data on the line was handed over after segment h.
NewerThan(q, h) == \A i \in DOMAIN q : IsData(q[i]) => q[i].data > h

\* The session that began when h segments had been handed over, c being what
\* its segments' numbers are ahead of their count.
Session(h, c) ==
    /\ h \in Nat
    /\ h % PayloadSegments = 0
    /\ h < Current
    /\ txSequence = Number(c, Current)
    /\ \A s \in h + 1 .. handed : IsSegment(tpdus[s], c, s)
    /\ NewerThan(ab, h)

\* What is left of the line, and what is put on it.
LEMMA NewerLine ==
    ASSUME NEW q \in Seq(ForwardFrames), NEW h, NewerThan(q, h)
    PROVE  /\ q # <<>> => NewerThan(Tail(q), h) /\ NewerThan(Front(q), h)
           /\ \A f \in ForwardFrames : (IsData(f) => f.data > h) => NewerThan(q \o <<f>>, h)
           /\ q \o <<>> = q
<1>1. q # <<>> => NewerThan(Tail(q), h)
  <2>1. q # <<>> => \A i \in DOMAIN Tail(q) : i + 1 \in DOMAIN q /\ Tail(q)[i] = q[i + 1]
    OBVIOUS
  <2> QED BY <2>1 DEF NewerThan
<1>2. q # <<>> => NewerThan(Front(q), h)
  <2>1. q # <<>> => \A i \in DOMAIN Front(q) : i \in DOMAIN q /\ Front(q)[i] = q[i]
    BY DEF Front
  <2> QED BY <2>1 DEF NewerThan
<1>3. ASSUME NEW f \in ForwardFrames, IsData(f) => f.data > h PROVE NewerThan(q \o <<f>>, h)
  <2> DEFINE g == Append(q, f)
  <2>1. q \o <<f>> = g
    BY AppendIsConcat
  <2>2. \A i \in DOMAIN g : (i \in DOMAIN q /\ g[i] = q[i]) \/ g[i] = f
    OBVIOUS
  <2> HIDE DEF g
  <2>3. NewerThan(g, h)
    BY <1>3, <2>2 DEF NewerThan
  <2> QED BY <2>1, <2>3
<1>4. q \o <<>> = q
  BY ConcatEmptySeq
<1> QED BY <1>1, <1>2, <1>3, <1>4

\* What a puts on the line, and when that is data: the segment it is at.
Sends(m) ==
    \/ m.sent = <<>>
    \/ \E f \in ForwardFrames : m.sent = <<f>> /\ ~IsData(f)
    \/ m.sent = <<DataFrame(m)>> /\ m.pri \in Carrying

\* Each move sends one frame or none.
LEMMA MovesSend ==
    ASSUME NEW l, NEW m, Passes(l, m) \/ Carries(l, m)
    PROVE  Sends(m)
<1> DEFINE C == \E f \in ForwardFrames : m.sent = <<f>> /\ ~IsData(f)
<1>1. m.sent = <<ResetLinks>> \/ m.sent = <<RequestLinkStatus>> => C
  BY ControlFrames
<1> HIDE DEF C
<1>2. \/ m.sent = <<>> \/ m.sent = <<ResetLinks>> \/ m.sent = <<RequestLinkStatus>>
      \/ m.sent = <<DataFrame(m)>> /\ m.pri \in Carrying
  <2>1. CASE Rests(l, m) \/ Probes(l, m) \/ Idles(l, m) \/ ResetsLink(l, m)
    BY <2>1 DEF Rests, Probes, Idles, ResetsLink
  <2>2. CASE Begins(l, m) \/ Repeats(l, m) \/ Advances(l, m)
    BY <2>2 DEF Begins, Repeats, Advances, SendsData
  <2>3. CASE Ends(l, m, TRUE)
    BY <2>3 DEF Ends
  <2>4. CASE Ends(l, m, FALSE)
    BY <2>4 DEF Ends
  <2> QED BY <2>1, <2>2, <2>3, <2>4 DEF Passes, Carries
<1> QED BY <1>1, <1>2 DEF Sends, C

\* What a sends is of this session.
LEMMA SendsNewer ==
    ASSUME NEW m, Settled(m), Sends(m), NEW last \in Nat, Numbered(m.segments, last),
           NEW h \in Nat, h < At(m.segments, last), NEW q \in Seq(ForwardFrames), NewerThan(q, h)
    PROVE  NewerThan(q \o m.sent, h)
<1>1. CASE m.sent = <<>>
  BY <1>1, NewerLine
<1>2. CASE \E f \in ForwardFrames : m.sent = <<f>> /\ ~IsData(f)
  BY <1>2, NewerLine
<1>3. CASE m.sent = <<DataFrame(m)>> /\ m.pri \in Carrying
  <2>1. m.segments # <<>> /\ m.nextWriteFCB \in BOOLEAN
    BY <1>3 DEF Settled, Sender, SenderBody
  <2>2. Head(m.segments) = At(m.segments, last) /\ At(m.segments, last) \in Nat
    BY <2>1, NumberedHead
  <2>3. DataFrame(m) \in ForwardFrames /\ DataFrame(m).data = At(m.segments, last)
    BY <2>1, <2>2 DEF DataFrame, Frame, ForwardFrames
  <2> QED BY <1>3, <2>3, NewerLine
<1> QED BY <1>1, <1>2, <1>3 DEF Sends

\* A move of a stays in the session.
LEMMA SessionGoesOn ==
    ASSUME PairInv, PairInv', TransmitInv, NEW h, NEW c \in Int, Session(h, c),
           NEW m, Settled(m), Passes(a, m) \/ Carries(a, m), StationA(m), handed' = handed,
           Transmit, clean', NEW q \in Seq(ForwardFrames), NewerThan(q, h), ab' = q \o m.sent
    PROVE  Session(h, c)'
<1>1. a'.segments = m.segments /\ Numbered(m.segments, handed) /\ m.segments \in Seq(Nat)
  <2>1. a'.segments = m.segments
    BY DEF StationA, Fresh
  <2> QED BY <2>1 DEF PairInv, Numbered
<1>2. Goes(a, m) /\ Sends(m)
  BY MovesGo, MovesSend
<1>3. tpdus' = tpdus /\ Current' >= Current
        /\ (txSequence = Number(c, Current) => txSequence' = Number(c, Current'))
  BY <1>1, <1>2, TransmitStep
<1>4. Current \in Nat /\ Current' \in Nat /\ Current' = At(m.segments, handed) /\ handed \in Nat
  <2>1. handed \in Nat /\ Numbered(a.segments, handed)
    BY DEF PairInv
  <2> QED BY <2>1, <1>1, NumberedHead DEF Current
<1>5. h \in Nat /\ h < Current'
  BY <1>3, <1>4 DEF Session
<1>6. NewerThan(ab', h)
  BY <1>1, <1>2, <1>4, <1>5, SendsNewer
<1>7. \A s \in h + 1 .. handed' : IsSegment(tpdus'[s], c, s)
  BY <1>3 DEF Session
<1> QED BY <1>3, <1>5, <1>6, <1>7 DEF Session

\* Handing segments over sends one frame or none, and posts nothing.
LEMMA LoadsSend ==
    ASSUME NEW l, NEW m, NEW s, Loads(l, m, s)
    PROVE  Sends(m) /\ m.results = <<>> /\ m.segments = s
<1>1. ResetLinks \in ForwardFrames /\ ~IsData(ResetLinks)
  BY ControlFrames
<1>2. m.results = <<>> /\ m.segments = s
  BY DEF Loads
<1>3. Sends(m)
  <2>1. \/ m.sent = <<>> \/ m.sent = <<ResetLinks>>
        \/ m.sent = <<DataFrame(m)>> /\ m.pri \in Carrying
    BY DEF Loads
  <2> QED BY <1>1, <2>1 DEF Sends
<1> QED BY <1>2, <1>3

\* The segments of a payload, as the transport layer forms them.
LEMMA PayloadFormed ==
    ASSUME handed \in Nat, handed % PayloadSegments = 0, txSequence \in Nat, NEW s, s = Configure
    PROVE  /\ s \in Seq(Tpdus) /\ Len(s) = PayloadSegments
           /\ \A c \in Int, i \in 1 .. PayloadSegments :
                 txSequence = Number(c, handed + 1) => IsSegment(s[i], c, handed + i)
<1> DEFINE N == PayloadSegments
           Seg(i) == GetSegment(i, N, (txSequence + i - 1) % TpduModulus, handed + i)
<1>1. s = [i \in 1 .. N |-> Seg(i)] /\ N \in Nat \ {0}
  BY PairAssumption DEF Configure
<1>2. \A i \in 1 .. N : Seg(i) \in Tpdus
  <2> TAKE i \in 1 .. N
  <2>1. /\ txSequence + i - 1 \in Int /\ handed + i \in Nat
        /\ (i = 1) \in BOOLEAN /\ (i = N) \in BOOLEAN
    BY <1>1
  <2>2. (txSequence + i - 1) % TpduModulus \in Nat
    BY <2>1, DivMod, TransportAssumption
  <2> QED BY <2>1, <2>2 DEF Tpdus, GetSegment, Tpdu
<1>3. ASSUME NEW c \in Int, NEW i \in 1 .. N, txSequence = Number(c, handed + 1)
      PROVE  IsSegment(Seg(i), c, handed + i)
  <2>1. i \in Int /\ handed + 1 \in Int /\ i - 1 \in Int /\ (handed + 1) + (i - 1) = handed + i
          /\ txSequence + i - 1 = txSequence + (i - 1)
    BY <1>1
  <2>2. (txSequence + i - 1) % TpduModulus = Number(c, handed + i)
    <3>1. (Number(c, handed + 1) + (i - 1)) % TpduModulus = Number(c, (handed + 1) + (i - 1))
      BY <2>1, NextNumber
    <3> QED BY <1>3, <2>1, <3>1
  <2>3. (First(handed + i) <=> i = 1) /\ (Final(handed + i) <=> i = N)
    BY Places
  <2>4. /\ Seg(i).fir <=> i = 1
        /\ Seg(i).fin <=> i = N
        /\ Seg(i).seq = (txSequence + i - 1) % TpduModulus
        /\ Seg(i).data = handed + i
    BY DEF GetSegment, Tpdu
  <2> HIDE DEF Seg
  <2> QED BY <2>2, <2>3, <2>4 DEF IsSegment
<1> HIDE DEF Seg
<1>4. s \in Seq(Tpdus) /\ Len(s) = N /\ \A i \in 1 .. N : s[i] = Seg(i)
  BY <1>1, <1>2
<1> QED BY <1>3, <1>4

\* Two sequences of segments, one after the other.
LEMMA Appended ==
    ASSUME NEW s \in Seq(Tpdus), NEW t \in Seq(Tpdus)
    PROVE  /\ s \o t \in Seq(Tpdus) /\ Len(s \o t) = Len(s) + Len(t)
           /\ \A i \in 1 .. Len(s) : (s \o t)[i] = s[i]
           /\ \A i \in 1 .. Len(t) : (s \o t)[Len(s) + i] = t[i]
OBVIOUS

\* A payload is handed over.
LEMMA HandOver ==
    ASSUME PairInv, PairInv', TransmitInv, SendPayload, Transmit
    PROVE  /\ TransmitInv'
           /\ clean' => clean
           /\ \A h, c \in Int : Session(h, c) => Session(h, c)'
<1> DEFINE s == [i \in 1 .. PayloadSegments |-> handed + i]
           m == Send(a, s)
           N == PayloadSegments
<1>1. Quiet(a) /\ a.isOnline /\ a.segments = <<>> /\ StepA(m) /\ handed' = handed + N
        /\ handed \in Nat /\ N \in Nat \ {0}
  BY PairAssumption DEF PairInv, SendPayload
<1>2. s \in Seq(Nat) /\ s # <<>> /\ At(s, handed + N) = handed + 1
  <2>1. s = [i \in 1 .. N |-> handed + i]
    OBVIOUS
  <2> HIDE DEF s
  <2> QED BY <1>1, <2>1, Consecutive
<1>3. Settled(m) /\ Loads(a, m, s)
  BY <1>1, <1>2, SendMoves
<1> HIDE DEF s, m
<1>4. Sends(m) /\ m.results = <<>> /\ m.segments = s
  BY <1>3, LoadsSend
<1>5. ab' = ab \o m.sent /\ a'.segments = s /\ confirmed' = confirmed /\ (clean' => clean)
  <2>1. StationA(m) /\ ab' = ab \o m.sent
    BY <1>1 DEF StepA
  <2>2. confirmed' = confirmed /\ (clean' => clean)
    BY <2>1, <1>4, ResultOf
  <2>3. a' = Fresh(m)
    BY <2>1 DEF StationA
  <2>4. a'.segments = m.segments
    BY <2>3 DEF Fresh
  <2> QED BY <1>4, <2>1, <2>2, <2>4
<1>6. Current = handed + 1 /\ Current' = handed + 1
  <2>1. At(<<>>, handed) = handed + 1
    BY <1>1 DEF At
  <2>2. Current' = At(s, handed + N)
    BY <1>1, <1>5 DEF Current
  <2> QED BY <1>1, <1>2, <2>1, <2>2 DEF Current
<1>7. tpdus' = tpdus \o Configure /\ txSequence' = txSequence
  <2>1. handed' # handed
    BY <1>1
  <2>2. Advance = txSequence
    BY <1>1, <1>5 DEF Advance
  <2> QED BY <2>1, <2>2 DEF Transmit
<1> DEFINE p == Configure
<1>8. p \in Seq(Tpdus) /\ Len(p) = N /\ \A c \in Int, i \in 1 .. N :
         txSequence = Number(c, handed + 1) => IsSegment(p[i], c, handed + i)
  BY <1>1, PayloadFormed DEF TransmitInv
<1> HIDE DEF p
<1>9. /\ tpdus' \in Seq(Tpdus) /\ Len(tpdus') = handed + N
      /\ \A i \in 1 .. handed : tpdus'[i] = tpdus[i]
      /\ \A i \in 1 .. N : tpdus'[handed + i] = p[i]
  <2>1. tpdus \in Seq(Tpdus) /\ Len(tpdus) = handed /\ tpdus' = tpdus \o p
    BY <1>7 DEF TransmitInv, p
  <2> QED BY <1>8, <2>1, Appended
<1>10. (handed + N) % N = 0
  <2>1. Final(handed + N)
    BY <1>1, Places DEF TransmitInv
  <2> QED BY <2>1 DEF Final
<1>11. confirmed' \subseteq 1 .. handed + N /\ handed + N \notin confirmed'
  BY <1>1, <1>5 DEF TransmitInv
<1>12. TransmitInv'
  BY <1>1, <1>7, <1>9, <1>10, <1>11 DEF TransmitInv
<1>13. ASSUME NEW h, NEW c \in Int, Session(h, c) PROVE Session(h, c)'
  <2>1. h \in Nat /\ h % N = 0 /\ h < handed + 1 /\ txSequence = Number(c, handed + 1)
          /\ NewerThan(ab, h)
    BY <1>6, <1>13 DEF Session
  <2>2. \A e \in h + 1 .. handed' : IsSegment(tpdus'[e], c, e)
    <3> TAKE e \in h + 1 .. handed'
    <3>1. CASE e <= handed
      <4>1. e \in h + 1 .. handed /\ e \in 1 .. handed
        BY <1>1, <2>1, <3>1
      <4> QED BY <4>1, <1>9, <1>13 DEF Session
    <3>2. CASE ~(e <= handed)
      <4>1. e - handed \in 1 .. N /\ handed + (e - handed) = e
        BY <1>1, <2>1, <3>2
      <4> QED BY <4>1, <1>8, <1>9, <2>1
    <3> QED BY <3>1, <3>2
  <2>3. NewerThan(ab', h)
    <3>1. ab \in Seq(ForwardFrames)
      BY DEF PairInv, LineOf, Line
    <3>2. Numbered(m.segments, handed') /\ handed' \in Nat
      BY <1>4, <1>5 DEF PairInv
    <3>3. At(m.segments, handed') = handed + 1
      BY <1>1, <1>2, <1>4
    <3> QED BY <1>3, <1>4, <1>5, <2>1, <3>1, <3>2, <3>3, SendsNewer
  <2> QED BY <1>6, <1>7, <2>1, <2>2, <2>3 DEF Session
<1> QED BY <1>5, <1>12, <1>13

\* A step in which a neither sends nor is sent anything to.
LEMMA TransmitRests ==
    ASSUME TransmitInv, Transmit, handed' = handed, confirmed' = confirmed,
           a'.segments = a.segments, a.segments \in Seq(Nat)
    PROVE  TransmitInv' /\ tpdus' = tpdus /\ txSequence' = txSequence /\ Current' = Current
<1>1. Advance = txSequence
  BY TailShorter DEF Advance
<1>2. tpdus' = tpdus /\ txSequence' = txSequence
  BY <1>1 DEF Transmit
<1>3. Current' = Current
  BY DEF Current
<1> QED BY <1>2, <1>3 DEF TransmitInv

\* Such a step stays in the session.
LEMMA SessionRests ==
    ASSUME NEW h, NEW c, Session(h, c), handed' = handed, tpdus' = tpdus,
           txSequence' = txSequence, Current' = Current, NewerThan(ab', h)
    PROVE  Session(h, c)'
BY DEF Session

\* A session begins where the one before it has left the numbers.
LEMMA SessionOpens ==
    ASSUME PairInv, TransmitInv, Connect, Transmit
    PROVE  TransmitInv' /\ \E h \in Nat, c \in Int : Session(h, c)'
<1>1. a'.segments = <<>> /\ a.segments = <<>> /\ ab' = <<>> /\ handed' = handed /\ handed \in Nat
        /\ confirmed' = confirmed
  <2>1. Quiet(a) /\ ~a.isOnline /\ ab = <<>> /\ handed \in Nat
    BY DEF PairInv, Connect
  <2>2. a.segments = <<>>
    BY <2>1 DEF Quiet, Sender
  <2>3. a'.segments = <<>>
    BY <2>1, UpSender DEF Connect
  <2> QED BY <2>1, <2>2, <2>3 DEF Connect
<1>2. TransmitInv' /\ tpdus' = tpdus /\ txSequence' = txSequence /\ Current' = Current
  <2>1. a.segments \in Seq(Nat)
    BY <1>1
  <2> QED BY <1>1, <2>1, TransmitRests
<1>3. Current = handed + 1
  BY <1>1 DEF Current, At
<1>4. PICK c \in Int : c = txSequence - (handed + 1)
  BY <1>1 DEF TransmitInv
<1>h. PICK h \in Nat : h = handed
  BY <1>1
<1>5. Number(c, h + 1) = txSequence
  <2>1. txSequence % TpduModulus = txSequence
    BY SmallMod, TransportAssumption DEF TransmitInv
  <2>2. c + (h + 1) = txSequence
    BY <1>1, <1>4, <1>h DEF TransmitInv
  <2> QED BY <2>1, <2>2 DEF Number
<1>6. \A s \in h + 1 .. handed' : FALSE
  BY <1>1, <1>h
<1>7. NewerThan(ab', h)
  BY <1>1 DEF NewerThan
<1>8. Session(h, c)'
  BY <1>1, <1>2, <1>3, <1>h, <1>5, <1>6, <1>7 DEF Session, TransmitInv
<1> QED BY <1>2, <1>8

\* What b's transport layer does when b is given nothing to push up.
LEMMA ReceiveRests ==
    ASSUME PairInv, ReceiveInv, TransportReceive, delivered' = delivered
    PROVE  /\ rx' \in RxType /\ fragments' = fragments /\ fragments' \in Seq(Seq(Nat))
           /\ (b.isOnline /\ b'.isOnline) => rx' = rx
           /\ ~(b.isOnline /\ b'.isOnline) => rx'.read = <<>>
<1>1. fragments' = fragments /\ rx' = IF b.isOnline /\ ~b'.isOnline THEN Reset(rx) ELSE rx
  BY DEF TransportReceive
<1>2. InitialRx.read = <<>> /\ InitialRx \in RxType /\ Reset(rx) = InitialRx
  BY DEF InitialRx, RxType, Reset
<1> QED BY <1>1, <1>2 DEF ReceiveInv

\* What it does with a segment.
LEMMA ReceiveTakes ==
    ASSUME TransmitInv, ReceiveInv, TransportReceive, NEW d \in 1 .. handed, handed \in Nat,
           delivered \in Seq(Nat), delivered' = Append(delivered, d)
    PROVE  LET p == ProcessReceive(rx, tpdus[d])
           IN  /\ rx' = p.rx /\ p.rx \in RxType /\ p.fragment \in Seq(Nat)
               /\ fragments' = IF p.fragment # <<>> THEN Append(fragments, p.fragment)
                                                    ELSE fragments
               /\ fragments' \in Seq(Seq(Nat))
<1>1. delivered' # delivered /\ Last(delivered') = d
  <2>1. d \in Nat /\ Len(Append(delivered, d)) = Len(delivered) + 1 /\ Len(delivered) \in Nat
          /\ Append(delivered, d)[Len(delivered) + 1] = d
    OBVIOUS
  <2>2. Len(Append(delivered, d)) # Len(delivered)
    BY <2>1
  <2>3. Append(delivered, d) # delivered
    BY <2>2, Zenon
  <2> QED BY <2>1, <2>3 DEF Last
<1> DEFINE p == ProcessReceive(rx, tpdus[d])
<1>2. rx' = p.rx /\ fragments' = IF p.fragment # <<>> THEN Append(fragments, p.fragment)
                                                      ELSE fragments
  BY <1>1 DEF TransportReceive
<1>3. tpdus[d] \in Tpdus /\ rx \in RxType /\ fragments \in Seq(Seq(Nat))
  BY DEF TransmitInv, ReceiveInv
<1>4. p.rx \in RxType /\ p.fragment \in Seq(Nat)
  BY <1>3, ReceiveTyped
<1> HIDE DEF p
<1>5. fragments' \in Seq(Seq(Nat))
  BY <1>2, <1>3, <1>4
<1> QED BY <1>2, <1>4, <1>5 DEF p

\* One of a's own entry points: its frame, if any, follows what is left of the line.
AMoves ==
    \E m, q :
        /\ a.isOnline /\ Settled(m) /\ (Passes(a, m) \/ Carries(a, m))
        /\ StationA(m) /\ handed' = handed /\ UnchangedB
        /\ q = ab \/ (ab # <<>> /\ q = Front(ab))
        /\ ab' = q \o m.sent

\* Every entry point of a but Send, OnLowerLayerUp and OnLowerLayerDown.
LEMMA AMovesOf ==
    ASSUME PairInv, TransmitResultA \/ TransmitFailsA \/ ReceiveA \/ TimeoutA \/ KeepAliveA
    PROVE  AMoves
<1>0. Quiet(a) /\ (a.txMode # "Idle" \/ a.rspTimer => a.isOnline) /\ ba \in Seq({Ack, LinkStatus})
  BY DEF PairInv, Quiet, Sender
<1>1. ASSUME NEW m, a.isOnline, StepA(m), handed' = handed, UnchangedB,
             Settled(m) /\ (Passes(a, m) \/ Carries(a, m))
      PROVE  AMoves
  BY <1>1 DEF AMoves, StepA
<1>2. CASE TransmitResultA
  <2>1. StepA(TransmitResult(a, TRUE)) /\ handed' = handed /\ UnchangedB /\ a.isOnline
          /\ a.txMode # "Idle"
    BY <1>0, <1>2 DEF TransmitResultA
  <2>2. Settled(TransmitResult(a, TRUE)) /\ Rests(a, TransmitResult(a, TRUE))
    BY <1>0, <2>1, WrittenMoves
  <2> QED BY <1>1, <2>1, <2>2, EndsPass
<1>3. CASE TransmitFailsA
  <2> DEFINE m == TransmitResult(a, FALSE)
  <2>1. StationA(m) /\ handed' = handed /\ UnchangedB /\ a.isOnline /\ a.txMode # "Idle"
          /\ ab # <<>> /\ ab' = Front(ab) \o m.sent
    BY <1>0, <1>3 DEF TransmitFailsA
  <2>2. Settled(m) /\ (Ends(a, m, FALSE) \/ ProbeEnds(a, m))
    BY <1>0, <2>1, UnwrittenMoves
  <2> HIDE DEF m
  <2>3. Passes(a, m) \/ Carries(a, m)
    BY <2>2, EndsPass
  <2> QED BY <2>1, <2>2, <2>3 DEF AMoves
<1>4. CASE ReceiveA
  <2> DEFINE m == OnFrame(a, Head(ba))
  <2>1. StepA(m) /\ handed' = handed /\ UnchangedB /\ ba # <<>>
    BY <1>4 DEF ReceiveA
  <2>2. a.isOnline /\ Head(ba) \in {Ack, LinkStatus}
    BY <1>0, <2>1 DEF PairInv
  <2>3. Settled(m) /\ (Passes(a, m) \/ Carries(a, m))
    <3>1. CASE Head(ba) = Ack
      <4>1. Settled(m) /\ (Rests(a, m) \/ Begins(a, m) \/ Advances(a, m) \/ Ends(a, m, TRUE))
        BY <1>0, <2>2, <3>1, AckMoves
      <4> HIDE DEF m
      <4> QED BY <4>1, EndsPass
    <3>2. CASE Head(ba) = LinkStatus
      <4>1. Settled(m) /\ (Rests(a, m) \/ Ends(a, m, FALSE) \/ ProbeEnds(a, m))
        BY <1>0, <2>2, <3>2, StatusMoves
      <4> HIDE DEF m
      <4> QED BY <4>1, EndsPass
    <3> QED BY <2>2, <3>1, <3>2
  <2> HIDE DEF m
  <2> QED BY <1>1, <2>1, <2>2, <2>3
<1>5. CASE TimeoutA
  <2> DEFINE m == ResponseTimeout(a)
  <2>1. StepA(m) /\ handed' = handed /\ UnchangedB /\ a.rspTimer /\ a.isOnline
    BY <1>0, <1>5 DEF TimeoutA
  <2>2. Settled(m) /\ (ResetsLink(a, m) \/ Repeats(a, m) \/ Ends(a, m, FALSE) \/ ProbeEnds(a, m))
    BY <1>0, <2>1, TimeoutMoves
  <2> HIDE DEF m
  <2> QED BY <1>1, <2>1, <2>2, EndsPass
<1>6. CASE KeepAliveA
  <2> DEFINE m == KeepAliveTimeout(a, TRUE)
  <2>1. StepA(m) /\ handed' = handed /\ UnchangedB /\ a.isOnline
    BY <1>6 DEF KeepAliveA
  <2>2. Settled(m) /\ (Rests(a, m) \/ Probes(a, m))
    BY <1>0, <2>1, KeepAliveMoves
  <2> HIDE DEF m
  <2> QED BY <1>1, <2>1, <2>2, EndsPass
<1> QED BY <1>2, <1>3, <1>4, <1>5, <1>6

\* What happens to the line, to b, and to what a has posted.
Elsewhere ==
    /\ a' = a /\ handed' = handed /\ confirmed' = confirmed /\ (clean' <=> clean)
    /\ b'.isOnline <=> b.isOnline
    /\ ab' = ab \/ (ab # <<>> /\ ab' = Tail(ab))
    /\ \/ delivered' = delivered
       \/ /\ ab # <<>> /\ IsData(Head(ab)) /\ ab' = Tail(ab)
          /\ Head(ab).data \in Latest + 1 .. handed
          /\ delivered' = Append(delivered, Head(ab).data)

\* Taking a frame, at b.
LEMMA ReceiveBElsewhere ==
    ASSUME PairInv, ReceiveB
    PROVE  Elsewhere
<1> DEFINE m == OnFrame(b, Head(ab))
           f == Head(ab)
<1>1. ab # <<>> /\ ab' = Tail(ab) /\ StepB(m) /\ UnchangedA /\ handed' = handed /\ b.isOnline
        /\ Listening(b)
  BY DEF PairInv, ReceiveB
<1>2. ab \in Seq(ForwardFrames) /\ delivered \in Seq(Nat)
  BY DEF PairInv, LineOf, Line
<1>3. f \in ForwardFrames
  BY <1>1, <1>2
<1>4. Receiver(m) /\ m.isOnline /\ Receives(b, m, f)
  BY <1>1, <1>3, ReceiverMoves
<1> HIDE DEF m, f
<1>5. m.up = <<>> \/ (m.up = <<f.data>> /\ IsData(f))
  BY <1>4 DEF Receives, Ignored, Accepted, Reacknowledged
<1>6. b'.isOnline /\ delivered' = delivered \o m.up
  <2>1. b' = Fresh(m) /\ delivered' = delivered \o m.up
    BY <1>1 DEF StepB
  <2> QED BY <1>4, <2>1, FreshReceiver
<1>7. CASE m.up = <<>>
  <2>1. delivered' = delivered
    BY <1>2, <1>6, <1>7, NothingUp
  <2> QED BY <1>1, <1>6, <2>1 DEF Elsewhere, UnchangedA
<1>8. CASE m.up = <<f.data>> /\ IsData(f)
  <2>1. f.data \in Nat
    BY <1>3 DEF ForwardFrames
  <2>2. delivered' = Append(delivered, f.data)
    BY <1>2, <1>6, <1>8, <2>1, NothingUp
  <2>3. f.data \in Latest + 1 .. handed
    <3>1. delivered' = delivered \/ Abstract!Deliver
      BY ReceiveBStep
    <3>2. Len(delivered') = Len(delivered) + 1 /\ Len(delivered) \in Nat
            /\ delivered'[Len(delivered) + 1] = f.data
      BY <1>2, <2>1, <2>2
    <3>3. delivered' # delivered
      BY <3>2
    <3>4. PICK s \in Latest + 1 .. handed : delivered' = Append(delivered, s)
      BY <3>1, <3>3 DEF Abstract!Deliver, Latest
    <3>5. Append(delivered, s)[Len(delivered) + 1] = s
      BY <1>2
    <3> QED BY <3>2, <3>4, <3>5
  <2> QED BY <1>1, <1>6, <1>8, <2>2, <2>3 DEF Elsewhere, UnchangedA, f
<1> QED BY <1>5, <1>7, <1>8

\* Every step of the pair.
LEMMA PairCases ==
    ASSUME PairInv, PairNext
    PROVE  Connect \/ Disconnect \/ SendPayload \/ AMoves \/ Elsewhere
<1>1. CASE OnSendResultA
  BY <1>1 DEF OnSendResultA, Elsewhere
<1>2. CASE LoseA \/ LoseB
  BY <1>2 DEF LoseA, LoseB, Elsewhere
<1>3. CASE TransmitResultB
  <2>1. Listening(b) /\ b.txMode # "Idle" /\ StepB(TransmitResult(b, TRUE)) /\ UnchangedA
          /\ ab' = ab /\ handed' = handed /\ delivered \in Seq(Nat)
    BY <1>3 DEF PairInv, TransmitResultB
  <2> DEFINE m == TransmitResult(b, TRUE)
  <2>2. Receiver(m) /\ m.up = <<>> /\ m.isOnline /\ b.isOnline
    BY <2>1, AnswerWritten DEF Listening, Receiver
  <2> HIDE DEF m
  <2>3. b' = Fresh(m) /\ delivered' = delivered \o <<>>
    BY <2>1, <2>2 DEF StepB, m
  <2>4. b'.isOnline /\ delivered' = delivered
    BY <2>1, <2>2, <2>3, FreshReceiver, NothingUp
  <2> QED BY <2>1, <2>2, <2>4 DEF Elsewhere, UnchangedA
<1> QED BY <1>1, <1>2, <1>3, ReceiveBElsewhere, AMovesOf DEF PairNext

\* The numbers do not come round while a fragment is being received: fewer
\* segments are missed after the last one read than there are numbers.
FewMissed ==
    (delivered' # delivered /\ rx.read # <<>>) => Last(delivered') - Last(rx.read) <= TpduModulus

\* The two transport layers: while no payload has failed, what was read and
\* what is on the line are of one session, whose numbers follow one another.
WholeInv ==
    /\ PairInv
    /\ TransmitInv
    /\ ReceiveInv
    /\ clean /\ a.isOnline =>
          \E h \in Nat, c \in Int : Session(h, c) /\ Reading(rx, h, c, Latest)

\* A receiver that has read nothing.
LEMMA NothingRead ==
    ASSUME NEW r, r.read = <<>>, NEW h, NEW c, NEW last
    PROVE  Reading(r, h, c, last)
BY DEF Reading

\* At first.
LEMMA WholeBegins ==
    ASSUME TransportInit
    PROVE  WholeInv
<1>1. PairInv
  BY PairBegins DEF TransportInit
<1>2. /\ a.segments = <<>> /\ ~a.isOnline /\ handed = 0 /\ confirmed = {} /\ tpdus = <<>>
      /\ txSequence = 0 /\ fragments = <<>> /\ rx = InitialRx
  BY DEF TransportInit, PairInit, InitialLink
<1>3. TransmitInv
  <2>1. 0 % PayloadSegments = 0 /\ 0 \in 0 .. TpduModulus - 1
    BY SmallMod, PairAssumption, TransportAssumption
  <2> QED BY <1>2, <2>1 DEF TransmitInv
<1>4. ReceiveInv
  <2>1. InitialRx.read = <<>> /\ InitialRx \in RxType
    BY DEF InitialRx, RxType
  <2> QED BY <1>2, <2>1 DEF ReceiveInv
<1> QED BY <1>1, <1>2, <1>3, <1>4 DEF WholeInv

\* What becomes of what was read when b's transport layer is given nothing.
LEMMA ReadingRests ==
    ASSUME PairInv, ReceiveInv, TransportReceive, delivered' = delivered, NEW h \in Nat,
           NEW c \in Int, Reading(rx, h, c, Latest)
    PROVE  Reading(rx', h, c, Latest')
<1>1. Latest' = Latest
  BY LatestTyped DEF PairInv
<1>2. rx' = rx \/ rx'.read = <<>>
  BY ReceiveRests
<1> QED BY <1>1, <1>2, NothingRead

\* The invariant of the receiver, then.
LEMMA ReceiveKept ==
    ASSUME PairInv, ReceiveInv, TransportReceive, delivered' = delivered
    PROVE  ReceiveInv' /\ fragments' = fragments
BY ReceiveRests DEF ReceiveInv

\* The channel opens.
LEMMA WholeConnect ==
    ASSUME WholeInv, PairInv', Connect, Transmit, TransportReceive
    PROVE  WholeInv' /\ fragments' = fragments
<1>1. delivered' = delivered /\ ~a.isOnline /\ ~b.isOnline
  BY DEF Connect, WholeInv, PairInv
<1>2. ReceiveInv' /\ fragments' = fragments
  BY <1>1, ReceiveKept DEF WholeInv
<1>3. rx'.read = <<>>
  BY <1>1, ReceiveRests DEF WholeInv
<1>4. TransmitInv' /\ \E h \in Nat, c \in Int : Session(h, c)'
  BY SessionOpens DEF WholeInv
<1>5. \A h \in Nat, c \in Int : Reading(rx', h, c, Latest')
  BY <1>3, NothingRead
<1>6. \E h \in Nat, c \in Int : Session(h, c)' /\ Reading(rx', h, c, Latest')
  BY <1>4, <1>5
<1> QED BY <1>2, <1>4, <1>6 DEF WholeInv

\* The channel closes.
LEMMA WholeDisconnect ==
    ASSUME WholeInv, PairInv', Disconnect, Transmit, TransportReceive
    PROVE  WholeInv' /\ fragments' = fragments
<1>1. delivered' = delivered /\ handed' = handed /\ confirmed' = confirmed
  BY DEF Disconnect
<1>2. ReceiveInv' /\ fragments' = fragments
  BY <1>1, ReceiveKept DEF WholeInv
<1>3. ~a'.isOnline /\ a'.segments = <<>>
  <2>1. Quiet(a) /\ a' = LowerLayerDown(a)
    BY DEF WholeInv, PairInv, Disconnect
  <2> QED BY <2>1, DownSender
<1>4. txSequence' = txSequence /\ tpdus' = tpdus
  <2>1. Advance = txSequence
    BY <1>1, <1>3 DEF Advance
  <2> QED BY <1>1, <2>1 DEF Transmit
<1>5. TransmitInv'
  BY <1>1, <1>3, <1>4 DEF WholeInv, TransmitInv
<1> QED BY <1>2, <1>3, <1>5 DEF WholeInv

\* The line without its last frame.
LEMMA FrontOf ==
    ASSUME NEW S, NEW q \in Seq(S), q # <<>>
    PROVE  Front(q) \in Seq(S)
<1>1. Front(q) = SubSeq(q, 1, Len(q) - 1)
  BY DEF Front
<1> QED BY <1>1

\* A payload is handed over.
LEMMA WholeSend ==
    ASSUME WholeInv, PairInv', SendPayload, Transmit, TransportReceive
    PROVE  WholeInv' /\ fragments' = fragments
<1>1. delivered' = delivered /\ a.isOnline
  BY DEF SendPayload, UnchangedB
<1>2. ReceiveInv' /\ fragments' = fragments
  BY <1>1, ReceiveKept DEF WholeInv
<1>3. /\ TransmitInv'
      /\ clean' => clean
      /\ \A h, c \in Int : Session(h, c) => Session(h, c)'
  BY HandOver DEF WholeInv
<1>4. ASSUME clean' PROVE \E h \in Nat, c \in Int : Session(h, c)' /\ Reading(rx', h, c, Latest')
  <2>1. PICK h \in Nat, c \in Int : Session(h, c) /\ Reading(rx, h, c, Latest)
    BY <1>1, <1>3, <1>4 DEF WholeInv
  <2>2. Session(h, c)'
    BY <1>3, <2>1
  <2>3. Reading(rx', h, c, Latest')
    BY <1>1, <2>1, ReadingRests DEF WholeInv
  <2> QED BY <2>2, <2>3
<1> QED BY <1>2, <1>3, <1>4 DEF WholeInv

\* Another entry point of a.
LEMMA WholeMoves ==
    ASSUME WholeInv, PairInv', AMoves, Transmit, TransportReceive
    PROVE  WholeInv' /\ fragments' = fragments
<1>1. PICK m, q :
        /\ a.isOnline /\ Settled(m) /\ (Passes(a, m) \/ Carries(a, m))
        /\ StationA(m) /\ handed' = handed /\ UnchangedB
        /\ q = ab \/ (ab # <<>> /\ q = Front(ab))
        /\ ab' = q \o m.sent
  BY DEF AMoves
<1>2. delivered' = delivered /\ PairInv /\ TransmitInv /\ ReceiveInv
  BY <1>1 DEF UnchangedB, WholeInv
<1>3. ReceiveInv' /\ fragments' = fragments
  BY <1>2, ReceiveKept
<1>4. m.segments \in Seq(Nat) /\ Goes(a, m)
  <2>1. a' = Fresh(m)
    BY <1>1 DEF StationA
  <2>2. a'.segments = m.segments
    BY <2>1 DEF Fresh
  <2>3. a'.segments \in Seq(Nat)
    BY DEF PairInv, Numbered
  <2> QED BY <1>1, <2>2, <2>3, MovesGo
<1>5. /\ txSequence' \in 0 .. TpduModulus - 1 /\ tpdus' = tpdus
      /\ confirmed' \subseteq 1 .. handed /\ (a'.segments # <<>> => handed \notin confirmed')
      /\ clean' => clean
  BY <1>1, <1>2, <1>4, TransmitStep
<1>6. TransmitInv'
  BY <1>1, <1>2, <1>5 DEF TransmitInv
<1>7. ASSUME clean' PROVE \E h \in Nat, c \in Int : Session(h, c)' /\ Reading(rx', h, c, Latest')
  <2>1. PICK h \in Nat, c \in Int : Session(h, c) /\ Reading(rx, h, c, Latest)
    BY <1>1, <1>5, <1>7 DEF WholeInv
  <2>2. ab \in Seq(ForwardFrames) /\ NewerThan(ab, h)
    BY <1>2, <2>1 DEF PairInv, LineOf, Line, Session
  <2>3. q \in Seq(ForwardFrames) /\ NewerThan(q, h)
    <3>1. ab # <<>> => Front(ab) \in Seq(ForwardFrames)
      BY <2>2, FrontOf
    <3>2. ab # <<>> => NewerThan(Front(ab), h)
      BY <2>2, NewerLine
    <3> QED BY <1>1, <2>2, <3>1, <3>2
  <2>4. Session(h, c)'
    BY <1>1, <1>2, <1>7, <2>1, <2>3, SessionGoesOn
  <2>5. Reading(rx', h, c, Latest')
    BY <1>2, <2>1, ReadingRests
  <2> QED BY <2>4, <2>5
<1> QED BY <1>3, <1>6, <1>7 DEF WholeInv

\* What is still to be taken from the line.
LEMMA SessionElsewhere ==
    ASSUME PairInv, TransmitInv, Elsewhere, Transmit
    PROVE  /\ TransmitInv' /\ tpdus' = tpdus
           /\ \A h \in Nat, c \in Int : Session(h, c) => Session(h, c)'
<1>1. a'.segments = a.segments /\ a.segments \in Seq(Nat) /\ handed' = handed
        /\ confirmed' = confirmed /\ ab \in Seq(ForwardFrames)
        /\ (ab' = ab \/ (ab # <<>> /\ ab' = Tail(ab)))
  BY DEF Elsewhere, PairInv, Numbered, LineOf, Line
<1>2. TransmitInv' /\ tpdus' = tpdus /\ txSequence' = txSequence /\ Current' = Current
  BY <1>1, TransmitRests
<1>3. ASSUME NEW h \in Nat, NEW c \in Int, Session(h, c) PROVE Session(h, c)'
  <2>1. NewerThan(ab, h)
    BY <1>3 DEF Session
  <2>2. ab # <<>> => NewerThan(Tail(ab), h)
    BY <1>1, <2>1, NewerLine
  <2>3. NewerThan(ab', h)
    BY <1>1, <2>1, <2>2
  <2> QED BY <1>1, <1>2, <1>3, <2>3, SessionRests
<1> QED BY <1>2, <1>3

\* The last segment delivered.
LEMMA LastDelivered ==
    ASSUME NEW d \in Nat, delivered \in Seq(Nat), delivered' = Append(delivered, d)
    PROVE  delivered' # delivered /\ Last(delivered') = d
<1>1. Len(Append(delivered, d)) = Len(delivered) + 1 /\ Len(delivered) \in Nat
        /\ Append(delivered, d)[Len(delivered) + 1] = d
  OBVIOUS
<1>2. Len(Append(delivered, d)) # Len(delivered)
  BY <1>1
<1>3. Append(delivered, d) # delivered
  BY <1>2, Zenon
<1> QED BY <1>1, <1>3 DEF Last

\* A segment is delivered while no payload has failed.
LEMMA TakesWhole ==
    ASSUME PairInv, TransmitInv, ReceiveInv, Elsewhere, TransportReceive, FewMissed,
           NEW h \in Nat, NEW c \in Int, Session(h, c), Reading(rx, h, c, Latest),
           NEW d, d = Head(ab).data, ab # <<>>, IsData(Head(ab)), d \in Latest + 1 .. handed,
           delivered' = Append(delivered, d)
    PROVE  /\ Reading(rx', h, c, Latest')
           /\ \A i \in DOMAIN fragments' \ DOMAIN fragments : IsPayload(fragments'[i])
<1>1. delivered \in Seq(Nat) /\ handed \in Nat /\ Latest \in Nat
  BY LatestTyped DEF PairInv
<1>2. d \in Nat /\ d \in 1 .. handed /\ d > Latest /\ Latest' = d
  BY <1>1, LatestTyped
<1>3. d > h
  <2>1. 1 \in DOMAIN ab /\ Head(ab) = ab[1]
    BY DEF PairInv, LineOf, Line
  <2> QED BY <2>1 DEF Session, NewerThan
<1>4. IsSegment(tpdus[d], c, d)
  <2>1. d \in h + 1 .. handed
    BY <1>2, <1>3, <1>1
  <2> QED BY <2>1 DEF Session
<1>5. rx.read # <<>> => d - rx.read[Len(rx.read)] <= TpduModulus
  <2>1. delivered' # delivered /\ Last(delivered') = d
    BY <1>1, <1>2, LastDelivered
  <2>2. Last(rx.read) = rx.read[Len(rx.read)]
    BY DEF Last
  <2> QED BY <2>1, <2>2 DEF FewMissed
<1> DEFINE t == tpdus[d]
           p == ProcessReceive(rx, t)
<1>6. /\ p.rx \in RxType /\ Reading(p.rx, h, c, d) /\ p.fragment \in Seq(Nat)
      /\ p.fragment # <<>> => IsPayload(p.fragment)
  <2>1. rx \in RxType /\ h \in Int /\ Latest \in Int
    BY <1>1 DEF ReceiveInv
  <2> QED BY <1>2, <1>3, <1>4, <1>5, <2>1, TakesSegment
<1>7. /\ rx' = p.rx
      /\ fragments' = IF p.fragment # <<>> THEN Append(fragments, p.fragment) ELSE fragments
  BY <1>1, <1>2, ReceiveTakes
<1> HIDE DEF p
<1>8. fragments \in Seq(Seq(Nat))
  BY DEF ReceiveInv
<1>9. \A i \in DOMAIN fragments' \ DOMAIN fragments :
          p.fragment # <<>> /\ fragments'[i] = p.fragment
  <2>1. CASE p.fragment # <<>>
    <3>1. fragments' = Append(fragments, p.fragment)
      BY <1>7, <2>1
    <3>2. \A i \in DOMAIN Append(fragments, p.fragment) \ DOMAIN fragments :
             Append(fragments, p.fragment)[i] = p.fragment
      BY <1>6, <1>8
    <3> QED BY <2>1, <3>1, <3>2
  <2>2. CASE p.fragment = <<>>
    BY <1>7, <2>2
  <2> QED BY <2>1, <2>2
<1> QED BY <1>2, <1>6, <1>7, <1>9

\* What happens to the line and to b.
LEMMA WholeElsewhere ==
    ASSUME WholeInv, PairInv', Elsewhere, Transmit, TransportReceive, clean => FewMissed
    PROVE  /\ WholeInv'
           /\ clean => \A i \in DOMAIN fragments' \ DOMAIN fragments : IsPayload(fragments'[i])
<1>1. PairInv /\ TransmitInv /\ ReceiveInv /\ (clean' <=> clean)
        /\ (a'.isOnline <=> a.isOnline) /\ (b'.isOnline <=> b.isOnline)
  BY DEF WholeInv, Elsewhere
<1>2. TransmitInv' /\ \A h \in Nat, c \in Int : Session(h, c) => Session(h, c)'
  BY <1>1, SessionElsewhere
<1>3. CASE delivered' = delivered
  <2>1. ReceiveInv' /\ fragments' = fragments
    BY <1>1, <1>3, ReceiveKept
  <2>2. ASSUME clean', a'.isOnline
        PROVE  \E h \in Nat, c \in Int : Session(h, c)' /\ Reading(rx', h, c, Latest')
    <3>1. PICK h \in Nat, c \in Int : Session(h, c) /\ Reading(rx, h, c, Latest)
      BY <1>1, <2>2 DEF WholeInv
    <3>2. Session(h, c)'
      BY <1>2, <3>1
    <3>3. Reading(rx', h, c, Latest')
      BY <1>1, <1>3, <3>1, ReadingRests
    <3> QED BY <3>2, <3>3
  <2> QED BY <1>2, <2>1, <2>2 DEF WholeInv
<1>4. ASSUME ab # <<>>, IsData(Head(ab)), Head(ab).data \in Latest + 1 .. handed,
             delivered' = Append(delivered, Head(ab).data)
      PROVE  /\ WholeInv'
             /\ clean => \A i \in DOMAIN fragments' \ DOMAIN fragments : IsPayload(fragments'[i])
  <2>1. a.isOnline /\ b.isOnline
    BY <1>1, <1>4 DEF PairInv
  <2>d. PICK d : d = Head(ab).data
    OBVIOUS
  <2>2. delivered \in Seq(Nat) /\ handed \in Nat /\ Latest \in Nat
    BY <1>1, LatestTyped DEF PairInv
  <2>3. d \in 1 .. handed
    BY <1>4, <2>2, <2>d
  <2> DEFINE p == ProcessReceive(rx, tpdus[d])
  <2>4. rx' = p.rx /\ p.rx \in RxType /\ fragments' \in Seq(Seq(Nat))
    BY <1>1, <1>4, <2>2, <2>3, <2>d, ReceiveTakes
  <2> HIDE DEF p
  <2>5. ReceiveInv'
    BY <1>1, <2>1, <2>4 DEF ReceiveInv
  <2>6. ASSUME clean
        PROVE  /\ \E h \in Nat, c \in Int : Session(h, c)' /\ Reading(rx', h, c, Latest')
               /\ \A i \in DOMAIN fragments' \ DOMAIN fragments : IsPayload(fragments'[i])
    <3>1. PICK h \in Nat, c \in Int : Session(h, c) /\ Reading(rx, h, c, Latest)
      BY <2>1, <2>6 DEF WholeInv
    <3>2. Session(h, c)'
      BY <1>2, <3>1
    <3>3. /\ Reading(rx', h, c, Latest')
          /\ \A i \in DOMAIN fragments' \ DOMAIN fragments : IsPayload(fragments'[i])
      BY <1>1, <1>4, <2>d, <2>6, <3>1, TakesWhole
    <3> QED BY <3>2, <3>3
  <2> QED BY <1>1, <1>2, <2>5, <2>6 DEF WholeInv
<1> QED BY <1>3, <1>4 DEF Elsewhere

\* Every step keeps the invariant, and what b's application layer is handed
\* while nothing failed is a whole payload.
LEMMA WholeStep ==
    ASSUME WholeInv, TransportNext, clean => FewMissed
    PROVE  /\ WholeInv'
           /\ clean => \A i \in DOMAIN fragments' \ DOMAIN fragments : IsPayload(fragments'[i])
<1>1. PairInv /\ PairNext /\ Transmit /\ TransportReceive
  BY DEF WholeInv, TransportNext
<1>2. PairInv'
  BY <1>1, PairStep
<1>3. CASE Connect
  BY <1>1, <1>2, <1>3, WholeConnect
<1>4. CASE Disconnect
  BY <1>1, <1>2, <1>4, WholeDisconnect
<1>5. CASE SendPayload
  BY <1>1, <1>2, <1>5, WholeSend
<1>6. CASE AMoves
  BY <1>1, <1>2, <1>6, WholeMoves
<1>7. CASE Elsewhere
  BY <1>1, <1>2, <1>7, WholeElsewhere
<1> QED BY <1>1, <1>3, <1>4, <1>5, <1>6, <1>7, PairCases

\* A stutter changes nothing of it.
LEMMA WholeStutters ==
    ASSUME WholeInv, UNCHANGED <<pairVars, transportVars>>
    PROVE  WholeInv' /\ fragments' = fragments
<1>1. PairInv'
  BY PairStutters DEF WholeInv
<1>2. fragments' = fragments /\ rx' = rx /\ delivered' = delivered
        /\ a' = a /\ b' = b /\ ab' = ab /\ handed' = handed /\ confirmed' = confirmed
        /\ clean' = clean /\ tpdus' = tpdus /\ txSequence' = txSequence
  BY DEF pairVars, transportVars
<1>3. TransmitInv' /\ ReceiveInv'
  BY <1>2 DEF WholeInv, TransmitInv, ReceiveInv
<1>4. Latest' = Latest /\ Current' = Current
  BY <1>2, LatestTyped DEF Current, WholeInv, PairInv
<1>5. \A h \in Nat, c \in Int : Session(h, c) => Session(h, c)'
  BY <1>2, <1>4 DEF Session
<1>6. ASSUME clean', a'.isOnline
      PROVE  \E h \in Nat, c \in Int : Session(h, c)' /\ Reading(rx', h, c, Latest')
  <2>1. PICK h \in Nat, c \in Int : Session(h, c) /\ Reading(rx, h, c, Latest)
    BY <1>2, <1>6 DEF WholeInv
  <2> QED BY <1>2, <1>4, <1>5, <2>1
<1> QED BY <1>1, <1>2, <1>3, <1>6 DEF WholeInv

\* While no payload has failed in the session, what TransportRx hands to b's
\* application layer is one whole payload of a, whatever number of segments,
\* retries and sessions there is, as long as the sequence numbers do not come
\* round within the segments that late acknowledgements make a skip.
THEOREM FragmentsAreWhole ==
    TransportSpec /\ [][FewMissed]_<<pairVars, transportVars>> => FragmentsIntactWhileClean
<1> DEFINE v == <<pairVars, transportVars>>
           Whole == clean => \A i \in DOMAIN fragments' \ DOMAIN fragments :
                                 IsPayload(fragments'[i])
<1>1. TransportInit => WholeInv
  BY WholeBegins
<1>2. WholeInv /\ [TransportNext]_v /\ [FewMissed]_v => WholeInv' /\ [Whole]_v
  BY WholeStep, WholeStutters
<1> QED BY <1>1, <1>2, PTL DEF TransportSpec, FragmentsIntactWhileClean

\* A run of no more segments than there are numbers misses few of them.
LEMMA ShortMissesFew ==
    ASSUME WholeInv, PairNext, handed <= MaxSegment, MaxSegment <= TpduModulus
    PROVE  FewMissed
<1>1. /\ delivered \in Seq(Nat) /\ handed \in Nat /\ rx.read \in Seq(Nat)
      /\ MaxSegment \in Nat /\ TpduModulus \in Nat
  BY PairAssumption, TransportAssumption DEF WholeInv, PairInv, ReceiveInv, RxType
<1>2. SUFFICES ASSUME delivered' # delivered, rx.read # <<>>
               PROVE  Last(delivered') - Last(rx.read) <= TpduModulus
  BY DEF FewMissed
<1>3. Abstract!Next
  BY <1>2, PairStep DEF WholeInv
<1>4. Abstract!Deliver
  BY <1>2, <1>3 DEF Abstract!Next, Abstract!Hand
<1>5. PICK d \in Latest + 1 .. handed : delivered' = Append(delivered, d)
  BY <1>4 DEF Abstract!Deliver, Latest
<1>6. d \in Nat /\ d <= handed
  BY <1>1, <1>5, LatestTyped
<1>7. Last(delivered') = d
  BY <1>1, <1>5, <1>6, LastDelivered
<1>8. Last(rx.read) \in Nat
  BY <1>1, <1>2 DEF Last
<1> QED BY <1>1, <1>6, <1>7, <1>8

\* The bound of the model on what is handed over.
LEMMA HandedBounded ==
    ASSUME PairInv, PairNext, handed <= MaxSegment
    PROVE  handed' <= MaxSegment
<1>1. CASE SendPayload
  BY <1>1 DEF SendPayload
<1>2. CASE Connect \/ Disconnect \/ AMoves \/ Elsewhere
  <2>1. handed' = handed
    BY <1>2 DEF Connect, Disconnect, AMoves, Elsewhere
  <2> QED BY <2>1
<1> QED BY <1>1, <1>2, PairCases

\* In a run of no more segments than there are numbers, b's application layer
\* gets whole payloads with no condition, however many segments are missed.
THEOREM ShortRunsAreWhole ==
    ASSUME MaxSegment <= TpduModulus
    PROVE  TransportSpec => FragmentsIntactWhileClean
<1> DEFINE v == <<pairVars, transportVars>>
           Inv == WholeInv /\ handed <= MaxSegment
           Whole == clean => \A i \in DOMAIN fragments' \ DOMAIN fragments :
                                 IsPayload(fragments'[i])
<1>1. TransportInit => Inv
  BY WholeBegins, PairAssumption DEF TransportInit, PairInit
<1>2. Inv /\ [TransportNext]_v => Inv' /\ [Whole]_v
  <2>1. ASSUME Inv, TransportNext PROVE Inv' /\ Whole
    <3>1. FewMissed
      BY <2>1, ShortMissesFew DEF TransportNext
    <3>2. handed' <= MaxSegment
      BY <2>1, HandedBounded DEF TransportNext, WholeInv
    <3> QED BY <2>1, <3>1, <3>2, WholeStep
  <2>2. ASSUME Inv, UNCHANGED v PROVE Inv'
    BY <2>2, WholeStutters DEF pairVars
  <2> QED BY <2>1, <2>2
<1> QED BY <1>1, <1>2, PTL DEF TransportSpec, FragmentsIntactWhileClean
----------------------------------------------------------------------------
(* A payload that is reported as sent was received, while nothing failed   *)
(* and every time-out came after all answers: then stations and line take  *)
(* turns, and an acknowledgement is for the segment that a is at.          *)

\* The frame a has sent, and the answer to it.
Question(l) == IF l.pri \in Carrying THEN DataFrame(l)
               ELSE IF l.pri \in Resetting THEN ResetLinks ELSE RequestLinkStatus

Answer(l) == IF l.pri \in Probing THEN LinkStatus ELSE Ack

\* The lines q and r there and back hold one of the two, or nothing.
TakeTurns(l, q, r) ==
    \/ q = <<>> /\ r = <<>>
    \/ l.pri # "Idle" /\ q = <<Question(l)>> /\ r = <<>>
    \/ l.pri # "Idle" /\ q = <<>> /\ r = <<Answer(l)>>

\* Whose turn it is depends on what a has sent only.
LEMMA SameTurns ==
    ASSUME NEW l, NEW m, NEW q, NEW r, TakeTurns(l, q, r),
           Phase(m) = Phase(l), Sender(l), Sender(m),
           m.segments = l.segments, m.nextWriteFCB = l.nextWriteFCB
    PROVE  TakeTurns(m, q, r)
<1>1. /\ l.pri \in Carrying <=> m.pri \in Carrying
      /\ l.pri \in Resetting <=> m.pri \in Resetting
      /\ l.pri \in Probing <=> m.pri \in Probing
      /\ l.pri = "Idle" <=> m.pri = "Idle"
  BY Phases
<1>2. DataFrame(m) = DataFrame(l)
  BY DEF DataFrame
<1>3. Question(m) = Question(l) /\ Answer(m) = Answer(l)
  BY <1>1, <1>2, Zenon DEF Question, Answer
<1> QED BY <1>1, <1>3, Zenon DEF TakeTurns

\* What a move puts on the line is the frame of its new state.
LEMMA MovesAsk ==
    ASSUME NEW l, NEW m, Passes(l, m) \/ Carries(l, m)
    PROVE  m.sent = <<>> \/ (m.pri # "Idle" /\ m.sent = <<Question(m)>>)
<1>1. CASE Rests(l, m) \/ Idles(l, m)
  BY <1>1 DEF Rests, Idles
<1>2. CASE m.pri = "RequestLinkStatusTransmitWait" /\ m.sent = <<RequestLinkStatus>>
  <2>1. Question(m) = RequestLinkStatus
    BY <1>2 DEF Question
  <2> QED BY <1>2, <2>1
<1>3. CASE ResetsLink(l, m)
  <2>1. m.pri = "LinkResetTransmitWait" /\ m.sent = <<ResetLinks>>
    BY <1>3 DEF ResetsLink
  <2>2. Question(m) = ResetLinks
    BY <2>1 DEF Question
  <2> QED BY <2>1, <2>2
<1>4. CASE SendsData(l, m)
  <2>1. m.pri = "ConfUserDataTransmitWait" /\ m.sent = <<DataFrame(m)>>
    BY <1>4 DEF SendsData
  <2>2. Question(m) = DataFrame(m)
    BY <2>1 DEF Question
  <2> QED BY <2>1, <2>2
<1>5. Carries(l, m) => SendsData(l, m)
  BY DEF Carries, Begins, Repeats, Advances
<1>6. Probes(l, m) \/ Ends(l, m, TRUE) \/ Ends(l, m, FALSE)
        => m.sent = <<>> \/ (m.pri = "RequestLinkStatusTransmitWait" /\ m.sent = <<RequestLinkStatus>>)
  BY DEF Probes, Ends
<1> QED BY <1>1, <1>2, <1>3, <1>4, <1>5, <1>6 DEF Passes

\* a moves when the line is its own, or leaves it as it is.
LEMMA MovesTakeTurns ==
    ASSUME NEW l, Sender(l), NEW m, Sender(m), Passes(l, m) \/ Carries(l, m), NEW q, NEW r,
           (q = <<>> /\ r = <<>>) \/ (Rests(l, m) /\ TakeTurns(l, q, r))
    PROVE  TakeTurns(m, q \o m.sent, r)
<1>1. CASE q = <<>> /\ r = <<>>
  <2>1. CASE m.sent = <<>>
    <3>1. q \o m.sent = <<>>
      BY <1>1, <2>1
    <3> QED BY <1>1, <3>1 DEF TakeTurns
  <2>2. ASSUME m.pri # "Idle", m.sent = <<Question(m)>> PROVE TakeTurns(m, q \o m.sent, r)
    <3> DEFINE f == Question(m)
    <3>1. m.sent = <<f>>
      BY <2>2
    <3> HIDE DEF f
    <3>2. q \o m.sent = <<f>>
      BY <1>1, <3>1
    <3> QED BY <1>1, <2>2, <3>2 DEF TakeTurns, f
  <2> QED BY <2>1, <2>2, MovesAsk
<1>2. CASE Rests(l, m) /\ TakeTurns(l, q, r)
  <2>1. /\ m.sent = <<>> /\ Phase(m) = Phase(l)
        /\ m.segments = l.segments /\ m.nextWriteFCB = l.nextWriteFCB
    BY <1>2 DEF Rests, Keeps
  <2>2. q \o <<>> = q
    <3> DEFINE f == Question(l)
    <3>1. q = <<>> \/ q = <<f>>
      BY <1>2 DEF TakeTurns
    <3> HIDE DEF f
    <3> QED BY <3>1
  <2> QED BY <1>2, <2>1, <2>2, SameTurns
<1> QED BY <1>1, <1>2
\* Stations and line take turns.
Turns == TakeTurns(a, ab, ba)

\* An acknowledgement is of a reset, or of the segment that a is at.
Truthful ==
    ba # <<>> =>
        /\ a.pri \in Resetting => b.nextReadFCB
        /\ clean /\ a.pri \in Carrying => Latest = Current

\* The frame count bits agree, but for a segment that b has and a may repeat.
InStep ==
    a.isRemoteReset /\ ~(a.pri \in Carrying /\ Latest = Current) =>
        (a.nextWriteFCB <=> b.nextReadFCB)

\* The segments handed over before the payload under way.
Base == handed - PayloadSegments

\* b has read what was acknowledged to a, and at most one segment more; after
\* the last segment of the payload it has handed the payload up.
AllRead ==
    /\ a.segments = <<>> => rx.read = <<>>
    /\ a.segments # <<>> =>
        /\ Latest <= Base => Current = Base + 1 /\ rx.read = <<>>
        /\ Latest > Base => Current <= Latest + 1
        /\ Latest > Base /\ Latest < handed => rx.read # <<>> /\ rx.read[Len(rx.read)] = Latest
        /\ Latest = handed => /\ rx.read = <<>>
                              /\ \E i \in DOMAIN fragments : Payload \subseteq Range(fragments[i])

PromptInv == Turns /\ Truthful /\ (clean => InStep /\ AllRead)

\* What a has still to send is ahead of what b has, and the bits tell.
LEMMA BitsTell ==
    ASSUME PairInv
    PROVE  /\ a.nextWriteFCB \in BOOLEAN /\ b.nextReadFCB \in BOOLEAN
           /\ a.pri \notin Carrying => Latest < Current
           /\ a.pri \in Carrying => Latest <= Current
           /\ a.pri \in Carrying /\ Latest = Current => ~(a.nextWriteFCB <=> b.nextReadFCB)
           /\ a.pri \in Carrying => a.segments # <<>>
           /\ a.pri \in Resetting => a.segments # <<>> /\ ~a.isRemoteReset
           /\ a.pri \in Carrying => a.isRemoteReset
           /\ Latest \in Nat /\ Current \in Nat /\ handed \in Nat
           /\ a.segments # <<>> => Current <= handed /\ Current = Head(a.segments)
           /\ a.segments = <<>> => Current = handed + 1
<1>1. a.nextWriteFCB \in BOOLEAN /\ b.nextReadFCB \in BOOLEAN /\ Sender(a)
  BY DEF PairInv, Quiet, Sender, SenderBody, Listening, Receiver
<1>2. Ahead(ab, Carrier(a), a.nextWriteFCB, Linked(a), Latest, b.nextReadFCB, Current)
  BY DEF PairInv, LineOf, Line, Current
<1>3. (Carrier(a) <=> a.pri \in Carrying) /\ Carrier(a) \in BOOLEAN
  BY CarrierTyped
<1>4. IF Carrier(a) THEN Latest <= Current ELSE Latest < Current
  BY <1>2 DEF Ahead
<1>5. Carrier(a) /\ Latest = Current => a.nextWriteFCB # b.nextReadFCB
  BY <1>2 DEF Ahead
<1>6. Carrier(a) /\ Latest = Current => ~(a.nextWriteFCB <=> b.nextReadFCB)
  BY <1>1, <1>5, Zenon
<1>7. Latest \in Nat /\ handed \in Nat /\ Numbered(a.segments, handed)
  BY LatestTyped DEF PairInv
<1>8. Current \in Nat /\ (a.segments # <<>> => Current <= handed /\ Current = Head(a.segments))
        /\ (a.segments = <<>> => Current = handed + 1)
  BY <1>7, NumberedHead DEF Current
<1>9. /\ a.pri \in Carrying => a.segments # <<>> /\ a.isRemoteReset
      /\ a.pri \in Resetting => a.segments # <<>> /\ ~a.isRemoteReset
  BY <1>1 DEF Sender
<1> QED BY <1>1, <1>3, <1>4, <1>6, <1>7, <1>8, <1>9

\* What a move does to the segments and to the bit.
LEMMA MovesCount ==
    ASSUME NEW l, Sender(l), NEW m, Sender(m), Passes(l, m) \/ Carries(l, m),
           l.nextWriteFCB \in BOOLEAN
    PROVE  \/ /\ m.results = <<>> /\ m.segments = l.segments
              /\ m.nextWriteFCB <=> l.nextWriteFCB
              /\ m.isRemoteReset <=> l.isRemoteReset
              /\ m.pri \in Carrying <=> l.pri \in Carrying
           \/ /\ Begins(l, m) /\ m.segments = l.segments /\ m.results = <<>>
              /\ m.pri \in Carrying /\ l.pri \notin Carrying /\ m.isRemoteReset
              /\ \/ l.pri = "ResetLinkWait" /\ m.nextWriteFCB
                 \/ l.isRemoteReset /\ (m.nextWriteFCB <=> l.nextWriteFCB)
           \/ /\ Advances(l, m) /\ Len(l.segments) > 1 /\ m.segments = Tail(l.segments)
              /\ m.results = <<>>
              /\ m.nextWriteFCB <=> ~l.nextWriteFCB
              /\ m.pri \in Carrying /\ l.pri \in Carrying
           \/ /\ Ends(l, m, TRUE) /\ Len(l.segments) = 1 /\ m.segments = <<>>
              /\ m.results = <<TRUE>>
              /\ m.nextWriteFCB <=> ~l.nextWriteFCB
              /\ m.pri \notin Carrying /\ l.pri \in Carrying
           \/ m.results = <<FALSE>> /\ Ends(l, m, FALSE)
<1>p. /\ l.pri \in Carrying <=> Phase(l) = "carrying"
      /\ m.pri \in Carrying <=> Phase(m) = "carrying"
      /\ m.pri \in Carrying => m.isRemoteReset
      /\ l.pri \in Carrying => l.isRemoteReset
  <2>1. (m.pri \in Carrying => m.isRemoteReset) /\ (l.pri \in Carrying => l.isRemoteReset)
    BY DEF Sender
  <2> QED BY <2>1, Phases
<1>1. ASSUME Keeps(l, m), m.pri \in Carrying <=> l.pri \in Carrying
      PROVE  /\ m.results = <<>> /\ m.segments = l.segments
             /\ m.nextWriteFCB <=> l.nextWriteFCB
             /\ m.isRemoteReset <=> l.isRemoteReset
             /\ m.pri \in Carrying <=> l.pri \in Carrying
  BY <1>1 DEF Keeps
<1>2. CASE Rests(l, m)
  BY <1>1, <1>2, <1>p DEF Rests
<1>3. CASE Probes(l, m)
  <2>1. l.pri \notin Carrying /\ m.pri \notin Carrying /\ Keeps(l, m)
    BY <1>3, <1>p DEF Probes
  <2> QED BY <1>1, <2>1
<1>4. CASE Idles(l, m)
  <2>1. l.pri \notin Carrying /\ m.pri \notin Carrying /\ Keeps(l, m)
    BY <1>4, <1>p DEF Idles
  <2> QED BY <1>1, <2>1
<1>5. CASE ResetsLink(l, m)
  <2>1. l.pri \notin Carrying /\ m.pri \notin Carrying /\ Keeps(l, m)
    BY <1>5, <1>p DEF ResetsLink
  <2> QED BY <1>1, <2>1
<1>6. CASE Ends(l, m, TRUE)
  <2>1. /\ Len(l.segments) = 1 /\ m.segments = <<>> /\ m.results = <<TRUE>>
        /\ l.pri \in Carrying
        /\ m.pri \in {"Idle", "RequestLinkStatusTransmitWait"}
    BY <1>6 DEF Ends
  <2>2. m.nextWriteFCB <=> ~l.nextWriteFCB
    BY <1>6 DEF Ends
  <2> QED BY <1>6, <2>1, <2>2
<1>7. CASE Ends(l, m, FALSE)
  BY <1>7 DEF Ends
<1>8. CASE Begins(l, m)
  <2>1. /\ m.pri \in Carrying /\ m.segments = l.segments /\ m.results = <<>>
        /\ l.pri \notin Carrying
    BY <1>8, <1>p DEF Begins, SendsData
  <2>2. \/ l.pri = "ResetLinkWait" /\ m.nextWriteFCB
        \/ l.isRemoteReset /\ (m.nextWriteFCB <=> l.nextWriteFCB)
    BY <1>8 DEF Begins
  <2> QED BY <1>8, <1>p, <2>1, <2>2
<1>9. CASE Repeats(l, m)
  <2>1. /\ m.pri \in Carrying /\ m.segments = l.segments /\ m.results = <<>>
        /\ l.pri \in Carrying
    BY <1>9 DEF Repeats, SendsData
  <2>2. m.nextWriteFCB <=> l.nextWriteFCB
    BY <1>9 DEF Repeats
  <2> QED BY <1>p, <2>1, <2>2
<1>10. CASE Advances(l, m)
  <2>1. /\ m.pri \in Carrying /\ m.results = <<>> /\ l.pri \in Carrying
        /\ Len(l.segments) > 1 /\ m.segments = Tail(l.segments)
    BY <1>10 DEF Advances, SendsData
  <2>2. m.nextWriteFCB <=> ~l.nextWriteFCB
    BY <1>10 DEF Advances
  <2> QED BY <1>10, <2>1, <2>2
<1> QED BY <1>2, <1>3, <1>4, <1>5, <1>6, <1>7, <1>8, <1>9, <1>10 DEF Passes, Carries
\* An entry point of a that comes on its turn, or leaves the lines alone.
InTurn(m, q) ==
    /\ a.isOnline /\ Settled(m) /\ (Passes(a, m) \/ Carries(a, m))
    /\ StationA(m) /\ handed' = handed /\ UnchangedB
    /\ ab' = q \o m.sent
    /\ (q = <<>> /\ ba' = <<>>) \/ (Rests(a, m) /\ q = ab /\ ba' = ba)
    /\ a.pri = "ResetLinkWait" /\ Begins(a, m) => b.nextReadFCB
    /\ clean /\ (Advances(a, m) \/ Ends(a, m, TRUE)) => Latest = Current

\* What a reports as sent has been handed up by b.
Heard == \A s \in confirmed' \ confirmed : \E i \in DOMAIN fragments' : s \in Range(fragments'[i])

\* What such an entry point leaves.
LEMMA TurnFields ==
    ASSUME WholeInv, TransportReceive, NEW m, NEW q, InTurn(m, q)
    PROVE  /\ a'.pri = m.pri /\ a'.segments = m.segments /\ a'.nextWriteFCB = m.nextWriteFCB
           /\ (a'.isRemoteReset <=> m.isRemoteReset) /\ Sender(a') /\ Sender(a) /\ Sender(m)
           /\ Phase(a') = Phase(m)
           /\ b' = b /\ Latest' = Latest /\ handed' = handed /\ Base' = Base /\ Payload' = Payload
           /\ rx' = rx /\ fragments' = fragments
<1>1. /\ Settled(m) /\ a' = Fresh(m) /\ b' = b /\ delivered' = delivered /\ handed' = handed
      /\ a.isOnline
  BY DEF InTurn, StationA, UnchangedB
<1>2. /\ Quiet(a') /\ a'.pri = m.pri /\ a'.segments = m.segments
      /\ a'.nextWriteFCB = m.nextWriteFCB /\ (a'.isRemoteReset <=> m.isRemoteReset)
  BY <1>1, SettledFresh
<1>3. Sender(a') /\ Sender(a) /\ Sender(m)
  BY <1>1, <1>2 DEF Quiet, WholeInv, PairInv, Settled
<1>4. Phase(a') = Phase(m)
  BY <1>2, Zenon DEF Phase
<1>5. PairInv /\ ReceiveInv /\ b.isOnline
  BY <1>1 DEF WholeInv, PairInv
<1>6. rx' = rx /\ fragments' = fragments
  BY <1>1, <1>5, ReceiveRests
<1>7. Latest' = Latest
  BY <1>1, <1>5, LatestTyped DEF PairInv
<1>8. Base' = Base /\ Payload' = Payload
  BY <1>1 DEF Base, Payload
<1> QED BY <1>1, <1>2, <1>3, <1>4, <1>6, <1>7, <1>8

\* The turns after it.
LEMMA MovesTurns ==
    ASSUME WholeInv, PromptInv, TransportReceive, NEW m, NEW q, InTurn(m, q)
    PROVE  Turns'
<1>1. /\ a'.pri = m.pri /\ a'.segments = m.segments /\ a'.nextWriteFCB = m.nextWriteFCB
      /\ Sender(a') /\ Sender(a) /\ Sender(m) /\ Phase(a') = Phase(m)
  BY TurnFields
<1>2. /\ Passes(a, m) \/ Carries(a, m)
      /\ ab' = q \o m.sent
      /\ (q = <<>> /\ ba' = <<>>) \/ (Rests(a, m) /\ q = ab /\ ba' = ba)
  BY DEF InTurn
<1>3. TakeTurns(a, ab, ba)
  BY DEF PromptInv, Turns
<1>4. TakeTurns(m, q \o m.sent, ba')
  BY <1>1, <1>2, <1>3, MovesTakeTurns
<1>5. TakeTurns(a', q \o m.sent, ba')
  BY <1>1, <1>4, SameTurns
<1> QED BY <1>2, <1>5 DEF Turns

\* An acknowledgement that is on its way stays what it is.
LEMMA MovesTruthful ==
    ASSUME WholeInv, PromptInv, TransportReceive, NEW m, NEW q, InTurn(m, q)
    PROVE  Truthful'
<1>1. SUFFICES ASSUME ba' # <<>>
               PROVE  /\ a'.pri \in Resetting => b'.nextReadFCB
                      /\ clean' /\ a'.pri \in Carrying => Latest' = Current'
  BY DEF Truthful
<1>2. Rests(a, m) /\ ba # <<>> /\ StationA(m)
  BY <1>1 DEF InTurn
<1>3. /\ m.results = <<>> /\ Phase(m) = Phase(a) /\ m.segments = a.segments
  BY <1>2 DEF Rests, Keeps
<1>4. /\ a'.segments = m.segments /\ Phase(a') = Phase(m) /\ Sender(a') /\ Sender(a)
      /\ b' = b /\ Latest' = Latest /\ handed' = handed
  BY TurnFields
<1>5. /\ a'.pri \in Resetting <=> a.pri \in Resetting
      /\ a'.pri \in Carrying <=> a.pri \in Carrying
  BY <1>3, <1>4, Phases
<1>6. clean' => clean
  BY <1>2, <1>3, ResultOf
<1>7. Current' = Current
  BY <1>3, <1>4 DEF Current
<1>8. Truthful
  BY DEF PromptInv
<1> QED BY <1>2, <1>4, <1>5, <1>6, <1>7, <1>8 DEF Truthful

\* The segment a is at after a move.
LEMMA CurrentMoves ==
    ASSUME PairInv, handed' = handed
    PROVE  /\ a'.segments = a.segments => Current' = Current
           /\ Len(a.segments) > 1 /\ a'.segments = Tail(a.segments) =>
                 Current' = Current + 1 /\ a'.segments # <<>> /\ Current < handed
           /\ Len(a.segments) = 1 => Current = handed
           /\ a.segments \in Seq(Nat)
<1>1. Numbered(a.segments, handed) /\ handed \in Nat /\ a.segments \in Seq(Nat)
  BY DEF PairInv, Numbered
<1>2. a'.segments = a.segments => Current' = Current
  BY DEF Current
<1>3. ASSUME Len(a.segments) > 1, a'.segments = Tail(a.segments)
      PROVE  Current' = Current + 1 /\ a'.segments # <<>> /\ Current < handed
  <2>1. Current' = Current + 1
    BY <1>1, <1>3, NumberedHead DEF Current
  <2>2. a'.segments # <<>>
    <3>1. a.segments # <<>>
      BY <1>3, LongIsFull
    <3>2. Tail(a.segments) # <<>>
      BY <1>1, <1>3, <3>1, TailShorter
    <3> QED BY <1>3, <3>2
  <2>3. Current < handed
    <3> DEFINE n == Len(a.segments)
    <3>1. n \in Nat /\ n > 1
      BY <1>1, <1>3
    <3>2. Current = handed - n + 1
      BY DEF Current, At
    <3> HIDE DEF n
    <3> QED BY <1>1, <3>1, <3>2
  <2> QED BY <2>1, <2>2, <2>3
<1>4. Len(a.segments) = 1 => Current = handed
  BY <1>1 DEF Current, At
<1> QED BY <1>1, <1>2, <1>3, <1>4

\* The moves by what they do to the send operation, while nothing fails.
LEMMA CleanMoves ==
    ASSUME WholeInv, TransportReceive, NEW m, NEW q, InTurn(m, q), clean'
    PROVE  /\ clean
           /\ \/ /\ m.results = <<>> /\ a'.segments = a.segments
                 /\ a'.nextWriteFCB <=> a.nextWriteFCB
                 /\ a'.isRemoteReset <=> a.isRemoteReset
                 /\ a'.pri \in Carrying <=> a.pri \in Carrying
              \/ /\ m.results = <<>> /\ a'.segments = a.segments
                 /\ a'.pri \in Carrying /\ a.pri \notin Carrying
                 /\ \/ a'.nextWriteFCB /\ b.nextReadFCB
                    \/ a.isRemoteReset /\ (a'.nextWriteFCB <=> a.nextWriteFCB)
              \/ /\ Len(a.segments) > 1 /\ a'.segments = Tail(a.segments) /\ m.results = <<>>
                 /\ a'.nextWriteFCB <=> ~a.nextWriteFCB
                 /\ a'.pri \in Carrying /\ a.pri \in Carrying /\ Latest = Current
              \/ /\ Len(a.segments) = 1 /\ a'.segments = <<>> /\ m.results = <<TRUE>>
                 /\ a'.nextWriteFCB <=> ~a.nextWriteFCB
                 /\ a'.pri \notin Carrying /\ a.pri \in Carrying /\ Latest = Current
<1>1. /\ a'.pri = m.pri /\ a'.segments = m.segments /\ (a'.nextWriteFCB <=> m.nextWriteFCB)
      /\ (a'.isRemoteReset <=> m.isRemoteReset) /\ Sender(a) /\ Sender(m)
  BY TurnFields
<1>2. /\ Passes(a, m) \/ Carries(a, m)
      /\ StationA(m)
      /\ a.pri = "ResetLinkWait" /\ Begins(a, m) => b.nextReadFCB
      /\ clean /\ (Advances(a, m) \/ Ends(a, m, TRUE)) => Latest = Current
  BY DEF InTurn
<1>3. /\ m.results = <<>> => clean
      /\ m.results = <<TRUE>> => clean
      /\ m.results # <<FALSE>>
  BY <1>2, ResultOf
<1>4. a.nextWriteFCB \in BOOLEAN
  BY BitsTell DEF WholeInv
<1> DEFINE
      Sames == /\ m.results = <<>> /\ m.segments = a.segments
               /\ m.nextWriteFCB <=> a.nextWriteFCB
               /\ m.isRemoteReset <=> a.isRemoteReset
               /\ m.pri \in Carrying <=> a.pri \in Carrying
      Starts == /\ Begins(a, m) /\ m.segments = a.segments /\ m.results = <<>>
                /\ m.pri \in Carrying /\ a.pri \notin Carrying
                /\ \/ a.pri = "ResetLinkWait" /\ m.nextWriteFCB
                   \/ a.isRemoteReset /\ (m.nextWriteFCB <=> a.nextWriteFCB)
      Nexts == /\ Advances(a, m) /\ Len(a.segments) > 1 /\ m.segments = Tail(a.segments)
               /\ m.results = <<>>
               /\ m.nextWriteFCB <=> ~a.nextWriteFCB
               /\ m.pri \in Carrying /\ a.pri \in Carrying
      Done == /\ Ends(a, m, TRUE) /\ Len(a.segments) = 1 /\ m.segments = <<>>
              /\ m.results = <<TRUE>>
              /\ m.nextWriteFCB <=> ~a.nextWriteFCB
              /\ m.pri \notin Carrying /\ a.pri \in Carrying
<1>5. Sames \/ Starts \/ Nexts \/ Done
  BY <1>1, <1>2, <1>3, <1>4, MovesCount, Zenon
<1>6. CASE Sames
  BY <1>1, <1>3, <1>6
<1>7. CASE Starts
  BY <1>1, <1>2, <1>3, <1>7
<1>8. CASE Nexts
  BY <1>1, <1>2, <1>3, <1>8
<1>9. CASE Done
  BY <1>1, <1>2, <1>3, <1>9
<1> QED BY <1>5, <1>6, <1>7, <1>8, <1>9
\* The bits stay in step, and what b has read stays what a was acknowledged.
LEMMA MovesInStep ==
    ASSUME WholeInv, PromptInv, TransportReceive, NEW m, NEW q, InTurn(m, q), clean'
    PROVE  InStep' /\ AllRead' /\ Heard
<1>1. PairInv /\ b' = b /\ Latest' = Latest /\ handed' = handed /\ Base' = Base
        /\ Payload' = Payload /\ rx' = rx /\ fragments' = fragments /\ StationA(m)
  BY TurnFields DEF WholeInv, InTurn
<1>2. InStep /\ AllRead
  BY CleanMoves DEF PromptInv
<1>3. /\ a'.segments = a.segments => Current' = Current
      /\ Len(a.segments) > 1 /\ a'.segments = Tail(a.segments) =>
            Current' = Current + 1 /\ a'.segments # <<>> /\ Current < handed
      /\ Len(a.segments) = 1 => Current = handed
  BY <1>1, CurrentMoves
<1>4. /\ a.pri \notin Carrying => Latest < Current
      /\ a.pri \in Carrying /\ Latest = Current => ~(a.nextWriteFCB <=> b.nextReadFCB)
      /\ a.pri \in Carrying => a.segments # <<>>
      /\ Latest \in Nat /\ Current \in Nat /\ handed \in Nat
  BY <1>1, BitsTell
<1>5. Base \in Int
  BY <1>4, PairAssumption DEF Base
<1>6. ASSUME m.results = <<>>, a'.segments = a.segments
      PROVE  AllRead' /\ Heard /\ Current' = Current
  <2>1. Current' = Current
    BY <1>3, <1>6
  <2>2. AllRead'
    BY <1>1, <1>2, <1>6, <2>1 DEF AllRead
  <2>3. confirmed' = confirmed
    BY <1>1, <1>6, ResultOf
  <2> QED BY <2>1, <2>2, <2>3 DEF Heard
<1>7. CASE /\ m.results = <<>> /\ a'.segments = a.segments
           /\ a'.nextWriteFCB <=> a.nextWriteFCB
           /\ a'.isRemoteReset <=> a.isRemoteReset
           /\ a'.pri \in Carrying <=> a.pri \in Carrying
  BY <1>1, <1>2, <1>6, <1>7 DEF InStep
<1>8. CASE /\ m.results = <<>> /\ a'.segments = a.segments
           /\ a'.pri \in Carrying /\ a.pri \notin Carrying
           /\ \/ a'.nextWriteFCB /\ b.nextReadFCB
              \/ a.isRemoteReset /\ (a'.nextWriteFCB <=> a.nextWriteFCB)
  BY <1>1, <1>2, <1>6, <1>8 DEF InStep
<1>9. CASE /\ Len(a.segments) > 1 /\ a'.segments = Tail(a.segments) /\ m.results = <<>>
           /\ a'.nextWriteFCB <=> ~a.nextWriteFCB
           /\ a'.pri \in Carrying /\ a.pri \in Carrying /\ Latest = Current
  <2>1. Current' = Current + 1 /\ a'.segments # <<>> /\ Current < handed
    BY <1>3, <1>9
  <2>2. InStep'
    BY <1>1, <1>4, <1>9, <2>1 DEF InStep
  <2>3. Latest > Base /\ (Latest < handed => rx.read # <<>> /\ rx.read[Len(rx.read)] = Latest)
    BY <1>2, <1>4, <1>5, <1>9 DEF AllRead
  <2>4. AllRead'
    BY <1>1, <1>4, <1>5, <1>9, <2>1, <2>3 DEF AllRead
  <2>5. confirmed' = confirmed
    BY <1>1, <1>9, ResultOf
  <2> QED BY <2>2, <2>4, <2>5 DEF Heard
<1>10. CASE /\ Len(a.segments) = 1 /\ a'.segments = <<>> /\ m.results = <<TRUE>>
            /\ a'.nextWriteFCB <=> ~a.nextWriteFCB
            /\ a'.pri \notin Carrying /\ a.pri \in Carrying /\ Latest = Current
  <2>1. Latest = handed /\ a.segments # <<>>
    BY <1>3, <1>4, <1>10
  <2>2. rx.read = <<>> /\ \E i \in DOMAIN fragments : Payload \subseteq Range(fragments[i])
    BY <1>2, <2>1 DEF AllRead
  <2>3. InStep'
    BY <1>1, <1>4, <1>10 DEF InStep
  <2>4. AllRead'
    BY <1>1, <1>10, <2>2 DEF AllRead
  <2>5. confirmed' = confirmed \cup Payload
    BY <1>1, <1>10, ResultOf
  <2>6. Heard
    BY <1>1, <2>2, <2>5 DEF Heard
  <2> QED BY <2>3, <2>4, <2>6
<1> QED BY <1>7, <1>8, <1>9, <1>10, CleanMoves

\* An entry point of a that comes on its turn keeps all of it.
LEMMA MovesPrompt ==
    ASSUME WholeInv, PromptInv, TransportReceive, NEW m, NEW q, InTurn(m, q)
    PROVE  PromptInv' /\ (clean => Heard)
<1>1. Turns' /\ Truthful'
  BY MovesTurns, MovesTruthful
<1>2. clean' => InStep' /\ AllRead' /\ Heard
  BY MovesInStep
<1>3. ASSUME clean, ~clean' PROVE Heard
  <2>1. confirmed' = confirmed
    <3>1. StationA(m) /\ Goes(a, m)
      BY MovesGo DEF InTurn
    <3>2. CASE m.results = <<FALSE>> \/ m.results = <<>>
      BY <3>1, <3>2, ResultOf
    <3>3. CASE m.results = <<TRUE>>
      BY <1>3, <3>1, <3>3, ResultOf
    <3> QED BY <3>1, <3>2, <3>3 DEF Goes
  <2> QED BY <2>1 DEF Heard
<1> QED BY <1>1, <1>2, <1>3 DEF PromptInv
\* Moves that cannot be taken for one another.
LEMMA MovesDiffer ==
    ASSUME NEW l, Quiet(l), NEW m,
           ResetsLink(l, m) \/ Repeats(l, m) \/ Ends(l, m, FALSE) \/ (Rests(l, m) /\ m.pri = l.pri)
    PROVE  /\ ~(l.pri = "ResetLinkWait" /\ Begins(l, m))
           /\ ~Advances(l, m)
           /\ ~Ends(l, m, TRUE)
<1>1. /\ ResetsLink(l, m) => m.pri = "LinkResetTransmitWait"
      /\ Repeats(l, m) => m.pri = "ConfUserDataTransmitWait" /\ m.segments = l.segments
                            /\ l.pri = "ConfDataWait"
      /\ Ends(l, m, FALSE) => m.pri \in {"Idle", "RequestLinkStatusTransmitWait"}
      /\ Ends(l, m, FALSE) => m.results = <<FALSE>>
  BY DEF ResetsLink, Repeats, SendsData, Ends
<1>2. /\ Begins(l, m) => m.pri = "ConfUserDataTransmitWait"
      /\ Advances(l, m) => m.pri = "ConfUserDataTransmitWait" /\ l.pri = "ConfDataWait"
                             /\ m.segments = Tail(l.segments) /\ Len(l.segments) > 1
  BY DEF Begins, Advances, SendsData
<1>9. ASSUME Ends(l, m, TRUE)
      PROVE  /\ m.pri \in {"Idle", "RequestLinkStatusTransmitWait"}
             /\ l.pri = "ConfDataWait"
             /\ m.results = <<TRUE>>
  BY <1>9 DEF Ends
<1>3. l.segments \in Seq(Nat)
  BY DEF Quiet, Sender, SenderBody
<1>4. ASSUME Len(l.segments) > 1 PROVE Tail(l.segments) # l.segments
  <2>1. l.segments # <<>>
    BY <1>4, LongIsFull
  <2> QED BY <1>3, <2>1, TailShorter
<1>5. m.results = <<FALSE>> => m.results # <<TRUE>>
  <2>1. <<FALSE>>[1] = FALSE /\ <<TRUE>>[1] = TRUE
    OBVIOUS
  <2> QED BY <2>1, Zenon
<1>6. ~(l.pri = "ResetLinkWait" /\ Begins(l, m))
  BY <1>1, <1>2
<1>7. ~Advances(l, m)
  BY <1>1, <1>2, <1>4
<1>8. ~Ends(l, m, TRUE)
  <2>1. CASE ResetsLink(l, m) \/ Repeats(l, m) \/ (Rests(l, m) /\ m.pri = l.pri)
    BY <1>1, <1>9, <2>1
  <2>2. CASE Ends(l, m, FALSE)
    BY <1>1, <1>5, <1>9, <2>2, Zenon
  <2> QED BY <2>1, <2>2
<1> QED BY <1>6, <1>7, <1>8

\* What is on the lines when a or b has its turn.
LEMMA TurnsTaken ==
    ASSUME PairInv, Turns
    PROVE  /\ ab # <<>> => /\ ab = <<Question(a)>> /\ ba = <<>> /\ a.pri # "Idle"
                           /\ Head(ab) = Question(a) /\ Tail(ab) = <<>> /\ Front(ab) = <<>>
           /\ ba # <<>> => /\ ba = <<Answer(a)>> /\ ab = <<>> /\ a.pri # "Idle"
                           /\ Head(ba) = Answer(a) /\ Tail(ba) = <<>>
           /\ a.pri = "Idle" => ab = <<>> /\ ba = <<>>
<1> DEFINE f == Question(a)
           g == Answer(a)
<1>1. \/ ab = <<>> /\ ba = <<>>
      \/ a.pri # "Idle" /\ ab = <<f>> /\ ba = <<>>
      \/ a.pri # "Idle" /\ ab = <<>> /\ ba = <<g>>
  BY DEF Turns, TakeTurns
<1> HIDE DEF f, g
<1>2. Head(<<f>>) = f /\ Tail(<<f>>) = <<>> /\ Head(<<g>>) = g /\ Tail(<<g>>) = <<>>
  OBVIOUS
<1>3. Front(<<f>>) = <<>>
  BY DEF Front
<1>4. ab # <<>> => /\ ab = <<f>> /\ ba = <<>> /\ a.pri # "Idle"
                   /\ Head(ab) = f /\ Tail(ab) = <<>> /\ Front(ab) = <<>>
  BY <1>1, <1>2, <1>3
<1>5. ba # <<>> => /\ ba = <<g>> /\ ab = <<>> /\ a.pri # "Idle" /\ Head(ba) = g /\ Tail(ba) = <<>>
  BY <1>1, <1>2
<1>6. a.pri = "Idle" => ab = <<>> /\ ba = <<>>
  BY <1>1
<1> QED BY <1>4, <1>5, <1>6 DEF f, g

\* A frame of a was written, or was not.
LEMMA TransmitPrompt ==
    ASSUME WholeInv, PromptInv, TransmitResultA \/ TransmitFailsA
    PROVE  \E m, q : InTurn(m, q)
<1>1. PairInv /\ Turns /\ Quiet(a)
  BY DEF WholeInv, PromptInv, PairInv
<1>2. a.txMode # "Idle"
  BY DEF TransmitResultA, TransmitFailsA
<1>3. a.isOnline /\ a.pri # "ResetLinkWait" /\ a.pri # "ConfDataWait"
  BY <1>1, <1>2 DEF Quiet, Sender
<1>4. \A m : ~Advances(a, m) /\ ~Ends(a, m, TRUE)
  BY <1>3 DEF Advances, Ends
<1>5. CASE TransmitResultA
  <2> DEFINE m == TransmitResult(a, TRUE)
  <2>1. StepA(m) /\ handed' = handed /\ UnchangedB /\ ba' = ba
    BY <1>5 DEF TransmitResultA
  <2>2. Settled(m) /\ Rests(a, m)
    BY <1>1, <1>2, WrittenMoves
  <2> HIDE DEF m
  <2>3. Passes(a, m)
    BY <2>2 DEF Passes
  <2>4. InTurn(m, ab)
    BY <1>3, <1>4, <2>1, <2>2, <2>3 DEF InTurn, StepA
  <2> QED BY <2>4
<1>6. CASE TransmitFailsA
  <2> DEFINE m == TransmitResult(a, FALSE)
  <2>1. StationA(m) /\ handed' = handed /\ UnchangedB /\ ba' = ba /\ ab # <<>>
          /\ ab' = Front(ab) \o m.sent
    BY <1>6 DEF TransmitFailsA
  <2>2. Settled(m) /\ (Ends(a, m, FALSE) \/ ProbeEnds(a, m))
    BY <1>1, <1>2, UnwrittenMoves
  <2> HIDE DEF m
  <2>3. Passes(a, m) \/ Carries(a, m)
    BY <2>2, EndsPass
  <2>4. Front(ab) = <<>> /\ ba = <<>>
    BY <1>1, <2>1, TurnsTaken
  <2>5. InTurn(m, Front(ab))
    BY <1>3, <1>4, <2>1, <2>2, <2>3, <2>4 DEF InTurn
  <2> QED BY <2>5
<1> QED BY <1>5, <1>6

\* A timer of a fires; the response timer does when no answer can come.
LEMMA TimersPrompt ==
    ASSUME WholeInv, PromptInv, (TimeoutA /\ prompt') \/ KeepAliveA
    PROVE  \E m, q : InTurn(m, q)
<1>1. PairInv /\ Turns /\ Quiet(a)
  BY DEF WholeInv, PromptInv, PairInv
<1>2. CASE TimeoutA /\ prompt'
  <2> DEFINE m == ResponseTimeout(a)
  <2>1. StepA(m) /\ handed' = handed /\ UnchangedB /\ ba' = ba /\ a.rspTimer /\ NoAnswerComing
    BY <1>2 DEF TimeoutA
  <2>2. a.isOnline
    BY <1>1, <2>1 DEF Quiet, Sender
  <2>3. /\ Settled(m)
        /\ \/ ResetsLink(a, m) \/ Repeats(a, m) \/ Ends(a, m, FALSE)
           \/ ProbeEnds(a, m) /\ a.pri = "RequestLinkStatusWait"
    BY <1>1, <2>1, TimeoutMoves
  <2> HIDE DEF m
  <2>4. ab = <<>> /\ ba = <<>>
    BY <2>1 DEF NoAnswerComing
  <2>5. Passes(a, m) \/ Carries(a, m)
    BY <2>3, EndsPass
  <2>6. ~(a.pri = "ResetLinkWait" /\ Begins(a, m)) /\ ~Advances(a, m) /\ ~Ends(a, m, TRUE)
    <3>1. CASE ResetsLink(a, m) \/ Repeats(a, m) \/ Ends(a, m, FALSE)
      BY <1>1, <3>1, MovesDiffer
    <3>2. CASE a.pri = "RequestLinkStatusWait"
      BY <3>2 DEF Advances, Ends
    <3> QED BY <2>3, <3>1, <3>2
  <2>7. InTurn(m, ab)
    BY <2>1, <2>2, <2>3, <2>4, <2>5, <2>6 DEF InTurn, StepA
  <2> QED BY <2>7
<1>3. CASE KeepAliveA
  <2> DEFINE m == KeepAliveTimeout(a, TRUE)
  <2>1. StepA(m) /\ handed' = handed /\ UnchangedB /\ ba' = ba /\ a.isOnline
    BY <1>3 DEF KeepAliveA
  <2>2. Settled(m) /\ ((Rests(a, m) /\ m.pri = a.pri) \/ (Probes(a, m) /\ a.pri = "Idle"))
    BY <1>1, <2>1, KeepAliveMoves
  <2> HIDE DEF m
  <2>3. Passes(a, m)
    BY <2>2 DEF Passes
  <2>4. ~(a.pri = "ResetLinkWait" /\ Begins(a, m)) /\ ~Advances(a, m) /\ ~Ends(a, m, TRUE)
    <3>1. CASE Rests(a, m) /\ m.pri = a.pri
      BY <1>1, <3>1, MovesDiffer
    <3>2. CASE a.pri = "Idle"
      BY <3>2 DEF Advances, Ends
    <3> QED BY <2>2, <3>1, <3>2
  <2>5. Rests(a, m) \/ (ab = <<>> /\ ba = <<>>)
    BY <1>1, <2>2, TurnsTaken
  <2>6. InTurn(m, ab)
    BY <2>1, <2>2, <2>3, <2>4, <2>5 DEF InTurn, StepA
  <2> QED BY <2>6
<1> QED BY <1>2, <1>3

\* An answer arrives: it is the one a waits for.
LEMMA AnswerPrompt ==
    ASSUME WholeInv, PromptInv, ReceiveA
    PROVE  \E m, q : InTurn(m, q)
<1> DEFINE m == OnFrame(a, Head(ba))
<1>1. PairInv /\ Turns /\ Quiet(a) /\ Truthful
  BY DEF WholeInv, PromptInv, PairInv
<1>2. StepA(m) /\ handed' = handed /\ UnchangedB /\ ba # <<>> /\ ba' = Tail(ba)
  BY DEF ReceiveA
<1>3. a.isOnline
  BY <1>1, <1>2 DEF PairInv
<1>4. ab = <<>> /\ Head(ba) = Answer(a) /\ ba' = <<>>
  BY <1>1, <1>2, TurnsTaken
<1>5. CASE a.pri \in Probing
  <2>1. Head(ba) = LinkStatus
    BY <1>4, <1>5, Zenon DEF Answer
  <2>2. Settled(m) /\ (Rests(a, m) \/ Ends(a, m, FALSE) \/ ProbeEnds(a, m))
    BY <1>1, <1>3, <2>1, StatusMoves
  <2> HIDE DEF m
  <2>3. Passes(a, m) \/ Carries(a, m)
    BY <2>2, EndsPass
  <2>4. a.pri # "ResetLinkWait" /\ ~Advances(a, m) /\ ~Ends(a, m, TRUE)
    BY <1>5 DEF Advances, Ends
  <2>5. InTurn(m, ab)
    BY <1>2, <1>3, <1>4, <2>2, <2>3, <2>4 DEF InTurn, StepA
  <2> QED BY <2>5
<1>6. CASE a.pri \notin Probing
  <2>1. Head(ba) = Ack
    BY <1>4, <1>6, Zenon DEF Answer
  <2>2. Settled(m) /\ (Rests(a, m) \/ Begins(a, m) \/ Advances(a, m) \/ Ends(a, m, TRUE))
    BY <1>1, <1>3, <2>1, AckMoves
  <2> HIDE DEF m
  <2>3. Passes(a, m) \/ Carries(a, m)
    BY <2>2, EndsPass
  <2>4. /\ a.pri = "ResetLinkWait" => b.nextReadFCB
        /\ clean /\ a.pri = "ConfDataWait" => Latest = Current
    BY <1>1, <1>2 DEF Truthful
  <2>5. Advances(a, m) \/ Ends(a, m, TRUE) => a.pri = "ConfDataWait"
    BY DEF Advances, Ends
  <2>6. InTurn(m, ab)
    BY <1>2, <1>3, <1>4, <2>2, <2>3, <2>4, <2>5 DEF InTurn, StepA
  <2> QED BY <2>6
<1> QED BY <1>5, <1>6
\* The channel opens or closes: nothing was sent or read.
LEMMA ChannelPrompt ==
    ASSUME WholeInv, Connect \/ Disconnect, TransportReceive
    PROVE  PromptInv' /\ Heard
<1>1. PairInv /\ ReceiveInv /\ Quiet(a) /\ Listening(b) /\ (a.isOnline <=> b.isOnline)
  BY DEF WholeInv, PairInv
<1>2. delivered' = delivered /\ confirmed' = confirmed
  BY DEF Connect, Disconnect
<1>3. /\ a'.segments = <<>> /\ ~a'.isRemoteReset
      /\ ab' = <<>> /\ ba' = <<>>
      /\ ~(b.isOnline /\ b'.isOnline)
  <2>1. CASE Connect
    <3>1. ~a.isOnline /\ a' = LowerLayerUp(a) /\ ab' = ab /\ ba' = ba
      BY <2>1 DEF Connect
    <3>2. a'.segments = <<>> /\ ~a'.isRemoteReset
      BY <1>1, <3>1, UpSender
    <3> QED BY <1>1, <3>1, <3>2 DEF PairInv
  <2>2. CASE Disconnect
    <3>1. a' = LowerLayerDown(a) /\ b' = LowerLayerDown(b) /\ ab' = <<>> /\ ba' = <<>>
      BY <2>2 DEF Disconnect
    <3>2. a'.segments = <<>> /\ ~a'.isRemoteReset
      BY <1>1, <3>1, DownSender
    <3>3. ~b'.isOnline
      BY <1>1, <3>1, DownReceiver
    <3> QED BY <3>1, <3>2, <3>3
  <2> QED BY <2>1, <2>2
<1>4. rx'.read = <<>>
  BY <1>1, <1>2, <1>3, ReceiveRests
<1>5. Turns' /\ Truthful'
  BY <1>3 DEF Turns, TakeTurns, Truthful
<1>6. InStep' /\ AllRead'
  BY <1>3, <1>4 DEF InStep, AllRead
<1> QED BY <1>2, <1>5, <1>6 DEF PromptInv, Heard

\* A payload is handed over when the one before it was read.
LEMMA SendPrompt ==
    ASSUME WholeInv, PromptInv, PairInv', SendPayload, TransportReceive
    PROVE  PromptInv' /\ Heard
<1> DEFINE s == [i \in 1 .. PayloadSegments |-> handed + i]
           m == Send(a, s)
<1>1. /\ PairInv /\ PairInv' /\ ReceiveInv /\ Quiet(a) /\ handed \in Nat /\ Turns /\ Truthful
      /\ clean => InStep /\ AllRead
      /\ PayloadSegments \in Nat \ {0}
  BY PairAssumption DEF WholeInv, PairInv, PromptInv
<1>2. /\ a.isOnline /\ a.segments = <<>> /\ handed' = handed + PayloadSegments
      /\ StepA(m) /\ UnchangedB /\ ba' = ba
  BY DEF SendPayload
<1>3. s \in Seq(Nat) /\ Len(s) = PayloadSegments /\ s # <<>>
  BY <1>1, Consecutive
<1> HIDE DEF s
<1>4. Settled(m) /\ Loads(a, m, s)
  BY <1>1, <1>2, <1>3, SendMoves
<1> HIDE DEF m
<1>5. /\ a' = Fresh(m) /\ ab' = ab \o m.sent /\ b' = b /\ delivered' = delivered
      /\ StationA(m)
  BY <1>2 DEF StepA, StationA, UnchangedB
<1>6. /\ a'.pri = m.pri /\ a'.segments = m.segments
      /\ (a'.nextWriteFCB <=> m.nextWriteFCB)
      /\ a'.nextWriteFCB = m.nextWriteFCB
      /\ (a'.isRemoteReset <=> m.isRemoteReset) /\ Sender(a') /\ Sender(m)
  BY <1>4, <1>5, SettledFresh DEF Quiet, Settled
<1>7. /\ m.segments = s /\ m.results = <<>> /\ (m.nextWriteFCB <=> a.nextWriteFCB)
      /\ (m.isRemoteReset <=> a.isRemoteReset)
  BY <1>4 DEF Loads
<1>8. /\ confirmed' = confirmed /\ (clean' => clean)
  BY <1>5, <1>7, ResultOf
<1>9. /\ Latest' = Latest /\ rx' = rx /\ fragments' = fragments
  BY <1>1, <1>2, <1>5, LatestTyped, ReceiveRests DEF PairInv
<1>10. Latest \in Nat /\ Current = handed + 1 /\ a.pri \notin Carrying /\ a.pri \notin Resetting
         /\ Latest < Current
  BY <1>1, <1>2, BitsTell
<1>11. Current' = handed + 1
  <2>1. Current' = At(s, handed')
    BY <1>6, <1>7 DEF Current
  <2> QED BY <1>1, <1>2, <1>3, <2>1 DEF At
<1>12. Turns' /\ Truthful'
  <2>1. CASE Phase(a) = "probing" /\ m.pri = a.pri /\ m.sent = <<>>
    <3>1. a.pri \in Probing /\ a'.pri = a.pri
      BY <1>6, <2>1, Phases, <1>1 DEF Quiet
    <3>2. Question(a') = RequestLinkStatus /\ Question(a) = RequestLinkStatus
            /\ Answer(a') = LinkStatus /\ Answer(a) = LinkStatus
      BY <3>1 DEF Question, Answer
    <3>3. ab' = ab
      <4>1. ab \in Seq(ForwardFrames)
        BY <1>1 DEF PairInv, LineOf, Line
      <4> QED BY <1>5, <2>1, <4>1
    <3>4. Turns'
      BY <1>1, <1>2, <3>1, <3>2, <3>3, Zenon DEF Turns, TakeTurns
    <3> QED BY <3>1, <3>4 DEF Truthful
  <2>2. CASE a.pri = "Idle" /\ m.pri # "Idle" /\ m.sent = <<Question(a')>>
    <3> DEFINE f == Question(a')
    <3>1. ab = <<>> /\ ba = <<>> /\ m.sent = <<f>>
      BY <1>1, <2>2, TurnsTaken
    <3> HIDE DEF f
    <3>2. ab' = <<f>> /\ ba' = <<>>
      BY <1>2, <1>5, <3>1
    <3> QED BY <1>6, <2>2, <3>2 DEF Turns, TakeTurns, Truthful, f
  <2>3. CASE a.pri = "Idle" /\ m.pri = "LinkResetTransmitWait" /\ m.sent = <<ResetLinks>>
    <3>1. Question(a') = ResetLinks
      BY <1>6, <2>3 DEF Question
    <3> QED BY <2>2, <2>3, <3>1
  <2>4. CASE a.pri = "Idle" /\ m.pri = "ConfUserDataTransmitWait" /\ m.sent = <<DataFrame(m)>>
    <3>1. DataFrame(a') = DataFrame(m)
      BY <1>6 DEF DataFrame
    <3>2. Question(a') = DataFrame(a')
      BY <1>6, <2>4 DEF Question
    <3> QED BY <2>2, <2>4, <3>1, <3>2
  <2> QED BY <1>4, <2>1, <2>3, <2>4 DEF Loads
<1>13. ASSUME clean' PROVE InStep' /\ AllRead'
  <2>1. InStep /\ AllRead
    BY <1>1, <1>8, <1>13
  <2>2. InStep'
    BY <1>5, <1>6, <1>7, <1>10, <2>1 DEF InStep
  <2>3. Base' = handed /\ Latest < handed' /\ Latest <= handed
    BY <1>1, <1>2, <1>10 DEF Base
  <2>4. rx.read = <<>>
    BY <1>2, <2>1 DEF AllRead
  <2>5. a'.segments # <<>>
    BY <1>3, <1>6, <1>7
  <2> QED BY <1>1, <1>9, <1>10, <1>11, <2>2, <2>3, <2>4, <2>5 DEF AllRead
<1> QED BY <1>8, <1>12, <1>13 DEF PromptInv, Heard

\* A frame is lost, an answer was written, or a posted result is taken.
LEMMA QuietPrompt ==
    ASSUME WholeInv, PromptInv, OnSendResultA \/ LoseA \/ LoseB \/ TransmitResultB,
           TransportReceive
    PROVE  PromptInv' /\ Heard
<1>1. PairInv /\ ReceiveInv /\ Turns /\ Truthful /\ (clean => InStep /\ AllRead)
  BY DEF WholeInv, PromptInv
<1>2. /\ a' = a /\ handed' = handed /\ delivered' = delivered /\ confirmed' = confirmed
      /\ (clean' <=> clean) /\ b'.nextReadFCB = b.nextReadFCB /\ (b'.isOnline <=> b.isOnline)
      /\ ab' = ab \/ (ab # <<>> /\ ab' = Tail(ab))
      /\ ba' = ba \/ (ba # <<>> /\ ba' = Tail(ba))
  <2>1. CASE OnSendResultA
    BY <2>1 DEF OnSendResultA
  <2>2. CASE LoseA \/ LoseB
    BY <2>2 DEF LoseA, LoseB
  <2>3. CASE TransmitResultB
    <3> DEFINE m == TransmitResult(b, TRUE)
    <3>1. /\ Listening(b) /\ b.txMode # "Idle" /\ StepB(m) /\ UnchangedA /\ ab' = ab
          /\ handed' = handed /\ delivered \in Seq(Nat) /\ ba \in Seq({Ack, LinkStatus})
      BY <1>1, <2>3 DEF PairInv, TransmitResultB
    <3>2. b.isOnline
      BY <3>1 DEF Listening, Receiver
    <3>3. Receiver(m) /\ m.sent = <<>> /\ m.up = <<>> /\ m.nextReadFCB = b.nextReadFCB /\ m.isOnline
      BY <3>1, AnswerWritten
    <3> HIDE DEF m
    <3>4. b' = Fresh(m) /\ ba' = ba \o <<>> /\ delivered' = delivered \o <<>>
      BY <3>1, <3>3 DEF StepB
    <3>5. b'.nextReadFCB = m.nextReadFCB /\ (b'.isOnline <=> m.isOnline)
      BY <3>3, <3>4, FreshReceiver
    <3>6. ba' = ba /\ delivered' = delivered
      <4>1. ba \o <<>> = ba
        BY <3>1, ConcatEmptySeq
      <4> QED BY <3>1, <3>4, <4>1, NothingUp
    <3> QED BY <3>1, <3>2, <3>3, <3>5, <3>6 DEF UnchangedA
  <2> QED BY <2>1, <2>2, <2>3
<1>3. /\ ab' = ab \/ ab' = <<>>
      /\ ba' = ba \/ ba' = <<>>
  BY <1>1, <1>2, TurnsTaken
<1>4. Latest' = Latest /\ Current' = Current /\ Base' = Base /\ Payload' = Payload
  BY <1>1, <1>2, LatestTyped DEF PairInv, Current, Base, Payload
<1>5. fragments' = fragments /\ rx' = rx
  <2>1. fragments' = fragments /\ rx' = IF b.isOnline /\ ~b'.isOnline THEN Reset(rx) ELSE rx
    BY <1>2 DEF TransportReceive
  <2> QED BY <1>2, <2>1
<1>6. Turns'
  BY <1>1, <1>2, <1>3 DEF Turns, TakeTurns
<1>7. Truthful'
  BY <1>1, <1>2, <1>3, <1>4 DEF Truthful
<1>8. clean' => InStep' /\ AllRead'
  BY <1>1, <1>2, <1>4, <1>5 DEF InStep, AllRead
<1> QED BY <1>2, <1>6, <1>7, <1>8 DEF PromptInv, Heard
\* A fragment that ends in the last segment of the payload under way is the
\* payload.
LEMMA PayloadRead ==
    ASSUME handed \in Nat, NEW f \in Seq(Nat), IsPayload(f), f[PayloadSegments] = handed
    PROVE  Payload \subseteq Range(f)
<1> SUFFICES ASSUME NEW s \in Payload PROVE s \in Range(f)
  OBVIOUS
<1>1. PayloadSegments \in Nat \ {0}
  BY PairAssumption
<1>2. s \in Nat /\ s > handed - PayloadSegments /\ s <= handed
  BY DEF Payload
<1>3. /\ Len(f) = PayloadSegments /\ DOMAIN f = 1 .. PayloadSegments
      /\ \A i \in DOMAIN f : f[i] = f[1] + i - 1
  BY DEF IsPayload
<1>4. f[1] \in Nat
  BY <1>1, <1>3
<1>5. f[1] + PayloadSegments - 1 = handed
  BY <1>1, <1>3
<1> DEFINE i == s - handed + PayloadSegments
<1>6. i \in 1 .. PayloadSegments
  BY <1>1, <1>2
<1>7. f[i] = s
  <2>1. f[i] = f[1] + i - 1
    BY <1>3, <1>6
  <2> QED BY <1>1, <1>2, <1>4, <1>5, <2>1
<1> QED BY <1>3, <1>6, <1>7 DEF Range

\* The payload under way is whole, so a segment of it has its place in it.
LEMMA PlaceInPayload ==
    ASSUME handed \in Nat, handed % PayloadSegments = 0, NEW d \in Nat, d > Base, d <= handed
    PROVE  (First(d) <=> d = Base + 1) /\ (Final(d) <=> d = handed)
<1>1. PayloadSegments \in Nat \ {0}
  BY PairAssumption
<1> DEFINE k == handed \div PayloadSegments
<1>2. k \in Int /\ handed \in Int /\ handed = PayloadSegments * k
  <2>1. handed \in Int
    BY <1>1
  <2>2. k \in Int /\ handed = PayloadSegments * k + (handed % PayloadSegments)
    BY <1>1, <2>1, DivMod
  <2>3. PayloadSegments * k \in Int
    BY <1>1, <2>2
  <2> HIDE DEF k
  <2> QED BY <2>1, <2>2, <2>3
<1> HIDE DEF k
<1>3. Base = PayloadSegments * (k - 1) + 0 /\ Base \in Int /\ k - 1 \in Int
  BY <1>1, <1>2 DEF Base
<1>4. Base % PayloadSegments = 0
  BY <1>1, <1>3, OneRemainder
<1> DEFINE i == d - Base
<1>5. i \in 1 .. PayloadSegments /\ Base + i = d
  BY <1>1, <1>3 DEF Base
<1>6. (First(Base + i) <=> i = 1) /\ (Final(Base + i) <=> i = PayloadSegments)
  BY <1>3, <1>4, <1>5, Places
<1>7. (i = 1 <=> d = Base + 1) /\ (i = PayloadSegments <=> d = handed)
  BY <1>1, <1>3 DEF Base
<1> QED BY <1>5, <1>6, <1>7

\* What is expected next after the segments that were read.
LEMMA ExpectedNext ==
    ASSUME NEW r \in RxType, NEW h \in Nat, NEW c \in Int, NEW last \in Nat,
           Reading(r, h, c, last), r.read # <<>>, r.read[Len(r.read)] = last
    PROVE  r.sequence = Number(c, last + 1)
<1> DEFINE f == r.read[1]
           n == Len(r.read)
<1>1. r.read \in Seq(Nat)
  BY DEF RxType
<1>2. f \in Nat /\ n \in Nat \ {0}
  BY <1>1
<1>3. (\A i \in 1 .. n : r.read[i] = f + i - 1) /\ r.sequence = Number(c, f + n)
  BY DEF Reading
<1>4. last = f + n - 1
  <2>1. n \in 1 .. n /\ r.read[n] = last
    BY <1>2
  <2> HIDE DEF n, f
  <2> QED BY <1>2, <1>3, <2>1
<1>5. f + n = last + 1
  BY <1>2, <1>4
<1> QED BY <1>3, <1>5

\* b takes the segment that a is at.
LEMMA TakesCurrent ==
    ASSUME WholeInv, clean, a.isOnline, AllRead, TransportReceive,
           a' = a, handed' = handed, a.segments # <<>>,
           Latest < Current, delivered' = Append(delivered, Current),
           PayloadSegments <= RxCapacity
    PROVE  AllRead'
<1> DEFINE d == Current
           t == tpdus[d]
           p == ProcessReceive(rx, t)
<1>1. /\ PairInv /\ TransmitInv /\ ReceiveInv /\ rx \in RxType /\ fragments \in Seq(Seq(Nat))
      /\ handed % PayloadSegments = 0
  BY DEF WholeInv, ReceiveInv, TransmitInv
<1>2. /\ d \in Nat /\ handed \in Nat /\ Latest \in Nat /\ d <= handed /\ d > Latest
      /\ delivered \in Seq(Nat) /\ d \in 1 .. handed
  <2>1. Latest \in Nat /\ Current \in Nat /\ handed \in Nat /\ Current <= handed
    BY <1>1, BitsTell
  <2> QED BY <1>1, <2>1 DEF PairInv
<1>3. PICK h \in Nat, c \in Int : Session(h, c) /\ Reading(rx, h, c, Latest)
  BY DEF WholeInv
<1>4. d > h /\ IsSegment(t, c, d)
  <2>1. d > h
    BY <1>2, <1>3 DEF Session
  <2>2. d \in h + 1 .. handed
    BY <1>2, <2>1
  <2> QED BY <1>3, <2>1, <2>2 DEF Session
<1>5. /\ rx' = p.rx /\ p.fragment \in Seq(Nat)
      /\ fragments' = IF p.fragment # <<>> THEN Append(fragments, p.fragment) ELSE fragments
  BY <1>1, <1>2, ReceiveTakes
<1>6. Latest' = d /\ Current' = d /\ Base' = Base /\ Payload' = Payload
  <2>1. Latest' = d
    BY <1>2, LatestTyped
  <2> QED BY <2>1 DEF Current, Base, Payload
<1>7. PayloadSegments \in Nat \ {0} /\ RxCapacity \in Nat /\ TpduModulus \in Nat \ {0}
        /\ Base \in Int /\ Base < handed
  BY <1>2, PairAssumption, TransportAssumption DEF Base
<1>8. d > Base
  BY <1>2, <1>7 DEF AllRead
<1>9. (First(d) <=> d = Base + 1) /\ (Final(d) <=> d = handed)
  BY <1>1, <1>2, <1>8, PlaceInPayload
<1> HIDE DEF d, t, p
<1>10. /\ d < handed => p.rx.read # <<>> /\ p.rx.read[Len(p.rx.read)] = d
       /\ d = handed => /\ p.rx.read = <<>> /\ p.fragment # <<>>
                        /\ Payload \subseteq Range(p.fragment)
  <2>1. CASE Latest <= Base
    <3>1. d = Base + 1 /\ t.fir
      BY <1>4, <1>9, <2>1 DEF AllRead, IsSegment, d
    <3>2. /\ p.fragment # <<>> => p.fragment = <<d>> /\ PayloadSegments = 1
          /\ IF Final(d) THEN p.fragment # <<>> /\ p.rx.read = <<>>
                         ELSE p.rx.read = <<d>> /\ p.fragment = <<>>
      <4>1. RxCapacity >= 1
        BY <1>7
      <4> QED BY <1>1, <1>2, <1>3, <1>4, <3>1, <4>1, TakesFirst DEF p
    <3>3. CASE d < handed
      <4>1. ~Final(d)
        BY <1>2, <1>9, <3>3
      <4>2. p.rx.read = <<d>>
        BY <3>2, <4>1
      <4>3. <<d>> # <<>> /\ Len(<<d>>) = 1 /\ <<d>>[1] = d
        OBVIOUS
      <4> QED BY <1>2, <3>3, <4>2, <4>3
    <3>4. CASE d = handed
      <4>1. p.fragment # <<>> /\ p.rx.read = <<>>
        BY <1>9, <3>2, <3>4
      <4>2. p.fragment = <<d>> /\ PayloadSegments = 1
        BY <3>2, <4>1
      <4>3. <<d>> \in Seq(Nat) /\ Len(<<d>>) = 1 /\ <<d>>[1] = d /\ DOMAIN <<d>> = {1}
        BY <1>2
      <4>4. \A s \in Payload : s = d
        BY <1>2, <3>4, <4>2 DEF Payload
      <4>5. d \in Range(p.fragment)
        <5>1. 1 \in DOMAIN p.fragment /\ p.fragment[1] = d
          BY <4>2, <4>3
        <5> QED BY <5>1 DEF Range
      <4>6. Payload \subseteq Range(p.fragment)
        BY <4>4, <4>5, Zenon
      <4> QED BY <1>2, <3>4, <4>1, <4>6
    <3> QED BY <1>2, <3>3, <3>4
  <2>2. CASE Latest > Base
    <3>1. d = Latest + 1 /\ Latest < handed /\ d # Base + 1
      <4>1. d <= Latest + 1
        BY <2>2 DEF AllRead, d
      <4> QED BY <1>2, <1>7, <2>2, <4>1
    <3>2. rx.read # <<>> /\ rx.read[Len(rx.read)] = Latest
      BY <2>2, <3>1 DEF AllRead
    <3>3. ~t.fir /\ t.seq = Number(c, d)
      BY <1>4, <1>9, <3>1 DEF IsSegment
    <3>4. t.seq = rx.sequence
      BY <1>1, <1>2, <1>3, <3>1, <3>2, <3>3, ExpectedNext
    <3>5. d - rx.read[Len(rx.read)] <= TpduModulus
      BY <1>2, <1>7, <3>1, <3>2
    <3>6. /\ p.fragment # <<>> => IsPayload(p.fragment)
          /\ p.fragment # <<>> => p.fragment[PayloadSegments] = d
          /\ IF Final(d) THEN p.fragment # <<>> /\ p.rx.read = <<>>
                         ELSE /\ p.rx.read # <<>> /\ p.fragment = <<>>
                              /\ p.rx.read[Len(p.rx.read)] = d
      <4>1. h \in Int /\ Latest \in Int /\ RxCapacity >= PayloadSegments
        BY <1>2, <1>7
      <4> QED BY <1>1, <1>2, <1>3, <1>4, <3>2, <3>3, <3>4, <3>5, <4>1, TakesNext DEF p
    <3>7. CASE d < handed
      <4>1. ~Final(d)
        BY <1>2, <1>9, <3>7
      <4> QED BY <1>2, <3>6, <3>7, <4>1
    <3>8. CASE d = handed
      <4>1. p.fragment # <<>> /\ p.rx.read = <<>>
        BY <1>9, <3>6, <3>8
      <4>2. Payload \subseteq Range(p.fragment)
        BY <1>2, <1>5, <3>6, <3>8, <4>1, PayloadRead
      <4> QED BY <1>2, <3>8, <4>1, <4>2
    <3> QED BY <1>2, <3>7, <3>8
  <2> QED BY <1>2, <1>7, <2>1, <2>2
<1>11. d = handed => \E i \in DOMAIN fragments' : Payload \subseteq Range(fragments'[i])
  <2>1. SUFFICES ASSUME d = handed
                 PROVE  \E i \in DOMAIN fragments' : Payload \subseteq Range(fragments'[i])
    OBVIOUS
  <2>2. fragments' = Append(fragments, p.fragment) /\ Payload \subseteq Range(p.fragment)
    BY <1>5, <1>10, <2>1
  <2> DEFINE n == Len(fragments) + 1
             g == Append(fragments, p.fragment)
  <2>3. n \in DOMAIN g /\ g[n] = p.fragment
    BY <1>1, <1>5
  <2> HIDE DEF n, g
  <2> QED BY <2>2, <2>3 DEF g
<1>12. rx' = p.rx /\ a'.segments # <<>> /\ handed' = handed
  BY <1>5
<1>13. ~(Latest' <= Base') /\ Current' <= Latest' + 1
  BY <1>2, <1>6, <1>7, <1>8
<1>14. Latest' < handed' => rx'.read # <<>> /\ rx'.read[Len(rx'.read)] = Latest'
  BY <1>6, <1>10, <1>12
<1>15. Latest' = handed' =>
         /\ rx'.read = <<>>
         /\ \E i \in DOMAIN fragments' : Payload' \subseteq Range(fragments'[i])
  BY <1>6, <1>10, <1>11, <1>12
<1> QED BY <1>12, <1>13, <1>14, <1>15, Zenon DEF AllRead
\* The frame that a has sent, by what a does.
LEMMA QuestionKinds ==
    ASSUME PairInv, a.pri # "Idle"
    PROVE  \/ /\ a.pri \in Carrying /\ a.pri \notin Resetting /\ a.pri \notin Probing
              /\ IsData(Question(a)) /\ ~IsReset(Question(a))
              /\ Question(a).data = Current /\ Question(a).fcb = a.nextWriteFCB
           \/ /\ a.pri \in Resetting /\ a.pri \notin Carrying /\ a.pri \notin Probing
              /\ IsReset(Question(a)) /\ ~IsData(Question(a))
           \/ /\ a.pri \in Probing /\ a.pri \notin Carrying /\ a.pri \notin Resetting
              /\ ~IsReset(Question(a)) /\ ~IsData(Question(a))
<1>1. Sender(a)
  BY DEF PairInv, Quiet
<1>2. \/ a.pri \in Carrying /\ a.pri \notin Resetting /\ a.pri \notin Probing
      \/ a.pri \in Resetting /\ a.pri \notin Carrying /\ a.pri \notin Probing
      \/ a.pri \in Probing /\ a.pri \notin Carrying /\ a.pri \notin Resetting
  BY <1>1 DEF Sender, SenderBody
<1>3. ASSUME a.pri \in Carrying
      PROVE  /\ IsData(Question(a)) /\ ~IsReset(Question(a))
             /\ Question(a).data = Current /\ Question(a).fcb = a.nextWriteFCB
  <2>1. Question(a) = DataFrame(a)
    BY <1>3 DEF Question
  <2>2. Current = Head(a.segments)
    BY <1>3, BitsTell
  <2>3. /\ DataFrame(a).func = "PRI_CONFIRMED_USER_DATA"
        /\ DataFrame(a).fcb = a.nextWriteFCB /\ DataFrame(a).data = Head(a.segments)
    BY DEF DataFrame, Frame
  <2> QED BY <2>1, <2>2, <2>3 DEF IsData, IsReset
<1>4. ASSUME a.pri \in Resetting, a.pri \notin Carrying
      PROVE  IsReset(Question(a)) /\ ~IsData(Question(a))
  <2>1. Question(a) = ResetLinks
    BY <1>4, Zenon DEF Question
  <2> QED BY <2>1 DEF IsData, IsReset, ResetLinks, Frame
<1>5. ASSUME a.pri \notin Carrying, a.pri \notin Resetting
      PROVE  ~IsReset(Question(a)) /\ ~IsData(Question(a))
  <2>1. Question(a) = RequestLinkStatus
    BY <1>5, Zenon DEF Question
  <2> QED BY <2>1 DEF IsData, IsReset, RequestLinkStatus, Frame
<1> QED BY <1>2, <1>3, <1>4, <1>5, Zenon

\* b takes a frame and answers it.
LEMMA ReceivePrompt ==
    ASSUME WholeInv, PromptInv, ReceiveB, TransportReceive, PayloadSegments <= RxCapacity
    PROVE  PromptInv' /\ Heard
<1> DEFINE f == Head(ab)
           m == OnFrame(b, f)
<1>1. /\ PairInv /\ ReceiveInv /\ Turns /\ Truthful /\ Quiet(a) /\ Listening(b)
      /\ clean => InStep /\ AllRead
  BY DEF WholeInv, PromptInv, PairInv
<1>2. /\ ab # <<>> /\ ab' = Tail(ab) /\ StepB(m) /\ handed' = handed
      /\ a' = a /\ confirmed' = confirmed /\ clean' = clean
      /\ ab \in Seq(ForwardFrames) /\ delivered \in Seq(Nat) /\ a.isOnline /\ b.isOnline
  BY <1>1 DEF ReceiveB, UnchangedA, PairInv, LineOf, Line
<1>3. f = Question(a) /\ ba = <<>> /\ a.pri # "Idle" /\ ab' = <<>>
  BY <1>1, <1>2, TurnsTaken
<1>4. f \in ForwardFrames
  BY <1>2
<1>5. Receiver(m) /\ m.isOnline /\ Receives(b, m, f)
  BY <1>1, <1>2, <1>4, ReceiverMoves
<1> HIDE DEF f, m
<1>6. /\ b'.nextReadFCB = m.nextReadFCB /\ (b'.isOnline <=> b.isOnline)
      /\ ba' = <<>> \o m.sent /\ delivered' = delivered \o m.up
  <2>1. b' = Fresh(m) /\ ba' = <<>> \o m.sent /\ delivered' = delivered \o m.up
    BY <1>2, <1>3 DEF StepB
  <2> QED BY <1>2, <1>5, <2>1, FreshReceiver
<1>7. \A g : m.sent = <<g>> => ba' = <<g>>
  BY <1>6
<1>8. m.sent = <<>> => ba' = <<>>
  BY <1>6
<1>9. ASSUME m.up = <<>>
      PROVE  /\ Latest' = Latest /\ Current' = Current
             /\ clean' => AllRead'
  <2>1. delivered' = delivered
    BY <1>2, <1>6, <1>9, NothingUp
  <2>2. rx' = rx /\ fragments' = fragments
    BY <1>1, <1>2, <1>6, <2>1, ReceiveRests
  <2>3. Latest' = Latest /\ Current' = Current /\ Base' = Base /\ Payload' = Payload
    BY <1>2, <2>1, LatestTyped DEF Current, Base, Payload
  <2> QED BY <1>1, <1>2, <2>2, <2>3 DEF AllRead
<1>10. ASSUME NEW g, g = Answer(a), m.sent = <<g>> PROVE Turns'
  BY <1>2, <1>3, <1>7, <1>10 DEF Turns, TakeTurns
<1>11. /\ a.pri \notin Probing => Answer(a) = Ack
       /\ a.pri \in Probing => Answer(a) = LinkStatus
  BY Zenon DEF Answer
<1>12. CASE Ignored(b, m)
  <2>1. m.sent = <<>> /\ m.up = <<>> /\ m.nextReadFCB = b.nextReadFCB
    BY <1>12 DEF Ignored
  <2>2. Turns' /\ Truthful'
    BY <1>3, <1>8, <2>1 DEF Turns, TakeTurns, Truthful
  <2>3. clean' => InStep'
    BY <1>1, <1>2, <1>6, <1>9, <2>1 DEF InStep
  <2> QED BY <1>2, <1>9, <2>1, <2>2, <2>3 DEF PromptInv, Heard
<1>13. CASE IsReset(f) /\ Answered(b, m, Ack) /\ m.up = <<>> /\ m.nextReadFCB
  <2>1. a.pri \in Resetting /\ a.pri \notin Carrying /\ a.pri \notin Probing
    BY <1>1, <1>3, <1>13, QuestionKinds
  <2>2. m.sent = <<Ack>>
    BY <1>13 DEF Answered
  <2>3. Turns'
    BY <1>10, <1>11, <2>1, <2>2
  <2>4. Truthful'
    BY <1>2, <1>6, <1>13, <2>1 DEF Truthful
  <2>5. InStep'
    BY <1>1, <1>2, <2>1, BitsTell DEF InStep
  <2> QED BY <1>2, <1>9, <1>13, <2>3, <2>4, <2>5 DEF PromptInv, Heard
<1>14. CASE ~IsReset(f) /\ ~IsData(f) /\ Answered(b, m, LinkStatus) /\ m.up = <<>>
              /\ m.nextReadFCB = b.nextReadFCB
  <2>1. a.pri \in Probing /\ a.pri \notin Carrying /\ a.pri \notin Resetting
    BY <1>1, <1>3, <1>14, QuestionKinds
  <2>2. m.sent = <<LinkStatus>>
    BY <1>14 DEF Answered
  <2>3. Turns'
    BY <1>10, <1>11, <2>1, <2>2
  <2>4. Truthful'
    BY <1>2, <2>1 DEF Truthful
  <2>5. clean' => InStep'
    BY <1>1, <1>2, <1>6, <1>9, <1>14 DEF InStep
  <2> QED BY <1>2, <1>9, <1>14, <2>3, <2>4, <2>5 DEF PromptInv, Heard
<1>15. ASSUME IsData(f)
       PROVE  /\ a.pri \in Carrying /\ a.pri \notin Resetting /\ a.pri \notin Probing
              /\ f.data = Current /\ f.fcb = a.nextWriteFCB
  BY <1>1, <1>3, <1>15, QuestionKinds
<1>16. CASE IsData(f) /\ Accepted(b, m, f.data) /\ f.fcb = b.nextReadFCB
  <2>1. m.sent = <<Ack>> /\ m.up = <<Current>>
    BY <1>15, <1>16 DEF Accepted, Answered
  <2>2. /\ a.segments # <<>> /\ Latest < Current /\ Current \in Nat
    <3>1. /\ a.segments # <<>> /\ Latest <= Current /\ Current \in Nat /\ Latest \in Nat
          /\ Latest = Current => ~(a.nextWriteFCB <=> b.nextReadFCB)
      BY <1>1, <1>15, <1>16, BitsTell
    <3>2. a.nextWriteFCB = b.nextReadFCB
      BY <1>15, <1>16
    <3> QED BY <3>1, <3>2
  <2>3. delivered' = Append(delivered, Current)
    BY <1>2, <1>6, <2>1, <2>2, NothingUp
  <2>4. Latest' = Current /\ Current' = Current
    BY <1>2, <2>2, <2>3, LatestTyped DEF Current
  <2>5. Turns'
    BY <1>10, <1>11, <1>15, <1>16, <2>1
  <2>6. Truthful' /\ InStep'
    BY <1>2, <1>15, <1>16, <2>4 DEF Truthful, InStep
  <2>7. clean' => AllRead'
    BY <1>1, <1>2, <2>2, <2>3, TakesCurrent
  <2> QED BY <1>2, <2>5, <2>6, <2>7 DEF PromptInv, Heard
<1>17. CASE IsData(f) /\ Reacknowledged(b, m) /\ f.fcb # b.nextReadFCB
  <2>1. m.sent = <<Ack>> /\ m.up = <<>> /\ m.nextReadFCB = b.nextReadFCB
    BY <1>17 DEF Reacknowledged, Answered
  <2>2. /\ a.isRemoteReset
        /\ ~(a.nextWriteFCB <=> b.nextReadFCB)
    <3>1. a.isRemoteReset /\ a.nextWriteFCB \in BOOLEAN /\ b.nextReadFCB \in BOOLEAN
      BY <1>1, <1>15, <1>17, BitsTell
    <3>2. a.nextWriteFCB # b.nextReadFCB
      BY <1>15, <1>17
    <3> QED BY <3>1, <3>2, Zenon
  <2>3. Turns'
    BY <1>10, <1>11, <1>15, <1>17, <2>1
  <2>4. clean => Latest = Current
    BY <1>1, <2>2 DEF InStep
  <2>5. Truthful'
    BY <1>2, <1>9, <1>15, <1>17, <2>1, <2>4 DEF Truthful
  <2>6. clean' => InStep'
    BY <1>1, <1>2, <1>6, <1>9, <2>1 DEF InStep
  <2> QED BY <1>2, <1>9, <2>1, <2>3, <2>5, <2>6 DEF PromptInv, Heard
<1> QED BY <1>5, <1>12, <1>13, <1>14, <1>16, <1>17 DEF Receives
\* No number comes round: b misses no segment of a.
LEMMA PromptMissesFew ==
    ASSUME WholeInv, PromptInv, clean, PairNext
    PROVE  FewMissed
<1> SUFFICES ASSUME delivered' # delivered, rx.read # <<>>
             PROVE  Last(delivered') - Last(rx.read) <= TpduModulus
  BY DEF FewMissed
<1>1. PairInv /\ Turns /\ AllRead
  BY DEF WholeInv, PromptInv
<1>2. Elsewhere
  <2>1. Connect \/ Disconnect \/ SendPayload \/ AMoves => delivered' = delivered
    BY DEF Connect, Disconnect, SendPayload, AMoves, UnchangedB
  <2> QED BY <1>1, <2>1, PairCases
<1>3. /\ ab # <<>> /\ IsData(Head(ab)) /\ Head(ab).data \in Latest + 1 .. handed
      /\ delivered' = Append(delivered, Head(ab).data)
  BY <1>2 DEF Elsewhere
<1>4. Head(ab) = Question(a) /\ a.pri # "Idle"
  BY <1>1, <1>3, TurnsTaken
<1>5. a.pri \in Carrying /\ Head(ab).data = Current
  BY <1>1, <1>3, <1>4, QuestionKinds
<1>6. /\ delivered \in Seq(Nat) /\ handed \in Nat /\ Latest \in Nat /\ Current \in Nat
      /\ Latest < Current /\ Current <= handed /\ a.segments # <<>>
      /\ delivered' = Append(delivered, Current)
  <2>1. /\ delivered \in Seq(Nat) /\ handed \in Nat /\ Latest \in Nat /\ Current \in Nat
        /\ a.segments # <<>>
    BY <1>1, <1>5, BitsTell DEF PairInv
  <2> QED BY <1>3, <1>5, <2>1
<1>7. Last(delivered') = Current
  BY <1>6, LastDelivered
<1>8. Base \in Int /\ TpduModulus \in Nat \ {0}
  BY <1>6, PairAssumption, TransportAssumption DEF Base
<1>9. Current <= Latest + 1 /\ rx.read[Len(rx.read)] = Latest
  BY <1>1, <1>6, <1>8 DEF AllRead
<1>10. Last(rx.read) = Latest
  BY <1>9 DEF Last
<1> QED BY <1>6, <1>7, <1>8, <1>9, <1>10

\* A time-out, early or late, reports no success.
LEMMA TimeoutConfirmsNone ==
    ASSUME PairInv, TimeoutA
    PROVE  confirmed' = confirmed
<1> DEFINE m == ResponseTimeout(a)
<1>1. Quiet(a) /\ Sender(a) /\ a.rspTimer /\ StationA(m)
  BY DEF PairInv, Quiet, TimeoutA, StepA
<1>2. /\ Settled(m)
      /\ \/ ResetsLink(a, m) \/ Repeats(a, m) \/ Ends(a, m, FALSE)
         \/ ProbeEnds(a, m) /\ a.pri = "RequestLinkStatusWait"
  BY <1>1, TimeoutMoves
<1> HIDE DEF m
<1>3. /\ Passes(a, m) \/ Carries(a, m)
      /\ Sender(m) /\ a.nextWriteFCB \in BOOLEAN
  BY <1>2, EndsPass, BitsTell DEF Settled
<1>4. ~Ends(a, m, TRUE)
  <2>1. CASE ResetsLink(a, m) \/ Repeats(a, m) \/ Ends(a, m, FALSE)
    BY <1>1, <2>1, MovesDiffer
  <2>2. CASE a.pri = "RequestLinkStatusWait"
    BY <2>2 DEF Ends
  <2> QED BY <1>2, <2>1, <2>2
<1>5. m.results = <<>> \/ m.results = <<FALSE>>
  BY <1>1, <1>3, <1>4, MovesCount, Zenon
<1> QED BY <1>1, <1>5, ResultOf

\* Every step while every time-out came after all answers.
LEMMA PromptStep ==
    ASSUME WholeInv, PromptInv, TransportNext, PayloadSegments <= RxCapacity
    PROVE  /\ prompt' => WholeInv' /\ PromptInv'
           /\ clean => Heard
<1>1. PairNext /\ TransportReceive /\ PairInv
  BY DEF TransportNext, WholeInv
<1>2. WholeInv'
  <2>1. clean => FewMissed
    BY <1>1, PromptMissesFew
  <2> QED BY <2>1, WholeStep
<1>3. CASE Connect \/ Disconnect
  BY <1>1, <1>2, <1>3, ChannelPrompt
<1>4. CASE SendPayload
  <2>1. PairInv'
    BY <1>2 DEF WholeInv
  <2> QED BY <1>1, <1>2, <1>4, <2>1, SendPrompt
<1>5. CASE OnSendResultA \/ LoseA \/ LoseB \/ TransmitResultB
  BY <1>1, <1>2, <1>5, QuietPrompt
<1>6. CASE ReceiveB
  BY <1>1, <1>2, <1>6, ReceivePrompt
<1>7. ASSUME \E m, q : InTurn(m, q) PROVE PromptInv' /\ (clean => Heard)
  BY <1>1, <1>7, MovesPrompt
<1>8. CASE TransmitResultA \/ TransmitFailsA
  BY <1>2, <1>7, <1>8, TransmitPrompt
<1>9. CASE ReceiveA
  BY <1>2, <1>7, <1>9, AnswerPrompt
<1>10. CASE KeepAliveA
  BY <1>2, <1>7, <1>10, TimersPrompt
<1>11. CASE TimeoutA
  <2>1. CASE prompt'
    BY <1>2, <1>7, <1>11, <2>1, TimersPrompt
  <2>2. CASE ~prompt'
    <3>1. confirmed' = confirmed
      BY <1>1, <1>11, TimeoutConfirmsNone
    <3>2. Heard
      BY <3>1 DEF Heard
    <3> QED BY <2>2, <3>2
  <2> QED BY <2>1, <2>2
<1> QED BY <1>1, <1>3, <1>4, <1>5, <1>6, <1>8, <1>9, <1>10, <1>11 DEF PairNext

\* A time-out that came too early is not taken back.
LEMMA PromptWas ==
    ASSUME PairNext, prompt'
    PROVE  prompt
BY DEF PairNext, Connect, Disconnect, SendPayload, OnSendResultA, TransmitResultA,
       TransmitFailsA, TransmitResultB, ReceiveA, ReceiveB, LoseA, LoseB, TimeoutA, KeepAliveA

\* Stations and line in the first state.
LEMMA PromptBegins ==
    ASSUME TransportInit
    PROVE  PromptInv
<1>1. ab = <<>> /\ ba = <<>> /\ a = InitialLink(TRUE) /\ rx.read = <<>>
  BY DEF TransportInit, PairInit, InitialRx
<1>2. a.segments = <<>> /\ ~a.isRemoteReset
  BY <1>1 DEF InitialLink
<1> QED BY <1>1, <1>2 DEF PromptInv, Turns, TakeTurns, Truthful, InStep, AllRead

\* A stutter changes nothing of it.
LEMMA PromptStutters ==
    ASSUME WholeInv, PromptInv, UNCHANGED <<pairVars, transportVars>>
    PROVE  PromptInv' /\ Heard
<1>1. /\ a' = a /\ b' = b /\ ab' = ab /\ ba' = ba /\ handed' = handed /\ delivered' = delivered
      /\ confirmed' = confirmed /\ clean' = clean /\ rx' = rx /\ fragments' = fragments
  BY DEF pairVars, transportVars
<1>2. Latest' = Latest /\ Current' = Current /\ Base' = Base /\ Payload' = Payload
  BY <1>1, LatestTyped DEF WholeInv, PairInv, Current, Base, Payload
<1>3. Turns' /\ Truthful'
  BY <1>1, <1>2 DEF PromptInv, Turns, TakeTurns, Truthful
<1>4. clean' => InStep' /\ AllRead'
  BY <1>1, <1>2 DEF PromptInv, InStep, AllRead
<1> QED BY <1>1, <1>3, <1>4 DEF PromptInv, Heard

\* A payload that a's transport layer is told was sent has been handed up,
\* whole, by b's, while no payload failed in the session and every time-out
\* came after all answers, when a payload fits b's receive buffer: one that does
\* not is acknowledged segment by segment and then dropped.
THEOREM SentIsReceived ==
    ASSUME PayloadSegments <= RxCapacity
    PROVE  TransportSpec => SentMeansReceivedWhileClean
<1> DEFINE v == <<pairVars, transportVars>>
           Inv == prompt => WholeInv /\ PromptInv
           Received == prompt /\ clean => Heard
<1>1. TransportInit => Inv
  BY WholeBegins, PromptBegins
<1>2. Inv /\ [TransportNext]_v => Inv' /\ [Received]_v
  <2>1. SUFFICES ASSUME Inv, [TransportNext]_v PROVE Inv' /\ [Received]_v
    OBVIOUS
  <2>2. CASE TransportNext
    <3>1. prompt' => prompt
      BY <2>2, PromptWas DEF TransportNext
    <3>2. prompt => (prompt' => WholeInv' /\ PromptInv') /\ (clean => Heard)
      BY <2>1, <2>2, PromptStep
    <3> QED BY <3>1, <3>2
  <2>3. CASE UNCHANGED v
    <3>1. prompt' = prompt
      BY <2>3 DEF pairVars
    <3>2. prompt => WholeInv' /\ PromptInv'
      BY <2>1, <2>3, WholeStutters, PromptStutters
    <3> QED BY <2>3, <3>1, <3>2
  <2> QED BY <2>1, <2>2, <2>3
<1>3. [Received]_v
        => [prompt /\ clean =>
              \A s \in confirmed' \ confirmed :
                 \E i \in DOMAIN fragments' : s \in Range(fragments'[i])]_v
  BY DEF Heard
<1> QED BY <1>1, <1>2, <1>3, PTL DEF TransportSpec, SentMeansReceivedWhileClean
=============================================================================
