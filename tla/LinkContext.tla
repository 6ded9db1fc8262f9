---------------------------- MODULE LinkContext ----------------------------
(***************************************************************************)
(* One station of the DNP3 data link, as operators on its context l        *)
(* (cpp/libs/src/opendnp3/link/LinkContext.cpp, LinkContext.h,             *)
(* LinkLayer.cpp, PriLinkLayerStates.cpp, SecLinkLayerStates.cpp and .h).  *)
(*                                                                         *)
(* A frame is its function, its frame count bit and the segment it         *)
(* carries.  Addressing is left out: a frame reaches a station only when   *)
(* Validate accepts it.  The state of the primary and of the secondary     *)
(* station is named after its class, without the prefixes PLLS_ and SLLS_. *)
(***************************************************************************)
EXTENDS Integers, Sequences

CONSTANTS NumRetry,  \* LinkConfig::NumRetry
          NoFrame

ASSUME LinkAssumption == NumRetry \in Nat

PriTransmitWait == {"SendUnconfirmedTransmitWait", "LinkResetTransmitWait",
                    "ConfUserDataTransmitWait", "RequestLinkStatusTransmitWait"}
PriResponseWait == {"ResetLinkWait", "ConfDataWait", "RequestLinkStatusWait"}
PriStates == {"Idle"} \cup PriTransmitWait \cup PriResponseWait

SecTransmitWait == {"TransmitWaitReset", "TransmitWaitNotReset"}
SecStates == {"NotReset", "Reset"} \cup SecTransmitWait

Frame(func, fcb, data) == [func |-> func, fcb |-> fcb, data |-> data]

Ack               == Frame("SEC_ACK", FALSE, 0)
LinkStatus        == Frame("SEC_LINK_STATUS", FALSE, 0)
ResetLinks        == Frame("PRI_RESET_LINK_STATES", FALSE, 0)
RequestLinkStatus == Frame("PRI_REQUEST_LINK_STATUS", FALSE, 0)

InitialLink(useConfirms) ==
    [useConfirms  |-> useConfirms,  \* LinkConfig::UseConfirms
     isOnline     |-> FALSE,
     pri          |-> "Idle",
     sec          |-> "NotReset",
     txMode       |-> "Idle",
     pendingPri   |-> NoFrame,
     pendingSec   |-> NoFrame,
     segments     |-> <<>>,     \* what pSegments has left; empty when it is null
     numRetry     |-> 0,
     rspTimer     |-> FALSE,
     nextReadFCB  |-> FALSE,
     nextWriteFCB |-> FALSE,
     isRemoteReset    |-> FALSE,
     keepAliveTimeout |-> FALSE,
     overwrote    |-> FALSE,    \* a transmit buffer was formatted while in use
     sent         |-> <<>>,     \* frames given to the router by this entry point
     up           |-> <<>>,     \* segments pushed up by this entry point
     results      |-> <<>>]     \* send results posted by this entry point

----------------------------------------------------------------------------
(* Transmission.  One frame is with the router at a time; a frame of the   *)
(* other role waits.  Each role formats its frames in one buffer, which    *)
(* the router and the pending slot refer to.                               *)

BeginTransmit(l, f, mode) == [l EXCEPT !.txMode = mode, !.sent = Append(@, f)]

QueuePrimary(l, f) ==
    LET busy == l.txMode = "Primary" \/ l.pendingPri # NoFrame
        m    == [l EXCEPT !.overwrote = @ \/ busy]
    IN  IF l.txMode = "Idle" THEN BeginTransmit(m, f, "Primary")
                             ELSE [m EXCEPT !.pendingPri = f]

QueueSecondary(l, f) ==
    LET busy == l.txMode = "Secondary" \/ l.pendingSec # NoFrame
        m    == [l EXCEPT !.overwrote = @ \/ busy]
    IN  IF l.txMode = "Idle" THEN BeginTransmit(m, f, "Secondary")
                             ELSE [m EXCEPT !.pendingSec = f]

TryPendingSec(l) ==
    IF l.txMode = "Idle" /\ l.pendingSec # NoFrame
    THEN [BeginTransmit(l, l.pendingSec, "Secondary") EXCEPT !.pendingSec = NoFrame]
    ELSE l

TryPendingPri(l) ==
    IF l.txMode = "Idle" /\ l.pendingPri # NoFrame
    THEN [BeginTransmit(l, l.pendingPri, "Primary") EXCEPT !.pendingPri = NoFrame]
    ELSE l

\* QueueTransmit(FormatPrimaryBufferWith...(pSegments->GetSegment())).
SendSegment(l, confirmed) ==
    QueuePrimary(l, IF confirmed
                    THEN Frame("PRI_CONFIRMED_USER_DATA", l.nextWriteFCB, Head(l.segments))
                    ELSE Frame("PRI_UNCONFIRMED_USER_DATA", FALSE, Head(l.segments)))

Pri(l, state) == [l EXCEPT !.pri = state]
Sec(l, state) == [l EXCEPT !.sec = state]

\* Mutant of Retry: a retry is not counted.
RetryUncounted(l) == l

CanRetry(l) == l.numRetry > 0
Retry(l)    == [l EXCEPT !.numRetry = @ - 1]

ResetRetry(l)  == [l EXCEPT !.numRetry = NumRetry]
StartTimer(l)  == [l EXCEPT !.rspTimer = TRUE]
CancelTimer(l) == [l EXCEPT !.rspTimer = FALSE]

\* Mutants of CompleteSendOperation: the state is kept; no result is posted.
CompleteInPlace(l, success) ==
    [l EXCEPT !.segments = <<>>, !.results = Append(@, success)]
CompleteSilently(l, success) == Pri([l EXCEPT !.segments = <<>>], "Idle")

\* The result is posted: the upper layer hears of it in a later step.
CompleteSendOperation(l, success) ==
    Pri([l EXCEPT !.segments = <<>>, !.results = Append(@, success)], "Idle")

PushDataUp(l, data) == [l EXCEPT !.up = Append(@, data)]

----------------------------------------------------------------------------
(* The primary station.                                                    *)

TrySendRequestLinkStatus(l) ==
    IF l.pri = "Idle"
    THEN Pri(QueuePrimary([l EXCEPT !.keepAliveTimeout = FALSE], RequestLinkStatus),
             "RequestLinkStatusTransmitWait")
    ELSE l

TrySendUnconfirmed(l) ==
    IF l.pri = "Idle" THEN Pri(SendSegment(l, FALSE), "SendUnconfirmedTransmitWait") ELSE l

TrySendConfirmed(l) ==
    IF l.pri # "Idle" THEN l
    ELSE IF l.isRemoteReset
         THEN Pri(SendSegment(ResetRetry(l), TRUE), "ConfUserDataTransmitWait")
         ELSE Pri(QueuePrimary(ResetRetry(l), ResetLinks), "LinkResetTransmitWait")

TryStartTransmission(l) ==
    LET probed == IF l.keepAliveTimeout THEN TrySendRequestLinkStatus(l) ELSE l
    IN  IF probed.segments = <<>> THEN probed
        ELSE IF probed.useConfirms THEN TrySendConfirmed(probed) ELSE TrySendUnconfirmed(probed)

PriOnTransmitResult(l, success) ==
    CASE l.pri = "SendUnconfirmedTransmitWait" ->
           IF Len(l.segments) > 1
           THEN SendSegment([l EXCEPT !.segments = Tail(@)], FALSE)
           ELSE CompleteSendOperation(l, success)
      [] l.pri = "LinkResetTransmitWait" ->
           IF success THEN Pri(StartTimer(l), "ResetLinkWait") ELSE CompleteSendOperation(l, FALSE)
      [] l.pri = "ConfUserDataTransmitWait" ->
           IF success THEN Pri(StartTimer(l), "ConfDataWait") ELSE CompleteSendOperation(l, FALSE)
      [] l.pri = "RequestLinkStatusTransmitWait" ->
           IF success THEN Pri(StartTimer(l), "RequestLinkStatusWait") ELSE Pri(l, "Idle")
      [] OTHER -> l

\* Mutant of Fail: the timer is not cancelled.
FailTimed(l) == CompleteSendOperation(l, FALSE)

Fail(l) == CompleteSendOperation(CancelTimer(l), FALSE)

OnAck(l) ==
    CASE l.pri = "ResetLinkWait" ->
           Pri(SendSegment(CancelTimer([l EXCEPT !.isRemoteReset = TRUE, !.nextWriteFCB = TRUE]),
                           TRUE),
               "ConfUserDataTransmitWait")
      [] l.pri = "ConfDataWait" ->
           LET m == CancelTimer([l EXCEPT !.nextWriteFCB = ~@])
           IN  IF Len(m.segments) > 1
               THEN Pri(SendSegment([m EXCEPT !.segments = Tail(@)], TRUE), "ConfUserDataTransmitWait")
               ELSE CompleteSendOperation(m, TRUE)
      [] OTHER -> l

\* rxBuffFull is the DFC bit of the frame, here its fcb field.
OnNack(l, rxBuffFull) ==
    CASE l.pri = "ResetLinkWait" -> Fail(l)
      [] l.pri = "ConfDataWait" ->
           IF rxBuffFull THEN Fail(l)
           ELSE Pri(QueuePrimary(CancelTimer(ResetRetry(l)), ResetLinks), "LinkResetTransmitWait")
      [] l.pri = "RequestLinkStatusWait" -> Pri(CancelTimer(l), "Idle")
      [] OTHER -> l

\* LINK_STATUS and NOT_SUPPORTED: an answer to a keep-alive, and the end of
\* a send that waits for an ACK.
OnOtherResponse(l) ==
    CASE l.pri \in {"ResetLinkWait", "ConfDataWait"} -> Fail(l)
      [] l.pri = "RequestLinkStatusWait" -> Pri(CancelTimer(l), "Idle")
      [] OTHER -> l

PriOnTimeout(l) ==
    CASE l.pri = "ResetLinkWait" ->
           IF CanRetry(l) THEN Pri(QueuePrimary(Retry(l), ResetLinks), "LinkResetTransmitWait")
                          ELSE CompleteSendOperation(l, FALSE)
      [] l.pri = "ConfDataWait" ->
           IF CanRetry(l) THEN Pri(SendSegment(Retry(l), TRUE), "ConfUserDataTransmitWait")
                          ELSE CompleteSendOperation(l, FALSE)
      [] l.pri = "RequestLinkStatusWait" -> Pri(l, "Idle")
      [] OTHER -> l

----------------------------------------------------------------------------
(* The secondary station: in a TransmitWait state every frame is ignored.  *)

OnResetLinkStates(l) ==
    IF l.sec \in SecTransmitWait THEN l
    ELSE Sec([QueueSecondary(l, Ack) EXCEPT !.nextReadFCB = TRUE], "TransmitWaitReset")

\* Mutant of OnRequestLinkStatus: answered while another answer is under way.
OnRequestLinkStatusAnyTime(l) == Sec(QueueSecondary(l, LinkStatus), "TransmitWaitNotReset")

OnRequestLinkStatus(l) ==
    IF l.sec \in SecTransmitWait THEN l
    ELSE Sec(QueueSecondary(l, LinkStatus),
             IF l.sec = "Reset" THEN "TransmitWaitReset" ELSE "TransmitWaitNotReset")

OnTestLinkStatus(l, fcb) ==
    IF l.sec = "Reset" /\ l.nextReadFCB = fcb
    THEN Sec([QueueSecondary(l, Ack) EXCEPT !.nextReadFCB = ~@], "TransmitWaitReset")
    ELSE l

\* Mutant of OnConfirmedUserData: the frame count bit is not looked at.
OnConfirmedUserDataUnchecked(l, fcb, data) ==
    IF l.sec # "Reset" THEN l
    ELSE Sec(PushDataUp(QueueSecondary(l, Ack), data), "TransmitWaitReset")

OnConfirmedUserData(l, fcb, data) ==
    LET acked == QueueSecondary(l, Ack)
    IN  IF l.sec # "Reset" THEN l
        ELSE Sec(IF l.nextReadFCB = fcb
                 THEN PushDataUp([acked EXCEPT !.nextReadFCB = ~@], data)
                 ELSE acked, "TransmitWaitReset")

SecOnTransmitResult(l) ==
    CASE l.sec = "TransmitWaitReset"    -> Sec(l, "Reset")
      [] l.sec = "TransmitWaitNotReset" -> Sec(l, "NotReset")
      [] OTHER -> l

----------------------------------------------------------------------------
(* Entry points of LinkLayer.                                              *)

Fresh(l) == [l EXCEPT !.sent = <<>>, !.up = <<>>, !.results = <<>>]

LowerLayerUp(l) == [Fresh(l) EXCEPT !.isOnline = TRUE]

LowerLayerDown(l) ==
    CancelTimer([Fresh(l) EXCEPT !.isOnline         = FALSE,
                                 !.keepAliveTimeout = FALSE,
                                 !.isRemoteReset    = FALSE,
                                 !.segments         = <<>>,
                                 !.txMode           = "Idle",
                                 !.pendingPri       = NoFrame,
                                 !.pendingSec       = NoFrame,
                                 !.pri              = "Idle",
                                 !.sec              = "NotReset"])

\* SetTxSegment refuses segments while others are being sent.
Send(l, segments) ==
    IF l.isOnline /\ l.segments = <<>>
    THEN TryStartTransmission([Fresh(l) EXCEPT !.segments = segments])
    ELSE Fresh(l)

TransmitResult(l, success) ==
    LET idle == TryPendingPri(TryPendingSec([Fresh(l) EXCEPT !.txMode = "Idle"]))
    IN  IF l.txMode = "Idle" THEN Fresh(l)
        ELSE TryStartTransmission(IF l.txMode = "Primary" THEN PriOnTransmitResult(idle, success)
                                                          ELSE SecOnTransmitResult(idle))

Dispatch(l, f) ==
    CASE f.func = "SEC_ACK"                   -> OnAck(l)
      [] f.func = "SEC_NACK"                  -> OnNack(l, f.fcb)
      [] f.func = "SEC_LINK_STATUS"           -> OnOtherResponse(l)
      [] f.func = "SEC_NOT_SUPPORTED"         -> OnOtherResponse(l)
      [] f.func = "PRI_TEST_LINK_STATES"      -> OnTestLinkStatus(l, f.fcb)
      [] f.func = "PRI_RESET_LINK_STATES"     -> OnResetLinkStates(l)
      [] f.func = "PRI_REQUEST_LINK_STATUS"   -> OnRequestLinkStatus(l)
      [] f.func = "PRI_CONFIRMED_USER_DATA"   -> OnConfirmedUserData(l, f.fcb, f.data)
      [] f.func = "PRI_UNCONFIRMED_USER_DATA" -> PushDataUp(l, f.data)

OnFrame(l, f) == IF l.isOnline THEN TryStartTransmission(Dispatch(Fresh(l), f)) ELSE Fresh(l)

ResponseTimeout(l) == TryStartTransmission(PriOnTimeout(CancelTimer(Fresh(l))))

\* idle: nothing was received for the keep-alive interval.
KeepAliveTimeout(l, idle) ==
    TryStartTransmission(IF idle THEN [Fresh(l) EXCEPT !.keepAliveTimeout = TRUE] ELSE Fresh(l))
=============================================================================
