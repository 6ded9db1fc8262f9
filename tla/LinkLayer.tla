----------------------------- MODULE LinkLayer -----------------------------
(***************************************************************************)
(* One link layer between a transport layer that keeps the contract of     *)
(* ILowerLayer, a router that answers every frame, and a peer that may     *)
(* send any frame at any time (cpp/libs/src/opendnp3/link/LinkLayer.cpp,   *)
(* cpp/libs/src/opendnp3/transport/TransportLayer.cpp).                    *)
(***************************************************************************)
EXTENDS LinkContext

CONSTANT MaxSegments  \* bound: segments in one send operation

ASSUME SegmentsAssumption == MaxSegments \in Nat \ {0}

SecFunctions == {"SEC_ACK", "SEC_NACK", "SEC_LINK_STATUS", "SEC_NOT_SUPPORTED"}
PriFunctions == {"PRI_RESET_LINK_STATES", "PRI_TEST_LINK_STATES", "PRI_REQUEST_LINK_STATUS",
                 "PRI_CONFIRMED_USER_DATA", "PRI_UNCONFIRMED_USER_DATA"}

AnyFrame == [func : SecFunctions \cup PriFunctions, fcb : BOOLEAN, data : Nat]

ASSUME NoFrameAssumption == NoFrame \notin AnyFrame

PeerFrames == [func : SecFunctions \cup PriFunctions, fcb : BOOLEAN, data : {0}]

VARIABLES link,
          sending,  \* the transport layer waits for a send result
          posted    \* send results posted to the executor and not yet run

vars == <<link, sending, posted>>

Init ==
    /\ link \in {InitialLink(useConfirms) : useConfirms \in BOOLEAN}
    /\ sending = FALSE
    /\ posted = <<>>

\* The station does what the entry point computed.
Becomes(l) ==
    /\ link' = l
    /\ posted' = posted \o l.results

\* The executor runs what was posted before it brings the layer up again.
OnLowerLayerUp ==
    /\ ~link.isOnline
    /\ posted = <<>>
    /\ Becomes(LowerLayerUp(link))
    /\ UNCHANGED sending

OnLowerLayerDown ==
    /\ link.isOnline
    /\ Becomes(LowerLayerDown(link))
    /\ sending' = FALSE

\* The transport layer has one send operation at a time.
BeginSend(n) ==
    /\ link.isOnline
    /\ ~sending
    /\ Becomes(Send(link, [i \in 1 .. n |-> 0]))
    /\ sending' = TRUE

OnTransmitResult(success) ==
    /\ link.txMode # "Idle"
    /\ Becomes(TransmitResult(link, success))
    /\ UNCHANGED sending

Receive(f) ==
    /\ link.isOnline
    /\ Becomes(OnFrame(link, f))
    /\ UNCHANGED sending

OnResponseTimeout ==
    /\ link.rspTimer
    /\ Becomes(ResponseTimeout(link))
    /\ UNCHANGED sending

OnKeepAliveTimeout(idle) ==
    /\ link.isOnline
    /\ Becomes(KeepAliveTimeout(link, idle))
    /\ UNCHANGED sending

OnSendResult ==
    /\ posted # <<>>
    /\ posted' = Tail(posted)
    /\ sending' = FALSE
    /\ UNCHANGED link

Next ==
    \/ OnLowerLayerUp
    \/ OnLowerLayerDown
    \/ \E n \in 1 .. MaxSegments : BeginSend(n)
    \/ \E success \in BOOLEAN : OnTransmitResult(success)
    \/ \E f \in PeerFrames : Receive(f)
    \/ OnResponseTimeout
    \/ \E idle \in BOOLEAN : OnKeepAliveTimeout(idle)
    \/ OnSendResult

Spec == Init /\ [][Next]_vars

\* The router answers every frame, timers fire, posted results run; nothing
\* is asked of the peer.
Fairness ==
    /\ WF_vars(\E success \in BOOLEAN : OnTransmitResult(success))
    /\ WF_vars(OnResponseTimeout)
    /\ WF_vars(OnSendResult)

FairSpec == Spec /\ Fairness

----------------------------------------------------------------------------
LinkType == [useConfirms : BOOLEAN, isOnline : BOOLEAN, pri : PriStates,
             sec : SecStates, txMode : {"Idle", "Primary", "Secondary"},
             pendingPri : AnyFrame \cup {NoFrame}, pendingSec : AnyFrame \cup {NoFrame},
             segments : Seq(Nat), numRetry : Nat, rspTimer : BOOLEAN,
             nextReadFCB : BOOLEAN, nextWriteFCB : BOOLEAN, isRemoteReset : BOOLEAN,
             keepAliveTimeout : BOOLEAN, overwrote : BOOLEAN,
             sent : Seq(AnyFrame), up : Seq(Nat), results : Seq(BOOLEAN)]

\* The shape of the station, and of the executor's queue.
TypeOK ==
    /\ link \in LinkType
    /\ sending \in BOOLEAN
    /\ posted \in Seq(BOOLEAN)

\* In the states whose handlers dereference pSegments it is not null.
SegmentsPresent ==
    link.pri \notin {"Idle", "RequestLinkStatusTransmitWait", "RequestLinkStatusWait"}
        => link.segments # <<>>

\* The response timer runs exactly while a response is awaited: it neither
\* fires into a state without OnTimeout nor fails to end a wait.
TimerIffWaiting == link.rspTimer <=> link.pri \in PriResponseWait

\* A station role is in a transmit-wait state exactly while a frame of that
\* role is with the router or pending, so that each transmit result finds
\* the state that waits for it.
TransmitWaitIffQueued ==
    /\ link.pri \in PriTransmitWait <=> (link.txMode = "Primary" \/ link.pendingPri # NoFrame)
    /\ link.sec \in SecTransmitWait <=> (link.txMode = "Secondary" \/ link.pendingSec # NoFrame)

\* priTxBuffer and secTxBuffer are never formatted while the frame in them is
\* still being written or waits for the router.
BuffersNotOverwritten == ~link.overwrote

\* LayerInterfaces.h: "Layers can only have 1 outstanding send operation. The
\* callback is guaranteed": while the transport layer waits, either the link
\* still has its segments or exactly one result is on its way.
OneResultPerSend ==
    link.isOnline => /\ sending <=> (link.segments # <<>> \/ posted # <<>>)
                     /\ link.segments # <<>> => posted = <<>>
                     /\ Len(posted) <= 1

\* LayerInterfaces.h: "The callback is guaranteed unless the the
\* OnLowerLayerDown() function is called beforehand": when the peer falls
\* silent, at whatever moment, time-outs and the retries they are worth bring
\* the transport layer its result.  A keep-alive goes before data, so its
\* timer must not fire for ever in the meantime.
SendEnds ==
    \/ sending ~> ~sending
    \/ []<><<\E f \in PeerFrames : Receive(f)>>_vars
    \/ []<><<\E idle \in BOOLEAN : OnKeepAliveTimeout(idle)>>_vars
=============================================================================
