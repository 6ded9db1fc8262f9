--------------------------- MODULE ChannelContext ---------------------------
(***************************************************************************)
(* The call tree of one channel: the physical layer (PhysicalLayerBase),   *)
(* the monitor that keeps it open (PhysicalLayerMonitor and its states)    *)
(* and the router that shares it between link sessions (LinkLayerRouter).  *)
(* All of it runs on the channel's strand, so every callback and request   *)
(* is one function of the channel c.  Of a session only what the router    *)
(* sees is kept: whether it was told that the layer is up, and whether it  *)
(* waits for the result of a frame.                                        *)
(***************************************************************************)
EXTENDS Naturals, Sequences, SequencesExt

CONSTANTS Sessions,   \* the link sessions of the stacks of this channel
          Route,      \* the route (source and destination) of each session
          MinRetry,   \* ChannelRetry::minOpenRetry
          MaxRetry,   \* ChannelRetry::maxOpenRetry
          MaxQueue    \* bound: frames queued by sessions of their own accord

ASSUME ChannelAssumption ==
    /\ DOMAIN Route = Sessions
    /\ MinRetry \in Nat \ {0}
    /\ MaxRetry \in Nat
    /\ MinRetry <= MaxRetry
    /\ MaxQueue \in Nat

\* refused collects the assertions that failed and the operations that were
\* logged as invalid for the state they met; canceled counts the timers whose
\* cancelled callback the executor has yet to run.
InitialChannel ==
    [state |-> "Init", timer |-> 0, canceled |-> 0, isOnline |-> FALSE, currentRetry |-> MinRetry,
     isOpen |-> FALSE, isOpening |-> FALSE, isReading |-> FALSE, isWriting |-> FALSE,
     isClosing |-> FALSE,
     records |-> <<>>, transmitQueue |-> <<>>, isTransmitting |-> FALSE,
     up |-> {}, sending |-> {}, removed |-> {},
     request |-> "None", shutdownHandler |-> "None", refused |-> {}]

Refuse(c, what) == [c EXCEPT !.refused = @ \cup {what}]

Enabled(c) == {r.pContext : r \in {r \in Range(c.records) : r.enabled}}
Bound(c) == {r.pContext : r \in Range(c.records)}

\* IMonitorState::GetState
GetState(c) ==
    CASE c.state = "Shutdown" -> "SHUTDOWN"
      [] c.state \in {"Opening", "OpeningClosing", "OpeningSuspending", "OpeningStopping"} ->
            "OPENING"
      [] c.state = "Open" -> "OPEN"
      [] c.state = "Waiting" -> "WAITING"
      [] OTHER -> "CLOSED"

CheckForFinalShutdown(c) ==
    IF c.shutdownHandler # "None" /\ GetState(c) = "SHUTDOWN"
    THEN [c EXCEPT !.shutdownHandler = "Set"] ELSE c

ChangeState(c, state) == CheckForFinalShutdown([c EXCEPT !.state = state])

StartOpenTimer(c) ==
    IF c.timer = 0 THEN [c EXCEPT !.timer = c.currentRetry] ELSE Refuse(c, "StartOpenTimer")

CancelOpenTimer(c) ==
    IF c.timer # 0 THEN [c EXCEPT !.timer = 0, !.canceled = @ + 1] ELSE Refuse(c, "CancelOpenTimer")

----------------------------------------------------------------------------
\* ILinkSession as the router uses it.
SessionUp(c, s) ==
    IF s \in c.up THEN Refuse(c, "OnLowerLayerUp") ELSE [c EXCEPT !.up = @ \cup {s}]

SessionDown(c, s) ==
    IF s \in c.up THEN [c EXCEPT !.up = @ \ {s}, !.sending = @ \ {s}]
                  ELSE Refuse(c, "OnLowerLayerDown")

CanWrite(c) == c.isOpen /\ ~c.isClosing /\ ~c.isWriting
CanRead(c) == c.isOpen /\ ~c.isClosing /\ ~c.isReading

BeginWrite(c) == IF CanWrite(c) THEN [c EXCEPT !.isWriting = TRUE] ELSE Refuse(c, "BeginWrite")
BeginRead(c) == IF CanRead(c) THEN [c EXCEPT !.isReading = TRUE] ELSE c

CheckForSend(c) ==
    IF c.transmitQueue # <<>> /\ ~c.isTransmitting /\ CanWrite(c)
    THEN BeginWrite([c EXCEPT !.isTransmitting = TRUE]) ELSE c

BeginTransmit(c, s) ==
    IF c.isOnline THEN CheckForSend([c EXCEPT !.transmitQueue = Append(@, s)])
                  ELSE Refuse(c, "BeginTransmit")

\* A session that is told something may hand over a frame at once, if it is up
\* and has none under way: talkers are the sessions that want to.
Talk(c, s, talkers) ==
    IF s \in talkers /\ s \in c.up \ c.sending /\ Len(c.transmitQueue) < MaxQueue
    THEN BeginTransmit([c EXCEPT !.sending = @ \cup {s}], s) ELSE c

\* LinkLayerRouter::OnPhysicalLayerOpenSuccessCallback
OpenSuccessCallback(c, talkers) ==
    FoldLeft(LAMBDA d, r : IF r.enabled
                           THEN Talk(SessionUp(d, r.pContext), r.pContext, talkers) ELSE d,
             BeginRead(c), c.records)

\* LinkLayerRouter::OnPhysicalLayerCloseCallback
CloseCallback(c) ==
    FoldLeft(LAMBDA d, r : IF r.enabled THEN SessionDown(d, r.pContext) ELSE d,
             [c EXCEPT !.isTransmitting = FALSE, !.transmitQueue = <<>>], c.records)

----------------------------------------------------------------------------
\* The states' answers to what the physical layer reports; a state that a
\* table does not name logs "Invalid action for state".
LayerCloseNext ==
    [Open |-> "Waiting", Closing |-> "Waiting",
     Suspending |-> "Suspended", ShutingDown |-> "Shutdown"]

\* Mutant of OpenFailureNext: a suspended channel tries to open again.
OpenFailureRetries ==
    [Opening |-> "Waiting", OpeningClosing |-> "Waiting",
     OpeningSuspending |-> "Waiting", OpeningStopping |-> "Shutdown"]

OpenFailureNext ==
    [Opening |-> "Waiting", OpeningClosing |-> "Waiting",
     OpeningSuspending |-> "Suspended", OpeningStopping |-> "Shutdown"]

LayerOpenNext == [Opening |-> "Open"]

OpenTimeoutNext == [Waiting |-> "Opening"]

\* PhysicalLayerMonitor::OnLowerLayerDown
OnLowerLayerDown(c) ==
    IF c.state \in DOMAIN LayerCloseNext
    THEN LET d == ChangeState(c, LayerCloseNext[c.state])
             e == IF d.state = "Waiting" THEN StartOpenTimer(d) ELSE d
         IN  CloseCallback([e EXCEPT !.isOnline = FALSE])
    ELSE Refuse(c, "OnLayerClose")

\* PhysicalLayerMonitor::OnLowerLayerUp
OnLowerLayerUp(c, talkers) ==
    IF c.state \in DOMAIN LayerOpenNext
    THEN OpenSuccessCallback([ChangeState(c, LayerOpenNext[c.state])
                                EXCEPT !.isOnline = TRUE, !.currentRetry = MinRetry], talkers)
    ELSE Refuse(c, "OnLayerOpen")

\* ExponentialBackoffStrategy::GetNextDelay
GetNextDelay(current) == IF 2 * current > MaxRetry THEN MaxRetry ELSE 2 * current

\* PhysicalLayerMonitor::OnOpenFailure
OnOpenFailure(c) ==
    IF c.state \in DOMAIN OpenFailureNext
    THEN LET d == ChangeState(c, OpenFailureNext[c.state])
             e == IF d.state = "Waiting" THEN StartOpenTimer(d) ELSE d
         IN  [e EXCEPT !.currentRetry = GetNextDelay(@)]
    ELSE Refuse(c, "OnOpenFailure")

----------------------------------------------------------------------------
\* The physical layer.  Its completion handlers always come later, from the
\* io_service, never from inside the call that starts the operation.
CallbacksPending(c) == c.isOpening \/ c.isReading \/ c.isWriting

IsClosed(c) == ~(c.isOpen \/ c.isClosing \/ CallbacksPending(c))

BeginOpen(c) == IF IsClosed(c) THEN [c EXCEPT !.isOpening = TRUE] ELSE Refuse(c, "BeginOpen")

StartClose(c) ==
    CASE c.isClosing -> c
      [] ~c.isClosing /\ (c.isOpen \/ c.isOpening) -> [c EXCEPT !.isClosing = TRUE]
      [] OTHER -> Refuse(c, "StartClose")

\* PhysicalLayerBase::State::CheckForClose, and the layer above told of it.
Closable(c) == c.isClosing /\ ~CallbacksPending(c)
CloseState(c) == IF Closable(c) THEN [c EXCEPT !.isClosing = FALSE, !.isOpen = FALSE] ELSE c
CheckForClose(c) == IF Closable(c) THEN OnLowerLayerDown(CloseState(c)) ELSE c

\* Mutant of BeginClose: an open that is under way is not closed.
BeginCloseOpenOnly(c) == IF c.isOpening THEN c ELSE CheckForClose(StartClose(c))

BeginClose(c) == CheckForClose(StartClose(c))

\* PhysicalLayerBase::OnOpenCallback
OnOpenCallback(c, err, talkers) ==
    LET d == [c EXCEPT !.isOpening = FALSE]
    IN  IF err \/ d.isClosing
        THEN OnOpenFailure(CloseState(d))
        ELSE OnLowerLayerUp([d EXCEPT !.isOpen = TRUE], talkers)

\* LinkLayerRouter::OnReceive: the frames that were read reach the sessions of
\* the enabled routes, which may answer.
OnReceive(c, talkers) ==
    BeginRead(FoldLeft(LAMBDA d, r : IF r.enabled THEN Talk(d, r.pContext, talkers) ELSE d,
                       c, c.records))

\* PhysicalLayerBase::OnReadCallback
OnReadCallback(c, err, talkers) ==
    LET d == [c EXCEPT !.isReading = FALSE]
    IN  CheckForClose(CASE err -> IF d.isClosing THEN d ELSE StartClose(d)
                        [] ~err /\ ~d.isClosing -> OnReceive(d, talkers)
                        [] OTHER -> d)

\* ILinkSession::OnTransmitResult; the router does not ask whether the stack
\* of the session is gone, and what such a call does is not modelled.
OnTransmitResult(c, s, talkers) ==
    IF s \in c.removed
    THEN c
    ELSE Talk([c EXCEPT !.sending = @ \ {s}], s, talkers)

\* Mutant of OnSendResult: the next frame is left to the next caller.
OnSendResultOnce(c, talkers) ==
    OnTransmitResult([c EXCEPT !.isTransmitting = FALSE, !.transmitQueue = Tail(@)],
                     Head(c.transmitQueue), talkers)

\* LinkLayerRouter::OnSendResult
OnSendResult(c, talkers) ==
    IF c.transmitQueue # <<>> /\ c.isTransmitting
    THEN CheckForSend(
            OnTransmitResult([c EXCEPT !.isTransmitting = FALSE, !.transmitQueue = Tail(@)],
                             Head(c.transmitQueue), talkers))
    ELSE Refuse(c, "OnSendResult")

\* PhysicalLayerBase::OnWriteCallback
OnWriteCallback(c, err, talkers) ==
    LET d == [c EXCEPT !.isWriting = FALSE]
    IN  CheckForClose(CASE err -> IF d.isClosing THEN d ELSE StartClose(d)
                        [] ~err /\ ~d.isClosing -> OnSendResult(d, talkers)
                        [] OTHER -> d)

----------------------------------------------------------------------------
\* The requests: per state the next one and what is done; a state that a table
\* does not name ignores the request.
StartNext ==
    [Init |-> <<"Opening", "Open">>, Suspended |-> <<"Opening", "Open">>,
     OpeningSuspending |-> <<"OpeningClosing", "None">>, Suspending |-> <<"Closing", "None">>]

SuspendNext ==
    [Opening |-> <<"OpeningSuspending", "Close">>,
     OpeningClosing |-> <<"OpeningSuspending", "None">>,
     Open |-> <<"Suspending", "Close">>, Closing |-> <<"Suspending", "None">>,
     Waiting |-> <<"Suspended", "CancelTimer">>]

\* Mutant of ShutdownNext: the request is dropped while the layer closes.
ShutdownDropped ==
    [Init |-> <<"Shutdown", "None">>, Suspended |-> <<"Shutdown", "None">>,
     Opening |-> <<"OpeningStopping", "Close">>,
     OpeningClosing |-> <<"OpeningStopping", "None">>,
     OpeningSuspending |-> <<"OpeningStopping", "None">>,
     Open |-> <<"ShutingDown", "Close">>, Closing |-> <<"ShutingDown", "None">>,
     Waiting |-> <<"Shutdown", "CancelTimer">>]

ShutdownNext ==
    [Init |-> <<"Shutdown", "None">>, Suspended |-> <<"Shutdown", "None">>,
     Opening |-> <<"OpeningStopping", "Close">>,
     OpeningClosing |-> <<"OpeningStopping", "None">>,
     OpeningSuspending |-> <<"OpeningStopping", "None">>,
     Open |-> <<"ShutingDown", "Close">>, Closing |-> <<"ShutingDown", "None">>,
     Suspending |-> <<"ShutingDown", "None">>,
     Waiting |-> <<"Shutdown", "CancelTimer">>]

MonitorDo(c, what) ==
    CASE what = "Open" -> BeginOpen(c)
      [] what = "Close" -> BeginClose(c)
      [] what = "CancelTimer" -> CancelOpenTimer(c)
      [] what = "None" -> c

Request(c, table) ==
    IF c.state \in DOMAIN table
    THEN MonitorDo(ChangeState(c, table[c.state][1]), table[c.state][2]) ELSE c

Start(c) == Request([c EXCEPT !.request = "Start"], StartNext)
Suspend(c) == Request([c EXCEPT !.request = "Suspend"], SuspendNext)
Shutdown(c) == Request([c EXCEPT !.request = "Shutdown"], ShutdownNext)

\* PhysicalLayerMonitor::OnOpenTimerExpiration
OnOpenTimerExpiration(c) ==
    IF c.state \in DOMAIN OpenTimeoutNext
    THEN LET d == ChangeState(BeginOpen(c), OpenTimeoutNext[c.state])
         IN  IF d.timer # 0 THEN [d EXCEPT !.timer = 0] ELSE Refuse(d, "OnOpenTimerExpiration")
    ELSE Refuse(c, "OnOpenTimeout")

----------------------------------------------------------------------------
\* The router's operations for the stacks.
AddContext(c, s) ==
    IF Route[s] \in {Route[x] : x \in Bound(c)} THEN c
    ELSE [c EXCEPT !.records = Append(@, [pContext |-> s, enabled |-> FALSE])]

SetEnabled(c, s, enabled) ==
    [c EXCEPT !.records = [i \in DOMAIN @ |->
        IF @[i].pContext = s THEN [@[i] EXCEPT !.enabled = enabled] ELSE @[i]]]

Enable(c, s, talkers) ==
    LET d == SetEnabled(c, s, TRUE)
    IN  CASE s \notin Bound(c) \/ s \in Enabled(c) -> c
          [] OTHER -> Start(IF c.isOnline THEN Talk(SessionUp(d, s), s, talkers) ELSE d)

SuspendIfUnused(c) == IF Enabled(c) = {} THEN Suspend(c) ELSE c

\* Mutant of Disable: the session is told only if the channel is open, not
\* while it closes.
DisableIfOpen(c, s) ==
    LET d == SetEnabled(c, s, FALSE)
    IN  IF s \in Enabled(c)
        THEN SuspendIfUnused(IF GetState(c) = "OPEN" THEN SessionDown(d, s) ELSE d)
        ELSE c

Disable(c, s) ==
    LET d == SetEnabled(c, s, FALSE)
    IN  IF s \in Enabled(c)
        THEN SuspendIfUnused(IF c.isOnline THEN SessionDown(d, s) ELSE d)
        ELSE c

RemoveContext(c, s) ==
    LET d == IF GetState(c) = "OPEN" /\ s \in Enabled(c) THEN SessionDown(c, s) ELSE c
    IN  IF s \in Bound(c)
        THEN SuspendIfUnused([d EXCEPT !.records =
                RemoveFirst(@, [pContext |-> s, enabled |-> s \in Enabled(c)])])
        ELSE c
=============================================================================
