------------------------------ MODULE Channel ------------------------------
(***************************************************************************)
(* A channel, its stacks and the threads that use them.  The strand runs   *)
(* one handler at a time: a completion of the physical layer, a timer, or  *)
(* a request posted by a user's thread that waits for it.  One thread      *)
(* shuts the channel down in steps (DNP3Channel::Shutdown), between which  *)
(* anything else may run on the strand.                                    *)
(***************************************************************************)
EXTENDS ChannelContext, FiniteSets

CONSTANTS MaxCanceled   \* bound: cancelled timers not yet collected

ASSUME CanceledAssumption == MaxCanceled \in Nat

VARIABLES ch,        \* the channel, module ChannelContext
          stacks,    \* StackLifecycle::stacks, each named by its session
          deleting,  \* stacks whose deletion is posted to the strand
          phase      \* how far DNP3Channel::Shutdown has come

vars == <<ch, stacks, deleting, phase>>

Init ==
    /\ ch = InitialChannel
    /\ stacks = {}
    /\ deleting = {}
    /\ phase = "Running"

----------------------------------------------------------------------------
\* Completions of the physical layer, and timers.
OpenCallback ==
    /\ ch.isOpening
    /\ \E err \in BOOLEAN, talkers \in SUBSET Enabled(ch) : ch' = OnOpenCallback(ch, err, talkers)
    /\ UNCHANGED <<stacks, deleting, phase>>

ReadCallback ==
    /\ ch.isReading
    /\ \E err \in BOOLEAN, talkers \in SUBSET Enabled(ch) : ch' = OnReadCallback(ch, err, talkers)
    /\ UNCHANGED <<stacks, deleting, phase>>

WriteCallback ==
    /\ ch.isWriting
    /\ \E err \in BOOLEAN, talkers \in SUBSET ch.sending : ch' = OnWriteCallback(ch, err, talkers)
    /\ UNCHANGED <<stacks, deleting, phase>>

OpenTimer ==
    /\ ch.timer # 0
    /\ ch' = OnOpenTimerExpiration(ch)
    /\ UNCHANGED <<stacks, deleting, phase>>

\* ASIOExecutor::OnTimerCallback of a timer that was cancelled.
CanceledTimer ==
    /\ ch.canceled > 0
    /\ ch' = [ch EXCEPT !.canceled = @ - 1]
    /\ UNCHANGED <<stacks, deleting, phase>>

\* A session hands over a frame on its own account: a request or a timer.
SessionSends(s) ==
    /\ s \in ch.up \ ch.sending
    /\ Len(ch.transmitQueue) < MaxQueue
    /\ s \notin deleting
    /\ s \notin ch.removed
    /\ ch' = Talk(ch, s, {s})
    /\ UNCHANGED <<stacks, deleting, phase>>

----------------------------------------------------------------------------
\* Requests of the users' threads.
AddStack(s) ==
    /\ phase = "Running"
    /\ s \notin stacks \cup deleting \cup ch.removed
    /\ ch' = AddContext(ch, s)
    /\ stacks' = Bound(ch') \cup stacks
    /\ UNCHANGED <<deleting, phase>>

EnableRoute(s) ==
    /\ s \in stacks
    /\ \E talkers \in SUBSET {s} : ch' = Enable(ch, s, talkers)
    /\ UNCHANGED <<stacks, deleting, phase>>

DisableRoute(s) ==
    /\ s \in stacks
    /\ ch.canceled < MaxCanceled
    /\ ch' = Disable(ch, s)
    /\ UNCHANGED <<stacks, deleting, phase>>

\* StackLifecycle::Shutdown
ShutdownStack(s) ==
    /\ s \in stacks
    /\ phase \in {"Running", "Removing"}
    /\ ch' = RemoveContext(ch, s)
    /\ stacks' = stacks \ {s}
    /\ deleting' = deleting \cup {s}
    /\ UNCHANGED phase

DeleteStack(s) ==
    /\ s \in deleting
    /\ ch' = [ch EXCEPT !.removed = @ \cup {s}, !.up = @ \ {s}, !.sending = @ \ {s}]
    /\ deleting' = deleting \ {s}
    /\ UNCHANGED <<stacks, phase>>

\* DNP3Channel::Shutdown: StackLifecycle::ShutdownAll removes the stacks one
\* by one, then the router is shut down, then the timers are waited for.
BeginShutdown ==
    /\ phase = "Running"
    /\ phase' = "Removing"
    /\ UNCHANGED <<ch, stacks, deleting>>

InitiateShutdown ==
    /\ phase = "Removing"
    /\ stacks = {}
    /\ ch' = CheckForFinalShutdown(Shutdown([ch EXCEPT !.shutdownHandler = "Waiting"]))
    /\ phase' = "Stopping"
    /\ UNCHANGED <<stacks, deleting>>

WaitForShutdown ==
    /\ phase = "Stopping"
    /\ ch.shutdownHandler = "Set"
    /\ phase' = "Draining"
    /\ UNCHANGED <<ch, stacks, deleting>>

FinalPost ==
    /\ phase = "Draining"
    /\ ch.timer = 0 /\ ch.canceled = 0
    /\ deleting = {}
    /\ phase' = "Done"
    /\ UNCHANGED <<ch, stacks, deleting>>

Next ==
    \/ OpenCallback \/ ReadCallback \/ WriteCallback \/ OpenTimer \/ CanceledTimer
    \/ \E s \in Sessions : \/ SessionSends(s)
                           \/ AddStack(s)
                           \/ EnableRoute(s)
                           \/ DisableRoute(s)
                           \/ ShutdownStack(s)
                           \/ DeleteStack(s)
    \/ BeginShutdown \/ InitiateShutdown \/ WaitForShutdown \/ FinalPost

Spec == Init /\ [][Next]_vars

\* The operating system completes what was started, at the latest when the
\* layer is closed; a read of an open, silent line need not complete.  The
\* strand runs what is posted, and the thread that shuts down goes on.  Each
\* conjunct is the weak fairness of one action, spelled out: every step of the
\* action ends what enabled it (TLC evaluates this faster than WF).
Fairness ==
    /\ []<>(~ch.isOpening)                                \* OpenCallback
    /\ []<>(~(ch.isClosing /\ ch.isReading))              \* ReadCallback of a cancelled read
    /\ WF_vars(WriteCallback)
    /\ []<>(ch.canceled = 0) \/ []<><<ch'.canceled < ch.canceled>>_vars
    /\ []<>(deleting = {})                                \* DeleteStack
    /\ []<>(~(phase = "Removing"))                        \* ShutdownStack, InitiateShutdown
    /\ []<>(~(phase = "Stopping" /\ ch.shutdownHandler = "Set"))
    /\ []<>(~(phase = "Draining" /\ ch.timer = 0 /\ ch.canceled = 0 /\ deleting = {}))

FairSpec == Spec /\ Fairness

----------------------------------------------------------------------------
\* The asserts of PhysicalLayerMonitor.cpp:144, :153 and :163 and of
\* LinkLayerRouter.cpp:303 hold, and no step runs into one of the branches
\* that log an invalid operation or action for the state: monitor, physical
\* layer, router and sessions agree about what is under way.
NothingRefused == ch.refused = {}

\* As long as the last request was Start, which LinkLayerRouter::Enable made,
\* the channel is connected or on its way to be; after Suspend it comes to rest.
\* A session that is enabled is never left on a channel that was suspended.
ServesTheEnabled ==
    /\ Enabled(ch) # {} <=> ch.request = "Start"
    /\ ch.request = "Start" =>
            ch.state \in {"Opening", "OpeningClosing", "Open", "Closing", "Waiting"}
    /\ ch.request \in {"None", "Suspend"} =>
            ch.state \in {"Init", "OpeningSuspending", "Suspending", "Suspended"}

\* A frame a session handed over (LinkLayerRouter::BeginTransmit) is written,
\* behind the frames of the others, or the session is told that the layer went
\* down: the queue does not stall.
EveryFrameIsWritten ==
    \A s \in Sessions :
        s \in ch.sending ~> s \notin ch.sending \/ (ch.isWriting /\ Head(ch.transmitQueue) = s)

\* DNP3Channel::Shutdown returns, in whatever state it meets the channel.
ShutdownReturns == phase = "Removing" ~> phase = "Done"

Service == INSTANCE ChannelService WITH
    Clients <- Sessions,
    enabled <- Enabled(ch),
    link <- ch.isOnline,
    up <- ch.up \cap Bound(ch),
    finished <- ch.shutdownHandler = "Set"

\* The channel implements ChannelService: whatever the interleaving of
\* requests and completions, OnLowerLayerUp and OnLowerLayerDown tell every
\* enabled session the state of the connection and nobody else.
ImplementsService == Service!Spec
=============================================================================
