----------------------------- MODULE Outstation -----------------------------
(***************************************************************************)
(* The outstation application layer: OContext with its solicited and       *)
(* unsolicited response channels, the confirm timer they share, the        *)
(* one-request deferral slot and the request history                       *)
(* (cpp/libs/src/opendnp3/outstation/OutstationContext.cpp and the classes *)
(* it owns).  Every entry point runs to completion on the stack's strand,  *)
(* so an action is one entry point: what it calls, in the code's order, is *)
(* a composition of operators on the context value c.                      *)
(*                                                                         *)
(* A request is [function, seq, uns, objects] and its objects say what the *)
(* parser makes of the payload: whether it is well formed, the classes it  *)
(* names, the static data it asks for in units of fragment space, and the  *)
(* command it carries with the application's verdict on it.  The digests   *)
(* that RequestHistory and ControlState keep of a payload are the payload. *)
(***************************************************************************)
EXTENDS EventBuffer, SequencesExt

CONSTANTS Requests,          \* the requests the master may send, CONFIRM excepted
          AllowUnsolicited,  \* OutstationParams::allowUnsolicited
          UnsolClassMask,    \* OutstationParams::unsolClassMask at startup
          SeqModulus,        \* application sequence numbers (16 in the code)
          Capacity,          \* items that fit in one fragment
          SelectTimeout,     \* ticks an OPERATE may follow its SELECT by
          MaxEvents,         \* bound: events produced in a behaviour
          MaxTransaction,    \* bound: events produced in one transaction
          None

Seqs == 0 .. SeqModulus - 1

Fragments == [uns : BOOLEAN, to : Requests \cup {None}, seq : Seqs, fir : BOOLEAN,
              fin : BOOLEAN, con : BOOLEAN, events : SUBSET SOERecord]

NoObjects == [valid |-> TRUE, classes |-> {}, static |-> 0, command |-> None, accepted |-> FALSE]

Confirms == {[function |-> "CONFIRM", seq |-> s, uns |-> u, objects |-> NoObjects] :
                s \in Seqs, u \in BOOLEAN}

ASSUME OutstationAssumption ==
    /\ SeqModulus \in Nat \ {0, 1}
    /\ Capacity \in Nat \ {0}
    /\ SelectTimeout \in Nat
    /\ MaxEvents \in Nat
    /\ MaxTransaction \in Nat
    /\ AllowUnsolicited \in BOOLEAN
    /\ UnsolClassMask \subseteq EventClass
    /\ \A r \in Requests : /\ r.function # "CONFIRM" /\ r.seq \in Seqs
                          /\ r.objects.classes \subseteq EventClass /\ r.objects.static \in Nat
    /\ None \notin Requests \cup Confirms \cup Fragments

IsNoAckFuncCode(f) ==
    f \in {"DIRECT_OPERATE_NR", "IMMED_FREEZE_NR", "FREEZE_AT_TIME_NR", "FREEZE_CLEAR_NR"}

IncrSeq(s) == (s + 1) % SeqModulus

VARIABLES ctx,      \* the OContext
          nextId,   \* position of the next event in the SOE list
          heard,    \* per channel, the latest fragment, which the master may confirm
          acked,    \* the events whose fragment the master confirmed
          greeted,  \* the master confirmed a null unsolicited response this session
          attempt   \* the request the master is repeating, and how often it ran

vars == <<ctx, nextId, heard, acked, greeted, attempt>>

InitialContext ==
    [isOnline      |-> FALSE,  isTransmitting |-> FALSE,
     sol           |-> "Idle", solNum         |-> 0, solConfirm   |-> 0, solTx |-> None,
     unsol         |-> "Idle", unsolNum       |-> 0, unsolConfirm |-> 0,
     completedNull |-> FALSE,  timer          |-> "none",
     history       |-> None,   deferred       |-> None,
     restart       |-> TRUE,   mask           |-> UnsolClassMask,
     control       |-> None,   static         |-> 0, firstFragment |-> TRUE,
     buffer        |-> EmptyBuffer,
     lower         |-> <<>>,   \* fragments handed down and not yet answered
     ran           |-> <<>>]   \* requests carried out by the current entry point

Init ==
    /\ ctx = InitialContext
    /\ nextId = 1
    /\ heard = [sol |-> None, unsol |-> None]
    /\ acked = {}
    /\ greeted = FALSE
    /\ attempt = [request |-> None, times |-> 0]

\* Mutant of CanTransmit: the transmission under way is forgotten.
CanTransmitOnline(c) == c.isOnline

CanTransmit(c) == c.isOnline /\ ~c.isTransmitting

----------------------------------------------------------------------------
(* The confirm timer is one TimerRef: Start does nothing while it runs.    *)

StartTimer(c, who) == [c EXCEPT !.timer = IF @ = "none" THEN who ELSE @]
CancelTimer(c)     == [c EXCEPT !.timer = "none"]

(* Transmission.  Every response asks IsOverflown() for its IIN.           *)

BeginTx(c, f) ==
    [c EXCEPT !.isTransmitting = TRUE, !.lower = Append(@, f)]

\* Mutant of BeginResponseTx: the fragment is not kept for a repeat.
BeginResponseTxUnkept(c, f) == BeginTx(c, f)

BeginResponseTx(c, f) == BeginTx([c EXCEPT !.solTx = f], f)

BeginUnsolTx(c, f) ==
    BeginTx([c EXCEPT !.unsolConfirm = c.unsolNum, !.unsolNum = IncrSeq(@)], f)

GetResponseIIN(c) == [c EXCEPT !.buffer = CheckOverflow(@)]

SolFragment(r, seq, fir, fin, con, events) ==
    [uns |-> FALSE, to |-> r, seq |-> seq, fir |-> fir, fin |-> fin, con |-> con, events |-> events]

UnsolFragment(seq, events) ==
    [uns |-> TRUE, to |-> None, seq |-> seq, fir |-> TRUE, fin |-> TRUE, con |-> TRUE,
     events |-> events]

----------------------------------------------------------------------------
(* READ: select, then load events first and static data into what is left. *)

\* ResponseContext::LoadResponse and the bookkeeping of its two callers.
SendFragment(c, r, seq) ==
    LET loaded  == Load(c.buffer, Capacity)
        events  == loaded.written \ c.buffer.written
        notFull == Writable(loaded) = {}
        left    == IF notFull THEN c.static - Smaller(c.static, Capacity - Cardinality(events))
                              ELSE c.static
        fin     == notFull /\ left = 0
        con     == ~fin \/ events # {}
        f       == SolFragment(r, seq, c.firstFragment, fin, con, events)
        sent    == BeginResponseTx(
                     GetResponseIIN([c EXCEPT !.buffer        = loaded,
                                              !.static        = left,
                                              !.firstFragment = FALSE,
                                              !.solConfirm    = seq]), f)
    IN  IF con THEN StartTimer([sent EXCEPT !.sol = "ConfirmWait"], "sol")
               ELSE [sent EXCEPT !.sol = "Idle"]

\* Mutant of ContinueMultiFragResponse: each fragment has the request's number.
ContinueUnnumbered(c, seq) == SendFragment(c, c.solTx.to, c.solTx.to.seq)

ContinueMultiFragResponse(c, seq) == SendFragment(c, c.solTx.to, seq)

RespondToReadRequest(c, r) ==
    LET start == [c EXCEPT !.history = r, !.firstFragment = TRUE,
                           !.buffer = Unselect(@), !.static = 0]
    IN  IF r.objects.valid
        THEN SendFragment([start EXCEPT !.buffer = SelectAllByClass(@, r.objects.classes),
                                        !.static = r.objects.static], r, r.seq)
        ELSE [BeginResponseTx(GetResponseIIN([start EXCEPT !.solConfirm = r.seq]),
                              SolFragment(r, r.seq, TRUE, TRUE, FALSE, {}))
                 EXCEPT !.sol = "Idle"]

----------------------------------------------------------------------------
(* Everything else: HandleNonReadResponse.                                 *)

ValidateSelection(c, objects) ==
    /\ c.control # None
    /\ c.control.expectedSeq = c.solNum
    /\ c.control.elapsed < SelectTimeout
    /\ c.control.objects = objects

\* The application is called with the request.
CarryOut(c, r) == [c EXCEPT !.ran = Append(@, r)]

\* A write of the time, if the application takes it, or of the restart bit.
HandleWrite(c, r) ==
    IF r.objects.command = "DEVICE_RESTART" THEN [CarryOut(c, r) EXCEPT !.restart = FALSE]
    ELSE IF r.objects.accepted THEN CarryOut(c, r) ELSE c

HandleDirectOperate(c, r) == CarryOut(c, r)

HandleSelect(c, r) ==
    IF r.objects.accepted
    THEN [CarryOut(c, r) EXCEPT !.control = [expectedSeq |-> IncrSeq(c.solNum),
                                             elapsed     |-> 0,
                                             objects     |-> r.objects]]
    ELSE CarryOut(c, r)

\* A selection is validated and not consumed.
HandleOperate(c, r) == IF ValidateSelection(c, r.objects) THEN CarryOut(c, r) ELSE c

HandleRestart(c, r) == IF r.objects.accepted THEN CarryOut(c, r) ELSE c

\* The class of later events is open in Update, so nothing is kept here.
HandleAssignClass(c, r) == IF r.objects.accepted THEN CarryOut(c, r) ELSE c

HandleDisableUnsolicited(c, r) == [CarryOut(c, r) EXCEPT !.mask = @ \ r.objects.classes]
HandleEnableUnsolicited(c, r)  == [CarryOut(c, r) EXCEPT !.mask = @ \cup r.objects.classes]

\* A payload that is malformed or does not fit reaches no handler; the
\* functions not listed answer without a change of state.
HandleNonReadResponse(c, r) ==
    IF ~r.objects.valid THEN c
    ELSE CASE r.function = "WRITE"          -> HandleWrite(c, r)
           [] r.function = "SELECT"         -> HandleSelect(c, r)
           [] r.function = "OPERATE"        -> HandleOperate(c, r)
           [] r.function = "DIRECT_OPERATE" -> HandleDirectOperate(c, r)
           [] r.function \in {"COLD_RESTART", "WARM_RESTART"} -> HandleRestart(c, r)
           [] r.function = "ASSIGN_CLASS"   -> HandleAssignClass(c, r)
           [] r.function = "DISABLE_UNSOLICITED" /\ AllowUnsolicited
                -> HandleDisableUnsolicited(c, r)
           [] r.function = "ENABLE_UNSOLICITED" /\ AllowUnsolicited
                -> HandleEnableUnsolicited(c, r)
           [] OTHER -> c

RespondToNonReadRequest(c, r) ==
    LET handled == HandleNonReadResponse([c EXCEPT !.history = r], r)
    IN  [BeginResponseTx(GetResponseIIN(handled), SolFragment(r, r.seq, TRUE, TRUE, FALSE, {}))
            EXCEPT !.sol = "Idle"]

ProcessRequestNoAck(c, r) ==
    IF r.function = "DIRECT_OPERATE_NR" /\ r.objects.valid THEN HandleDirectOperate(c, r) ELSE c

----------------------------------------------------------------------------
(* The two solicited states.                                               *)

Defer(c, r) == [c EXCEPT !.deferred = r]

\* Mutant of AbandonConfirm: the timer is not cancelled.
AbandonConfirmTimed(c, r) == [Defer(c, r) EXCEPT !.sol = "Idle"]

\* A new request ends the wait for a confirm; it is then taken up as deferred.
AbandonConfirm(c, r) == [CancelTimer(Defer(c, r)) EXCEPT !.sol = "Idle"]

OnNewReadRequest(c, r) ==
    IF c.sol = "ConfirmWait" THEN AbandonConfirm(c, r)
    ELSE IF c.unsol # "Idle" THEN Defer(c, r) ELSE RespondToReadRequest(c, r)

OnNewNonReadRequest(c, r) ==
    IF c.sol = "ConfirmWait" THEN AbandonConfirm(c, r) ELSE RespondToNonReadRequest(c, r)

OnRepeatNonReadRequest(c, r) ==
    IF c.sol = "ConfirmWait" THEN Defer(c, r) ELSE BeginResponseTx(c, c.solTx)

\* Mutant of SolConfirmExpected: any sequence number will do.
SolConfirmAny(c, r) == c.sol = "ConfirmWait"

SolConfirmExpected(c, r) == c.sol = "ConfirmWait" /\ c.solConfirm = r.seq

OnSolConfirm(c, r) ==
    LET cleared == [CancelTimer(c) EXCEPT !.buffer = ClearWritten(@)]
    IN  IF ~SolConfirmExpected(c, r) THEN c
        ELSE IF cleared.static > 0 \/ HasAnySelection(cleared.buffer)
             THEN ContinueMultiFragResponse(cleared, IncrSeq(r.seq))
             ELSE [cleared EXCEPT !.sol = "Idle"]

\* Mutant of OnSolConfirmTimeout: the state machine stays where it is.
OnSolConfirmTimeoutStays(c) == c

OnSolConfirmTimeout(c) == [c EXCEPT !.sol = "Idle"]

(* The two unsolicited states.                                             *)

\* Mutant of UnsolConfirmExpected: any sequence number will do.
UnsolConfirmAny(c, r) == c.unsol = "ConfirmWait"

UnsolConfirmExpected(c, r) == c.unsol = "ConfirmWait" /\ c.unsolConfirm = r.seq

OnUnsolConfirm(c, r) ==
    LET done == [CancelTimer(c) EXCEPT !.unsol = "Idle"]
    IN  IF ~UnsolConfirmExpected(c, r) THEN c
        ELSE IF c.completedNull THEN [done EXCEPT !.buffer = ClearWritten(@)]
             ELSE [done EXCEPT !.completedNull = TRUE]

OnUnsolConfirmTimeout(c) ==
    IF c.unsol = "ConfirmWait"
    THEN [c EXCEPT !.unsol = "Idle", !.buffer = Unselect(@)]
    ELSE c

----------------------------------------------------------------------------
(* Dispatch of what was received.                                          *)

ProcessNewRequest(c, r) ==
    LET numbered == [c EXCEPT !.solNum = r.seq]
    IN  IF r.function = "READ" THEN OnNewReadRequest(numbered, r)
                               ELSE OnNewNonReadRequest(numbered, r)

\* Mutant of OnReceiveSolRequest: repeats are not recognised.
OnReceiveSolRequestNew(c, r) == ProcessNewRequest(c, r)

OnReceiveSolRequest(c, r) ==
    IF c.history # None /\ c.solNum = r.seq /\ c.history = r
    THEN IF r.function = "READ" THEN c ELSE OnRepeatNonReadRequest(c, r)
    ELSE ProcessNewRequest(c, r)

ProcessRequest(c, r) == IF r.uns THEN c ELSE OnReceiveSolRequest(c, r)

ProcessConfirm(c, r) == IF r.uns THEN OnUnsolConfirm(c, r) ELSE OnSolConfirm(c, r)

ProcessAPDU(c, r) ==
    IF IsNoAckFuncCode(r.function) THEN ProcessRequestNoAck(c, r)
    ELSE IF c.isTransmitting       THEN Defer(c, r)
    ELSE IF r.function = "CONFIRM" THEN ProcessConfirm(c, r) ELSE ProcessRequest(c, r)

\* DeferredRequest::Process empties the slot once the handler took the
\* request, even when the handler itself deferred it again.
CheckForDeferredRequest(c) ==
    LET r == c.deferred
    IN  IF ~CanTransmit(c) \/ r = None THEN c
        ELSE CASE r.function = "CONFIRM" -> Defer(ProcessConfirm(c, r), None)
               [] r.function = "READ" /\ c.unsol # "Idle" -> c
               [] OTHER -> Defer(ProcessRequest(c, r), None)

SendUnsolicited(c, events) ==
    LET f     == UnsolFragment(c.unsolNum, events)
        armed == StartTimer(GetResponseIIN(c), "unsol")
    IN  BeginUnsolTx([armed EXCEPT !.unsol = "ConfirmWait"], f)

CheckForUnsolicited(c) ==
    LET loaded == Load(SelectAllByClass(Unselect(c.buffer), c.mask), Capacity)
    IN  IF ~(CanTransmit(c) /\ c.unsol = "Idle" /\ AllowUnsolicited) THEN c
        ELSE IF ~c.completedNull THEN SendUnsolicited(c, {})
        ELSE IF c.mask \cap UnwrittenClassField(c.buffer) # {}
             THEN SendUnsolicited([c EXCEPT !.buffer = loaded], loaded.written)
             ELSE c

\* Mutant of CheckForTaskStart: the deferred request is not looked for.
CheckForUnsolicitedOnly(c) == CheckForUnsolicited(c)

CheckForTaskStart(c) == CheckForUnsolicited(CheckForDeferredRequest(c))

----------------------------------------------------------------------------
(* Entry points.  Hear records what was handed to the lower layer.         *)

Hear(c) ==
    IF c.lower = ctx.lower \/ c.lower = <<>> THEN heard
    ELSE IF Last(c.lower).uns THEN [heard EXCEPT !.unsol = Last(c.lower)]
                              ELSE [heard EXCEPT !.sol = Last(c.lower)]

\* How often the context carried out the request of the attempt a.
Ran(c, a) == Cardinality({i \in DOMAIN c.ran : c.ran[i] = a.request})

\* An entry point leaves the context c behind.
Enter(c, a) ==
    /\ ctx' = [c EXCEPT !.ran = <<>>]
    /\ heard' = Hear(c)
    /\ attempt' = [a EXCEPT !.times = @ + Ran(c, a)]

OnLowerLayerUp ==
    /\ ~ctx.isOnline
    /\ Enter(CheckForTaskStart([ctx EXCEPT !.isOnline = TRUE]), attempt)
    /\ UNCHANGED <<nextId, acked, greeted>>

OnLowerLayerDown ==
    /\ ctx.isOnline
    /\ ctx' = CancelTimer([ctx EXCEPT !.isOnline       = FALSE,
                                      !.isTransmitting = FALSE,
                                      !.sol            = "Idle",
                                      !.unsol          = "Idle",
                                      !.completedNull  = FALSE,
                                      !.history        = None,
                                      !.deferred       = None,
                                      !.buffer         = Unselect(@),
                                      !.firstFragment  = TRUE,
                                      !.lower          = <<>>])
    /\ heard' = [sol |-> None, unsol |-> None]
    /\ greeted' = FALSE
    /\ attempt' = [request |-> None, times |-> 0]
    /\ UNCHANGED <<nextId, acked>>

\* The lower layer is done with the fragment, delivered or not.
OnSendResult ==
    /\ ctx.lower # <<>>
    /\ Enter(IF ctx.isOnline /\ ctx.isTransmitting
             THEN CheckForTaskStart([ctx EXCEPT !.isTransmitting = FALSE, !.lower = <<>>])
             ELSE [ctx EXCEPT !.lower = <<>>],
             attempt)
    /\ UNCHANGED <<nextId, acked, greeted>>

OnReceive(r) == Enter(CheckForTaskStart(ProcessAPDU(ctx, r)),
                      IF r.function = "CONFIRM" \/ IsNoAckFuncCode(r.function)
                         \/ r = attempt.request
                      THEN attempt
                      ELSE [request |-> r, times |-> 0])

ReceiveRequest(r) ==
    /\ ctx.isOnline
    /\ OnReceive(r)
    /\ UNCHANGED <<nextId, acked, greeted>>

\* The master confirms the latest fragment it heard on a channel, or
\* something else: a late or a duplicate confirm.
ReceiveConfirm(r) ==
    LET f == IF r.uns THEN heard.unsol ELSE heard.sol
    IN  /\ ctx.isOnline
        /\ OnReceive(r)
        /\ IF f # None /\ f.seq = r.seq
           THEN /\ acked' = acked \cup f.events
                /\ greeted' = (greeted \/ (f.uns /\ f.events = {}))
           ELSE UNCHANGED <<acked, greeted>>
        /\ UNCHANGED nextId

\* The confirm timer fires for the channel that started it.
OnConfirmTimeout ==
    LET c == [ctx EXCEPT !.timer = "none"]
    IN  /\ ctx.timer # "none"
        /\ Enter(CheckForTaskStart(IF ctx.timer = "sol" THEN OnSolConfirmTimeout(c)
                                                        ELSE OnUnsolConfirmTimeout(c)),
                 attempt)
        /\ UNCHANGED <<nextId, acked, greeted>>

\* Mutant of Update: nothing is looked for afterwards.
UpdateQuietly(changes) ==
    /\ nextId + Len(changes) <= MaxEvents + 1
    /\ nextId' = nextId + Len(changes)
    /\ ctx' = [ctx EXCEPT !.buffer =
                 FoldLeft(UpdateAny, @,
                          [i \in 1 .. Len(changes) |->
                              [id |-> nextId + i - 1, type |-> changes[i][1], clazz |-> changes[i][2]]])]
    /\ UNCHANGED <<heard, acked, greeted, attempt>>

\* A transaction on the database produces the given events, then the context
\* looks for something to do.
Update(changes) ==
    LET event(i) == [id |-> nextId + i - 1, type |-> changes[i][1], clazz |-> changes[i][2]]
        events   == [i \in 1 .. Len(changes) |-> event(i)]
    IN  /\ nextId + Len(changes) <= MaxEvents + 1
        /\ nextId' = nextId + Len(changes)
        /\ Enter(CheckForTaskStart([ctx EXCEPT !.buffer = FoldLeft(UpdateAny, @, events)]), attempt)
        /\ UNCHANGED <<acked, greeted>>

\* The application raises the restart bit again.
SetRestartIIN ==
    /\ ctx' = [ctx EXCEPT !.restart = TRUE]
    /\ UNCHANGED <<nextId, heard, acked, greeted, attempt>>

\* Time passes for the selection of a SELECT.
Tick ==
    /\ ctx.control # None
    /\ ctx.control.elapsed < SelectTimeout
    /\ ctx' = [ctx EXCEPT !.control.elapsed = @ + 1]
    /\ UNCHANGED <<nextId, heard, acked, greeted, attempt>>

Next ==
    \/ OnLowerLayerUp
    \/ OnLowerLayerDown
    \/ OnSendResult
    \/ OnConfirmTimeout
    \/ \E r \in Requests : ReceiveRequest(r)
    \/ \E r \in Confirms : ReceiveConfirm(r)
    \/ \E changes \in SeqOf(EventType \X EventClass, MaxTransaction) : Update(changes)
    \/ SetRestartIIN
    \/ Tick

Spec == Init /\ [][Next]_vars

\* Weak fairness, with the enabling conditions of the two actions spelled out:
\* a running timer fires and the lower layer answers; the master owes nothing.
Fairness ==
    /\ []<>(ctx.timer = "none") \/ []<><<OnConfirmTimeout>>_vars
    /\ []<>(ctx.lower = <<>>)   \/ []<><<OnSendResult>>_vars

FairSpec == Spec /\ Fairness

----------------------------------------------------------------------------
\* The shape of the context and of what is observed around it.
TypeOK ==
    /\ ctx \in [isOnline : BOOLEAN, isTransmitting : BOOLEAN,
                sol : {"Idle", "ConfirmWait"}, solNum : Seqs, solConfirm : Seqs,
                solTx : Fragments \cup {None},
                unsol : {"Idle", "ConfirmWait"}, unsolNum : Seqs, unsolConfirm : Seqs,
                completedNull : BOOLEAN, timer : {"none", "sol", "unsol"},
                history : Requests \cup {None},
                deferred : Requests \cup Confirms \cup {None},
                restart : BOOLEAN, mask : SUBSET EventClass,
                control : [expectedSeq : Seqs, elapsed : 0 .. SelectTimeout,
                           objects : {r.objects : r \in Requests}] \cup {None},
                static : Nat, firstFragment : BOOLEAN, buffer : BufferType,
                lower : Seq(Fragments), ran : {<<>>}]
    /\ nextId \in Nat \ {0}
    /\ heard \in [sol : Fragments \cup {None}, unsol : Fragments \cup {None}]
    /\ acked \in SUBSET SOERecord
    /\ greeted \in BOOLEAN
    /\ attempt \in [request : Requests \cup {None}, times : Nat]

\* BeginTransmit is never called while the lower layer still has a fragment:
\* the transport layer would refuse it, no send result would follow, and the
\* context would stay in isTransmitting.
OneFragmentAtATime ==
    /\ Len(ctx.lower) <= 1
    /\ ctx.isTransmitting <=> ctx.lower # <<>>

\* The response kept for repeats is the response to the request the history
\* compares repeats with: a repeat is never answered with the response to
\* something else.
RepeatGetsItsResponse == ctx.history # None => ctx.solTx # None /\ ctx.solTx.to = ctx.history

\* A request the master repeats, with only confirms and no-ack requests in
\* between, is carried out once however often and whenever it arrives.
CarriedOutOnce == attempt.times <= 1

\* The first fragment of a response has the sequence number of its request
\* and FIR, the following ones count up from it without FIR (as long as the
\* response has fewer than SeqModulus fragments).
FragmentsNumbered ==
    \A i \in DOMAIN ctx.lower :
        LET f == ctx.lower[i]
        IN  ~f.uns => (f.fir <=> f.seq = f.to.seq)

\* In every session the master confirms a null unsolicited response before
\* events are reported unsolicited.
NullBeforeData ==
    \A i \in DOMAIN ctx.lower :
        ctx.lower[i].uns /\ ctx.lower[i].events # {} => greeted

\* A running timer belongs to a channel that waits for a confirm.
TimerHasAWaiter ==
    /\ ctx.timer = "sol" => ctx.sol = "ConfirmWait"
    /\ ctx.timer = "unsol" => ctx.unsol = "ConfirmWait"

\* Events are discarded as reported only when the master confirmed a fragment
\* that carried them (or, one at a time, to make room for a new event).
ClearedOnlyIfAcked ==
    [][\A e \in ctx.buffer.soe \ ctx'.buffer.soe :
          e \in acked' \/ (nextId' # nextId /\ ctx'.buffer.overflow)]_vars

\* Nothing is being sent and no unsolicited response is outstanding.
AtRest(c) == AllowUnsolicited /\ CanTransmit(c) /\ c.unsol = "Idle" /\ c.completedNull

\* Whatever happened, in whatever order, at rest each event of an enabled
\* class is one that a response carried: an entry point that did not end in
\* CheckForTaskStart, or a counter that made UnwrittenClassField miss a class,
\* would leave another behind.  A written event need not have been reported:
\* when the confirm of a solicited response does not come, its events stay
\* written (OutstationStateSolicitedConfirmWait::OnConfirmTimeout unselects
\* nothing) until a READ, a further event or the loss of the connection.
NothingUnwrittenAtRest ==
    AtRest(ctx) =>
        \A e \in ctx.buffer.soe : e.clazz \in ctx.mask => e \in ctx.buffer.written

\* The wait for the confirm of a response ends.
SolWaitEnds ==
    \A r \in Requests :
        ctx.sol = "ConfirmWait" /\ ctx.solTx.to = r
            ~> ~(ctx.sol = "ConfirmWait" /\ ctx.solTx.to = r)

\* A request in the deferral slot does not stay there.
DeferredIsTakenUp ==
    \A r \in Requests : ctx.deferred = r ~> ctx.deferred # r
=============================================================================
