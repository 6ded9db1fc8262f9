------------------------------- MODULE Master -------------------------------
(***************************************************************************)
(* The masters of one channel: MContext with its MasterScheduler           *)
(* (cpp/libs/src/opendnp3/master/MasterContext.cpp, MasterScheduler.cpp)    *)
(* and the MultidropTaskLock they share.  An action is one entry point,     *)
(* which runs to completion on the strand of the channel; the operators     *)
(* below compose what it calls.  They work on a handler record h: the       *)
(* master's state c, the lock, whether a request was sent and the tasks     *)
(* notified.                                                                *)
(*                                                                         *)
(* The outstations are the environment: they answer the latest request, or *)
(* the one before it late, or never, and send unsolicited responses.       *)
(***************************************************************************)
EXTENDS MasterTasks, MultidropTaskLock

CONSTANTS StartupTasks,   \* the startup tasks the parameters enable, in the order of Initialize
          SeqModulus,     \* application sequence numbers (16 in the code)
          StartTimeout,   \* MasterParams::taskStartTimeout
          Unbuildable,    \* tasks whose request does not fit a fragment
          Replies,        \* [fin, con, iin, objects] of the responses
          Unsolicited,    \* [con, iin, objects] of the unsolicited responses
          SingleDisable,  \* a master may be disabled while the channel stays open
          MaxFragments,   \* bound: fragments of one response
          MaxConfirms,    \* bound: confirms queued
          MaxPosts        \* bound: CheckForTask calls posted when an input comes

ASSUME MasterAssumption ==
    /\ StartupTasks \in Seq(StartupTask) /\ IsInjective(StartupTasks)
    /\ Polls \cap Adhoc = {} /\ StartupTask \cap (Polls \cup Adhoc) = {}
    /\ None \notin Task \cup Nat
    /\ SeqModulus \in Nat \ {0, 1}
    /\ {StartTimeout, MaxFragments, MaxConfirms, MaxPosts} \subseteq Nat
    /\ Unbuildable \subseteq Task
    /\ SingleDisable \in BOOLEAN

\* A timer that does not run.
Never == StartTimeout + 1

VARIABLES master,      \* MContext of each master
          lock,        \* the MultidropTaskLock of the channel
          asked,       \* per master, what the outstation may still answer
          calls,       \* how often the callback of each single-shot task was called
          unprompted   \* masters that demanded a task and do not look for one

vars == <<master, lock, asked, calls, unprompted>>

InitialMaster ==
    [isOnline |-> FALSE, isSending |-> FALSE, solSeq |-> 0, tstate |-> "IDLE",
     active |-> None, step |-> 0, tasks |-> <<>>, bound |-> <<>>,
     expiration |-> [t \in Task |-> Class(t).first],
     startBy |-> [t \in Adhoc |-> Never],
     responseTimer |-> FALSE, scheduleTimer |-> Infinite, startTimer |-> Never,
     confirmQueue |-> <<>>, posted |-> 0]

\* fragment of the response to the latest request is next, late is the number
\* of a fragment that was not there in time, and again tells that a request
\* was sent since.  It is assumed to come before yet another one is sent.
Nothing == [fragment |-> None, late |-> None, again |-> FALSE]

Init ==
    /\ master = [i \in Masters |-> InitialMaster]
    /\ lock = InitialLock
    /\ asked = [i \in Masters |-> Nothing]
    /\ calls = [t \in Adhoc |-> 1]
    /\ unprompted = {}

Handler(i) == [c |-> master[i], lock |-> lock, sent |-> FALSE, called |-> <<>>]

----------------------------------------------------------------------------
(* MasterScheduler                                                          *)

\* RecalculateTaskStartTimeout.
Recalculate(c) ==
    [c EXCEPT !.startTimer = Min({c.startBy[t] : t \in Range(c.tasks) \cap Adhoc} \cup {Never})]

Schedule(c, t) == Recalculate([c EXCEPT !.tasks = Append(@, t)])

\* PostCheckForTask.
Post(c) == [c EXCEPT !.posted = @ + 1]

----------------------------------------------------------------------------
(* MContext                                                                *)

\* IMasterTask: the task's next expiration, and its callback.
Notify(h, t, completion) ==
    [h EXCEPT !.c.expiration[t] = OnTaskComplete(t, completion), !.called = Append(@, t)]

\* Mutants of CompleteActiveTask: a recurring task is released after it ran;
\* no check for the next task is posted.
CompleteReleasing(h, i) ==
    [h EXCEPT !.c = [Post(h.c) EXCEPT !.active = None, !.tstate = "IDLE"],
              !.lock = Release(h.lock, i)]

CompleteUnposted(h, i) ==
    [h EXCEPT !.c = [IF h.c.active \in Recurring THEN Schedule(h.c, h.c.active) ELSE h.c
                        EXCEPT !.active = None, !.tstate = "IDLE"],
              !.lock = Release(h.lock, i)]

CompleteActiveTask(h, i) ==
    [h EXCEPT !.c = [Post(IF h.c.active \in Recurring THEN Schedule(h.c, h.c.active) ELSE h.c)
                        EXCEPT !.active = None, !.tstate = "IDLE"],
              !.lock = Release(h.lock, i)]

\* Transmit of the request that the active task builds.
TransmitRequest(h) ==
    [h EXCEPT !.c.isSending = TRUE, !.c.responseTimer = TRUE,
              !.c.tstate = "WAIT_FOR_RESPONSE",
              !.sent = TRUE]

ResumeActiveTask(h, i) ==
    LET l == Acquire(h.lock, i)
        g == [h EXCEPT !.lock = l]
    IN  IF l.active # i THEN [g EXCEPT !.c.tstate = "TASK_READY"]
        ELSE IF h.c.active \in Unbuildable
        THEN CompleteActiveTask(Notify(g, h.c.active, "FAILURE_INTERNAL_ERROR"), i)
        ELSE TransmitRequest(g)

\* OnStart resets what the task keeps of an earlier run.
BeginNewTask(h, i, t) ==
    ResumeActiveTask([h EXCEPT !.c.active = t, !.c.step = 0,
                               !.c.tasks = RemoveFirst(@, t)], i)

StartTask_Idle(h, i) ==
    LET t == GetNextTask(h.c.expiration, h.c.tasks)
    IN  IF h.c.isSending \/ h.c.tasks = <<>> THEN h
        ELSE IF h.c.expiration[t] = 0 THEN BeginNewTask(h, i, t)
        ELSE IF h.c.expiration[t] < Infinite THEN [h EXCEPT !.c.scheduleTimer = h.c.expiration[t]]
        ELSE h

StartTask_TaskReady(h, i) ==
    IF h.c.isSending THEN [h EXCEPT !.c.tstate = "TASK_READY"] ELSE ResumeActiveTask(h, i)

CheckForTask(h, i) ==
    IF ~h.c.isOnline THEN h
    ELSE CASE h.c.tstate = "IDLE"       -> StartTask_Idle(h, i)
           [] h.c.tstate = "TASK_READY" -> StartTask_TaskReady(h, i)
           [] OTHER                     -> h

CheckConfirmTransmit(c) ==
    IF c.isSending \/ c.confirmQueue = <<>> THEN c
    ELSE [c EXCEPT !.isSending = TRUE, !.confirmQueue = Tail(@)]

QueueConfirm(c, uns, seq) ==
    CheckConfirmTransmit([c EXCEPT !.confirmQueue = Append(@, [uns |-> uns, seq |-> seq])])

Demand(c, t) == [c EXCEPT !.expiration[t] = 0]

\* The tasks that ProcessIIN demands; IsEnabled of the others is false.
DemandedBy(iin) ==
  Range(StartupTasks) \cap
   ((IF "DEVICE_RESTART" \in iin
     THEN {"clearRestart", "assignClass", "startupIntegrity", "enableUnsol"} ELSE {})
    \cup (IF "EVENT_BUFFER_OVERFLOW" \in iin THEN {"startupIntegrity"} ELSE {})
    \cup (IF "NEED_TIME" \in iin THEN {"timeSync"} ELSE {})
    \cup (IF "CLASS_EVENTS" \in iin THEN {"eventScan"} ELSE {}))

ProcessIIN(c, iin) ==
    [c EXCEPT !.expiration =
        [t \in Task |-> IF t \in DemandedBy(iin) THEN 0 ELSE @[t]]]

IncrSeq(s) == (s + 1) % SeqModulus

\* OnResponse_WaitForResponse for a response whose number is the expected one.
AcceptResponse(h, i, r) ==
    LET t      == h.c.active
        result == ProcessTaskResponse(t, h.c.step, r)
        ended  == result \in {"OK_FINAL", "ERROR_BAD_RESPONSE"}
        c1     == [h.c EXCEPT !.responseTimer = FALSE, !.solSeq = IncrSeq(@), !.step = 1]
        h1     == IF ended THEN Notify([h EXCEPT !.c = c1], t, Completion(result))
                           ELSE [h EXCEPT !.c = c1]
        h2     == IF r.con THEN [h1 EXCEPT !.c = QueueConfirm(@, FALSE, r.seq)] ELSE h1
    IN  IF ended THEN CompleteActiveTask(h2, i)
        ELSE IF result = "OK_CONTINUE" THEN [h2 EXCEPT !.c.responseTimer = TRUE]
        ELSE StartTask_TaskReady(h2, i)

\* OnResponseEvent: whether the active task takes the response.
Expects(c, r) == c.tstate = "WAIT_FOR_RESPONSE" /\ r.seq = c.solSeq

ProcessResponse(h, i, r) ==
    LET g == IF Expects(h.c, r) THEN AcceptResponse(h, i, r) ELSE h
    IN  [g EXCEPT !.c = ProcessIIN(@, r.iin)]

ProcessUnsolicitedResponse(c, r) ==
    ProcessIIN(IF r.objects # "bad" /\ r.con THEN QueueConfirm(c, TRUE, 0) ELSE c, r.iin)

\* Mutant of OnResponseTimeout: the sequence number is used again.
TimeoutKeepsSeq(h, i) ==
    CompleteActiveTask(Notify([h EXCEPT !.c.responseTimer = FALSE],
                              h.c.active, "FAILURE_RESPONSE_TIMEOUT"), i)

OnResponseTimeout(h, i) ==
    CompleteActiveTask(
        Notify([h EXCEPT !.c.responseTimer = FALSE, !.c.solSeq = IncrSeq(@)],
               h.c.active, "FAILURE_RESPONSE_TIMEOUT"), i)

LowerLayerUp(h, i) ==
    [h EXCEPT !.c = Post(FoldLeft(Schedule, [@ EXCEPT !.isOnline = TRUE], StartupTasks \o @.bound)),
              !.lock = OnLayerUp(@, i)]

LowerLayerDown(h) ==
    LET g == IF h.c.active # None THEN Notify(h, h.c.active, "FAILURE_NO_COMMS") ELSE h
    IN  [g EXCEPT !.c = [@ EXCEPT !.tasks = <<>>, !.active = None, !.tstate = "IDLE",
                                  !.responseTimer = FALSE, !.startTimer = Never,
                                  !.scheduleTimer = Infinite, !.solSeq = 0,
                                  !.isOnline = FALSE, !.isSending = FALSE],
                  !.lock = OnLayerDown(@)]

\* IsTimedOut of the scheduler.
StartTimedOut(c, t) == t \in Adhoc /\ c.startBy[t] = 0

\* Mutant of RemoveIfTimedOut: the callback of a task that is removed is not
\* called.
RemoveUntold(h, t) ==
    IF StartTimedOut(h.c, t) THEN h ELSE [h EXCEPT !.c.tasks = Append(@, t)]

\* One task of the scheduler: it stays, or its callback is called.
RemoveIfTimedOut(h, t) ==
    IF StartTimedOut(h.c, t) THEN Notify(h, t, "FAILURE_START_TIMEOUT")
    ELSE [h EXCEPT !.c.tasks = Append(@, t)]

\* CheckTaskStartTimeout: the timer ran out and is not set again.
CheckTaskStartTimeout(h) ==
    FoldLeft(RemoveIfTimedOut, [h EXCEPT !.c.tasks = <<>>, !.c.startTimer = Never], h.c.tasks)

ScheduleAdhocTask(h, i, t) ==
    LET g == [h EXCEPT !.c.startBy[t] = StartTimeout, !.c.expiration[t] = 0]
    IN  IF h.c.isOnline THEN CheckForTask([g EXCEPT !.c = Schedule(@, t)], i)
        ELSE Notify(g, t, "FAILURE_NO_COMMS")

----------------------------------------------------------------------------
(* Steps                                                                    *)

Held(c) == Range(c.tasks) \cup {c.active}

\* A task that is gone keeps nothing, and one that does not run no progress.
Settle(c) ==
    [c EXCEPT !.startBy = [t \in Adhoc |-> IF t \in Held(c) THEN @[t] ELSE Never],
              !.expiration = [t \in Task |-> IF t \in Adhoc \ Held(c) THEN 0 ELSE @[t]],
              !.step = IF c.active = None THEN 0 ELSE @]

\* Master i ends a handler with h; the lock wakes the master it was handed to.
Wake(l, j, c) == IF j \in l.woken THEN Post(c) ELSE c

FinishFrom(before, h, i) ==
    /\ master' = [j \in Masters |-> Wake(h.lock, j, IF j = i THEN Settle(h.c) ELSE master[j])]
    /\ lock' = [h.lock EXCEPT !.woken = {}]
    /\ calls' = [t \in Adhoc |-> before[t] + Cardinality({k \in DOMAIN h.called : h.called[k] = t})]

Finish(h, i) == FinishFrom(calls, h, i)

\* The outstation hears of the request that h sent.
Hear(h, i, before) ==
    asked' = [asked EXCEPT ![i] =
        IF ~h.sent THEN before
        ELSE [fragment |-> 0, late |-> IF before.again THEN None ELSE before.late,
              again |-> before.late # None /\ ~before.again]]

MayPost == \A i \in Masters : master[i].posted <= MaxPosts

\* The masters that are up go down together, within the channel's handler.
ChannelDown ==
    /\ \E i \in Masters : master[i].isOnline
    /\ LET down == [i \in Masters |-> IF master[i].isOnline THEN LowerLayerDown(Handler(i))
                                                            ELSE Handler(i)]
       IN  /\ master' = [i \in Masters |-> Settle(down[i].c)]
           /\ lock' = OnLayerDown(lock)
           /\ calls' = [t \in Adhoc |-> calls[t] +
                            Cardinality({i \in Masters : t \in Range(down[i].called)})]
    /\ asked' = [i \in Masters |-> Nothing]
    /\ unprompted' = {}

\* A master is disabled, and the channel stays open for the others.
MasterDown(i) ==
    /\ SingleDisable
    /\ master[i].isOnline
    /\ Finish(LowerLayerDown(Handler(i)), i)
    /\ asked' = [asked EXCEPT ![i] = Nothing]
    /\ unprompted' = unprompted \ {i}

MasterUp(i) ==
    /\ ~master[i].isOnline
    /\ MayPost
    /\ Finish(LowerLayerUp(Handler(i), i), i)
    /\ UNCHANGED <<asked, unprompted>>

OnSendResult(i) ==
    LET h == CheckForTask([Handler(i) EXCEPT !.c = CheckConfirmTransmit([@ EXCEPT !.isSending = FALSE])], i)
    IN  /\ master[i].isSending
        /\ MayPost
        /\ Finish(h, i)
        /\ Hear(h, i, asked[i])
        /\ unprompted' = unprompted \ {i}

\* OnReceive of a response.  An outstation goes on to the next fragment when
\* the master confirmed this one.
Response(reply, fir, seq) ==
    [fir |-> fir, fin |-> reply.fin, con |-> reply.con, iin |-> reply.iin,
     objects |-> reply.objects, seq |-> seq]

\* The next fragment of the response to the latest request.
Receive(i, reply) ==
    LET n == asked[i].fragment
        r == Response(reply, n = 0, master[i].solSeq)
        h == ProcessResponse(Handler(i), i, r)
    IN  /\ n # None
        /\ master[i].tstate = "WAIT_FOR_RESPONSE"
        /\ MayPost
        /\ ~reply.fin => reply.con /\ n + 1 < MaxFragments
        /\ Len(master[i].confirmQueue) < MaxConfirms
        /\ Finish(h, i)
        /\ Hear(h, i, [asked[i] EXCEPT !.fragment = IF reply.fin THEN None ELSE n + 1])
        /\ unprompted' = IF DemandedBy(r.iin) # {} THEN unprompted \cup {i} ELSE unprompted

\* A fragment that comes after the timeout, to whatever the master does then.
ReceiveLate(i, fir, reply) ==
    LET r == Response(reply, fir, asked[i].late)
        h == ProcessResponse(Handler(i), i, r)
    IN  /\ asked[i].late # None
        /\ master[i].isOnline
        /\ MayPost
        /\ ~reply.fin => reply.con
        /\ Len(master[i].confirmQueue) < MaxConfirms
        /\ Finish(h, i)
        /\ Hear(h, i, [asked[i] EXCEPT !.late = None, !.again = FALSE])
        /\ unprompted' = IF DemandedBy(r.iin) # {} THEN unprompted \cup {i} ELSE unprompted

ReceiveUnsolicited(i, r) ==
    /\ master[i].isOnline
    /\ Len(master[i].confirmQueue) < MaxConfirms
    /\ Finish([Handler(i) EXCEPT !.c = ProcessUnsolicitedResponse(@, r)], i)
    /\ unprompted' = IF DemandedBy(r.iin) # {} THEN unprompted \cup {i} ELSE unprompted
    /\ UNCHANGED asked

ResponseTimeout(i) ==
    /\ master[i].responseTimer
    /\ MayPost
    /\ Finish(OnResponseTimeout(Handler(i), i), i)
    /\ asked' = [asked EXCEPT ![i] = [Nothing EXCEPT !.late = master[i].solSeq]]
    /\ UNCHANGED unprompted

\* A posted CheckForTask runs.
RunPosted(i) ==
    LET h == CheckForTask([Handler(i) EXCEPT !.c.posted = @ - 1], i)
    IN  /\ master[i].posted > 0
        /\ Finish(h, i)
        /\ Hear(h, i, asked[i])
        /\ unprompted' = unprompted \ {i}

ScheduleTimerExpires(i) ==
    LET h == CheckForTask([Handler(i) EXCEPT !.c.scheduleTimer = Infinite], i)
    IN  /\ master[i].scheduleTimer = 0
        /\ MayPost
        /\ Finish(h, i)
        /\ Hear(h, i, asked[i])
        /\ unprompted' = unprompted \ {i}

StartTimerExpires(i) ==
    /\ master[i].startTimer = 0
    /\ Finish(CheckTaskStartTimeout(Handler(i)), i)
    /\ UNCHANGED <<asked, unprompted>>

\* The user gives master i a task; a task that ended may be given again.
SubmitTask(i, t) ==
    LET h == ScheduleAdhocTask(Handler(i), i, t)
    IN  /\ \A j \in Masters : t \notin Held(master[j])
        /\ MayPost
        /\ FinishFrom([calls EXCEPT ![t] = 0], h, i)
        /\ Hear(h, i, asked[i])
        /\ unprompted' = unprompted \ {i}

AddScan(i, p) ==
    LET c == [master[i] EXCEPT !.bound = Append(@, p)]
    IN  /\ ~Contains(master[i].bound, p)
        /\ MayPost
        /\ Finish([Handler(i) EXCEPT !.c = IF c.isOnline THEN Post(Schedule(c, p)) ELSE c], i)
        /\ UNCHANGED <<asked, unprompted>>

\* MasterScan::Demand.
DemandScan(i, p) ==
    /\ Contains(master[i].bound, p)
    /\ MayPost
    /\ Finish([Handler(i) EXCEPT !.c = Post(Demand(@, p))], i)
    /\ UNCHANGED <<asked, unprompted>>

\* A tick less, for a time that is neither past nor never.
Elapse(n, never) == IF n > 0 /\ n < never THEN n - 1 ELSE n

Tick ==
    /\ master' = [i \in Masters |->
                    [master[i] EXCEPT
                        !.expiration = [t \in Task |-> Elapse(@[t], Infinite)],
                        !.startBy = [t \in Adhoc |-> Elapse(@[t], Never)],
                        !.scheduleTimer = Elapse(@, Infinite),
                        !.startTimer = Elapse(@, Never)]]
    /\ UNCHANGED <<lock, asked, calls, unprompted>>

Next ==
    \/ ChannelDown
    \/ Tick
    \/ \E i \in Masters :
        \/ MasterDown(i)
        \/ MasterUp(i)
        \/ OnSendResult(i)
        \/ ResponseTimeout(i)
        \/ RunPosted(i)
        \/ ScheduleTimerExpires(i)
        \/ StartTimerExpires(i)
        \/ \E reply \in Replies : Receive(i, reply)
        \/ \E reply \in Replies, fir \in BOOLEAN : ReceiveLate(i, fir, reply)
        \/ \E r \in Unsolicited : ReceiveUnsolicited(i, r)
        \/ \E t \in Adhoc : SubmitTask(i, t)
        \/ \E p \in Polls : AddScan(i, p) \/ DemandScan(i, p)

Spec == Init /\ [][Next]_vars

\* The lower layer reports the result of a transmission.
Reported(i) ==
    /\ master[i].isSending
    /\ \/ ~master'[i].isSending
       \/ Len(master'[i].confirmQueue) < Len(master[i].confirmQueue)

\* The lower layer reports every transmission, no response timer runs for
\* ever, and the executor runs what was posted: weak fairness of OnSendResult,
\* ResponseTimeout and RunPosted, by what these steps change.
Fairness ==
    \A i \in Masters :
        /\ []<>~master[i].isSending \/ []<><<Reported(i)>>_vars
        /\ []<>~master[i].responseTimer
        /\ []<>(master[i].posted = 0) \/ []<><<master'[i].posted < master[i].posted>>_vars

FairSpec == Spec /\ Fairness

----------------------------------------------------------------------------
\* A master that waits for a response has an active task and a response timer
\* that runs, one that is idle has neither, and what MContext keeps in three
\* variables agrees in every state between two handlers.
WaitIsTimed ==
    \A i \in Masters :
        LET c == master[i]
        IN  /\ c.responseTimer <=> c.tstate = "WAIT_FOR_RESPONSE"
            /\ (c.active = None) <=> c.tstate = "IDLE"
            /\ c.tstate # "IDLE" => c.isOnline

\* No recurring task is lost or run twice: while the master is online each
\* startup task and each bound scan is either scheduled once or active.
TasksKept ==
    \A i \in Masters :
        LET c    == master[i]
            kept == IF c.active = None THEN c.tasks ELSE Append(c.tasks, c.active)
        IN  /\ IsInjective(kept)
            /\ Range(kept) \ Adhoc =
                    IF c.isOnline THEN Range(StartupTasks) \cup Range(c.bound) ELSE {}

\* What MContext and MasterScheduler keep agrees whenever no handler runs.
TasksAccounted == WaitIsTimed /\ TasksKept

\* The task t is scheduled or active.
Running(t) == \E i \in Masters : t \in Held(master[i])

\* A master that is idle will look for the task that is due next: a check is
\* posted or the schedule timer runs out by then, unless a task was demanded
\* by an indication after which MContext does not look.
DueIsChecked ==
    \A i \in Masters \ unprompted :
        LET c == master[i]
            t == GetNextTask(c.expiration, c.tasks)
        IN  c.isOnline /\ c.tstate = "IDLE" /\ ~c.isSending /\ c.tasks # <<>>
                /\ TaskEnabled(c.expiration, t)
              => c.posted > 0 \/ c.scheduleTimer <= c.expiration[t]

\* A response that comes after the timeout of its request never goes to the
\* task that was started since: its number is not the one expected.
LateIsIgnored ==
    \A i \in Masters :
        asked[i].late # None /\ master[i].tstate = "WAIT_FOR_RESPONSE"
            => asked[i].late # master[i].solSeq

\* MultidropTaskLock keeps what it was told since it was last reset.  It is never
\* with a master that has nothing to run, and nobody is queued for a free lock;
\* of the masters that came up, or asked for it, since then, the one that waits
\* for a response holds it, and one that is ready to run holds it and is about
\* to look, or is queued.  The reset is part of the property: when one master
\* of the channel is disabled, OnLayerDown forgets the holder and the queue of
\* the others too, so that two masters can wait for a response, against
\* ITaskLock.h:33, "only 1 master is running a task at a time".
LockIsPassedOn ==
    /\ lock.active # None => master[lock.active].tstate # "IDLE"
    /\ \A i \in Range(lock.queue) : master[i].tstate = "TASK_READY" /\ i # lock.active
    /\ lock.active = None => lock.queue = <<>>
    /\ \A i \in lock.known :
        LET c == master[i]
        IN  /\ c.tstate = "WAIT_FOR_RESPONSE" => lock.active = i
            /\ c.tstate = "TASK_READY" =>
                   \/ Contains(lock.queue, i)
                   \/ lock.active = i /\ (c.isSending \/ c.posted > 0)
    /\ {lock.active} \cup Range(lock.queue) \subseteq lock.known \cup {None}

----------------------------------------------------------------------------
\* The task that starts is the one to run: none that is due has a higher
\* priority, and none with a higher priority blocks it while it waits for its
\* own retry.
StartsByPriority ==
    [][\A i \in Masters :
         LET c == master[i]
             t == master'[i].active
         IN  c.isOnline /\ c.active = None /\ t # None =>
               \A u \in Range(master'[i].tasks) :
                  Priority(u) < Priority(t) =>
                     \/ ~TaskEnabled(c.expiration, u)
                     \/ c.expiration[u] > 0 /\ ~BlocksLowerPriority(u)]_vars

\* A single-shot task that the master took ends with its callback called, once,
\* unless the master is closed meanwhile.
EndsWithOneCallback ==
    [][\A t \in Adhoc :
         Running(t) /\ ~Running(t)' =>
            \/ calls'[t] = 1
            \/ \E i \in Masters : master[i].isOnline /\ ~master'[i].isOnline]_vars

\* A master is ready to run and the lock has forgotten it: another master was
\* disabled, and this one did not look for its task since.
Forgotten(i) == master[i].tstate = "TASK_READY" /\ i \notin lock.known

\* A single-shot task does not stay with its master for ever: it runs and ends,
\* its start timeout removes it, or it is ready to run and the lock forgets its
\* master, after which nothing in MContext promises that it goes on.  That no
\* master sends confirms without end is assumed: they are sent before requests
\* (CheckConfirmTransmit), and unsolicited responses may keep them coming.
TaskEnds ==
    (\A i \in Masters : []<>~master[i].isSending) =>
        \A t \in Adhoc :
            Running(t) ~> \/ ~Running(t)
                          \/ \E i \in Masters : t \in Held(master[i]) /\ Forgotten(i)
=============================================================================
