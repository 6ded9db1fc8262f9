---------------------------- MODULE MasterTasks ----------------------------
(***************************************************************************)
(* The tasks of a master (cpp/libs/src/opendnp3/master): their priorities, *)
(* when they run again after each way of ending, how they take a response, *)
(* and the order in which the scheduler picks them.                        *)
(*                                                                         *)
(* Times are ticks that remain; an expiration that passed stays 0.         *)
(***************************************************************************)
EXTENDS Naturals, SequencesExt

CONSTANTS Polls,          \* recurring scans added by the user
          Adhoc,          \* single-shot tasks of the user
          AdhocClass,     \* and the class of each
          RetryPeriod,    \* MasterParams::taskRetryPeriod
          PollPeriod      \* period of the recurring scans

\* MonotonicTimestamp::Max(), with and without TaskState::disabled.
Infinite == RetryPeriod + PollPeriod + 1
Disabled == Infinite + 1

ASSUME TasksAssumption ==
    /\ RetryPeriod \in Nat
    /\ PollPeriod \in Nat
    /\ DOMAIN AdhocClass = Adhoc
    /\ \A t \in Adhoc : AdhocClass[t] \in {"SelectAndOperate", "DirectOperate", "Request", "Scan"}

\* A task class: when an instance may run first, what BlocksLowerPriority
\* returns, and after how many ticks it runs again, per TaskCompletion, with
\* otherwise for the completions that are not named.
ClearRestartTask ==
    [priority |-> 120, blocks |-> TRUE, first |-> Infinite, otherwise |-> Infinite,
     again |-> [FAILURE_BAD_RESPONSE |-> Disabled, FAILURE_RESPONSE_TIMEOUT |-> RetryPeriod]]

DisableUnsolicitedTask ==
    [priority |-> 130, blocks |-> TRUE, first |-> 0, otherwise |-> Infinite,
     again |-> [FAILURE_BAD_RESPONSE |-> Disabled, FAILURE_NO_COMMS |-> 0,
                FAILURE_RESPONSE_TIMEOUT |-> RetryPeriod]]

AssignClassTask ==
    [priority |-> 140, blocks |-> TRUE, first |-> 0, otherwise |-> Infinite,
     again |-> [FAILURE_NO_COMMS |-> 0, FAILURE_RESPONSE_TIMEOUT |-> RetryPeriod]]

StartupIntegrityPoll ==
    [priority |-> 150, blocks |-> TRUE, first |-> 0, otherwise |-> Infinite,
     again |-> [FAILURE_NO_COMMS |-> 0]]

SerialTimeSyncTask ==
    [priority |-> 160, blocks |-> TRUE, first |-> Infinite, otherwise |-> Infinite,
     again |-> [FAILURE_BAD_RESPONSE |-> Disabled]]

EnableUnsolicitedTask ==
    [priority |-> 170, blocks |-> TRUE, first |-> 0, otherwise |-> Infinite,
     again |-> [FAILURE_BAD_RESPONSE |-> Disabled, FAILURE_NO_COMMS |-> 0,
                FAILURE_RESPONSE_TIMEOUT |-> RetryPeriod]]

EventScanTask ==
    [priority |-> 180, blocks |-> TRUE, first |-> Infinite, otherwise |-> Infinite,
     again |-> [FAILURE_BAD_RESPONSE |-> Disabled, FAILURE_RESPONSE_TIMEOUT |-> RetryPeriod]]

UserPollTask ==
    [priority |-> 190, blocks |-> FALSE, first |-> 0, otherwise |-> PollPeriod,
     again |-> [FAILURE_BAD_RESPONSE |-> Disabled, FAILURE_NO_COMMS |-> 0]]

CommandTask ==
    [priority |-> 100, blocks |-> FALSE, first |-> 0, otherwise |-> Infinite, again |-> <<>>]

SimpleRequestTask ==
    [priority |-> 110, blocks |-> FALSE, first |-> 0, otherwise |-> Infinite, again |-> <<>>]

StartupClass ==
    [enableUnsol |-> EnableUnsolicitedTask, clearRestart |-> ClearRestartTask,
     assignClass |-> AssignClassTask, startupIntegrity |-> StartupIntegrityPoll,
     disableUnsol |-> DisableUnsolicitedTask, timeSync |-> SerialTimeSyncTask,
     eventScan |-> EventScanTask]

StartupTask == DOMAIN StartupClass
Recurring   == StartupTask \cup Polls
Task        == Recurring \cup Adhoc

Class(t) ==
    IF t \in StartupTask THEN StartupClass[t]
    ELSE IF t \in Polls \/ AdhocClass[t] = "Scan" THEN UserPollTask
    ELSE IF AdhocClass[t] = "Request" THEN SimpleRequestTask
    ELSE CommandTask

Priority(t) == Class(t).priority
BlocksLowerPriority(t) == Class(t).blocks

\* The expiration a task that ended with this completion has.
OnTaskComplete(t, completion) ==
    LET class == Class(t)
    IN  IF completion \in DOMAIN class.again THEN class.again[completion] ELSE class.otherwise

----------------------------------------------------------------------------
(* Responses.  The objects of a response are what the task asked for,      *)
(* a refusal (an error IIN bit, or a status in an echoed command), or      *)
(* something that does not parse.                                          *)

Single(r) == r.fir /\ r.fin

IsPoll(t) ==
    \/ t \in Polls \cup {"startupIntegrity", "eventScan"}
    \/ t \in Adhoc /\ AdhocClass[t] = "Scan"

\* PollTaskBase; step is positive once a fragment was taken (rxCount).
ProcessPoll(step, r) ==
    IF r.fir = (step > 0) \/ r.objects = "bad" THEN "ERROR_BAD_RESPONSE"
    ELSE IF r.fin THEN "OK_FINAL" ELSE "OK_CONTINUE"

ValidateNullResponse(r) ==
    IF Single(r) /\ r.objects = "good" THEN "OK_FINAL" ELSE "ERROR_BAD_RESPONSE"

ProcessClearRestart(r) ==
    IF Single(r) /\ "DEVICE_RESTART" \notin r.iin THEN "OK_FINAL" ELSE "ERROR_BAD_RESPONSE"

\* The delay measurement first, then the write of the time.
ProcessTimeSync(step, r) ==
    IF step > 0 THEN ValidateNullResponse(r)
    ELSE IF Single(r) /\ r.objects = "good" THEN "OK_REPEAT" ELSE "ERROR_BAD_RESPONSE"

\* A SELECT goes on to its OPERATE if every point accepted it.
ProcessCommand(selecting, r) ==
    IF ~Single(r) \/ r.objects = "bad" THEN "ERROR_BAD_RESPONSE"
    ELSE IF selecting /\ r.objects = "good" THEN "OK_REPEAT" ELSE "OK_FINAL"

\* Whether a SELECT is awaiting its response: functionCodes is not empty.
Selecting(t, step) == t \in Adhoc /\ AdhocClass[t] = "SelectAndOperate" /\ step = 0

\* IMasterTask::ProcessResponse of the task t.
ProcessTaskResponse(t, step, r) ==
    CASE IsPoll(t)          -> ProcessPoll(step, r)
      [] t = "clearRestart" -> ProcessClearRestart(r)
      [] t = "timeSync"     -> ProcessTimeSync(step, r)
      [] t \in Adhoc /\ AdhocClass[t] \in {"SelectAndOperate", "DirectOperate"} ->
            ProcessCommand(Selecting(t, step), r)
      [] OTHER              -> ValidateNullResponse(r)

\* The TaskCompletion that IMasterTask::OnResponse derives from a result that
\* ends the task.
Completion(result) == IF result = "OK_FINAL" THEN "SUCCESS" ELSE "FAILURE_BAD_RESPONSE"

----------------------------------------------------------------------------
(* TaskComparison and MasterScheduler::GetNextTask, over expirations e.     *)

TaskEnabled(e, t) == e[t] < Infinite

HigherPriority(l, r) == IF Priority(r) < Priority(l) THEN r ELSE l

\* The earlier of two, unless both are due.
Earlier(e, l, r) ==
    IF e[l] = e[r] THEN HigherPriority(l, r)
    ELSE IF e[l] < e[r] THEN l ELSE r

\* Mutant of SelectHigherPriority: blocking is not considered.
SelectUnblocked(e, l, r) ==
    IF ~TaskEnabled(e, l) \/ ~TaskEnabled(e, r) THEN IF TaskEnabled(e, r) THEN r ELSE l
    ELSE Earlier(e, l, r)

SelectHigherPriority(e, l, r) ==
    IF ~TaskEnabled(e, l) \/ ~TaskEnabled(e, r) THEN IF TaskEnabled(e, r) THEN r ELSE l
    ELSE IF Priority(l) > Priority(r) /\ BlocksLowerPriority(r) THEN r
    ELSE IF Priority(r) > Priority(l) /\ BlocksLowerPriority(l) THEN l
    ELSE Earlier(e, l, r)

GetNextTask(e, tasks) ==
    FoldLeft(LAMBDA best, t : SelectHigherPriority(e, best, t), Head(tasks), Tail(tasks))
=============================================================================
