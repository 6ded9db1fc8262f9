# opendnp3: a TLA+ verification of the DNP3 stack

This directory verifies the C++ DNP3 stack of this repository (`cpp/libs`): the
protocol state machines that decide what is sent, what is acknowledged, what is
thrown away and what is carried out. Every definition is a translation of the
code at the lines that `PROJECT.json` ("map") gives for it; paths below are
relative to `cpp/libs/src/` unless they say otherwise.

    tlc -workers 2 -config OutstationPolled.cfg MCOutstation    # any run
    tlapm EventReportingProofs.tla                              # the proofs, by component:
                                                                # EventBufferProofs, LinkLayerProofs,
                                                                # OutstationProofs, MasterProofs,
                                                                # ChannelProofs, SecureAuthProofs, FoldSteps

## 1. The system

A stack is a chain of layers that call each other on one strand (an executor
that runs one callback at a time), so an entry point of a layer runs to
completion before another one starts. Concurrency is therefore the *order* of
entry points: frames, send results, timers, posted lambdas, user calls and the
channel opening or closing can come in any order the strand allows.

    application   OContext (outstation)            MContext (master)
                  EventBuffer, Database            MasterScheduler, tasks, task lock
    transport     TransportLayer: TransportTx, TransportRx
    link          LinkContext: primary and secondary station
    router        LinkLayerRouter, LinkLayerParser
    channel       PhysicalLayerMonitor, PhysicalLayer*

Each layer tells the one above `OnLowerLayerUp/Down`, `OnReceive` and
`OnSendResult`; it calls `BeginTransmit`/`Send` of the one below. The contract
(`opendnp3/LayerInterfaces.h`) is one outstanding send per layer, with a
guaranteed result unless the layer goes down first.

### Inventory

| Component (code) | State | Operations | Hard behaviour | What makes it correct |
|---|---|---|---|---|
| Event buffer (`opendnp3/outstation/EventBuffer.*`, `EventCount`, `EventWriter`, `SOERecord`) | SOE list, selected/written flags, three counters per type and class, overflow flag | `Update`, `SelectAllByClass/Type`, `Load`, `ClearWritten`, `Unselect`, `IsOverflown` | the counters are never recomputed; discarding the oldest event during a confirm wait; unsigned differences | counters equal what they count; events leave only confirmed or as the oldest of a full type; order of occurrence; overflow is reported |
| Outstation (`opendnp3/outstation/OutstationContext.cpp` and its classes) | online/transmitting flags, two response channels, sequence numbers, one confirm timer, one deferred request, last request and response, selection of SELECT | `OnReceive`, `OnSendResult`, confirm time-outs, `OnLowerLayerUp/Down`, database transactions | solicited and unsolicited responses interleave; repeats, late and duplicate confirms; one timer and one deferral slot for two channels | a request is carried out once; a repeat gets its own response; only confirmed events are dropped; waits end |
| Database (`Database.*`, `DatabaseBuffers.*`, `StaticBuffers.cpp`, `IndexSearch.h`, `StaticLoadFunctions.*`) | cells with value, classes, last event and selection; a selected range per type | `Update`/`Modify`, `SelectAll`, `SelectRange`, `Load`, `Unselect`, `AssignClass` | a selection written over several fragments while values change; two index modes; headers counted in 8 or 16 bits | the master reads each point it asked for once, as it was at the READ; after the events its image is current |
| Data link (`opendnp3/link`) | states of the primary and secondary station, frame count bits, retries, response and keep-alive timers, one pending frame per role | `Send`, `OnFrame`, `OnTransmitResult`, time-outs, `OnLowerLayerUp/Down` | lost and late acknowledgements, retries, one transmission shared by two roles | no segment delivered twice or out of order; success means delivered; every send ends with one result |
| Transport (`opendnp3/transport`) | next number to send, expected number, partial fragment | `BeginTransmit`, `GetSegment`/`Advance`, `ProcessReceive`, `Reset` | segments lost or skipped, failure in mid-payload, reconnects | only whole fragments go up |
| Router (`asiodnp3/LinkLayerRouter.cpp`) | sessions, transmit queue, write under way | `BeginTransmit`, `OnSendResult`, `Enable/Disable/Remove`, open/close | a session is disabled or removed while its frame is queued or written | the queue never stalls; the sessions that are enabled, and only they, know of the connection |
| Channel (`asiodnp3/PhysicalLayerMonitor*.cpp`, `DNP3Channel.cpp`, `StackLifecycle.cpp`, `asiopal/PhysicalLayerBase.cpp`) | a 15-state machine, retry back-off, what the physical layer has under way | `Start`, `Suspend`, `Shutdown`, open/read/write callbacks, back-off timer, blocking shutdown | requests while opening or closing, callbacks of cancelled operations | connected, or trying, exactly while a session is enabled; no invalid operation; shutdown returns |
| Master (`opendnp3/master`) | active task, task queue, sequence numbers, response/schedule/start timers, confirm queue, task lock | `OnReceive`, `OnSendResult`, time-outs, `Schedule*`, `OnPendingTask` | time-out against late response; confirm sent while a task waits; tasks of several masters on one line | no task lost or run twice; one callback per command; late answers ignored; the lock is passed on |
| Frame parser (`LinkLayerParser.cpp`, `ShiftableBuffer.cpp`) | receive buffer and parse state | `OnRead` | resynchronisation after damaged bytes | every intact frame after noise is found |
| Secure authentication (`secauth/`) | users, session keys, outstanding challenge, deferred request, update key change | overrides of `OnReceive`, `CheckForTaskStart`, `OnLowerLayerUp/Down`; the master's key and user tasks | challenge, keys, users and the deferred request change independently; replies are lost or late | nothing critical runs unauthenticated or twice; sessions follow their users and keys; a challenge ends |
| APDU parsing/formatting, generated objects | none | pure functions | | |
| Executor, threads, TLS (`asiopal`, `openpal`) | queues, timers | `Post`, `Start`, `Cancel` | platform | |

`PROJECT.json` lists the components with their status, and under "hazards" what
in this code is hard to test, each at the line where it bites, with the
properties that cover it.

## 2. Modules

| Module | Models | Uses |
|---|---|---|
| `EventBuffer` | the event buffer as operators on a record | |
| `EventReporting` | the buffer under every caller it has: updates, READ selection, responses, confirms, time-outs | `EventBuffer` |
| `EventBufferProofs` | lemmas about the operations of the buffer | `EventBuffer` |
| `EventReportingProofs` | theorems about `EventReporting` | `EventReporting`, `EventBufferProofs` |
| `Outstation` | the outstation application layer | `EventBuffer` |
| `OutstationProofs` | theorems about `Outstation` | `Outstation`, `EventBufferProofs`, `FoldSteps` |
| `Database` | static cells, index search, selection, range headers, class assignment, as operators | |
| `StaticReporting` | a master polling that database, with events and losses | `Database` |
| `LinkContext` | one link station, as operators on its context | |
| `LinkLayer` | a station between a transport layer, a router and a peer that may send anything | `LinkContext` |
| `LinkLayerProofs` | theorems about `LinkLayer`, `LinkPair` and `TransportPair` | `LinkLayer`, `TransportPair` |
| `OrderedDelivery` | the abstract promise of a confirmed link | |
| `LinkPair` | two stations over a lossy line, with the refinement mapping to `OrderedDelivery` | `LinkContext` |
| `Transport` | segment numbering and reassembly as operators | |
| `TransportPair` | the transport layers on top of `LinkPair` | `LinkPair`, `Transport` |
| `MasterTasks` | the tasks of a master, their order and how each takes a response | |
| `MultidropTaskLock` | the lock that the masters of a channel share | |
| `Master` | the masters of one channel: context, scheduler, timers | `MasterTasks`, `MultidropTaskLock` |
| `MasterProofs` | theorems about `Master` | `Master`, `FoldSteps` |
| `ChannelContext` | physical layer, monitor and router, as operators | |
| `ChannelService` | the abstract promise of a channel to its sessions | |
| `Channel` | a channel with its stacks, callbacks, users' threads and shutdown; implements `ChannelService` | `ChannelContext` |
| `ChannelProofs` | theorems about `Channel`, its refinement of `ChannelService` included | `Channel`, `FoldSteps` |
| `AuthContext` | the outstation of secure authentication, as operators | |
| `SecureAuth` | master and outstation with secure authentication over a lossy channel | `AuthContext` |
| `SecureAuthProofs` | theorems about `SecureAuth` | `SecureAuth` |
| `FoldSteps` | induction over a fold, for the proofs | |
| `MC...` | constants for TLC | |

An action is one entry point. What the entry point calls is a composition of
operators on the context record, in the order of the code, so trailing calls
(`CheckForTaskStart`, `TryPendingTx`, `RemoveFromCounts`) are part of the action.

### Event buffer

An event is `[id, type, clazz]`; the SOE list is the set of its events, ordered
by `id` (`Add` only appends). The flags of a record are membership in `selected`
and `written`. The counters are separate state, incremented and decremented as
in the code: that they agree with the sets is a property. `Visited` is the early
exit of `Unselect`, which stops walking when the counter says nothing is left.
`UInt32` is the modulus of the unsigned counters: 65536 stands for 2^32 and no
counter comes near it except by going below zero, which is the case that matters.
`OverflowTypes` are the types that `IsAnyTypeOverflown` looks at. A
call without a count selects up to 2^32 - 1 records.

`EventReporting` adds the callers. `phase` is the state of a response
(`selecting` while the headers of a READ are handled, `sent` while its confirm
is awaited) and `fragment` what the last fragment carries.

### Outstation

`ctx` is `OContext`. A request is `[function, seq, uns, objects]`; `objects`
says what the parser and the application make of the payload (well formed or
not, classes named, static items asked for, command and verdict). The parser
walks a request twice and handles nothing of a malformed one, so `valid` is one
bit. The digests that `RequestHistory` and `ControlState` keep are the payload
itself. `lower` holds the fragments handed down and not yet answered, `ran` what
the current entry point carried out.

The other variables observe: `heard` is the last fragment of each channel, the
only ones the master can confirm truthfully (`ReceiveConfirm` still delivers
every confirm, stale ones included); `acked` the events in a confirmed fragment;
`greeted` whether a null unsolicited response was confirmed in this session;
`attempt` the request that the master is repeating and how often it ran.

Guards and order follow the code: the deferral slot is one request,
overwritten by a later one; `DeferredRequest::Process` empties the slot after the
handler; `TimerRef::Start` does nothing while the timer runs; an expired timer
is ended before its callback.

### Database and static reporting

`db` is `Database` with its buffers: per type a view, which maps raw indices to
cells in the order of their virtual indices, and the selected range. `Search` is
the binary search over a discontiguous view with the width of its `uint16_t`
bounds; `FindRawRange` adjusts what it finds to the points that lie in the
range asked for. `Load` writes range headers: the objects of consecutive selected
cells with one variation, a header of one- or two-byte indices, a bit field for
g1v1, until the fragment is full. The stop index of a header is written when the
iterator is destroyed; until then it is what was in the buffer (`StaleByte`).

`StaticReporting` adds the master: `Parse` reads the headers of a fragment as
`APDUParser` and `RangeParser` do, `Convey` is what an object keeps of a
measurement (16-bit counters are truncated, 16-bit analogs clamped and flagged,
objects without flags are taken as online). `chosen` is the reference:
the points and values that the READ asks for at the moment it is served. The
event queue is a sequence here; its limits are `EventBuffer`'s subject. Times are
left out and values are 32-bit integers.

### Link, transport

A station is one record with the fields of `LinkContext`; `sent`, `up` and
`results` collect what one entry point gives to the router, to the transport
layer and to the executor. Addressing is left out (`LinkLayer::Validate` has
accepted the frame). The ghost `overwrote` is set when a transmit buffer is
formatted while the frame in it is still queued or being written.

In `LinkLayer` the peer may send any frame at any time. In `LinkPair` the peer
is the same code and the line keeps the order and loses frames: a damaged frame
is dropped by the receiver's parser; a failed write loses the frame that was
being written. `clean` says that no payload failed in this session, `prompt` that
no time-out came while an answer was still under way. `TransportPair` joins each
step of `LinkPair` with what the transport layers do in the same call:
numbering when a payload is handed over, `Advance` when a segment is
acknowledged, `ProcessReceive` when one is delivered, `Reset` when the line goes
down. A posted send result runs before the layer is brought up again, because
the executor is first-in first-out.

### Master

`MasterTasks` gives each task class its priority, whether it blocks lower
priorities, when it runs first and when again after each completion, and how it
takes a response. Times are ticks that remain: `Tick` counts every expiration and
timer down. `Master` composes the handlers on a record that also carries the
shared lock (with the masters it was told of since its last reset, `known`), because a handler of one master may wake another. A `master[i]` has
the fields of `MContext` (`tstate` IDLE, TASK_READY, WAIT_FOR_RESPONSE, `active`,
`solSeq`, `confirmQueue`, `isSending`), of its scheduler (`tasks`, `scheduleTimer`,
`startTimer`) and of its tasks (`expiration`, `startBy`, `step`); `bound` are the
user's scans and `posted` the calls of `CheckForTask` on the executor.

The outstation is the environment: `asked[i]` says which fragment it may still
send in answer to the latest request and which number a late answer would have.
`unprompted` are the masters that demanded a task for an indication after which
`MContext` does not look at its queue (see section 7).

### Channel

`ch` joins the three classes whose calls nest: `PhysicalLayerBase` (`isOpen`,
`isOpening`, `isReading`, `isWriting`, `isClosing`), the monitor (`state`, `timer`,
`currentRetry`) and the router (`records`, `transmitQueue`, `isTransmitting`). Of a
session only what the router sees is kept: `up` and `sending`. Completions come
as callbacks of their own, also those of operations that were cancelled; timers
that were cancelled are still collected (`canceled`), which
`ASIOExecutor::WaitForShutdown` waits for. Each callback names the sessions
(`talkers`) that answer it with a frame of their own. `refused` collects failed
asserts and operations logged as invalid. `phase` is the thread in
`DNP3Channel::Shutdown`, which removes the stacks one by one, asks for the
shutdown and waits; anything else may run between its steps.

### Secure authentication

Cryptography is perfect: a key or nonce is a number and a MAC or wrapped key the
record of what went into it. Requests carry an `id` that no code looks at and
that stands for their contents. `o` is the outstation with its user database,
session store, challenge, key change and deferred request; `m` is the master with
one active task (session key change, user request, user status change, begin and
finish of an update key change). `ConfigureUser` and `AddMasterUser` are the calls of
the application that give a user another update key (`OutstationStackSA`,
`MasterStackSA`), first to the outstation. The channel delays and loses messages in order.
Choices of the random generator and expiry checks are quantified. `vouched`
records which requests the master answered challenges for.

## 3. Runs

Passing runs (states and time with 2 workers):

| Run | Instance | Shows |
|---|---|---|
| `event_reporting` (131 000, 20 s) | 2 types (limits 2 and 1), 2 classes, 4 events, 2 headers per READ, drift up to 2 | counters exact, order of occurrence, `Unselect` complete, events leave only confirmed or as the oldest |
| `outstation_polled` (62 000, 2 min) | 6 requests, 2 events, fragments of 1 item, no unsolicited | right response for a repeat, controls carried out once, fragments numbered, only acknowledged events cleared, waits ended, deferred requests taken up |
| `outstation_unsolicited` (437 000, 1 min) | READ, ENABLE, DISABLE, 2 events, unsolicited on | one fragment at a time, null response first, no event of an enabled class unwritten at rest, no orphan timer |
| `link_layer` (13 000, 40 s) | confirmed and unconfirmed, sends of 1 or 2 segments, 2 retries | segments present, timer, buffers and results consistent whatever the peer sends; a send ends |
| `transport_pair` (777 000, 45 s) | 2 payloads of 4 segments, 2 retries, 2 frames in flight each way | the link implements `OrderedDelivery`; whole payloads only; a payload reported as sent has reached the application |
| `master` (222 000, 1 min) | one master, 2 start-up tasks, a scan, a select-before-operate command, 4 kinds of response, unsolicited responses | no task lost or doubled, a due task is looked at, late answers ignored, priorities, one callback |
| `multidrop` (159 000, 1 min) | two masters that are disabled alone or together, two commands, unsolicited responses | the lock keeps what it was told since its last reset, and is passed on; a command ends, or the lock forgot its master |
| `channel` (62 000, 2 min) | 3 sessions on 2 routes, 2 frames queued | nothing refused, serves the enabled, implements `ChannelService`, frames are written, shutdown returns |
| `secure_auth` (2 301 000, 2.5 min) | a user who is configured anew, changed and deleted, 4 requests, 1 reconnect, 1 message under way each way when a task starts | critical requests carried out once and vouched for; sessions current; challenges end |
| `static_reporting` (97 000, 1 min) | 3 binary and 4 analog points with gaps, 6 READs, 3 changes, 2 polls, fragments of 15 bytes | an answer is a snapshot; selection covered; image current |

Runs that end in a violation, each a disagreement between the code and what the
repository says of it (quoted under "findings"):

| Run | Property | What happens |
|---|---|---|
| `outstation_event_loss` | `ClearedOnlyIfAcked` | an unsolicited response goes out during a solicited confirm wait; the solicited confirm clears the events of both |
| `static_256` | `AnswerIsSnapshot` | 256 points with one-byte indices: the 8-bit object count wraps to 0 and the stop index is never written |

Two conditions recur in the properties of the lower layers. `clean`: after a
payload failed because an ACK was lost, the frame count bit is out of step and
the number of the segment that did arrive is used again, so the first segment of
the next payload is acknowledged and discarded and its other segments continue
the abandoned fragment; `FragmentsIntactWhileClean` and
`SentMeansReceivedWhileClean` therefore end with the first failed payload of a
session, while `DeliversInOrder` has no condition. `prompt`: an ACK carries no
number, so an ACK that comes after its time-out is taken for the next frame's.

### Bounds

All bounds are CONSTANTS and only the guards of the environment use them.

* `MaxEvents`, `MaxTransaction`: two events with room for two fill the buffer;
  four events with limits 2 and 1 overflow both types, also during a confirm wait.
* `MaxHeaders`, `MaxDrift`: two headers are enough for an overlap. The drift of
  `selectedCounts` has no limit in the code; `MaxDrift` cuts behaviours off once
  it exceeds 2, which is after the first surplus and its effect on later polls.
* `Capacity = 1`: every response with an event and a static item needs two
  fragments.
* `SeqModulus`: 4 in the outstation runs stands for 16: requests use the numbers
  0 to 2, so a response of two or three fragments wraps, and no response has as
  many fragments as there are numbers. 3 for a master: a late answer is assumed
  to come before a second further request, so three numbers tell apart what
  sixteen do. 2 in `multidrop`: its replies are single fragments and a late one is
  `master`'s subject.
* `SelectTimeout`, `RetryPeriod`, `PollPeriod`, `StartTimeout`: 1 or 2 ticks, so
  that each of two timers can come first. `StartTimeout` 0 in `multidrop`: the
  start timer of a command may fire at any moment from its submission on.
* `NumRetry` 2; `MaxInFlight` 2: a frame and its repetition coexist with their
  late answers. `MaxSegment` 8 in payloads of 4: late ACKs make a
  skip segments that were lost, and two in a row can be skipped in the middle only
  of a payload of four.
* `TpduModulus = 64` as in the code. With a modulus below the number of segments
  lost in a row, reassembly does join different fragments; with 64 that takes 64
  consecutive losses.
* `MaxPosts`, `MaxConfirms`: the executor's queue and the confirm queue grow
  with the inputs; an input comes only while they are short, which bounds
  how far the environment runs ahead, not what the master does.
* `MaxFragments` 2: a first, a last and a repeated first fragment.
* `MaxQueue` 2, `MaxCanceled` 1: a frame being written and one behind it; a
  cancelled timer beside a running one.
* `MaxRequests` 4: session keys (two requests), a critical request and an update
  or deletion that comes in between; `MaxAuthCount` 2 is reached. An update key
  that the authority changes takes three requests, so in this instance it meets
  no session; `ConfigureUser` replaces the key of the user, at any moment of a
  session or of its key change, by the same `AddUser`. User 1 is the only one that
  gets a session within the bound: that each user's requests are carried out for
  that user is the theorem's.
* `Configured`: the key with which user 1 is configured anew, once on each side.
* `FragmentSize` 15 bytes: two or three objects, so class 0 takes several
  fragments and a fragment may hold headers of two types. View sizes 3 and 4 and
  gaps in the indices let every branch of the search run except the wrap
  described in section 7.
* Lost frames and, except in `secure_auth`, reconnects are not bounded.

### Deadlock and fairness

Deadlock is checked in every run but those of `Channel`, which is at rest after
its shutdown, `SecureAuth` and `StaticReporting`, which stop when their requests
are used up. Five specifications state fairness, and only runs with liveness
properties use them.

* `Outstation!Fairness`: a running timer fires and the lower layer answers a
  fragment it was given: the timer is the executor's and the answer is
  the contract of `LayerInterfaces.h`. The master owes nothing.
* `LinkLayer!Fairness`: the router answers, the response timer fires and the
  executor runs what was posted. `SendEnds` excludes a peer that keeps sending
  for ever and keep-alive timers that fire for ever, because the code has no
  bound against either: a keep-alive goes before data, and a peer that answers
  data with NACK and resets with ACK restarts the retries.
* `Master!Fairness`: transmissions are reported, response timers fire, posted
  calls run. Ticks owe nothing: a command that is not started because time
  stands still is due already and waits for the lock only.
* `Channel!Fairness`: the operating system completes opens and writes, cancelled
  reads and cancelled timers; the strand runs what is posted; the thread that
  shuts down goes on. A read of a silent line, and the back-off timer, owe
  nothing.
* `SecureAuth!FairSpec`: the challenge timer fires.

`TaskEnds` has a premise besides: no master sends without end. Transmissions are
reported, but confirms go before requests (`MasterContext.cpp:284`), and an
outstation that keeps sending responses to confirm can keep a task from starting.

`Outstation`, `Master`, `Channel` and `SecureAuth` spell weak fairness out with the condition
that enables the action or what its step changes, which TLC evaluates faster.

## 4. Proofs

Thirty of the properties that the runs check on small instances are
theorems for every value of the constants. One module for each component proves
them, from an inductive invariant called `IInv`, one lemma for each operator or
handler that changes state, and one step for each action. Every theorem rests on
the named assumptions of its module only (`ConfigAssumption`, `LinkAssumption`,
`OutstationAssumption`, ...), which TLC evaluates in the runs. Seven theorems have a
hypothesis of their own; each is needed, and said below: `FragmentsAreWhole`,
`ShortRunsAreWhole`, `SentIsReceived`, `RepeatsAreNotCarriedOut`,
`ConfirmedBeforeCleared`, `ResponsesAreNumbered` and `LateResponsesAreIgnored`.

| Module | Theorem | Property |
|---|---|---|
| `EventReportingProofs` | `CountersCorrect`, `UnselectCompletes` | `CountsExact`, `UnselectIsComplete` |
| | `EventsAreInOrder`, `EventsAreKept` | `ReportedInOrder`, `LeaveOnlyConfirmedOrOldest` |
| `LinkLayerProofs` | `SegmentsAreThere`, `TimerRunsWhileWaiting` | `SegmentsPresent`, `TimerIffWaiting` |
| | `LinkInvariants`, `SendHasOneResult` | `BuffersNotOverwritten`, `OneResultPerSend` |
| | `DeliveryInOrder` | `DeliversInOrder`, the refinement of `OrderedDelivery` |
| | `FragmentsAreWhole`, `ShortRunsAreWhole` | `FragmentsIntactWhileClean` |
| | `SentIsReceived` | `SentMeansReceivedWhileClean` |
| `OutstationProofs` | `SlotIsRespected`, `RepeatsAreAnswered` | `OneFragmentAtATime`, `RepeatGetsItsResponse` |
| | `NullComesFirst`, `TimerIsWaitedFor` | `NullBeforeData`, `TimerHasAWaiter` |
| | `EventsAreReported`, `RepeatsAreNotCarriedOut` | `NothingUnwrittenAtRest`, `CarriedOutOnce` |
| | `ConfirmedBeforeCleared`, `ResponsesAreNumbered` | `ClearedOnlyIfAcked`, `FragmentsNumbered` |
| `MasterProofs` | `TasksAreAccounted`, `DueIsLookedFor` | `TasksAccounted`, `DueIsChecked` |
| | `LateResponsesAreIgnored`, `LockIsAlwaysPassedOn` | `LateIsIgnored`, `LockIsPassedOn` |
| | `StartsAreByPriority`, `TasksEndWithOneCallback` | `StartsByPriority`, `EndsWithOneCallback` |
| `ChannelProofs` | `NothingIsRefused`, `EnabledAreServed` | `NothingRefused`, `ServesTheEnabled` |
| | `ImplementsTheService` | `ImplementsService`, the refinement of `ChannelService` |
| `SecureAuthProofs` | `SessionsStayCurrent`, `OnlyVouchedIsCarriedOut` | `SessionsAreCurrent`, `CarriedOutIsVouched` |

`OutstationInvariant`, `MasterInvariant`, `ChannelInvariant` and
`SecureAuthInvariant` state the invariants themselves, `TypeCorrect` the types of
the outstation; `FoldSteps` is a lemma that three of the proofs use.

### Event buffer

`CountsExact` alone is not inductive: `RemoveFromCounts` and `ClearWritten`
subtract what is flagged, so the flags must be subsets of the list and the
counters of the right shape; and `Unselect` leaves flags behind unless its early
exit is safe, which is `SelectionCovered`: the selection counter is at least the
number of selected records. The counter is not *equal* to that number (see
section 7), so the invariant is the inequality that the code really maintains,
and the walk of `Unselect` is shown complete from it. `IInv` is
`TypeOK /\ CountsExact /\ SelectionCovered` with records that are not from the
future. The argument goes by operators, in `EventBufferProofs`: for each of
`UpdateAny`, `Unselect`, `SelectRecords`, `Load`, `ClearWritten` and
`CheckOverflow` a lemma says that it takes a good buffer to a good buffer
(`GoodBuffer`), from lemmas about how `Plus` and `Minus` follow the union and
difference of sets and finite-set cardinality.

The order of reporting needs that nothing is written while a selection is made,
and that what is written during a confirm wait is in the fragment (`InOrder`);
`OldestComeFirst` compares the records a fragment takes with those it leaves. That
an event only leaves confirmed, or as the oldest of a *full* type, needs `Limited`:
no type exceeds its maximum. The hard case is the other half of `MustDiscard`: the
buffer is full in total. `TotalEvents` is a fold over the maxima, so that a buffer
with as many records has *every* type at its maximum is proved by the smallest
set of types that would not fit (`AllFit`).

### Link station

None of the properties is inductive alone. A handler formats its role's buffer
because its state is not a transmit-wait state, which says that the buffer is
free only if transmit-wait states and queued frames go together; that in turn
needs that a role never has a frame with the router *and* one pending
(`PriQueued`, `SecQueued`). A state that reads the segments has some because no
other state completes a send (`PriWaits`). And a layer that is down has to be at
rest (`AtRest`), or a transmit result or a timeout could run before it is up
again. `IInv` is the conjunction; `Ready` is the weaker condition inside a
handler, after the timer was cancelled or the frame left, from which a frame may
be queued. One lemma for each handler says that it takes a good station to a good
one and that the send operation is left alone (`SameSend`) or ended with one
result (`EndsSend`).

### Two stations

The same handlers, run by two stations with a line between them. What an entry
point of the sender or of the receiver may do is said once for each
(`AckMoves`, `TimeoutMoves`, `KeepAliveMoves`, `ReceiverMoves`, ...), and the pair
is then reasoned about in terms of these moves: a rests, sends the frame of
its state or ends the payload; b takes a segment or not.

`DeliveryInOrder` needs an invariant over a's frame count bit, b's, and *every*
frame on the way (`PairInv`, with `Line`). Segments on the line are in the order
they were sent, with one bit for each, and none comes before a reset (`InOrder`). A
copy of the segment that b got last has the bit that b no longer expects, and
no reset comes behind it on the line (`Behind`): this is why a late repetition
is discarded. What a is about to send is not older than what is on the line, and
if b has it already then the two bits differ (`Ahead`). Acknowledgements carry
nothing, so the invariant makes no statement about them; any acknowledgement may
come at any time. Each step then maps to a delivery of the next
segment, a hand-over, or a stutter of `OrderedDelivery`, where segments may be
skipped but are not repeated or reordered.

For whole fragments `WholeInv` adds the transport layers. While no payload has
failed in a session, one offset relates the number of each segment to its
count: `Session(h, c)` says that since the `h` segments of earlier sessions all
segments are numbered `c` ahead modulo `TpduModulus`, and that the line holds
nothing older. `Reading` says what b's transport layer has read: consecutive
segments from a first one, of this session, whose successor is expected next.
A segment that was missed makes the next number unexpected, unless *as many* were
missed as there are numbers. TLC has an example: with `TpduModulus` 2 and
payloads of four the segments 1 and 4 are joined to a fragment. So
`FragmentsAreWhole` assumes `FewMissed` of a behaviour: between two segments that b
reads in one fragment there are fewer than 64 that were lost after a took a late
acknowledgement for theirs. `ShortRunsAreWhole` has no such condition, and holds of
any run that has no more segments than there are numbers, the one TLC checks
included.

What `SentIsReceived` needs besides is that an acknowledgement is for the segment
a is at, which `PairInv` leaves open. While every time-out comes after all answers
(`prompt`) stations and line take turns: there is at most one frame on the way, the
question of a's state or its answer (`Turns`); an acknowledgement on the way is
of the reset, or of the segment a is at and b has got (`Truthful`); the frame count
bits agree, but for a segment b has and a may repeat (`InStep`); and b's transport
layer has read what was acknowledged and at most one segment more, having handed the
payload up after its last one (`AllRead`). The bits agree only while no payload has
failed: the one after it may begin with a bit that b no longer expects (section 7). A late time-out
ends all of this, so the invariant is `prompt => WholeInv /\ PromptInv`, and that step,
which reports no success, is looked at by itself. No segment is missed in such a
behaviour, so `FewMissed` holds and is not assumed. The theorem does assume that
`PayloadSegments <= RxCapacity`: the two stations are configured apart, and a payload
that is too long for b's receive buffer is acknowledged segment by segment by the link
layer and dropped by `TransportRx`.

### Outstation

`Sound` is what holds at any point of an entry point: `Slot` (a fragment is with
the lower layer exactly while `isTransmitting`), `Waiter` (a running timer has a
channel that waits for it) and `NullFirst` (a confirm that can complete the null
response, heard, sent or deferred, is of an unsolicited fragment without events).
`Good` adds `Kept`: the response that a repeat will get is the response to the
request in the history, also while another request is deferred. Between entry
points three more conditions hold (`InOrder`): no confirm stays deferred when it
could be handled (`Prompt`), nothing of an enabled class is unwritten at rest
by the counters (`Settled`), and an unsolicited fragment under way is the last one
heard (`Shown`). That the counters are exact (`GoodBuffer`) makes of `Settled` that
each event of an enabled class that is left at rest is a written one. It need not
have been reported: `OutstationSolicitedStates.cpp:150` leaves the events of a
response whose confirm did not come written. The first two hold only because every entry point ends in
`CheckForTaskStart`. A transaction applies its events by a fold; `Transaction`
carries the invariant through it.

`RepeatsAreNotCarriedOut` assumes `~AllowUnsolicited`. Its invariant `OnceInv`
counts what was carried out for the attempt before and inside the entry point,
and needs that nothing but the attempt itself and confirms is ever deferred. With
unsolicited responses `CarriedOutOnce` is false: see `OutstationContext.cpp:283`
in section 7.

`ConfirmedBeforeCleared` and `ResponsesAreNumbered` rest on `TrackInv`, which ties
the event buffer to the response under way. `Held`: the confirm awaited is that of
the last fragment, and what the buffer has as written is in it. `HeardLast`: this
fragment is the one the master has, or will have, heard last. `Backed`: a confirm
that was deferred is on record as one the master gave. Each holds because every
fragment of a response that is abandoned, by a time-out, by a new request or by
the end of a session, is followed by `Unselect` before anything is written again.
Unsolicited responses break all three: they write events while a solicited
response waits, which is the run `outstation_event_loss`; hence `~AllowUnsolicited`.

`Counted` says that a response at its k-th further fragment has a number k ahead
of its request's, and that what it still has to report fits behind the k
fragments that were full. A request asks for at most what the buffer can hold
and its static items (`Asked`), so `FewFragments`, that this fits in one fragment
less than there are numbers, keeps the numbers from coming round. It is not an idle
condition: a longer response does come back to the number of its request. The
instance of `outstation_polled` meets it with equality. Events that are added
while the response is under way are not selected, and so cannot lengthen it; that
the count is not exact but for one last, empty fragment (the surplus of
`selectedCounts`, section 7) is the second case of `CountedAt`.

### Master

`IInv` has four parts. `Scheduled`: the tasks a master has are those its state
calls for, each once, its response timer runs exactly while it waits, and a check
is posted or the schedule timer will run out in time. `Untold`: a single-shot task
is with one master and was not called yet. `Numbered`: a late answer has the
number of a request that timed out, and the requests since have the numbers that
follow; this holds only if `MaxFragments < SeqModulus`, as a response with as
many fragments as there are numbers comes back to the number of an old one.
`Locked`: the lock is in order and each master that it knows has its place in it.
A master that is disabled alone resets the lock of the others (`ITaskLock.h:33`
in section 7); the history `known` of the lock says which masters came up or asked
for it since, and the masters that it does not know are in no place. The handlers of one master are
shown to be a step for it and for the lock, then put together for all masters,
because releasing the lock runs the handler of another. `StartsByPriority` excuses
a lower priority that a blocking task holds back; the proof shows that the
excuse is never needed.

### Channel

`Sound` joins five views of one record. `Physical`: the monitor's state tells
what the physical layer has under way. `Queued`: what is written is the head of
the transmit queue. `Told`: exactly the enabled sessions have been told of the
connection, but those the router has forgotten and nobody deleted yet.
`Requested`: the state fits the request that was made last, and the request fits
the sessions. `Pending`: a layer that is closing waits for a completion, without
which it would have closed. All but the last hold in the middle of a handler
too, where callbacks nest. `ImplementsTheService` is a step simulation:
`Serves(c, d)` lists the four things that a handler may do to what the sessions
see, `ServesImplements` turns each into a step of `ChannelService` or a
stutter, and every action of `Channel` is shown to be such a step.

### Secure authentication

Request numbers order the path of a request: what is carried out is older than
what is challenged, that is older than what is deferred, and that is older than
what is under way (`Done`, `Challenged`, `Deferred`, `UnderWay`). So nothing can
be carried out twice, and a reply that comes late is for an older challenge.
`Honest` says that a reply under way is one the master gave for that request
and user, `Attributed` that what the master waits for belongs to the user it will
vouch for. `GoodSessions` says that a session that authenticates is one of a user
still there, set up for what the database has of that user, with its two message
counters equal and below the limit. `Live` says of each step that it carries out at
most one request, in a session that is valid at that moment, its time included.
A user that is configured anew starts without sessions, so `ConfigureUser` keeps
`GoodSessions` by the same lemma as a key change (`RemovedGood`).

### Techniques and limits

The prover has no induction over operators or data. For folds from the left,
`FoldSteps` replaces it: it takes the step and what holds after `i` elements as
constant operators, proves the induction once with well-founded minima, and is
instantiated for each fold (transactions, told sessions, task selection,
schedules, time-outs).

Only model-checked:

* Liveness (`SolWaitEnds`, `DeferredIsTakenUp`, `SendEnds`, `TaskEnds`,
  `EveryFrameIsWritten`, `ShutdownReturns`, `ChallengeEnds`): out of the prover's
  reach.
* `StaticReporting`: `Database` searches and loads with RECURSIVE operators.

## 5. Plan

Done: all layers of master and outstation with their state machines, secure
authentication and the static database; proofs about the event buffer, the link
station, two stations and a line, the outstation, the master, the channel and
secure authentication, and the refinements of `ChannelService` and
`OrderedDelivery`. Next: the operators of `Database` as recursive functions, so that
what `StaticReporting` checks can be reasoned about.

## 6. Not modelled

* Bytes: link frame encoding and its parser (`LinkLayerParser`, `ShiftableBuffer`,
  CRCs), the octets of APDU objects, count and prefix headers. They are
  algorithms over octets without protocol state; the models use their verdict.
* Generated object and enumeration code, of which only sizes, flags and widths of
  the static objects matter (`Database!Layout`).
* Bindings (`dotnet`), examples, the log and statistics code, the DNP3 decoder.
* Threads below the strand, TLS, serial ports: I/O and third-party code.
  `StartOne`, `Close` and the `*One` states of the monitor have no caller in the
  libraries.
* In `SecureAuth`: the wrap of the 32-bit status change number, failures to
  verify a certification (they end like an old number), aggressive mode (the
  parser exists, nothing calls it), and confirms.
* In `Database`: dead bands other than 0, times, frozen counters (always written
  as g21v1), octet strings.

Of the implementation's lines the map covers the C++ protocol library in the
components above; most of the rest is generated objects, the .NET bindings,
tests' support and platform code.

## 7. Disagreements seen while modelling, without a run

The models contain each of these. They have no violation run because the
property that would show it differs from one above only by the condition, or
because the repository states no expectation to hold the code to.

* `EventBuffer.cpp:221`: overlapping headers of one READ count a record twice in
  `selectedCounts`; the surplus stays and a later class poll leaves events out,
  though `EventBuffer.h:43` says the tracking only avoids looping.
* `EventBuffer.cpp:302`: `IsAnyTypeOverflown` does not look at SecurityStat, so
  its overflow is cleared unreported.
* `OutstationContext.cpp:357`: an unsolicited response sent while the shared
  timer runs for the solicited channel has none of its own and waits until the
  next session. `StartSolicitedConfirmTimer` and `StartUnsolicitedConfirmTimer`
  take their durations from the same parameter, and `unsolRetryTimeout` is not
  used; durations are abstracted here.
* `OutstationContext.cpp:283`: a deferred READ is answered after a command that
  arrived later and takes its place in the history; the repeated command runs
  again. A READ is deferred that long only behind the confirm wait of an
  unsolicited response: `CarriedOutOnce` is violated when these are allowed (a
  behaviour of nine states), so it is checked and proved without them.
* `DeferredRequest.h:70`: a request that its own handler defers again is lost.
* `PriLinkLayerStates.cpp:304`: after a failed payload the first segment of the
  next one may be acknowledged, discarded and reported as sent.
* `MasterContext.cpp:83`: queued commands are dropped without their callback when
  the layer goes down, which `ICommandProcessor.h:42` promises "upon completion or
  failure"; `EndsWithOneCallback` excepts that case. The confirm queue survives
  into the next session.
* `MasterContext.cpp:224`: a task demanded by the indications of an unexpected or
  late response, or of an unsolicited one that asks for no confirm, waits for the
  next occasion (`unprompted`); a demand during the task itself is overwritten by
  its completion.
* `ClearRestartTask.cpp:72` disables itself "so that it doesn't rapid-retry"; the
  restart bit of the very response that failed demands it again.
* `MasterScheduler.cpp:113`: the start timer is not set for the tasks that remain.
* `MasterContext.cpp:284`: confirms go before requests, so an outstation that
  keeps sending unsolicited responses keeps tasks from starting; `TaskEnds`
  assumes that every master stops sending again and again.
* `ITaskLock.h:33` "only 1 master is running a task at a time": `OnLayerDown` of
  one master that is disabled resets the lock of all (`MultidropTaskLock.cpp:83`,
  called at `MasterContext.cpp:101`). When M1 is disabled while M2 waits for a
  response, the lock forgets M2; when M1 is enabled again it gets the lock, and both
  wait for responses at once. A master that was queued stays ready to run and is
  woken by nobody; it goes on when the lock is online again and something makes it
  look for its task. `multidrop` contains both: `LockIsPassedOn` is about the masters
  the lock knows since its last reset, and `TaskEnds` excepts the task of a master
  that was forgotten (`Forgotten`).
* `OutstationSolicitedStates.cpp:150`: the events of a solicited response whose
  confirm did not come stay written, so that `UnwrittenClassField` does not count
  them and an outstation with unsolicited responses is silent about them until a
  READ, another event or the next session. Nothing in the repository says when
  they should be reported.
* `LinkLayerRouter.cpp:309`: a session that was disabled and enabled again while
  its frame was being written takes that result for the one of a new frame, and
  a session that was removed still gets it, though `LinkLayerRouter.h:87` calls
  removal at run time safe. `Remove` tells the session only when the channel is
  open.
* `OutstationAuthContext.cpp:679`: a CHANGE of an existing user gives the name a
  second id; DELETE then removes one of them, while `IOutstationApplicationSA.h`
  says (line 54) the user's update keys are deleted and its sessions invalidated.
  The session of the second id goes on. `SessionsAreCurrent` is about what a session
  rests on under its own id, and holds of that session too.
* `MasterAuthContext.cpp:316`: challenges and errors are accepted whatever their
  sequence number, and an error does not advance it. The master does not count
  the messages it authenticates with a session.
* `IndexSearch.h:155`: `midpoint - 1` wraps to 65535 when `midpoint` is 0 and
  `upper` is not: a search below the smallest index in a view of 2, 5, 6, ...
  points reads outside the view.
* `PollTaskBase.cpp`: the master confirms a fragment whose objects it could not
  parse, and the outstation then drops the events in it.
* `DatabaseBuffers.cpp:273`: the ranges of ASSIGN_CLASS are raw indices also in
  the discontiguous mode.
