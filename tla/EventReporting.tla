--------------------------- MODULE EventReporting ---------------------------
(***************************************************************************)
(* The event buffer in the hands of its one client, OContext: updates at   *)
(* any moment, and the reporting cycle select, load, confirm or time out   *)
(* that a READ or an unsolicited response runs                             *)
(* (cpp/libs/src/opendnp3/outstation/OutstationContext.cpp,                *)
(* ResponseContext.cpp, OutstationSolicitedStates.cpp,                     *)
(* OutstationUnsolicitedStates.cpp).  One response is outstanding at a     *)
(* time here; module Outstation has the two overlapping response channels. *)
(***************************************************************************)
EXTENDS EventBuffer

CONSTANTS Counts,      \* the counts a READ header can carry
          MaxHeaders,  \* event headers in one READ
          MaxEvents,   \* bound: events produced in a behaviour
          MaxDrift     \* bound: selectedCounts above the records selected

ASSUME ClientAssumption ==
    /\ Counts \subseteq Nat
    /\ MaxHeaders \in Nat
    /\ MaxEvents \in Nat
    /\ MaxDrift \in Nat

VARIABLES buffer,
          phase,     \* "idle", "selecting" (headers being parsed), "sent"
          headers,   \* event headers parsed so far in this READ
          nextId,    \* position of the next event in the SOE list
          fragment   \* the events of the fragment sent last

vars == <<buffer, phase, headers, nextId, fragment>>

Init ==
    /\ buffer = EmptyBuffer
    /\ phase = "idle"
    /\ headers = 0
    /\ nextId = 1
    /\ fragment = {}

\* GetDynamicIIN: every response asks for the overflow bit, and asking lowers
\* it when there is room again.
Respond(b) == buffer' = CheckOverflow(b)

\* The database reports a change of a point with an event class.
Update(t, c) ==
    LET e == [id |-> nextId, type |-> t, clazz |-> c]
    IN  /\ phase # "selecting"
        /\ nextId <= MaxEvents
        /\ buffer' = UpdateAny(buffer, e)
        /\ nextId' = nextId + 1
        /\ UNCHANGED <<phase, headers, fragment>>

\* HandleRead and CheckForUnsolicited drop whatever was selected before.
BeginSelection ==
    /\ phase # "selecting"
    /\ buffer.selectedCounts.total - Cardinality(buffer.selected) < MaxDrift
    /\ buffer' = Unselect(buffer)
    /\ phase' = "selecting"
    /\ headers' = 0
    /\ UNCHANGED <<nextId, fragment>>

\* ReadHandler: one event header of the READ, by type or by class, all or a count.
SelectHeader(b) ==
    /\ phase = "selecting"
    /\ headers < MaxHeaders
    /\ buffer' = b
    /\ headers' = headers + 1
    /\ UNCHANGED <<phase, nextId, fragment>>

SelectClass(c, max) == SelectHeader(SelectByClass(buffer, {c}, max))
SelectType(t, max)  == SelectHeader(SelectByType(buffer, t, max))

\* LoadResponse: the n oldest writable events fit; at least one always does.
Send(b, n) ==
    LET loaded == Load(b, n)
    IN  /\ n > 0 \/ Writable(b) = {}
        /\ Respond(loaded)
        /\ fragment' = loaded.written \ b.written
        /\ phase' = IF loaded.written = b.written THEN "idle" ELSE "sent"

LoadResponse(n) ==
    /\ phase = "selecting"
    /\ Send(buffer, n)
    /\ UNCHANGED <<headers, nextId>>

\* The master confirmed the fragment: its events are done with, and the next
\* fragment of a longer response follows.
Confirm(n) ==
    LET cleared == ClearWritten(buffer)
    IN  /\ phase = "sent"
        /\ IF HasAnySelection(cleared)
           THEN Send(cleared, n)
           ELSE /\ n = 0
                /\ buffer' = cleared
                /\ phase' = "idle"
                /\ UNCHANGED <<fragment>>
        /\ UNCHANGED <<headers, nextId>>

\* A solicited response that times out keeps its selection.
SolConfirmTimeout ==
    /\ phase = "sent"
    /\ phase' = "idle"
    /\ UNCHANGED <<buffer, headers, nextId, fragment>>

UnsolConfirmTimeout ==
    /\ phase = "sent"
    /\ phase' = "idle"
    /\ buffer' = Unselect(buffer)
    /\ UNCHANGED <<headers, nextId, fragment>>

\* The response to a request that is not a READ.
RespondToNonRead ==
    /\ phase # "selecting"
    /\ Respond(buffer)
    /\ UNCHANGED <<phase, headers, nextId, fragment>>

Next ==
    \/ \E t \in EventType, c \in EventClass : Update(t, c)
    \/ BeginSelection
    \/ \E c \in EventClass, max \in Counts \cup {UInt32 - 1} : SelectClass(c, max)
    \/ \E t \in EventType, max \in Counts \cup {UInt32 - 1} : SelectType(t, max)
    \/ \E n \in 0..MaxEvents : LoadResponse(n)
    \/ \E n \in 0..MaxEvents : Confirm(n)
    \/ SolConfirmTimeout
    \/ UnsolConfirmTimeout
    \/ RespondToNonRead

Spec == Init /\ [][Next]_vars

----------------------------------------------------------------------------
\* The shape of every variable of the component.
TypeOK ==
    /\ buffer \in BufferType
    /\ IsFiniteSet(buffer.soe)
    /\ phase \in {"idle", "selecting", "sent"}
    /\ headers \in Nat
    /\ nextId \in Nat \ {0}
    /\ fragment \subseteq SOERecord

\* What is written is selected and what is selected is in the list, and the
\* two trackers nothing re-counts (all events, written events) are exact.  A
\* drift here would silence or repeat events for good (UnwrittenClassField,
\* MustDiscard and the IIN bits read these counters, never the list).
CountsExact == Exact(buffer)

\* selectedCounts never falls below the records that really are selected,
\* so that the early exits of Unselect and EventWriter::Write are safe and
\* no unsigned counter is taken below zero.
SelectionCovered == Covered(buffer)

\* Unselect leaves no record selected or written, although it stops walking
\* the list when selectedCounts reaches zero.
UnselectIsComplete ==
    [][(BeginSelection \/ UnsolConfirmTimeout) =>
          buffer'.selected = {} /\ buffer'.written = {}]_vars

\* An event leaves the buffer in two ways only: the fragment that carried it
\* was confirmed, or it was the oldest event of a type that was full.
LeaveOnlyConfirmedOrOldest ==
    [][\A e \in buffer.soe \ buffer'.soe :
          \/ phase = "sent" /\ e \in fragment
          \/ /\ e \in Oldest(OfType(buffer.soe, e.type), 1)
             /\ Cardinality(OfType(buffer.soe, e.type)) = MaxForType[e.type]
             /\ buffer'.overflow]_vars

\* Order of occurrence: what a fragment carries is older than what the same
\* response still has to report.
ReportedInOrder ==
    phase = "sent" => \A e \in fragment, f \in Writable(buffer) : e.id < f.id

=============================================================================
