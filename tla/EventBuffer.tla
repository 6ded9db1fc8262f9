---------------------------- MODULE EventBuffer ----------------------------
(***************************************************************************)
(* The outstation's sequence-of-events buffer, as operators on a buffer    *)
(* value (cpp/libs/src/opendnp3/outstation/EventBuffer.cpp, EventBuffer.h, *)
(* EventCount.cpp, EventWriter.h, EventBufferConfig.cpp).                  *)
(*                                                                         *)
(* The doubly linked SOE list is the set of its records: a record carries  *)
(* the position at which it was added (id), and every loop over the list   *)
(* visits records in the order of their ids.  The flags record.selected    *)
(* and record.written are the sets of the records that have them raised.   *)
(* The value, index, time and variation of an event only decide how it is  *)
(* laid out in a fragment and are left out.                                *)
(***************************************************************************)
EXTENDS Integers, FiniteSets, Functions

CONSTANTS EventType,      \* the measurement types that have events
          EventClass,     \* EC1, EC2, EC3
          MaxForType,     \* EventBufferConfig: the maximum of each type
          OverflowTypes,  \* the types IsAnyTypeOverflown() looks at
          UInt32          \* the number of values of a uint32_t

ASSUME ConfigAssumption ==
    /\ IsFiniteSet(EventType)
    /\ MaxForType \in [EventType -> Nat]
    /\ OverflowTypes \subseteq EventType
    /\ UInt32 \in Nat \ {0}

\* SOERecord without its two flags.
SOERecord == [id : Nat, type : EventType, clazz : EventClass]

OfType(S, t)    == {e \in S : e.type = t}
OfClasses(S, C) == {e \in S : e.clazz \in C}

\* Mutant of Oldest: new records are linked in at the head of the list.
Newest(S, n) == {e \in S : Cardinality({f \in S : f.id > e.id}) < n}

\* The first n records of S in list order.
Oldest(S, n) == {e \in S : Cardinality({f \in S : f.id < e.id}) < n}

----------------------------------------------------------------------------
(* EventCount: a total, one counter per class and one per type, always     *)
(* moved together.  Plus and Minus apply Increment and Decrement to every  *)
(* record of a set.                                                        *)

NoCounts == [total |-> 0,
             type  |-> [t \in EventType  |-> 0],
             clazz |-> [c \in EventClass |-> 0]]

Plus(k, S) ==
    [total |-> k.total + Cardinality(S),
     type  |-> [t \in EventType  |-> k.type[t]  + Cardinality(OfType(S, t))],
     clazz |-> [c \in EventClass |-> k.clazz[c] + Cardinality(OfClasses(S, {c}))]]

Minus(k, S) ==
    [total |-> k.total - Cardinality(S),
     type  |-> [t \in EventType  |-> k.type[t]  - Cardinality(OfType(S, t))],
     clazz |-> [c \in EventClass |-> k.clazz[c] - Cardinality(OfClasses(S, {c}))]]

NumOfClass(k, C) == SumFunctionOnSet(k.clazz, C)

----------------------------------------------------------------------------
TotalEvents == SumFunction(MaxForType)

EmptyBuffer == [soe            |-> {},
                selected       |-> {},
                written        |-> {},
                totalCounts    |-> NoCounts,
                selectedCounts |-> NoCounts,
                writtenCounts  |-> NoCounts,
                overflow       |-> FALSE]

IsFull(b) == Cardinality(b.soe) >= TotalEvents

\* Unlink the records of S from the list and take them out of the counters.
RemoveFromCounts(b, S) ==
    [b EXCEPT !.soe            = @ \ S,
              !.selected       = @ \ S,
              !.written        = @ \ S,
              !.totalCounts    = Minus(@, S),
              !.selectedCounts = Minus(@, S \cap b.selected),
              !.writtenCounts  = Minus(@, S \cap b.written)]

RemoveOldestEventOfType(b, t) ==
    RemoveFromCounts(b, Oldest(OfType(b.soe, t), 1))

\* A new event pushes out the oldest of its type when there is no room.
MustDiscard(b, t) == b.totalCounts.type[t] >= MaxForType[t] \/ IsFull(b)

UpdateAny(b, e) ==
    LET room == IF MustDiscard(b, e.type)
                THEN [RemoveOldestEventOfType(b, e.type) EXCEPT !.overflow = TRUE]
                ELSE b
    IN  IF MaxForType[e.type] = 0
        THEN b
        ELSE [room EXCEPT !.soe         = @ \cup {e},
                          !.totalCounts = Plus(@, {e})]

\* Mutant of Visited: the walk ends one selected record early.
VisitedShort(b) ==
    {e \in b.soe :
        LET before == {f \in b.soe : f.id < e.id}
        IN  before = {} \/ b.selectedCounts.total > Cardinality(before \cap b.selected) + 1}

\* The list is walked only while selectedCounts says that something is
\* selected: a record is visited when it is the first one, or when the
\* counter was still positive after the records in front of it.
Visited(b) ==
    {e \in b.soe :
        LET before == {f \in b.soe : f.id < e.id}
        IN  before = {} \/ b.selectedCounts.total > Cardinality(before \cap b.selected)}

Unselect(b) ==
    LET seen == Visited(b)
    IN  [b EXCEPT !.selected       = @ \ seen,
                  !.written        = @ \ seen,
                  !.selectedCounts = Minus(@, seen \cap b.selected),
                  !.writtenCounts  = Minus(@, seen \cap b.written)]

\* Records are selected from the front of the list whether or not an earlier
\* header selected them already, and are counted each time.
SelectRecords(b, S) ==
    [b EXCEPT !.selected       = @ \cup S,
              !.selectedCounts = Plus(@, S)]

Smaller(m, n) == IF m < n THEN m ELSE n

SelectByClass(b, C, max) ==
    LET remaining == (NumOfClass(b.totalCounts, C) - NumOfClass(b.selectedCounts, C)) % UInt32
    IN  SelectRecords(b, Oldest(OfClasses(b.soe, C), Smaller(remaining, max)))

SelectByType(b, t, max) ==
    LET remaining == (b.totalCounts.type[t] - b.selectedCounts.type[t]) % UInt32
    IN  SelectRecords(b, Oldest(OfType(b.soe, t), Smaller(remaining, max)))

SelectAllByClass(b, C) == SelectByClass(b, C, UInt32 - 1)

HasAnySelection(b) == b.selectedCounts.total > b.writtenCounts.total

\* The records EventWriter::Write may put in a fragment.
Writable(b) == b.selected \ b.written

\* EventWriter::Write: the fragment has room for the n oldest writable records,
\* and the walk ends early once the counters say that none is left.
Load(b, n) ==
    LET left == b.selectedCounts.total - b.writtenCounts.total
        S    == Oldest(Writable(b), Smaller(n, left))
    IN  [b EXCEPT !.written       = @ \cup S,
                  !.writtenCounts = Plus(@, S)]

\* Mutants of ClearWritten: what is unlinked stays counted; all that is
\* selected goes, written or not.
ClearWrittenUncounted(b) ==
    [b EXCEPT !.soe = @ \ b.written, !.selected = @ \ b.written, !.written = {}]

ClearSelected(b) == RemoveFromCounts(b, b.selected)

ClearWritten(b) == RemoveFromCounts(b, b.written)

UnwrittenClassField(b) ==
    {c \in EventClass : b.totalCounts.clazz[c] - b.writtenCounts.clazz[c] > 0}

IsTypeOverflown(b, t) == MaxForType[t] > 0 /\ b.totalCounts.type[t] >= MaxForType[t]

HasEnoughSpaceToClearOverflow(b) ==
    ~(IsFull(b) \/ \E t \in OverflowTypes : IsTypeOverflown(b, t))

\* IsOverflown() lowers the flag it reports once there is room again.
IsOverflown(b)   == b.overflow /\ ~HasEnoughSpaceToClearOverflow(b)
CheckOverflow(b) == [b EXCEPT !.overflow = IsOverflown(b)]

----------------------------------------------------------------------------
(* What the operations above keep true of a buffer.                        *)

CountType == [total : Int, type : [EventType -> Int], clazz : [EventClass -> Int]]

BufferType == [soe : SUBSET SOERecord, selected : SUBSET SOERecord,
               written : SUBSET SOERecord, totalCounts : CountType,
               selectedCounts : CountType, writtenCounts : CountType,
               overflow : BOOLEAN]

\* The counters k are those of the records S.
Tallies(k, S) ==
    /\ k.total = Cardinality(S)
    /\ \A t \in EventType  : k.type[t]  = Cardinality(OfType(S, t))
    /\ \A c \in EventClass : k.clazz[c] = Cardinality(OfClasses(S, {c}))

\* The counters k are at least those of the records S.
Covers(k, S) ==
    /\ k.total >= Cardinality(S)
    /\ \A t \in EventType  : k.type[t]  >= Cardinality(OfType(S, t))
    /\ \A c \in EventClass : k.clazz[c] >= Cardinality(OfClasses(S, {c}))

\* What is written is selected, what is selected is in the list, and the two
\* trackers that nothing counts twice are exact.
Exact(b) ==
    /\ b.written \subseteq b.selected
    /\ b.selected \subseteq b.soe
    /\ Tallies(b.totalCounts, b.soe)
    /\ Tallies(b.writtenCounts, b.written)

\* selectedCounts may exceed the selected records but never falls short.
Covered(b) == Covers(b.selectedCounts, b.selected)
=============================================================================
