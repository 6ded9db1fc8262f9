------------------------ MODULE EventReportingProofs ------------------------
(***************************************************************************)
(* The event buffer's counters are right after every operation, for any    *)
(* configuration of types, classes and maxima and any mix of READ headers. *)
(***************************************************************************)
EXTENDS EventReporting, EventBufferProofs

----------------------------------------------------------------------------
(* The reporting cycle.                                                    *)

\* The inductive invariant: a good buffer and records that are not from the
\* future, so that the next event is a new record.
IInv ==
    /\ TypeOK
    /\ GoodBuffer(buffer)
    /\ \A e \in buffer.soe : e.id < nextId

\* Whatever a response does to the buffer first, sending it keeps it good.
LEMMA SendGood ==
    ASSUME NEW b, NEW n, GoodBuffer(b), Send(b, n)
    PROVE  /\ GoodBuffer(buffer')
           /\ buffer'.soe = b.soe
           /\ fragment' \subseteq SOERecord
           /\ phase' \in {"idle", "sent"}
<1>1. GoodBuffer(Load(b, n)) /\ Load(b, n).soe = b.soe
  BY LoadGood
<1>2. buffer' = CheckOverflow(Load(b, n))
  BY DEF Send, Respond
<1>3. GoodBuffer(buffer') /\ buffer'.soe = b.soe
  BY <1>1, <1>2, CheckOverflowGood
<1>4. Load(b, n).written \subseteq SOERecord
  BY <1>1 DEF GoodBuffer, BufferType
<1>5. fragment' \subseteq SOERecord
  BY <1>4 DEF Send
<1>6. phase' \in {"idle", "sent"}
  BY DEF Send
<1> QED BY <1>3, <1>5, <1>6

\* The invariant holds initially and every step of the client keeps it.
LEMMA IInvInductive ==
    /\ Init => IInv
    /\ IInv /\ [Next]_vars => IInv'
<1>1. Init => IInv
  <2> SUFFICES ASSUME Init PROVE IInv
    OBVIOUS
  <2>1. GoodBuffer(buffer)
    BY EmptyGood DEF Init
  <2>2. buffer.soe = {}
    BY DEF Init, EmptyBuffer
  <2>3. TypeOK
    <3>1. buffer \in BufferType /\ IsFiniteSet(buffer.soe)
      BY <2>1 DEF GoodBuffer
    <3>2. phase = "idle" /\ headers = 0 /\ nextId = 1 /\ fragment = {}
      BY DEF Init
    <3>3. headers \in Nat /\ nextId \in Nat \ {0}
      BY <3>2
    <3> QED BY <3>1, <3>2, <3>3, Zenon DEF TypeOK
  <2> QED BY <2>1, <2>2, <2>3 DEF IInv
<1>2. IInv /\ [Next]_vars => IInv'
  <2> SUFFICES ASSUME IInv, [Next]_vars
               PROVE  IInv'
    OBVIOUS
  <2> USE DEF IInv
  <2>1. ASSUME NEW t \in EventType, NEW c \in EventClass, Update(t, c)
        PROVE  IInv'
    <3> DEFINE e == [id |-> nextId, type |-> t, clazz |-> c]
    <3>1. e \in SOERecord /\ e \notin buffer.soe /\ nextId \in Nat \ {0}
      BY DEF SOERecord, TypeOK
    <3>2. buffer' = UpdateAny(buffer, e)
      BY <2>1 DEF Update
    <3>3. GoodBuffer(buffer') /\ buffer'.soe \subseteq buffer.soe \cup {e}
      BY <3>1, <3>2, UpdateGood
    <3>4. \A f \in buffer'.soe : f.id < nextId'
      <4>1. nextId' = nextId + 1
        BY <2>1 DEF Update
      <4>2. \A f \in buffer.soe : f.id \in Nat /\ f.id < nextId
        BY DEF GoodBuffer, BufferType, SOERecord
      <4> QED BY <3>1, <3>3, <4>1, <4>2
    <3>5. TypeOK'
      BY <2>1, <3>1, <3>3 DEF Update, TypeOK, GoodBuffer
    <3>6. GoodBuffer(buffer)'
      BY <3>3 DEF GoodBuffer
    <3> HIDE DEF e
    <3> QED BY <3>4, <3>5, <3>6
  <2>2. ASSUME BeginSelection
        PROVE  IInv'
    BY <2>2, UnselectGood DEF BeginSelection, TypeOK, GoodBuffer
  <2>3. ASSUME NEW c \in EventClass, NEW max, SelectClass(c, max)
        PROVE  IInv'
    <3>1. GoodBuffer(buffer') /\ buffer'.soe = buffer.soe
      BY <2>3, SelectHeadersGood DEF SelectClass, SelectHeader
    <3>2. headers' = headers + 1 /\ UNCHANGED <<phase, nextId, fragment>>
      BY <2>3 DEF SelectClass, SelectHeader
    <3> QED BY <3>1, <3>2 DEF TypeOK, GoodBuffer
  <2>4. ASSUME NEW t \in EventType, NEW max, SelectType(t, max)
        PROVE  IInv'
    <3>1. GoodBuffer(buffer') /\ buffer'.soe = buffer.soe
      BY <2>4, SelectHeadersGood DEF SelectType, SelectHeader
    <3>2. headers' = headers + 1 /\ UNCHANGED <<phase, nextId, fragment>>
      BY <2>4 DEF SelectType, SelectHeader
    <3> QED BY <3>1, <3>2 DEF TypeOK, GoodBuffer
  <2>5. ASSUME NEW n \in 0..MaxEvents, LoadResponse(n)
        PROVE  IInv'
    BY <2>5, SendGood DEF LoadResponse, TypeOK, GoodBuffer
  <2>6. ASSUME NEW n \in 0..MaxEvents, Confirm(n)
        PROVE  IInv'
    <3> DEFINE cleared == ClearWritten(buffer)
    <3>1. GoodBuffer(cleared) /\ cleared.soe \subseteq buffer.soe
      BY ClearGood
    <3> HIDE DEF cleared
    <3>2. CASE HasAnySelection(cleared)
      <4>1. Send(cleared, n)
        BY <2>6, <3>2 DEF Confirm, cleared
      <4> QED BY <2>6, <3>1, <4>1, SendGood DEF Confirm, TypeOK, GoodBuffer
    <3>3. CASE ~HasAnySelection(cleared)
      <4>1. /\ buffer' = cleared
            /\ phase' = "idle"
            /\ UNCHANGED <<fragment, headers, nextId>>
        BY <2>6, <3>3 DEF Confirm, cleared
      <4> QED BY <3>1, <4>1 DEF TypeOK, GoodBuffer
    <3> QED BY <3>2, <3>3
  <2>7. ASSUME SolConfirmTimeout
        PROVE  IInv'
    BY <2>7 DEF SolConfirmTimeout, TypeOK, GoodBuffer
  <2>8. ASSUME UnsolConfirmTimeout
        PROVE  IInv'
    BY <2>8, UnselectGood DEF UnsolConfirmTimeout, TypeOK, GoodBuffer
  <2>9. ASSUME RespondToNonRead
        PROVE  IInv'
    <3>1. GoodBuffer(buffer') /\ buffer'.soe = buffer.soe
      BY <2>9, CheckOverflowGood DEF RespondToNonRead, Respond
    <3> QED BY <2>9, <3>1 DEF RespondToNonRead, Respond, IsOverflown, TypeOK, GoodBuffer
  <2>10. ASSUME UNCHANGED vars
         PROVE  IInv'
    BY <2>10 DEF vars, TypeOK, GoodBuffer
  <2> QED BY <2>1, <2>2, <2>3, <2>4, <2>5, <2>6, <2>7, <2>8, <2>9, <2>10 DEF Next
<1> QED BY <1>1, <1>2

\* EventBuffer::totalCounts and writtenCounts always agree with the SOE list,
\* selectedCounts never falls below it, and every variable has its type.
THEOREM CountersCorrect == Spec => [](TypeOK /\ CountsExact /\ SelectionCovered)
<1>1. IInv => TypeOK /\ CountsExact /\ SelectionCovered
  BY DEF IInv, GoodBuffer, CountsExact, SelectionCovered
<1> QED BY <1>1, IInvInductive, PTL DEF Spec

\* EventBuffer::Unselect leaves no record selected or written, wherever its
\* walk of the list ends.
THEOREM UnselectCompletes == Spec => UnselectIsComplete
<1>1. IInv /\ (BeginSelection \/ UnsolConfirmTimeout) =>
        buffer'.selected = {} /\ buffer'.written = {}
  BY UnselectGood DEF IInv, BeginSelection, UnsolConfirmTimeout
<1>2. IInv /\ [Next]_vars =>
        [(BeginSelection \/ UnsolConfirmTimeout) =>
            buffer'.selected = {} /\ buffer'.written = {}]_vars
  BY <1>1
<1> QED BY <1>2, IInvInductive, PTL DEF Spec, UnselectIsComplete

----------------------------------------------------------------------------
(* The order of reporting.                                                 *)

\* What a fragment carries is in order, and while it waits for its confirm
\* the records counted as written are the ones it carries.
InOrder ==
    /\ ReportedInOrder
    /\ phase = "selecting" => buffer.written = {}
    /\ phase = "sent" => buffer.written \subseteq fragment

\* Asking for the overflow bit changes no set of the buffer.
LEMMA OverflowFields ==
    ASSUME NEW b, GoodBuffer(b)
    PROVE  /\ CheckOverflow(b).soe = b.soe
           /\ CheckOverflow(b).selected = b.selected
           /\ CheckOverflow(b).written = b.written
BY DEF CheckOverflow, GoodBuffer, BufferType

\* A response loaded from a buffer in which nothing is written is in order.
LEMMA SendInOrder ==
    ASSUME NEW b, NEW n \in Int, GoodBuffer(b), b.written = {}, Send(b, n)
    PROVE  InOrder'
<1> DEFINE l == Load(b, n)
<1>1. buffer' = CheckOverflow(l) /\ fragment' = l.written
  BY DEF Send, Respond
<1>2. \A e \in l.written, f \in Writable(l) : e.id < f.id
  BY LoadInOrder
<1>3. GoodBuffer(l)
  BY LoadGood
<1> HIDE DEF l
<1>4. Writable(buffer') = Writable(l) /\ buffer'.written = l.written
  BY <1>1, <1>3, OverflowFields DEF Writable
<1>5. phase' \in {"idle", "sent"}
  BY SendGood
<1>6. phase' # "selecting"
  BY <1>5
<1>7. ReportedInOrder'
  BY <1>1, <1>2, <1>4 DEF ReportedInOrder, Writable
<1>8. (phase = "sent" => buffer.written \subseteq fragment)'
  BY <1>1, <1>4
<1> QED BY <1>6, <1>7, <1>8 DEF InOrder

\* Selecting more records leaves the written ones as they were.
LEMMA SelectWritten ==
    ASSUME NEW b, GoodBuffer(b), NEW S
    PROVE  SelectRecords(b, S).written = b.written
BY DEF SelectRecords, GoodBuffer, BufferType

\* Every step keeps the order.
LEMMA InOrderStep == IInv /\ InOrder /\ [Next]_vars => InOrder'
<1> SUFFICES ASSUME IInv, InOrder, [Next]_vars
             PROVE  InOrder'
  OBVIOUS
<1>0. GoodBuffer(buffer) /\ MaxEvents \in Nat
  BY ClientAssumption DEF IInv
<1>1. ASSUME NEW t \in EventType, NEW c \in EventClass, Update(t, c)
      PROVE  InOrder'
  <2> DEFINE e == [id |-> nextId, type |-> t, clazz |-> c]
  <2>1. e \in SOERecord /\ e.type = t
    BY DEF SOERecord, IInv, TypeOK
  <2>2. buffer' = UpdateAny(buffer, e) /\ phase' = phase /\ fragment' = fragment /\ phase # "selecting"
    BY <1>1 DEF Update
  <2> HIDE DEF e
  <2>3. buffer'.written \subseteq buffer.written /\ Writable(buffer') \subseteq Writable(buffer)
    <3>1. CASE MaxForType[e.type] = 0
      BY <2>2, <3>1 DEF UpdateAny
    <3>2. CASE MaxForType[e.type] # 0
      BY <1>0, <2>1, <2>2, <3>2, UpdateFields
    <3> QED BY <3>1, <3>2
  <2>4. Writable(buffer)' = Writable(buffer')
    BY DEF Writable
  <2> QED BY <2>2, <2>3, <2>4 DEF InOrder, ReportedInOrder
<1>2. ASSUME BeginSelection
      PROVE  InOrder'
  BY <1>0, <1>2, UnselectGood DEF BeginSelection, InOrder, ReportedInOrder
<1>3. ASSUME NEW S, SelectHeader(SelectRecords(buffer, S))
      PROVE  InOrder'
  BY <1>0, <1>3, SelectWritten DEF SelectHeader, InOrder, ReportedInOrder
<1>4. ASSUME NEW c \in EventClass, NEW max, SelectClass(c, max)
      PROVE  InOrder'
  BY <1>3, <1>4 DEF SelectClass, SelectByClass
<1>5. ASSUME NEW t \in EventType, NEW max, SelectType(t, max)
      PROVE  InOrder'
  BY <1>3, <1>5 DEF SelectType, SelectByType
<1>6. ASSUME NEW n \in 0..MaxEvents, LoadResponse(n)
      PROVE  InOrder'
  BY <1>0, <1>6, SendInOrder DEF LoadResponse, InOrder
<1>7. ASSUME NEW n \in 0..MaxEvents, Confirm(n)
      PROVE  InOrder'
  <2> DEFINE cleared == ClearWritten(buffer)
  <2>1. GoodBuffer(cleared) /\ cleared.written = {}
    BY <1>0, ClearGood, RemoveFields DEF ClearWritten
  <2> HIDE DEF cleared
  <2>2. CASE HasAnySelection(cleared)
    BY <1>0, <1>7, <2>1, <2>2, SendInOrder DEF Confirm, cleared
  <2>3. CASE ~HasAnySelection(cleared)
    BY <1>7, <2>3 DEF Confirm, cleared, InOrder, ReportedInOrder
  <2> QED BY <2>2, <2>3
<1>8. ASSUME SolConfirmTimeout \/ UnsolConfirmTimeout
      PROVE  InOrder'
  BY <1>8 DEF SolConfirmTimeout, UnsolConfirmTimeout, InOrder, ReportedInOrder
<1>9. ASSUME RespondToNonRead
      PROVE  InOrder'
  <2>1. buffer'.selected = buffer.selected /\ buffer'.written = buffer.written
    BY <1>0, <1>9, OverflowFields DEF RespondToNonRead, Respond
  <2>2. phase' = phase /\ fragment' = fragment
    BY <1>9 DEF RespondToNonRead
  <2> QED BY <2>1, <2>2 DEF InOrder, ReportedInOrder, Writable
<1>10. ASSUME UNCHANGED vars
       PROVE  InOrder'
  BY <1>10 DEF vars, InOrder, ReportedInOrder, Writable
<1> QED BY <1>1, <1>2, <1>4, <1>5, <1>6, <1>7, <1>8, <1>9, <1>10 DEF Next

\* A fragment carries the oldest of what the response still has to report:
\* EventWriter::Write walks the list from its front, and neither new events
\* nor the discarding of old ones change the order while it is on its way.
THEOREM EventsAreInOrder == Spec => []ReportedInOrder
<1>1. Init => InOrder
  BY DEF Init, InOrder, ReportedInOrder, EmptyBuffer
<1>2. InOrder => ReportedInOrder
  BY DEF InOrder
<1> QED BY <1>1, <1>2, IInvInductive, InOrderStep, PTL DEF Spec

----------------------------------------------------------------------------
(* How events leave the buffer.                                            *)

\* What the leaving of an event comes from: a buffer within its maxima, and
\* written records that are in the fragment under way.
Bounded == InOrder /\ Limited(buffer)

\* An event leaves by being confirmed or by being the oldest of a full type.
Leaves(e) ==
    \/ phase = "sent" /\ e \in fragment
    \/ /\ e \in Oldest(OfType(buffer.soe, e.type), 1)
       /\ Cardinality(OfType(buffer.soe, e.type)) = MaxForType[e.type]
       /\ buffer'.overflow

\* Every step keeps the buffer within its maxima.
LEMMA LimitedStep == IInv /\ Limited(buffer) /\ [Next]_vars => Limited(buffer')
<1> SUFFICES ASSUME IInv, Limited(buffer), [Next]_vars
             PROVE  Limited(buffer')
  OBVIOUS
<1>0. GoodBuffer(buffer) /\ IsFiniteSet(buffer.soe)
  BY DEF IInv, GoodBuffer
<1>1. ASSUME NEW t \in EventType, NEW c \in EventClass, Update(t, c)
      PROVE  Limited(buffer')
  <2>1. [id |-> nextId, type |-> t, clazz |-> c] \in SOERecord
    BY DEF SOERecord, IInv, TypeOK
  <2> QED BY <1>0, <1>1, <2>1, UpdateLimited DEF Update
<1>2. ASSUME buffer'.soe \subseteq buffer.soe
      PROVE  Limited(buffer')
  BY <1>0, <1>2, FewerLimited
<1>3. ASSUME BeginSelection \/ UnsolConfirmTimeout
      PROVE  buffer'.soe \subseteq buffer.soe
  BY <1>0, <1>3, UnselectGood DEF BeginSelection, UnsolConfirmTimeout
<1>4. ASSUME NEW c \in EventClass, NEW max, SelectClass(c, max)
      PROVE  buffer'.soe \subseteq buffer.soe
  BY <1>0, <1>4, SelectHeadersGood DEF SelectClass, SelectHeader
<1>5. ASSUME NEW t \in EventType, NEW max, SelectType(t, max)
      PROVE  buffer'.soe \subseteq buffer.soe
  BY <1>0, <1>5, SelectHeadersGood DEF SelectType, SelectHeader
<1>6. ASSUME NEW n \in 0..MaxEvents, LoadResponse(n)
      PROVE  buffer'.soe \subseteq buffer.soe
  BY <1>0, <1>6, SendGood DEF LoadResponse
<1>7. ASSUME NEW n \in 0..MaxEvents, Confirm(n)
      PROVE  buffer'.soe \subseteq buffer.soe
  <2>1. GoodBuffer(ClearWritten(buffer)) /\ ClearWritten(buffer).soe \subseteq buffer.soe
    BY <1>0, ClearGood
  <2> QED BY <1>7, <2>1, SendGood DEF Confirm
<1>8. ASSUME SolConfirmTimeout \/ UNCHANGED vars
      PROVE  buffer'.soe \subseteq buffer.soe
  BY <1>8 DEF SolConfirmTimeout, vars
<1>9. ASSUME RespondToNonRead
      PROVE  buffer'.soe \subseteq buffer.soe
  BY <1>0, <1>9, OverflowFields DEF RespondToNonRead, Respond
<1> QED BY <1>1, <1>2, <1>3, <1>4, <1>5, <1>6, <1>7, <1>8, <1>9 DEF Next

\* Only a new event and a confirm take events out of the buffer.
LEMMA LeavesStep ==
    IInv /\ Bounded /\ [Next]_vars => \A e \in buffer.soe \ buffer'.soe : Leaves(e)
<1> SUFFICES ASSUME IInv, Bounded, [Next]_vars
             PROVE  \A e \in buffer.soe \ buffer'.soe : Leaves(e)
  OBVIOUS
<1>0. GoodBuffer(buffer) /\ Limited(buffer) /\ InOrder
  BY DEF IInv, Bounded
<1>1. ASSUME NEW t \in EventType, NEW c \in EventClass, Update(t, c)
      PROVE  \A e \in buffer.soe \ buffer'.soe : Leaves(e)
  <2> DEFINE new == [id |-> nextId, type |-> t, clazz |-> c]
  <2>1. new \in SOERecord /\ new.type = t
    BY DEF SOERecord, IInv, TypeOK
  <2>2. buffer' = UpdateAny(buffer, new)
    BY <1>1 DEF Update
  <2> HIDE DEF new
  <2>3. CASE MaxForType[t] = 0
    BY <2>1, <2>2, <2>3 DEF UpdateAny
  <2>4. CASE MaxForType[t] # 0
    <3>1. /\ buffer'.soe = Spared(buffer, t) \cup {new}
          /\ MustDiscard(buffer, t) => buffer'.overflow
      BY <1>0, <2>1, <2>2, <2>4, UpdateFields
    <3> SUFFICES ASSUME NEW e \in buffer.soe \ buffer'.soe
                 PROVE  Leaves(e)
      OBVIOUS
    <3>2. MustDiscard(buffer, t) /\ e \in Oldest(OfType(buffer.soe, t), 1)
      BY <3>1 DEF Spared
    <3>3. e.type = t
      BY <3>2, OldestSubset DEF OfType
    <3>4. Cardinality(OfType(buffer.soe, t)) = MaxForType[t]
      BY <1>0, <3>2, DiscardsAtMaximum
    <3> QED BY <3>1, <3>2, <3>3, <3>4 DEF Leaves
  <2> QED BY <2>3, <2>4
<1>2. ASSUME NEW n \in 0..MaxEvents, Confirm(n)
      PROVE  \A e \in buffer.soe \ buffer'.soe : Leaves(e)
  <2>1. ClearWritten(buffer).soe = buffer.soe \ buffer.written /\ GoodBuffer(ClearWritten(buffer))
    BY <1>0, RemoveFields, ClearGood DEF ClearWritten
  <2>2. buffer'.soe = ClearWritten(buffer).soe
    BY <1>2, <2>1, SendGood DEF Confirm
  <2>3. phase = "sent" /\ buffer.written \subseteq fragment
    BY <1>0, <1>2 DEF Confirm, InOrder
  <2> QED BY <2>1, <2>2, <2>3 DEF Leaves
<1>3. ASSUME BeginSelection \/ UnsolConfirmTimeout
      PROVE  buffer'.soe = buffer.soe
  BY <1>0, <1>3, UnselectGood DEF BeginSelection, UnsolConfirmTimeout
<1>4. ASSUME NEW c \in EventClass, NEW max, SelectClass(c, max)
      PROVE  buffer'.soe = buffer.soe
  BY <1>0, <1>4, SelectHeadersGood DEF SelectClass, SelectHeader
<1>5. ASSUME NEW t \in EventType, NEW max, SelectType(t, max)
      PROVE  buffer'.soe = buffer.soe
  BY <1>0, <1>5, SelectHeadersGood DEF SelectType, SelectHeader
<1>6. ASSUME NEW n \in 0..MaxEvents, LoadResponse(n)
      PROVE  buffer'.soe = buffer.soe
  BY <1>0, <1>6, SendGood DEF LoadResponse
<1>7. ASSUME SolConfirmTimeout \/ UNCHANGED vars
      PROVE  buffer'.soe = buffer.soe
  BY <1>7 DEF SolConfirmTimeout, vars
<1>8. ASSUME RespondToNonRead
      PROVE  buffer'.soe = buffer.soe
  BY <1>0, <1>8, OverflowFields DEF RespondToNonRead, Respond
<1> QED BY <1>1, <1>2, <1>3, <1>4, <1>5, <1>6, <1>7, <1>8 DEF Next

\* EventBuffer loses an event in two ways only, for any configuration of
\* maxima: ClearWritten drops it once the fragment that carried it was
\* confirmed, or UpdateAny makes room by the oldest of a type at its maximum,
\* with the overflow flag raised.
THEOREM EventsAreKept == Spec => LeaveOnlyConfirmedOrOldest
<1>1. Init => Bounded
  <2> SUFFICES ASSUME Init PROVE Bounded
    OBVIOUS
  <2>1. InOrder
    BY DEF Init, InOrder, ReportedInOrder, EmptyBuffer
  <2>2. \A t \in EventType : OfType(buffer.soe, t) = {}
    BY DEF Init, EmptyBuffer, OfType
  <2>3. Limited(buffer)
    BY <2>2, FS_EmptySet, ConfigAssumption DEF Limited
  <2> QED BY <2>1, <2>3 DEF Bounded
<1>2. IInv /\ Bounded /\ [Next]_vars => Bounded'
  BY InOrderStep, LimitedStep DEF Bounded, Limited
<1>3. IInv /\ Bounded /\ [Next]_vars =>
        [\A e \in buffer.soe \ buffer'.soe : Leaves(e)]_vars
  BY LeavesStep
<1>4. [][\A e \in buffer.soe \ buffer'.soe : Leaves(e)]_vars <=> LeaveOnlyConfirmedOrOldest
  BY DEF Leaves, LeaveOnlyConfirmedOrOldest
<1> QED BY <1>1, <1>2, <1>3, <1>4, IInvInductive, PTL DEF Spec
=============================================================================
