-------------------------- MODULE StaticReporting --------------------------
(***************************************************************************)
(* A master polls the database of an outstation: READ, a response of one   *)
(* or several fragments, and the master's measurement handler, while the   *)
(* application updates points and classes are assigned.  A fragment or a   *)
(* confirm may be lost; the master then gives the poll up and sends a new  *)
(* READ, which the outstation serves at once (OutstationContext.cpp        *)
(* HandleRead, ResponseContext.cpp, MeasurementHandler.cpp and the parsers *)
(* under opendnp3/app/parsing).                                            *)
(*                                                                         *)
(* The event buffer is here the queue of its events in their order; its    *)
(* counters and limits are those of module EventBuffer.                    *)
(***************************************************************************)
EXTENDS Database

CONSTANTS InitialCells,   \* the points: type -> raw index -> cell
          Updates,        \* updates of the application: type, index, value, mode
          Assignments,    \* the headers of ASSIGN_CLASS requests
          Requests,       \* the headers of READ requests
          FragmentSize,   \* bytes for objects in a response
          EventSize,      \* bytes an event needs, with a header of its own
          MaxChanges,     \* bound: updates and assignments in a behaviour
          MaxReads        \* bound: READs in a behaviour

ASSUME StaticAssumption ==
    /\ {FragmentSize, EventSize, MaxChanges, MaxReads} \subseteq Nat
    /\ 0 < EventSize /\ EventSize <= FragmentSize
    /\ DOMAIN InitialCells \subseteq ToSet(StaticTypes)
    /\ \A t \in DOMAIN InitialCells : DOMAIN InitialCells[t] = 0 .. Size(InitialCells[t]) - 1

VARIABLES db,       \* the outstation's database
          events,   \* its event queue: type, index, value, state
          wire,     \* the fragment on its way
          phase,    \* "idle", "fragment" or "confirm" on its way, "done"
          view,     \* what the master's application knows of each point
          poll,     \* the poll under way, as the master sees it
          chosen,   \* what a READ asks for, by its reference definition
          silent,   \* points updated so that no event is wanted
          changes, reads

vars == <<db, events, wire, phase, view, poll, chosen, silent, changes, reads>>

NoFragment == [events |-> <<>>, headers |-> <<>>, fin |-> FALSE, con |-> FALSE]

Points == UNION {{<<t, InitialCells[t][i].vIndex>> : i \in DOMAIN InitialCells[t]}
                    : t \in DOMAIN InitialCells}

CellOf(d, p) == CHOOSE c \in Range(d.cells[p[1]]) : c.vIndex = p[2]

----------------------------------------------------------------------------
(* What an object conveys of a measurement: the conversion when it is      *)
(* written (WriteConversions.h) and the one when it is read                *)
(* (MeasurementFactory.h).  Values are 32 bit integers.                    *)

Clamp(n) == IF n > 32767 THEN 32767 ELSE IF n < -32768 THEN -32768 ELSE n

\* Counters are truncated, analog values are held at the limit and flagged.
Truncate(m) == [m EXCEPT !.value = @ % 65536]

DownSample(m) ==
    [value   |-> Clamp(m.value),
     quality |-> IF Clamp(m.value) = m.value THEN m.quality ELSE m.quality \cup {"OVERRANGE"}]

Written(gv, m) ==
    IF ~Layout(gv).narrow THEN m
    ELSE IF gv[1] = 20 THEN Truncate(m) ELSE DownSample(m)

\* Without flags the master takes the point to be online.
Convey(gv, m) ==
    IF Layout(gv).flags THEN Written(gv, m)
                        ELSE [Written(gv, m) EXCEPT !.quality = {"ONLINE"}]

----------------------------------------------------------------------------
(* The master: RangeParser, APDUParser and MeasurementHandler.             *)

\* A header is good when its range is one and the objects it announces follow.
ParseHeader(h) == h.start <= h.stop /\ Len(h.objects) = h.stop - h.start + 1

\* The first pass of APDUParser::Parse: nothing is handled unless all is good.
Parse(headers) == \A k \in DOMAIN headers : ParseHeader(headers[k])

TypeOf(gv) == CHOOSE t \in DOMAIN Group : Group[t] = gv[1]

\* The measurements LoadValues hands to the SOE handler for a header.
LoadValues(h) ==
    [k \in DOMAIN h.objects |->
        [point |-> <<TypeOf(h.gv), h.start + k - 1>>, value |-> Convey(h.gv, h.objects[k])]]

LoadAll(headers) == FlattenSeq([k \in DOMAIN headers |-> LoadValues(headers[k])])

\* Events are reported in a variation with flags and 32 bits.
LoadEvents(es) ==
    [k \in DOMAIN es |-> [point |-> es[k].point, value |-> es[k].value]]

\* The application keeps the last value it is given for a point.
Apply(known, measurements) ==
    FoldLeft(LAMBDA v, m : [v EXCEPT ![m.point] = m.value], known, measurements)

----------------------------------------------------------------------------
(* The reference definition of a READ.                                     *)

\* Header h asks for point p.
Asks(h, p) ==
    /\ IF h.gv = <<60, 1>> THEN p[1] \in Class0Types ELSE h.gv[1] = Group[p[1]]
    /\ h.all \/ Within(p[2], h.range)

Asking(req, p) == {k \in DOMAIN req : Asks(req[k], p)}

FirstAsking(req, p) == req[CHOOSE k \in Asking(req, p) : \A j \in Asking(req, p) : k <= j]

\* A point is answered as the first header that asks for it wants it, with its
\* value at that moment; a binary input never loses its quality.
Answer(req, d, p) ==
    LET c  == CellOf(d, p)
        gv == FirstAsking(req, p).gv
        v  == IF gv[1] = 60 \/ gv[2] = 0 THEN c.variation ELSE gv[2]
    IN  IF p[1] = "Binary" THEN c.value
        ELSE Convey(GetStaticWriter(p[1], v), c.value)

Chosen(req, d) ==
    {[point |-> p, value |-> Answer(req, d, p)] : p \in {q \in Points : Asking(req, q) # {}}}

\* Some header asks for a point that does not exist, or for one that an
\* earlier header asked for.
Unmet(req) ==
    \/ \E p \in Points : \E k \in Asking(req, p) :
            req[k].gv # <<60, 1>> /\ \E j \in Asking(req, p) : j < k
    \/ \E k \in DOMAIN req :
            /\ ~req[k].all
            /\ \E i \in req[k].range.start .. req[k].range.stop :
                    \A p \in Points : ~(Asks(req[k], p) /\ p[2] = i)

----------------------------------------------------------------------------
Init ==
    /\ db = InitialDatabase(InitialCells)
    /\ events = <<>>
    /\ wire = NoFragment
    /\ phase = "idle"
    /\ view = [p \in Points |-> CellOf(InitialDatabase(InitialCells), p).value]
    /\ poll = [fin |-> FALSE, got |-> <<>>, iin |-> {}]
    /\ chosen = [answers |-> {}, unmet |-> FALSE]
    /\ silent = {}
    /\ changes = 0 /\ reads = 0

\* IDatabase::Update, from the application.
Update(u) ==
    LET result == UpdateEvent(db, u.type, u.index, u.value, u.mode)
        p      == <<u.type, u.index>>
    IN  /\ changes < MaxChanges
        /\ changes' = changes + 1
        /\ db' = result.db
        /\ events' = IF result.event
                     THEN Append(events, [point |-> p, value |-> u.value, state |-> "queued"])
                     ELSE events
        /\ silent' = IF p \in Points /\ (u.mode = "Suppress" \/ CellOf(db, p).clazz = 0)
                     THEN silent \cup {p} ELSE silent
        /\ UNCHANGED <<wire, phase, view, poll, chosen, reads>>

\* The outstation carries out an ASSIGN_CLASS request.
AssignClass(headers) ==
    /\ changes < MaxChanges
    /\ changes' = changes + 1
    /\ db' = HandleAssignClass(db, headers)
    /\ UNCHANGED <<events, wire, phase, view, poll, chosen, silent, reads>>

MarkAll(es, from, to) ==
    [k \in DOMAIN es |-> IF es[k].state \in from THEN [es[k] EXCEPT !.state = to] ELSE es[k]]

\* ReadHandler: one header of the READ.
ProcessReadHeader(s, h) ==
    LET result == IF h.all THEN SelectAll(s.db, h.gv) ELSE SelectRange(s.db, h.gv, h.range)
    IN  IF h.gv[1] = 60 /\ h.gv[2] > 1
        THEN [s EXCEPT !.events = MarkAll(@, {"queued"}, "selected")]
        ELSE [s EXCEPT !.db = result.db, !.iin = @ \cup result.iin]

\* ResponseContext::LoadResponse: the events first, and static values only
\* once all the events are written.
LoadResponse(d, es) ==
    LET selected == {k \in DOMAIN es : es[k].state = "selected"}
        now      == {k \in selected : Cardinality({j \in selected : j < k}) < FragmentSize \div EventSize}
        static   == Load(d, FragmentSize - EventSize * Cardinality(now))
        written  == SelectSeq([k \in DOMAIN es |-> [es[k] EXCEPT !.state = IF k \in now THEN "new" ELSE @]],
                              LAMBDA e : e.state = "new")
    IN  /\ events' = [k \in DOMAIN es |-> IF k \in now THEN [es[k] EXCEPT !.state = "written"] ELSE es[k]]
        /\ IF now = selected
           THEN /\ db' = static.db
                /\ wire' = [events |-> written, headers |-> static.out,
                            fin |-> static.space, con |-> ~static.space \/ now # {}]
           ELSE /\ db' = d
                /\ wire' = [events |-> written, headers |-> <<>>, fin |-> FALSE, con |-> TRUE]
        /\ phase' = "fragment"

\* HandleRead.  The master sends it when it has no poll under way.
Read(req) ==
    LET clean == [db |-> Unselect(db), iin |-> {},
                  events |-> MarkAll(events, {"selected", "written"}, "queued")]
        s     == FoldLeft(ProcessReadHeader, clean, req)
    IN  /\ phase \in {"idle", "done"}
        /\ reads < MaxReads
        /\ reads' = reads + 1
        /\ LoadResponse(s.db, s.events)
        /\ poll' = [fin |-> FALSE, got |-> <<>>, iin |-> s.iin]
        /\ chosen' = [answers |-> Chosen(req, db), unmet |-> Unmet(req)]
        /\ UNCHANGED <<view, silent, changes>>

\* PollTaskBase::ProcessMeasurements.  A fragment that asks for a confirm is
\* confirmed, good or bad.
ReceiveFragment ==
    LET good == Parse(wire.headers)
        new  == LoadAll(wire.headers)
    IN  /\ phase = "fragment"
        /\ poll' = [poll EXCEPT !.fin = wire.fin, !.got = IF good THEN @ \o new ELSE @]
        /\ view' = IF good THEN Apply(view, LoadEvents(wire.events) \o new) ELSE view
        /\ phase' = CASE wire.con -> "confirm" [] ~wire.con /\ good -> "done" [] OTHER -> "idle"
        /\ UNCHANGED <<db, events, wire, chosen, silent, changes, reads>>

\* OutstationStateSolicitedConfirmWait::OnConfirm: the events written are done
\* with; the next fragment follows if anything is selected.
ReceiveConfirm ==
    LET rest == SelectSeq(events, LAMBDA e : e.state # "written")
    IN  /\ phase = "confirm"
        /\ IF HasAnySelection(db) \/ \E k \in DOMAIN rest : rest[k].state = "selected"
           THEN LoadResponse(db, rest)
           ELSE /\ events' = rest
                /\ phase' = "done"
                /\ UNCHANGED <<db, wire>>
        /\ UNCHANGED <<view, poll, chosen, silent, changes, reads>>

\* The fragment or the confirm is lost; both sides time out.
Lose ==
    /\ phase \in {"fragment", "confirm"}
    /\ phase' = "idle"
    /\ wire' = NoFragment
    /\ UNCHANGED <<db, events, view, poll, chosen, silent, changes, reads>>

Next ==
    \/ \E u \in Updates : Update(u)
    \/ \E h \in Assignments : AssignClass(h)
    \/ \E req \in Requests : Read(req)
    \/ ReceiveFragment
    \/ ReceiveConfirm
    \/ Lose

Spec == Init /\ [][Next]_vars

----------------------------------------------------------------------------
\* DatabaseBuffers GenericSelect, LoadType: whatever is updated while the
\* fragments of a response are on their way, and whatever an abandoned READ
\* left behind, the master that got the last fragment got every point its READ
\* asked for once, with the value of the moment of the READ, and was told of
\* an error exactly when the READ could not be met as it stood.
AnswerIsSnapshot ==
    poll.fin => /\ Range(poll.got) = chosen.answers
                /\ Len(poll.got) = Cardinality(chosen.answers)
                /\ poll.iin # {} <=> chosen.unmet

\* SelectedRanges: HasAnySelection, which decides whether another fragment
\* follows, is true exactly when a point of the READ is still to be written,
\* and no flag is raised outside the ranges that Deselect will visit.
SelectionIsCovered ==
    \A t \in DOMAIN db.cells :
        LET flagged == {i \in DOMAIN db.cells[t] : db.cells[t][i].selection.selected}
        IN  /\ IsValid(db.ranges[t]) <=> flagged # {}
            /\ \A i \in flagged : Within(i, db.ranges[t])

\* Once the outstation has no event left to report, the master's image of a
\* point is its current value, as far as a variation can convey it, however
\* polls of static values and of events, updates and losses followed each
\* other (Database::UpdateAny, ResponseContext::LoadResponse).
ImageIsCurrent ==
    events = <<>> =>
        \A p \in Points \ silent :
            LET m == CellOf(db, p).value
            IN  \/ view[p] = m
                \/ /\ p[1] # "Binary"
                   /\ \E v \in Variations[p[1]] : view[p] = Convey(GetStaticWriter(p[1], v), m)
=============================================================================
