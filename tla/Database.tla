------------------------------ MODULE Database ------------------------------
(***************************************************************************)
(* The outstation's point database, as operators on a database value       *)
(* (cpp/libs/src/opendnp3/outstation: Database, DatabaseBuffers,           *)
(* SelectedRanges, IndexSearch, AssignClassHandler), and how its static    *)
(* values are laid out in a response (StaticLoadFunctions, and             *)
(* RangeWriteIterator, BitfieldRangeWriteIterator and HeaderWriter of      *)
(* opendnp3/app).                                                          *)
(*                                                                         *)
(* A group and variation is a pair <<group, variation>>.  A measurement is *)
(* its value and the set of its quality flags; its time is left out.       *)
(***************************************************************************)
EXTENDS Integers, Sequences, FiniteSets, SequencesExt

CONSTANTS IndexMode,    \* "Contiguous" or "Discontiguous"
          Class0Types,  \* StaticTypeBitField: the types of a class 0 READ
          StaleByte     \* what a byte of the transmit buffer held before

\* The order in which Load visits the types.
StaticTypes == <<"Binary", "DoubleBitBinary", "Counter", "FrozenCounter", "Analog",
                 "BinaryOutputStatus", "AnalogOutputStatus", "TimeAndInterval", "SecurityStat">>

Group == [Binary |-> 1, DoubleBitBinary |-> 3, Counter |-> 20, FrozenCounter |-> 21,
          Analog |-> 30, BinaryOutputStatus |-> 10, AnalogOutputStatus |-> 40,
          TimeAndInterval |-> 50, SecurityStat |-> 121]

Variations == [Binary |-> {1, 2}, DoubleBitBinary |-> {2}, Counter |-> {1, 2, 5, 6},
               FrozenCounter |-> {1, 2, 5, 6, 9, 10}, Analog |-> 1 .. 6,
               BinaryOutputStatus |-> {2}, AnalogOutputStatus |-> 1 .. 4,
               TimeAndInterval |-> {4}, SecurityStat |-> {1}]

\* The objects: bytes of one object (a bitfield has eight in a byte), whether
\* it has a byte of flags, and whether its value has 16 bits and not 32 or more.
Object(size, flags, narrow) == [size |-> size, flags |-> flags, narrow |-> narrow]

Group1Var(v) == Object(1, v = 2, FALSE)

Group20Var(v) ==
    CASE v = 1 -> Object(5, TRUE, FALSE)
      [] v = 2 -> Object(3, TRUE, TRUE)
      [] v = 5 -> Object(4, FALSE, FALSE)
      [] v = 6 -> Object(2, FALSE, TRUE)

Group30Var(v) == Object(<<5, 3, 4, 2, 5, 9>>[v], v \notin {3, 4}, v \in {2, 4})

Group40Var(v) == Object(<<5, 3, 5, 9>>[v], TRUE, v = 2)

Layout(gv) ==
    CASE gv[1] = 1         -> Group1Var(gv[2])
      [] gv[1] = 20        -> Group20Var(gv[2])
      [] gv[1] = 30        -> Group30Var(gv[2])
      [] gv[1] = 40        -> Group40Var(gv[2])
      [] gv[1] \in {3, 10} -> Object(1, TRUE, FALSE)
      [] gv[1] = 21        -> Object(5, TRUE, FALSE)
      [] gv[1] = 50        -> Object(11, TRUE, FALSE)
      [] gv[1] = 121       -> Object(7, TRUE, FALSE)

Smallest(i, j) == IF i < j THEN i ELSE j
Largest(i, j)  == IF i > j THEN i ELSE j

----------------------------------------------------------------------------
(* Range                                                                   *)

Invalid == [start |-> 1, stop |-> 0]

IsValid(r) == r.start <= r.stop

Count(r) == IF IsValid(r) THEN r.stop - r.start + 1 ELSE 0

IsOneByte(r) == IsValid(r) /\ r.start <= 255 /\ r.stop <= 255

Advance(r) == IF r.start < r.stop THEN [r EXCEPT !.start = @ + 1] ELSE Invalid

Intersection(r, q) == [start |-> Largest(r.start, q.start), stop |-> Smallest(r.stop, q.stop)]

Union(r, q) == [start |-> Smallest(r.start, q.start), stop |-> Largest(r.stop, q.stop)]

RangeOf(size) == IF size > 0 THEN [start |-> 0, stop |-> size - 1] ELSE Invalid

Within(i, r) == r.start <= i /\ i <= r.stop

----------------------------------------------------------------------------
(* Cells.  A view maps raw indices 0 .. n-1 to the cells of one type, in   *)
(* the order of their virtual indices.                                     *)

NotSelected == [selected |-> FALSE]

Selected(value, variation) == [selected |-> TRUE, value |-> value, variation |-> variation]

InitialCell(vIndex, variation, value) ==
    [vIndex |-> vIndex, variation |-> variation, value |-> value,
     clazz |-> 1, lastEvent |-> value, selection |-> NotSelected]

InitialDatabase(cells) == [cells |-> cells, ranges |-> [t \in DOMAIN cells |-> Invalid]]

Size(view) == Cardinality(DOMAIN view)

----------------------------------------------------------------------------
(* IndexSearch: a binary search by virtual index.  Arithmetic is that of a *)
(* uint16_t, so that midpoint - 1 wraps at 0.                              *)

RECURSIVE Search(_, _, _, _)
Search(view, vIndex, lower, upper) ==
    LET midpoint == (upper - lower) \div 2 + lower
        index    == view[midpoint].vIndex
        below    == (midpoint - 1) % 65536
    IN  CASE index = vIndex -> [match |-> TRUE, index |-> midpoint]
          [] index < vIndex -> IF midpoint + 1 <= upper
                               THEN Search(view, vIndex, midpoint + 1, upper)
                               ELSE [match |-> FALSE, index |-> midpoint]
          [] index > vIndex -> IF upper > 0 /\ lower <= below
                               THEN Search(view, vIndex, lower, below)
                               ELSE [match |-> FALSE, index |-> midpoint]

FindClosestRawIndex(view, vIndex) ==
    IF Size(view) = 0 THEN [match |-> FALSE, index |-> 0]
                      ELSE Search(view, vIndex, 0, Size(view) - 1)

\* Mutant of FindRawRange: a start below the range is not moved up.
FindRawRangeUnadjusted(view, range) ==
    LET start == FindClosestRawIndex(view, range.start).index
        stop  == FindClosestRawIndex(view, range.stop).index
        last  == IF view[stop].vIndex > range.stop THEN stop - 1 ELSE stop
    IN  IF Size(view) > 0 /\ {start, last} \subseteq DOMAIN view
        THEN [start |-> start, stop |-> last] ELSE Invalid

FindRawRange(view, range) ==
    LET start == FindClosestRawIndex(view, range.start).index
        stop  == FindClosestRawIndex(view, range.stop).index
        first == IF view[start].vIndex < range.start THEN start + 1 ELSE start
        last  == IF view[stop].vIndex > range.stop THEN stop - 1 ELSE stop
    IN  IF IsValid(range) /\ Size(view) > 0 /\ {first, last} \subseteq DOMAIN view
        THEN [start |-> first, stop |-> last] ELSE Invalid

GetRawIndex(view, index) ==
    LET result == FindClosestRawIndex(view, index)
    IN  IF IndexMode = "Contiguous" THEN index
        ELSE IF result.match THEN result.index ELSE 65535

----------------------------------------------------------------------------
(* Selection by a READ.  The result is the database and the IIN bits.      *)

OnlineOnly(m) == m.quality = {"ONLINE"}

CheckForPromotion(t, m, variation) ==
    IF t = "Binary" /\ variation = 1 /\ ~OnlineOnly(m) THEN 2 ELSE variation

\* Variation 0 stands for the default variation of each point.
GenericSelect(db, t, range, variation) ==
    LET view    == db.cells[t]
        allowed == Intersection(range, RangeOf(Size(view)))
        picked  == {i \in DOMAIN view : Within(i, allowed)}
        var(c)  == IF variation = 0 THEN c.variation ELSE variation
        pick(c) == IF c.selection.selected THEN c
                   ELSE [c EXCEPT !.selection =
                            Selected(c.value, CheckForPromotion(t, c.value, var(c)))]
    IN  CASE ~IsValid(range)   -> [db |-> db, iin |-> {}]
          [] IsValid(range) /\ ~IsValid(allowed) -> [db |-> db, iin |-> {"PARAM_ERROR"}]
          [] IsValid(range) /\ IsValid(allowed) ->
               [db  |-> [db EXCEPT !.cells[t] = [i \in DOMAIN view |->
                                        IF i \in picked THEN pick(view[i]) ELSE view[i]],
                                   !.ranges[t] = Union(@, allowed)],
                iin |-> IF allowed = range /\ \A i \in picked : ~view[i].selection.selected
                        THEN {} ELSE {"PARAM_ERROR"}]

SelectVirtualRange(db, t, range, variation) ==
    LET mapped == FindRawRange(db.cells[t], range)
        result == GenericSelect(db, t, mapped, variation)
    IN  CASE IndexMode = "Contiguous" -> GenericSelect(db, t, range, variation)
          [] IndexMode # "Contiguous" /\ ~IsValid(mapped) -> [db |-> db, iin |-> {"PARAM_ERROR"}]
          [] IndexMode # "Contiguous" /\ IsValid(mapped) ->
               [result EXCEPT !.iin = @ \cup (IF Count(range) = Count(mapped)
                                              THEN {} ELSE {"PARAM_ERROR"})]

SelectAllOf(db, t, variation) == GenericSelect(db, t, RangeOf(Size(db.cells[t])), variation)

SelectAllClass0(db) ==
    FoldLeft(LAMBDA d, t : IF t \in Class0Types /\ t \in DOMAIN db.cells
                           THEN SelectAllOf(d, t, 0).db ELSE d, db, StaticTypes)

\* The type that SelectAll and SelectRange serve for a group and variation.
Serves(t, gv) ==
    /\ gv[1] = Group[t]
    /\ gv[2] \in Variations[t] \/ (gv[2] = 0 /\ t # "TimeAndInterval")

SelectAll(db, gv) ==
    IF gv = <<60, 1>> THEN [db |-> SelectAllClass0(db), iin |-> {}]
    ELSE IF \E t \in DOMAIN db.cells : Serves(t, gv)
    THEN SelectAllOf(db, CHOOSE t \in DOMAIN db.cells : Serves(t, gv), gv[2])
    ELSE [db |-> db, iin |-> {"FUNC_NOT_SUPPORTED"}]

SelectRange(db, gv, range) ==
    IF \E t \in DOMAIN db.cells : Serves(t, gv)
    THEN SelectVirtualRange(db, CHOOSE t \in DOMAIN db.cells : Serves(t, gv), range, gv[2])
    ELSE [db |-> db, iin |-> {"FUNC_NOT_SUPPORTED"}]

\* Mutant of Deselect: the cells keep their flags.
DeselectRange(db, t) == [db EXCEPT !.ranges[t] = Invalid]

Deselect(db, t) ==
    [db EXCEPT !.cells[t] = [i \in DOMAIN @ |->
                    IF Within(i, db.ranges[t]) THEN [@[i] EXCEPT !.selection = NotSelected]
                                               ELSE @[i]],
               !.ranges[t] = Invalid]

Unselect(db) ==
    FoldLeft(LAMBDA d, t : IF t \in DOMAIN db.cells THEN Deselect(d, t) ELSE d, db, StaticTypes)

HasAnySelection(db) == \E t \in DOMAIN db.ranges : IsValid(db.ranges[t])

----------------------------------------------------------------------------
(* Loading a response.                                                     *)

\* GetStaticWriter: the variation that is written for a selected one.
GetStaticWriter(t, variation) ==
    <<Group[t], IF t = "FrozenCounter" THEN 1 ELSE variation>>

IsBitfield(gv) == gv = <<1, 1>>

\* The cells one header can carry: selected for the same variation, with
\* consecutive virtual indices, from the start of the range on.
RunLength(view, range) ==
    LET first   == view[range.start]
        Fits(i) == /\ view[i].selection.selected
                   /\ view[i].selection.variation = first.selection.variation
                   /\ view[i].vIndex = first.vIndex + (i - range.start)
        Gaps    == {i \in range.start .. range.stop : ~Fits(i)}
    IN  IF Gaps = {} THEN Count(range)
        ELSE (CHOOSE i \in Gaps : \A j \in Gaps : i <= j) - range.start

\* WriteSingleBitfield and WriteWithSerializer: one header and as many objects
\* of the run as there is room for.  The iterators count in the type of the
\* index, and write the stop index (and, for a bitfield, pass over its bytes)
\* only if the count is not zero.
WriteHeader(t, s) ==
    LET gv     == GetStaticWriter(t, s.view[s.range.start].selection.variation)
        mapped == [start |-> s.view[s.range.start].vIndex, stop |-> s.view[s.range.stop].vIndex]
        width  == IF IsOneByte(mapped) THEN 1 ELSE 2
        room   == s.left - (3 + 2 * width)
        run    == RunLength(s.view, s.range)
        fits   == IF room < 0 THEN 0
                  ELSE IF IsBitfield(gv) THEN room * 8 ELSE room \div Layout(gv).size
        n      == Smallest(run, fits)
        count  == n % (IF width = 1 THEN 256 ELSE 65536)
        bytes  == IF IsBitfield(gv) THEN (count + 7) \div 8 ELSE n * Layout(gv).size
        first  == s.range.start
        header == [gv |-> gv, start |-> mapped.start,
                   stop |-> IF count > 0 THEN mapped.start + count - 1 ELSE StaleByte,
                   objects |-> IF IsBitfield(gv) /\ count = 0 THEN <<>>
                               ELSE [k \in 1 .. n |-> s.view[first + k - 1].selection.value]]
    IN  IF n = 0 THEN [s EXCEPT !.space = FALSE]
        ELSE [view  |-> [i \in DOMAIN s.view |->
                            IF i \in first .. first + n - 1
                            THEN [s.view[i] EXCEPT !.selection = NotSelected] ELSE s.view[i]],
              range |-> IF first + n - 1 = s.range.stop THEN Invalid
                        ELSE [s.range EXCEPT !.start = first + n],
              left  |-> s.left - (3 + 2 * width) - bytes,
              out   |-> Append(s.out, header),
              space |-> n = run]

\* The loop of LoadType over the selected range.
RECURSIVE LoadRange(_, _)
LoadRange(t, s) ==
    IF ~s.space \/ ~IsValid(s.range) THEN s
    ELSE LoadRange(t, IF s.view[s.range.start].selection.selected
                      THEN WriteHeader(t, s) ELSE [s EXCEPT !.range = Advance(@)])

\* w: the database, the bytes left, the headers written, and whether there
\* was space for all.
LoadType(w, t) ==
    LET s == LoadRange(t, [view |-> w.db.cells[t], range |-> w.db.ranges[t],
                           left |-> w.left, out |-> w.out, space |-> TRUE])
    IN  [db    |-> [w.db EXCEPT !.cells[t] = s.view, !.ranges[t] = s.range],
         left  |-> s.left, out |-> s.out, space |-> s.space]

Load(db, left) ==
    FoldLeft(LAMBDA w, t : IF w.space /\ t \in DOMAIN db.cells THEN LoadType(w, t) ELSE w,
             [db |-> db, left |-> left, out |-> <<>>, space |-> TRUE], StaticTypes)

----------------------------------------------------------------------------
(* Updates by the application, and the assignment of classes.              *)

\* Mutant of UpdateAny: the event is not remembered.
UpdateAnyForgets(cell, m, mode) ==
    LET event == cell.clazz # 0 /\ (mode = "Force" \/ (mode = "Detect" /\ cell.lastEvent # m))
    IN  [cell |-> [cell EXCEPT !.value = m], event |-> event]

\* A change is an event when the point has an event class and the mode says
\* so; Detect compares with the last event (no deadband).
UpdateAny(cell, m, mode) ==
    LET event == cell.clazz # 0 /\ (mode = "Force" \/ (mode = "Detect" /\ cell.lastEvent # m))
    IN  [cell  |-> [cell EXCEPT !.value = m, !.lastEvent = IF event THEN m ELSE @],
         event |-> event]

\* Update and Modify: the point's virtual index is looked up.
UpdateEvent(db, t, index, m, mode) ==
    LET raw == GetRawIndex(db.cells[t], index)
        u   == UpdateAny(db.cells[t][raw], m, mode)
    IN  IF raw \in DOMAIN db.cells[t]
        THEN [db |-> [db EXCEPT !.cells[t][raw] = u.cell], event |-> u.event]
        ELSE [db |-> db, event |-> FALSE]

\* The range of an assignment is one of raw indices, whatever the index mode.
AssignClassTo(db, t, clazz, range) ==
    [db EXCEPT !.cells[t] = [i \in DOMAIN @ |->
                IF Within(i, Intersection(range, RangeOf(Size(@))))
                THEN [@[i] EXCEPT !.clazz = clazz] ELSE @[i]]]

\* The types a master can assign to.
Assignable(t, gv) == gv[2] = 0 /\ gv[1] = Group[t] /\ t \notin {"TimeAndInterval", "SecurityStat"}

\* AssignClassHandler: a class header (group 60), and the header after it, with
\* the points the class is for.
ProcessAssignHeader(s, h) ==
    LET types == {t \in DOMAIN s.db.cells : Assignable(t, h.gv)}
        t     == CHOOSE u \in types : TRUE
    IN  IF s.expecting
        THEN IF types = {} THEN [s EXCEPT !.expecting = FALSE]
             ELSE [s EXCEPT !.expecting = FALSE,
                            !.db = AssignClassTo(@, t, s.clazz,
                                        IF h.all THEN RangeOf(Size(s.db.cells[t])) ELSE h.range)]
        ELSE IF h.all /\ h.gv[1] = 60
        THEN [s EXCEPT !.expecting = TRUE, !.clazz = h.gv[2] - 1]
        ELSE s

HandleAssignClass(db, headers) ==
    FoldLeft(ProcessAssignHeader, [db |-> db, expecting |-> FALSE, clazz |-> 0], headers).db
=============================================================================
