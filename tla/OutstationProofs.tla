-------------------------- MODULE OutstationProofs --------------------------
(***************************************************************************)
(* The outstation's context is in order after every entry point, for any   *)
(* set of requests, any buffer and either setting of allowUnsolicited.     *)
(* Where nothing is reported unsolicited, requests are carried out once,   *)
(* only confirmed events leave the buffer and fragments are numbered; the  *)
(* last two, and only they, depend on what the event buffer holds.         *)
(***************************************************************************)
EXTENDS Outstation, EventBufferProofs

----------------------------------------------------------------------------
(* Transactions: what holds after each event holds after a fold of them.   *)

\* The buffer after a transaction with the events es.
AfterAll(b, es) == FoldLeft(UpdateAny, b, es)

\* What one event does to a buffer b, or several: nothing is written or to be
\* written that was not, no type exceeds its maximum, and the flag is up when
\* an event had to leave.
Grown(b, r) ==
    /\ GoodBuffer(r)
    /\ r.written \subseteq b.written
    /\ Writable(r) \subseteq Writable(b)
    /\ Limited(b) => Limited(r)
    /\ b.overflow => r.overflow
    /\ b.soe \ r.soe # {} => r.overflow

\* The records of a buffer are older than the next event.
Past(b, id) == \A e \in b.soe : e.id < id

\* UpdateAny, for an event that is newer than the buffer's.
LEMMA UpdateGrows ==
    ASSUME NEW b, GoodBuffer(b), NEW e \in SOERecord, Past(b, e.id)
    PROVE  /\ Grown(b, UpdateAny(b, e))
           /\ Past(UpdateAny(b, e), e.id + 1)
<1> DEFINE old  == RemoveOldestEventOfType(b, e.type)
           room == IF MustDiscard(b, e.type) THEN [old EXCEPT !.overflow = TRUE] ELSE b
           r == [room EXCEPT !.soe = @ \cup {e}, !.totalCounts = Plus(@, {e})]
<1>0. e.id \in Nat /\ e \notin b.soe /\ \A f \in b.soe : f.id \in Nat
  BY DEF SOERecord, Past, GoodBuffer, BufferType
<1>1. GoodBuffer(UpdateAny(b, e)) /\ UpdateAny(b, e).soe \subseteq b.soe \cup {e}
  BY <1>0, UpdateGood
<1>2. Past(UpdateAny(b, e), e.id + 1)
  BY <1>0, <1>1 DEF Past
<1>3. /\ DOMAIN b = {"soe", "selected", "written", "totalCounts", "selectedCounts",
                     "writtenCounts", "overflow"}
      /\ b.overflow \in BOOLEAN
  BY DEF GoodBuffer, BufferType
<1>4. /\ DOMAIN old = DOMAIN b
      /\ old.written \subseteq b.written
      /\ old.overflow = b.overflow
  BY <1>3 DEF RemoveOldestEventOfType, RemoveFromCounts
<1> HIDE DEF old
<1>5. /\ DOMAIN room = DOMAIN b
      /\ room.written \subseteq b.written
      /\ b.overflow => room.overflow
      /\ room.soe # b.soe => room.overflow
  BY <1>3, <1>4
<1> HIDE DEF room
<1>6. /\ r.written \subseteq b.written
      /\ b.overflow => r.overflow
      /\ b.soe \ r.soe # {} => r.overflow
  BY <1>3, <1>5
<1>7. UpdateAny(b, e) = IF MaxForType[e.type] = 0 THEN b ELSE r
  BY DEF UpdateAny, r, room, old
<1> HIDE DEF r
<1>8. Writable(UpdateAny(b, e)) \subseteq Writable(b)
  <2>1. CASE MaxForType[e.type] = 0
    BY <1>7, <2>1
  <2>2. CASE MaxForType[e.type] # 0
    BY <2>2, UpdateFields
  <2> QED BY <2>1, <2>2
<1>9. Limited(b) => Limited(UpdateAny(b, e))
  BY UpdateLimited
<1> QED BY <1>1, <1>2, <1>6, <1>7, <1>8, <1>9 DEF Grown

\* One event of a transaction, and what holds after i of them when b was the
\* buffer and the first is numbered k.
UpdateStep(p, x, e)   == UpdateAny(x, e)
UpdatedUpTo(p, i, x) ==
    /\ Grown(p.b, x)
    /\ Past(x, p.k + i)
    /\ i = 0 => x = p.b

Transaction == INSTANCE FoldSteps WITH Step <- UpdateStep, Holds <- UpdatedUpTo

\* A whole transaction, whose events are numbered from k.
LEMMA TransactionGrows ==
    ASSUME NEW b, GoodBuffer(b), NEW k \in Nat, Past(b, k), NEW n \in Nat,
           NEW es, DOMAIN es = 1 .. n,
           \A i \in 1 .. n : es[i] \in SOERecord /\ es[i].id = k + i - 1
    PROVE  /\ Grown(b, AfterAll(b, es))
           /\ Past(AfterAll(b, es), k + n)
           /\ n = 0 => AfterAll(b, es) = b
<1> DEFINE p == [b |-> b, k |-> k]
<1>1. AfterAll(b, es) = Transaction!Folded(p, b, es)
  BY DEF AfterAll, FoldLeft, MapThenFoldSet, Max, UpdateStep,
         Transaction!Folded, Transaction!Folding, Transaction!Largest
<1>2. UpdatedUpTo(p, 0, b)
  BY DEF UpdatedUpTo, Grown
<1>3. ASSUME NEW i \in 1 .. n, NEW x, UpdatedUpTo(p, i - 1, x)
      PROVE  UpdatedUpTo(p, i, UpdateStep(p, x, es[i]))
  <2>1. Grown(b, x) /\ Past(x, k + (i - 1))
    BY <1>3 DEF UpdatedUpTo
  <2>2. es[i] \in SOERecord /\ es[i].id = k + (i - 1) /\ (k + (i - 1)) + 1 = k + i
    OBVIOUS
  <2>3. GoodBuffer(x) /\ Past(x, es[i].id)
    BY <2>1, <2>2 DEF Grown
  <2>4. Grown(x, UpdateAny(x, es[i])) /\ Past(UpdateAny(x, es[i]), k + i)
    BY <2>2, <2>3, UpdateGrows
  <2>5. Grown(b, UpdateAny(x, es[i]))
    BY <2>1, <2>4 DEF Grown
  <2>6. i # 0
    OBVIOUS
  <2> QED BY <2>4, <2>5, <2>6 DEF UpdatedUpTo, UpdateStep
<1>4. UpdatedUpTo(p, n, Transaction!Folded(p, b, es))
  <2> HIDE DEF p
  <2> QED BY <1>2, <1>3, Transaction!FoldInduction
<1> QED BY <1>1, <1>4 DEF UpdatedUpTo

----------------------------------------------------------------------------
(* The contexts an entry point passes through.                             *)

\* TypeOK's type of the context, which may have carried out requests.
Contexts ==
    [isOnline : BOOLEAN, isTransmitting : BOOLEAN,
     sol : {"Idle", "ConfirmWait"}, solNum : Seqs, solConfirm : Seqs,
     solTx : Fragments \cup {None},
     unsol : {"Idle", "ConfirmWait"}, unsolNum : Seqs, unsolConfirm : Seqs,
     completedNull : BOOLEAN, timer : {"none", "sol", "unsol"},
     history : Requests \cup {None},
     deferred : Requests \cup Confirms \cup {None},
     restart : BOOLEAN, mask : SUBSET EventClass,
     control : [expectedSeq : Seqs, elapsed : 0 .. SelectTimeout,
                objects : {r.objects : r \in Requests}] \cup {None},
     static : Nat, firstFragment : BOOLEAN, buffer : BufferType,
     lower : Seq(Fragments), ran : Seq(Requests)]

Typed(c) == c \in Contexts /\ GoodBuffer(c.buffer)

\* Sequence numbers count on in their range.
LEMMA IncrSeqType == \A s \in Seqs : IncrSeq(s) \in Seqs
BY OutstationAssumption DEF IncrSeq, Seqs

\* A confirm is no request, and a request is neither a confirm nor None.
LEMMA RequestKinds ==
    /\ \A r \in Requests : r.function # "CONFIRM" /\ r \notin Confirms /\ r # None
    /\ \A r \in Confirms : /\ r.function = "CONFIRM" /\ ~IsNoAckFuncCode(r.function)
                           /\ r.seq \in Seqs /\ r.uns \in BOOLEAN
    /\ None \notin Confirms
BY OutstationAssumption DEF Confirms, IsNoAckFuncCode

\* BeginResponseTx hands down one fragment and keeps it.
LEMMA BeginResponseTxEffect ==
    ASSUME NEW c, Typed(c), c.lower = <<>>, NEW f \in Fragments
    PROVE  /\ Typed(BeginResponseTx(c, f))
           /\ BeginResponseTx(c, f) =
                [c EXCEPT !.solTx = f, !.isTransmitting = TRUE, !.lower = <<f>>]
<1> DEFINE d == [c EXCEPT !.solTx = f, !.isTransmitting = TRUE, !.lower = <<f>>]
<1>1. Append(<<>>, f) = <<f>> /\ <<f>> \in Seq(Fragments)
  OBVIOUS
<1>2. BeginResponseTx(c, f) = d
  BY <1>1 DEF BeginResponseTx, BeginTx, Typed, Contexts
<1>3. d \in Contexts /\ d.buffer = c.buffer
  BY <1>1 DEF Typed, Contexts
<1> QED BY <1>2, <1>3 DEF Typed

\* What LoadResponse writes is what was left to write, it ends the response
\* when nothing is left, and it fills the fragment before it leaves anything.
Fills(c, f, b, left, con) ==
    /\ f.events \subseteq Writable(c.buffer)
    /\ b.selected = c.buffer.selected
    /\ con <=> ~f.fin \/ f.events # {}
    /\ f.fin => left = 0 /\ Writable(b) = {}
    /\ ~f.fin => Cardinality(f.events) + (c.static - left) >= Capacity

\* What LoadResponse does to the context: some of the events and of the
\* static data go into a fragment, which is kept and handed down.
LoadedWith(c, d, r, seq, f, b, left, con) ==
    /\ f = SolFragment(r, seq, c.firstFragment, f.fin, con, f.events)
    /\ GoodBuffer(b)
    /\ b.soe = c.buffer.soe
    /\ b.written = c.buffer.written \cup f.events
    /\ Fills(c, f, b, left, con)
    /\ d = [c EXCEPT !.buffer = b, !.static = left, !.firstFragment = FALSE,
                     !.solConfirm = seq, !.solTx = f, !.isTransmitting = TRUE,
                     !.lower = <<f>>,
                     !.sol = IF con THEN "ConfirmWait" ELSE "Idle",
                     !.timer = IF con /\ c.timer = "none" THEN "sol" ELSE c.timer]

Loaded(c, d, r, seq) ==
    \E f \in Fragments, b \in BufferType, left \in Nat, con \in BOOLEAN :
        LoadedWith(c, d, r, seq, f, b, left, con)

\* Sending a response fragment loads it from the buffer and leaves the rest alone.
LEMMA SendFragmentEffect ==
    ASSUME NEW c, Typed(c), c.lower = <<>>, NEW r \in Requests, NEW seq \in Seqs
    PROVE  /\ Typed(SendFragment(c, r, seq))
           /\ Loaded(c, SendFragment(c, r, seq), r, seq)
<1> DEFINE loaded == Load(c.buffer, Capacity)
           events  == loaded.written \ c.buffer.written
           notFull == Writable(loaded) = {}
           left    == IF notFull THEN c.static - Smaller(c.static, Capacity - Cardinality(events))
                                 ELSE c.static
           fin     == notFull /\ left = 0
           con     == ~fin \/ events # {}
           f       == SolFragment(r, seq, c.firstFragment, fin, con, events)
           b       == CheckOverflow(loaded)
           d       == [c EXCEPT !.buffer = b, !.static = left, !.firstFragment = FALSE,
                         !.solConfirm = seq, !.solTx = f, !.isTransmitting = TRUE,
                         !.lower = <<f>>,
                         !.sol = IF con THEN "ConfirmWait" ELSE "Idle",
                         !.timer = IF con /\ c.timer = "none" THEN "sol" ELSE c.timer]
<1>1. GoodBuffer(loaded) /\ loaded.soe = c.buffer.soe
  BY LoadGood DEF Typed
<1>2. GoodBuffer(b) /\ b.soe = c.buffer.soe /\ b.written = loaded.written
  BY <1>1, CheckOverflowGood DEF CheckOverflow, GoodBuffer, BufferType
<1>3. c.buffer.written \subseteq loaded.written
  BY DEF Load, Typed, GoodBuffer, BufferType
<1>4. events \subseteq SOERecord /\ IsFiniteSet(events) /\ Cardinality(events) \in Nat
  <2>1. IsFiniteSet(loaded.written) /\ loaded.written \subseteq SOERecord
    BY <1>1, GoodFinite DEF GoodBuffer, BufferType
  <2> QED BY <2>1, FS_Subset, FS_CardinalityType
<1>5. b.written = c.buffer.written \cup events
  BY <1>2, <1>3
<1>a. b.selected = c.buffer.selected /\ Writable(b) = Writable(loaded)
  <2>1. loaded.selected = c.buffer.selected
    BY DEF Load, Typed, GoodBuffer, BufferType
  <2>2. b.selected = loaded.selected
    <3> HIDE DEF loaded
    <3> QED BY <1>1 DEF CheckOverflow, GoodBuffer, BufferType
  <2> QED BY <1>2, <2>1, <2>2 DEF Writable
<1>b. /\ events \subseteq Writable(c.buffer)
      /\ ~notFull => Cardinality(events) >= Capacity
  BY LoadFills, OutstationAssumption DEF Typed
<1> HIDE DEF loaded, events
<1>c. /\ fin => left = 0 /\ Writable(b) = {}
      /\ ~fin => Cardinality(events) + (c.static - left) >= Capacity
  <2>1. c.static \in Nat /\ Capacity \in Nat
    BY OutstationAssumption DEF Typed, Contexts
  <2>2. CASE notFull
    <3> DEFINE n == Cardinality(events)
               s == Smaller(c.static, Capacity - n)
    <3>1. left = c.static - s /\ Writable(b) = {} /\ (fin <=> left = 0)
      BY <1>a, <2>2
    <3>2. s = c.static \/ s = Capacity - n
      BY DEF Smaller
    <3>3. n \in Nat
      BY <1>4
    <3> HIDE DEF notFull, left, fin, n, s
    <3>4. ~fin => n + (c.static - left) >= Capacity
      <4>1. CASE s = c.static
        BY <2>1, <3>1, <4>1
      <4>2. CASE s = Capacity - n
        BY <2>1, <3>1, <3>3, <4>2
      <4> QED BY <3>2, <4>1, <4>2
    <3> QED BY <3>1, <3>4 DEF n
  <2>3. CASE ~notFull
    BY <1>4, <1>b, <2>1, <2>3
  <2> QED BY <2>2, <2>3
<1> HIDE DEF notFull
<1>6. left \in Nat
  BY <1>4, OutstationAssumption DEF Smaller, Typed, Contexts
<1> HIDE DEF left
<1>7. fin \in BOOLEAN /\ con \in BOOLEAN
  OBVIOUS
<1> HIDE DEF fin, con, b
<1>8. f \in Fragments
  BY <1>4, <1>7 DEF SolFragment, Fragments, Typed, Contexts
<1>9. /\ f = SolFragment(r, seq, c.firstFragment, f.fin, con, f.events)
      /\ f.events = events /\ f.fin = fin
  BY DEF SolFragment
<1> HIDE DEF f
<1>d. Fills(c, f, b, left, con)
  <2>1. con <=> ~fin \/ events # {}
    BY DEF con
  <2> QED BY <1>9, <1>a, <1>b, <1>c, <2>1 DEF Fills
<1>10. Typed(d)
  <2>1. <<f>> \in Seq(Fragments) /\ b \in BufferType
    BY <1>2, <1>8 DEF GoodBuffer
  <2>2. d \in Contexts /\ d.buffer = b
    <3> DEFINE sol   == IF con THEN "ConfirmWait" ELSE "Idle"
               timer == IF con /\ c.timer = "none" THEN "sol" ELSE c.timer
    <3>1. sol \in {"Idle", "ConfirmWait"} /\ timer \in {"none", "sol", "unsol"}
      BY DEF Typed, Contexts
    <3> HIDE DEF sol, timer
    <3>2. d = [c EXCEPT !.buffer = b, !.static = left, !.firstFragment = FALSE,
                         !.solConfirm = seq, !.solTx = f, !.isTransmitting = TRUE,
                         !.lower = <<f>>, !.sol = sol, !.timer = timer]
      BY DEF sol, timer
    <3> HIDE DEF d
    <3> QED BY <1>6, <1>8, <2>1, <3>1, <3>2 DEF Typed, Contexts
  <2> HIDE DEF d
  <2> QED BY <1>2, <2>2 DEF Typed
<1>11. SendFragment(c, r, seq) = d
  <2> DEFINE c1 == [c EXCEPT !.buffer = loaded, !.static = left, !.firstFragment = FALSE,
                             !.solConfirm = seq]
             c2 == [c EXCEPT !.buffer = b, !.static = left, !.firstFragment = FALSE,
                             !.solConfirm = seq]
             c3 == [c EXCEPT !.buffer = b, !.static = left, !.firstFragment = FALSE,
                             !.solConfirm = seq, !.solTx = f, !.isTransmitting = TRUE,
                             !.lower = <<f>>]
             c4 == IF con THEN StartTimer([c3 EXCEPT !.sol = "ConfirmWait"], "sol")
                          ELSE [c3 EXCEPT !.sol = "Idle"]
  <2>1. GetResponseIIN(c1) = c2
    BY DEF GetResponseIIN, b, Typed, Contexts
  <2>2. c2 \in Contexts /\ c2.lower = <<>> /\ c2.buffer = b
    BY <1>2, <1>6, ZenonT(30) DEF Typed, Contexts, GoodBuffer
  <2>3. BeginResponseTx(c2, f) = c3
    <3>1. Typed(c2)
      BY <1>2, <2>2 DEF Typed
    <3> HIDE DEF c2
    <3>2. BeginResponseTx(c2, f) = [c2 EXCEPT !.solTx = f, !.isTransmitting = TRUE, !.lower = <<f>>]
      BY <1>8, <2>2, <3>1, BeginResponseTxEffect
    <3> QED BY <3>2 DEF c2
  <2>4. SendFragment(c, r, seq) = c4
    <3> HIDE DEF c2, c3
    <3>1. BeginResponseTx(GetResponseIIN(c1), f) = c3
      BY <2>1, <2>3
    <3> QED BY <3>1 DEF SendFragment, loaded, events, notFull, left, fin, con, f
  <2>5. c4 = d
    BY <1>7 DEF StartTimer, Typed, Contexts
  <2> QED BY <2>4, <2>5
<1>12. Loaded(c, d, r, seq)
  <2>1. LoadedWith(c, d, r, seq, f, b, left, con)
    BY <1>2, <1>5, <1>9, <1>d DEF LoadedWith
  <2>2. b \in BufferType
    BY <1>2 DEF GoodBuffer
  <2> HIDE DEF d
  <2> QED BY <1>6, <1>7, <1>8, <2>1, <2>2 DEF Loaded
<1> QED BY <1>10, <1>11, <1>12

----------------------------------------------------------------------------
(* What every handler keeps of a context.                                  *)

\* The transmission slot: the flag is raised exactly while one fragment is out.
Slot(c) ==
    \/ c.isTransmitting = FALSE /\ c.lower = <<>>
    \/ c.isTransmitting = TRUE /\ c.isOnline = TRUE /\ \E f \in Fragments : c.lower = <<f>>

\* A running timer has a waiter.
Waiter(c) ==
    /\ c.timer = "sol" => c.sol = "ConfirmWait"
    /\ c.timer = "unsol" => c.unsol = "ConfirmWait"

\* The kept response is solicited, there when its confirm is awaited, and
\* answers the request of the history.
Kept(c) ==
    /\ c.solTx # None => c.solTx.uns = FALSE /\ c.solTx.to \in Requests
    /\ c.sol = "ConfirmWait" => c.solTx # None
    /\ c.history # None => c.solTx # None /\ c.solTx.to = c.history

\* A fragment is under way, and it is unsolicited.
UnsolSent(c) == c.lower # <<>> /\ c.lower[1].uns = TRUE

\* The unsolicited fragment that went out last, in or before this entry point.
LastUnsol(c, h) == IF UnsolSent(c) THEN c.lower[1] ELSE h.unsol

\* A confirm r would end the null response of the session.
EndsNull(c, r) == r.uns = TRUE /\ UnsolConfirmExpected(c, r) /\ c.completedNull = FALSE

\* Null responses come first: h is what was heard before this entry point,
\* g whether the master confirmed a null response by the end of it.
NullFirst(c, h, g) ==
    /\ c.completedNull = TRUE => g = TRUE
    /\ UnsolSent(c) /\ c.lower[1].events # {} => g = TRUE
    /\ c.unsol = "ConfirmWait" =>
         /\ LastUnsol(c, h) \in Fragments
         /\ LastUnsol(c, h).uns = TRUE
         /\ LastUnsol(c, h).seq = c.unsolConfirm
         /\ c.completedNull = FALSE => LastUnsol(c, h).events = {}
    /\ c.deferred \in Confirms /\ EndsNull(c, c.deferred) => g = TRUE

\* Everything but Kept.
Sound(c, h, g) == Typed(c) /\ Slot(c) /\ Waiter(c) /\ NullFirst(c, h, g)

Good(c, h, g) == Sound(c, h, g) /\ Kept(c)

\* A free transmission slot is empty.
LEMMA FreeSlot ==
    ASSUME NEW c, Slot(c), CanTransmit(c)
    PROVE  c.lower = <<>> /\ c.isOnline /\ ~c.isTransmitting
BY DEF Slot, CanTransmit

\* The fields NullFirst reads, for a context that sends no unsolicited
\* fragment and changes none of them.
LEMMA SameNull ==
    ASSUME NEW c, NEW d, NEW h, NEW g, NullFirst(c, h, g),
           UnsolSent(d) <=> UnsolSent(c),
           UnsolSent(c) => d.lower = c.lower,
           d.completedNull = c.completedNull, d.unsol = c.unsol,
           d.unsolConfirm = c.unsolConfirm,
           d.deferred = c.deferred \/ d.deferred \notin Confirms
    PROVE  NullFirst(d, h, g)
BY DEF NullFirst, LastUnsol, EndsNull, UnsolConfirmExpected

\* No event came into the buffer.
NoneAdded(c, d) == d.buffer.soe \subseteq c.buffer.soe

\* Nothing was carried out and the request history is what it was.
Keeps(c, d) ==
    /\ NoneAdded(c, d)
    /\ d.ran = c.ran           /\ d.solNum = c.solNum
    /\ d.history = c.history   /\ d.deferred = c.deferred
    /\ d.isOnline = c.isOnline /\ (c.unsol = "Idle" => d.unsol = "Idle")

\* A response that goes into a free slot and is kept leaves a good context.
LEMMA SendFragmentGood ==
    ASSUME NEW c, NEW h, NEW g, Sound(c, h, g), CanTransmit(c), c.timer # "sol",
           NEW r \in Requests, NEW seq \in Seqs,
           c.history # None => c.history = r
    PROVE  LET d == SendFragment(c, r, seq)
           IN  Good(d, h, g) /\ d.isTransmitting = TRUE /\ Keeps(c, d)
<1> DEFINE d == SendFragment(c, r, seq)
<1>1. c.lower = <<>> /\ Typed(c) /\ c.isOnline = TRUE
  BY FreeSlot DEF Sound, CanTransmit, Slot
<1>2. Typed(d) /\ Loaded(c, d, r, seq)
  BY <1>1, SendFragmentEffect
<1> HIDE DEF d
<1>3. PICK f \in Fragments, con \in BOOLEAN :
        /\ f.uns = FALSE /\ f.to = r
        /\ d.isTransmitting = TRUE /\ d.lower = <<f>> /\ d.solTx = f
        /\ d.sol = IF con THEN "ConfirmWait" ELSE "Idle"
        /\ d.timer = IF con /\ c.timer = "none" THEN "sol" ELSE c.timer
        /\ d.isOnline = c.isOnline /\ d.completedNull = c.completedNull
        /\ d.unsol = c.unsol /\ d.unsolConfirm = c.unsolConfirm
        /\ d.deferred = c.deferred /\ d.history = c.history
        /\ d.ran = c.ran /\ d.solNum = c.solNum
        /\ d.buffer.soe = c.buffer.soe
  <2>1. PICK f \in Fragments, b \in BufferType, left \in Nat, con \in BOOLEAN :
          LoadedWith(c, d, r, seq, f, b, left, con)
    BY <1>2 DEF Loaded
  <2>2. f.uns = FALSE /\ f.to = r
    BY <2>1 DEF LoadedWith, SolFragment
  <2>3. /\ d.isTransmitting = TRUE /\ d.lower = <<f>> /\ d.solTx = f
        /\ d.sol = IF con THEN "ConfirmWait" ELSE "Idle"
        /\ d.timer = IF con /\ c.timer = "none" THEN "sol" ELSE c.timer
        /\ d.isOnline = c.isOnline /\ d.completedNull = c.completedNull
        /\ d.unsol = c.unsol /\ d.unsolConfirm = c.unsolConfirm
        /\ d.deferred = c.deferred /\ d.history = c.history
        /\ d.ran = c.ran /\ d.solNum = c.solNum
        /\ d.buffer = b /\ b.soe = c.buffer.soe
    BY <1>1, <2>1 DEF LoadedWith, Typed, Contexts
  <2> QED BY <2>2, <2>3
<1>4. f # None
  BY OutstationAssumption
<1>5. Slot(d)
  BY <1>1, <1>3 DEF Slot
<1>6. Waiter(d)
  BY <1>3 DEF Sound, Waiter
<1>7. Kept(d)
  BY <1>3, <1>4 DEF Kept
<1>8. NullFirst(d, h, g)
  <2>1. ~UnsolSent(c) /\ ~UnsolSent(d)
    BY <1>1, <1>3 DEF UnsolSent
  <2> QED BY <1>3, <2>1, SameNull DEF Sound
<1> QED BY <1>1, <1>2, <1>3, <1>5, <1>6, <1>7, <1>8 DEF Good, Sound, Keeps, NoneAdded, d

\* The parts of two contexts that decide what a handler does are the same.
SameState(c, d) ==
    /\ d.isOnline = c.isOnline           /\ d.isTransmitting = c.isTransmitting
    /\ d.sol = c.sol                     /\ d.solNum = c.solNum
    /\ d.unsol = c.unsol                 /\ d.unsolConfirm = c.unsolConfirm
    /\ d.completedNull = c.completedNull /\ d.timer = c.timer
    /\ d.deferred = c.deferred           /\ d.lower = c.lower
    /\ d.solTx = c.solTx

\* What is sound of a session stays so when only what a handler may change changes.
LEMMA SameSound ==
    ASSUME NEW c, NEW d, NEW h, NEW g, Sound(c, h, g), Typed(d), SameState(c, d)
    PROVE  /\ Sound(d, h, g)
           /\ CanTransmit(d) <=> CanTransmit(c)
           /\ Kept(c) /\ d.history = c.history => Kept(d)
<1>1. NullFirst(d, h, g)
  BY SameNull DEF Sound, SameState, UnsolSent
<1> QED BY <1>1 DEF Sound, SameState, Slot, Waiter, Kept, CanTransmit

\* Changes of the fields that steer nothing keep the type.
LEMMA PlainFieldsTyped ==
    ASSUME NEW c, Typed(c)
    PROVE  /\ \A r \in Requests \cup {None} : Typed([c EXCEPT !.history = r])
           /\ \A s \in Seqs : Typed([c EXCEPT !.solNum = s])
           /\ \A s \in Seqs : Typed([c EXCEPT !.solConfirm = s])
           /\ \A r \in Requests \cup Confirms \cup {None} : Typed([c EXCEPT !.deferred = r])
           /\ \A b : GoodBuffer(b) => Typed([c EXCEPT !.buffer = b])
           /\ Typed([c EXCEPT !.restart = FALSE])
           /\ \A m \in SUBSET EventClass : Typed([c EXCEPT !.mask = m])
<1>1. ASSUME NEW r \in Requests \cup {None} PROVE Typed([c EXCEPT !.history = r])
  BY DEF Typed, Contexts
<1>2. ASSUME NEW s \in Seqs
      PROVE  Typed([c EXCEPT !.solNum = s]) /\ Typed([c EXCEPT !.solConfirm = s])
  BY DEF Typed, Contexts
<1>3. ASSUME NEW r \in Requests \cup Confirms \cup {None} PROVE Typed([c EXCEPT !.deferred = r])
  BY DEF Typed, Contexts
<1>4. ASSUME NEW b, GoodBuffer(b) PROVE Typed([c EXCEPT !.buffer = b])
  <2>1. b \in BufferType
    BY <1>4 DEF GoodBuffer
  <2> QED BY <1>4, <2>1 DEF Typed, Contexts
<1>5. Typed([c EXCEPT !.restart = FALSE])
  BY ZenonT(30) DEF Typed, Contexts
<1>6. ASSUME NEW m \in SUBSET EventClass PROVE Typed([c EXCEPT !.mask = m])
  BY DEF Typed, Contexts
<1> QED BY <1>1, <1>2, <1>3, <1>4, <1>5, <1>6

\* The request handlers change what the application and the configuration
\* see, and carry the request out at most once.
Handled(c, d, r) ==
    /\ Typed(d) /\ SameState(c, d) /\ d.history = c.history
    /\ d.buffer = c.buffer
    /\ d.ran = c.ran \/ d.ran = Append(c.ran, r)

\* Carrying out a non-READ request changes the buffer, the image and the record of it.
LEMMA HandleNonReadResponseEffect ==
    ASSUME NEW c, Typed(c), NEW r \in Requests
    PROVE  Handled(c, HandleNonReadResponse(c, r), r)
<1> DEFINE k == CarryOut(c, r)
<1> USE DEF Handled, SameState
<1>1. Handled(c, c, r)
  OBVIOUS
<1>2. k = [c EXCEPT !.ran = Append(c.ran, r)] /\ Append(c.ran, r) \in Seq(Requests)
  BY DEF CarryOut, Typed, Contexts
<1>3. Handled(c, k, r)
  BY <1>2, ZenonT(30) DEF Typed, Contexts
<1> HIDE DEF k
<1>4. Handled(c, [k EXCEPT !.restart = FALSE], r)
  <2>1. Typed([k EXCEPT !.restart = FALSE])
    BY <1>3, PlainFieldsTyped
  <2> QED BY <1>3, <2>1 DEF Typed, Contexts
<1>5. ASSUME NEW m \in SUBSET EventClass
      PROVE  Handled(c, [k EXCEPT !.mask = m], r)
  <2>1. Typed([k EXCEPT !.mask = m])
    BY <1>3, PlainFieldsTyped
  <2> QED BY <1>3, <2>1 DEF Typed, Contexts
<1>6. Handled(c, [k EXCEPT !.control = [expectedSeq |-> IncrSeq(c.solNum), elapsed |-> 0,
                                        objects |-> r.objects]], r)
  <2> DEFINE s == [expectedSeq |-> IncrSeq(c.solNum), elapsed |-> 0, objects |-> r.objects]
  <2>1. IncrSeq(c.solNum) \in Seqs /\ 0 \in 0 .. SelectTimeout
    BY IncrSeqType, OutstationAssumption DEF Typed, Contexts
  <2>2. s \in [expectedSeq : Seqs, elapsed : 0 .. SelectTimeout,
               objects : {q.objects : q \in Requests}]
    BY <2>1
  <2> HIDE DEF s
  <2>3. Handled(c, [k EXCEPT !.control = s], r)
    BY <1>3, <2>2 DEF Typed, Contexts
  <2> QED BY <2>3 DEF s
<1> HIDE DEF Handled, SameState
<1>7. HandleWrite(c, r) \in {c, k, [k EXCEPT !.restart = FALSE]}
  BY DEF HandleWrite, k
<1>8. HandleSelect(c, r) \in {k, [k EXCEPT !.control = [expectedSeq |-> IncrSeq(c.solNum),
                                                       elapsed |-> 0, objects |-> r.objects]]}
  BY DEF HandleSelect, k
<1>9. /\ HandleOperate(c, r) \in {c, k}
      /\ HandleDirectOperate(c, r) = k
      /\ HandleRestart(c, r) \in {c, k}
      /\ HandleAssignClass(c, r) \in {c, k}
  BY DEF HandleOperate, HandleDirectOperate, HandleRestart, HandleAssignClass, k
<1>10. /\ \E m \in SUBSET EventClass : HandleDisableUnsolicited(c, r) = [k EXCEPT !.mask = m]
       /\ \E m \in SUBSET EventClass : HandleEnableUnsolicited(c, r) = [k EXCEPT !.mask = m]
  <2>1. /\ k.mask \ r.objects.classes \in SUBSET EventClass
        /\ k.mask \cup r.objects.classes \in SUBSET EventClass
    BY <1>3, OutstationAssumption DEF Handled, Typed, Contexts
  <2>2. /\ HandleDisableUnsolicited(c, r) = [k EXCEPT !.mask = k.mask \ r.objects.classes]
        /\ HandleEnableUnsolicited(c, r) = [k EXCEPT !.mask = k.mask \cup r.objects.classes]
    BY DEF HandleDisableUnsolicited, HandleEnableUnsolicited, k
  <2> QED BY <2>1, <2>2
<1>11. /\ Handled(c, HandleWrite(c, r), r)
       /\ Handled(c, HandleSelect(c, r), r)
       /\ Handled(c, HandleOperate(c, r), r)
       /\ Handled(c, HandleDirectOperate(c, r), r)
       /\ Handled(c, HandleRestart(c, r), r)
       /\ Handled(c, HandleAssignClass(c, r), r)
       /\ Handled(c, HandleDisableUnsolicited(c, r), r)
       /\ Handled(c, HandleEnableUnsolicited(c, r), r)
  BY <1>1, <1>3, <1>4, <1>5, <1>6, <1>7, <1>8, <1>9, <1>10
<1> QED BY <1>1, <1>11 DEF HandleNonReadResponse

\* Any other response that goes into a free slot and is kept.
LEMMA ResponseGood ==
    ASSUME NEW c, NEW h, NEW g, Sound(c, h, g), CanTransmit(c), c.timer # "sol",
           NEW f \in Fragments, f.uns = FALSE, f.to \in Requests,
           c.history # None => f.to = c.history
    PROVE  LET d == [BeginResponseTx(GetResponseIIN(c), f) EXCEPT !.sol = "Idle"]
           IN  Good(d, h, g) /\ d.isTransmitting = TRUE /\ Keeps(c, d)
<1> DEFINE b == GetResponseIIN(c)
           e == BeginResponseTx(b, f)
           d == [e EXCEPT !.sol = "Idle"]
<1>1. c.lower = <<>> /\ Typed(c) /\ c.isOnline = TRUE
  BY FreeSlot DEF Sound, CanTransmit, Slot
<1>2. GoodBuffer(CheckOverflow(c.buffer)) /\ CheckOverflow(c.buffer).soe = c.buffer.soe
  BY <1>1, CheckOverflowGood DEF Typed
<1>3. Typed(b) /\ SameState(c, b) /\ Keeps(c, b)
  <2>1. b = [c EXCEPT !.buffer = CheckOverflow(c.buffer)]
    BY DEF GetResponseIIN
  <2> HIDE DEF b
  <2>2. Typed(b)
    <3> DEFINE x == CheckOverflow(c.buffer)
    <3> HIDE DEF x
    <3>1. Typed([c EXCEPT !.buffer = x])
      BY <1>1, <1>2, PlainFieldsTyped DEF x
    <3> QED BY <2>1, <3>1 DEF x
  <2> QED BY <1>1, <1>2, <2>1, <2>2 DEF Typed, Contexts, SameState, Keeps, NoneAdded
<1>4. Sound(b, h, g)
  BY <1>3, SameSound
<1> HIDE DEF b
<1>5. Typed(e) /\ e = [b EXCEPT !.solTx = f, !.isTransmitting = TRUE, !.lower = <<f>>]
  BY <1>1, <1>3, BeginResponseTxEffect DEF SameState
<1> HIDE DEF e
<1>6. Typed(d)
  <2>1. Typed(e)
    BY <1>5
  <2>2. d \in Contexts /\ d.buffer = e.buffer
    BY <2>1 DEF Typed, Contexts
  <2> QED BY <2>1, <2>2 DEF Typed
<1>7. /\ d.isTransmitting = TRUE /\ d.lower = <<f>> /\ d.solTx = f /\ d.sol = "Idle"
      /\ d.timer = b.timer /\ d.unsol = b.unsol /\ d.unsolConfirm = b.unsolConfirm
      /\ d.completedNull = b.completedNull /\ Keeps(b, d)
  <2>1. /\ d.isTransmitting = e.isTransmitting /\ d.lower = e.lower /\ d.solTx = e.solTx
        /\ d.sol = "Idle" /\ d.timer = e.timer /\ d.unsol = e.unsol
        /\ d.unsolConfirm = e.unsolConfirm /\ d.completedNull = e.completedNull /\ Keeps(e, d)
    BY <1>5 DEF Typed, Contexts, Keeps, NoneAdded
  <2> HIDE DEF d
  <2>2. /\ e.isTransmitting = TRUE /\ e.lower = <<f>> /\ e.solTx = f
        /\ e.timer = b.timer /\ e.unsol = b.unsol /\ e.unsolConfirm = b.unsolConfirm
        /\ e.completedNull = b.completedNull /\ Keeps(b, e)
    BY <1>3, <1>5 DEF Typed, Contexts, Keeps, NoneAdded
  <2> QED BY <2>1, <2>2 DEF Keeps, NoneAdded
<1> HIDE DEF d
<1>8. Keeps(c, d)
  BY <1>3, <1>7 DEF Keeps, NoneAdded
<1>9. f # None
  BY OutstationAssumption
<1>10. Slot(d)
  BY <1>1, <1>7, <1>8 DEF Slot, Keeps, NoneAdded
<1>11. Waiter(d)
  BY <1>1, <1>3, <1>7 DEF Sound, Waiter, SameState
<1>12. Kept(d)
  BY <1>7, <1>8, <1>9 DEF Kept, Keeps, NoneAdded
<1>13. NullFirst(d, h, g)
  <2>1. ~UnsolSent(b) /\ ~UnsolSent(d)
    BY <1>1, <1>3, <1>7 DEF UnsolSent, SameState
  <2> QED BY <1>4, <1>7, <2>1, SameNull DEF Sound, Keeps, NoneAdded
<1> QED BY <1>6, <1>7, <1>8, <1>10, <1>11, <1>12, <1>13 DEF Good, Sound, d, e, b

----------------------------------------------------------------------------
(* The handlers of the solicited states.                                   *)

\* An empty response is a fragment.
LEMMA EmptyResponseType ==
    ASSUME NEW r \in Requests
    PROVE  /\ SolFragment(r, r.seq, TRUE, TRUE, FALSE, {}) \in Fragments
           /\ SolFragment(r, r.seq, TRUE, TRUE, FALSE, {}).uns = FALSE
           /\ SolFragment(r, r.seq, TRUE, TRUE, FALSE, {}).to = r
BY OutstationAssumption DEF SolFragment, Fragments

\* The request is in the history, and what was carried out is known.
Answers(c, d, r) ==
    /\ NoneAdded(c, d)
    /\ d.isTransmitting = TRUE
    /\ d.history = r             /\ d.solNum = c.solNum
    /\ d.deferred = c.deferred   /\ d.isOnline = c.isOnline
    /\ c.unsol = "Idle" => d.unsol = "Idle"

\* The answer to a READ keeps the session good, and it is the answer to that READ.
LEMMA RespondToReadRequestGood ==
    ASSUME NEW c, NEW h, NEW g, Good(c, h, g), CanTransmit(c), c.sol = "Idle",
           NEW r \in Requests
    PROVE  LET d == RespondToReadRequest(c, r)
           IN  Good(d, h, g) /\ Answers(c, d, r) /\ d.ran = c.ran
<1> DEFINE u == Unselect(c.buffer)
           start == [c EXCEPT !.history = r, !.firstFragment = TRUE, !.buffer = u, !.static = 0]
           v == SelectAllByClass(u, r.objects.classes)
           asked == [start EXCEPT !.buffer = v, !.static = r.objects.static]
           bad == [start EXCEPT !.solConfirm = r.seq]
           ok(x) == /\ Sound(x, h, g) /\ CanTransmit(x) /\ x.timer # "sol"
                    /\ x.history = r /\ x.ran = c.ran /\ x.solNum = c.solNum
                    /\ x.deferred = c.deferred /\ x.isOnline = c.isOnline /\ x.unsol = c.unsol
                    /\ x.buffer.soe = c.buffer.soe
<1>1. Typed(c) /\ c.timer # "sol"
  BY DEF Good, Sound, Waiter
<1>2. GoodBuffer(u) /\ GoodBuffer(v) /\ u.soe = c.buffer.soe /\ v.soe = c.buffer.soe
  BY <1>1, UnselectGood, SelectHeadersGood DEF Typed, SelectAllByClass
<1> HIDE DEF u, v
<1>3. u \in BufferType /\ v \in BufferType /\ r.objects.static \in Nat /\ r.seq \in Seqs
  BY <1>2, OutstationAssumption DEF GoodBuffer
<1>4. \A x \in {start, asked, bad} : x \in Contexts /\ x.buffer \in {u, v}
  <2>1. start \in Contexts /\ start.buffer = u
    BY <1>1, <1>3 DEF Typed, Contexts
  <2>2. asked \in Contexts /\ asked.buffer = v
    BY <1>1, <1>3 DEF Typed, Contexts
  <2>3. bad \in Contexts /\ bad.buffer = u
    BY <1>1, <1>3 DEF Typed, Contexts
  <2> HIDE DEF start, asked, bad
  <2> QED BY <2>1, <2>2, <2>3
<1>5. \A x \in {start, asked, bad} :
        SameState(c, x) /\ x.history = r /\ x.ran = c.ran
  <2>1. SameState(c, start) /\ start.history = r /\ start.ran = c.ran
    BY <1>1 DEF Typed, Contexts, SameState
  <2>2. SameState(c, asked) /\ asked.history = r /\ asked.ran = c.ran
    BY <1>1 DEF Typed, Contexts, SameState
  <2>3. SameState(c, bad) /\ bad.history = r /\ bad.ran = c.ran
    BY <1>1 DEF Typed, Contexts, SameState
  <2> HIDE DEF start, asked, bad
  <2> QED BY <2>1, <2>2, <2>3
<1>6. ok(asked) /\ ok(bad)
  <2> HIDE DEF start, asked, bad
  <2>1. ASSUME NEW x \in {start, asked, bad} PROVE ok(x)
    <3>1. Typed(x)
      BY <1>2, <1>4 DEF Typed
    <3>2. x.buffer.soe = c.buffer.soe
      BY <1>2, <1>4
    <3> QED BY <1>1, <1>5, <3>1, <3>2, SameSound DEF Good, SameState
  <2> QED BY <2>1
<1>7. RespondToReadRequest(c, r) =
        IF r.objects.valid THEN SendFragment(asked, r, r.seq)
        ELSE [BeginResponseTx(GetResponseIIN(bad), SolFragment(r, r.seq, TRUE, TRUE, FALSE, {}))
                EXCEPT !.sol = "Idle"]
  <2>1. start = [c EXCEPT !.history = r, !.firstFragment = TRUE,
                          !.buffer = Unselect(@), !.static = 0]
    BY DEF u
  <2>2. asked = [start EXCEPT !.buffer = SelectAllByClass(@, r.objects.classes),
                              !.static = r.objects.static]
    BY <1>1 DEF v, Typed, Contexts
  <2> HIDE DEF start, asked, bad
  <2> QED BY <2>1, <2>2 DEF RespondToReadRequest, bad
<1> HIDE DEF start, asked, bad
<1>8. CASE r.objects.valid
  <2> DEFINE d == SendFragment(asked, r, r.seq)
  <2>1. Good(d, h, g) /\ d.isTransmitting = TRUE /\ Keeps(asked, d)
    BY <1>3, <1>6, SendFragmentGood
  <2> HIDE DEF d
  <2>2. Answers(c, d, r) /\ d.ran = c.ran
    BY <1>6, <2>1 DEF Answers, NoneAdded, Keeps
  <2> QED BY <1>7, <1>8, <2>1, <2>2 DEF d
<1>9. CASE ~r.objects.valid
  <2> DEFINE f == SolFragment(r, r.seq, TRUE, TRUE, FALSE, {})
             d == [BeginResponseTx(GetResponseIIN(bad), f) EXCEPT !.sol = "Idle"]
  <2>1. f \in Fragments /\ f.uns = FALSE /\ f.to = r
    BY EmptyResponseType
  <2>2. RespondToReadRequest(c, r) = d
    BY <1>7, <1>9
  <2> HIDE DEF f
  <2>3. Good(d, h, g) /\ d.isTransmitting = TRUE /\ Keeps(bad, d)
    BY <1>6, <2>1, ResponseGood
  <2> HIDE DEF d
  <2>4. Answers(c, d, r) /\ d.ran = c.ran
    BY <1>6, <2>3 DEF Answers, NoneAdded, Keeps
  <2> QED BY <2>2, <2>3, <2>4
<1> QED BY <1>8, <1>9

\* So does the answer to any other request, which is carried out at most once.
LEMMA RespondToNonReadRequestGood ==
    ASSUME NEW c, NEW h, NEW g, Good(c, h, g), CanTransmit(c), c.sol = "Idle",
           NEW r \in Requests
    PROVE  LET d == RespondToNonReadRequest(c, r)
           IN  /\ Good(d, h, g) /\ Answers(c, d, r)
               /\ d.ran = c.ran \/ d.ran = Append(c.ran, r)
<1> DEFINE noted == [c EXCEPT !.history = r]
           k == HandleNonReadResponse(noted, r)
           f == SolFragment(r, r.seq, TRUE, TRUE, FALSE, {})
           d == [BeginResponseTx(GetResponseIIN(k), f) EXCEPT !.sol = "Idle"]
<1>1. Typed(c) /\ c.timer # "sol"
  BY DEF Good, Sound, Waiter
<1>2. /\ Typed(noted) /\ SameState(c, noted) /\ noted.history = r /\ noted.ran = c.ran
      /\ noted.buffer = c.buffer
  BY <1>1, PlainFieldsTyped DEF Typed, Contexts, SameState
<1>3. Sound(noted, h, g) /\ CanTransmit(noted)
  BY <1>2, SameSound DEF Good
<1> HIDE DEF noted
<1>4. Handled(noted, k, r)
  BY <1>2, HandleNonReadResponseEffect
<1> HIDE DEF k
<1>5. Sound(k, h, g) /\ CanTransmit(k) /\ k.timer # "sol" /\ k.history = r
  <2>1. Typed(k) /\ SameState(noted, k) /\ k.history = r
    BY <1>2, <1>4 DEF Handled
  <2> QED BY <1>1, <1>2, <1>3, <2>1, SameSound DEF SameState
<1>6. f \in Fragments /\ f.uns = FALSE /\ f.to = r
  BY EmptyResponseType
<1>7. RespondToNonReadRequest(c, r) = d
  BY DEF RespondToNonReadRequest, k, noted
<1> HIDE DEF f
<1>8. Good(d, h, g) /\ d.isTransmitting = TRUE /\ Keeps(k, d)
  BY <1>5, <1>6, ResponseGood
<1> HIDE DEF d
<1>9. Answers(c, d, r)
  BY <1>2, <1>4, <1>5, <1>8 DEF Answers, NoneAdded, Keeps, SameState, Handled
<1>10. d.ran = c.ran \/ d.ran = Append(c.ran, r)
  BY <1>2, <1>4, <1>8 DEF Keeps, NoneAdded, Handled
<1> QED BY <1>7, <1>8, <1>9, <1>10

\* The request is the one that was answered last.
IsRepeat(c, r) == c.history # None /\ c.solNum = r.seq /\ c.history = r

\* What receiving the request r may do: a repeat is not carried out, and what
\* is carried out is in the history.
Answered(c, d, r) ==
    \/ d.ran = c.ran /\ d.history = c.history /\ d.solNum = c.solNum
    \/ /\ ~IsRepeat(c, r) /\ d.solNum = r.seq
       /\ \/ d.history = c.history /\ d.ran = c.ran
          \/ d.history = r /\ (d.ran = c.ran \/ d.ran = Append(c.ran, r))

Received(c, d, r) ==
    /\ NoneAdded(c, d)
    /\ Answered(c, d, r)
    /\ d.deferred \in {c.deferred, r}
    /\ d.isOnline = c.isOnline
    /\ c.unsol = "Idle" => d.unsol = "Idle"

\* Something waits in the deferral slot, or nothing any more.
LEMMA DeferGood ==
    ASSUME NEW c, NEW h, NEW g, Good(c, h, g), NEW r \in Requests \cup Confirms \cup {None},
           r \in Confirms /\ EndsNull(c, r) => g = TRUE
    PROVE  LET d == Defer(c, r)
           IN  /\ Good(d, h, g) /\ d.deferred = r /\ d.buffer = c.buffer
               /\ d.ran = c.ran /\ d.history = c.history /\ d.solNum = c.solNum
               /\ d.isOnline = c.isOnline /\ d.unsol = c.unsol /\ d.sol = c.sol
               /\ d.isTransmitting = c.isTransmitting
<1> DEFINE d == Defer(c, r)
<1>1. Typed(c) /\ Typed(d)
  BY PlainFieldsTyped DEF Good, Sound, Defer
<1>2. /\ d.deferred = r /\ d.buffer = c.buffer /\ d.ran = c.ran /\ d.history = c.history
      /\ d.solNum = c.solNum /\ d.isOnline = c.isOnline /\ d.unsol = c.unsol /\ d.sol = c.sol
      /\ d.isTransmitting = c.isTransmitting /\ d.lower = c.lower /\ d.timer = c.timer
      /\ d.unsolConfirm = c.unsolConfirm /\ d.completedNull = c.completedNull
      /\ d.solTx = c.solTx
  BY <1>1 DEF Defer, Typed, Contexts
<1> HIDE DEF d
<1>3. Slot(d) /\ Waiter(d) /\ Kept(d)
  BY <1>2 DEF Good, Sound, Slot, Waiter, Kept
<1>4. NullFirst(d, h, g)
  BY <1>2 DEF Good, Sound, NullFirst, LastUnsol, UnsolSent, EndsNull, UnsolConfirmExpected
<1> QED BY <1>1, <1>2, <1>3, <1>4 DEF Good, Sound, d

\* A new request ends the wait for a confirm.
LEMMA AbandonConfirmGood ==
    ASSUME NEW c, NEW h, NEW g, Good(c, h, g), NEW r \in Requests
    PROVE  LET d == AbandonConfirm(c, r)
           IN  /\ Good(d, h, g) /\ d.deferred = r /\ d.buffer = c.buffer /\ d.unsol = c.unsol
               /\ d.ran = c.ran /\ d.history = c.history /\ d.solNum = c.solNum
               /\ d.isOnline = c.isOnline /\ d.isTransmitting = c.isTransmitting
<1> DEFINE d == AbandonConfirm(c, r)
<1>1. Typed(c)
  BY DEF Good, Sound
<1>2. Typed(d)
  BY <1>1 DEF AbandonConfirm, CancelTimer, Defer, Typed, Contexts
<1>3. /\ d.deferred = r /\ d.buffer = c.buffer /\ d.ran = c.ran /\ d.history = c.history
      /\ d.solNum = c.solNum /\ d.isOnline = c.isOnline /\ d.unsol = c.unsol /\ d.sol = "Idle"
      /\ d.isTransmitting = c.isTransmitting /\ d.lower = c.lower /\ d.timer = "none"
      /\ d.unsolConfirm = c.unsolConfirm /\ d.completedNull = c.completedNull
      /\ d.solTx = c.solTx
  BY <1>1 DEF AbandonConfirm, CancelTimer, Defer, Typed, Contexts
<1> HIDE DEF d
<1>4. Slot(d) /\ Waiter(d) /\ Kept(d)
  BY <1>3 DEF Good, Sound, Slot, Waiter, Kept
<1>5. NullFirst(d, h, g)
  BY <1>3, SameNull, RequestKinds DEF Good, Sound, UnsolSent
<1> QED BY <1>2, <1>3, <1>4, <1>5 DEF Good, Sound, d

\* The kept response goes out again.
LEMMA RepeatResponseGood ==
    ASSUME NEW c, NEW h, NEW g, Good(c, h, g), CanTransmit(c), c.history # None
    PROVE  LET d == BeginResponseTx(c, c.solTx)
           IN  Good(d, h, g) /\ Keeps(c, d)
<1> DEFINE f == c.solTx
           d == BeginResponseTx(c, f)
<1>1. Typed(c) /\ c.lower = <<>> /\ c.isOnline = TRUE
  BY FreeSlot DEF Good, Sound, CanTransmit, Slot
<1>2. f \in Fragments /\ f.uns = FALSE
  BY <1>1 DEF Good, Kept, Typed, Contexts
<1> HIDE DEF f
<1>3. Typed(d) /\ d = [c EXCEPT !.solTx = f, !.isTransmitting = TRUE, !.lower = <<f>>]
  BY <1>1, <1>2, BeginResponseTxEffect
<1> HIDE DEF d
<1>4. /\ d.isTransmitting = TRUE /\ d.lower = <<f>> /\ d.solTx = f /\ d.sol = c.sol
      /\ d.timer = c.timer /\ d.unsol = c.unsol /\ d.unsolConfirm = c.unsolConfirm
      /\ d.completedNull = c.completedNull /\ Keeps(c, d)
  BY <1>1, <1>3 DEF Typed, Contexts, Keeps, NoneAdded
<1>5. Slot(d) /\ Waiter(d)
  BY <1>1, <1>2, <1>4 DEF Good, Sound, Slot, Waiter, Keeps, NoneAdded
<1>6. Kept(d)
  BY <1>4 DEF Good, Kept, Keeps, NoneAdded, f
<1>7. NullFirst(d, h, g)
  <2>1. ~UnsolSent(c) /\ ~UnsolSent(d)
    BY <1>1, <1>2, <1>4 DEF UnsolSent
  <2> QED BY <1>4, <2>1, SameNull DEF Good, Sound, Keeps, NoneAdded
<1> QED BY <1>3, <1>4, <1>5, <1>6, <1>7 DEF Good, Sound, d, f

\* The number of the latest request steers nothing but the selection.
LEMMA NumberedGood ==
    ASSUME NEW c, NEW h, NEW g, Good(c, h, g), NEW s \in Seqs
    PROVE  LET n == [c EXCEPT !.solNum = s]
           IN  /\ Good(n, h, g)
               /\ CanTransmit(n) <=> CanTransmit(c)
               /\ n.buffer = c.buffer /\ n.solNum = s /\ n.ran = c.ran /\ n.history = c.history
               /\ n.deferred = c.deferred /\ n.isOnline = c.isOnline
               /\ n.unsol = c.unsol /\ n.sol = c.sol
<1> DEFINE n == [c EXCEPT !.solNum = s]
<1>1. Typed(c) /\ Typed(n)
  BY PlainFieldsTyped DEF Good, Sound
<1>2. /\ n.buffer = c.buffer /\ n.solNum = s /\ n.ran = c.ran /\ n.history = c.history /\ n.deferred = c.deferred
      /\ n.isOnline = c.isOnline /\ n.unsol = c.unsol /\ n.sol = c.sol /\ n.lower = c.lower
      /\ n.isTransmitting = c.isTransmitting /\ n.timer = c.timer /\ n.solTx = c.solTx
      /\ n.unsolConfirm = c.unsolConfirm /\ n.completedNull = c.completedNull
  BY <1>1 DEF Typed, Contexts
<1> HIDE DEF n
<1>3. Slot(n) /\ Waiter(n) /\ Kept(n)
  BY <1>2 DEF Good, Sound, Slot, Waiter, Kept
<1>4. NullFirst(n, h, g)
  BY <1>2, SameNull DEF Good, Sound, UnsolSent
<1> QED BY <1>1, <1>2, <1>3, <1>4 DEF Good, Sound, CanTransmit, n

\* A request that is not a repeat.
LEMMA ProcessNewRequestGood ==
    ASSUME NEW c, NEW h, NEW g, Good(c, h, g), CanTransmit(c), NEW r \in Requests,
           ~IsRepeat(c, r)
    PROVE  LET d == ProcessNewRequest(c, r)
           IN  Good(d, h, g) /\ Received(c, d, r)
<1> DEFINE n == [c EXCEPT !.solNum = r.seq]
           d == ProcessNewRequest(c, r)
<1>1. r.seq \in Seqs
  BY OutstationAssumption
<1>2. /\ Good(n, h, g) /\ CanTransmit(n)
      /\ n.buffer = c.buffer /\ n.solNum = r.seq /\ n.ran = c.ran /\ n.history = c.history
      /\ n.deferred = c.deferred /\ n.isOnline = c.isOnline
      /\ n.unsol = c.unsol /\ n.sol = c.sol
  BY <1>1, NumberedGood
<1>3. d \in {AbandonConfirm(n, r), Defer(n, r)} \/
      /\ n.sol # "ConfirmWait"
      /\ d \in {RespondToReadRequest(n, r), RespondToNonReadRequest(n, r)}
  BY DEF ProcessNewRequest, OnNewReadRequest, OnNewNonReadRequest
<1> HIDE DEF n, d
<1>4. CASE d = AbandonConfirm(n, r)
  <2>1. /\ Good(d, h, g) /\ d.buffer = n.buffer /\ d.deferred = r /\ d.unsol = n.unsol
        /\ d.ran = n.ran /\ d.history = n.history /\ d.solNum = n.solNum
        /\ d.isOnline = n.isOnline
    BY <1>2, <1>4, AbandonConfirmGood
  <2> QED BY <1>2, <2>1 DEF Received, NoneAdded, Answered, d
<1>5. CASE d = Defer(n, r)
  <2>1. /\ Good(d, h, g) /\ d.buffer = n.buffer /\ d.deferred = r /\ d.unsol = n.unsol
        /\ d.ran = n.ran /\ d.history = n.history /\ d.solNum = n.solNum
        /\ d.isOnline = n.isOnline
    <3>1. r \in Requests \cup Confirms \cup {None} /\ r \notin Confirms
      BY RequestKinds
    <3>2. LET x == Defer(n, r)
          IN  /\ Good(x, h, g) /\ x.deferred = r /\ x.buffer = n.buffer
              /\ x.ran = n.ran /\ x.history = n.history /\ x.solNum = n.solNum
              /\ x.isOnline = n.isOnline /\ x.unsol = n.unsol
      <4>1. Good(n, h, g)
        BY <1>2
      <4> QED BY <3>1, <4>1, DeferGood, ZenonT(30)
    <3> QED BY <1>5, <3>2
  <2> QED BY <1>2, <2>1 DEF Received, NoneAdded, Answered, d
<1>6. CASE n.sol # "ConfirmWait" /\ d = RespondToReadRequest(n, r)
  <2>1. n.sol = "Idle"
    BY <1>2, <1>6 DEF Good, Sound, Typed, Contexts
  <2>2. Good(d, h, g) /\ Answers(n, d, r) /\ d.ran = n.ran
    BY <1>2, <1>6, <2>1, RespondToReadRequestGood
  <2> QED BY <1>2, <2>2 DEF Received, NoneAdded, Answered, Answers, d
<1>7. CASE n.sol # "ConfirmWait" /\ d = RespondToNonReadRequest(n, r)
  <2>1. n.sol = "Idle"
    BY <1>2, <1>7 DEF Good, Sound, Typed, Contexts
  <2>2. Good(d, h, g) /\ Answers(n, d, r) /\ (d.ran = n.ran \/ d.ran = Append(n.ran, r))
    BY <1>2, <1>7, <2>1, RespondToNonReadRequestGood
  <2> QED BY <1>2, <2>2 DEF Received, NoneAdded, Answered, Answers, d
<1> QED BY <1>3, <1>4, <1>5, <1>6, <1>7

\* A request, once the transmission slot is free.
LEMMA ProcessRequestGood ==
    ASSUME NEW c, NEW h, NEW g, Good(c, h, g), CanTransmit(c), NEW r \in Requests
    PROVE  LET d == ProcessRequest(c, r)
           IN  Good(d, h, g) /\ Received(c, d, r)
<1> DEFINE d == ProcessRequest(c, r)
<1>0. \/ d = c
      \/ d = ProcessNewRequest(c, r) /\ ~IsRepeat(c, r)
      \/ d = Defer(c, r)
      \/ d = BeginResponseTx(c, c.solTx) /\ c.history # None
  BY DEF ProcessRequest, OnReceiveSolRequest, OnRepeatNonReadRequest, IsRepeat
<1> HIDE DEF d
<1>1. ASSUME d = c PROVE Good(d, h, g) /\ Received(c, d, r)
  BY <1>1 DEF Received, NoneAdded, Answered
<1>2. ASSUME d = ProcessNewRequest(c, r), ~IsRepeat(c, r)
      PROVE  Good(d, h, g) /\ Received(c, d, r)
  BY <1>2, ProcessNewRequestGood
<1>3. ASSUME d = Defer(c, r) PROVE Good(d, h, g) /\ Received(c, d, r)
  <2>1. /\ Good(d, h, g) /\ d.buffer = c.buffer /\ d.deferred = r /\ d.unsol = c.unsol
        /\ d.ran = c.ran /\ d.history = c.history /\ d.solNum = c.solNum
        /\ d.isOnline = c.isOnline
    <3>1. r \in Requests \cup Confirms \cup {None} /\ r \notin Confirms
      BY RequestKinds
    <3> QED BY <1>3, <3>1, DeferGood, ZenonT(30)
  <2> QED BY <2>1 DEF Received, NoneAdded, Answered
<1>4. ASSUME d = BeginResponseTx(c, c.solTx), c.history # None
      PROVE  Good(d, h, g) /\ Received(c, d, r)
  <2>1. Good(d, h, g) /\ Keeps(c, d)
    BY <1>4, RepeatResponseGood
  <2> QED BY <2>1 DEF Received, NoneAdded, Answered, Keeps
<1> QED BY <1>0, <1>1, <1>2, <1>3, <1>4 DEF d

----------------------------------------------------------------------------
(* The confirms and the timeout of the two channels.                       *)

\* Neither the transmission slot, nor the kept response, nor the history changes.
SameWire(c, d) ==
    /\ d.lower = c.lower       /\ d.isTransmitting = c.isTransmitting
    /\ d.isOnline = c.isOnline /\ d.solTx = c.solTx
    /\ d.history = c.history

\* The unsolicited channel does not change, and no confirm is deferred.
SameUnsol(c, d) ==
    /\ d.unsol = c.unsol       /\ d.unsolConfirm = c.unsolConfirm
    /\ d.completedNull = c.completedNull
    /\ d.deferred = c.deferred \/ d.deferred \notin Confirms

\* A change of the buffer, of the timer and of the solicited state.
LEMMA QuietGood ==
    ASSUME NEW c, NEW d, NEW h, NEW g, Good(c, h, g), Typed(d), Waiter(d),
           SameWire(c, d), SameUnsol(c, d), d.sol \in {"Idle", c.sol}
    PROVE  Good(d, h, g)
<1>1. Slot(d) /\ Kept(d)
  BY DEF Good, Sound, Slot, Kept, SameWire
<1>2. NullFirst(d, h, g)
  BY SameNull DEF Good, Sound, UnsolSent, SameWire, SameUnsol
<1> QED BY <1>1, <1>2 DEF Good, Sound

\* A solicited confirm is taken with the session kept good and nothing carried out.
LEMMA OnSolConfirmGood ==
    ASSUME NEW c, NEW h, NEW g, Good(c, h, g), CanTransmit(c), NEW r \in Confirms
    PROVE  LET d == OnSolConfirm(c, r)
           IN  Good(d, h, g) /\ Keeps(c, d)
<1> DEFINE b == ClearWritten(c.buffer)
           e == [c EXCEPT !.timer = "none", !.buffer = b]
           i == [e EXCEPT !.sol = "Idle"]
           m == ContinueMultiFragResponse(e, IncrSeq(r.seq))
           d == OnSolConfirm(c, r)
<1>1. Typed(c) /\ GoodBuffer(b) /\ b \in BufferType /\ b.soe \subseteq c.buffer.soe
  BY ClearGood DEF Good, Sound, Typed, GoodBuffer
<1>2. e = [CancelTimer(c) EXCEPT !.buffer = ClearWritten(@)]
  BY <1>1 DEF CancelTimer, Typed, Contexts
<1>3. d = c \/ (SolConfirmExpected(c, r) /\ d \in {i, m})
  <2>1. d = IF ~SolConfirmExpected(c, r) THEN c
            ELSE IF e.static > 0 \/ HasAnySelection(e.buffer) THEN m ELSE i
    <3> HIDE DEF e
    <3> QED BY <1>2 DEF OnSolConfirm
  <2> HIDE DEF e, i, m, d
  <2> QED BY <2>1
<1> HIDE DEF b, d
<1>4. Typed(e) /\ Typed(i)
  <2>1. e \in Contexts /\ e.buffer = b
    BY <1>1 DEF Typed, Contexts
  <2>2. i \in Contexts /\ i.buffer = b
    BY <1>1 DEF Typed, Contexts
  <2> HIDE DEF e, i
  <2> QED BY <1>1, <2>1, <2>2 DEF Typed
<1>5. /\ SameWire(c, e) /\ SameUnsol(c, e) /\ Keeps(c, e) /\ e.timer = "none" /\ e.sol = c.sol
      /\ CanTransmit(e)
  BY <1>1 DEF SameWire, SameUnsol, Keeps, NoneAdded, CanTransmit, Typed, Contexts
<1>6. SameWire(c, i) /\ SameUnsol(c, i) /\ Keeps(c, i) /\ i.timer = "none" /\ i.sol = "Idle"
  BY <1>1 DEF SameWire, SameUnsol, Keeps, NoneAdded, Typed, Contexts
<1> HIDE DEF e, i
<1>7. Good(e, h, g) /\ Good(i, h, g)
  BY <1>4, <1>5, <1>6, QuietGood DEF Waiter
<1>8. ASSUME SolConfirmExpected(c, r) PROVE Good(m, h, g) /\ Keeps(c, m)
  <2> DEFINE q == e.solTx.to
             s == IncrSeq(r.seq)
             w == SendFragment(e, q, s)
  <2>1. q \in Requests /\ (e.history # None => e.history = q)
    BY <1>5, <1>7, <1>8 DEF Good, Kept, SolConfirmExpected
  <2>2. s \in Seqs
    BY RequestKinds, IncrSeqType
  <2>3. m = w
    BY DEF ContinueMultiFragResponse
  <2> HIDE DEF q, s
  <2>4. Good(w, h, g) /\ Keeps(e, w)
    BY <1>5, <1>7, <2>1, <2>2, SendFragmentGood DEF Good
  <2> HIDE DEF w, m
  <2> QED BY <1>5, <2>3, <2>4 DEF Keeps, NoneAdded
<1> HIDE DEF m
<1>9. Keeps(c, c)
  BY DEF Keeps, NoneAdded
<1> QED BY <1>3, <1>6, <1>7, <1>8, <1>9 DEF d

\* So is an unsolicited one; the null response counts as confirmed when its confirm came.
LEMMA OnUnsolConfirmGood ==
    ASSUME NEW c, NEW h, NEW g, Good(c, h, g), NEW r \in Confirms, r.uns = TRUE,
           EndsNull(c, r) => g = TRUE
    PROVE  LET d == OnUnsolConfirm(c, r)
           IN  Good(d, h, g) /\ Keeps(c, d)
<1> DEFINE b == ClearWritten(c.buffer)
           e == [c EXCEPT !.timer = "none", !.unsol = "Idle", !.buffer = b]
           n == [c EXCEPT !.timer = "none", !.unsol = "Idle", !.completedNull = TRUE]
           d == OnUnsolConfirm(c, r)
<1>1. Typed(c) /\ GoodBuffer(b) /\ b \in BufferType /\ b.soe \subseteq c.buffer.soe
  BY ClearGood DEF Good, Sound, Typed, GoodBuffer
<1>2. \/ d = c
      \/ c.unsol = "ConfirmWait" /\ ((c.completedNull = TRUE /\ d = e) \/ (g = TRUE /\ d = n))
  <2>1. [[CancelTimer(c) EXCEPT !.unsol = "Idle"] EXCEPT !.buffer = ClearWritten(@)] = e
    BY <1>1 DEF CancelTimer, Typed, Contexts
  <2>2. [[CancelTimer(c) EXCEPT !.unsol = "Idle"] EXCEPT !.completedNull = TRUE] = n
    BY <1>1 DEF CancelTimer, Typed, Contexts
  <2>3. c.completedNull \in BOOLEAN
    BY <1>1 DEF Typed, Contexts
  <2> HIDE DEF e, n
  <2>4. d = IF ~UnsolConfirmExpected(c, r) THEN c ELSE IF c.completedNull THEN e ELSE n
    BY <2>1, <2>2 DEF OnUnsolConfirm
  <2> HIDE DEF d
  <2>5. UnsolConfirmExpected(c, r) => c.unsol = "ConfirmWait"
    BY DEF UnsolConfirmExpected
  <2>6. UnsolConfirmExpected(c, r) /\ c.completedNull = FALSE => g = TRUE
    BY DEF EndsNull
  <2> QED BY <2>3, <2>4, <2>5, <2>6
<1> HIDE DEF b, d
<1>3. Typed(e) /\ Typed(n)
  <2>1. e \in Contexts /\ e.buffer = b
    BY <1>1 DEF Typed, Contexts
  <2>2. n \in Contexts /\ n.buffer = c.buffer
    BY <1>1 DEF Typed, Contexts
  <2> HIDE DEF e, n
  <2> QED BY <1>1, <2>1, <2>2 DEF Typed
<1>4. /\ SameWire(c, e) /\ Keeps(c, e) /\ e.timer = "none" /\ e.sol = c.sol
      /\ e.unsol = "Idle" /\ e.completedNull = c.completedNull /\ e.deferred = c.deferred
  BY <1>1 DEF SameWire, Keeps, NoneAdded, Typed, Contexts
<1>5. /\ SameWire(c, n) /\ Keeps(c, n) /\ n.timer = "none" /\ n.sol = c.sol
      /\ n.unsol = "Idle" /\ n.completedNull = TRUE /\ n.deferred = c.deferred
  BY <1>1 DEF SameWire, Keeps, NoneAdded, Typed, Contexts
<1> HIDE DEF e, n
<1>6. ASSUME d \in {e, n}, c.completedNull = TRUE \/ g = TRUE
      PROVE  Good(d, h, g) /\ Keeps(c, d)
  <2>1. Typed(d) /\ Keeps(c, d) /\ SameWire(c, d) /\ d.timer = "none" /\ d.sol = c.sol
    BY <1>3, <1>4, <1>5, <1>6
  <2>2. Slot(d) /\ Waiter(d) /\ Kept(d)
    BY <2>1 DEF Good, Sound, Slot, Waiter, Kept, SameWire
  <2>3. d.unsol = "Idle" /\ g = TRUE
    BY <1>4, <1>5, <1>6 DEF Good, Sound, NullFirst
  <2>4. NullFirst(d, h, g)
    BY <2>3 DEF NullFirst, UnsolConfirmExpected
  <2> QED BY <2>1, <2>2, <2>4 DEF Good, Sound
<1>7. Keeps(c, c)
  BY DEF Keeps, NoneAdded
<1> QED BY <1>2, <1>6, <1>7 DEF d

\* So is any confirm, whichever of the two the header says it is.
LEMMA ProcessConfirmGood ==
    ASSUME NEW c, NEW h, NEW g, Good(c, h, g), CanTransmit(c), NEW r \in Confirms,
           EndsNull(c, r) => g = TRUE
    PROVE  LET d == ProcessConfirm(c, r)
           IN  Good(d, h, g) /\ Keeps(c, d)
<1> DEFINE d == ProcessConfirm(c, r)
<1>1. (r.uns = TRUE /\ d = OnUnsolConfirm(c, r)) \/ d = OnSolConfirm(c, r)
  <2>1. r.uns \in BOOLEAN
    BY DEF Confirms
  <2> QED BY <2>1 DEF ProcessConfirm
<1> HIDE DEF d
<1>2. ASSUME r.uns = TRUE, d = OnUnsolConfirm(c, r) PROVE Good(d, h, g) /\ Keeps(c, d)
  BY <1>2, OnUnsolConfirmGood
<1>3. ASSUME d = OnSolConfirm(c, r) PROVE Good(d, h, g) /\ Keeps(c, d)
  BY <1>3, OnSolConfirmGood
<1> QED BY <1>1, <1>2, <1>3 DEF d

----------------------------------------------------------------------------
(* What an entry point receives, and what it takes up at its end.          *)

\* A control without acknowledgement is carried out and leaves no trace here.
LEMMA ProcessRequestNoAckGood ==
    ASSUME NEW c, NEW h, NEW g, Good(c, h, g), NEW r \in Requests
    PROVE  LET d == ProcessRequestNoAck(c, r)
           IN  /\ Good(d, h, g)
               /\ d.ran = c.ran \/ d.ran = Append(c.ran, r)
               /\ d.buffer = c.buffer
               /\ d.buffer = c.buffer
        /\ d.history = c.history   /\ d.solNum = c.solNum
               /\ d.deferred = c.deferred /\ d.isOnline = c.isOnline /\ d.unsol = c.unsol
<1> DEFINE k == CarryOut(c, r)
           d == ProcessRequestNoAck(c, r)
<1>1. Typed(c)
  BY DEF Good, Sound
<1>2. k = [c EXCEPT !.ran = Append(c.ran, r)] /\ Append(c.ran, r) \in Seq(Requests)
  BY <1>1 DEF CarryOut, Typed, Contexts
<1>3. d \in {c, k}
  BY DEF ProcessRequestNoAck, HandleDirectOperate
<1> HIDE DEF k, d
<1>4. /\ Typed(k) /\ SameState(c, k) /\ k.history = c.history /\ k.buffer = c.buffer
      /\ k.ran = Append(c.ran, r)
  BY <1>1, <1>2 DEF Typed, Contexts, SameState
<1>5. Good(k, h, g)
  BY <1>4, SameSound DEF Good
<1> QED BY <1>3, <1>4, <1>5 DEF SameState, d

\* What receiving r may do.
Arrived(c, d, r) ==
    /\ NoneAdded(c, d)
    /\ d.isOnline = c.isOnline
    /\ c.unsol = "Idle" => d.unsol = "Idle"
    /\ ~IsNoAckFuncCode(r.function) /\ c.isTransmitting = TRUE => d.deferred = r
    /\ \/ /\ IsNoAckFuncCode(r.function)
          /\ d.ran = c.ran \/ d.ran = Append(c.ran, r)
          /\ d.history = c.history /\ d.solNum = c.solNum /\ d.deferred = c.deferred
       \/ /\ ~IsNoAckFuncCode(r.function)
          /\ d.ran = c.ran /\ d.history = c.history /\ d.solNum = c.solNum
          /\ d.deferred \in {c.deferred, r}
       \/ /\ ~IsNoAckFuncCode(r.function) /\ r \in Requests
          /\ Received(c, d, r)

\* A fragment that arrives leaves the session good, whether answered, deferred or ignored.
LEMMA ProcessAPDUGood ==
    ASSUME NEW c, NEW h, NEW g, Good(c, h, g), c.isOnline = TRUE,
           NEW r \in Requests \cup Confirms,
           r \in Confirms /\ EndsNull(c, r) => g = TRUE
    PROVE  LET d == ProcessAPDU(c, r)
           IN  Good(d, h, g) /\ Arrived(c, d, r)
<1> DEFINE d == ProcessAPDU(c, r)
<1>1. c.isTransmitting \in BOOLEAN
  BY DEF Good, Sound, Typed, Contexts
<1>2. /\ IsNoAckFuncCode(r.function) => r \in Requests
      /\ r \in Confirms <=> r.function = "CONFIRM"
      /\ r \in Confirms => ~IsNoAckFuncCode(r.function)
  BY RequestKinds
<1>3. d = IF IsNoAckFuncCode(r.function) THEN ProcessRequestNoAck(c, r)
          ELSE IF c.isTransmitting = TRUE THEN Defer(c, r)
          ELSE IF r \in Confirms THEN ProcessConfirm(c, r)
          ELSE ProcessRequest(c, r)
  BY <1>1, <1>2 DEF ProcessAPDU
<1> HIDE DEF d
<1>4. ASSUME IsNoAckFuncCode(r.function) PROVE Good(d, h, g) /\ Arrived(c, d, r)
  <2>1. d = ProcessRequestNoAck(c, r) /\ r \in Requests
    BY <1>2, <1>3, <1>4
  <2>2. /\ Good(d, h, g) /\ d.buffer = c.buffer
        /\ d.ran = c.ran \/ d.ran = Append(c.ran, r)
        /\ d.history = c.history   /\ d.solNum = c.solNum
        /\ d.deferred = c.deferred /\ d.isOnline = c.isOnline /\ d.unsol = c.unsol
    BY <2>1, ProcessRequestNoAckGood
  <2> QED BY <1>4, <2>2 DEF Arrived, NoneAdded
<1>5. ASSUME ~IsNoAckFuncCode(r.function), d = Defer(c, r)
      PROVE  Good(d, h, g) /\ Arrived(c, d, r)
  <2>1. /\ Good(d, h, g) /\ d.deferred = r /\ d.buffer = c.buffer
        /\ d.ran = c.ran /\ d.history = c.history /\ d.solNum = c.solNum
        /\ d.isOnline = c.isOnline /\ d.unsol = c.unsol
    <3>1. r \in Requests \cup Confirms \cup {None}
      OBVIOUS
    <3>2. LET x == Defer(c, r)
          IN  /\ Good(x, h, g) /\ x.deferred = r /\ x.buffer = c.buffer
              /\ x.ran = c.ran /\ x.history = c.history /\ x.solNum = c.solNum
              /\ x.isOnline = c.isOnline /\ x.unsol = c.unsol
      BY <3>1, DeferGood, ZenonT(30)
    <3> QED BY <1>5, <3>2
  <2> QED BY <1>5, <2>1 DEF Arrived, NoneAdded
<1>6. ASSUME ~IsNoAckFuncCode(r.function), c.isTransmitting = FALSE, r \in Confirms
      PROVE  Good(d, h, g) /\ Arrived(c, d, r)
  <2>1. CanTransmit(c) /\ d = ProcessConfirm(c, r)
    BY <1>3, <1>6 DEF CanTransmit
  <2>2. Good(d, h, g) /\ Keeps(c, d)
    BY <1>6, <2>1, ProcessConfirmGood
  <2> QED BY <1>6, <2>2 DEF Arrived, NoneAdded, Keeps
<1>7. ASSUME ~IsNoAckFuncCode(r.function), c.isTransmitting = FALSE, r \notin Confirms
      PROVE  Good(d, h, g) /\ Arrived(c, d, r)
  <2>1. CanTransmit(c) /\ d = ProcessRequest(c, r)
    BY <1>3, <1>7 DEF CanTransmit
  <2>2. Good(d, h, g) /\ Received(c, d, r)
    BY <1>7, <2>1, ProcessRequestGood
  <2> QED BY <1>7, <2>2 DEF Arrived, NoneAdded, Received
<1> QED BY <1>1, <1>3, <1>4, <1>5, <1>6, <1>7 DEF d

\* What taking up the deferred request may do.
TakenUp(c, d) ==
    \/ d = c
    \/ /\ CanTransmit(c) /\ d.isOnline = c.isOnline
       /\ d.deferred = None /\ NoneAdded(c, d)
       /\ c.unsol = "Idle" => d.unsol = "Idle"
       /\ \/ d.ran = c.ran /\ d.history = c.history /\ d.solNum = c.solNum
          \/ c.deferred \in Requests /\ Answered(c, d, c.deferred)

\* The deferred request is taken up as one that has just arrived.
LEMMA CheckForDeferredRequestGood ==
    ASSUME NEW c, NEW h, NEW g, Good(c, h, g)
    PROVE  LET d == CheckForDeferredRequest(c)
           IN  /\ Good(d, h, g) /\ TakenUp(c, d)
               /\ CanTransmit(c) => d.deferred \notin Confirms
               /\ CanTransmit(c) /\ c.unsol = "Idle" => d.deferred = None
<1> DEFINE r == c.deferred
           x == IF r \in Confirms THEN ProcessConfirm(c, r) ELSE ProcessRequest(c, r)
           d == CheckForDeferredRequest(c)
<1>1. r \in Requests \cup Confirms \cup {None}
  BY DEF Good, Sound, Typed, Contexts
<1>2. r \in Confirms <=> r \in Requests \cup Confirms /\ r.function = "CONFIRM"
  BY RequestKinds
<1>3. \/ d = c /\ (~CanTransmit(c) \/ r = None \/ (r \in Requests /\ c.unsol # "Idle"))
      \/ CanTransmit(c) /\ r \in Requests \cup Confirms /\ d = Defer(x, None)
  <2>1. CASE ~CanTransmit(c) \/ r = None
    BY <2>1 DEF CheckForDeferredRequest
  <2>2. CASE CanTransmit(c) /\ r \in Confirms
    BY <1>2, <2>2, RequestKinds DEF CheckForDeferredRequest
  <2>3. CASE CanTransmit(c) /\ r \in Requests
    BY <1>2, <2>3, RequestKinds DEF CheckForDeferredRequest
  <2> HIDE DEF d, r, x
  <2> QED BY <1>1, <2>1, <2>2, <2>3 DEF r
<1> HIDE DEF d, x
<1>4. ASSUME CanTransmit(c), r \in Confirms PROVE Good(x, h, g) /\ Keeps(c, x)
  <2>1. EndsNull(c, r) => g = TRUE
    BY <1>4 DEF Good, Sound, NullFirst
  <2>2. x = ProcessConfirm(c, r)
    BY <1>4 DEF x
  <2> HIDE DEF r
  <2> QED BY <1>4, <2>1, <2>2, ProcessConfirmGood
<1>5. ASSUME CanTransmit(c), r \in Requests PROVE Good(x, h, g) /\ Received(c, x, r)
  <2>1. x = ProcessRequest(c, r)
    BY <1>5, RequestKinds DEF x
  <2> HIDE DEF r
  <2> QED BY <1>5, <2>1, ProcessRequestGood
<1>6. ASSUME Good(x, h, g), d = Defer(x, None)
      PROVE  /\ Good(d, h, g) /\ d.deferred = None /\ d.buffer = x.buffer
             /\ d.ran = x.ran /\ d.history = x.history /\ d.solNum = x.solNum
             /\ d.isOnline = x.isOnline /\ d.unsol = x.unsol
  <2>1. None \in Requests \cup Confirms \cup {None} /\ None \notin Confirms
    BY RequestKinds
  <2> QED BY <1>6, <2>1, DeferGood, ZenonT(30)
<1>7. ASSUME CanTransmit(c), r \in Requests \cup Confirms, d = Defer(x, None)
      PROVE  Good(d, h, g) /\ d.deferred = None /\ TakenUp(c, d)
  <2>1. CASE r \in Confirms
    BY <1>4, <1>6, <1>7, <2>1 DEF Keeps, NoneAdded, TakenUp
  <2>2. CASE r \in Requests
    BY <1>5, <1>6, <1>7, <2>2 DEF Received, NoneAdded, Answered, TakenUp
  <2> QED BY <1>7, <2>1, <2>2
<1>8. ASSUME d = c, ~CanTransmit(c) \/ r = None \/ (r \in Requests /\ c.unsol # "Idle")
      PROVE  /\ Good(d, h, g) /\ TakenUp(c, d)
             /\ CanTransmit(c) => d.deferred \notin Confirms
             /\ CanTransmit(c) /\ c.unsol = "Idle" => d.deferred = None
  BY <1>8, RequestKinds DEF TakenUp, NoneAdded
<1> QED BY <1>3, <1>7, <1>8, RequestKinds DEF d

\* What an entry point carried out and where it stands is not touched.
Untouched(c, d) ==
    /\ NoneAdded(c, d)
    /\ d.ran = c.ran         /\ d.solNum = c.solNum
    /\ d.history = c.history /\ d.deferred = c.deferred
    /\ d.isOnline = c.isOnline

\* An unsolicited response that goes into a free slot is null, or comes after
\* the null response of the session.
LEMMA SendUnsolicitedGood ==
    ASSUME NEW c, NEW h, NEW g, Good(c, h, g), CanTransmit(c),
           c.deferred \notin Confirms,
           NEW events \in SUBSET SOERecord, events = {} \/ c.completedNull = TRUE
    PROVE  LET d == SendUnsolicited(c, events)
           IN  Good(d, h, g) /\ d.isTransmitting = TRUE /\ Untouched(c, d)
<1> DEFINE f == UnsolFragment(c.unsolNum, events)
           b == CheckOverflow(c.buffer)
           t == IF c.timer = "none" THEN "unsol" ELSE c.timer
           s == IncrSeq(c.unsolNum)
           e == [c EXCEPT !.buffer = b, !.timer = t, !.unsol = "ConfirmWait",
                          !.unsolConfirm = c.unsolNum, !.unsolNum = s,
                          !.isTransmitting = TRUE, !.lower = <<f>>]
           d == SendUnsolicited(c, events)
<1>1. Typed(c) /\ c.lower = <<>> /\ c.isOnline = TRUE
  BY FreeSlot DEF Good, Sound, CanTransmit, Slot
<1>2. GoodBuffer(b) /\ b \in BufferType /\ b.soe = c.buffer.soe
  BY <1>1, CheckOverflowGood DEF Typed, GoodBuffer
<1>3. f \in Fragments /\ f.uns = TRUE /\ f.seq = c.unsolNum /\ f.events = events
  BY <1>1 DEF UnsolFragment, Fragments, Typed, Contexts
<1>4. t \in {"none", "sol", "unsol"} /\ s \in Seqs
  BY <1>1, IncrSeqType DEF Typed, Contexts
<1>5. Append(<<>>, f) = <<f>> /\ <<f>> \in Seq(Fragments) /\ <<f>>[1] = f /\ <<f>> # <<>>
  BY <1>3
<1>6. d = e
  <2>1. d = [[StartTimer(GetResponseIIN(c), "unsol") EXCEPT !.unsol = "ConfirmWait"]
               EXCEPT !.unsolConfirm = c.unsolNum, !.unsolNum = s,
                      !.isTransmitting = TRUE, !.lower = <<f>>]
    <3> HIDE DEF f, s
    <3> DEFINE x == [StartTimer(GetResponseIIN(c), "unsol") EXCEPT !.unsol = "ConfirmWait"]
    <3>1. x = [c EXCEPT !.buffer = CheckOverflow(c.buffer),
                        !.timer = IF c.timer = "none" THEN "unsol" ELSE c.timer,
                        !.unsol = "ConfirmWait"]
      BY <1>1 DEF StartTimer, GetResponseIIN, Typed, Contexts
    <3>2. x.unsolNum = c.unsolNum /\ x.lower = <<>>
      BY <1>1, <3>1 DEF Typed, Contexts
    <3>3. d = BeginUnsolTx(x, f)
      BY DEF SendUnsolicited, f
    <3> HIDE DEF x, d
    <3>4. BeginUnsolTx(x, f) =
            [x EXCEPT !.unsolConfirm = c.unsolNum, !.unsolNum = s, !.isTransmitting = TRUE,
                      !.lower = <<f>>]
      <4>1. s = IncrSeq(x.unsolNum)
        BY <3>2 DEF s
      <4> QED BY <1>5, <3>1, <3>2, <4>1, <1>1 DEF BeginUnsolTx, BeginTx, Typed, Contexts
    <3> QED BY <3>3, <3>4 DEF x
  <2>2. StartTimer(GetResponseIIN(c), "unsol") = [c EXCEPT !.buffer = b, !.timer = t]
    BY <1>1 DEF StartTimer, GetResponseIIN, Typed, Contexts
  <2> HIDE DEF d, f, b, t, s
  <2> QED BY <1>1, <2>1, <2>2 DEF Typed, Contexts
<1> HIDE DEF d, f, b, t, s
<1>7. d \in Contexts /\ d.buffer = b
  BY <1>1, <1>2, <1>4, <1>5, <1>6 DEF Typed, Contexts
<1>8. /\ d.isTransmitting = TRUE /\ d.lower = <<f>> /\ d.timer = t
      /\ d.unsol = "ConfirmWait" /\ d.unsolConfirm = c.unsolNum
      /\ d.sol = c.sol /\ d.solTx = c.solTx /\ d.completedNull = c.completedNull
      /\ Untouched(c, d)
  BY <1>1, <1>2, <1>6, <1>7 DEF Untouched, NoneAdded, Typed, Contexts
<1> HIDE DEF e
<1>9. Typed(d)
  BY <1>2, <1>7 DEF Typed
<1>10. Slot(d) /\ Kept(d)
  BY <1>1, <1>3, <1>8 DEF Good, Sound, Slot, Kept, Untouched, NoneAdded
<1>11. Waiter(d)
  BY <1>8 DEF Good, Sound, Waiter, t
<1>12. UnsolSent(d) /\ LastUnsol(d, h) = f
  BY <1>3, <1>5, <1>8 DEF UnsolSent, LastUnsol
<1>13. c.completedNull = TRUE => g = TRUE
  BY DEF Good, Sound, NullFirst
<1>14. NullFirst(d, h, g)
  BY <1>3, <1>5, <1>8, <1>12, <1>13 DEF NullFirst, Untouched, NoneAdded
<1> QED BY <1>8, <1>9, <1>10, <1>11, <1>14 DEF Good, Sound, d

\* At rest the counters of the enabled classes know of nothing unwritten.
Settled(c) == AtRest(c) => c.mask \cap UnwrittenClassField(c.buffer) = {}

\* The attempt at an unsolicited response leaves no written event without a waiter.
LEMMA CheckForUnsolicitedGood ==
    ASSUME NEW c, NEW h, NEW g, Good(c, h, g),
           CanTransmit(c) => c.deferred \notin Confirms
    PROVE  LET d == CheckForUnsolicited(c)
           IN  /\ Good(d, h, g) /\ Settled(d) /\ Untouched(c, d)
               /\ d = c \/ (AllowUnsolicited /\ d.isTransmitting = TRUE)
<1> DEFINE loaded == Load(SelectAllByClass(Unselect(c.buffer), c.mask), Capacity)
           e == [c EXCEPT !.buffer = loaded]
           d == CheckForUnsolicited(c)
<1>1. Typed(c)
  BY DEF Good, Sound
<1>2. /\ GoodBuffer(loaded) /\ loaded.written \in SUBSET SOERecord
      /\ loaded.soe = c.buffer.soe
  <2>1. GoodBuffer(Unselect(c.buffer)) /\ Unselect(c.buffer).soe = c.buffer.soe
    BY <1>1, UnselectGood DEF Typed
  <2>2. /\ GoodBuffer(SelectAllByClass(Unselect(c.buffer), c.mask))
        /\ SelectAllByClass(Unselect(c.buffer), c.mask).soe = c.buffer.soe
    BY <2>1, SelectHeadersGood DEF SelectAllByClass
  <2>3. GoodBuffer(loaded) /\ loaded.soe = c.buffer.soe
    BY <2>2, LoadGood
  <2> HIDE DEF loaded
  <2> QED BY <2>3 DEF GoodBuffer, BufferType
<1>3. \/ d = c /\ Settled(d)
      \/ /\ AllowUnsolicited /\ CanTransmit(c) /\ c.unsol = "Idle"
         /\ \/ d = SendUnsolicited(c, {})
            \/ d = SendUnsolicited(e, loaded.written) /\ c.completedNull = TRUE
  <2>1. CASE ~(CanTransmit(c) /\ c.unsol = "Idle" /\ AllowUnsolicited)
    BY <2>1 DEF CheckForUnsolicited, Settled, AtRest
  <2>2. CASE CanTransmit(c) /\ c.unsol = "Idle" /\ AllowUnsolicited
    <3>1. c.completedNull \in BOOLEAN
      BY <1>1 DEF Typed, Contexts
    <3>2. CASE c.completedNull = FALSE
      BY <2>2, <3>2 DEF CheckForUnsolicited
    <3>3. CASE c.completedNull = TRUE
      BY <2>2, <3>3 DEF CheckForUnsolicited, Settled
    <3> QED BY <3>1, <3>2, <3>3
  <2> QED BY <2>1, <2>2
<1> HIDE DEF loaded, d
<1>4. Good(e, h, g) /\ CanTransmit(e) = CanTransmit(c) /\ Untouched(c, e)
      /\ e.completedNull = c.completedNull
  <2>1. Typed(e) /\ e.history = c.history
    BY <1>1, <1>2, PlainFieldsTyped, ZenonT(30) DEF Typed, Contexts
  <2>2. SameState(c, e) /\ Untouched(c, e)
    BY <1>1, <1>2 DEF SameState, Untouched, NoneAdded, Typed, Contexts
  <2> HIDE DEF e
  <2> QED BY <2>1, <2>2, SameSound DEF Good, SameState, CanTransmit
<1> HIDE DEF e
<1>5. ASSUME CanTransmit(c), d = SendUnsolicited(c, {})
      PROVE  Good(d, h, g) /\ d.isTransmitting = TRUE /\ Untouched(c, d)
  <2>1. {} \in SUBSET SOERecord
    OBVIOUS
  <2> QED BY <1>5, <2>1, SendUnsolicitedGood
<1>6. ASSUME CanTransmit(c), c.completedNull = TRUE, d = SendUnsolicited(e, loaded.written)
      PROVE  Good(d, h, g) /\ d.isTransmitting = TRUE /\ Untouched(c, d)
  <2>1. CanTransmit(e) /\ e.deferred \notin Confirms /\ e.completedNull = TRUE
    BY <1>4, <1>6 DEF Untouched, NoneAdded
  <2>2. Good(d, h, g) /\ d.isTransmitting = TRUE /\ Untouched(e, d)
    BY <1>2, <1>4, <1>6, <2>1, SendUnsolicitedGood
  <2> QED BY <1>4, <2>2 DEF Untouched, NoneAdded
<1>7. d.isTransmitting = TRUE => Settled(d)
  BY DEF Settled, AtRest, CanTransmit
<1>8. Untouched(c, c)
  BY DEF Untouched, NoneAdded
<1> QED BY <1>3, <1>5, <1>6, <1>7, <1>8 DEF d

\* No confirm waits while there is room to answer it.
Prompt(c) == c.deferred \in Confirms => c.isTransmitting = TRUE

\* Every entry point ends in CheckForTaskStart, which leaves nothing undone.
LEMMA CheckForTaskStartGood ==
    ASSUME NEW c, NEW h, NEW g, Good(c, h, g), c.isOnline = TRUE \/ Prompt(c)
    PROVE  LET d == CheckForTaskStart(c)
           IN  /\ Good(d, h, g) /\ Settled(d) /\ Prompt(d) /\ NoneAdded(c, d)
               /\ \E e : /\ TakenUp(c, e) /\ Untouched(e, d)
                         /\ CanTransmit(c) /\ c.unsol = "Idle" => e.deferred = None
                         /\ d = e \/ AllowUnsolicited
<1> DEFINE e == CheckForDeferredRequest(c)
           d == CheckForUnsolicited(e)
<1>1. /\ Good(e, h, g) /\ TakenUp(c, e)
      /\ CanTransmit(c) => e.deferred \notin Confirms
      /\ CanTransmit(c) /\ c.unsol = "Idle" => e.deferred = None
  BY CheckForDeferredRequestGood
<1> HIDE DEF e
<1>2. CanTransmit(e) => e.deferred \notin Confirms
  BY <1>1, RequestKinds DEF TakenUp, NoneAdded
<1>3. /\ Good(d, h, g) /\ Settled(d) /\ Untouched(e, d)
      /\ d = e \/ (AllowUnsolicited /\ d.isTransmitting = TRUE)
  BY <1>1, <1>2, CheckForUnsolicitedGood
<1>4. CheckForTaskStart(c) = d
  BY DEF CheckForTaskStart, e
<1> HIDE DEF d
<1>5. Prompt(e)
  <2>1. CASE CanTransmit(c)
    BY <1>1, <2>1 DEF Prompt
  <2>2. CASE ~CanTransmit(c)
    <3>1. e = c /\ c.isTransmitting \in BOOLEAN
      BY <1>1, <2>2 DEF TakenUp, NoneAdded, Good, Sound, Typed, Contexts
    <3> QED BY <2>2, <3>1 DEF CanTransmit, Prompt
  <2> QED BY <2>1, <2>2
<1>6. Prompt(d)
  BY <1>3, <1>5 DEF Prompt
<1>7. NoneAdded(c, d)
  BY <1>1, <1>3 DEF TakenUp, Untouched, NoneAdded
<1> QED BY <1>1, <1>3, <1>4, <1>6, <1>7

----------------------------------------------------------------------------
(* The invariant of the specification.                                     *)

HeardType   == [sol : Fragments \cup {None}, unsol : Fragments \cup {None}]
AttemptType == [request : Requests \cup {None}, times : Nat]

\* An unsolicited fragment under way was heard last.
Shown(c, h) == UnsolSent(c) => h.unsol = c.lower[1]

\* The context is in order between entry points.
InOrder(c, h, g) ==
    /\ Good(c, h, g)
    /\ Prompt(c)
    /\ Settled(c)
    /\ Shown(c, h)
    /\ c.ran = <<>>

IInv ==
    /\ InOrder(ctx, heard, greeted)
    /\ Past(ctx.buffer, nextId)
    /\ nextId \in Nat \ {0}
    /\ heard \in HeardType
    /\ acked \in SUBSET SOERecord
    /\ greeted \in BOOLEAN
    /\ attempt \in AttemptType

\* A count of requests that were carried out is a number.
LEMMA RanType ==
    ASSUME NEW c, Typed(c), NEW a
    PROVE  Ran(c, a) \in Nat
<1>1. IsFiniteSet(DOMAIN c.ran)
  <2>1. DOMAIN c.ran = 1 .. Len(c.ran) /\ Len(c.ran) \in Nat
    BY DEF Typed, Contexts
  <2> QED BY <2>1, FS_Interval
<1>2. IsFiniteSet({i \in DOMAIN c.ran : c.ran[i] = a.request})
  BY <1>1, FS_Subset
<1> QED BY <1>2, FS_CardinalityType DEF Ran

\* A context that an entry point leaves behind in order.
LEMMA EnterGood ==
    ASSUME NEW c, NEW g, Good(c, heard, g), Settled(c), Prompt(c),
           Shown(ctx, heard), heard \in HeardType,
           NEW a \in AttemptType, Enter(c, a)
    PROVE  /\ InOrder(ctx', heard', g)
           /\ ctx'.buffer = c.buffer
           /\ heard' \in HeardType /\ attempt' \in AttemptType
<1> DEFINE d == [c EXCEPT !.ran = <<>>]
           k == Hear(c)
<1>1. ctx' = d /\ heard' = k /\ attempt' = [a EXCEPT !.times = a.times + Ran(c, a)]
  BY DEF Enter
<1>2. Typed(c) /\ Slot(c)
  BY DEF Good, Sound
<1>3. Typed(d)
  <2>1. <<>> \in Seq(Requests)
    OBVIOUS
  <2>2. d \in Contexts /\ d.buffer = c.buffer
    BY <1>2, <2>1 DEF Typed, Contexts
  <2> HIDE DEF d
  <2> QED BY <1>2, <2>2 DEF Typed
<1>4. SameState(c, d) /\ d.history = c.history /\ d.ran = <<>> /\ d.buffer = c.buffer
      /\ d.mask = c.mask
  BY <1>2 DEF SameState, Typed, Contexts
<1> HIDE DEF d
<1>5. k \in HeardType /\ (UnsolSent(c) => k.unsol = c.lower[1])
      /\ (~UnsolSent(c) => k.unsol = heard.unsol)
  <2>1. CASE c.lower = ctx.lower \/ c.lower = <<>>
    <3>1. k = heard
      BY <2>1 DEF Hear
    <3> QED BY <2>1, <3>1 DEF Shown, UnsolSent
  <2>2. CASE c.lower # ctx.lower /\ c.lower # <<>>
    <3>1. PICK f \in Fragments : c.lower = <<f>>
      BY <1>2, <2>2 DEF Slot
    <3>2. Last(c.lower) = f /\ c.lower[1] = f /\ f.uns \in BOOLEAN
      BY <3>1 DEF Last, Fragments
    <3>3. k = IF f.uns THEN [heard EXCEPT !.unsol = f] ELSE [heard EXCEPT !.sol = f]
      BY <2>2, <3>2 DEF Hear
    <3>4. UnsolSent(c) <=> f.uns = TRUE
      BY <2>2, <3>2 DEF UnsolSent
    <3> HIDE DEF k
    <3> QED BY <3>2, <3>3, <3>4 DEF HeardType
  <2> QED BY <2>1, <2>2
<1> HIDE DEF k
<1>6. UnsolSent(d) <=> UnsolSent(c)
  BY <1>4 DEF SameState, UnsolSent
<1>7. NullFirst(d, k, g)
  <2>1. LastUnsol(d, k) = LastUnsol(c, heard)
    BY <1>4, <1>5, <1>6 DEF LastUnsol, SameState
  <2>2. NullFirst(c, heard, g)
    BY DEF Good, Sound
  <2> QED BY <1>4, <1>6, <2>1, <2>2 DEF NullFirst, SameState, EndsNull, UnsolConfirmExpected
<1>8. Good(d, k, g)
  <2>1. Slot(d) /\ Waiter(d) /\ Kept(d)
    BY <1>4 DEF Good, Sound, Slot, Waiter, Kept, SameState
  <2> QED BY <1>3, <1>7, <2>1 DEF Good, Sound
<1>9. Settled(d) /\ Prompt(d) /\ Shown(d, k)
  BY <1>4, <1>5, <1>6 DEF Settled, AtRest, CanTransmit, Prompt, Shown, SameState
<1>10. attempt' \in AttemptType
  BY <1>1, <1>2, RanType DEF AttemptType
<1> QED BY <1>1, <1>4, <1>5, <1>8, <1>9, <1>10 DEF InOrder

\* An entry point that ends in CheckForTaskStart.
LEMMA TaskStartGood ==
    ASSUME NEW c, NEW g, Good(c, heard, g), c.isOnline = TRUE \/ Prompt(c),
           Shown(ctx, heard), heard \in HeardType,
           NEW a \in AttemptType, Enter(CheckForTaskStart(c), a),
           NEW n, Past(c.buffer, n)
    PROVE  /\ InOrder(ctx', heard', g)
           /\ Past(ctx'.buffer, n)
           /\ heard' \in HeardType /\ attempt' \in AttemptType
<1> DEFINE d == CheckForTaskStart(c)
<1>1. Good(d, heard, g) /\ Settled(d) /\ Prompt(d) /\ NoneAdded(c, d)
  BY CheckForTaskStartGood
<1> HIDE DEF d
<1>2. /\ InOrder(ctx', heard', g)
      /\ ctx'.buffer = d.buffer
      /\ heard' \in HeardType /\ attempt' \in AttemptType
  BY <1>1, EnterGood DEF d
<1>3. Past(ctx'.buffer, n)
  BY <1>1, <1>2 DEF Past, NoneAdded
<1> QED BY <1>2, <1>3

----------------------------------------------------------------------------
(* One lemma per entry point that changes the context before the task start. *)


\* The outstation that was just made is in order.
LEMMA InitInOrder == Init => IInv
<1> SUFFICES ASSUME Init PROVE IInv
  OBVIOUS
<1>1. 0 \in Seqs /\ None \in {None} /\ UnsolClassMask \in SUBSET EventClass
  BY OutstationAssumption DEF Seqs
<1>2. EmptyBuffer \in BufferType /\ GoodBuffer(EmptyBuffer) /\ EmptyBuffer.soe = {}
  BY EmptyGood DEF GoodBuffer, EmptyBuffer
<1>3. <<>> \in Seq(Fragments) /\ <<>> \in Seq(Requests)
  OBVIOUS
<1>4. Typed(ctx)
  <2> HIDE DEF EmptyBuffer
  <2>1. ctx \in Contexts /\ ctx.buffer = EmptyBuffer
    BY <1>1, <1>2, <1>3 DEF Init, InitialContext, Contexts
  <2> QED BY <1>2, <2>1 DEF Typed
<1>5. /\ ctx.isTransmitting = FALSE /\ ctx.lower = <<>> /\ ctx.timer = "none"
      /\ ctx.solTx = None /\ ctx.sol = "Idle" /\ ctx.history = None /\ ctx.unsol = "Idle"
      /\ ctx.completedNull = FALSE /\ ctx.deferred = None /\ ctx.isOnline = FALSE
      /\ ctx.ran = <<>> /\ ctx.buffer = EmptyBuffer
  BY DEF Init, InitialContext
<1>6. Slot(ctx) /\ Waiter(ctx) /\ Kept(ctx) /\ NullFirst(ctx, heard, greeted)
  BY <1>5, RequestKinds DEF Slot, Waiter, Kept, NullFirst, UnsolSent
<1>7. Prompt(ctx) /\ Settled(ctx) /\ Shown(ctx, heard)
  BY <1>5, RequestKinds DEF Prompt, Settled, AtRest, CanTransmit, Shown, UnsolSent
<1>8. Past(ctx.buffer, nextId)
  BY <1>2, <1>5 DEF Past
<1>9. /\ nextId \in Nat \ {0} /\ heard \in HeardType /\ acked \in SUBSET SOERecord
      /\ greeted \in BOOLEAN /\ attempt \in AttemptType
  <2>1. nextId = 1 /\ acked = {} /\ greeted = FALSE
    BY DEF Init
  <2>2. heard = [sol |-> None, unsol |-> None] /\ attempt = [request |-> None, times |-> 0]
    BY DEF Init
  <2>3. heard \in HeardType /\ attempt \in AttemptType
    BY <2>2 DEF HeardType, AttemptType
  <2>4. 1 \in Nat \ {0} /\ {} \in SUBSET SOERecord /\ FALSE \in BOOLEAN
    OBVIOUS
  <2> QED BY <2>1, <2>3, <2>4
<1> QED BY <1>4, <1>5, <1>6, <1>7, <1>8, <1>9 DEF IInv, InOrder, Good, Sound

\* The session is good while OnLowerLayerUp is under way.
LEMMA UpGood ==
    ASSUME InOrder(ctx, heard, greeted), ~ctx.isOnline
    PROVE  LET c == [ctx EXCEPT !.isOnline = TRUE]
           IN  Good(c, heard, greeted) /\ c.buffer = ctx.buffer /\ c.isOnline = TRUE
<1> DEFINE c == [ctx EXCEPT !.isOnline = TRUE]
<1>1. Typed(ctx) /\ Good(ctx, heard, greeted)
  BY DEF InOrder, Good, Sound
<1>2. Typed(c)
  BY <1>1 DEF Typed, Contexts
<1>3. /\ c.isOnline = TRUE /\ c.buffer = ctx.buffer
      /\ c.isTransmitting = ctx.isTransmitting /\ c.lower = ctx.lower /\ c.timer = ctx.timer
      /\ c.sol = ctx.sol /\ c.solTx = ctx.solTx /\ c.history = ctx.history
      /\ SameUnsol(ctx, c)
  BY <1>1 DEF SameUnsol, Typed, Contexts
<1> HIDE DEF c
<1>4. Slot(c) /\ Waiter(c) /\ Kept(c)
  BY <1>1, <1>3 DEF Good, Sound, Slot, Waiter, Kept, SameUnsol
<1>5. NullFirst(c, heard, greeted)
  BY <1>1, <1>3, SameNull DEF Good, Sound, UnsolSent, SameUnsol
<1> QED BY <1>2, <1>3, <1>4, <1>5 DEF Good, Sound, c

\* The session is good while the result of a transmission is dealt with.
LEMMA SentGood ==
    ASSUME InOrder(ctx, heard, greeted), ctx.lower # <<>>
    PROVE  LET c == [ctx EXCEPT !.isTransmitting = FALSE, !.lower = <<>>]
           IN  /\ ctx.isOnline = TRUE /\ ctx.isTransmitting = TRUE
               /\ Good(c, heard, greeted) /\ c.buffer = ctx.buffer /\ c.isOnline = TRUE
<1> DEFINE c == [ctx EXCEPT !.isTransmitting = FALSE, !.lower = <<>>]
<1>1. Typed(ctx) /\ Good(ctx, heard, greeted) /\ Shown(ctx, heard)
  BY DEF InOrder, Good, Sound
<1>2. ctx.isOnline = TRUE /\ ctx.isTransmitting = TRUE
  BY <1>1 DEF Good, Sound, Slot
<1>3. Typed(c)
  <2>1. <<>> \in Seq(Fragments)
    OBVIOUS
  <2> QED BY <1>1, <2>1, ZenonT(30) DEF Typed, Contexts
<1>4. /\ c.isOnline = TRUE /\ c.buffer = ctx.buffer
      /\ c.isTransmitting = FALSE /\ c.lower = <<>> /\ c.timer = ctx.timer
      /\ c.sol = ctx.sol /\ c.solTx = ctx.solTx /\ c.history = ctx.history
      /\ c.unsol = ctx.unsol /\ c.unsolConfirm = ctx.unsolConfirm
      /\ c.completedNull = ctx.completedNull /\ c.deferred = ctx.deferred
  BY <1>1, <1>2 DEF Typed, Contexts
<1> HIDE DEF c
<1>5. Slot(c) /\ Waiter(c) /\ Kept(c)
  BY <1>1, <1>4 DEF Good, Sound, Slot, Waiter, Kept
<1>6. NullFirst(c, heard, greeted)
  <2>1. LastUnsol(c, heard) = LastUnsol(ctx, heard)
    BY <1>1, <1>4 DEF LastUnsol, UnsolSent, Shown
  <2>2. NullFirst(ctx, heard, greeted) /\ ~UnsolSent(c)
    BY <1>1, <1>4 DEF Good, Sound, UnsolSent
  <2> QED BY <1>4, <2>1, <2>2 DEF NullFirst, EndsNull, UnsolConfirmExpected
<1> QED BY <1>2, <1>3, <1>4, <1>5, <1>6 DEF Good, Sound, c

\* OnLowerLayerDown leaves everything in order, whatever was under way.
LEMMA DownGood ==
    ASSUME IInv, OnLowerLayerDown
    PROVE  IInv'
<1> DEFINE b == Unselect(ctx.buffer)
           d == [ctx EXCEPT !.isOnline = FALSE, !.isTransmitting = FALSE, !.sol = "Idle",
                            !.unsol = "Idle", !.completedNull = FALSE, !.history = None,
                            !.deferred = None, !.buffer = b, !.firstFragment = TRUE,
                            !.lower = <<>>, !.timer = "none"]
<1>1. /\ Typed(ctx) /\ Good(ctx, heard, greeted) /\ Past(ctx.buffer, nextId)
      /\ ctx.ran = <<>> /\ nextId \in Nat \ {0} /\ acked \in SUBSET SOERecord
  BY DEF IInv, InOrder, Good, Sound
<1>2. GoodBuffer(b) /\ b \in BufferType /\ b.soe = ctx.buffer.soe
  BY <1>1, UnselectGood DEF Typed, GoodBuffer
<1>3. ctx' = d
  BY <1>1 DEF OnLowerLayerDown, CancelTimer, Typed, Contexts
<1> HIDE DEF b
<1>4. <<>> \in Seq(Fragments)
  OBVIOUS
<1>5. Typed(d)
  <2>1. d \in Contexts /\ d.buffer = b
    BY <1>1, <1>2, <1>4, ZenonT(30) DEF Typed, Contexts
  <2> HIDE DEF d
  <2> QED BY <1>2, <2>1 DEF Typed
<1>6. /\ d.isOnline = FALSE /\ d.isTransmitting = FALSE /\ d.lower = <<>> /\ d.timer = "none"
      /\ d.sol = "Idle" /\ d.solTx = ctx.solTx /\ d.history = None /\ d.unsol = "Idle"
      /\ d.completedNull = FALSE /\ d.deferred = None /\ d.ran = <<>> /\ d.buffer = b
  BY <1>1 DEF Typed, Contexts
<1> HIDE DEF d
<1>7. Slot(d) /\ Waiter(d) /\ Kept(d)
  BY <1>1, <1>6 DEF Good, Slot, Waiter, Kept
<1>8. NullFirst(d, heard', FALSE)
  BY <1>6, RequestKinds DEF NullFirst, UnsolSent
<1>9. Prompt(d) /\ Settled(d) /\ Shown(d, heard')
  BY <1>6, RequestKinds DEF Prompt, Settled, AtRest, CanTransmit, Shown, UnsolSent
<1>10. InOrder(d, heard', FALSE)
  BY <1>5, <1>6, <1>7, <1>8, <1>9 DEF InOrder, Good, Sound
<1>11. Past(d.buffer, nextId)
  BY <1>1, <1>2, <1>6 DEF Past
<1>12. /\ heard' \in HeardType /\ greeted' = FALSE /\ attempt' \in AttemptType
       /\ nextId' = nextId /\ acked' = acked
  BY DEF OnLowerLayerDown, HeardType, AttemptType
<1> QED BY <1>1, <1>3, <1>10, <1>11, <1>12 DEF IInv

\* A confirm timer that expires takes the session back to idle and unselects the events.
LEMMA TimeoutGood ==
    ASSUME InOrder(ctx, heard, greeted), ctx.timer # "none"
    PROVE  LET c == [ctx EXCEPT !.timer = "none"]
               d == IF ctx.timer = "sol" THEN OnSolConfirmTimeout(c) ELSE OnUnsolConfirmTimeout(c)
           IN  /\ Good(d, heard, greeted) /\ Prompt(d) /\ Untouched(ctx, d)
               /\ d.unsol \in {"Idle", ctx.unsol}
<1> DEFINE b == Unselect(ctx.buffer)
           c == [ctx EXCEPT !.timer = "none"]
           s == [ctx EXCEPT !.timer = "none", !.sol = "Idle"]
           u == [ctx EXCEPT !.timer = "none", !.unsol = "Idle", !.buffer = b]
           d == IF ctx.timer = "sol" THEN OnSolConfirmTimeout(c) ELSE OnUnsolConfirmTimeout(c)
<1>1. Typed(ctx) /\ Good(ctx, heard, greeted) /\ Prompt(ctx) /\ Waiter(ctx)
  BY DEF InOrder, Good, Sound
<1>2. GoodBuffer(b) /\ b \in BufferType /\ b.soe = ctx.buffer.soe
  BY <1>1, UnselectGood DEF Typed, GoodBuffer
<1>3. d = s \/ d = u
  <2>1. CASE ctx.timer = "sol"
    BY <1>1, <2>1 DEF OnSolConfirmTimeout, Typed, Contexts
  <2>2. CASE ctx.timer # "sol"
    <3>1. ctx.timer = "unsol" /\ ctx.unsol = "ConfirmWait"
      BY <1>1, <2>2 DEF Waiter, Typed, Contexts
    <3> QED BY <1>1, <2>2, <3>1 DEF OnUnsolConfirmTimeout, Typed, Contexts
  <2> QED BY <2>1, <2>2
<1> HIDE DEF b, d
<1>4. Typed(s) /\ Typed(u)
  <2>1. s \in Contexts /\ s.buffer = ctx.buffer
    BY <1>1 DEF Typed, Contexts
  <2>2. u \in Contexts /\ u.buffer = b
    BY <1>1, <1>2 DEF Typed, Contexts
  <2> HIDE DEF s, u
  <2> QED BY <1>1, <1>2, <2>1, <2>2 DEF Typed
<1>5. /\ SameWire(ctx, s) /\ SameUnsol(ctx, s) /\ s.timer = "none" /\ s.sol = "Idle"
      /\ s.deferred = ctx.deferred /\ s.buffer = ctx.buffer
      /\ s.ran = ctx.ran /\ s.solNum = ctx.solNum
  BY <1>1 DEF SameWire, SameUnsol, Typed, Contexts
<1>6. /\ SameWire(ctx, u) /\ u.timer = "none" /\ u.sol = ctx.sol /\ u.unsol = "Idle"
      /\ u.completedNull = ctx.completedNull
      /\ u.deferred = ctx.deferred /\ u.buffer.soe = ctx.buffer.soe
      /\ u.ran = ctx.ran /\ u.solNum = ctx.solNum
  BY <1>1, <1>2 DEF SameWire, Typed, Contexts
<1> HIDE DEF s, u
<1>7. Good(s, heard, greeted)
  BY <1>1, <1>4, <1>5, QuietGood DEF Waiter
<1>8. Good(u, heard, greeted)
  <2>1. Slot(u) /\ Waiter(u) /\ Kept(u)
    BY <1>1, <1>6 DEF Good, Sound, Slot, Waiter, Kept, SameWire
  <2>2. NullFirst(u, heard, greeted)
    BY <1>1, <1>6 DEF Good, Sound, NullFirst, SameWire, UnsolSent, EndsNull, UnsolConfirmExpected
  <2> QED BY <1>4, <2>1, <2>2 DEF Good, Sound
<1>9. /\ Prompt(s) /\ Untouched(ctx, s) /\ s.unsol = ctx.unsol
      /\ Prompt(u) /\ Untouched(ctx, u) /\ u.unsol = "Idle"
  BY <1>1, <1>5, <1>6 DEF Prompt, Untouched, NoneAdded, SameWire, SameUnsol
<1> QED BY <1>3, <1>7, <1>8, <1>9 DEF d

\* The master's confirm of a null response is on record.
LEMMA GreetedInTime ==
    ASSUME InOrder(ctx, heard, greeted), heard \in HeardType, greeted \in BOOLEAN,
           NEW r \in Confirms, ReceiveConfirm(r)
    PROVE  /\ greeted' \in BOOLEAN
           /\ greeted = TRUE => greeted' = TRUE
           /\ EndsNull(ctx, r) => greeted' = TRUE
           /\ acked \in SUBSET SOERecord => acked' \in SUBSET SOERecord
<1> DEFINE f == IF r.uns THEN heard.unsol ELSE heard.sol
<1>1. f \in Fragments \cup {None}
  BY DEF HeardType
<1>2. \/ /\ f # None /\ f.seq = r.seq
         /\ acked' = acked \cup f.events
         /\ greeted' = (greeted \/ (f.uns /\ f.events = {}))
      \/ /\ ~(f # None /\ f.seq = r.seq)
         /\ acked' = acked /\ greeted' = greeted
  BY DEF ReceiveConfirm
<1>3. EndsNull(ctx, r) => /\ f \in Fragments /\ f.uns = TRUE /\ f.seq = r.seq /\ f.events = {}
  <2> SUFFICES ASSUME EndsNull(ctx, r)
               PROVE  f \in Fragments /\ f.uns = TRUE /\ f.seq = r.seq /\ f.events = {}
    OBVIOUS
  <2>1. /\ r.uns = TRUE /\ ctx.unsol = "ConfirmWait" /\ ctx.unsolConfirm = r.seq
        /\ ctx.completedNull = FALSE
    BY DEF EndsNull, UnsolConfirmExpected
  <2>2. LastUnsol(ctx, heard) = heard.unsol
    BY DEF InOrder, Shown, LastUnsol
  <2>3. /\ heard.unsol \in Fragments /\ heard.unsol.uns = TRUE
        /\ heard.unsol.seq = r.seq /\ heard.unsol.events = {}
    BY <2>1, <2>2 DEF InOrder, Good, Sound, NullFirst
  <2> QED BY <2>1, <2>3
<1>4. None \notin Fragments
  BY OutstationAssumption
<1> HIDE DEF f
<1>5. f # None => f.events \in SUBSET SOERecord /\ f.uns \in BOOLEAN
  BY <1>1 DEF Fragments
<1> QED BY <1>2, <1>3, <1>4, <1>5

\* A context that is in order for g is in order when g is known to be true.
LEMMA GreetedLater ==
    ASSUME NEW c, NEW h, NEW g, NEW g2, Good(c, h, g), g = TRUE => g2 = TRUE
    PROVE  Good(c, h, g2)
<1>1. NullFirst(c, h, g2)
  BY DEF Good, Sound, NullFirst
<1> QED BY <1>1 DEF Good, Sound

\* Something arrives.
LEMMA OnReceiveGood ==
    ASSUME IInv, ctx.isOnline, NEW r \in Requests \cup Confirms, OnReceive(r),
           NEW g, greeted = TRUE => g = TRUE,
           r \in Confirms /\ EndsNull(ctx, r) => g = TRUE
    PROVE  /\ InOrder(ctx', heard', g) /\ Past(ctx'.buffer, nextId)
           /\ heard' \in HeardType /\ attempt' \in AttemptType
<1> DEFINE c == ProcessAPDU(ctx, r)
           a == IF r.function = "CONFIRM" \/ IsNoAckFuncCode(r.function) \/ r = attempt.request
                THEN attempt ELSE [request |-> r, times |-> 0]
<1>1. /\ Good(ctx, heard, greeted) /\ Shown(ctx, heard) /\ heard \in HeardType
      /\ attempt \in AttemptType /\ Past(ctx.buffer, nextId)
  BY DEF IInv, InOrder
<1>2. ctx.isOnline = TRUE
  BY <1>1 DEF Good, Sound, Typed, Contexts
<1>3. Good(ctx, heard, g)
  BY <1>1, GreetedLater
<1>4. Good(c, heard, g) /\ Arrived(ctx, c, r)
  BY <1>2, <1>3, ProcessAPDUGood
<1>5. c.isOnline = TRUE /\ Past(c.buffer, nextId)
  <2> HIDE DEF c
  <2> QED BY <1>1, <1>2, <1>4 DEF Arrived, NoneAdded, Past
<1>6. a \in AttemptType
  <2>1. r.function # "CONFIRM" => r \in Requests
    BY RequestKinds
  <2> QED BY <1>1, <2>1 DEF AttemptType
<1>7. Enter(CheckForTaskStart(c), a)
  BY DEF OnReceive
<1> HIDE DEF c, a
<1> QED BY <1>1, <1>4, <1>5, <1>6, <1>7, TaskStartGood

\* The n events es of a transaction enter the buffer and the outstation looks for work.
Produced(es, n) ==
    /\ nextId' = nextId + n /\ acked' = acked /\ greeted' = greeted
    /\ Enter(CheckForTaskStart([ctx EXCEPT !.buffer = AfterAll(ctx.buffer, es)]), attempt)
    /\ GoodBuffer(AfterAll(ctx.buffer, es))
    /\ Grown(ctx.buffer, AfterAll(ctx.buffer, es))
    /\ Past(AfterAll(ctx.buffer, es), nextId + n)
    /\ n = 0 => AfterAll(ctx.buffer, es) = ctx.buffer

\* A transaction produces events.
LEMMA TransactionEffect ==
    ASSUME IInv, NEW changes \in SeqOf(EventType \X EventClass, MaxTransaction), Update(changes)
    PROVE  \E n \in Nat : \E es : Produced(es, n)
<1> DEFINE n == Len(changes)
           es == [i \in 1 .. Len(changes) |->
                    [id |-> nextId + i - 1, type |-> changes[i][1], clazz |-> changes[i][2]]]
<1>1. GoodBuffer(ctx.buffer) /\ Past(ctx.buffer, nextId) /\ nextId \in Nat \ {0}
  BY DEF IInv, InOrder, Good, Sound, Typed
<1>2. n \in Nat /\ changes \in [1 .. n -> EventType \X EventClass]
  <2>1. PICK m \in 0 .. MaxTransaction : changes \in [1 .. m -> EventType \X EventClass]
    BY DEF SeqOf
  <2>2. changes \in Seq(EventType \X EventClass) /\ n = m
    BY <2>1
  <2> QED BY <2>1, <2>2
<1>3. DOMAIN es = 1 .. n /\ \A i \in 1 .. n : es[i] \in SOERecord /\ es[i].id = nextId + i - 1
  <2>1. ASSUME NEW i \in 1 .. n
        PROVE  es[i] \in SOERecord /\ es[i].id = nextId + i - 1
    <3>1. changes[i] \in EventType \X EventClass
      BY <1>2
    <3>2. changes[i][1] \in EventType /\ changes[i][2] \in EventClass
      BY <3>1
    <3>3. nextId + i - 1 \in Nat
      BY <1>1, <1>2
    <3> QED BY <3>2, <3>3 DEF SOERecord
  <2> QED BY <2>1
<1>4. /\ nextId' = nextId + n /\ acked' = acked /\ greeted' = greeted
      /\ Enter(CheckForTaskStart([ctx EXCEPT !.buffer = AfterAll(ctx.buffer, es)]), attempt)
  BY DEF Update, AfterAll
<1> HIDE DEF es, n
<1>5. /\ GoodBuffer(AfterAll(ctx.buffer, es)) /\ Past(AfterAll(ctx.buffer, es), nextId + n)
      /\ Grown(ctx.buffer, AfterAll(ctx.buffer, es))
      /\ n = 0 => AfterAll(ctx.buffer, es) = ctx.buffer
  BY <1>1, <1>2, <1>3, TransactionGrows DEF Grown
<1>6. Produced(es, n)
  BY <1>4, <1>5 DEF Produced
<1> QED BY <1>2, <1>6

\* A transaction of the user leaves everything in order.
LEMMA TransactionGood ==
    ASSUME IInv, NEW changes \in SeqOf(EventType \X EventClass, MaxTransaction), Update(changes)
    PROVE  IInv'
<1>1. /\ Good(ctx, heard, greeted) /\ Typed(ctx) /\ Shown(ctx, heard) /\ Prompt(ctx)
      /\ heard \in HeardType /\ attempt \in AttemptType
      /\ nextId \in Nat \ {0} /\ acked \in SUBSET SOERecord /\ greeted \in BOOLEAN
  BY DEF IInv, InOrder, Good, Sound
<1>0. PICK n \in Nat : \E es : Produced(es, n)
  BY TransactionEffect
<1>a. PICK es : Produced(es, n)
  BY <1>0
<1>2. /\ nextId' = nextId + n /\ acked' = acked /\ greeted' = greeted
      /\ Enter(CheckForTaskStart([ctx EXCEPT !.buffer = AfterAll(ctx.buffer, es)]), attempt)
      /\ GoodBuffer(AfterAll(ctx.buffer, es))
      /\ Past(AfterAll(ctx.buffer, es), nextId + n)
  BY <1>a DEF Produced
<1> DEFINE b == AfterAll(ctx.buffer, es)
           c == [ctx EXCEPT !.buffer = b]
<1>3. GoodBuffer(b) /\ b \in BufferType /\ Past(b, nextId + n)
  BY <1>2 DEF GoodBuffer
<1>4. Enter(CheckForTaskStart(c), attempt)
  BY <1>2
<1> HIDE DEF b
<1>5. Typed(c) /\ SameState(ctx, c) /\ c.history = ctx.history /\ c.buffer = b
  <2>1. Typed(c)
    BY <1>1, <1>3, PlainFieldsTyped
  <2> QED BY <1>1, <1>3, <2>1 DEF SameState, Typed, Contexts
<1> HIDE DEF c
<1>6. Good(c, heard, greeted) /\ Prompt(c)
  BY <1>1, <1>5, SameSound DEF Good, Prompt, SameState
<1>7. Past(c.buffer, nextId + n)
  BY <1>3, <1>5
<1>8. /\ InOrder(ctx', heard', greeted) /\ Past(ctx'.buffer, nextId + n)
      /\ heard' \in HeardType /\ attempt' \in AttemptType
  BY <1>1, <1>4, <1>6, <1>7, TaskStartGood
<1> QED BY <1>1, <1>2, <1>8 DEF IInv

\* The restart bit and the age of a selection steer nothing.
LEMMA PlainStepGood ==
    ASSUME IInv, SetRestartIIN \/ Tick
    PROVE  IInv'
<1>1. /\ Good(ctx, heard, greeted) /\ Typed(ctx) /\ Shown(ctx, heard) /\ Prompt(ctx)
      /\ Settled(ctx) /\ ctx.ran = <<>> /\ Past(ctx.buffer, nextId)
  BY DEF IInv, InOrder, Good, Sound
<1>2. /\ Typed(ctx') /\ SameState(ctx, ctx') /\ ctx'.history = ctx.history
      /\ ctx'.buffer = ctx.buffer /\ ctx'.ran = ctx.ran /\ ctx'.mask = ctx.mask
  <2>1. CASE SetRestartIIN
    BY <1>1, <2>1 DEF SetRestartIIN, SameState, Typed, Contexts
  <2>2. CASE Tick
    <3> DEFINE k == [ctx.control EXCEPT !.elapsed = ctx.control.elapsed + 1]
    <3>1. ctx' = [ctx EXCEPT !.control = k]
      BY <2>2, <1>1 DEF Tick, Typed, Contexts
    <3>2. k \in [expectedSeq : Seqs, elapsed : 0 .. SelectTimeout,
                 objects : {r.objects : r \in Requests}]
      <4>1. /\ ctx.control # None /\ ctx.control.elapsed < SelectTimeout
            /\ SelectTimeout \in Nat
        BY <2>2, OutstationAssumption DEF Tick
      <4>2. ctx.control \in [expectedSeq : Seqs, elapsed : 0 .. SelectTimeout,
                             objects : {r.objects : r \in Requests}]
        BY <1>1, <4>1 DEF Typed, Contexts
      <4> QED BY <4>1, <4>2
    <3> HIDE DEF k
    <3> QED BY <1>1, <3>1, <3>2 DEF SameState, Typed, Contexts
  <2> QED BY <2>1, <2>2
<1>3. Good(ctx', heard, greeted)
  BY <1>1, <1>2, SameSound DEF Good
<1>4. Prompt(ctx') /\ Settled(ctx') /\ Shown(ctx', heard)
  BY <1>1, <1>2 DEF Prompt, Settled, AtRest, CanTransmit, Shown, UnsolSent, SameState
<1>5. UNCHANGED <<nextId, heard, acked, greeted, attempt>>
  BY DEF SetRestartIIN, Tick
<1> QED BY <1>1, <1>2, <1>3, <1>4, <1>5 DEF IInv, InOrder

----------------------------------------------------------------------------
(* The theorems.                                                           *)

\* Every entry point keeps the invariant.
LEMMA IInvInductive == IInv /\ [Next]_vars => IInv'
<1> SUFFICES ASSUME IInv, [Next]_vars PROVE IInv'
  OBVIOUS
<1>1. /\ InOrder(ctx, heard, greeted) /\ Good(ctx, heard, greeted) /\ Shown(ctx, heard)
      /\ Prompt(ctx) /\ heard \in HeardType /\ attempt \in AttemptType
      /\ Past(ctx.buffer, nextId) /\ nextId \in Nat \ {0} /\ acked \in SUBSET SOERecord
      /\ greeted \in BOOLEAN
  BY DEF IInv, InOrder
<1>2. CASE OnLowerLayerUp
  <2> DEFINE c == [ctx EXCEPT !.isOnline = TRUE]
  <2>1. Good(c, heard, greeted) /\ c.buffer = ctx.buffer /\ c.isOnline = TRUE
    BY <1>1, <1>2, UpGood DEF OnLowerLayerUp
  <2>2. Enter(CheckForTaskStart(c), attempt) /\ UNCHANGED <<nextId, acked, greeted>>
    BY <1>2 DEF OnLowerLayerUp
  <2> HIDE DEF c
  <2>3. /\ InOrder(ctx', heard', greeted) /\ Past(ctx'.buffer, nextId)
        /\ heard' \in HeardType /\ attempt' \in AttemptType
    BY <1>1, <2>1, <2>2, TaskStartGood
  <2> QED BY <1>1, <2>2, <2>3 DEF IInv
<1>3. CASE OnLowerLayerDown
  BY <1>3, DownGood
<1>4. CASE OnSendResult
  <2> DEFINE c == [ctx EXCEPT !.isTransmitting = FALSE, !.lower = <<>>]
  <2>1. /\ ctx.isOnline = TRUE /\ ctx.isTransmitting = TRUE
        /\ Good(c, heard, greeted) /\ c.buffer = ctx.buffer /\ c.isOnline = TRUE
    BY <1>1, <1>4, SentGood DEF OnSendResult
  <2>2. Enter(CheckForTaskStart(c), attempt) /\ UNCHANGED <<nextId, acked, greeted>>
    BY <1>4, <2>1 DEF OnSendResult
  <2> HIDE DEF c
  <2>3. /\ InOrder(ctx', heard', greeted) /\ Past(ctx'.buffer, nextId)
        /\ heard' \in HeardType /\ attempt' \in AttemptType
    BY <1>1, <2>1, <2>2, TaskStartGood
  <2> QED BY <1>1, <2>2, <2>3 DEF IInv
<1>5. CASE OnConfirmTimeout
  <2> DEFINE c == [ctx EXCEPT !.timer = "none"]
             d == IF ctx.timer = "sol" THEN OnSolConfirmTimeout(c) ELSE OnUnsolConfirmTimeout(c)
  <2>1. Good(d, heard, greeted) /\ Prompt(d) /\ Untouched(ctx, d)
    BY <1>1, <1>5, TimeoutGood DEF OnConfirmTimeout
  <2>2. Enter(CheckForTaskStart(d), attempt) /\ UNCHANGED <<nextId, acked, greeted>>
    BY <1>5 DEF OnConfirmTimeout
  <2> HIDE DEF d
  <2>3. Past(d.buffer, nextId)
    BY <1>1, <2>1 DEF Past, Untouched, NoneAdded
  <2>4. /\ InOrder(ctx', heard', greeted) /\ Past(ctx'.buffer, nextId)
        /\ heard' \in HeardType /\ attempt' \in AttemptType
    BY <1>1, <2>1, <2>2, <2>3, TaskStartGood
  <2> QED BY <1>1, <2>2, <2>4 DEF IInv
<1>6. ASSUME NEW r \in Requests, ReceiveRequest(r) PROVE IInv'
  <2>1. ctx.isOnline /\ OnReceive(r) /\ UNCHANGED <<nextId, acked, greeted>>
    BY <1>6 DEF ReceiveRequest
  <2>2. r \notin Confirms
    BY RequestKinds
  <2>3. /\ InOrder(ctx', heard', greeted) /\ Past(ctx'.buffer, nextId)
        /\ heard' \in HeardType /\ attempt' \in AttemptType
    BY <2>1, <2>2, OnReceiveGood
  <2> QED BY <1>1, <2>1, <2>3 DEF IInv
<1>7. ASSUME NEW r \in Confirms, ReceiveConfirm(r) PROVE IInv'
  <2>1. ctx.isOnline /\ OnReceive(r) /\ nextId' = nextId
    BY <1>7 DEF ReceiveConfirm
  <2>2. /\ greeted' \in BOOLEAN
        /\ greeted = TRUE => greeted' = TRUE
        /\ EndsNull(ctx, r) => greeted' = TRUE
        /\ acked' \in SUBSET SOERecord
    BY <1>1, <1>7, GreetedInTime
  <2>3. /\ InOrder(ctx', heard', greeted') /\ Past(ctx'.buffer, nextId)
        /\ heard' \in HeardType /\ attempt' \in AttemptType
    BY <2>1, <2>2, OnReceiveGood
  <2> QED BY <1>1, <2>1, <2>2, <2>3 DEF IInv
<1>8. ASSUME NEW changes \in SeqOf(EventType \X EventClass, MaxTransaction), Update(changes)
      PROVE  IInv'
  BY <1>8, TransactionGood
<1>9. CASE SetRestartIIN \/ Tick
  BY <1>9, PlainStepGood
<1>10. CASE UNCHANGED vars
  BY <1>1, <1>10 DEF IInv, vars
<1> QED BY <1>2, <1>3, <1>4, <1>5, <1>6, <1>7, <1>8, <1>9, <1>10 DEF Next

\* What holds in every reachable state.
THEOREM OutstationInvariant == Spec => []IInv
BY InitInOrder, IInvInductive, PTL DEF Spec

\* What the invariant says, in the terms of the module's properties.
LEMMA IInvImplies ==
    IInv => /\ TypeOK /\ OneFragmentAtATime /\ RepeatGetsItsResponse /\ NullBeforeData
            /\ TimerHasAWaiter /\ NothingUnwrittenAtRest
<1> SUFFICES ASSUME IInv
             PROVE  /\ TypeOK /\ OneFragmentAtATime /\ RepeatGetsItsResponse /\ NullBeforeData
                    /\ TimerHasAWaiter /\ NothingUnwrittenAtRest
  OBVIOUS
<1>1. /\ Typed(ctx) /\ Slot(ctx) /\ Waiter(ctx) /\ Kept(ctx)
      /\ NullFirst(ctx, heard, greeted) /\ Settled(ctx) /\ ctx.ran = <<>>
      /\ nextId \in Nat \ {0} /\ heard \in HeardType /\ acked \in SUBSET SOERecord
      /\ greeted \in BOOLEAN /\ attempt \in AttemptType
  BY DEF IInv, InOrder, Good, Sound
<1>2. TypeOK
  BY <1>1 DEF Typed, Contexts, TypeOK, HeardType, AttemptType
<1>3. \/ ctx.isTransmitting = FALSE /\ ctx.lower = <<>>
      \/ ctx.isTransmitting = TRUE /\ \E f \in Fragments : ctx.lower = <<f>>
  BY <1>1 DEF Slot
<1>4. OneFragmentAtATime
  <2>1. Len(<<>>) = 0 /\ \A f \in Fragments : Len(<<f>>) = 1 /\ <<f>> # <<>>
    OBVIOUS
  <2>2. Len(ctx.lower) <= 1
    <3>1. Len(ctx.lower) = 0 \/ Len(ctx.lower) = 1
      BY <1>3, <2>1, Zenon
    <3>2. 0 <= 1 /\ 1 <= 1
      OBVIOUS
    <3> QED BY <3>1, <3>2, Zenon
  <2>3. ctx.isTransmitting <=> ctx.lower # <<>>
    BY <1>3, <2>1
  <2> QED BY <2>2, <2>3 DEF OneFragmentAtATime
<1>5. RepeatGetsItsResponse
  BY <1>1 DEF RepeatGetsItsResponse, Kept
<1>6. NullBeforeData
  <2> SUFFICES ASSUME NEW i \in DOMAIN ctx.lower,
                      ctx.lower[i].uns, ctx.lower[i].events # {}
               PROVE  greeted
    BY DEF NullBeforeData
  <2>1. PICK f \in Fragments : ctx.lower = <<f>>
    BY <1>3
  <2>2. i = 1 /\ ctx.lower # <<>> /\ ctx.lower[1] = f /\ f.uns \in BOOLEAN
    BY <2>1 DEF Fragments
  <2>3. UnsolSent(ctx) /\ ctx.lower[1].events # {}
    BY <2>2 DEF UnsolSent
  <2> QED BY <1>1, <2>3 DEF NullFirst
<1>7. TimerHasAWaiter
  BY <1>1 DEF TimerHasAWaiter, Waiter
<1>8. NothingUnwrittenAtRest
  <2> SUFFICES ASSUME AtRest(ctx), NEW e \in ctx.buffer.soe, e.clazz \in ctx.mask,
                      e \notin ctx.buffer.written
               PROVE  FALSE
    BY DEF NothingUnwrittenAtRest
  <2> DEFINE b == ctx.buffer
             c == e.clazz
             S == OfClasses(b.soe, {c})
             T == OfClasses(b.written, {c})
  <2>1. GoodBuffer(b) /\ c \in EventClass /\ c \notin UnwrittenClassField(b)
    BY <1>1 DEF Settled, Typed, Contexts
  <2> HIDE DEF b
  <2>2. e \in S /\ T \subseteq S /\ IsFiniteSet(S)
    <3>1. b.written \subseteq b.soe /\ IsFiniteSet(b.soe)
      BY <2>1 DEF GoodBuffer, Exact
    <3>2. e \in b.soe
      BY DEF b
    <3> QED BY <3>1, <3>2, PartsFinite DEF OfClasses
  <2>3. e \notin T
    BY DEF b, OfClasses
  <2>4. b.totalCounts.clazz[c] = Cardinality(S) /\ b.writtenCounts.clazz[c] = Cardinality(T)
    BY <2>1 DEF GoodBuffer, Exact, Tallies
  <2> HIDE DEF c, S, T
  <2>5. /\ Cardinality(T) <= Cardinality(S) /\ Cardinality(T) # Cardinality(S)
        /\ Cardinality(T) \in Nat /\ Cardinality(S) \in Nat
    BY <2>2, <2>3, FS_Subset, FS_CardinalityType
  <2> QED BY <2>1, <2>4, <2>5 DEF UnwrittenClassField
<1> QED BY <1>2, <1>4, <1>5, <1>6, <1>7, <1>8

\* TypeOK: the context keeps its shape.
THEOREM TypeCorrect == Spec => []TypeOK
BY OutstationInvariant, IInvImplies, PTL

\* OneFragmentAtATime: BeginTransmit is never called while the lower layer has
\* a fragment, and isTransmitting is raised exactly while it has one.
THEOREM SlotIsRespected == Spec => []OneFragmentAtATime
BY OutstationInvariant, IInvImplies, PTL

\* RepeatGetsItsResponse: a repeated request is answered with the response to
\* the request it repeats, whatever was deferred, abandoned or sent in between.
THEOREM RepeatsAreAnswered == Spec => []RepeatGetsItsResponse
BY OutstationInvariant, IInvImplies, PTL

\* NullBeforeData: no event is reported unsolicited in a session before the
\* master confirmed a null response of that session.
THEOREM NullComesFirst == Spec => []NullBeforeData
BY OutstationInvariant, IInvImplies, PTL

\* TimerHasAWaiter: the confirm timer that the two channels share never runs
\* for a channel that waits for nothing.
THEOREM TimerIsWaitedFor == Spec => []TimerHasAWaiter
BY OutstationInvariant, IInvImplies, PTL

\* NothingUnwrittenAtRest: no entry point forgets to look for events, and the
\* counters it looks at hide none (CheckForUnsolicited, UnwrittenClassField), so
\* that at rest only events that a response carried are left.  Those of a
\* solicited response whose confirm did not come are among them.
THEOREM EventsAreReported == Spec => []NothingUnwrittenAtRest
BY OutstationInvariant, IInvImplies, PTL

----------------------------------------------------------------------------
(* A repeated request is carried out once, where nothing is reported       *)
(* unsolicited.  With unsolicited responses it is not: a READ that waits   *)
(* for their confirm is taken up after the request that came later, and    *)
(* takes its place in the history.                                         *)

\* What has been carried out for the attempt a so far, in this entry point and
\* before it, and that the history knows it.
Once(c, a) ==
    /\ a.times + Ran(c, a) <= 1
    /\ a.times + Ran(c, a) = 1 => c.history = a.request /\ c.solNum = a.request.seq

\* Nothing but a confirm and the request of the attempt is ever deferred.
Waits(c, a) == c.deferred \in {None, a.request} \cup Confirms

OnceInv ==
    /\ ctx.unsol = "Idle"
    /\ Once(ctx, attempt)
    /\ Waits(ctx, attempt)
    /\ ctx.deferred # None => ctx.isTransmitting = TRUE
    /\ attempt.request # None => ~IsNoAckFuncCode(attempt.request.function)

\* How the count moves.
LEMMA RanCounts ==
    ASSUME NEW c, Typed(c), NEW a, NEW d
    PROVE  /\ d.ran = c.ran => Ran(d, a) = Ran(c, a)
           /\ c.ran = <<>> => Ran(c, a) = 0
           /\ \A r : d.ran = Append(c.ran, r) =>
                Ran(d, a) = IF r = a.request THEN Ran(c, a) + 1 ELSE Ran(c, a)
<1> DEFINE S == {i \in DOMAIN c.ran : c.ran[i] = a.request}
<1>1. d.ran = c.ran => Ran(d, a) = Ran(c, a)
  BY DEF Ran
<1>2. c.ran = <<>> => Ran(c, a) = 0
  <2> SUFFICES ASSUME c.ran = <<>> PROVE Ran(c, a) = 0
    OBVIOUS
  <2>1. S = {}
    OBVIOUS
  <2> QED BY <2>1, FS_EmptySet DEF Ran
<1>3. ASSUME NEW r, d.ran = Append(c.ran, r)
      PROVE  Ran(d, a) = IF r = a.request THEN Ran(c, a) + 1 ELSE Ran(c, a)
  <2> DEFINE n == Len(c.ran)
             T == {i \in DOMAIN d.ran : d.ran[i] = a.request}
  <2>1. c.ran \in Seq(Requests) /\ n \in Nat /\ DOMAIN c.ran = 1 .. n
    BY DEF Typed, Contexts
  <2>2. /\ DOMAIN d.ran = 1 .. (n + 1)
        /\ d.ran[n + 1] = r
        /\ \A i \in 1 .. n : d.ran[i] = c.ran[i]
    BY <1>3, <2>1
  <2>3. IsFiniteSet(S) /\ n + 1 \notin S
    <3>1. S \subseteq 1 .. n /\ n + 1 \notin 1 .. n
      BY <2>1
    <3>2. IsFiniteSet(1 .. n)
      BY <2>1, FS_Interval
    <3> HIDE DEF S, n
    <3> QED BY <3>1, <3>2, FS_Subset
  <2>4. T = IF r = a.request THEN S \cup {n + 1} ELSE S
    BY <2>1, <2>2
  <2> HIDE DEF S, T
  <2>5. Cardinality(T) = IF r = a.request THEN Cardinality(S) + 1 ELSE Cardinality(S)
    BY <2>3, <2>4, FS_AddElement
  <2> QED BY <2>5 DEF Ran, S, T
<1> QED BY <1>1, <1>2, <1>3

\* An answer to the request of the attempt carries it out at most once in all.
LEMMA AnsweredOnce ==
    ASSUME NEW c, NEW d, NEW a \in AttemptType, Typed(c), Once(c, a),
           \/ d.ran = c.ran /\ d.history = c.history /\ d.solNum = c.solNum
           \/ a.request \in Requests /\ Answered(c, d, a.request)
    PROVE  Once(d, a)
<1> DEFINE r == a.request
<1>1. a.times \in Nat /\ Ran(c, a) \in Nat
  BY RanType DEF AttemptType
<1>2. CASE d.ran = c.ran /\ d.history = c.history /\ d.solNum = c.solNum
  BY <1>2, RanCounts DEF Once
<1>3. CASE /\ r \in Requests /\ ~IsRepeat(c, r) /\ d.solNum = r.seq
           /\ \/ d.history = c.history /\ d.ran = c.ran
              \/ d.history = r /\ (d.ran = c.ran \/ d.ran = Append(c.ran, r))
  <2>1. a.times + Ran(c, a) = 0
    BY <1>1, <1>3, RequestKinds DEF Once, IsRepeat
  <2>2. CASE d.ran = c.ran
    BY <2>1, <2>2, RanCounts DEF Once
  <2>3. CASE d.history = r /\ d.ran = Append(c.ran, r)
    <3>1. Ran(d, a) = Ran(c, a) + 1
      BY <2>3, RanCounts
    <3> QED BY <1>1, <1>3, <2>1, <2>3, <3>1 DEF Once
  <2> QED BY <1>3, <2>2, <2>3
<1> QED BY <1>2, <1>3 DEF Answered

\* The task start, and the end of the entry point.
LEMMA TaskStartOnce ==
    ASSUME ~AllowUnsolicited, NEW c, NEW g, Good(c, heard, g), c.unsol = "Idle",
           NEW a \in AttemptType, Once(c, a), Waits(c, a),
           c.deferred # None => c.isOnline = TRUE,
           a.request # None => ~IsNoAckFuncCode(a.request.function),
           Enter(CheckForTaskStart(c), a)
    PROVE  OnceInv'
<1> DEFINE e == CheckForDeferredRequest(c)
           d == CheckForUnsolicited(e)
<1>1. /\ Good(e, heard, g) /\ TakenUp(c, e)
      /\ CanTransmit(c) => e.deferred \notin Confirms
      /\ CanTransmit(c) /\ c.unsol = "Idle" => e.deferred = None
  BY CheckForDeferredRequestGood
<1>2. d = e
  <2> HIDE DEF e
  <2> QED BY DEF CheckForUnsolicited
<1>3. ctx' = [e EXCEPT !.ran = <<>>] /\ attempt' = [a EXCEPT !.times = a.times + Ran(e, a)]
  BY <1>2 DEF Enter, CheckForTaskStart
<1> HIDE DEF e
<1>4. Typed(c) /\ Typed(e)
  BY <1>1 DEF Good, Sound
<1>5. e.unsol = "Idle"
  BY <1>1 DEF TakenUp
<1>6. Once(e, a)
  <2>1. CASE e = c
    BY <2>1
  <2>2. CASE e # c
    <3>1. /\ CanTransmit(c)
          /\ \/ e.ran = c.ran /\ e.history = c.history /\ e.solNum = c.solNum
             \/ c.deferred \in Requests /\ Answered(c, e, c.deferred)
      BY <1>1, <2>2 DEF TakenUp
    <3>2. c.deferred \in Requests => c.deferred = a.request
      BY RequestKinds DEF Waits
    <3> QED BY <1>4, <3>1, <3>2, AnsweredOnce
  <2> QED BY <2>1, <2>2
<1>7. Waits(e, a) /\ (e.deferred # None => e.isTransmitting = TRUE)
  <2>1. CASE CanTransmit(c)
    BY <1>1, <2>1 DEF Waits
  <2>2. CASE ~CanTransmit(c)
    <3>1. e = c /\ c.isTransmitting \in BOOLEAN
      BY <1>1, <1>4, <2>2 DEF TakenUp, Typed, Contexts
    <3> QED BY <2>2, <3>1 DEF CanTransmit
  <2> QED BY <2>1, <2>2
<1>8. /\ ctx'.unsol = e.unsol /\ ctx'.deferred = e.deferred /\ ctx'.history = e.history
      /\ ctx'.solNum = e.solNum /\ ctx'.isTransmitting = e.isTransmitting /\ ctx'.ran = <<>>
  BY <1>3, <1>4 DEF Typed, Contexts
<1>9. /\ attempt'.request = a.request /\ attempt'.times = a.times + Ran(e, a)
      /\ attempt'.times \in Nat
  BY <1>3, <1>4, RanType DEF AttemptType
<1>10. Ran(ctx', attempt') = 0
  <2>1. {i \in DOMAIN ctx'.ran : ctx'.ran[i] = attempt'.request} = {}
    BY <1>8
  <2> QED BY <2>1, FS_EmptySet DEF Ran
<1>11. Once(ctx', attempt')
  BY <1>6, <1>8, <1>9, <1>10 DEF Once
<1>12. Waits(ctx', attempt')
  BY <1>7, <1>8, <1>9 DEF Waits
<1>13. /\ ctx'.deferred # None => ctx'.isTransmitting = TRUE
       /\ attempt'.request # None => ~IsNoAckFuncCode(attempt'.request.function)
  BY <1>7, <1>8, <1>9
<1> QED BY <1>5, <1>8, <1>11, <1>12, <1>13 DEF OnceInv

\* Something arrives.
LEMMA OnReceiveOnce ==
    ASSUME ~AllowUnsolicited, IInv, OnceInv, ctx.isOnline,
           NEW r \in Requests \cup Confirms, OnReceive(r),
           NEW g, greeted = TRUE => g = TRUE,
           r \in Confirms /\ EndsNull(ctx, r) => g = TRUE
    PROVE  OnceInv'
<1> DEFINE c == ProcessAPDU(ctx, r)
           a == IF r.function = "CONFIRM" \/ IsNoAckFuncCode(r.function) \/ r = attempt.request
                THEN attempt ELSE [request |-> r, times |-> 0]
<1>1. /\ Good(ctx, heard, greeted) /\ Typed(ctx) /\ attempt \in AttemptType /\ ctx.ran = <<>>
      /\ ctx.unsol = "Idle" /\ Once(ctx, attempt) /\ Waits(ctx, attempt)
      /\ ctx.deferred # None => ctx.isTransmitting = TRUE
      /\ attempt.request # None => ~IsNoAckFuncCode(attempt.request.function)
  BY DEF IInv, InOrder, OnceInv, Good, Sound
<1>2. ctx.isOnline = TRUE
  BY <1>1 DEF Typed, Contexts
<1>3. Good(ctx, heard, g)
  BY <1>1, GreetedLater
<1>4. Good(c, heard, g) /\ Arrived(ctx, c, r)
  BY <1>2, <1>3, ProcessAPDUGood
<1>5. Enter(CheckForTaskStart(c), a)
  BY DEF OnReceive
<1> HIDE DEF c
<1>6. c.isOnline = TRUE /\ c.unsol = "Idle"
  BY <1>1, <1>2, <1>4 DEF Arrived
<1>7. /\ r.function = "CONFIRM" <=> r \in Confirms
      /\ IsNoAckFuncCode(r.function) => r \in Requests
  BY RequestKinds
<1>8. /\ a \in AttemptType /\ Once(ctx, a)
      /\ a.request # None => ~IsNoAckFuncCode(a.request.function)
      /\ a = attempt \/ (r \in Requests /\ ~IsNoAckFuncCode(r.function) /\ a.request = r)
      /\ r \in Requests /\ ~IsNoAckFuncCode(r.function) => a.request = r
  <2>1. CASE r.function = "CONFIRM" \/ IsNoAckFuncCode(r.function) \/ r = attempt.request
    BY <1>1, <1>7, <2>1, RequestKinds
  <2>2. CASE ~(r.function = "CONFIRM" \/ IsNoAckFuncCode(r.function) \/ r = attempt.request)
    <3>1. a = [request |-> r, times |-> 0] /\ r \in Requests
      BY <1>7, <2>2
    <3> HIDE DEF a
    <3>2. a \in AttemptType /\ a.times = 0 /\ a.request = r
      BY <3>1 DEF AttemptType
    <3>3. Ran(ctx, a) = 0
      BY <1>1, RanCounts
    <3> QED BY <2>2, <3>1, <3>2, <3>3 DEF Once
  <2> QED BY <2>1, <2>2
<1> HIDE DEF a
<1>9. Once(c, a)
  <2>1. CASE IsNoAckFuncCode(r.function)
    <3>1. /\ c.ran = ctx.ran \/ c.ran = Append(ctx.ran, r)
          /\ c.history = ctx.history /\ c.solNum = ctx.solNum
      BY <1>4, <2>1 DEF Arrived
    <3>2. r # a.request
      BY <1>7, <1>8, <2>1, RequestKinds
    <3>3. Ran(c, a) = Ran(ctx, a)
      <4>1. Typed(ctx)
        BY <1>1
      <4>2. /\ c.ran = ctx.ran => Ran(c, a) = Ran(ctx, a)
            /\ \A x : c.ran = Append(ctx.ran, x) =>
                 Ran(c, a) = IF x = a.request THEN Ran(ctx, a) + 1 ELSE Ran(ctx, a)
        BY <4>1, RanCounts
      <4> QED BY <3>1, <3>2, <4>2
    <3> QED BY <1>8, <3>1, <3>3 DEF Once
  <2>2. CASE ~IsNoAckFuncCode(r.function)
    <3>1. \/ c.ran = ctx.ran /\ c.history = ctx.history /\ c.solNum = ctx.solNum
          \/ a.request \in Requests /\ Answered(ctx, c, a.request)
      BY <1>4, <1>8, <2>2 DEF Arrived, Received
    <3> QED BY <1>1, <1>8, <3>1, AnsweredOnce
  <2> QED BY <2>1, <2>2
<1>10. Waits(c, a)
  <2>1. CASE IsNoAckFuncCode(r.function)
    <3>1. c.deferred = ctx.deferred /\ a = attempt
      BY <1>4, <1>8, <2>1 DEF Arrived
    <3> QED BY <1>1, <3>1 DEF Waits
  <2>2. CASE ~IsNoAckFuncCode(r.function)
    <3>1. /\ c.deferred \in {ctx.deferred, r}
          /\ ctx.isTransmitting = TRUE => c.deferred = r
      BY <1>4, <2>2 DEF Arrived, Received
    <3>2. c.deferred \in {None, r}
      BY <1>1, <3>1
    <3>3. r \in Requests => a.request = r
      BY <1>8, <2>2
    <3> QED BY <3>2, <3>3 DEF Waits
  <2> QED BY <2>1, <2>2
<1> QED BY <1>4, <1>5, <1>6, <1>8, <1>9, <1>10, TaskStartOnce

\* An entry point that first changes none of what OnceInv is about.
LEMMA StartOnce ==
    ASSUME ~AllowUnsolicited, OnceInv, Typed(ctx), attempt \in AttemptType,
           NEW c, Good(c, heard, greeted),
           c.ran = ctx.ran, c.history = ctx.history, c.solNum = ctx.solNum,
           c.deferred = ctx.deferred, c.unsol = "Idle",
           ctx.isTransmitting = TRUE => c.isOnline = TRUE,
           Enter(CheckForTaskStart(c), attempt)
    PROVE  OnceInv'
<1>1. /\ Once(ctx, attempt) /\ Waits(ctx, attempt)
      /\ ctx.deferred # None => ctx.isTransmitting = TRUE
      /\ attempt.request # None => ~IsNoAckFuncCode(attempt.request.function)
  BY DEF OnceInv
<1>2. Once(c, attempt)
  BY <1>1, AnsweredOnce
<1>3. Waits(c, attempt) /\ (c.deferred # None => c.isOnline = TRUE)
  BY <1>1 DEF Waits
<1> QED BY <1>1, <1>2, <1>3, TaskStartOnce

\* A step that leaves all that OnceInv is about as it is.
LEMMA SameOnce ==
    ASSUME OnceInv, attempt' = attempt,
           ctx'.ran = ctx.ran, ctx'.history = ctx.history, ctx'.solNum = ctx.solNum,
           ctx'.deferred = ctx.deferred, ctx'.unsol = ctx.unsol,
           ctx'.isTransmitting = ctx.isTransmitting
    PROVE  OnceInv'
BY DEF OnceInv, Once, Waits, Ran

\* Without unsolicited responses, every step keeps what was carried out in order.
LEMMA OnceInductive ==
    ASSUME ~AllowUnsolicited
    PROVE  IInv /\ OnceInv /\ [Next]_vars => OnceInv'
<1> SUFFICES ASSUME IInv, OnceInv, [Next]_vars PROVE OnceInv'
  OBVIOUS
<1>1. /\ InOrder(ctx, heard, greeted) /\ Good(ctx, heard, greeted) /\ Typed(ctx)
      /\ Slot(ctx) /\ heard \in HeardType /\ attempt \in AttemptType /\ greeted \in BOOLEAN
      /\ Past(ctx.buffer, nextId) /\ nextId \in Nat \ {0}
      /\ ctx.unsol = "Idle" /\ acked \in SUBSET SOERecord
  BY DEF IInv, InOrder, OnceInv, Good, Sound
<1>2. ctx.isTransmitting = TRUE => ctx.isOnline = TRUE
  BY <1>1 DEF Slot
<1>3. CASE OnLowerLayerUp
  <2> DEFINE c == [ctx EXCEPT !.isOnline = TRUE]
  <2>1. Good(c, heard, greeted) /\ c.isOnline = TRUE
    BY <1>1, <1>3, UpGood DEF OnLowerLayerUp
  <2>2. Enter(CheckForTaskStart(c), attempt)
    BY <1>3 DEF OnLowerLayerUp
  <2>3. /\ c.ran = ctx.ran /\ c.history = ctx.history /\ c.solNum = ctx.solNum
        /\ c.deferred = ctx.deferred /\ c.unsol = "Idle"
    BY <1>1 DEF Typed, Contexts
  <2> HIDE DEF c
  <2> QED BY <1>1, <2>1, <2>2, <2>3, StartOnce
<1>4. CASE OnLowerLayerDown
  <2>1. /\ ctx'.unsol = "Idle" /\ ctx'.deferred = None /\ ctx'.ran = <<>>
        /\ attempt' = [request |-> None, times |-> 0]
    BY <1>1, <1>4 DEF OnLowerLayerDown, CancelTimer, Typed, Contexts, IInv, InOrder
  <2>2. Ran(ctx', attempt') = 0
    <3>1. {i \in DOMAIN ctx'.ran : ctx'.ran[i] = attempt'.request} = {}
      BY <2>1
    <3> QED BY <3>1, FS_EmptySet DEF Ran
  <2>3. Once(ctx', attempt') /\ Waits(ctx', attempt')
    BY <2>1, <2>2 DEF Once, Waits
  <2> QED BY <2>1, <2>3 DEF OnceInv
<1>5. CASE OnSendResult
  <2> DEFINE c == [ctx EXCEPT !.isTransmitting = FALSE, !.lower = <<>>]
  <2>1. /\ ctx.isOnline = TRUE /\ ctx.isTransmitting = TRUE
        /\ Good(c, heard, greeted) /\ c.isOnline = TRUE
    BY <1>1, <1>5, SentGood DEF OnSendResult
  <2>2. Enter(CheckForTaskStart(c), attempt)
    BY <1>5, <2>1 DEF OnSendResult
  <2>3. /\ c.ran = ctx.ran /\ c.history = ctx.history /\ c.solNum = ctx.solNum
        /\ c.deferred = ctx.deferred /\ c.unsol = "Idle"
    BY <1>1 DEF Typed, Contexts
  <2> HIDE DEF c
  <2> QED BY <1>1, <2>1, <2>2, <2>3, StartOnce
<1>6. CASE OnConfirmTimeout
  <2> DEFINE c == [ctx EXCEPT !.timer = "none"]
             d == IF ctx.timer = "sol" THEN OnSolConfirmTimeout(c) ELSE OnUnsolConfirmTimeout(c)
  <2>1. Good(d, heard, greeted) /\ Untouched(ctx, d) /\ d.unsol \in {"Idle", ctx.unsol}
    BY <1>1, <1>6, TimeoutGood DEF OnConfirmTimeout
  <2>2. Enter(CheckForTaskStart(d), attempt)
    BY <1>6 DEF OnConfirmTimeout
  <2> HIDE DEF d
  <2> QED BY <1>1, <1>2, <2>1, <2>2, StartOnce DEF Untouched
<1>7. ASSUME NEW r \in Requests, ReceiveRequest(r) PROVE OnceInv'
  <2>1. ctx.isOnline /\ OnReceive(r) /\ r \notin Confirms
    BY <1>7, RequestKinds DEF ReceiveRequest
  <2> QED BY <2>1, OnReceiveOnce
<1>8. ASSUME NEW r \in Confirms, ReceiveConfirm(r) PROVE OnceInv'
  <2>1. ctx.isOnline /\ OnReceive(r)
    BY <1>8 DEF ReceiveConfirm
  <2>2. (greeted = TRUE => greeted' = TRUE) /\ (EndsNull(ctx, r) => greeted' = TRUE)
    BY <1>1, <1>8, GreetedInTime
  <2> QED BY <2>1, <2>2, OnReceiveOnce
<1>9. ASSUME NEW changes \in SeqOf(EventType \X EventClass, MaxTransaction), Update(changes)
      PROVE  OnceInv'
  <2>0. PICK n \in Nat : \E es : Produced(es, n)
    BY <1>9, TransactionEffect
  <2>a. PICK es : Produced(es, n)
    BY <2>0
  <2>1. /\ Enter(CheckForTaskStart([ctx EXCEPT !.buffer = AfterAll(ctx.buffer, es)]), attempt)
        /\ GoodBuffer(AfterAll(ctx.buffer, es))
    BY <2>a DEF Produced
  <2> DEFINE b == AfterAll(ctx.buffer, es)
             c == [ctx EXCEPT !.buffer = b]
  <2>2. Typed(c)
    BY <1>1, <2>1, PlainFieldsTyped
  <2>3. /\ SameState(ctx, c) /\ c.history = ctx.history /\ c.ran = ctx.ran
    BY <1>1 DEF SameState, Typed, Contexts
  <2>4. Enter(CheckForTaskStart(c), attempt)
    BY <2>1
  <2> HIDE DEF c
  <2>5. Good(c, heard, greeted)
    BY <1>1, <2>2, <2>3, SameSound DEF Good
  <2> QED BY <1>1, <1>2, <2>3, <2>4, <2>5, StartOnce DEF SameState
<1>10. CASE SetRestartIIN \/ Tick \/ UNCHANGED vars
  <2>1. /\ attempt' = attempt
        /\ ctx'.ran = ctx.ran /\ ctx'.history = ctx.history /\ ctx'.solNum = ctx.solNum
        /\ ctx'.deferred = ctx.deferred /\ ctx'.unsol = ctx.unsol
        /\ ctx'.isTransmitting = ctx.isTransmitting
    BY <1>1, <1>10 DEF SetRestartIIN, Tick, vars, Typed, Contexts
  <2> QED BY <2>1, SameOnce
<1> QED BY <1>3, <1>4, <1>5, <1>6, <1>7, <1>8, <1>9, <1>10 DEF Next

\* The outstation that was just made has carried out nothing.
LEMMA InitOnce == Init => OnceInv
<1> SUFFICES ASSUME Init PROVE OnceInv
  OBVIOUS
<1>1. /\ ctx.unsol = "Idle" /\ ctx.deferred = None /\ ctx.ran = <<>>
      /\ attempt = [request |-> None, times |-> 0]
  BY DEF Init, InitialContext
<1>2. Ran(ctx, attempt) = 0
  <2>1. {i \in DOMAIN ctx.ran : ctx.ran[i] = attempt.request} = {}
    BY <1>1
  <2> QED BY <2>1, FS_EmptySet DEF Ran
<1>3. Once(ctx, attempt) /\ Waits(ctx, attempt)
  BY <1>1, <1>2 DEF Once, Waits
<1> QED BY <1>1, <1>3 DEF OnceInv

\* CarriedOutOnce, for an outstation that reports nothing unsolicited: a
\* request that is repeated until it is answered is carried out once, whatever
\* was deferred, abandoned, confirmed or timed out in between.
THEOREM RepeatsAreNotCarriedOut ==
    ASSUME ~AllowUnsolicited
    PROVE  Spec => []CarriedOutOnce
<1>1. IInv /\ OnceInv => CarriedOutOnce
  <2> SUFFICES ASSUME IInv, OnceInv PROVE attempt.times <= 1
    BY DEF CarriedOutOnce
  <2>1. Typed(ctx) /\ attempt \in AttemptType
    BY DEF IInv, InOrder, Good, Sound
  <2>2. attempt.times \in Nat /\ Ran(ctx, attempt) \in Nat /\ attempt.times + Ran(ctx, attempt) <= 1
    BY <2>1, RanType DEF AttemptType, OnceInv, Once
  <2> QED BY <2>2
<1> QED BY <1>1, InitOnce, OutstationInvariant, OnceInductive, PTL DEF Spec

----------------------------------------------------------------------------
(* What is confirmed, and how a response is numbered, where nothing is     *)
(* reported unsolicited.  With unsolicited responses neither holds: they   *)
(* write events while a solicited response waits for its confirm, which    *)
(* then clears events that its fragment did not carry.                     *)

\* What the request r may ask for, in units of fragment space.
Asked(r) == TotalEvents + r.objects.static

\* Every response ends before its sequence numbers come round.
FewFragments == \A r \in Requests : Asked(r) <= Capacity * (SeqModulus - 1)

\* What the response under way still has to report.
Unreported(c) == Cardinality(Writable(c.buffer)) + c.static

\* The sequence number of the k-th fragment after the first one.
Number(r, k) == IF r.seq + k < SeqModulus THEN r.seq + k ELSE r.seq + k - SeqModulus

FirstIsNumbered(f) == f.fir <=> f.seq = f.to.seq

\* The response is at its k-th fragment after the first and waits for the
\* confirm: there is more, and room for it, or that was all.
CountedAt(c, k) ==
    /\ c.firstFragment = FALSE
    /\ c.solTx.seq = Number(c.solTx.to, k)
    /\ \/ Unreported(c) + (k + 1) * Capacity <= Asked(c.solTx.to)
       \/ /\ c.static = 0 /\ Writable(c.buffer) = {}
          /\ k * Capacity + 1 <= Asked(c.solTx.to)

Counted(c) == c.sol = "ConfirmWait" => \E k \in Nat : CountedAt(c, k)

\* What is written while a confirm is awaited is in the fragment it is for.
Held(c) ==
    c.sol = "ConfirmWait" =>
        c.solConfirm = c.solTx.seq /\ c.buffer.written \subseteq c.solTx.events

Tracked(c) ==
    /\ Limited(c.buffer)
    /\ Held(c)
    /\ c.lower # <<>> => c.lower = <<c.solTx>>
    /\ FewFragments => Counted(c)
    /\ FewFragments => (c.solTx # None => FirstIsNumbered(c.solTx))

\* No wait begins but for a fragment that goes out.
Stays(c, d) ==
    /\ d.lower = <<>> => c.lower = <<>>
    /\ d.lower = <<>> /\ d.sol = "ConfirmWait" => c.sol = "ConfirmWait" /\ d.solTx = c.solTx

\* The confirm the response waits for.
IsExpected(c, r) == r \in Confirms /\ r.uns = FALSE /\ SolConfirmExpected(c, r)

\* Events leave only when r confirms them.
Discards(c, d, r) ==
    c.buffer.soe \ d.buffer.soe # {} =>
        IsExpected(c, r) /\ c.buffer.soe \ d.buffer.soe \subseteq c.buffer.written

Moved(c, d, r) == Tracked(d) /\ Stays(c, d) /\ Discards(c, d, r)

\* IncrSeq counts on and comes round.
LEMMA IncrSeqValue ==
    ASSUME NEW s \in Seqs
    PROVE  IncrSeq(s) = IF s + 1 = SeqModulus THEN 0 ELSE s + 1
<1>1. SeqModulus \in Nat \ {0, 1} /\ s \in 0 .. SeqModulus - 1
  BY OutstationAssumption DEF Seqs
<1>2. CASE s + 1 = SeqModulus
  BY <1>1, <1>2 DEF IncrSeq
<1>3. CASE s + 1 # SeqModulus
  <2>1. s + 1 \in Nat /\ s + 1 < SeqModulus
    BY <1>1, <1>3
  <2>2. (s + 1) % SeqModulus = s + 1
    BY <1>1, <2>1
  <2> QED BY <1>3, <2>2 DEF IncrSeq
<1> QED BY <1>2, <1>3

\* The number of the next fragment.
LEMMA NextNumber ==
    ASSUME NEW r \in Requests, NEW k \in Nat, k + 1 < SeqModulus
    PROVE  /\ Number(r, k) \in Seqs
           /\ IncrSeq(Number(r, k)) = Number(r, k + 1)
<1>1. SeqModulus \in Nat \ {0, 1} /\ r.seq \in 0 .. SeqModulus - 1
  BY OutstationAssumption DEF Seqs
<1>2. Number(r, k) \in Seqs
  BY <1>1 DEF Number, Seqs
<1>3. IncrSeq(Number(r, k)) =
        IF Number(r, k) + 1 = SeqModulus THEN 0 ELSE Number(r, k) + 1
  BY <1>2, IncrSeqValue
<1>4. (IF Number(r, k) + 1 = SeqModulus THEN 0 ELSE Number(r, k) + 1) = Number(r, k + 1)
  BY <1>1 DEF Number
<1> QED BY <1>2, <1>3, <1>4

\* Only the first fragment has the number of the request.
LEMMA OnlyFirst ==
    ASSUME NEW r \in Requests, NEW k \in Nat, k < SeqModulus
    PROVE  Number(r, k) = r.seq <=> k = 0
<1>1. SeqModulus \in Nat \ {0, 1} /\ r.seq \in 0 .. SeqModulus - 1
  BY OutstationAssumption DEF Seqs
<1> QED BY <1>1 DEF Number

\* Multiples of the capacity are ordered as what they are multiples of.
LEMMA FewerMultiples ==
    ASSUME NEW k \in Nat, NEW n \in Nat, k > n
    PROVE  k * Capacity >= n * Capacity + 1
<1>1. Capacity \in Nat \ {0}
  BY OutstationAssumption
<1>2. PICK m \in Nat : k = n + 1 + m
  <2>1. k - n - 1 \in Nat /\ k = n + 1 + (k - n - 1)
    OBVIOUS
  <2> QED BY <2>1
<1>3. (n + 1 + m) * Capacity = n * Capacity + Capacity + m * Capacity
  BY <1>1, <1>2
<1>4. m * Capacity \in Nat /\ n * Capacity \in Nat
  BY <1>1, <1>2
<1> QED BY <1>1, <1>2, <1>3, <1>4

\* A response that waits has a number left for one more fragment.
LEMMA OneMoreNumber ==
    ASSUME FewFragments, NEW r \in Requests, NEW k \in Nat, NEW u \in Nat,
           u + (k + 1) * Capacity <= Asked(r) \/ k * Capacity + 1 <= Asked(r)
    PROVE  k + 1 < SeqModulus
<1>1. /\ SeqModulus \in Nat \ {0, 1} /\ Capacity \in Nat \ {0}
      /\ Asked(r) <= Capacity * (SeqModulus - 1)
  BY OutstationAssumption DEF FewFragments
<1>2. Asked(r) \in Int
  <2>1. r.objects.static \in Nat
    BY OutstationAssumption
  <2>2. TotalEvents \in Nat
    BY EmptyGood, WithinTotal, EmptyLimited
  <2> QED BY <2>1, <2>2 DEF Asked
<1> DEFINE m == SeqModulus - 1
           a == k * Capacity
           b == (k + 1) * Capacity
           t == m * Capacity
<1>3. m \in Nat /\ a \in Nat /\ b \in Nat /\ t \in Nat /\ t = Capacity * (SeqModulus - 1)
  BY <1>1
<1>4. k + 1 > m => b >= t + 1
  BY <1>3, FewerMultiples
<1>5. k > m => a >= t + 1
  BY <1>3, FewerMultiples
<1>6. k = m => a = t
  OBVIOUS
<1> HIDE DEF a, b, t, m
<1>7. u + b <= Asked(r) => ~(k + 1 > m)
  BY <1>1, <1>2, <1>3, <1>4
<1>8. a + 1 <= Asked(r) => ~(k > m) /\ k # m
  BY <1>1, <1>2, <1>3, <1>5, <1>6
<1>9. u + b <= Asked(r) \/ a + 1 <= Asked(r)
  BY DEF a, b
<1> QED BY <1>1, <1>3, <1>7, <1>8, <1>9 DEF m

\* The fields that count here are the same, but for the state.
SameTrack(c, d) ==
    /\ d.solConfirm = c.solConfirm /\ d.solTx = c.solTx   /\ d.lower = c.lower
    /\ d.buffer = c.buffer         /\ d.static = c.static
    /\ d.firstFragment = c.firstFragment

\* At most the wait for a confirm ends.
LEMMA PassiveMoved ==
    ASSUME NEW c, NEW d, NEW r, Tracked(c), SameTrack(c, d), d.sol \in {c.sol, "Idle"}
    PROVE  Moved(c, d, r)
<1>1. Held(d) /\ (Counted(c) => Counted(d))
  BY DEF Tracked, Held, Counted, CountedAt, Unreported, SameTrack
<1>2. Tracked(d)
  BY <1>1 DEF Tracked, SameTrack
<1> QED BY <1>2 DEF Moved, Stays, Discards, SameTrack

\* What comes before and after a move may change what does not count.
LEMMA MovedBetween ==
    ASSUME NEW c, NEW n, NEW x, NEW d, NEW r, SameTrack(c, n), n.sol = c.sol, Moved(n, x, r),
           SameTrack(x, d), d.sol = x.sol
    PROVE  Moved(c, d, r)
<1>1. Tracked(x) /\ Stays(n, x) /\ Discards(n, x, r)
  BY DEF Moved
<1>2. Tracked(d)
  BY <1>1, PassiveMoved DEF Moved
<1>3. Stays(c, d)
  BY <1>1 DEF Stays, SameTrack
<1>4. Discards(c, d, r)
  BY <1>1 DEF Discards, IsExpected, SolConfirmExpected, SameTrack
<1> QED BY <1>2, <1>3, <1>4 DEF Moved

\* A response goes out.
LEMMA SentMoved ==
    ASSUME NEW c, NEW d, NEW r, Tracked(d), d.lower # <<>>, d.buffer.soe = c.buffer.soe
    PROVE  Moved(c, d, r)
BY DEF Moved, Stays, Discards

\* An empty response is numbered as its request, and waits for no confirm.
LEMMA PlainTracked ==
    ASSUME NEW c, Typed(c), c.lower = <<>>, Limited(c.buffer), NEW q \in Requests
    PROVE  LET f == SolFragment(q, q.seq, TRUE, TRUE, FALSE, {})
               d == [BeginResponseTx(GetResponseIIN(c), f) EXCEPT !.sol = "Idle"]
           IN  Tracked(d) /\ d.lower # <<>> /\ d.buffer.soe = c.buffer.soe
<1> DEFINE f == SolFragment(q, q.seq, TRUE, TRUE, FALSE, {})
           o == CheckOverflow(c.buffer)
           b == GetResponseIIN(c)
           e == BeginResponseTx(b, f)
           d == [e EXCEPT !.sol = "Idle"]
<1>1. GoodBuffer(o) /\ o.soe = c.buffer.soe
  BY CheckOverflowGood DEF Typed
<1>2. f \in Fragments /\ FirstIsNumbered(f)
  BY EmptyResponseType DEF SolFragment, FirstIsNumbered
<1> HIDE DEF f, o
<1>3. Typed(b) /\ b.lower = <<>> /\ b.buffer = o
  <2>1. b = [c EXCEPT !.buffer = o]
    BY DEF GetResponseIIN, o
  <2>2. Typed([c EXCEPT !.buffer = o])
    BY <1>1, PlainFieldsTyped
  <2> QED BY <2>1, <2>2 DEF Typed, Contexts
<1> HIDE DEF b
<1>4. Typed(e) /\ e = [b EXCEPT !.solTx = f, !.isTransmitting = TRUE, !.lower = <<f>>]
  BY <1>2, <1>3, BeginResponseTxEffect
<1>5. e.solTx = f /\ e.lower = <<f>> /\ e.buffer = o
  BY <1>3, <1>4 DEF Typed, Contexts
<1> HIDE DEF e
<1>6. d.sol = "Idle" /\ d.solTx = f /\ d.lower = <<f>> /\ d.buffer = o
  BY <1>4, <1>5 DEF Typed, Contexts
<1> HIDE DEF d
<1>7. Limited(o)
  <2>1. IsFiniteSet(c.buffer.soe) /\ o.soe \subseteq c.buffer.soe
    BY <1>1 DEF Typed, GoodBuffer
  <2> QED BY <2>1, FewerLimited
<1>8. Tracked(d)
  BY <1>2, <1>6, <1>7 DEF Tracked, Held, Counted
<1>9. d.lower # <<>>
  BY <1>6
<1> QED BY <1>1, <1>6, <1>8, <1>9 DEF d, e, b, f

\* The number of a fragment that is sent, and the room for the rest.
Goes(c, r, seq) ==
    \E k \in Nat :
        /\ seq = Number(r, k) /\ k < SeqModulus
        /\ c.firstFragment = TRUE <=> k = 0
        /\ \/ Unreported(c) + k * Capacity <= Asked(r)
           \/ c.static = 0 /\ Writable(c.buffer) = {}

\* What is left after a fragment, and that the count goes on.
LEMMA FragmentCounted ==
    ASSUME NEW c, Typed(c), Limited(c.buffer), NEW d, NEW f \in Fragments, NEW b, NEW left \in Nat,
           NEW con \in BOOLEAN, NEW r \in Requests, NEW seq, NEW k \in Nat,
           GoodBuffer(b), c.buffer.written \subseteq b.written,
           b.written = c.buffer.written \cup f.events,
           Fills(c, f, b, left, con), con = TRUE,
           seq = Number(r, k),
           \/ Unreported(c) + k * Capacity <= Asked(r)
           \/ c.static = 0 /\ Writable(c.buffer) = {},
           d.firstFragment = FALSE, d.solTx = f, d.static = left, d.buffer = b,
           f.seq = seq, f.to = r
    PROVE  CountedAt(d, k)
<1> DEFINE W == Writable(c.buffer)
<1>1. /\ IsFiniteSet(W) /\ Cardinality(W) \in Nat /\ c.static \in Nat
      /\ Capacity \in Nat \ {0}
  BY WritableInList, OutstationAssumption DEF Typed, Contexts
<1>2. f.events \in SUBSET W /\ Writable(b) = W \ f.events
  BY DEF Fills, Writable
<1>3. IsFiniteSet(f.events) /\ Cardinality(f.events) \in Nat
  BY <1>1, <1>2, FS_Subset, FS_CardinalityType
<1>4. Cardinality(Writable(b)) = Cardinality(W) - Cardinality(f.events)
  <2>1. Cardinality(W \ f.events) = Cardinality(W) - Cardinality(W \cap f.events)
    BY <1>1, <1>3, FS_Difference
  <2>2. W \cap f.events = f.events
    BY <1>2
  <2> QED BY <1>2, <2>1, <2>2
<1>5. Asked(r) \in Int
  BY EmptyGood, WithinTotal, EmptyLimited, OutstationAssumption DEF Asked
<1>6. f.fin \in BOOLEAN
  BY DEF Fragments
<1> DEFINE a == Cardinality(f.events)
           w == Cardinality(W)
           m == k * Capacity
<1>7. m \in Nat /\ (k + 1) * Capacity = m + Capacity
  BY <1>1
<1>8. Unreported(c) = w + c.static /\ Unreported(d) = w - a + left
  BY <1>4 DEF Unreported
<1>9. CASE f.fin = TRUE
  <2>1. left = 0 /\ Writable(b) = {} /\ f.events # {}
    BY <1>9 DEF Fills
  <2>2. W # {}
    BY <1>2, <2>1
  <2>3. a # 0 /\ a <= w
    BY <1>1, <1>2, <1>3, <2>1, FS_EmptySet, FS_Subset
  <2>4. Unreported(c) + m <= Asked(r)
    BY <2>2
  <2> HIDE DEF a, w, m
  <2>5. m + 1 <= Asked(r)
    BY <1>1, <1>3, <1>5, <1>7, <1>8, <2>3, <2>4 DEF a, w
  <2> QED BY <2>1, <2>5 DEF CountedAt, m
<1>10. CASE f.fin = FALSE
  <2>1. a + (c.static - left) >= Capacity
    BY <1>10 DEF Fills
  <2>2. ~(c.static = 0 /\ W = {})
    <3> SUFFICES ASSUME c.static = 0, W = {} PROVE FALSE
      OBVIOUS
    <3>1. f.events = {}
      BY <1>2
    <3>2. a = 0
      BY <3>1, FS_EmptySet
    <3> QED BY <1>1, <2>1, <3>2
  <2>3. Unreported(c) + m <= Asked(r)
    BY <2>2
  <2> HIDE DEF a, w, m
  <2>4. Unreported(d) + (m + Capacity) <= Asked(r)
    BY <1>1, <1>3, <1>5, <1>7, <1>8, <2>1, <2>3 DEF a, w
  <2>5. Unreported(d) + (k + 1) * Capacity <= Asked(r)
    BY <1>7, <2>4
  <2> QED BY <2>5 DEF CountedAt
<1> QED BY <1>6, <1>9, <1>10

\* A fragment of a response is numbered, and what it carries is what is written.
LEMMA SendTracked ==
    ASSUME NEW c, Typed(c), c.lower = <<>>, Limited(c.buffer), c.buffer.written = {},
           NEW r \in Requests, NEW seq \in Seqs, FewFragments => Goes(c, r, seq)
    PROVE  LET d == SendFragment(c, r, seq)
           IN  Tracked(d) /\ d.lower # <<>> /\ d.buffer.soe = c.buffer.soe
<1> DEFINE d == SendFragment(c, r, seq)
<1>1. Typed(d) /\ Loaded(c, d, r, seq)
  BY SendFragmentEffect
<1> HIDE DEF d
<1>2. PICK f \in Fragments, b \in BufferType, left \in Nat, con \in BOOLEAN :
        LoadedWith(c, d, r, seq, f, b, left, con)
  BY <1>1 DEF Loaded
<1>3. /\ f = SolFragment(r, seq, c.firstFragment, f.fin, con, f.events)
      /\ GoodBuffer(b) /\ b.soe = c.buffer.soe
      /\ b.written = c.buffer.written \cup f.events
      /\ Fills(c, f, b, left, con)
  BY <1>2 DEF LoadedWith
<1>4. f.seq = seq /\ f.to = r /\ f.fir = c.firstFragment
  BY <1>3 DEF SolFragment
<1>5. /\ d.buffer = b /\ d.static = left /\ d.firstFragment = FALSE /\ d.solConfirm = seq
      /\ d.solTx = f /\ d.lower = <<f>> /\ d.sol = IF con THEN "ConfirmWait" ELSE "Idle"
  BY <1>2 DEF LoadedWith, Typed, Contexts
<1>6. Limited(b)
  <2>1. IsFiniteSet(c.buffer.soe) /\ b.soe \subseteq c.buffer.soe
    BY <1>3 DEF Typed, GoodBuffer
  <2> QED BY <2>1, FewerLimited
<1>7. Held(d)
  BY <1>3, <1>4, <1>5 DEF Held
<1>8. ASSUME FewFragments PROVE Counted(d) /\ FirstIsNumbered(f)
  <2>1. PICK k \in Nat :
          /\ seq = Number(r, k) /\ k < SeqModulus
          /\ c.firstFragment = TRUE <=> k = 0
          /\ \/ Unreported(c) + k * Capacity <= Asked(r)
             \/ c.static = 0 /\ Writable(c.buffer) = {}
    BY <1>8 DEF Goes
  <2>2. FirstIsNumbered(f)
    <3>1. seq = r.seq <=> k = 0
      BY <2>1, OnlyFirst
    <3>2. f.fir \in BOOLEAN
      BY DEF Fragments
    <3> QED BY <1>4, <2>1, <3>1, <3>2 DEF FirstIsNumbered
  <2>3. CASE con = TRUE
    <3>1. c.buffer.written \subseteq b.written
      BY <1>3
    <3>2. CountedAt(d, k)
      BY <1>3, <1>4, <1>5, <2>1, <2>3, <3>1, FragmentCounted
    <3> QED BY <2>2, <3>2 DEF Counted
  <2>4. CASE con = FALSE
    BY <1>5, <2>2, <2>4 DEF Counted
  <2> QED BY <2>3, <2>4
<1>9. Tracked(d)
  BY <1>5, <1>6, <1>7, <1>8 DEF Tracked
<1>10. d.lower # <<>>
  BY <1>5
<1> QED BY <1>3, <1>5, <1>9, <1>10 DEF d

\* The answer to a READ begins a count, and what was written is forgotten.
LEMMA ReadMoved ==
    ASSUME NEW c, NEW h, NEW g, Good(c, h, g), CanTransmit(c), Tracked(c), NEW r \in Requests
    PROVE  Moved(c, RespondToReadRequest(c, r), r)
<1> DEFINE u == Unselect(c.buffer)
           v == SelectAllByClass(u, r.objects.classes)
           start == [c EXCEPT !.history = r, !.firstFragment = TRUE, !.buffer = u, !.static = 0]
           asked == [c EXCEPT !.history = r, !.firstFragment = TRUE, !.buffer = v,
                              !.static = r.objects.static]
           bad == [c EXCEPT !.history = r, !.firstFragment = TRUE, !.buffer = u, !.static = 0,
                            !.solConfirm = r.seq]
           f == SolFragment(r, r.seq, TRUE, TRUE, FALSE, {})
           x == SendFragment(asked, r, r.seq)
           y == [BeginResponseTx(GetResponseIIN(bad), f) EXCEPT !.sol = "Idle"]
           d == RespondToReadRequest(c, r)
<1>1. Typed(c) /\ c.lower = <<>>
  BY FreeSlot DEF Good, Sound
<1>2. /\ GoodBuffer(u) /\ u.soe = c.buffer.soe /\ u.written = {}
      /\ GoodBuffer(v) /\ v.soe = c.buffer.soe /\ v.written = {}
  BY <1>1, UnselectGood, SelectAllFields DEF Typed
<1>3. d = IF r.objects.valid THEN x ELSE y
  <2>1. start = [c EXCEPT !.history = r, !.firstFragment = TRUE,
                          !.buffer = Unselect(@), !.static = 0]
    BY DEF u
  <2>2. asked = [start EXCEPT !.buffer = SelectAllByClass(@, r.objects.classes),
                              !.static = r.objects.static]
    BY <1>1 DEF v, Typed, Contexts
  <2>3. bad = [start EXCEPT !.solConfirm = r.seq]
    BY <1>1 DEF Typed, Contexts
  <2> HIDE DEF start, asked, bad
  <2> QED BY <2>1, <2>2, <2>3 DEF RespondToReadRequest
<1> HIDE DEF u, v, d, x, y
<1>4. r.objects.static \in Nat /\ r.seq \in Seqs /\ u \in BufferType /\ v \in BufferType
  BY <1>2, OutstationAssumption DEF GoodBuffer
<1>5. Limited(u) /\ Limited(v)
  <2>1. Limited(c.buffer) /\ IsFiniteSet(c.buffer.soe)
    BY <1>1 DEF Tracked, Typed, GoodBuffer
  <2> QED BY <1>2, <2>1, FewerLimited
<1>6. /\ asked \in Contexts /\ asked.buffer = v /\ asked.lower = <<>>
      /\ asked.firstFragment = TRUE /\ asked.static = r.objects.static
  BY <1>1, <1>4 DEF Typed, Contexts
<1>7. bad \in Contexts /\ bad.buffer = u /\ bad.lower = <<>>
  BY <1>1, <1>4 DEF Typed, Contexts
<1> HIDE DEF asked, bad
<1>8. Typed(asked) /\ Typed(bad)
  BY <1>2, <1>6, <1>7 DEF Typed
<1>9. Goes(asked, r, r.seq)
  <2>1. r.seq = Number(r, 0) /\ 0 < SeqModulus
    BY <1>4, OutstationAssumption DEF Number, Seqs
  <2>2. Unreported(asked) + 0 * Capacity <= Asked(r)
    <3>1. Cardinality(Writable(v)) \in Nat /\ Cardinality(Writable(v)) <= TotalEvents
      BY <1>2, <1>5, WritableInList
    <3>2. TotalEvents \in Nat
      BY <1>2, <1>5, WithinTotal
    <3>3. 0 * Capacity = 0
      BY OutstationAssumption
    <3> QED BY <1>4, <1>6, <3>1, <3>2, <3>3 DEF Unreported, Asked
  <2>3. asked.firstFragment = TRUE <=> 0 = 0
    BY <1>6
  <2> QED BY <2>1, <2>2, <2>3 DEF Goes
<1>10. Tracked(x) /\ x.lower # <<>> /\ x.buffer.soe = v.soe
  BY <1>2, <1>4, <1>5, <1>6, <1>8, <1>9, SendTracked DEF x
<1>11. Tracked(y) /\ y.lower # <<>> /\ y.buffer.soe = u.soe
  BY <1>5, <1>7, <1>8, PlainTracked DEF y
<1>12. Moved(c, x, r) /\ Moved(c, y, r)
  BY <1>2, <1>10, <1>11, SentMoved
<1> QED BY <1>3, <1>12 DEF d

\* The answer to any other request.
LEMMA NonReadMoved ==
    ASSUME NEW c, NEW h, NEW g, Good(c, h, g), CanTransmit(c), Tracked(c), NEW r \in Requests
    PROVE  Moved(c, RespondToNonReadRequest(c, r), r)
<1> DEFINE noted == [c EXCEPT !.history = r]
           k == HandleNonReadResponse(noted, r)
           f == SolFragment(r, r.seq, TRUE, TRUE, FALSE, {})
           d == [BeginResponseTx(GetResponseIIN(k), f) EXCEPT !.sol = "Idle"]
<1>1. Typed(c) /\ c.lower = <<>>
  BY FreeSlot DEF Good, Sound
<1>2. Typed(noted) /\ noted.lower = <<>> /\ noted.buffer = c.buffer
  BY <1>1, PlainFieldsTyped DEF Typed, Contexts
<1> HIDE DEF noted
<1>3. Typed(k) /\ k.lower = <<>> /\ k.buffer = c.buffer
  BY <1>2, HandleNonReadResponseEffect DEF Handled, SameState
<1> HIDE DEF k
<1>4. Limited(k.buffer)
  BY <1>3 DEF Tracked
<1>5. Tracked(d) /\ d.lower # <<>> /\ d.buffer.soe = k.buffer.soe
  BY <1>3, <1>4, PlainTracked
<1>6. RespondToNonReadRequest(c, r) = d
  BY DEF RespondToNonReadRequest, k, noted
<1> HIDE DEF d
<1> QED BY <1>3, <1>5, <1>6, SentMoved

\* Something is put into the deferral slot, or taken out.
LEMMA DeferMoved ==
    ASSUME NEW c, NEW r, NEW q, Typed(c), Tracked(c)
    PROVE  /\ SameTrack(c, Defer(c, q)) /\ Defer(c, q).sol = c.sol
           /\ Moved(c, Defer(c, q), r)
<1>1. SameTrack(c, Defer(c, q)) /\ Defer(c, q).sol = c.sol
  BY DEF Defer, SameTrack, Typed, Contexts
<1> QED BY <1>1, PassiveMoved

\* A request that is not a repeat.
LEMMA ProcessNewRequestMoved ==
    ASSUME NEW c, NEW h, NEW g, Good(c, h, g), CanTransmit(c), Tracked(c), NEW r \in Requests
    PROVE  Moved(c, ProcessNewRequest(c, r), r)
<1> DEFINE n == [c EXCEPT !.solNum = r.seq]
           a == AbandonConfirm(n, r)
           d == ProcessNewRequest(c, r)
<1>1. Typed(c) /\ r.seq \in Seqs
  BY OutstationAssumption DEF Good, Sound
<1>2. Good(n, h, g) /\ CanTransmit(n)
  BY <1>1, NumberedGood
<1>3. SameTrack(c, n) /\ n.sol = c.sol
  BY <1>1 DEF SameTrack, Typed, Contexts
<1>4. d \in {a, Defer(n, r), RespondToReadRequest(n, r), RespondToNonReadRequest(n, r)}
  BY DEF ProcessNewRequest, OnNewReadRequest, OnNewNonReadRequest
<1> HIDE DEF n, d
<1>5. Tracked(n) /\ Typed(n)
  BY <1>2, <1>3, PassiveMoved DEF Moved, Good, Sound
<1>6. SameTrack(n, a) /\ a.sol = "Idle"
  BY <1>5 DEF AbandonConfirm, CancelTimer, Defer, SameTrack, Typed, Contexts
<1> HIDE DEF a
<1>7. Moved(n, a, r)
  BY <1>5, <1>6, PassiveMoved
<1>8. Moved(n, d, r)
  BY <1>2, <1>4, <1>5, <1>7, DeferMoved, ReadMoved, NonReadMoved
<1>9. SameTrack(d, d)
  BY DEF SameTrack
<1> QED BY <1>3, <1>8, <1>9, MovedBetween DEF d

\* A request, once the transmission slot is free.
LEMMA ProcessRequestMoved ==
    ASSUME NEW c, NEW h, NEW g, Good(c, h, g), CanTransmit(c), Tracked(c), NEW r \in Requests
    PROVE  Moved(c, ProcessRequest(c, r), r)
<1> DEFINE d == ProcessRequest(c, r)
           x == BeginResponseTx(c, c.solTx)
<1>1. Typed(c) /\ c.lower = <<>>
  BY FreeSlot DEF Good, Sound
<1>2. \/ d \in {c, ProcessNewRequest(c, r), Defer(c, r)}
      \/ d = x /\ c.history # None
  BY DEF ProcessRequest, OnReceiveSolRequest, OnRepeatNonReadRequest
<1> HIDE DEF d
<1>3. Moved(c, c, r)
  BY PassiveMoved DEF SameTrack
<1>4. ASSUME c.history # None PROVE Moved(c, x, r)
  <2> DEFINE f == c.solTx
  <2>1. f \in Fragments
    BY <1>1, <1>4 DEF Good, Kept, Typed, Contexts
  <2>2. x = [c EXCEPT !.solTx = f, !.isTransmitting = TRUE, !.lower = <<f>>]
    <3> HIDE DEF f
    <3>1. BeginResponseTx(c, f) = [c EXCEPT !.solTx = f, !.isTransmitting = TRUE, !.lower = <<f>>]
      BY <1>1, <2>1, BeginResponseTxEffect
    <3> QED BY <3>1 DEF f
  <2> HIDE DEF x
  <2>3. /\ x.sol = c.sol /\ x.solTx = f /\ x.lower = <<f>> /\ x.buffer = c.buffer
        /\ x.solConfirm = c.solConfirm /\ x.static = c.static
        /\ x.firstFragment = c.firstFragment
    BY <1>1, <2>2 DEF Typed, Contexts
  <2>4. Held(x) /\ (Counted(c) => Counted(x))
    BY <2>3 DEF Tracked, Held, Counted, CountedAt, Unreported
  <2>5. Tracked(x)
    BY <2>3, <2>4 DEF Tracked
  <2>6. x.lower # <<>>
    BY <2>3
  <2> QED BY <2>3, <2>5, <2>6, SentMoved
<1> HIDE DEF x
<1> QED BY <1>1, <1>2, <1>3, <1>4, ProcessNewRequestMoved, DeferMoved DEF d

\* The confirm a response waits for clears what its fragment carried, and the
\* response goes on with the next number.
LEMMA OnSolConfirmMoved ==
    ASSUME NEW c, NEW h, NEW g, Good(c, h, g), CanTransmit(c), Tracked(c),
           NEW r \in Confirms, r.uns = FALSE
    PROVE  Moved(c, OnSolConfirm(c, r), r)
<1> DEFINE b == ClearWritten(c.buffer)
           e == [c EXCEPT !.timer = "none", !.buffer = b]
           i == [e EXCEPT !.sol = "Idle"]
           q == c.solTx.to
           s == IncrSeq(r.seq)
           m == SendFragment(e, q, s)
           d == OnSolConfirm(c, r)
<1>1. Typed(c) /\ c.lower = <<>> /\ GoodBuffer(b) /\ b \in BufferType
  BY FreeSlot, ClearGood DEF Good, Sound, Typed, GoodBuffer
<1>2. b.soe = c.buffer.soe \ c.buffer.written /\ b.written = {} /\ Writable(b) = Writable(c.buffer)
  BY <1>1, ClearFields DEF Typed
<1>3. e = [CancelTimer(c) EXCEPT !.buffer = ClearWritten(@)] /\ e.solTx = c.solTx
  BY <1>1 DEF CancelTimer, Typed, Contexts
<1>4. d = c \/ (SolConfirmExpected(c, r) /\ d \in {i, m})
  <2>1. d = IF ~SolConfirmExpected(c, r) THEN c
            ELSE IF e.static > 0 \/ HasAnySelection(e.buffer)
                 THEN ContinueMultiFragResponse(e, s) ELSE i
    <3> HIDE DEF e
    <3> QED BY <1>3 DEF OnSolConfirm
  <2>2. ContinueMultiFragResponse(e, s) = m
    <3> HIDE DEF e
    <3> QED BY <1>3 DEF ContinueMultiFragResponse
  <2> HIDE DEF e, i, m, d
  <2> QED BY <2>1, <2>2
<1> HIDE DEF b, d
<1>5. /\ e \in Contexts /\ e.buffer = b /\ e.lower = <<>> /\ e.static = c.static
      /\ e.firstFragment = c.firstFragment /\ i.buffer = b /\ i.sol = "Idle"
      /\ i.lower = c.lower /\ i.solTx = c.solTx
  BY <1>1 DEF Typed, Contexts
<1> HIDE DEF e, i
<1>6. Limited(b)
  <2>1. IsFiniteSet(c.buffer.soe) /\ b.soe \subseteq c.buffer.soe
    BY <1>1, <1>2 DEF Typed, GoodBuffer
  <2> QED BY <2>1, FewerLimited DEF Tracked
<1>7. ASSUME SolConfirmExpected(c, r) PROVE Moved(c, i, r)
  <2>1. c.buffer.soe \ i.buffer.soe \subseteq c.buffer.written
    BY <1>2, <1>5
  <2>2. Tracked(i)
    BY <1>1, <1>5, <1>6 DEF Tracked, Held, Counted
  <2> QED BY <1>5, <1>7, <2>1, <2>2 DEF Moved, Stays, Discards, IsExpected
<1>8. ASSUME SolConfirmExpected(c, r) PROVE Moved(c, m, r)
  <2>1. /\ c.sol = "ConfirmWait" /\ c.solConfirm = r.seq /\ r.seq = c.solTx.seq
        /\ q \in Requests /\ r.seq \in Seqs
    BY <1>8, RequestKinds DEF SolConfirmExpected, Tracked, Held, Good, Kept
  <2>2. s \in Seqs
    BY <2>1, IncrSeqType
  <2>3. ASSUME FewFragments PROVE Goes(e, q, s)
    <3>1. PICK k \in Nat : CountedAt(c, k)
      BY <2>1, <2>3 DEF Tracked, Counted
    <3>2. /\ c.firstFragment = FALSE /\ r.seq = Number(q, k)
          /\ \/ Unreported(c) + (k + 1) * Capacity <= Asked(q)
             \/ /\ c.static = 0 /\ Writable(c.buffer) = {}
                /\ k * Capacity + 1 <= Asked(q)
      BY <2>1, <3>1 DEF CountedAt
    <3>3. Unreported(c) \in Nat
      BY <1>1, WritableInList DEF Tracked, Typed, Contexts, Unreported
    <3> HIDE DEF q
    <3>4. k + 1 < SeqModulus
      BY <2>1, <2>3, <3>2, <3>3, OneMoreNumber
    <3>5. s = Number(q, k + 1)
      BY <2>1, <3>2, <3>4, NextNumber
    <3>6. Unreported(e) = Unreported(c)
      BY <1>2, <1>5 DEF Unreported
    <3>7. e.firstFragment = TRUE <=> k + 1 = 0
      BY <1>5, <3>2
    <3>8. k + 1 \in Nat
      OBVIOUS
    <3> HIDE DEF s
    <3> QED BY <1>2, <1>5, <3>2, <3>4, <3>5, <3>6, <3>7, <3>8 DEF Goes
  <2>4. Typed(e)
    BY <1>1, <1>5 DEF Typed
  <2> HIDE DEF q, s
  <2>5. Tracked(m) /\ m.lower # <<>> /\ m.buffer.soe = e.buffer.soe
    BY <1>2, <1>5, <1>6, <2>1, <2>2, <2>3, <2>4, SendTracked
  <2> HIDE DEF m
  <2>6. c.buffer.soe \ m.buffer.soe \subseteq c.buffer.written
    BY <1>2, <1>5, <2>5
  <2> QED BY <1>8, <2>5, <2>6 DEF Moved, Stays, Discards, IsExpected
<1> HIDE DEF m
<1>9. Moved(c, c, r)
  BY PassiveMoved DEF SameTrack
<1> QED BY <1>4, <1>7, <1>8, <1>9 DEF d

\* A confirm, where no unsolicited response waits for one.
LEMMA ProcessConfirmMoved ==
    ASSUME NEW c, NEW h, NEW g, Good(c, h, g), CanTransmit(c), Tracked(c), c.unsol = "Idle",
           NEW r \in Confirms
    PROVE  Moved(c, ProcessConfirm(c, r), r)
<1>1. r.uns \in BOOLEAN
  BY RequestKinds
<1>2. CASE r.uns = TRUE
  <2>1. ProcessConfirm(c, r) = c
    BY <1>2 DEF ProcessConfirm, OnUnsolConfirm, UnsolConfirmExpected
  <2>2. SameTrack(c, c)
    BY DEF SameTrack
  <2> QED BY <2>1, <2>2, PassiveMoved
<1>3. CASE r.uns = FALSE
  <2>1. ProcessConfirm(c, r) = OnSolConfirm(c, r)
    BY <1>3 DEF ProcessConfirm
  <2> QED BY <1>3, <2>1, OnSolConfirmMoved
<1> QED BY <1>1, <1>2, <1>3

\* Whatever arrives.
LEMMA ProcessAPDUMoved ==
    ASSUME NEW c, NEW h, NEW g, Good(c, h, g), c.isOnline = TRUE, Tracked(c), c.unsol = "Idle",
           NEW r \in Requests \cup Confirms
    PROVE  Moved(c, ProcessAPDU(c, r), r)
<1> DEFINE n == ProcessRequestNoAck(c, r)
<1>1. Typed(c) /\ c.isTransmitting \in BOOLEAN
  BY DEF Good, Sound, Typed, Contexts
<1>2. CASE IsNoAckFuncCode(r.function)
  <2>1. SameTrack(c, n) /\ n.sol = c.sol
    <3>1. n \in {c, [c EXCEPT !.ran = Append(@, r)]}
      BY DEF ProcessRequestNoAck, HandleDirectOperate, CarryOut
    <3> HIDE DEF n
    <3> QED BY <1>1, <3>1 DEF SameTrack, Typed, Contexts
  <2>2. ProcessAPDU(c, r) = n
    BY <1>2 DEF ProcessAPDU
  <2> HIDE DEF n
  <2> QED BY <2>1, <2>2, PassiveMoved
<1>3. CASE ~IsNoAckFuncCode(r.function) /\ c.isTransmitting = TRUE
  <2>1. ProcessAPDU(c, r) = Defer(c, r)
    BY <1>3 DEF ProcessAPDU
  <2> QED BY <1>1, <2>1, DeferMoved
<1>4. CASE ~IsNoAckFuncCode(r.function) /\ c.isTransmitting = FALSE /\ r \in Confirms
  <2>1. ProcessAPDU(c, r) = ProcessConfirm(c, r) /\ CanTransmit(c)
    BY <1>4, RequestKinds DEF ProcessAPDU, CanTransmit
  <2> QED BY <1>4, <2>1, ProcessConfirmMoved
<1>5. CASE ~IsNoAckFuncCode(r.function) /\ c.isTransmitting = FALSE /\ r \in Requests
  <2>1. ProcessAPDU(c, r) = ProcessRequest(c, r) /\ CanTransmit(c)
    BY <1>5, RequestKinds DEF ProcessAPDU, CanTransmit
  <2> QED BY <1>5, <2>1, ProcessRequestMoved
<1> QED BY <1>1, <1>2, <1>3, <1>4, <1>5

\* What was deferred is taken up as what has just arrived.
LEMMA CheckForDeferredRequestMoved ==
    ASSUME NEW c, NEW h, NEW g, Good(c, h, g), Tracked(c), c.unsol = "Idle"
    PROVE  Moved(c, CheckForDeferredRequest(c), c.deferred)
<1> DEFINE r == c.deferred
           d == CheckForDeferredRequest(c)
           p == ProcessConfirm(c, r)
           q == ProcessRequest(c, r)
<1>1. r \in Requests \cup Confirms \cup {None}
  BY DEF Good, Sound, Typed, Contexts
<1>2. \/ d = c
      \/ CanTransmit(c) /\ r \in Confirms /\ d = Defer(p, None)
      \/ CanTransmit(c) /\ r \in Requests /\ d = Defer(q, None)
  <2>1. CASE ~CanTransmit(c) \/ r = None
    BY <2>1 DEF CheckForDeferredRequest
  <2>2. CASE CanTransmit(c) /\ r \in Confirms
    BY <2>2, RequestKinds DEF CheckForDeferredRequest
  <2>3. CASE CanTransmit(c) /\ r \in Requests
    BY <2>3, RequestKinds DEF CheckForDeferredRequest
  <2> HIDE DEF d, r, p, q
  <2> QED BY <1>1, <2>1, <2>2, <2>3
<1> HIDE DEF d, p, q, r
<1>3. SameTrack(c, c)
  BY DEF SameTrack
<1>4. ASSUME CanTransmit(c), r \in Confirms PROVE Moved(c, p, r) /\ Typed(p)
  <2>1. Moved(c, p, r)
    BY <1>4, ProcessConfirmMoved DEF p
  <2>2. EndsNull(c, r) => g = TRUE
    BY DEF EndsNull, UnsolConfirmExpected
  <2>3. Good(p, h, g)
    BY <1>4, <2>2, ProcessConfirmGood DEF p
  <2> QED BY <2>1, <2>3 DEF Good, Sound
<1>5. ASSUME CanTransmit(c), r \in Requests PROVE Moved(c, q, r) /\ Typed(q)
  <2>1. Moved(c, q, r)
    BY <1>5, ProcessRequestMoved DEF q
  <2>2. Good(q, h, g)
    BY <1>5, ProcessRequestGood DEF q
  <2> QED BY <2>1, <2>2 DEF Good, Sound
<1>6. ASSUME NEW x, Moved(c, x, r), Typed(x) PROVE Moved(c, Defer(x, None), r)
  <2>1. SameTrack(x, Defer(x, None)) /\ Defer(x, None).sol = x.sol
    BY <1>6, DeferMoved DEF Moved
  <2> QED BY <1>3, <1>6, <2>1, MovedBetween
<1> QED BY <1>2, <1>3, <1>4, <1>5, <1>6, PassiveMoved DEF d, r

----------------------------------------------------------------------------
(* Between entry points.                                                   *)

\* What the master heard last is what the response kept.
HeardLast(c, h) == c.sol = "ConfirmWait" \/ c.lower # <<>> => h.sol = c.solTx

\* A confirm that waits to be taken up is on record.
Backed(c, a) == IsExpected(c, c.deferred) => c.buffer.written \subseteq a

TrackInv ==
    /\ Tracked(ctx)
    /\ HeardLast(ctx, heard)
    /\ Backed(ctx, acked)

\* What an entry point changes before the context looks for something to do.
Starts(c, d) ==
    d.lower = <<>> /\ d.sol = "ConfirmWait" => c.sol = "ConfirmWait" /\ d.solTx = c.solTx

\* The end of an entry point.
LEMMA TrackedAtTheEnd ==
    ASSUME ~AllowUnsolicited, NEW c, NEW g, Good(c, heard, g), c.unsol = "Idle",
           c.deferred # None => c.isOnline = TRUE,
           Tracked(ctx), Tracked(c), Starts(ctx, c), HeardLast(ctx, heard), heard \in HeardType,
           NEW a, Enter(CheckForTaskStart(c), a),
           NEW k, Backed(c, k)
    PROVE  /\ Tracked(ctx') /\ HeardLast(ctx', heard') /\ Backed(ctx', k)
           /\ c.buffer.soe \ ctx'.buffer.soe \subseteq k
           /\ c.buffer.soe \ ctx'.buffer.soe # {} => IsExpected(c, c.deferred) /\ CanTransmit(c)
<1> DEFINE d == CheckForDeferredRequest(c)
           e == [d EXCEPT !.ran = <<>>]
<1>1. /\ Good(d, heard, g)
      /\ CanTransmit(c) /\ c.unsol = "Idle" => d.deferred = None
      /\ TakenUp(c, d)
  BY CheckForDeferredRequestGood
<1>2. Moved(c, d, c.deferred)
  BY CheckForDeferredRequestMoved
<1>3. CheckForTaskStart(c) = d
  <2> HIDE DEF d
  <2> QED BY DEF CheckForTaskStart, CheckForUnsolicited, d
<1> HIDE DEF d
<1>4. ctx' = e /\ heard' = Hear(d)
  BY <1>3 DEF Enter
<1>5. Typed(d) /\ Slot(d) /\ Kept(d)
  BY <1>1 DEF Good, Sound
<1>6. SameTrack(d, e) /\ e.sol = d.sol /\ e.deferred = d.deferred
  BY <1>5 DEF SameTrack, Typed, Contexts
<1> HIDE DEF e
<1>7. Tracked(d) /\ Stays(c, d) /\ Discards(c, d, c.deferred)
  BY <1>2 DEF Moved
<1>8. Tracked(e)
  BY <1>6, <1>7, PassiveMoved DEF Moved
<1>9. HeardLast(d, Hear(d))
  <2>1. CASE d.lower = <<>>
    <3>1. Hear(d) = heard
      BY <2>1 DEF Hear
    <3>2. d.sol = "ConfirmWait" => ctx.sol = "ConfirmWait" /\ d.solTx = ctx.solTx
      BY <1>7, <2>1 DEF Stays, Starts
    <3> QED BY <2>1, <3>1, <3>2 DEF HeardLast
  <2>2. CASE d.lower # <<>> /\ d.lower = ctx.lower
    <3>1. Hear(d) = heard
      BY <2>2 DEF Hear
    <3>2. ctx.lower = <<ctx.solTx>> /\ d.lower = <<d.solTx>>
      BY <1>7, <2>2 DEF Tracked
    <3>3. ctx.lower[1] = ctx.solTx /\ d.lower[1] = d.solTx
      BY <3>2
    <3>4. heard.sol = ctx.solTx
      BY <2>2 DEF HeardLast
    <3> QED BY <2>2, <3>1, <3>3, <3>4 DEF HeardLast
  <2>3. CASE d.lower # <<>> /\ d.lower # ctx.lower
    <3>1. PICK f \in Fragments : d.lower = <<f>>
      BY <1>5, <2>3 DEF Slot
    <3>2. d.solTx = f /\ Last(d.lower) = f
      BY <1>7, <2>3, <3>1 DEF Tracked, Last
    <3>3. f.uns = FALSE
      BY <1>5, <3>2, OutstationAssumption DEF Kept
    <3>4. Hear(d) = [heard EXCEPT !.sol = f]
      BY <2>3, <3>2, <3>3 DEF Hear
    <3> QED BY <3>2, <3>4 DEF HeardLast, HeardType
  <2> QED BY <2>1, <2>2, <2>3
<1>10. /\ c.buffer.soe \ d.buffer.soe \subseteq k
       /\ c.buffer.soe \ d.buffer.soe # {} => IsExpected(c, c.deferred) /\ CanTransmit(c)
  <2>1. ~CanTransmit(c) => d = c
    BY <1>1 DEF TakenUp
  <2> QED BY <1>7, <2>1 DEF Discards, Backed
<1>11. Backed(d, k)
  <2>1. CASE CanTransmit(c)
    BY <1>1, <2>1, RequestKinds DEF Backed, IsExpected
  <2>2. CASE ~CanTransmit(c)
    BY <1>1, <2>2 DEF TakenUp
  <2> QED BY <2>1, <2>2
<1>12. Backed(e, k) /\ HeardLast(e, Hear(d)) /\ e.buffer.soe = d.buffer.soe
  BY <1>6, <1>9, <1>11 DEF SameTrack, Backed, HeardLast, IsExpected, SolConfirmExpected
<1> QED BY <1>4, <1>8, <1>10, <1>12

\* The events that left are confirmed, or made room for new ones.
Accounted ==
    \A e \in ctx.buffer.soe \ ctx'.buffer.soe :
        e \in acked' \/ (nextId' # nextId /\ ctx'.buffer.overflow)

\* The outstation that was just made.
LEMMA InitTracked == Init => TrackInv
<1> SUFFICES ASSUME Init PROVE TrackInv
  OBVIOUS
<1>1. /\ ctx.sol = "Idle" /\ ctx.lower = <<>> /\ ctx.solTx = None /\ ctx.deferred = None
      /\ ctx.buffer = EmptyBuffer
  BY DEF Init, InitialContext
<1>2. Tracked(ctx)
  BY <1>1, EmptyLimited DEF Tracked, Held, Counted
<1>3. Backed(ctx, acked)
  BY <1>1, RequestKinds DEF Backed, IsExpected
<1> QED BY <1>1, <1>2, <1>3 DEF TrackInv, HeardLast

\* An entry point that changes nothing that counts before it looks for
\* something to do, but that a fragment is done with or a wait ends.
LEMMA StartTracked ==
    ASSUME ~AllowUnsolicited, IInv, OnceInv, TrackInv,
           NEW c, Good(c, heard, greeted),
           c.solConfirm = ctx.solConfirm, c.solTx = ctx.solTx, c.static = ctx.static,
           c.buffer = ctx.buffer, c.firstFragment = ctx.firstFragment,
           c.lower = ctx.lower \/ c.lower = <<>>, c.sol = ctx.sol \/ c.sol = "Idle",
           c.deferred = ctx.deferred, c.unsol = "Idle",
           ctx.isTransmitting = TRUE => c.isOnline = TRUE,
           Enter(CheckForTaskStart(c), attempt), acked' = acked
    PROVE  TrackInv' /\ Accounted
<1>1. Tracked(ctx) /\ HeardLast(ctx, heard) /\ Backed(ctx, acked) /\ heard \in HeardType
  BY DEF TrackInv, IInv
<1>2. c.deferred # None => c.isOnline = TRUE
  BY DEF OnceInv
<1>3. Held(c) /\ (Counted(ctx) => Counted(c))
  BY <1>1 DEF Tracked, Held, Counted, CountedAt, Unreported
<1>4. Tracked(c)
  BY <1>1, <1>3 DEF Tracked
<1>5. Starts(ctx, c) /\ Backed(c, acked)
  BY <1>1 DEF Starts, Backed, IsExpected, SolConfirmExpected
<1>6. /\ Tracked(ctx') /\ HeardLast(ctx', heard') /\ Backed(ctx', acked)
      /\ c.buffer.soe \ ctx'.buffer.soe \subseteq acked
  BY <1>1, <1>2, <1>4, <1>5, TrackedAtTheEnd
<1> QED BY <1>6 DEF TrackInv, Accounted

\* Something arrives; k is what the master has confirmed by then.
LEMMA OnReceiveTracked ==
    ASSUME ~AllowUnsolicited, IInv, OnceInv, TrackInv, ctx.isOnline,
           NEW r \in Requests \cup Confirms, OnReceive(r),
           NEW g, greeted = TRUE => g = TRUE,
           r \in Confirms /\ EndsNull(ctx, r) => g = TRUE,
           NEW k, acked \subseteq k, IsExpected(ctx, r) => ctx.buffer.written \subseteq k
    PROVE  /\ Tracked(ctx') /\ HeardLast(ctx', heard') /\ Backed(ctx', k)
           /\ ctx.buffer.soe \ ctx'.buffer.soe \subseteq k
<1> DEFINE c == ProcessAPDU(ctx, r)
           a == IF r.function = "CONFIRM" \/ IsNoAckFuncCode(r.function) \/ r = attempt.request
                THEN attempt ELSE [request |-> r, times |-> 0]
<1>1. /\ Good(ctx, heard, greeted) /\ Typed(ctx) /\ heard \in HeardType /\ ctx.unsol = "Idle"
      /\ ctx.deferred # None => ctx.isTransmitting = TRUE
      /\ Tracked(ctx) /\ HeardLast(ctx, heard) /\ Backed(ctx, acked)
  BY DEF IInv, InOrder, OnceInv, TrackInv, Good, Sound
<1>2. ctx.isOnline = TRUE /\ ctx.isTransmitting \in BOOLEAN
  BY <1>1 DEF Typed, Contexts
<1>3. Good(ctx, heard, g)
  BY <1>1, GreetedLater
<1>4. Good(c, heard, g) /\ Arrived(ctx, c, r)
  BY <1>2, <1>3, ProcessAPDUGood
<1>5. Moved(ctx, c, r)
  BY <1>1, <1>2, ProcessAPDUMoved
<1>6. Enter(CheckForTaskStart(c), a)
  BY DEF OnReceive
<1>7. c.isOnline = TRUE /\ c.unsol = "Idle"
  BY <1>1, <1>2, <1>4 DEF Arrived
<1>8. Backed(c, k)
  <2>1. CASE IsNoAckFuncCode(r.function)
    <3>1. c \in {ctx, [ctx EXCEPT !.ran = Append(@, r)]}
      BY <2>1 DEF ProcessAPDU, ProcessRequestNoAck, HandleDirectOperate, CarryOut
    <3> HIDE DEF c
    <3>2. /\ c.sol = ctx.sol /\ c.solConfirm = ctx.solConfirm /\ c.deferred = ctx.deferred
          /\ c.buffer = ctx.buffer
      BY <1>1, <3>1 DEF Typed, Contexts
    <3> QED BY <1>1, <3>2 DEF Backed, IsExpected, SolConfirmExpected
  <2>2. CASE ~IsNoAckFuncCode(r.function) /\ ctx.isTransmitting = TRUE
    <3>1. c = Defer(ctx, r)
      BY <2>2 DEF ProcessAPDU
    <3> HIDE DEF c
    <3>2. /\ c.sol = ctx.sol /\ c.solConfirm = ctx.solConfirm /\ c.deferred = r
          /\ c.buffer = ctx.buffer
      BY <1>1, <3>1 DEF Defer, Typed, Contexts
    <3> QED BY <3>2 DEF Backed, IsExpected, SolConfirmExpected
  <2>3. CASE ~IsNoAckFuncCode(r.function) /\ ctx.isTransmitting = FALSE
    <3>1. ctx.deferred = None
      BY <1>1, <2>3
    <3>2. c.deferred \notin Confirms
      <4>1. CASE r \in Confirms
        <5>1. c = ProcessConfirm(ctx, r) /\ CanTransmit(ctx)
          BY <1>2, <2>3, <4>1, RequestKinds DEF ProcessAPDU, CanTransmit
        <5>2. EndsNull(ctx, r) => g = TRUE
          BY <4>1
        <5>3. Keeps(ctx, c)
          BY <1>3, <4>1, <5>1, <5>2, ProcessConfirmGood
        <5> QED BY <3>1, <5>3, RequestKinds DEF Keeps
      <4>2. CASE r \in Requests
        <5> HIDE DEF c
        <5> QED BY <1>4, <2>3, <3>1, <4>2, RequestKinds DEF Arrived, Received
      <4> QED BY <4>1, <4>2
    <3> QED BY <3>2 DEF Backed, IsExpected
  <2> QED BY <1>2, <2>1, <2>2, <2>3
<1> HIDE DEF c, a
<1>9. Tracked(c) /\ Starts(ctx, c) /\ Discards(ctx, c, r)
  BY <1>5 DEF Moved, Stays, Starts
<1>10. /\ Tracked(ctx') /\ HeardLast(ctx', heard') /\ Backed(ctx', k)
       /\ c.buffer.soe \ ctx'.buffer.soe \subseteq k
  BY <1>1, <1>4, <1>6, <1>7, <1>8, <1>9, TrackedAtTheEnd
<1>11. ctx.buffer.soe \ c.buffer.soe \subseteq k
  BY <1>9 DEF Discards
<1> QED BY <1>10, <1>11

\* The confirm the response waits for is the one of the fragment heard last.
LEMMA ConfirmOnRecord ==
    ASSUME IInv, TrackInv, NEW r \in Confirms, ReceiveConfirm(r)
    PROVE  /\ acked \subseteq acked'
           /\ IsExpected(ctx, r) => ctx.buffer.written \subseteq acked'
<1> DEFINE f == IF r.uns THEN heard.unsol ELSE heard.sol
<1>1. \/ f # None /\ f.seq = r.seq /\ acked' = acked \cup f.events
      \/ ~(f # None /\ f.seq = r.seq) /\ acked' = acked
  BY DEF ReceiveConfirm
<1>2. ASSUME IsExpected(ctx, r)
      PROVE  f # None /\ f.seq = r.seq /\ ctx.buffer.written \subseteq f.events
  <2>1. r.uns = FALSE /\ ctx.sol = "ConfirmWait" /\ ctx.solConfirm = r.seq
    BY <1>2 DEF IsExpected, SolConfirmExpected
  <2>2. f = ctx.solTx
    BY <2>1 DEF TrackInv, HeardLast
  <2>3. ctx.solTx # None
    BY <2>1 DEF IInv, InOrder, Good, Kept
  <2> HIDE DEF f
  <2> QED BY <2>1, <2>2, <2>3 DEF TrackInv, Tracked, Held
<1> HIDE DEF f
<1> QED BY <1>1, <1>2

\* A transaction takes nothing out of the fragment that waits, and adds
\* nothing to what the response still has to report.
LEMMA TransactionTracked ==
    ASSUME ~AllowUnsolicited, IInv, OnceInv, TrackInv,
           NEW changes \in SeqOf(EventType \X EventClass, MaxTransaction), Update(changes)
    PROVE  TrackInv' /\ Accounted
<1>1. /\ Good(ctx, heard, greeted) /\ Typed(ctx) /\ heard \in HeardType /\ ctx.unsol = "Idle"
      /\ ctx.deferred # None => ctx.isTransmitting = TRUE
      /\ Slot(ctx) /\ nextId \in Nat
      /\ Tracked(ctx) /\ HeardLast(ctx, heard) /\ Backed(ctx, acked)
  BY DEF IInv, InOrder, OnceInv, TrackInv, Good, Sound
<1>2. PICK n \in Nat : \E es : Produced(es, n)
  BY TransactionEffect
<1>3. PICK es : Produced(es, n)
  BY <1>2
<1> DEFINE b == AfterAll(ctx.buffer, es)
           c == [ctx EXCEPT !.buffer = b]
<1>4. /\ nextId' = nextId + n /\ acked' = acked
      /\ Enter(CheckForTaskStart(c), attempt)
      /\ GoodBuffer(b) /\ Grown(ctx.buffer, b) /\ (n = 0 => b = ctx.buffer)
  BY <1>3 DEF Produced
<1> HIDE DEF b
<1>5. Typed(c) /\ SameState(ctx, c) /\ c.history = ctx.history /\ c.buffer = b
      /\ c.solConfirm = ctx.solConfirm /\ c.static = ctx.static
      /\ c.firstFragment = ctx.firstFragment
  <2>1. Typed(c)
    BY <1>1, <1>4, PlainFieldsTyped
  <2> QED BY <1>1, <2>1 DEF SameState, Typed, Contexts
<1> HIDE DEF c
<1>6. Good(c, heard, greeted)
  BY <1>1, <1>5, SameSound DEF Good
<1>7. /\ Limited(b) /\ b.written \subseteq ctx.buffer.written
      /\ Writable(b) \subseteq Writable(ctx.buffer)
      /\ ctx.buffer.soe \ b.soe # {} => b.overflow
  BY <1>1, <1>4 DEF Tracked, Grown
<1>8. /\ Cardinality(Writable(b)) <= Cardinality(Writable(ctx.buffer))
      /\ Cardinality(Writable(b)) \in Nat /\ Cardinality(Writable(ctx.buffer)) \in Nat
  <2>1. IsFiniteSet(Writable(ctx.buffer)) /\ Cardinality(Writable(ctx.buffer)) \in Nat
    BY <1>1, WritableInList DEF Tracked, Typed
  <2>2. Cardinality(Writable(b)) \in Nat
    BY <1>4, <1>7, WritableInList
  <2> QED BY <1>7, <2>1, <2>2, FS_Subset
<1>9. ASSUME NEW k \in Nat, CountedAt(ctx, k), ctx.sol = "ConfirmWait" PROVE CountedAt(c, k)
  <2>1. Asked(ctx.solTx.to) \in Int /\ (k + 1) * Capacity \in Int
    <3>1. ctx.solTx.to \in Requests
      BY <1>1, <1>9 DEF Good, Kept
    <3>2. TotalEvents \in Nat
      BY EmptyGood, EmptyLimited, WithinTotal
    <3> QED BY <3>1, <3>2, OutstationAssumption DEF Asked
  <2>2. ctx.static \in Nat
    BY <1>1 DEF Typed, Contexts
  <2> DEFINE p == (k + 1) * Capacity
             w == Cardinality(Writable(b))
             v == Cardinality(Writable(ctx.buffer))
  <2>3. Unreported(c) = w + ctx.static /\ Unreported(ctx) = v + ctx.static
    BY <1>5 DEF Unreported
  <2> HIDE DEF p, w, v
  <2>4. Unreported(ctx) + p <= Asked(ctx.solTx.to) => Unreported(c) + p <= Asked(ctx.solTx.to)
    BY <1>8, <2>1, <2>2, <2>3 DEF p, w, v
  <2>5. c.solTx = ctx.solTx
    BY <1>5 DEF SameState
  <2>6. Writable(ctx.buffer) = {} => Writable(c.buffer) = {}
    BY <1>5, <1>7
  <2> QED BY <1>5, <1>9, <2>4, <2>5, <2>6 DEF CountedAt, p
<1>10. Tracked(c)
  <2>1. Held(c)
    BY <1>1, <1>5, <1>7 DEF Tracked, Held, SameState
  <2>2. Counted(ctx) => Counted(c)
    BY <1>5, <1>9 DEF Counted, SameState
  <2> QED BY <1>1, <1>5, <1>7, <2>1, <2>2 DEF Tracked, SameState
<1>11. Starts(ctx, c) /\ Backed(c, acked)
  BY <1>1, <1>5, <1>7 DEF Starts, SameState, Backed, IsExpected, SolConfirmExpected
<1>12. c.unsol = "Idle" /\ (c.deferred # None => c.isOnline = TRUE)
  BY <1>1, <1>5 DEF SameState, Slot
<1>13. /\ Tracked(ctx') /\ HeardLast(ctx', heard') /\ Backed(ctx', acked)
       /\ c.buffer.soe \ ctx'.buffer.soe # {} => CanTransmit(c)
  BY <1>1, <1>4, <1>6, <1>10, <1>11, <1>12, TrackedAtTheEnd
<1>14. ctx'.buffer = b
  <2>1. CheckForDeferredRequest(c) = c
    BY <1>1, <1>5 DEF CheckForDeferredRequest, CanTransmit, SameState
  <2>2. CheckForTaskStart(c) = c
    BY <2>1 DEF CheckForTaskStart, CheckForUnsolicited
  <2> QED BY <1>4, <1>5, <2>2 DEF Enter, Typed, Contexts
<1>15. Accounted
  <2> SUFFICES ASSUME NEW e \in ctx.buffer.soe \ ctx'.buffer.soe
               PROVE  nextId' # nextId /\ ctx'.buffer.overflow
    BY DEF Accounted
  <2>1. b.overflow /\ b # ctx.buffer
    BY <1>7, <1>14
  <2>2. n # 0
    BY <1>4, <2>1
  <2>3. nextId' # nextId
    BY <1>1, <1>4, <2>2
  <2> QED BY <1>14, <2>1, <2>3
<1> QED BY <1>4, <1>13, <1>15 DEF TrackInv

\* OnLowerLayerDown ends the response and its wait, and unselects the events.
LEMMA DownTracked ==
    ASSUME IInv, TrackInv, OnLowerLayerDown
    PROVE  TrackInv' /\ Accounted
<1> DEFINE b == Unselect(ctx.buffer)
<1>1. Typed(ctx) /\ Tracked(ctx)
  BY DEF IInv, InOrder, Good, Sound, TrackInv
<1>2. b.soe = ctx.buffer.soe /\ Limited(b)
  <2>1. b.soe = ctx.buffer.soe /\ IsFiniteSet(ctx.buffer.soe)
    BY <1>1, UnselectGood DEF Typed, GoodBuffer
  <2> HIDE DEF b
  <2> QED BY <1>1, <2>1, FewerLimited DEF Tracked
<1>3. /\ ctx'.sol = "Idle" /\ ctx'.lower = <<>> /\ ctx'.deferred = None /\ ctx'.buffer = b
      /\ ctx'.solTx = ctx.solTx
  BY <1>1 DEF OnLowerLayerDown, CancelTimer, Typed, Contexts
<1> HIDE DEF b
<1>4. Tracked(ctx')
  BY <1>1, <1>2, <1>3 DEF Tracked, Held, Counted
<1>5. HeardLast(ctx', heard') /\ Backed(ctx', acked')
  BY <1>3, RequestKinds DEF HeardLast, Backed, IsExpected
<1>6. Accounted
  BY <1>2, <1>3 DEF Accounted
<1> QED BY <1>4, <1>5, <1>6 DEF TrackInv

\* A step of the application or of time that touches neither the response
\* nor the buffer, or no step at all.
LEMMA PlainStepTracked ==
    ASSUME IInv, TrackInv, SetRestartIIN \/ Tick \/ UNCHANGED vars
    PROVE  TrackInv' /\ Accounted
<1>1. Typed(ctx)
  BY DEF IInv, InOrder, Good, Sound
<1>2. /\ SameTrack(ctx, ctx') /\ ctx'.sol = ctx.sol /\ ctx'.deferred = ctx.deferred
      /\ heard' = heard /\ acked' = acked
  BY <1>1 DEF SetRestartIIN, Tick, vars, SameTrack, Typed, Contexts
<1>3. Tracked(ctx')
  <2> DEFINE d == ctx'
  <2>1. SameTrack(ctx, d) /\ d.sol = ctx.sol
    BY <1>2
  <2> HIDE DEF d
  <2>2. Tracked(d)
    BY <2>1, PassiveMoved DEF TrackInv, Moved
  <2> QED BY <2>2 DEF d
<1>4. HeardLast(ctx', heard') /\ Backed(ctx', acked')
  BY <1>2 DEF TrackInv, SameTrack, HeardLast, Backed, IsExpected, SolConfirmExpected
<1>5. Accounted
  BY <1>2 DEF SameTrack, Accounted
<1> QED BY <1>3, <1>4, <1>5 DEF TrackInv

\* Every step keeps the response under way in order and accounts for the
\* events that leave the buffer.
LEMMA TrackInductive ==
    ASSUME ~AllowUnsolicited
    PROVE  IInv /\ OnceInv /\ TrackInv /\ [Next]_vars => TrackInv' /\ Accounted
<1> SUFFICES ASSUME IInv, OnceInv, TrackInv, [Next]_vars PROVE TrackInv' /\ Accounted
  OBVIOUS
<1>1. /\ InOrder(ctx, heard, greeted) /\ Good(ctx, heard, greeted) /\ Typed(ctx)
      /\ Slot(ctx) /\ Waiter(ctx) /\ heard \in HeardType /\ greeted \in BOOLEAN
      /\ ctx.unsol = "Idle"
  BY DEF IInv, InOrder, OnceInv, Good, Sound
<1>2. ctx.isTransmitting = TRUE => ctx.isOnline = TRUE
  BY <1>1 DEF Slot
<1>3. CASE OnLowerLayerUp
  <2> DEFINE c == [ctx EXCEPT !.isOnline = TRUE]
  <2>1. Good(c, heard, greeted) /\ c.isOnline = TRUE
    BY <1>1, <1>3, UpGood DEF OnLowerLayerUp
  <2>2. Enter(CheckForTaskStart(c), attempt) /\ acked' = acked
    BY <1>3 DEF OnLowerLayerUp
  <2>3. /\ c.solConfirm = ctx.solConfirm /\ c.solTx = ctx.solTx /\ c.static = ctx.static
        /\ c.buffer = ctx.buffer /\ c.firstFragment = ctx.firstFragment /\ c.lower = ctx.lower
        /\ c.sol = ctx.sol /\ c.deferred = ctx.deferred /\ c.unsol = "Idle"
    BY <1>1 DEF Typed, Contexts
  <2> HIDE DEF c
  <2> QED BY <2>1, <2>2, <2>3, StartTracked
<1>4. CASE OnLowerLayerDown
  BY <1>4, DownTracked
<1>5. CASE OnSendResult
  <2> DEFINE c == [ctx EXCEPT !.isTransmitting = FALSE, !.lower = <<>>]
  <2>1. /\ ctx.isOnline = TRUE /\ ctx.isTransmitting = TRUE
        /\ Good(c, heard, greeted) /\ c.isOnline = TRUE
    BY <1>1, <1>5, SentGood DEF OnSendResult
  <2>2. Enter(CheckForTaskStart(c), attempt) /\ acked' = acked
    BY <1>5, <2>1 DEF OnSendResult
  <2>3. /\ c.solConfirm = ctx.solConfirm /\ c.solTx = ctx.solTx /\ c.static = ctx.static
        /\ c.buffer = ctx.buffer /\ c.firstFragment = ctx.firstFragment /\ c.lower = <<>>
        /\ c.sol = ctx.sol /\ c.deferred = ctx.deferred /\ c.unsol = "Idle"
    BY <1>1 DEF Typed, Contexts
  <2> HIDE DEF c
  <2> QED BY <2>1, <2>2, <2>3, StartTracked
<1>6. CASE OnConfirmTimeout
  <2> DEFINE c == [ctx EXCEPT !.timer = "none"]
             d == IF ctx.timer = "sol" THEN OnSolConfirmTimeout(c) ELSE OnUnsolConfirmTimeout(c)
             s == [ctx EXCEPT !.timer = "none", !.sol = "Idle"]
  <2>1. Good(d, heard, greeted)
    BY <1>1, <1>6, TimeoutGood DEF OnConfirmTimeout
  <2>2. Enter(CheckForTaskStart(d), attempt) /\ acked' = acked
    BY <1>6 DEF OnConfirmTimeout
  <2>3. ctx.timer = "sol"
    BY <1>1, <1>6 DEF OnConfirmTimeout, Waiter, Typed, Contexts
  <2>4. d = s
    BY <1>1, <2>3 DEF OnSolConfirmTimeout, Typed, Contexts
  <2> HIDE DEF d
  <2>5. /\ s.solConfirm = ctx.solConfirm /\ s.solTx = ctx.solTx /\ s.static = ctx.static
        /\ s.buffer = ctx.buffer /\ s.firstFragment = ctx.firstFragment /\ s.lower = ctx.lower
        /\ s.sol = "Idle" /\ s.deferred = ctx.deferred /\ s.unsol = "Idle"
        /\ s.isOnline = ctx.isOnline
    BY <1>1 DEF Typed, Contexts
  <2> HIDE DEF s
  <2> QED BY <1>2, <2>1, <2>2, <2>4, <2>5, StartTracked
<1>7. ASSUME NEW r \in Requests, ReceiveRequest(r) PROVE TrackInv' /\ Accounted
  <2>1. ctx.isOnline /\ OnReceive(r) /\ r \notin Confirms /\ acked' = acked
    BY <1>7, RequestKinds DEF ReceiveRequest
  <2>2. ~IsExpected(ctx, r)
    BY <2>1 DEF IsExpected
  <2>3. /\ Tracked(ctx') /\ HeardLast(ctx', heard') /\ Backed(ctx', acked)
        /\ ctx.buffer.soe \ ctx'.buffer.soe \subseteq acked
    BY <2>1, <2>2, OnReceiveTracked
  <2> QED BY <2>1, <2>3 DEF TrackInv, Accounted
<1>8. ASSUME NEW r \in Confirms, ReceiveConfirm(r) PROVE TrackInv' /\ Accounted
  <2>1. ctx.isOnline /\ OnReceive(r)
    BY <1>8 DEF ReceiveConfirm
  <2>2. (greeted = TRUE => greeted' = TRUE) /\ (EndsNull(ctx, r) => greeted' = TRUE)
    BY <1>1, <1>8, GreetedInTime
  <2>3. acked \subseteq acked' /\ (IsExpected(ctx, r) => ctx.buffer.written \subseteq acked')
    BY <1>8, ConfirmOnRecord
  <2>4. /\ Tracked(ctx') /\ HeardLast(ctx', heard') /\ Backed(ctx', acked')
        /\ ctx.buffer.soe \ ctx'.buffer.soe \subseteq acked'
    BY <2>1, <2>2, <2>3, OnReceiveTracked
  <2> QED BY <2>4 DEF TrackInv, Accounted
<1>9. ASSUME NEW changes \in SeqOf(EventType \X EventClass, MaxTransaction), Update(changes)
      PROVE  TrackInv' /\ Accounted
  BY <1>9, TransactionTracked
<1>10. CASE SetRestartIIN \/ Tick \/ UNCHANGED vars
  BY <1>10, PlainStepTracked
<1> QED BY <1>3, <1>4, <1>5, <1>6, <1>7, <1>8, <1>9, <1>10 DEF Next

\* What is kept in order while nothing is reported unsolicited.
LEMMA TrackInvariant ==
    ASSUME ~AllowUnsolicited
    PROVE  Spec => []TrackInv /\ [][Accounted]_vars
<1>1. IInv /\ OnceInv /\ TrackInv /\ [Next]_vars => TrackInv'
  BY TrackInductive
<1>2. IInv /\ OnceInv /\ TrackInv /\ [Next]_vars => [Accounted]_vars
  BY TrackInductive
<1> QED BY <1>1, <1>2, InitOnce, InitTracked, OutstationInvariant, OnceInductive, PTL DEF Spec

\* ClearedOnlyIfAcked, for an outstation that reports nothing unsolicited: an
\* event leaves the buffer when the master has confirmed a fragment that
\* carried it, or for a newer event that finds the buffer full.  A confirm
\* that was deferred, is late or is repeated clears nothing else, and neither
\* does one of a response that was abandoned or timed out.
THEOREM ConfirmedBeforeCleared ==
    ASSUME ~AllowUnsolicited
    PROVE  Spec => ClearedOnlyIfAcked
<1>1. Accounted <=> \A e \in ctx.buffer.soe \ ctx'.buffer.soe :
                       e \in acked' \/ (nextId' # nextId /\ ctx'.buffer.overflow)
  BY DEF Accounted
<1> QED BY <1>1, TrackInvariant, PTL DEF ClearedOnlyIfAcked

\* FragmentsNumbered, for an outstation that reports nothing unsolicited and
\* whose responses end before the sequence numbers come round: the master can
\* tell the first fragment of a response from the others by its number alone.
THEOREM ResponsesAreNumbered ==
    ASSUME ~AllowUnsolicited, FewFragments
    PROVE  Spec => []FragmentsNumbered
<1>1. IInv /\ TrackInv => FragmentsNumbered
  <2> SUFFICES ASSUME IInv, TrackInv, NEW i \in DOMAIN ctx.lower
               PROVE  ~ctx.lower[i].uns =>
                         (ctx.lower[i].fir <=> ctx.lower[i].seq = ctx.lower[i].to.seq)
    BY DEF FragmentsNumbered
  <2>1. ctx.lower # <<>>
    OBVIOUS
  <2>2. ctx.lower = <<ctx.solTx>> /\ (ctx.solTx # None => FirstIsNumbered(ctx.solTx))
    BY <2>1 DEF TrackInv, Tracked
  <2>3. ctx.lower[i] = ctx.solTx
    BY <2>2
  <2>4. ctx.solTx # None
    <3>1. ctx.lower \in Seq(Fragments)
      BY DEF IInv, InOrder, Good, Sound, Typed, Contexts
    <3> QED BY <2>3, <3>1, OutstationAssumption
  <2> QED BY <2>2, <2>3, <2>4 DEF FirstIsNumbered
<1> QED BY <1>1, TrackInvariant, OutstationInvariant, PTL
=============================================================================
