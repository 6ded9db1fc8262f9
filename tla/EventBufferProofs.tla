--------------------------- MODULE EventBufferProofs ---------------------------
(***************************************************************************)
(* What the operations of the event buffer keep true of a buffer, for any  *)
(* configuration of types, classes and maxima: lemmas for the proofs about *)
(* the components that own a buffer.                                       *)
(***************************************************************************)
EXTENDS EventBuffer, FiniteSetTheorems, WellFoundedInduction, TLAPS

----------------------------------------------------------------------------
(* Counting the records of finite sets.                                    *)

\* The records of one type, or of some classes, form a finite subset.
LEMMA PartsFinite ==
    ASSUME NEW S, IsFiniteSet(S)
    PROVE  /\ Cardinality(S) \in Nat
           /\ \A t : IsFiniteSet(OfType(S, t)) /\ Cardinality(OfType(S, t)) \in Nat
           /\ \A C : IsFiniteSet(OfClasses(S, C)) /\ Cardinality(OfClasses(S, C)) \in Nat
<1>1. \A T \in SUBSET S : IsFiniteSet(T) /\ Cardinality(T) \in Nat
  BY FS_Subset, FS_CardinalityType
<1>2. \A t : OfType(S, t) \in SUBSET S
  BY DEF OfType
<1>3. \A C : OfClasses(S, C) \in SUBSET S
  BY DEF OfClasses
<1> QED BY <1>1, <1>2, <1>3, FS_CardinalityType

\* Cardinalities of a disjoint union, a union and a difference.
LEMMA CardParts ==
    ASSUME NEW S, NEW T, IsFiniteSet(S), IsFiniteSet(T)
    PROVE  /\ IsFiniteSet(S \cup T)
           /\ IsFiniteSet(S \ T)
           /\ Cardinality(S \cup T) <= Cardinality(S) + Cardinality(T)
           /\ S \cap T = {} => Cardinality(S \cup T) = Cardinality(S) + Cardinality(T)
           /\ T \subseteq S => Cardinality(S \ T) = Cardinality(S) - Cardinality(T)
<1>1. /\ IsFiniteSet(S \cup T)
      /\ Cardinality(S \cup T) = Cardinality(S) + Cardinality(T) - Cardinality(S \cap T)
  BY FS_Union
<1>2. /\ IsFiniteSet(S \ T)
      /\ Cardinality(S \ T) = Cardinality(S) - Cardinality(S \cap T)
  BY FS_Difference
<1>3. IsFiniteSet(S \cap T)
  BY FS_Intersection
<1>4. Cardinality(S) \in Nat /\ Cardinality(T) \in Nat /\ Cardinality(S \cap T) \in Nat
  BY <1>3, FS_CardinalityType
<1>5. S \cap T = {} => Cardinality(S \cap T) = 0
  BY FS_EmptySet
<1>6. T \subseteq S => S \cap T = T
  OBVIOUS
<1> QED BY <1>1, <1>2, <1>4, <1>5, <1>6

\* The number of records of a type in a union and in a difference.
LEMMA TypeParts ==
    ASSUME NEW S, NEW T, IsFiniteSet(S), IsFiniteSet(T), NEW t
    PROVE  /\ Cardinality(OfType(S \cup T, t)) <= Cardinality(OfType(S, t)) + Cardinality(OfType(T, t))
           /\ S \cap T = {} =>
                Cardinality(OfType(S \cup T, t)) = Cardinality(OfType(S, t)) + Cardinality(OfType(T, t))
           /\ T \subseteq S =>
                Cardinality(OfType(S \ T, t)) = Cardinality(OfType(S, t)) - Cardinality(OfType(T, t))
<1>1. OfType(S \cup T, t) = OfType(S, t) \cup OfType(T, t)
  BY DEF OfType
<1>2. OfType(S \ T, t) = OfType(S, t) \ OfType(T, t)
  BY DEF OfType
<1>3. S \cap T = {} => OfType(S, t) \cap OfType(T, t) = {}
  BY DEF OfType
<1>4. T \subseteq S => OfType(T, t) \subseteq OfType(S, t)
  BY DEF OfType
<1>5. IsFiniteSet(OfType(S, t)) /\ IsFiniteSet(OfType(T, t))
  BY PartsFinite
<1> QED BY <1>1, <1>2, <1>3, <1>4, <1>5, CardParts

\* The number of records of some classes in a union and in a difference.
LEMMA ClassParts ==
    ASSUME NEW S, NEW T, IsFiniteSet(S), IsFiniteSet(T), NEW C
    PROVE  /\ Cardinality(OfClasses(S \cup T, C))
                <= Cardinality(OfClasses(S, C)) + Cardinality(OfClasses(T, C))
           /\ S \cap T = {} =>
                Cardinality(OfClasses(S \cup T, C))
                    = Cardinality(OfClasses(S, C)) + Cardinality(OfClasses(T, C))
           /\ T \subseteq S =>
                Cardinality(OfClasses(S \ T, C))
                    = Cardinality(OfClasses(S, C)) - Cardinality(OfClasses(T, C))
<1>1. OfClasses(S \cup T, C) = OfClasses(S, C) \cup OfClasses(T, C)
  BY DEF OfClasses
<1>2. OfClasses(S \ T, C) = OfClasses(S, C) \ OfClasses(T, C)
  BY DEF OfClasses
<1>3. S \cap T = {} => OfClasses(S, C) \cap OfClasses(T, C) = {}
  BY DEF OfClasses
<1>4. T \subseteq S => OfClasses(T, C) \subseteq OfClasses(S, C)
  BY DEF OfClasses
<1>5. IsFiniteSet(OfClasses(S, C)) /\ IsFiniteSet(OfClasses(T, C))
  BY PartsFinite
<1> QED BY <1>1, <1>2, <1>3, <1>4, <1>5, CardParts

\* Increment and Decrement keep the shape of the counters.
LEMMA CountsType ==
    ASSUME NEW k \in CountType, NEW S, IsFiniteSet(S)
    PROVE  Plus(k, S) \in CountType /\ Minus(k, S) \in CountType
BY PartsFinite DEF CountType, Plus, Minus

\* The counters of CountType are integers.
LEMMA CountFields ==
    ASSUME NEW k \in CountType
    PROVE  /\ k.total \in Int
           /\ \A t \in EventType : k.type[t] \in Int
           /\ \A c \in EventClass : k.clazz[c] \in Int
BY DEF CountType

\* Incrementing exact counters for each new record keeps them exact.
LEMMA PlusTallies ==
    ASSUME NEW k \in CountType, NEW S, NEW T, IsFiniteSet(S), IsFiniteSet(T),
           S \cap T = {}, Tallies(k, S)
    PROVE  Tallies(Plus(k, T), S \cup T)
<1>1. Cardinality(S \cup T) = Cardinality(S) + Cardinality(T)
  BY CardParts
<1>2. \A t : Cardinality(OfType(S \cup T, t))
               = Cardinality(OfType(S, t)) + Cardinality(OfType(T, t))
  BY TypeParts
<1>3. \A C : Cardinality(OfClasses(S \cup T, C))
               = Cardinality(OfClasses(S, C)) + Cardinality(OfClasses(T, C))
  BY ClassParts
<1> QED BY <1>1, <1>2, <1>3 DEF Tallies, Plus

\* Decrementing them for each record taken away keeps them exact.
LEMMA MinusTallies ==
    ASSUME NEW k \in CountType, NEW S, NEW T, IsFiniteSet(S), T \subseteq S, Tallies(k, S)
    PROVE  Tallies(Minus(k, T), S \ T)
<1>0. IsFiniteSet(T)
  BY FS_Subset
<1>1. Cardinality(S \ T) = Cardinality(S) - Cardinality(T)
  BY <1>0, CardParts
<1>2. \A t : Cardinality(OfType(S \ T, t))
               = Cardinality(OfType(S, t)) - Cardinality(OfType(T, t))
  BY <1>0, TypeParts
<1>3. \A C : Cardinality(OfClasses(S \ T, C))
               = Cardinality(OfClasses(S, C)) - Cardinality(OfClasses(T, C))
  BY <1>0, ClassParts
<1> QED BY <1>1, <1>2, <1>3 DEF Tallies, Minus

\* Incrementing for records that may be counted already keeps a bound a bound.
LEMMA PlusCovers ==
    ASSUME NEW k \in CountType, NEW S, NEW T, IsFiniteSet(S), IsFiniteSet(T), Covers(k, S)
    PROVE  Covers(Plus(k, T), S \cup T)
<1>1. Cardinality(S \cup T) <= Cardinality(S) + Cardinality(T)
  BY CardParts
<1>2. \A t : Cardinality(OfType(S \cup T, t))
               <= Cardinality(OfType(S, t)) + Cardinality(OfType(T, t))
  BY TypeParts
<1>3. \A C : Cardinality(OfClasses(S \cup T, C))
               <= Cardinality(OfClasses(S, C)) + Cardinality(OfClasses(T, C))
  BY ClassParts
<1>4. \A U \in {S, T, S \cup T} :
        /\ Cardinality(U) \in Nat
        /\ \A t : Cardinality(OfType(U, t)) \in Nat
        /\ \A C : Cardinality(OfClasses(U, C)) \in Nat
  BY CardParts, PartsFinite
<1>5. Plus(k, T).total >= Cardinality(S \cup T)
  BY <1>1, <1>4, CountFields DEF Covers, Plus
<1>6. ASSUME NEW t \in EventType
      PROVE  Plus(k, T).type[t] >= Cardinality(OfType(S \cup T, t))
  <2>1. /\ Cardinality(OfType(S, t)) \in Nat
        /\ Cardinality(OfType(T, t)) \in Nat
        /\ Cardinality(OfType(S \cup T, t)) \in Nat
    BY <1>4
  <2>2. k.type[t] \in Int /\ k.type[t] >= Cardinality(OfType(S, t))
    BY CountFields DEF Covers
  <2>3. Plus(k, T).type[t] = k.type[t] + Cardinality(OfType(T, t))
    BY DEF Plus
  <2>4. Cardinality(OfType(S \cup T, t)) <= Cardinality(OfType(S, t)) + Cardinality(OfType(T, t))
    BY <1>2
  <2> QED BY <2>1, <2>2, <2>3, <2>4
<1>7. ASSUME NEW c \in EventClass
      PROVE  Plus(k, T).clazz[c] >= Cardinality(OfClasses(S \cup T, {c}))
  <2>1. /\ Cardinality(OfClasses(S, {c})) \in Nat
        /\ Cardinality(OfClasses(T, {c})) \in Nat
        /\ Cardinality(OfClasses(S \cup T, {c})) \in Nat
    BY <1>4
  <2>2. k.clazz[c] \in Int /\ k.clazz[c] >= Cardinality(OfClasses(S, {c}))
    BY CountFields DEF Covers
  <2>3. Plus(k, T).clazz[c] = k.clazz[c] + Cardinality(OfClasses(T, {c}))
    BY DEF Plus
  <2>4. Cardinality(OfClasses(S \cup T, {c}))
            <= Cardinality(OfClasses(S, {c})) + Cardinality(OfClasses(T, {c}))
    BY <1>3
  <2> QED BY <2>1, <2>2, <2>3, <2>4
<1> QED BY <1>5, <1>6, <1>7 DEF Covers

\* Decrementing for records that are counted keeps a bound a bound.
LEMMA MinusCovers ==
    ASSUME NEW k \in CountType, NEW S, NEW T, IsFiniteSet(S), T \subseteq S, Covers(k, S)
    PROVE  Covers(Minus(k, T), S \ T)
<1>0. IsFiniteSet(T)
  BY FS_Subset
<1>1. Cardinality(S \ T) = Cardinality(S) - Cardinality(T)
  BY <1>0, CardParts
<1>2. \A t : Cardinality(OfType(S \ T, t))
               = Cardinality(OfType(S, t)) - Cardinality(OfType(T, t))
  BY <1>0, TypeParts
<1>3. \A C : Cardinality(OfClasses(S \ T, C))
               = Cardinality(OfClasses(S, C)) - Cardinality(OfClasses(T, C))
  BY <1>0, ClassParts
<1>4. \A U \in {S, T} :
        /\ Cardinality(U) \in Nat
        /\ \A t : Cardinality(OfType(U, t)) \in Nat
        /\ \A C : Cardinality(OfClasses(U, C)) \in Nat
  BY <1>0, PartsFinite
<1>5. Minus(k, T).total >= Cardinality(S \ T)
  BY <1>1, <1>4, CountFields DEF Covers, Minus
<1>6. ASSUME NEW t \in EventType
      PROVE  Minus(k, T).type[t] >= Cardinality(OfType(S \ T, t))
  <2>1. /\ Cardinality(OfType(S, t)) \in Nat
        /\ Cardinality(OfType(T, t)) \in Nat
    BY <1>4
  <2>2. k.type[t] \in Int /\ k.type[t] >= Cardinality(OfType(S, t))
    BY CountFields DEF Covers
  <2>3. Minus(k, T).type[t] = k.type[t] - Cardinality(OfType(T, t))
    BY DEF Minus
  <2> QED BY <1>2, <2>1, <2>2, <2>3
<1>7. ASSUME NEW c \in EventClass
      PROVE  Minus(k, T).clazz[c] >= Cardinality(OfClasses(S \ T, {c}))
  <2>1. /\ Cardinality(OfClasses(S, {c})) \in Nat
        /\ Cardinality(OfClasses(T, {c})) \in Nat
    BY <1>4
  <2>2. k.clazz[c] \in Int /\ k.clazz[c] >= Cardinality(OfClasses(S, {c}))
    BY CountFields DEF Covers
  <2>3. Minus(k, T).clazz[c] = k.clazz[c] - Cardinality(OfClasses(T, {c}))
    BY DEF Minus
  <2> QED BY <1>3, <2>1, <2>2, <2>3
<1> QED BY <1>5, <1>6, <1>7 DEF Covers

----------------------------------------------------------------------------
(* The operations on a buffer.                                             *)

\* A buffer whose counters can be relied on.
GoodBuffer(b) ==
    /\ b \in BufferType
    /\ IsFiniteSet(b.soe)
    /\ Exact(b)
    /\ Covered(b)

\* The lists of flagged records of such a buffer are finite.
LEMMA GoodFinite ==
    ASSUME NEW b, GoodBuffer(b)
    PROVE  IsFiniteSet(b.selected) /\ IsFiniteSet(b.written)
<1>1. b.selected \in SUBSET b.soe /\ b.written \in SUBSET b.soe
  BY DEF GoodBuffer, Exact
<1> QED BY <1>1, FS_Subset DEF GoodBuffer

\* The first records of a list are records of the list.
LEMMA OldestSubset ==
    ASSUME NEW S, NEW n
    PROVE  Oldest(S, n) \subseteq S
BY DEF Oldest

\* The empty buffer is good.
LEMMA EmptyGood == GoodBuffer(EmptyBuffer)
<1>1. \A t : OfType({}, t) = {}
  BY DEF OfType
<1>2. \A C : OfClasses({}, C) = {}
  BY DEF OfClasses
<1>3. NoCounts \in CountType
  BY DEF NoCounts, CountType
<1>4. Tallies(NoCounts, {}) /\ Covers(NoCounts, {})
  BY <1>1, <1>2, FS_EmptySet DEF Tallies, Covers, NoCounts
<1> QED BY <1>3, <1>4, FS_EmptySet DEF GoodBuffer, EmptyBuffer, BufferType, Exact, Covered

\* RemoveFromCounts keeps a buffer good, whichever records leave the list.
LEMMA RemoveGood ==
    ASSUME NEW b, GoodBuffer(b), NEW S \in SUBSET b.soe
    PROVE  GoodBuffer(RemoveFromCounts(b, S))
<1> DEFINE r == RemoveFromCounts(b, S)
<1>1. IsFiniteSet(S) /\ IsFiniteSet(S \cap b.selected) /\ IsFiniteSet(S \cap b.written)
  BY FS_Subset, FS_Intersection DEF GoodBuffer
<1>2. /\ b.totalCounts \in CountType
      /\ b.selectedCounts \in CountType
      /\ b.writtenCounts \in CountType
  BY DEF GoodBuffer, BufferType
<1>3. /\ r.soe = b.soe \ S
      /\ r.selected = b.selected \ S
      /\ r.written = b.written \ S
      /\ r.totalCounts = Minus(b.totalCounts, S)
      /\ r.selectedCounts = Minus(b.selectedCounts, S \cap b.selected)
      /\ r.writtenCounts = Minus(b.writtenCounts, S \cap b.written)
      /\ r.overflow = b.overflow
  BY DEF RemoveFromCounts, GoodBuffer, BufferType
<1>4. /\ r.totalCounts \in CountType
      /\ r.selectedCounts \in CountType
      /\ r.writtenCounts \in CountType
  BY <1>1, <1>2, <1>3, CountsType
<1>5. r \in BufferType
  BY <1>4 DEF RemoveFromCounts, GoodBuffer, BufferType
<1>6. IsFiniteSet(r.soe)
  BY <1>3, FS_Subset DEF GoodBuffer
<1>7. Tallies(r.totalCounts, r.soe)
  BY <1>2, <1>3, MinusTallies DEF GoodBuffer, Exact
<1>8. Tallies(r.writtenCounts, r.written)
  <2>1. b.written \ S = b.written \ (S \cap b.written)
    OBVIOUS
  <2>2. Tallies(Minus(b.writtenCounts, S \cap b.written), b.written \ (S \cap b.written))
    BY <1>2, GoodFinite, MinusTallies DEF GoodBuffer, Exact
  <2> QED BY <1>3, <2>1, <2>2
<1>9. Covers(r.selectedCounts, r.selected)
  <2>1. b.selected \ S = b.selected \ (S \cap b.selected)
    OBVIOUS
  <2>2. Covers(Minus(b.selectedCounts, S \cap b.selected), b.selected \ (S \cap b.selected))
    BY <1>2, GoodFinite, MinusCovers DEF GoodBuffer, Covered
  <2> QED BY <1>3, <2>1, <2>2
<1>10. r.written \subseteq r.selected /\ r.selected \subseteq r.soe
  BY <1>3 DEF GoodBuffer, Exact
<1> QED BY <1>5, <1>6, <1>7, <1>8, <1>9, <1>10 DEF GoodBuffer, Exact, Covered

\* UpdateAny keeps a buffer good when the event is a new one.
LEMMA UpdateGood ==
    ASSUME NEW b, GoodBuffer(b), NEW e \in SOERecord, e \notin b.soe
    PROVE  GoodBuffer(UpdateAny(b, e)) /\ UpdateAny(b, e).soe \subseteq b.soe \cup {e}
<1> DEFINE discarded == [RemoveOldestEventOfType(b, e.type) EXCEPT !.overflow = TRUE]
           room == IF MustDiscard(b, e.type) THEN discarded ELSE b
           r == [room EXCEPT !.soe = @ \cup {e}, !.totalCounts = Plus(@, {e})]
<1>1. Oldest(OfType(b.soe, e.type), 1) \in SUBSET b.soe
  BY OldestSubset DEF OfType
<1>2. GoodBuffer(RemoveOldestEventOfType(b, e.type))
  BY <1>1, RemoveGood DEF RemoveOldestEventOfType
<1>3. RemoveOldestEventOfType(b, e.type).soe \subseteq b.soe
  BY DEF RemoveOldestEventOfType, RemoveFromCounts, GoodBuffer, BufferType
<1>4. GoodBuffer(room) /\ room.soe \subseteq b.soe
  <2> HIDE DEF discarded
  <2>1. GoodBuffer(discarded) /\ discarded.soe \subseteq b.soe
    BY <1>2, <1>3 DEF discarded, GoodBuffer, BufferType, Exact, Covered
  <2> QED BY <2>1
<1> HIDE DEF room
<1>5. /\ r.soe = room.soe \cup {e}
      /\ r.selected = room.selected
      /\ r.written = room.written
      /\ r.totalCounts = Plus(room.totalCounts, {e})
      /\ r.selectedCounts = room.selectedCounts
      /\ r.writtenCounts = room.writtenCounts
      /\ r.overflow = room.overflow
  BY <1>4 DEF GoodBuffer, BufferType
<1>6. IsFiniteSet({e}) /\ IsFiniteSet(r.soe)
  <2>1. IsFiniteSet(room.soe)
    BY <1>4 DEF GoodBuffer
  <2>2. IsFiniteSet(room.soe \cup {e})
    BY <2>1, FS_AddElement
  <2>3. IsFiniteSet({e})
    BY FS_Singleton
  <2> QED BY <1>5, <2>2, <2>3
<1>7. room.totalCounts \in CountType /\ Plus(room.totalCounts, {e}) \in CountType
  BY <1>4, <1>6, CountsType DEF GoodBuffer, BufferType
<1>8. r \in BufferType
  BY <1>4, <1>7 DEF GoodBuffer, BufferType
<1>9. Tallies(r.totalCounts, r.soe)
  BY <1>4, <1>5, <1>6, <1>7, PlusTallies DEF GoodBuffer, Exact
<1> HIDE DEF r
<1>10. GoodBuffer(r)
  BY <1>4, <1>5, <1>6, <1>8, <1>9 DEF GoodBuffer, Exact, Covered
<1>11. UpdateAny(b, e) = IF MaxForType[e.type] = 0 THEN b ELSE r
  BY DEF UpdateAny, r, room
<1> QED BY <1>4, <1>5, <1>10, <1>11

\* Unselect keeps a buffer good and leaves nothing selected or written: the
\* walk cannot end before the last selected record.
LEMMA UnselectGood ==
    ASSUME NEW b, GoodBuffer(b)
    PROVE  /\ GoodBuffer(Unselect(b))
           /\ Unselect(b).selected = {}
           /\ Unselect(b).written = {}
           /\ Unselect(b).soe = b.soe
<1> DEFINE seen == Visited(b)
           r == Unselect(b)
<1>1. b.selected \subseteq seen
  <2> SUFFICES ASSUME NEW e \in b.selected
               PROVE  e \in seen
    OBVIOUS
  <2> DEFINE before == {f \in b.soe : f.id < e.id}
  <2>1. e \in b.soe /\ e.id \in Nat
    BY DEF GoodBuffer, Exact, BufferType, SOERecord
  <2>2. before \cap b.selected \subseteq b.selected \ {e}
    BY <2>1
  <2>3. /\ IsFiniteSet(b.selected \ {e})
        /\ Cardinality(b.selected \ {e}) = Cardinality(b.selected) - 1
    BY GoodFinite, FS_RemoveElement
  <2>4. Cardinality(before \cap b.selected) <= Cardinality(b.selected \ {e})
    BY <2>2, <2>3, FS_Subset
  <2>5. IsFiniteSet(before \cap b.selected)
    BY <2>2, <2>3, FS_Subset
  <2>6. /\ Cardinality(b.selected) \in Nat
        /\ Cardinality(before \cap b.selected) \in Nat
        /\ b.selectedCounts.total \in Int
    BY <2>5, GoodFinite, FS_CardinalityType DEF GoodBuffer, BufferType, CountType
  <2>7. b.selectedCounts.total >= Cardinality(b.selected)
    BY DEF GoodBuffer, Covered, Covers
  <2>8. b.selectedCounts.total > Cardinality(before \cap b.selected)
    BY <2>3, <2>4, <2>6, <2>7
  <2> QED BY <2>1, <2>8 DEF Visited
<1>2. /\ seen \cap b.selected = b.selected
      /\ seen \cap b.written = b.written
      /\ b.selected \ seen = {}
      /\ b.written \ seen = {}
  BY <1>1 DEF GoodBuffer, Exact
<1> HIDE DEF seen
<1>3. r = [b EXCEPT !.selected = {}, !.written = {},
                    !.selectedCounts = Minus(@, b.selected),
                    !.writtenCounts = Minus(@, b.written)]
  <2>1. r = [b EXCEPT !.selected = @ \ seen, !.written = @ \ seen,
                      !.selectedCounts = Minus(@, seen \cap b.selected),
                      !.writtenCounts = Minus(@, seen \cap b.written)]
    BY DEF Unselect, seen
  <2> QED BY <1>2, <2>1 DEF GoodBuffer, BufferType
<1> HIDE DEF r
<1>4. /\ r.soe = b.soe
      /\ r.selected = {}
      /\ r.written = {}
      /\ r.totalCounts = b.totalCounts
      /\ r.selectedCounts = Minus(b.selectedCounts, b.selected)
      /\ r.writtenCounts = Minus(b.writtenCounts, b.written)
      /\ r.overflow = b.overflow
  BY <1>3 DEF GoodBuffer, BufferType
<1>5. b.selectedCounts \in CountType /\ b.writtenCounts \in CountType
  BY DEF GoodBuffer, BufferType
<1>6. r.selectedCounts \in CountType /\ r.writtenCounts \in CountType
  BY <1>4, <1>5, CountsType, GoodFinite
<1>7. r \in BufferType
  BY <1>3, <1>4, <1>6 DEF GoodBuffer, BufferType
<1>8. Tallies(r.writtenCounts, {})
  <2>1. Tallies(Minus(b.writtenCounts, b.written), b.written \ b.written)
    BY <1>5, GoodFinite, MinusTallies DEF GoodBuffer, Exact
  <2>2. b.written \ b.written = {}
    OBVIOUS
  <2> QED BY <1>4, <2>1, <2>2
<1>9. Covers(r.selectedCounts, {})
  <2>1. Covers(Minus(b.selectedCounts, b.selected), b.selected \ b.selected)
    BY <1>5, GoodFinite, MinusCovers DEF GoodBuffer, Covered
  <2>2. b.selected \ b.selected = {}
    OBVIOUS
  <2> QED BY <1>4, <2>1, <2>2
<1>10. GoodBuffer(r)
  BY <1>4, <1>7, <1>8, <1>9 DEF GoodBuffer, Exact, Covered
<1> QED BY <1>4, <1>10 DEF r

\* Selecting records of the list, selected before or not, keeps a buffer good.
LEMMA SelectGood ==
    ASSUME NEW b, GoodBuffer(b), NEW S \in SUBSET b.soe
    PROVE  GoodBuffer(SelectRecords(b, S)) /\ SelectRecords(b, S).soe = b.soe
<1> DEFINE r == SelectRecords(b, S)
<1>1. /\ r.soe = b.soe
      /\ r.selected = b.selected \cup S
      /\ r.written = b.written
      /\ r.totalCounts = b.totalCounts
      /\ r.selectedCounts = Plus(b.selectedCounts, S)
      /\ r.writtenCounts = b.writtenCounts
      /\ r.overflow = b.overflow
  BY DEF SelectRecords, GoodBuffer, BufferType
<1>2. IsFiniteSet(S) /\ IsFiniteSet(b.selected)
  BY FS_Subset, GoodFinite DEF GoodBuffer
<1>3. b.selectedCounts \in CountType /\ r.selectedCounts \in CountType
  BY <1>1, <1>2, CountsType DEF GoodBuffer, BufferType
<1>4. r \in BufferType
  BY <1>3 DEF SelectRecords, GoodBuffer, BufferType
<1>5. Covers(r.selectedCounts, r.selected)
  BY <1>1, <1>2, <1>3, PlusCovers DEF GoodBuffer, Covered
<1> QED BY <1>1, <1>4, <1>5 DEF GoodBuffer, Exact, Covered

\* A header selects records of the list.
LEMMA SelectHeadersGood ==
    ASSUME NEW b, GoodBuffer(b)
    PROVE  /\ \A C, max : /\ GoodBuffer(SelectByClass(b, C, max))
                          /\ SelectByClass(b, C, max).soe = b.soe
           /\ \A t, max : /\ GoodBuffer(SelectByType(b, t, max))
                          /\ SelectByType(b, t, max).soe = b.soe
<1>1. \A C, n : Oldest(OfClasses(b.soe, C), n) \in SUBSET b.soe
  BY OldestSubset DEF OfClasses
<1>2. \A t, n : Oldest(OfType(b.soe, t), n) \in SUBSET b.soe
  BY OldestSubset DEF OfType
<1>3. ASSUME NEW C, NEW max
      PROVE  /\ GoodBuffer(SelectByClass(b, C, max))
             /\ SelectByClass(b, C, max).soe = b.soe
  BY <1>1, SelectGood DEF SelectByClass
<1>4. ASSUME NEW t, NEW max
      PROVE  /\ GoodBuffer(SelectByType(b, t, max))
             /\ SelectByType(b, t, max).soe = b.soe
  BY <1>2, SelectGood DEF SelectByType
<1> QED BY <1>3, <1>4

\* Writing selected records into a fragment keeps a buffer good.
LEMMA LoadGood ==
    ASSUME NEW b, GoodBuffer(b), NEW n
    PROVE  GoodBuffer(Load(b, n)) /\ Load(b, n).soe = b.soe
<1> DEFINE S == Oldest(Writable(b), Smaller(n, b.selectedCounts.total - b.writtenCounts.total))
           r == Load(b, n)
<1>1. S \subseteq b.selected /\ S \cap b.written = {}
  BY OldestSubset DEF Writable
<1> HIDE DEF S
<1>2. r = [b EXCEPT !.written = @ \cup S, !.writtenCounts = Plus(@, S)]
  BY DEF Load, S
<1> HIDE DEF r
<1>3. /\ r.soe = b.soe
      /\ r.selected = b.selected
      /\ r.written = b.written \cup S
      /\ r.totalCounts = b.totalCounts
      /\ r.selectedCounts = b.selectedCounts
      /\ r.writtenCounts = Plus(b.writtenCounts, S)
      /\ r.overflow = b.overflow
  BY <1>2 DEF GoodBuffer, BufferType
<1>4. IsFiniteSet(S) /\ IsFiniteSet(b.written)
  BY <1>1, FS_Subset, GoodFinite
<1>5. b.writtenCounts \in CountType /\ r.writtenCounts \in CountType
  BY <1>3, <1>4, CountsType DEF GoodBuffer, BufferType
<1>6. r \in BufferType
  BY <1>1, <1>2, <1>3, <1>5 DEF GoodBuffer, BufferType
<1>7. Tallies(r.writtenCounts, r.written)
  BY <1>1, <1>3, <1>4, <1>5, PlusTallies DEF GoodBuffer, Exact
<1>8. GoodBuffer(r)
  BY <1>1, <1>3, <1>6, <1>7 DEF GoodBuffer, Exact, Covered
<1> QED BY <1>3, <1>8 DEF r

\* Dropping the confirmed records keeps a buffer good.
LEMMA ClearGood ==
    ASSUME NEW b, GoodBuffer(b)
    PROVE  GoodBuffer(ClearWritten(b)) /\ ClearWritten(b).soe \subseteq b.soe
<1>1. b.written \in SUBSET b.soe
  BY DEF GoodBuffer, Exact
<1>2. ClearWritten(b).soe \subseteq b.soe
  BY DEF ClearWritten, RemoveFromCounts, GoodBuffer, BufferType
<1> QED BY <1>1, <1>2, RemoveGood DEF ClearWritten

\* Reporting the overflow bit touches nothing but the flag.
LEMMA CheckOverflowGood ==
    ASSUME NEW b, GoodBuffer(b)
    PROVE  GoodBuffer(CheckOverflow(b)) /\ CheckOverflow(b).soe = b.soe
<1> DEFINE r == CheckOverflow(b)
<1>1. IsOverflown(b) \in BOOLEAN
  BY DEF IsOverflown
<1> HIDE DEF IsOverflown
<1>2. r \in BufferType
  BY <1>1 DEF CheckOverflow, GoodBuffer, BufferType
<1>3. /\ r.soe = b.soe
      /\ r.selected = b.selected
      /\ r.written = b.written
      /\ r.totalCounts = b.totalCounts
      /\ r.selectedCounts = b.selectedCounts
      /\ r.writtenCounts = b.writtenCounts
  BY DEF CheckOverflow, GoodBuffer, BufferType
<1> QED BY <1>2, <1>3 DEF GoodBuffer, Exact, Covered

----------------------------------------------------------------------------
(* The order of the list.                                                  *)

\* The first n records of a list are older than the ones that follow.
LEMMA OldestComeFirst ==
    ASSUME NEW S \in SUBSET SOERecord, IsFiniteSet(S), NEW n \in Int,
           NEW e \in Oldest(S, n), NEW f \in S \ Oldest(S, n)
    PROVE  e.id < f.id
<1> DEFINE Before(x) == {g \in S : g.id < x}
<1>1. e.id \in Nat /\ f.id \in Nat
  BY DEF Oldest, SOERecord
<1> SUFFICES ASSUME f.id <= e.id PROVE FALSE
  BY <1>1
<1>2. Before(f.id) \in SUBSET Before(e.id)
  BY <1>1 DEF SOERecord
<1>3. Before(e.id) \in SUBSET S
  OBVIOUS
<1>4. IsFiniteSet(Before(e.id)) /\ IsFiniteSet(Before(f.id))
  BY <1>2, <1>3, FS_Subset
<1>5. Cardinality(Before(f.id)) <= Cardinality(Before(e.id))
  BY <1>2, <1>4, FS_Subset
<1>6. Cardinality(Before(e.id)) \in Nat /\ Cardinality(Before(f.id)) \in Nat
  BY <1>4, FS_CardinalityType
<1>7. Cardinality(Before(e.id)) < n /\ ~(Cardinality(Before(f.id)) < n)
  BY DEF Oldest
<1> HIDE DEF Before
<1> QED BY <1>5, <1>6, <1>7

\* A list that is not empty has an oldest record.
LEMMA OldestExists ==
    ASSUME NEW S \in SUBSET SOERecord, S # {}
    PROVE  Oldest(S, 1) # {}
<1> DEFINE Less == OpToRel(<, Nat)
           Ids == {e.id : e \in S}
<1>1. Ids \in SUBSET Nat /\ Ids # {}
  BY DEF SOERecord
<1>2. PICK x \in Ids : \A y \in Ids : ~(<<y, x>> \in Less)
  BY <1>1, NatLessThanWellFounded, WFMin
<1>3. \A y \in Ids : ~(y < x)
  BY <1>1, <1>2 DEF OpToRel
<1>4. PICK e \in S : e.id = x
  BY <1>2
<1>5. {f \in S : f.id < e.id} = {}
  BY <1>3, <1>4
<1>6. Cardinality({f \in S : f.id < e.id}) = 0
  BY <1>5, FS_EmptySet
<1>7. e \in Oldest(S, 1)
  BY <1>4, <1>6 DEF Oldest
<1> QED BY <1>7

\* What EventWriter::Write puts in a fragment was not written before and is
\* older than what it leaves for the next fragment.
LEMMA LoadInOrder ==
    ASSUME NEW b, GoodBuffer(b), NEW n \in Int
    PROVE  /\ Load(b, n).selected = b.selected
           /\ b.written \subseteq Load(b, n).written
           /\ \A e \in Load(b, n).written \ b.written, f \in Writable(Load(b, n)) : e.id < f.id
<1> DEFINE k == Smaller(n, b.selectedCounts.total - b.writtenCounts.total)
           S == Oldest(Writable(b), k)
<1>1. b.selectedCounts \in CountType /\ b.writtenCounts \in CountType
  BY DEF GoodBuffer, BufferType
<1>2. k \in Int
  BY <1>1, CountFields DEF Smaller
<1>3. Writable(b) \in SUBSET SOERecord /\ Writable(b) \in SUBSET b.selected
  BY DEF Writable, GoodBuffer, BufferType
<1>4. IsFiniteSet(Writable(b))
  BY <1>3, GoodFinite, FS_Subset
<1> HIDE DEF k
<1>5. \A e \in S, f \in Writable(b) \ S : e.id < f.id
  BY <1>2, <1>3, <1>4, OldestComeFirst
<1>6. Load(b, n).selected = b.selected /\ Load(b, n).written = b.written \cup S
  BY DEF Load, k, GoodBuffer, BufferType
<1> HIDE DEF S
<1>7. Writable(Load(b, n)) = Writable(b) \ S
  BY <1>6 DEF Writable
<1>8. Load(b, n).written \ b.written \subseteq S
  BY <1>6
<1> QED BY <1>5, <1>6, <1>7, <1>8

\* A set of numbers that is not empty has a smallest one.
LEMMA SmallestExists ==
    ASSUME NEW T \in SUBSET Nat, T # {}
    PROVE  \E x \in T : \A y \in T : x <= y
<1> DEFINE Less == OpToRel(<, Nat)
<1>1. PICK x \in T : \A y \in T : ~(<<y, x>> \in Less)
  BY NatLessThanWellFounded, WFMin
<1>2. \A y \in T : ~(y < x)
  BY <1>1 DEF OpToRel
<1> QED BY <1>2

\* When the first n records are not all, they are n at least.
LEMMA OldestEnough ==
    ASSUME NEW S \in SUBSET SOERecord, IsFiniteSet(S), NEW n \in Int, S \ Oldest(S, n) # {}
    PROVE  Cardinality(Oldest(S, n)) >= n
<1> DEFINE O == Oldest(S, n)
           Ids == {e.id : e \in S \ O}
<1>1. Ids \in SUBSET Nat /\ Ids # {}
  BY DEF SOERecord
<1>2. PICK x \in Ids : \A y \in Ids : x <= y
  BY <1>1, SmallestExists
<1>3. PICK f \in S \ O : f.id = x
  BY <1>2
<1> DEFINE Before == {g \in S : g.id < f.id}
<1>4. Before \subseteq O
  <2> SUFFICES ASSUME NEW g \in S, g.id < f.id, g \notin O PROVE FALSE
    OBVIOUS
  <2>1. g.id \in Ids /\ f.id \in Nat /\ g.id \in Nat
    BY <1>1, <1>3
  <2> QED BY <1>2, <1>3, <2>1
<1>5. IsFiniteSet(O) /\ O \subseteq S
  BY OldestSubset, FS_Subset
<1>6. Cardinality(Before) <= Cardinality(O) /\ IsFiniteSet(Before)
  BY <1>4, <1>5, FS_Subset
<1>7. ~(Cardinality(Before) < n)
  BY <1>3 DEF Oldest
<1>8. Cardinality(Before) \in Nat /\ Cardinality(O) \in Nat
  BY <1>5, <1>6, FS_CardinalityType
<1> HIDE DEF Before, O
<1>9. Cardinality(O) >= n
  BY <1>6, <1>7, <1>8
<1> QED BY <1>9 DEF O

\* EventWriter::Write writes what was not written, and leaves something only
\* when the fragment is full.
LEMMA LoadFills ==
    ASSUME NEW b, GoodBuffer(b), NEW n \in Nat
    PROVE  /\ Load(b, n).written \ b.written \subseteq Writable(b)
           /\ Writable(Load(b, n)) # {} => Cardinality(Load(b, n).written \ b.written) >= n
<1> DEFINE W == Writable(b)
           left == b.selectedCounts.total - b.writtenCounts.total
           k == Smaller(n, left)
           S == Oldest(W, k)
<1>1. /\ b.selectedCounts.total \in Int /\ b.writtenCounts.total \in Int
      /\ b.written \subseteq b.selected /\ IsFiniteSet(b.selected) /\ IsFiniteSet(b.written)
      /\ b.writtenCounts.total = Cardinality(b.written)
      /\ b.selectedCounts.total >= Cardinality(b.selected)
  BY GoodFinite DEF GoodBuffer, BufferType, CountType, Exact, Covered, Tallies, Covers
<1>2. left \in Int /\ k \in Int
  BY <1>1 DEF Smaller
<1>3. W \in SUBSET SOERecord /\ W \in SUBSET b.selected /\ IsFiniteSet(W)
  <2>1. W \in SUBSET SOERecord /\ W \in SUBSET b.selected
    BY DEF Writable, GoodBuffer, BufferType
  <2> QED BY <2>1, <1>1, FS_Subset
<1>4. Load(b, n).selected = b.selected /\ Load(b, n).written = b.written \cup S
  BY DEF Load, GoodBuffer, BufferType
<1>5. S \subseteq W /\ S \cap b.written = {} /\ IsFiniteSet(S)
  BY <1>3, OldestSubset, FS_Subset DEF Writable
<1> HIDE DEF S, k, left
<1>6. Load(b, n).written \ b.written = S /\ Writable(Load(b, n)) = W \ S
  BY <1>4, <1>5 DEF Writable
<1>7. ASSUME W \ S # {} PROVE Cardinality(S) >= n
  <2>1. Cardinality(S) >= k
    BY <1>2, <1>3, <1>7, OldestEnough DEF S
  <2>2. Cardinality(S) < Cardinality(W)
    <3>1. S # W /\ Cardinality(S) <= Cardinality(W) /\ Cardinality(S) # Cardinality(W)
      BY <1>3, <1>5, <1>7, FS_Subset
    <3> QED BY <1>3, <1>5, <3>1, FS_CardinalityType
  <2>3. Cardinality(W) <= left
    <3>1. Cardinality(b.selected \ b.written)
            = Cardinality(b.selected) - Cardinality(b.selected \cap b.written)
      BY <1>1, FS_Difference
    <3>2. b.selected \cap b.written = b.written
      BY <1>1
    <3>3. Cardinality(b.selected) \in Nat /\ Cardinality(b.written) \in Nat
      BY <1>1, FS_CardinalityType
    <3>4. Cardinality(W) = Cardinality(b.selected) - Cardinality(b.written)
      BY <3>1, <3>2 DEF Writable
    <3> DEFINE s == Cardinality(b.selected)
               w == Cardinality(b.written)
               u == Cardinality(W)
    <3>5. left = b.selectedCounts.total - w /\ b.selectedCounts.total >= s
      BY <1>1 DEF left
    <3> HIDE DEF W, s, w, u
    <3>6. u = s - w /\ s \in Nat /\ w \in Nat
      BY <3>3, <3>4 DEF s, w, u
    <3>7. u <= left
      BY <1>1, <3>5, <3>6
    <3> QED BY <3>7 DEF u
  <2>4. k = n \/ k = left
    BY DEF k, Smaller
  <2>5. Cardinality(S) \in Nat /\ Cardinality(W) \in Nat
    BY <1>3, <1>5, FS_CardinalityType
  <2> QED BY <1>2, <2>1, <2>2, <2>3, <2>4, <2>5
<1> QED BY <1>5, <1>6, <1>7

\* Unlinking records takes them out of every set of the buffer.
LEMMA RemoveFields ==
    ASSUME NEW b, GoodBuffer(b), NEW S
    PROVE  /\ RemoveFromCounts(b, S).soe = b.soe \ S
           /\ RemoveFromCounts(b, S).selected = b.selected \ S
           /\ RemoveFromCounts(b, S).written = b.written \ S
           /\ DOMAIN RemoveFromCounts(b, S) = DOMAIN b
BY DEF RemoveFromCounts, GoodBuffer, BufferType

\* The list once it has made room for a new event of the type.
Spared(b, t) == IF MustDiscard(b, t) THEN b.soe \ Oldest(OfType(b.soe, t), 1) ELSE b.soe

\* A new event adds itself to the list, the oldest of its type makes room for
\* it when it must, and nothing becomes selected or written.
LEMMA UpdateFields ==
    ASSUME NEW b, GoodBuffer(b), NEW e \in SOERecord, MaxForType[e.type] # 0
    PROVE  /\ UpdateAny(b, e).soe = Spared(b, e.type) \cup {e}
           /\ UpdateAny(b, e).written \subseteq b.written
           /\ Writable(UpdateAny(b, e)) \subseteq Writable(b)
           /\ MustDiscard(b, e.type) => UpdateAny(b, e).overflow
<1> DEFINE S == Oldest(OfType(b.soe, e.type), 1)
           less == RemoveOldestEventOfType(b, e.type)
           room == IF MustDiscard(b, e.type) THEN [less EXCEPT !.overflow = TRUE] ELSE b
<1>1. /\ less.soe = b.soe \ S
      /\ less.selected = b.selected \ S
      /\ less.written = b.written \ S
      /\ DOMAIN less = DOMAIN b
  BY RemoveFields DEF RemoveOldestEventOfType
<1>2. {"soe", "totalCounts", "overflow"} \subseteq DOMAIN b
  BY DEF GoodBuffer, BufferType
<1> HIDE DEF less
<1>3. /\ room.soe = Spared(b, e.type)
      /\ room.selected = IF MustDiscard(b, e.type) THEN b.selected \ S ELSE b.selected
      /\ room.written = IF MustDiscard(b, e.type) THEN b.written \ S ELSE b.written
      /\ MustDiscard(b, e.type) => room.overflow
      /\ {"soe", "totalCounts", "overflow"} \subseteq DOMAIN room
  BY <1>1, <1>2 DEF Spared
<1>4. UpdateAny(b, e) = [room EXCEPT !.soe = @ \cup {e}, !.totalCounts = Plus(@, {e})]
  BY DEF UpdateAny, less
<1> HIDE DEF room
<1>5. /\ UpdateAny(b, e).soe = room.soe \cup {e}
      /\ UpdateAny(b, e).selected = room.selected
      /\ UpdateAny(b, e).written = room.written
      /\ UpdateAny(b, e).overflow = room.overflow
  BY <1>3, <1>4
<1> HIDE DEF S
<1> QED BY <1>3, <1>5 DEF Writable

----------------------------------------------------------------------------
(* The maxima.                                                             *)

\* No type has more records in the list than its maximum.
Limited(b) == \A t \in EventType : Cardinality(OfType(b.soe, t)) <= MaxForType[t]

Chosen(s) == CHOOSE t \in s : TRUE

\* What TotalEvents adds up, for every set of types.
Adding == CHOOSE iter : iter =
    [s \in SUBSET EventType |->
        IF s = {} THEN 0 ELSE MaxForType[Chosen(s)] + iter[s \ {Chosen(s)}]]

\* f adds up the maxima of every set of at most n types.
AddsUp(f, n) ==
    \A s \in SUBSET EventType : Cardinality(s) <= n =>
        f[s] = IF s = {} THEN 0 ELSE MaxForType[Chosen(s)] + f[s \ {Chosen(s)}]

\* A set of types without the one chosen from it is smaller by one.
LEMMA WithoutChosen ==
    ASSUME NEW s \in SUBSET EventType, s # {}
    PROVE  /\ Chosen(s) \in s
           /\ s \ {Chosen(s)} \in SUBSET EventType
           /\ IsFiniteSet(s)
           /\ Cardinality(s) \in Nat
           /\ Cardinality(s \ {Chosen(s)}) = Cardinality(s) - 1
<1>1. Chosen(s) \in s
  BY DEF Chosen
<1>2. IsFiniteSet(s)
  BY ConfigAssumption, FS_Subset
<1> QED BY <1>1, <1>2, FS_RemoveElement, FS_CardinalityType

\* The sums exist for sets of every size.
LEMMA AddsUpExists == \A n \in Nat : \E f : AddsUp(f, n)
<1> DEFINE T == {n \in Nat : ~ \E f : AddsUp(f, n)}
<1> SUFFICES ASSUME T # {} PROVE FALSE
  OBVIOUS
<1>1. PICK n \in T : \A m \in T : n <= m
  <2>1. T \in SUBSET Nat
    OBVIOUS
  <2> HIDE DEF T
  <2> QED BY <2>1, SmallestExists
<1>2. n \in Nat
  BY <1>1
<1>3. \A s \in SUBSET EventType : Cardinality(s) \in Nat /\ (Cardinality(s) = 0 <=> s = {})
  BY ConfigAssumption, FS_Subset, FS_CardinalityType, FS_EmptySet
<1>4. CASE n = 0
  <2>1. AddsUp([s \in SUBSET EventType |-> 0], 0)
    BY <1>3 DEF AddsUp
  <2> QED BY <1>1, <1>4, <2>1
<1>5. CASE n # 0
  <2>1. n - 1 \in Nat /\ ~(n <= n - 1)
    BY <1>2, <1>5
  <2>2. PICK f : AddsUp(f, n - 1)
    BY <1>1, <2>1
  <2> DEFINE g == [s \in SUBSET EventType |->
                     IF s = {} THEN 0 ELSE MaxForType[Chosen(s)] + f[s \ {Chosen(s)}]]
  <2>3. \A s \in SUBSET EventType : Cardinality(s) <= n - 1 => g[s] = f[s]
    BY <2>2 DEF AddsUp
  <2>4. \A s \in SUBSET EventType : s # {} /\ Cardinality(s) <= n =>
            /\ s \ {Chosen(s)} \in SUBSET EventType
            /\ Cardinality(s \ {Chosen(s)}) <= n - 1
    BY <1>2, WithoutChosen
  <2>5. \A s \in SUBSET EventType : s # {} /\ Cardinality(s) <= n =>
            g[s \ {Chosen(s)}] = f[s \ {Chosen(s)}]
    BY <2>3, <2>4
  <2>6. AddsUp(g, n)
    BY <2>5 DEF AddsUp
  <2> QED BY <1>1, <2>6
<1> QED BY <1>4, <1>5

\* TotalEvents is the sum of the maxima, taken one chosen type at a time.
LEMMA TotalAddsUp ==
    /\ TotalEvents = Adding[EventType]
    /\ \A s \in SUBSET EventType :
         Adding[s] = IF s = {} THEN 0 ELSE MaxForType[Chosen(s)] + Adding[s \ {Chosen(s)}]
<1> DEFINE N == Cardinality(EventType)
           Is(iter) == iter = [s \in SUBSET EventType |->
                         IF s = {} THEN 0 ELSE MaxForType[Chosen(s)] + iter[s \ {Chosen(s)}]]
<1>1. N \in Nat /\ \A s \in SUBSET EventType : Cardinality(s) <= N
  BY ConfigAssumption, FS_CardinalityType, FS_Subset
<1>2. PICK f : AddsUp(f, N)
  BY <1>1, AddsUpExists
<1> DEFINE g == [s \in SUBSET EventType |-> f[s]]
<1>3. \A s \in SUBSET EventType : f[s] = IF s = {} THEN 0 ELSE MaxForType[Chosen(s)] + f[s \ {Chosen(s)}]
  BY <1>1, <1>2 DEF AddsUp
<1>4. \A s \in SUBSET EventType : s # {} => s \ {Chosen(s)} \in SUBSET EventType
  OBVIOUS
<1>5. Is(g)
  BY <1>3, <1>4
<1>6. Is(Adding)
  <2> HIDE DEF Is, g
  <2>1. \E iter : Is(iter)
    BY <1>5
  <2>2. Adding = CHOOSE iter : Is(iter)
    BY DEF Adding, Is
  <2> QED BY <2>1, <2>2
<1>7. DOMAIN MaxForType = EventType
  BY ConfigAssumption
<1>8. TotalEvents = Adding[EventType]
  BY <1>7 DEF TotalEvents, SumFunction, SumFunctionOnSet, FoldFunctionOnSet, MapThenFoldSet, Adding, Chosen
<1> QED BY <1>6, <1>8

\* The records of some types.
OfTypes(S, D) == {e \in S : e.type \in D}

\* The list holds no more records of the types D than their maxima add up to,
\* and as many only when each of them is at its maximum.
FitsIn(S, D) ==
    /\ Adding[D] \in Nat
    /\ Cardinality(OfTypes(S, D)) <= Adding[D]
    /\ Cardinality(OfTypes(S, D)) >= Adding[D] =>
         \A t \in D : Cardinality(OfType(S, t)) = MaxForType[t]

\* What fits type by type fits in total.
LEMMA AllFit ==
    ASSUME NEW S, IsFiniteSet(S),
           \A t \in EventType : Cardinality(OfType(S, t)) <= MaxForType[t]
    PROVE  \A D \in SUBSET EventType : FitsIn(S, D)
<1> DEFINE T == {n \in Nat : \E D \in SUBSET EventType : Cardinality(D) = n /\ ~FitsIn(S, D)}
<1>1. \A D \in SUBSET EventType : IsFiniteSet(D) /\ Cardinality(D) \in Nat
  BY ConfigAssumption, FS_Subset, FS_CardinalityType
<1> SUFFICES ASSUME T # {} PROVE FALSE
  BY <1>1
<1>2. PICK n \in T : \A m \in T : n <= m
  <2>1. T \in SUBSET Nat
    OBVIOUS
  <2> HIDE DEF T
  <2> QED BY <2>1, SmallestExists
<1>3. PICK D \in SUBSET EventType : Cardinality(D) = n /\ ~FitsIn(S, D)
  BY <1>2
<1>4. CASE D = {}
  <2>1. OfTypes(S, D) = {}
    BY <1>4 DEF OfTypes
  <2>2. Adding[D] = 0
    BY <1>4, TotalAddsUp
  <2>3. Cardinality(OfTypes(S, D)) = 0
    BY <2>1, FS_EmptySet
  <2> QED BY <1>3, <1>4, <2>2, <2>3 DEF FitsIn
<1>5. CASE D # {}
  <2> DEFINE c == Chosen(D)
             R == D \ {c}
  <2>1. c \in D /\ R \in SUBSET EventType /\ Cardinality(R) = n - 1 /\ n - 1 \in Nat
    <3>1. c \in D /\ R \in SUBSET EventType /\ Cardinality(R) = Cardinality(D) - 1
      BY <1>5, WithoutChosen
    <3>2. Cardinality(R) \in Nat
      BY <3>1, <1>1
    <3> QED BY <1>3, <3>1, <3>2
  <2>2. FitsIn(S, R)
    <3>1. ~(n - 1 \in T)
      BY <1>2, <2>1
    <3> QED BY <2>1, <3>1
  <2>3. Adding[D] = MaxForType[c] + Adding[R]
    BY <1>5, TotalAddsUp
  <2> HIDE DEF c
  <2>4. OfTypes(S, D) = OfType(S, c) \cup OfTypes(S, R) /\ OfType(S, c) \cap OfTypes(S, R) = {}
    BY <2>1 DEF OfTypes, OfType
  <2>5. IsFiniteSet(OfType(S, c)) /\ IsFiniteSet(OfTypes(S, R))
    <3>1. OfType(S, c) \in SUBSET S /\ OfTypes(S, R) \in SUBSET S
      BY DEF OfType, OfTypes
    <3> QED BY <3>1, FS_Subset
  <2>6. Cardinality(OfTypes(S, D)) = Cardinality(OfType(S, c)) + Cardinality(OfTypes(S, R))
    BY <2>4, <2>5, CardParts
  <2>7. Cardinality(OfType(S, c)) \in Nat /\ Cardinality(OfTypes(S, R)) \in Nat
    BY <2>5, FS_CardinalityType
  <2>8. MaxForType[c] \in Nat /\ Cardinality(OfType(S, c)) <= MaxForType[c]
    BY <2>1, ConfigAssumption
  <2>9. Adding[R] \in Nat /\ Cardinality(OfTypes(S, R)) <= Adding[R]
    BY <2>2 DEF FitsIn
  <2>10. Adding[D] \in Nat /\ Cardinality(OfTypes(S, D)) <= Adding[D]
    BY <2>3, <2>6, <2>7, <2>8, <2>9
  <2>11. ASSUME Cardinality(OfTypes(S, D)) >= Adding[D]
         PROVE  \A t \in D : Cardinality(OfType(S, t)) = MaxForType[t]
    <3>1. Cardinality(OfType(S, c)) = MaxForType[c] /\ Cardinality(OfTypes(S, R)) >= Adding[R]
      BY <2>3, <2>6, <2>7, <2>8, <2>9, <2>11
    <3>2. \A t \in R : Cardinality(OfType(S, t)) = MaxForType[t]
      BY <2>2, <3>1 DEF FitsIn
    <3> QED BY <3>1, <3>2
  <2>12. FitsIn(S, D)
    BY <2>10, <2>11 DEF FitsIn
  <2> QED BY <1>3, <2>12
<1> QED BY <1>4, <1>5

\* When a new event makes the buffer discard one, its type is at its maximum:
\* the total runs out only when every type has.
LEMMA DiscardsAtMaximum ==
    ASSUME NEW b, GoodBuffer(b), Limited(b), NEW t \in EventType, MustDiscard(b, t)
    PROVE  Cardinality(OfType(b.soe, t)) = MaxForType[t]
<1>1. /\ MaxForType[t] \in Nat
      /\ Cardinality(OfType(b.soe, t)) \in Nat
      /\ Cardinality(OfType(b.soe, t)) <= MaxForType[t]
      /\ b.totalCounts.type[t] = Cardinality(OfType(b.soe, t))
  BY ConfigAssumption, PartsFinite DEF GoodBuffer, Exact, Tallies, Limited
<1>2. CASE b.totalCounts.type[t] >= MaxForType[t]
  BY <1>1, <1>2
<1>3. CASE IsFull(b)
  <2>1. OfTypes(b.soe, EventType) = b.soe
    BY DEF OfTypes, GoodBuffer, BufferType, SOERecord
  <2>2. FitsIn(b.soe, EventType)
    BY AllFit DEF Limited, GoodBuffer
  <2> QED BY <1>3, <2>1, <2>2, TotalAddsUp DEF FitsIn, IsFull
<1> QED BY <1>2, <1>3 DEF MustDiscard

\* A new event keeps every type within its maximum.
LEMMA UpdateLimited ==
    ASSUME NEW b, GoodBuffer(b), Limited(b), NEW e \in SOERecord
    PROVE  Limited(UpdateAny(b, e))
<1> DEFINE r == UpdateAny(b, e)
           O == Oldest(OfType(b.soe, e.type), 1)
<1>1. CASE MaxForType[e.type] = 0
  BY <1>1 DEF UpdateAny
<1>2. CASE MaxForType[e.type] # 0
  <2>1. r.soe = Spared(b, e.type) \cup {e}
    BY <1>2, UpdateFields
  <2> HIDE DEF r
  <2>2. IsFiniteSet(b.soe) /\ b.soe \in SUBSET SOERecord /\ e.type \in EventType
    BY DEF GoodBuffer, BufferType, SOERecord
  <2>3. Spared(b, e.type) \in SUBSET b.soe /\ IsFiniteSet(Spared(b, e.type))
    <3>1. Spared(b, e.type) \in SUBSET b.soe
      BY DEF Spared
    <3> QED BY <2>2, <3>1, FS_Subset
  <2>4. ASSUME NEW t \in EventType, t # e.type
        PROVE  Cardinality(OfType(r.soe, t)) <= MaxForType[t]
    <3>1. OfType(r.soe, t) \in SUBSET OfType(b.soe, t)
      BY <2>1, <2>3, <2>4 DEF OfType
    <3>2. IsFiniteSet(OfType(b.soe, t))
      BY <2>2, PartsFinite
    <3>3. Cardinality(OfType(r.soe, t)) <= Cardinality(OfType(b.soe, t))
      BY <3>1, <3>2, FS_Subset
    <3>4. /\ Cardinality(OfType(b.soe, t)) \in Nat
          /\ Cardinality(OfType(r.soe, t)) \in Nat
          /\ MaxForType[t] \in Nat
          /\ Cardinality(OfType(b.soe, t)) <= MaxForType[t]
      BY <3>1, <3>2, FS_Subset, FS_CardinalityType, ConfigAssumption DEF Limited
    <3> QED BY <3>3, <3>4
  <2>5. Cardinality(OfType(r.soe, e.type)) <= MaxForType[e.type]
    <3> DEFINE K == OfType(Spared(b, e.type), e.type)
               B == OfType(b.soe, e.type)
    <3>1. OfType(r.soe, e.type) = K \cup {e}
      BY <2>1 DEF OfType
    <3>2. IsFiniteSet(K) /\ IsFiniteSet(B) /\ Cardinality(K) \in Nat /\ Cardinality(B) \in Nat
      BY <2>2, <2>3, PartsFinite
    <3>3. Cardinality(OfType(r.soe, e.type)) <= Cardinality(K) + 1
      <4>1. Cardinality(K \cup {e}) = IF e \in K THEN Cardinality(K) ELSE Cardinality(K) + 1
        BY <3>2, FS_AddElement
      <4> HIDE DEF K
      <4> QED BY <3>1, <3>2, <4>1
    <3>4. MaxForType[e.type] \in Nat
      BY <2>2, ConfigAssumption
    <3>5. Cardinality(K) < MaxForType[e.type]
      <4>1. CASE MustDiscard(b, e.type)
        <5>1. Cardinality(B) = MaxForType[e.type]
          BY <2>2, <4>1, DiscardsAtMaximum
        <5>2. B # {} /\ B \in SUBSET SOERecord
          BY <1>2, <2>2, <5>1, FS_EmptySet DEF OfType
        <5>3. O # {} /\ O \subseteq B
          BY <5>2, OldestExists, OldestSubset
        <5>4. K = B \ O
          BY <4>1 DEF Spared, OfType
        <5>5. K \in SUBSET B /\ K # B
          BY <5>3, <5>4
        <5>6. Cardinality(K) <= Cardinality(B) /\ Cardinality(K) # Cardinality(B)
          BY <3>2, <5>5, FS_Subset
        <5> QED BY <3>2, <5>1, <5>6
      <4>2. CASE ~MustDiscard(b, e.type)
        <5>1. K = B
          BY <4>2 DEF Spared
        <5>2. b.totalCounts.type[e.type] = Cardinality(B)
          BY <2>2 DEF GoodBuffer, Exact, Tallies
        <5>3. ~(b.totalCounts.type[e.type] >= MaxForType[e.type])
          BY <4>2 DEF MustDiscard
        <5> HIDE DEF K, B
        <5> QED BY <3>2, <3>4, <5>1, <5>2, <5>3
      <4> QED BY <4>1, <4>2
    <3>6. Cardinality(OfType(r.soe, e.type)) \in Nat
      BY <3>1, <3>2, FS_AddElement, FS_CardinalityType
    <3> HIDE DEF K
    <3> QED BY <3>2, <3>3, <3>4, <3>5, <3>6
  <2> QED BY <2>4, <2>5 DEF Limited, r
<1> QED BY <1>1, <1>2

\* A buffer with fewer records is within the maxima too.
LEMMA FewerLimited ==
    ASSUME NEW b, NEW c, IsFiniteSet(b.soe), Limited(b), c.soe \subseteq b.soe
    PROVE  Limited(c)
<1> SUFFICES ASSUME NEW t \in EventType
             PROVE  Cardinality(OfType(c.soe, t)) <= MaxForType[t]
  BY DEF Limited
<1>1. OfType(c.soe, t) \in SUBSET OfType(b.soe, t)
  BY DEF OfType
<1>2. IsFiniteSet(OfType(b.soe, t))
  BY PartsFinite
<1>3. /\ Cardinality(OfType(c.soe, t)) <= Cardinality(OfType(b.soe, t))
      /\ Cardinality(OfType(c.soe, t)) \in Nat
      /\ Cardinality(OfType(b.soe, t)) \in Nat
  BY <1>1, <1>2, FS_Subset, FS_CardinalityType
<1> QED BY <1>3, ConfigAssumption DEF Limited

\* The list as a whole never has more records than the maxima add up to.
LEMMA WithinTotal ==
    ASSUME NEW b, GoodBuffer(b), Limited(b)
    PROVE  TotalEvents \in Nat /\ Cardinality(b.soe) <= TotalEvents
<1>1. OfTypes(b.soe, EventType) = b.soe
  BY DEF OfTypes, GoodBuffer, BufferType, SOERecord
<1>2. FitsIn(b.soe, EventType)
  BY AllFit DEF Limited, GoodBuffer
<1> QED BY <1>1, <1>2, TotalAddsUp DEF FitsIn

\* ClearWritten takes what was written, and leaves what is still to be written.
LEMMA ClearFields ==
    ASSUME NEW b, GoodBuffer(b)
    PROVE  /\ ClearWritten(b).soe = b.soe \ b.written
           /\ ClearWritten(b).written = {}
           /\ Writable(ClearWritten(b)) = Writable(b)
<1>1. /\ ClearWritten(b).soe = b.soe \ b.written
      /\ ClearWritten(b).selected = b.selected \ b.written
      /\ ClearWritten(b).written = b.written \ b.written
  BY RemoveFields DEF ClearWritten
<1> QED BY <1>1 DEF Writable

\* A selection of classes takes nothing out of the list and writes nothing.
LEMMA SelectAllFields ==
    ASSUME NEW b, GoodBuffer(b), NEW C
    PROVE  /\ GoodBuffer(SelectAllByClass(b, C))
           /\ SelectAllByClass(b, C).soe = b.soe
           /\ SelectAllByClass(b, C).written = b.written
<1>1. SelectAllByClass(b, C).written = b.written
  BY DEF SelectAllByClass, SelectByClass, SelectRecords, GoodBuffer, BufferType
<1> QED BY <1>1, SelectHeadersGood DEF SelectAllByClass

\* What may be written is in the list.
LEMMA WritableInList ==
    ASSUME NEW b, GoodBuffer(b), Limited(b)
    PROVE  /\ IsFiniteSet(Writable(b)) /\ Cardinality(Writable(b)) \in Nat
           /\ Cardinality(Writable(b)) <= TotalEvents
<1>1. Writable(b) \in SUBSET b.soe /\ IsFiniteSet(b.soe)
  BY DEF Writable, GoodBuffer, Exact
<1>2. IsFiniteSet(Writable(b)) /\ Cardinality(Writable(b)) <= Cardinality(b.soe)
  BY <1>1, FS_Subset
<1>3. Cardinality(Writable(b)) \in Nat /\ Cardinality(b.soe) \in Nat
  BY <1>1, <1>2, FS_CardinalityType
<1> QED BY <1>2, <1>3, WithinTotal

\* An empty buffer is within the maxima.
LEMMA EmptyLimited == Limited(EmptyBuffer)
<1> SUFFICES ASSUME NEW t \in EventType
             PROVE  Cardinality(OfType(EmptyBuffer.soe, t)) <= MaxForType[t]
  BY DEF Limited
<1>1. OfType(EmptyBuffer.soe, t) = {}
  BY DEF OfType, EmptyBuffer
<1>2. MaxForType[t] \in Nat
  BY ConfigAssumption
<1> QED BY <1>1, <1>2, FS_EmptySet
=============================================================================
