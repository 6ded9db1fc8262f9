------------------------------ MODULE FoldSteps ------------------------------
(***************************************************************************)
(* Induction over a fold from the left, for any step and any invariant of  *)
(* it.  Step(k, x, e) takes the element e into x, Holds(k, i, x) is what   *)
(* holds of x after i elements; k stands for what does not change.  Both   *)
(* are given where this module is instantiated.                            *)
(***************************************************************************)
EXTENDS Integers, WellFoundedInduction, TLAPS

CONSTANTS Step(_, _, _), Holds(_, _, _)

\* Induction over the natural numbers, for a set of them.
LEMMA Induction ==
    ASSUME NEW T \in SUBSET Nat, 0 \in T, \A n \in T : n + 1 \in T
    PROVE  T = Nat
<1> DEFINE Less == {ss \in Nat \X Nat : ss[1] < ss[2]}
<1>1. IsWellFoundedOn(Less, Nat)
  <2>1. OpToRel(<, Nat) = Less
    BY DEF OpToRel
  <2> QED BY <2>1, NatLessThanWellFounded
<1>2. \A u, v \in Nat : u < v => <<u, v>> \in Less
  OBVIOUS
<1> HIDE DEF Less
<1> SUFFICES ASSUME Nat \ T # {} PROVE FALSE
  OBVIOUS
<1>3. PICK x \in Nat \ T : \A y \in Nat \ T : ~(<<y, x>> \in Less)
  BY <1>1, WFMin
<1>4. x # 0 /\ x - 1 \in Nat /\ x \in Nat /\ x - 1 < x /\ (x - 1) + 1 = x
  BY <1>3
<1>5. x - 1 \in T
  BY <1>2, <1>3, <1>4
<1> QED BY <1>3, <1>4, <1>5

Largest(d) == CHOOSE x \in d : \A y \in d : x >= y

\* The function that FoldLeft applies, over the sets of positions of s: it
\* takes the positions from the last one down.
Folding(k, b, s) ==
    CHOOSE iter : iter = [d \in SUBSET DOMAIN s |->
        IF d = {} THEN b ELSE Step(k, iter[d \ {Largest(d)}], s[Largest(d)])]

\* FoldLeft of the step over s, from b.
Folded(k, b, s) == Folding(k, b, s)[DOMAIN s]

\* What Folding gives for each set of positions.
Follows(f, k, b, s, n) ==
    \A d \in SUBSET (1 .. n) :
        f[d] = IF d = {} THEN b ELSE Step(k, f[d \ {Largest(d)}], s[Largest(d)])

\* The largest of a set of positions that has the last one.
LEMMA LargestIsLast ==
    ASSUME NEW n \in Nat, NEW d \in SUBSET (1 .. n), n \in d
    PROVE  Largest(d) = n
<1>1. n \in d /\ \A y \in d : n >= y
  OBVIOUS
<1>2. \A x \in d : (\A y \in d : x >= y) => x = n
  OBVIOUS
<1> QED BY <1>1, <1>2 DEF Largest

\* Folding is defined: a function of each length gives one of the next.
LEMMA FoldingDefined ==
    ASSUME NEW k, NEW b, NEW n \in Nat, NEW s, DOMAIN s = 1 .. n
    PROVE  Follows(Folding(k, b, s), k, b, s, n)
<1> DEFINE Is(f, m) == f = [d \in SUBSET (1 .. m) |->
                          IF d = {} THEN b ELSE Step(k, f[d \ {Largest(d)}], s[Largest(d)])]
           T == {m \in Nat : \E f : Is(f, m)}
<1>1. 0 \in T
  <2> DEFINE f == [d \in SUBSET (1 .. 0) |-> b]
  <2>1. \A d \in SUBSET (1 .. 0) : d = {}
    OBVIOUS
  <2>2. Is(f, 0)
    BY <2>1
  <2> HIDE DEF Is
  <2> QED BY <2>2
<1>2. ASSUME NEW m \in T PROVE m + 1 \in T
  <2>1. PICK f : Is(f, m)
    OBVIOUS
  <2> DEFINE g == [d \in SUBSET (1 .. m + 1) |->
                     IF m + 1 \in d THEN Step(k, f[d \ {m + 1}], s[m + 1]) ELSE f[d]]
  <2>2. m \in Nat
    OBVIOUS
  <2>3. \A d \in SUBSET (1 .. m + 1) :
          m + 1 \in d => Largest(d) = m + 1 /\ d \ {m + 1} \in SUBSET (1 .. m)
    BY <2>2, LargestIsLast
  <2>4. \A d \in SUBSET (1 .. m + 1) : m + 1 \notin d => d \in SUBSET (1 .. m)
    BY <2>2
  <2>5. \A d \in SUBSET (1 .. m) : d \in SUBSET (1 .. m + 1) /\ m + 1 \notin d
    BY <2>2
  <2>6. \A d \in SUBSET (1 .. m) : g[d] = f[d]
    BY <2>5
  <2>7. \A d \in SUBSET (1 .. m) :
          f[d] = IF d = {} THEN b ELSE Step(k, f[d \ {Largest(d)}], s[Largest(d)])
    BY <2>1
  <2>8. ASSUME NEW d \in SUBSET (1 .. m + 1)
        PROVE  g[d] = IF d = {} THEN b ELSE Step(k, g[d \ {Largest(d)}], s[Largest(d)])
    <3>1. CASE m + 1 \in d
      <4>1. g[d] = Step(k, f[d \ {m + 1}], s[m + 1])
        BY <3>1
      <4>2. g[d \ {m + 1}] = f[d \ {m + 1}]
        BY <2>3, <2>6, <3>1
      <4> HIDE DEF g
      <4> QED BY <2>3, <3>1, <4>1, <4>2
    <3>2. CASE m + 1 \notin d
      <4>1. d \in SUBSET (1 .. m) /\ d \ {Largest(d)} \in SUBSET (1 .. m)
        BY <2>4, <3>2
      <4> HIDE DEF g, Is
      <4> QED BY <2>6, <2>7, <4>1
    <3> QED BY <3>1, <3>2
  <2>9. Is(g, m + 1)
    <3> DEFINE F(d) == IF d = {} THEN b ELSE Step(k, g[d \ {Largest(d)}], s[Largest(d)])
    <3>1. g = [d \in SUBSET (1 .. m + 1) |-> g[d]]
      OBVIOUS
    <3>2. \A d \in SUBSET (1 .. m + 1) : g[d] = F(d)
      BY <2>8
    <3> HIDE DEF g, F
    <3>3. g = [d \in SUBSET (1 .. m + 1) |-> F(d)]
      BY <3>1, <3>2
    <3> QED BY <3>3 DEF F
  <2> HIDE DEF Is, g
  <2> QED BY <2>2, <2>9
<1>3. T = Nat
  <2> HIDE DEF T
  <2>1. T \in SUBSET Nat
    BY DEF T
  <2> QED BY <1>1, <1>2, <2>1, Induction
<1>4. \E f : Is(f, n)
  BY <1>3
<1>5. Is(Folding(k, b, s), n)
  BY <1>4 DEF Folding
<1> QED BY <1>5 DEF Follows

\* What holds of the base, and is kept by each element in turn, holds of the
\* whole fold.
LEMMA FoldInduction ==
    ASSUME NEW k, NEW b, NEW n \in Nat, NEW s, DOMAIN s = 1 .. n,
           Holds(k, 0, b),
           \A i \in 1 .. n : \A x : Holds(k, i - 1, x) => Holds(k, i, Step(k, x, s[i]))
    PROVE  Holds(k, n, Folded(k, b, s))
<1> DEFINE F == Folding(k, b, s)
           T == {i \in Nat : i <= n => Holds(k, i, F[1 .. i])}
<1>1. Follows(F, k, b, s, n)
  BY FoldingDefined
<1> HIDE DEF F
<1>2. 0 \in T
  <2>1. 1 .. 0 = {} /\ {} \in SUBSET (1 .. n)
    OBVIOUS
  <2>2. F[{}] = b
    BY <1>1, <2>1 DEF Follows
  <2> QED BY <2>1, <2>2
<1>3. ASSUME NEW i \in T PROVE i + 1 \in T
  <2> SUFFICES ASSUME i + 1 <= n PROVE Holds(k, i + 1, F[1 .. i + 1])
    OBVIOUS
  <2>1. /\ i + 1 \in 1 .. n /\ (i + 1) - 1 = i /\ i + 1 \in Nat
        /\ 1 .. i + 1 \in SUBSET (1 .. n) /\ i + 1 \in 1 .. i + 1
        /\ (1 .. i + 1) \ {i + 1} = 1 .. i
    OBVIOUS
  <2>2. Largest(1 .. i + 1) = i + 1
    BY <2>1, LargestIsLast
  <2>3. F[1 .. i + 1] = Step(k, F[1 .. i], s[i + 1])
    BY <1>1, <2>1, <2>2 DEF Follows
  <2>4. Holds(k, i, F[1 .. i])
    BY <2>1
  <2>5. Holds(k, i + 1, Step(k, F[1 .. i], s[i + 1]))
    <3> HIDE DEF T
    <3> QED BY <2>1, <2>4
  <2> QED BY <2>3, <2>5
<1>4. T = Nat
  <2> HIDE DEF T
  <2>1. T \in SUBSET Nat
    BY DEF T
  <2> QED BY <1>2, <1>3, <2>1, Induction
<1>5. Holds(k, n, F[1 .. n])
  BY <1>4
<1> QED BY <1>5 DEF Folded, F
=============================================================================
